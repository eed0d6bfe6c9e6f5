------------------------- MODULE LabelRegistryProofs -------------------------
(***************************************************************************)
(* Proofs about LabelRegistry: its types, that a process which serves has  *)
(* all managed labels, and that the registry has them after a full sync.   *)
(***************************************************************************)
EXTENDS LabelRegistry, FiniteSetTheorems, TLAPS

-----------------------------------------------------------------------------
(* Tables.                                                                 *)

LEMMA NoRows == DOMAIN <<>> = {}
  OBVIOUS

\* The parts of a merged table of labels are labels with their names.
LEMMA UpsertedTable ==
    ASSUME NEW t, NEW u, IsTable(t), IsTable(u)
    PROVE  IsTable(Upserted(t, u))
  BY DEF IsTable, Upserted

LEMMA RowTable ==
    ASSUME NEW id \in Ids, NEW n \in Names
    PROVE  IsTable(Row(id, n))
  BY DEF IsTable, Row

LEMMA EmptyTable == IsTable(<<>>)
  BY NoRows DEF IsTable

\* The keys of labels.toml name labels.
LEMMA KeysHaveNames ==
    /\ Len(ConfigKeys) \in Nat
    /\ \A i \in 1..Len(ConfigKeys) : ConfigKeys[i] \in KeySet
    /\ \A k \in KeySet : NameOf[k] \in Names
  BY RegistryAssumption DEF RegistryAssumption

\* The labels of a mock are numbered from one, and the next id is free.
LEMMA MockIsTable ==
    /\ IsTable(MockLabels)
    /\ Cardinality(DOMAIN MockLabels) + 1 \in 1..(MaxIds + 1)
    /\ \A id \in DOMAIN MockLabels : id < Cardinality(DOMAIN MockLabels) + 1
<1>1. PICK n \in 0..MaxIds : MockLabels \in [1..n -> Names]
  BY RegistryAssumption DEF RegistryAssumption
<1>2. Cardinality(1..n) = n
  BY <1>1, FS_Interval, RegistryAssumption DEF RegistryAssumption
<1> QED
  BY <1>1, <1>2, RegistryAssumption DEF RegistryAssumption, IsTable, Ids

\* The account that a process finds first: that of a mock, or none or one label.
LEMMA InitialAccount ==
    ASSUME Init
    PROVE  /\ IsTable(gmail)
           /\ nextId \in 1..(MaxIds + 1)
           /\ \A id \in DOMAIN gmail : id < nextId
<1>1. CASE gmail = MockLabels
  BY <1>1, MockIsTable DEF Init
<1>2. CASE gmail = <<>>
  <2>1. DOMAIN gmail = {}
    BY <1>2, NoRows
  <2>2. nextId = 1
    BY <2>1, FS_EmptySet DEF Init
  <2> QED
    BY <2>1, <2>2, RegistryAssumption DEF RegistryAssumption, IsTable
<1>3. ASSUME NEW n \in Names, gmail = Row(1, n)
      PROVE  /\ IsTable(gmail)
             /\ nextId \in 1..(MaxIds + 1)
             /\ \A id \in DOMAIN gmail : id < nextId
  <2>1. 1 \in Ids
    BY RegistryAssumption DEF RegistryAssumption, Ids
  <2>2. DOMAIN gmail = {1}
    BY <1>3 DEF Row
  <2>3. Cardinality(DOMAIN gmail) = 1
    BY <2>2, FS_Singleton
  <2>4. nextId = 2
    BY <2>3 DEF Init
  <2> QED
    BY <1>3, <2>1, <2>2, <2>4, RowTable, RegistryAssumption DEF RegistryAssumption
<1>4. gmail \in {MockLabels} \/ gmail \in {<<>>} \cup {Row(1, n) : n \in Names}
  BY DEF Init
<1> QED
  BY <1>1, <1>2, <1>3, <1>4

-----------------------------------------------------------------------------
(* Types.                                                                  *)

LEMMA TypeInit == Init => TypeOK
<1> SUFFICES ASSUME Init PROVE TypeOK
  OBVIOUS
<1>1. IsTable(gmail) /\ nextId \in 1..(MaxIds + 1)
  BY InitialAccount
<1>2. IsTable(registry) /\ DOMAIN existing = {} /\ DOMAIN keyToId = {}
  BY EmptyTable, NoRows DEF Init
<1>3. DOMAIN listed = Jobs /\ \A j \in Jobs : listed[j] = NotListed
  BY DEF Init
<1>4. \A j \in Jobs : listed[j].taken \in BOOLEAN /\ IsTable(listed[j].labels)
  <2>1. NotListed.taken = FALSE /\ NotListed.labels = <<>>
    BY DEF NotListed
  <2> QED
    BY <1>3, <2>1, EmptyTable
<1>5. pos \in 1..(Len(ConfigKeys) + 1)
  BY KeysHaveNames DEF Init
<1>6. changes \in 0..MaxChanges /\ failures \in 0..MaxFailures
  BY RegistryAssumption DEF RegistryAssumption, Init
<1> QED
  BY <1>1, <1>2, <1>3, <1>4, <1>5, <1>6 DEF Init, TypeOK

\* A new label keeps the account a table.
LEMMA NewLabelType ==
    ASSUME TypeOK, NEW n \in Names, NewLabel(n)
    PROVE  /\ IsTable(gmail') /\ nextId' \in 1..(MaxIds + 1)
           /\ nextId \in Ids
<1>1. nextId \in Ids
  BY RegistryAssumption DEF TypeOK, NewLabel, Ids, RegistryAssumption
<1>2. IsTable(gmail')
  BY <1>1, RowTable, UpsertedTable DEF NewLabel, TypeOK
<1>3. nextId' \in 1..(MaxIds + 1)
  BY RegistryAssumption DEF TypeOK, NewLabel, RegistryAssumption
<1> QED
  BY <1>1, <1>2, <1>3

\* Recording the label of the current key.
LEMMA RecordType ==
    ASSUME TypeOK, NEW k \in KeySet, NEW id \in Ids, AtKey(k), Record(k, id),
           IsTable(gmail'), nextId' \in 1..(MaxIds + 1)
    PROVE  TypeOK'
<1>1. pos' \in 1..(Len(ConfigKeys) + 1)
  BY KeysHaveNames DEF TypeOK, AtKey, Record
<1>2. /\ DOMAIN keyToId' \subseteq KeySet
      /\ \A x \in DOMAIN keyToId' : keyToId'[x] \in Ids
  BY DEF TypeOK, Record, Upserted, Row
<1>3. UNCHANGED <<demo, registry, phase, existing, listed, request, synced, boundVars>>
  BY DEF Record
<1> QED
  BY <1>1, <1>2, <1>3 DEF TypeOK, boundVars, IsTable

LEMMA TypeStep == TypeOK /\ [Next]_vars => TypeOK'
<1> SUFFICES ASSUME TypeOK, [Next]_vars PROVE TypeOK'
  OBVIOUS
<1>1. CASE StartApp
  <2>1. DOMAIN existing' = {} /\ DOMAIN keyToId' = {}
    BY <1>1, NoRows DEF StartApp
  <2>2. IsTable(gmail') /\ nextId' \in 1..(MaxIds + 1)
    BY <1>1, MockIsTable DEF StartApp, TypeOK
  <2>3. pos' \in 1..(Len(ConfigKeys) + 1)
    BY <1>1, KeysHaveNames DEF StartApp
  <2> QED
    BY <1>1, <2>1, <2>2, <2>3 DEF StartApp, TypeOK, boundVars, IsTable
<1>2. CASE ListExisting
  <2>1. /\ DOMAIN existing' \subseteq Names
        /\ \A n \in DOMAIN existing' : existing'[n] \in Ids
    BY <1>2 DEF ListExisting, TypeOK, IsTable
  <2> QED
    BY <1>2, <2>1 DEF ListExisting, TypeOK, accountVars, IsTable
<1>3. CASE Serve
  BY <1>3 DEF Serve, TypeOK, accountVars, boundVars, IsTable
<1>4. ASSUME NEW k \in KeySet, KeepLabel(k) PROVE TypeOK'
  <2>1. existing[NameOf[k]] \in Ids
    BY <1>4 DEF KeepLabel, TypeOK
  <2>2. IsTable(gmail') /\ nextId' \in 1..(MaxIds + 1)
    BY <1>4 DEF KeepLabel, TypeOK, accountVars, IsTable
  <2> QED
    BY <1>4, <2>1, <2>2, RecordType DEF KeepLabel
<1>5. ASSUME NEW k \in KeySet, CreateMissing(k) PROVE TypeOK'
  <2>1. CASE NewLabel(NameOf[k]) /\ Record(k, nextId)
    BY <1>5, <2>1, KeysHaveNames, NewLabelType, RecordType DEF CreateMissing
  <2>2. ASSUME NEW id \in IdsOf(gmail, NameOf[k]), Record(k, id), UNCHANGED accountVars
        PROVE  TypeOK'
    <3>1. id \in Ids
      BY <2>2 DEF IdsOf, TypeOK, IsTable
    <3>2. IsTable(gmail') /\ nextId' \in 1..(MaxIds + 1)
      BY <2>2 DEF TypeOK, accountVars, IsTable
    <3> QED
      BY <1>5, <2>2, <3>1, <3>2, RecordType DEF CreateMissing
  <2> QED
    BY <1>5, <2>1, <2>2 DEF CreateMissing
<1>6. ASSUME NEW k \in KeySet, CreateRefused(k) PROVE TypeOK'
  BY <1>6 DEF CreateRefused, TypeOK, accountVars, boundVars, IsTable
<1>7. ASSUME NEW j \in Jobs, ListLabels(j) PROVE TypeOK'
  BY <1>7 DEF ListLabels, TypeOK, accountVars, startVars, boundVars, IsTable
<1>8. ASSUME NEW j \in Jobs, WriteRegistry(j) PROVE TypeOK'
  <2>1. IsTable(registry')
    BY <1>8, UpsertedTable DEF WriteRegistry, UpsertMany, TypeOK
  <2>2. /\ DOMAIN listed' = Jobs
        /\ \A i \in Jobs : listed'[i].taken \in BOOLEAN /\ IsTable(listed'[i].labels)
    BY <1>8, EmptyTable DEF WriteRegistry, TypeOK, NotListed
  <2> QED
    BY <1>8, <2>1, <2>2 DEF WriteRegistry, TypeOK, accountVars, startVars, boundVars, IsTable
<1>9. ASSUME NEW j \in Jobs, SyncFails(j) PROVE TypeOK'
  <2>1. PICK ids \in SUBSET DOMAIN listed[j].labels :
            UpsertMany([id \in ids |-> listed[j].labels[id]])
    BY <1>9 DEF SyncFails
  <2>2. IsTable([id \in ids |-> listed[j].labels[id]])
    BY <2>1 DEF TypeOK, IsTable
  <2>3. IsTable(registry')
    BY <2>1, <2>2, UpsertedTable DEF UpsertMany, TypeOK
  <2>4. /\ DOMAIN listed' = Jobs
        /\ \A i \in Jobs : listed'[i].taken \in BOOLEAN /\ IsTable(listed'[i].labels)
    BY <1>9, EmptyTable DEF SyncFails, TypeOK, NotListed
  <2> QED
    BY <1>9, <2>3, <2>4, RegistryAssumption
       DEF SyncFails, Failure, TypeOK, accountVars, startVars, IsTable, RegistryAssumption
<1>10. ASSUME NEW n \in Names, CreateLabel(n) PROVE TypeOK'
  <2>1. /\ IsTable(gmail') /\ nextId' \in 1..(MaxIds + 1)
        /\ request'.id \in Ids /\ request'.name \in Names
    <3>1. CASE NewLabel(n) /\ request' = [id |-> nextId, name |-> n]
      BY <3>1, NewLabelType
    <3>2. CASE /\ \E id \in IdsOf(gmail, n) : request' = [id |-> id, name |-> n]
               /\ UNCHANGED accountVars
      BY <3>2 DEF TypeOK, accountVars, IdsOf, IsTable
    <3> QED
      BY <1>10, <3>1, <3>2 DEF CreateLabel
  <2> QED
    BY <1>10, <2>1 DEF CreateLabel, TypeOK, startVars, boundVars, IsTable
<1>11. ASSUME OwnerChange, IsTable(gmail'), nextId' \in 1..(MaxIds + 1) PROVE TypeOK'
  BY <1>11, RegistryAssumption DEF OwnerChange, TypeOK, startVars, IsTable, RegistryAssumption
<1>12. ASSUME NEW n \in Names, OwnerCreates(n) PROVE TypeOK'
  BY <1>11, <1>12, NewLabelType DEF OwnerCreates
<1>13. ASSUME NEW id \in Ids, OwnerDeletes(id) PROVE TypeOK'
  <2>1. IsTable(gmail') /\ nextId' \in 1..(MaxIds + 1)
    BY <1>13 DEF OwnerDeletes, TypeOK, IsTable
  <2> QED
    BY <1>11, <1>13, <2>1 DEF OwnerDeletes
<1>14. ASSUME NEW id \in Ids, NEW n \in Names, OwnerRenames(id, n) PROVE TypeOK'
  <2>1. IsTable(gmail') /\ nextId' \in 1..(MaxIds + 1)
    BY <1>14 DEF OwnerRenames, TypeOK, IsTable
  <2> QED
    BY <1>11, <1>14, <2>1 DEF OwnerRenames
<1>15. CASE RegisterLabel
  <2>1. request.id \in Ids /\ request.name \in Names
    BY <1>15 DEF RegisterLabel, TypeOK
  <2>2. IsTable(registry')
    BY <1>15, <2>1, RowTable, UpsertedTable DEF RegisterLabel, UpsertMany, TypeOK
  <2> QED
    BY <1>15, <2>2 DEF RegisterLabel, TypeOK, accountVars, startVars, boundVars, IsTable
<1>16. CASE RegisterFails
  BY <1>16, RegistryAssumption
     DEF RegisterFails, Failure, TypeOK, accountVars, startVars, IsTable, RegistryAssumption
<1>17. CASE Crash
  <2>1. /\ DOMAIN listed' = Jobs
        /\ \A i \in Jobs : listed'[i].taken \in BOOLEAN /\ IsTable(listed'[i].labels)
    BY <1>17, EmptyTable DEF Crash, NotListed
  <2> QED
    BY <1>17, <2>1, RegistryAssumption
       DEF Crash, Failure, TypeOK, accountVars, IsTable, RegistryAssumption
<1>18. CASE UNCHANGED vars
  BY <1>18 DEF TypeOK, vars, accountVars, startVars, boundVars, IsTable
<1> QED
  BY <1>1, <1>2, <1>3, <1>4, <1>5, <1>6, <1>7, <1>8, <1>9, <1>10, <1>12, <1>13, <1>14,
     <1>15, <1>16, <1>17, <1>18 DEF Next, Starting

\* Every variable keeps its type: the tables hold labels under the ids given out.
THEOREM RegistryTypeCorrect == Spec => []TypeOK
<1>1. TypeOK /\ [Next]_vars => TypeOK'
  BY TypeStep
<1> QED
  BY <1>1, TypeInit, PTL DEF Spec

-----------------------------------------------------------------------------
(* The managed labels.  While the owner has not changed labels since the   *)
(* start read them, nothing that the start has read or recorded is lost:   *)
(* Gmail only gets new labels, under ids that nobody has.                  *)

\* Gmail has all labels of t, under their names.
Agrees(t) == \A id \in DOMAIN t : id \in DOMAIN gmail /\ gmail[id] = t[id]

\* The table has the labels cached for the first n keys.
Managed(t, n) ==
    \A i \in 1..n : LET k == ConfigKeys[i] IN
        /\ k \in DOMAIN keyToId
        /\ keyToId[k] \in DOMAIN t
        /\ t[keyToId[k]] = NameOf[k]

FreshId == \A id \in DOMAIN gmail : id < nextId

\* What the start has read and recorded so far is still so.
Undisturbed == phase \in {"create", "up"} /\ ~touched
StartInv ==
    Undisturbed => /\ \A n \in DOMAIN existing : existing[n] \in DOMAIN gmail /\ gmail[existing[n]] = n
                   /\ Managed(gmail, pos - 1)

LoopInv == /\ phase = "list" => pos = 1
           /\ phase = "up" => pos = Len(ConfigKeys) + 1

\* A process that does not serve has no sync and no form under way, and
\* forgets that there was a sync.
QuietUnlessUp ==
    /\ phase # "up" => request = NoRequest /\ \A j \in Jobs : ~listed[j].taken
    /\ phase \in {"list", "create"} => ~synced

\* What a sync or a form is about to write is in Gmail; a listing was made
\* after the start and has the managed labels.
PendingAgrees ==
    (phase = "up" /\ ~touched) =>
        /\ request # NoRequest => Agrees(Row(request.id, request.name))
        /\ \A j \in Jobs : listed[j].taken =>
              Agrees(listed[j].labels) /\ Managed(listed[j].labels, Len(ConfigKeys))

RegistryInv ==
    (phase = "up" /\ synced /\ ~touched) => Managed(registry, Len(ConfigKeys))

IInv == /\ TypeOK /\ FreshId /\ StartInv /\ LoopInv
        /\ QuietUnlessUp /\ PendingAgrees /\ RegistryInv

LEMMA StrongInit == Init => IInv
<1> SUFFICES ASSUME Init PROVE IInv
  OBVIOUS
<1>1. TypeOK
  BY TypeInit
<1>2. FreshId
  BY InitialAccount DEF FreshId
<1>3. \A j \in Jobs : listed[j] = NotListed /\ NotListed.taken = FALSE
  BY DEF Init, NotListed
<1>4. phase = "down" /\ request = NoRequest
  BY DEF Init
<1> QED
  BY <1>1, <1>2, <1>3, <1>4
     DEF IInv, StartInv, Undisturbed, LoopInv, QuietUnlessUp, PendingAgrees, RegistryInv

\* Nothing that Gmail has is taken away or renamed.
Kept == \A id \in DOMAIN gmail : id \in DOMAIN gmail' /\ gmail'[id] = gmail[id]

LEMMA NewLabelKeeps ==
    ASSUME IInv, NEW n \in Names, NewLabel(n)
    PROVE  /\ Kept /\ FreshId'
           /\ nextId \in DOMAIN gmail' /\ gmail'[nextId] = n
<1>1. nextId \in Nat /\ DOMAIN gmail \subseteq Nat
  BY RegistryAssumption DEF IInv, TypeOK, IsTable, Ids, RegistryAssumption
<1>2. nextId \notin DOMAIN gmail
  BY <1>1 DEF IInv, FreshId
<1>3. /\ DOMAIN gmail' = {nextId} \cup DOMAIN gmail
      /\ gmail'[nextId] = n
      /\ \A id \in DOMAIN gmail : gmail'[id] = gmail[id]
  BY <1>2 DEF NewLabel, Upserted, Row
<1>4. FreshId'
  BY <1>1, <1>3 DEF IInv, FreshId, NewLabel
<1> QED
  BY <1>3, <1>4 DEF Kept

\* A step that takes nothing from Gmail leaves what a start has done, what
\* is pending and the registry as good as they were.
LEMMA StartKept ==
    ASSUME IInv, Kept, UNCHANGED <<startVars, touched>>
    PROVE  StartInv' /\ LoopInv'
<1>1. LoopInv'
  BY DEF IInv, LoopInv, startVars
<1>2. StartInv'
  BY DEF IInv, StartInv, Undisturbed, Managed, Kept, startVars
<1> QED
  BY <1>1, <1>2

LEMMA RegistryKept ==
    ASSUME IInv, UNCHANGED <<startVars, touched, registry, synced>>
    PROVE  RegistryInv'
  BY DEF IInv, RegistryInv, Managed, startVars

\* Writing labels that Gmail has, to a registry that may have others.
LEMMA WriteKeeps ==
    ASSUME IInv, phase = "up", ~touched, NEW t, Agrees(t), UpsertMany(t), UNCHANGED startVars,
           Managed(registry, Len(ConfigKeys)) \/ Managed(t, Len(ConfigKeys))
    PROVE  Managed(registry, Len(ConfigKeys))'
<1>1. Managed(gmail, Len(ConfigKeys))
  BY KeysHaveNames DEF IInv, StartInv, Undisturbed, LoopInv
<1>2. SUFFICES ASSUME NEW i \in 1..Len(ConfigKeys), NEW k, k = ConfigKeys[i]
               PROVE  /\ k \in DOMAIN keyToId
                      /\ keyToId[k] \in DOMAIN registry'
                      /\ registry'[keyToId[k]] = NameOf[k]
  BY DEF Managed, startVars
<1>3. k \in DOMAIN keyToId /\ gmail[keyToId[k]] = NameOf[k]
  BY <1>1, <1>2 DEF Managed
<1>4. CASE keyToId[k] \in DOMAIN t
  BY <1>3, <1>4 DEF Agrees, UpsertMany, Upserted
<1>5. CASE keyToId[k] \notin DOMAIN t
  BY <1>2, <1>3, <1>5 DEF Managed, UpsertMany, Upserted
<1> QED
  BY <1>4, <1>5

LEMMA StrongStep == IInv /\ [Next]_vars => IInv'
<1> SUFFICES ASSUME IInv, [Next]_vars PROVE IInv'
  OBVIOUS
<1> USE DEF IInv
<1>0. TypeOK'
  BY TypeStep
<1>1. CASE StartApp
  <2>1. FreshId'
    BY <1>1, MockIsTable DEF StartApp, FreshId
  <2>2. phase = "down" /\ phase' = "list" /\ pos' = 1 /\ ~synced' /\ UNCHANGED <<listed, request>>
    BY <1>1 DEF StartApp
  <2> QED
    BY <1>0, <2>1, <2>2
       DEF StartInv, Undisturbed, LoopInv, QuietUnlessUp, PendingAgrees, RegistryInv
<1>2. CASE ListExisting
  <2>1. FreshId' /\ LoopInv' /\ PendingAgrees' /\ RegistryInv' /\ QuietUnlessUp'
    BY <1>2 DEF ListExisting, accountVars, FreshId, LoopInv, PendingAgrees, RegistryInv,
                QuietUnlessUp
  <2>2. pos' = 1
    BY <1>2 DEF ListExisting, LoopInv
  <2>3. \A n \in DOMAIN existing' : existing'[n] \in DOMAIN gmail /\ gmail[existing'[n]] = n
    BY <1>2 DEF ListExisting
  <2> QED
    BY <1>0, <1>2, <2>1, <2>2, <2>3 DEF ListExisting, accountVars, StartInv, Undisturbed, Managed
<1>3. CASE Serve
  <2>1. pos = Len(ConfigKeys) + 1
    BY <1>3, KeysHaveNames DEF Serve, TypeOK
  <2>2. phase = "create" /\ phase' = "up" /\ ~synced /\ request = NoRequest
        /\ \A j \in Jobs : ~listed[j].taken
    BY <1>3 DEF Serve, QuietUnlessUp
  <2> QED
    BY <1>0, <1>3, <2>1, <2>2
       DEF Serve, accountVars, boundVars, FreshId, StartInv, Undisturbed, Managed, LoopInv,
           QuietUnlessUp, PendingAgrees, RegistryInv
<1>4. ASSUME NEW k \in KeySet, NEW id, AtKey(k), Record(k, id), Kept, FreshId',
             id \in DOMAIN gmail', gmail'[id] = NameOf[k]
      PROVE  IInv'
  <2>1. phase = "create" /\ phase' = "create" /\ ~synced /\ request = NoRequest
        /\ \A j \in Jobs : ~listed[j].taken
    BY <1>4 DEF AtKey, Record, QuietUnlessUp
  <2>2. LoopInv' /\ QuietUnlessUp' /\ PendingAgrees' /\ RegistryInv'
    BY <1>4, <2>1 DEF Record, boundVars, LoopInv, QuietUnlessUp, PendingAgrees, RegistryInv
  <2>3. StartInv'
    <3>1. SUFFICES ASSUME ~touched
                   PROVE  /\ \A n \in DOMAIN existing : /\ existing[n] \in DOMAIN gmail'
                                                          /\ gmail'[existing[n]] = n
                          /\ Managed(gmail, pos - 1)'
      BY <1>4, <2>1 DEF StartInv, Undisturbed, Record, boundVars
    <3>2. \A n \in DOMAIN existing : existing[n] \in DOMAIN gmail' /\ gmail'[existing[n]] = n
      BY <2>1, <3>1, <1>4 DEF StartInv, Undisturbed, Kept
    <3>3. ASSUME NEW i \in 1..(pos' - 1)
          PROVE  /\ ConfigKeys[i] \in DOMAIN keyToId'
                 /\ keyToId'[ConfigKeys[i]] \in DOMAIN gmail'
                 /\ gmail'[keyToId'[ConfigKeys[i]]] = NameOf[ConfigKeys[i]]
      <4>1. CASE ConfigKeys[i] = k
        BY <1>4, <4>1 DEF Record, Upserted, Row
      <4>2. CASE ConfigKeys[i] # k
        <5>1. i \in 1..(pos - 1)
          BY <1>4, <3>3, <4>2, KeysHaveNames DEF TypeOK, AtKey, Record
        <5>2. /\ ConfigKeys[i] \in DOMAIN keyToId
              /\ keyToId[ConfigKeys[i]] \in DOMAIN gmail
              /\ gmail[keyToId[ConfigKeys[i]]] = NameOf[ConfigKeys[i]]
          BY <2>1, <3>1, <5>1 DEF StartInv, Undisturbed, Managed
        <5> QED
          BY <1>4, <4>2, <5>2 DEF Record, Upserted, Row, Kept
      <4> QED
        BY <4>1, <4>2
    <3> QED
      BY <3>2, <3>3 DEF Managed
  <2> QED
    BY <1>0, <1>4, <2>2, <2>3
<1>5. ASSUME NEW k \in KeySet, KeepLabel(k) PROVE IInv'
  <2>1. CASE touched
    BY <1>0, <1>5, <2>1
       DEF KeepLabel, AtKey, Record, accountVars, boundVars, FreshId, StartInv, Undisturbed,
           LoopInv, QuietUnlessUp, PendingAgrees, RegistryInv
  <2>2. CASE ~touched
    <3>1. existing[NameOf[k]] \in DOMAIN gmail' /\ gmail'[existing[NameOf[k]]] = NameOf[k]
      BY <1>5, <2>2 DEF KeepLabel, AtKey, accountVars, StartInv, Undisturbed
    <3>2. Kept /\ FreshId'
      BY <1>5 DEF KeepLabel, accountVars, Kept, FreshId
    <3> QED
      BY <1>4, <1>5, <3>1, <3>2 DEF KeepLabel
  <2> QED
    BY <2>1, <2>2 DEF TypeOK
<1>6. ASSUME NEW k \in KeySet, CreateMissing(k) PROVE IInv'
  <2>1. CASE NewLabel(NameOf[k]) /\ Record(k, nextId)
    BY <1>4, <1>6, <2>1, NewLabelKeeps, KeysHaveNames DEF CreateMissing
  <2>2. ASSUME NEW id \in IdsOf(gmail, NameOf[k]), Record(k, id), UNCHANGED accountVars
        PROVE  IInv'
    <3>1. id \in DOMAIN gmail' /\ gmail'[id] = NameOf[k]
      BY <2>2 DEF IdsOf, accountVars
    <3>2. Kept /\ FreshId'
      BY <2>2 DEF accountVars, Kept, FreshId
    <3> QED
      BY <1>4, <1>6, <2>2, <3>1, <3>2 DEF CreateMissing
  <2> QED
    BY <1>6, <2>1, <2>2 DEF CreateMissing
<1>7. ASSUME NEW k \in KeySet, CreateRefused(k) PROVE IInv'
  BY <1>0, <1>7
     DEF CreateRefused, AtKey, accountVars, boundVars, FreshId, StartInv, Undisturbed, LoopInv,
         QuietUnlessUp, PendingAgrees, RegistryInv
<1>8. ASSUME NEW j \in Jobs, ListLabels(j) PROVE IInv'
  <2>1. Kept /\ FreshId'
    BY <1>8 DEF ListLabels, accountVars, Kept, FreshId
  <2>2. StartInv' /\ LoopInv' /\ RegistryInv'
    BY <1>8, <2>1, StartKept, RegistryKept DEF ListLabels, boundVars
  <2>3. phase' = "up"
    BY <1>8 DEF ListLabels, startVars
  <2>4. PendingAgrees'
    <3>1. SUFFICES ASSUME ~touched PROVE PendingAgrees'
      BY <1>8 DEF ListLabels, boundVars, PendingAgrees
    <3>2. Agrees(gmail) /\ Managed(gmail, Len(ConfigKeys))
      BY <1>8, <3>1, KeysHaveNames DEF ListLabels, Agrees, StartInv, Undisturbed, LoopInv
    <3>3. /\ listed'[j].labels = gmail
          /\ \A i \in Jobs \ {j} : listed'[i] = listed[i]
      BY <1>8 DEF ListLabels, TypeOK
    <3>4. \A i \in Jobs : listed'[i].taken =>
              Agrees(listed'[i].labels) /\ Managed(listed'[i].labels, Len(ConfigKeys))
      BY <1>8, <3>1, <3>2, <3>3 DEF ListLabels, PendingAgrees
    <3> QED
      BY <1>8, <3>1, <3>4
         DEF ListLabels, accountVars, startVars, PendingAgrees, Agrees, Managed
  <2> QED
    BY <1>0, <2>1, <2>2, <2>3, <2>4 DEF QuietUnlessUp
<1>9. ASSUME NEW j \in Jobs, NEW t, listed[j].taken, UpsertMany(t),
             ~touched => Agrees(t),
             Managed(registry, Len(ConfigKeys)) \/ Managed(t, Len(ConfigKeys)) \/ ~synced' \/ touched,
             listed' = [listed EXCEPT ![j] = NotListed],
             UNCHANGED <<accountVars, startVars, request, touched>>
      PROVE  IInv'
  <2>1. Kept /\ FreshId'
    BY <1>9 DEF accountVars, Kept, FreshId
  <2>2. StartInv' /\ LoopInv'
    BY <1>9, <2>1, StartKept
  <2>3. phase = "up" /\ phase' = "up"
    BY <1>9 DEF QuietUnlessUp, startVars
  <2>4. RegistryInv'
    BY <1>9, <2>3, WriteKeeps DEF RegistryInv
  <2>5. \A i \in Jobs : listed'[i].taken => listed'[i] = listed[i] /\ listed[i].taken
    BY <1>9 DEF TypeOK, NotListed
  <2>6. PendingAgrees'
    BY <1>9, <2>3, <2>5 DEF PendingAgrees, Agrees, Managed, accountVars, startVars
  <2> QED
    BY <1>0, <2>1, <2>2, <2>3, <2>4, <2>6 DEF QuietUnlessUp
<1>10. ASSUME NEW j \in Jobs, WriteRegistry(j) PROVE IInv'
  <2>1. ~touched => Agrees(listed[j].labels) /\ Managed(listed[j].labels, Len(ConfigKeys))
    BY <1>10 DEF WriteRegistry, QuietUnlessUp, PendingAgrees
  <2> QED
    BY <1>9, <1>10, <2>1 DEF WriteRegistry, boundVars
<1>11. ASSUME NEW j \in Jobs, SyncFails(j) PROVE IInv'
  <2>1. PICK ids \in SUBSET DOMAIN listed[j].labels :
            UpsertMany([id \in ids |-> listed[j].labels[id]])
    BY <1>11 DEF SyncFails
  <2>2. phase = "up" /\ listed[j].taken
    BY <1>11 DEF SyncFails, QuietUnlessUp
  <2>3. ~touched => Agrees([id \in ids |-> listed[j].labels[id]])
    BY <2>1, <2>2 DEF PendingAgrees, Agrees
  <2>4. Managed(registry, Len(ConfigKeys)) \/ ~synced' \/ touched
    BY <1>11, <2>2 DEF SyncFails, RegistryInv
  <2> QED
    BY <1>9, <1>11, <2>1, <2>2, <2>3, <2>4 DEF SyncFails
<1>12. ASSUME NEW n \in Names, CreateLabel(n) PROVE IInv'
  <2>1. /\ Kept /\ FreshId'
        /\ request'.id \in DOMAIN gmail' /\ gmail'[request'.id] = request'.name
    <3>1. CASE NewLabel(n) /\ request' = [id |-> nextId, name |-> n]
      BY <3>1, NewLabelKeeps
    <3>2. ASSUME NEW id \in IdsOf(gmail, n), request' = [id |-> id, name |-> n],
                 UNCHANGED accountVars
          PROVE  /\ Kept /\ FreshId'
                 /\ request'.id \in DOMAIN gmail' /\ gmail'[request'.id] = request'.name
      BY <3>2 DEF IdsOf, accountVars, Kept, FreshId
    <3> QED
      BY <1>12, <3>1, <3>2 DEF CreateLabel
  <2>2. StartInv' /\ LoopInv' /\ RegistryInv'
    BY <1>12, <2>1, StartKept, RegistryKept DEF CreateLabel, boundVars
  <2>3. phase = "up" /\ phase' = "up" /\ UNCHANGED <<touched, listed, keyToId>>
    BY <1>12 DEF CreateLabel, startVars, boundVars
  <2>4. Agrees(Row(request.id, request.name))'
    BY <2>1 DEF Agrees, Row
  <2>5. \A t : Agrees(t) => \A id \in DOMAIN t : id \in DOMAIN gmail' /\ gmail'[id] = t[id]
    BY <2>1 DEF Agrees, Kept
  <2>6. PendingAgrees'
    BY <2>3, <2>4, <2>5 DEF PendingAgrees, Agrees, Managed
  <2> QED
    BY <1>0, <2>1, <2>2, <2>3, <2>6 DEF QuietUnlessUp
<1>13. ASSUME touched', FreshId', OwnerChange PROVE IInv'
  BY <1>0, <1>13
     DEF OwnerChange, startVars, StartInv, Undisturbed, LoopInv, QuietUnlessUp, PendingAgrees,
         RegistryInv
<1>14. ASSUME NEW n \in Names, OwnerCreates(n) PROVE IInv'
  BY <1>13, <1>14, NewLabelKeeps DEF OwnerCreates, OwnerChange
<1>15. ASSUME NEW id \in Ids, OwnerDeletes(id) PROVE IInv'
  <2>1. FreshId'
    BY <1>15 DEF OwnerDeletes, FreshId
  <2> QED
    BY <1>13, <1>15, <2>1 DEF OwnerDeletes, OwnerChange
<1>16. ASSUME NEW id \in Ids, NEW n \in Names, OwnerRenames(id, n) PROVE IInv'
  <2>1. FreshId'
    BY <1>16 DEF OwnerRenames, FreshId
  <2> QED
    BY <1>13, <1>16, <2>1 DEF OwnerRenames, OwnerChange
<1>17. CASE RegisterLabel
  <2>1. Kept /\ FreshId'
    BY <1>17 DEF RegisterLabel, accountVars, Kept, FreshId
  <2>2. StartInv' /\ LoopInv'
    BY <1>17, <2>1, StartKept DEF RegisterLabel, boundVars
  <2>3. phase = "up" /\ phase' = "up"
    BY <1>17 DEF RegisterLabel, QuietUnlessUp, startVars
  <2>4. ~touched => Agrees(Row(request.id, request.name))
    BY <1>17, <2>3 DEF RegisterLabel, PendingAgrees
  <2>5. RegistryInv'
    BY <1>17, <2>3, <2>4, WriteKeeps DEF RegisterLabel, RegistryInv, boundVars
  <2>6. PendingAgrees'
    BY <1>17, <2>3
       DEF RegisterLabel, PendingAgrees, Agrees, Managed, accountVars, startVars, boundVars
  <2> QED
    BY <1>0, <2>1, <2>2, <2>3, <2>5, <2>6 DEF QuietUnlessUp
<1>18. CASE RegisterFails
  <2>1. Kept /\ FreshId'
    BY <1>18 DEF RegisterFails, accountVars, Kept, FreshId
  <2>2. StartInv' /\ LoopInv' /\ RegistryInv'
    BY <1>18, <2>1, StartKept, RegistryKept DEF RegisterFails
  <2>3. phase = "up" /\ phase' = "up"
    BY <1>18 DEF RegisterFails, QuietUnlessUp, startVars
  <2>4. PendingAgrees'
    BY <1>18, <2>3 DEF RegisterFails, PendingAgrees, Agrees, Managed, accountVars, startVars
  <2> QED
    BY <1>0, <2>1, <2>2, <2>3, <2>4 DEF QuietUnlessUp
<1>19. CASE Crash
  <2>1. phase' = "down" /\ request' = NoRequest /\ \A j \in Jobs : ~listed'[j].taken
    BY <1>19 DEF Crash, NotListed
  <2> QED
    BY <1>0, <1>19, <2>1
       DEF Crash, accountVars, FreshId, StartInv, Undisturbed, LoopInv, QuietUnlessUp,
           PendingAgrees, RegistryInv
<1>20. CASE UNCHANGED vars
  <2>1. Kept /\ FreshId'
    BY <1>20 DEF vars, accountVars, Kept, FreshId
  <2>2. StartInv' /\ LoopInv' /\ RegistryInv'
    BY <1>20, <2>1, StartKept, RegistryKept DEF vars, boundVars
  <2> QED
    BY <1>0, <1>20, <2>1, <2>2
       DEF vars, accountVars, startVars, boundVars, QuietUnlessUp, PendingAgrees, Agrees, Managed
<1> QED
  BY <1>1, <1>2, <1>3, <1>5, <1>6, <1>7, <1>8, <1>10, <1>11, <1>12, <1>14, <1>15, <1>16,
     <1>17, <1>18, <1>19, <1>20 DEF Next, Starting

LEMMA StrongInvariant == Spec => []IInv
<1>1. IInv /\ [Next]_vars => IInv'
  BY StrongStep
<1> QED
  BY <1>1, StrongInit, PTL DEF Spec

\* All config keys are keys of the loop.
LEMMA AllKeys ==
    ASSUME NEW t, Managed(t, Len(ConfigKeys)), NEW k \in KeySet
    PROVE  k \in DOMAIN keyToId /\ keyToId[k] \in DOMAIN t /\ t[keyToId[k]] = NameOf[k]
<1>1. PICK i \in 1..Len(ConfigKeys) : k = ConfigKeys[i]
  BY RegistryAssumption DEF KeySet, RegistryAssumption
<1> QED
  BY <1>1 DEF Managed

\* A process that serves has every managed label: whatever labels there were
\* and wherever starts were cut off or refused, ensure_labels_exist has found or
\* created each of them and cached its id.
THEOREM ServesWithItsLabels == Spec => []ManagedLabelsExist
<1>1. IInv => ManagedLabelsExist
  <2> SUFFICES ASSUME IInv, phase = "up", ~touched
               PROVE  \A k \in KeySet : /\ k \in DOMAIN keyToId
                                        /\ keyToId[k] \in DOMAIN gmail
                                        /\ gmail[keyToId[k]] = NameOf[k]
    BY DEF ManagedLabelsExist
  <2>1. Managed(gmail, Len(ConfigKeys))
    BY KeysHaveNames DEF IInv, StartInv, Undisturbed, LoopInv
  <2> QED
    BY <2>1, AllKeys
<1> QED
  BY <1>1, StrongInvariant, PTL

\* After a full sync the registry has them too, whatever other syncs and forms
\* write to it, in whatever order and however much of it.
THEOREM RegistryHasManagedLabels == Spec => []RegistryKnowsManaged
<1>1. IInv => RegistryKnowsManaged
  BY AllKeys DEF IInv, RegistryInv, RegistryKnowsManaged
<1> QED
  BY <1>1, StrongInvariant, PTL

=============================================================================
