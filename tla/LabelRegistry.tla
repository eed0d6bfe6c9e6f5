--------------------------- MODULE LabelRegistry ----------------------------
(***************************************************************************)
(* The labels of the account, the labels table that copies them, and the   *)
(* three who change or copy them: the start of the application, which      *)
(* creates the managed labels of labels.toml one by one, full syncs, which *)
(* list the labels and write the list later, and the form of the settings  *)
(* page, which creates a label and registers it.  The owner of the account *)
(* creates, renames and deletes labels meanwhile.                          *)
(*                                                                         *)
(* Labels are user labels; a name stands for its text with the prefix      *)
(* "ZeroApp/", labels.toml for the function NameOf.                        *)
(***************************************************************************)
EXTENDS Integers, Sequences, FiniteSets, Tables

CONSTANTS
    ConfigKeys,    \* config keys of labels.toml, in the order of the file
    NameOf,        \* label name of each config key
    Names,         \* label names
    Jobs,          \* which callers of full syncs exist
    MockLabels,    \* the labels of a new MockGmailClient: name of each id
    MaxIds,        \* bound on labels ever created
    MaxChanges,    \* bound on label changes by the owner
    MaxFailures    \* bound on errors and crashes

KeySet == {ConfigKeys[i] : i \in DOMAIN ConfigKeys}

ASSUME RegistryAssumption ==
    /\ ConfigKeys \in Seq(KeySet)
    /\ NameOf \in [KeySet -> Names]
    /\ \E n \in 0..MaxIds : MockLabels \in [1..n -> Names]
    /\ MaxIds \in Nat \ {0} /\ MaxChanges \in Nat /\ MaxFailures \in Nat

VARIABLES
    demo,          \* settings.is_demo: the account is a MockGmailClient
    gmail,         \* name of each label id that Gmail has
    nextId,        \* the id of the next label
    registry,      \* labels table: name of each label id
    phase,         \* where the process is in create_app
    pos,           \* position in the loop of ensure_labels_exist
    existing,      \* existing_by_name of ensure_labels_exist: id of each name
    keyToId,       \* _key_to_id
    listed,        \* listed[j]: labels_response of the full sync of caller j
    request,       \* the label that the settings form is about to register
    touched,       \* history: the owner changed labels since existing was read
    synced,        \* history: a full sync has written the registry since the start
    changes,       \* changes by the owner so far
    failures       \* failures so far

accountVars == <<gmail, nextId>>
startVars == <<phase, pos, existing, keyToId>>
boundVars == <<touched, changes, failures>>
vars == <<demo, accountVars, registry, startVars, listed, request, synced, boundVars>>

Ids == 1..MaxIds
NotListed == [taken |-> FALSE, labels |-> <<>>]
NoRequest == [id |-> 0, name |-> "none"]

\* A table of labels: some ids with their names.
IsTable(t) == DOMAIN t \subseteq Ids /\ \A id \in DOMAIN t : t[id] \in Names

TypeOK ==
    /\ demo \in BOOLEAN
    /\ IsTable(gmail) /\ IsTable(registry)
    /\ nextId \in 1..(MaxIds + 1)
    /\ phase \in {"down", "list", "create", "up"}
    /\ pos \in 1..(Len(ConfigKeys) + 1)
    /\ DOMAIN existing \subseteq Names /\ \A n \in DOMAIN existing : existing[n] \in Ids
    /\ DOMAIN keyToId \subseteq KeySet /\ \A k \in DOMAIN keyToId : keyToId[k] \in Ids
    /\ DOMAIN listed = Jobs
    /\ \A j \in Jobs : listed[j].taken \in BOOLEAN /\ IsTable(listed[j].labels)
    /\ request = NoRequest \/ (request.id \in Ids /\ request.name \in Names)
    /\ touched \in BOOLEAN /\ synced \in BOOLEAN
    /\ changes \in 0..MaxChanges
    /\ failures \in 0..MaxFailures

-----------------------------------------------------------------------------
(* Gmail.                                                                  *)

IdsOf(table, n) == {id \in DOMAIN table : table[id] = n}
IsLive(n) == IdsOf(gmail, n) # {}

\* A new label; Gmail has no two labels of one name.
NewLabel(n) ==
    /\ ~IsLive(n)
    /\ nextId <= MaxIds
    /\ gmail' = Upserted(Row(nextId, n), gmail)
    /\ nextId' = nextId + 1

OwnerChange ==
    /\ ~demo
    /\ changes < MaxChanges
    /\ changes' = changes + 1
    /\ touched' = TRUE
    /\ UNCHANGED <<demo, registry, startVars, listed, request, synced, failures>>

OwnerCreates(n) == NewLabel(n) /\ OwnerChange

OwnerRenames(id, n) ==
    /\ id \in DOMAIN gmail
    /\ ~IsLive(n)
    /\ gmail' = [gmail EXCEPT ![id] = n]
    /\ nextId' = nextId
    /\ OwnerChange

OwnerDeletes(id) ==
    /\ id \in DOMAIN gmail
    /\ gmail' = [i \in DOMAIN gmail \ {id} |-> gmail[i]]
    /\ nextId' = nextId
    /\ OwnerChange

-----------------------------------------------------------------------------
Init ==
    /\ demo \in BOOLEAN
    /\ gmail \in IF demo THEN {MockLabels} ELSE {<<>>} \cup {Row(1, n) : n \in Names}
    /\ nextId = Cardinality(DOMAIN gmail) + 1
    /\ registry = <<>>
    /\ phase = "down" /\ pos = 1
    /\ existing = <<>> /\ keyToId = <<>>
    /\ listed = [j \in Jobs |-> NotListed]
    /\ request = NoRequest
    /\ touched = FALSE /\ synced = FALSE
    /\ changes = 0 /\ failures = 0

-----------------------------------------------------------------------------
(* ensure_labels_exist, before the scheduler and the server are started.   *)

\* The process reads labels.toml; its cache is empty, and a demo has a new
\* MockGmailClient, which knows nothing of the labels of the last one.
StartApp ==
    /\ phase = "down"
    /\ phase' = "list"
    /\ gmail' = IF demo THEN MockLabels ELSE gmail
    /\ nextId' = IF demo THEN Cardinality(DOMAIN MockLabels) + 1 ELSE nextId
    /\ pos' = 1 /\ existing' = <<>> /\ keyToId' = <<>>
    /\ synced' = FALSE
    /\ UNCHANGED <<demo, registry, listed, request, boundVars>>

\* Mutant: existing_by_name is filled the wrong way round.
ListExistingSwapped ==
    /\ phase = "list"
    /\ phase' = "create"
    /\ existing' = gmail
    /\ touched' = FALSE
    /\ UNCHANGED <<demo, accountVars, registry, pos, keyToId, listed, request, synced,
                   changes, failures>>

\* Mutant: the existing labels are looked up in the local registry.
ListExistingLocal ==
    /\ phase = "list"
    /\ phase' = "create"
    /\ existing' = [n \in {registry[id] : id \in DOMAIN registry} |->
                       CHOOSE id \in DOMAIN registry : registry[id] = n]
    /\ touched' = FALSE
    /\ UNCHANGED <<demo, accountVars, registry, pos, keyToId, listed, request, synced,
                   changes, failures>>

ListExisting ==
    /\ phase = "list"
    /\ phase' = "create"
    /\ existing' = [n \in {gmail[id] : id \in DOMAIN gmail} |->
                       CHOOSE id \in DOMAIN gmail : gmail[id] = n]
    /\ touched' = FALSE
    /\ UNCHANGED <<demo, accountVars, registry, pos, keyToId, listed, request, synced,
                   changes, failures>>

\* The loop has come to this config key.
AtKey(k) ==
    /\ phase = "create"
    /\ pos <= Len(ConfigKeys)
    /\ k = ConfigKeys[pos]

\* The label of this key is id, and the loop goes on.
Record(k, id) ==
    /\ keyToId' = Upserted(Row(k, id), keyToId)
    /\ pos' = pos + 1
    /\ UNCHANGED <<demo, registry, phase, existing, listed, request, synced, boundVars>>

\* Mutant: an existing label is passed over.
KeepLabelUnrecorded(k) ==
    /\ AtKey(k)
    /\ NameOf[k] \in DOMAIN existing
    /\ pos' = pos + 1
    /\ UNCHANGED <<demo, accountVars, registry, phase, existing, keyToId, listed, request,
                   synced, boundVars>>

KeepLabel(k) ==
    /\ AtKey(k)
    /\ NameOf[k] \in DOMAIN existing
    /\ Record(k, existing[NameOf[k]])
    /\ UNCHANGED accountVars

\* Gmail makes the label, or the mock answers with the one it has.
CreateMissing(k) ==
    /\ AtKey(k)
    /\ NameOf[k] \notin DOMAIN existing
    /\ \/ NewLabel(NameOf[k]) /\ Record(k, nextId)
       \/ /\ demo
          /\ \E id \in IdsOf(gmail, NameOf[k]) : Record(k, id)
          /\ UNCHANGED accountVars

\* The label has been created since the list was read, by somebody else or for
\* another key: Gmail refuses, and the exception ends the process.
CreateRefused(k) ==
    /\ AtKey(k)
    /\ NameOf[k] \notin DOMAIN existing
    /\ IsLive(NameOf[k]) /\ ~demo
    /\ phase' = "down"
    /\ UNCHANGED <<demo, accountVars, registry, pos, existing, keyToId, listed, request,
                   synced, boundVars>>

Serve ==
    /\ phase = "create"
    /\ pos > Len(ConfigKeys)
    /\ phase' = "up"
    /\ UNCHANGED <<demo, accountVars, registry, pos, existing, keyToId, listed, request,
                   synced, boundVars>>

-----------------------------------------------------------------------------
(* The registry step of a full sync: list_labels, then upsert_many.        *)

ListLabels(j) ==
    /\ phase = "up"
    /\ ~listed[j].taken
    /\ listed' = [listed EXCEPT ![j] = [taken |-> TRUE, labels |-> gmail]]
    /\ UNCHANGED <<demo, accountVars, registry, startVars, request, synced, boundVars>>

\* Mutant: ON CONFLICT DO NOTHING.
UpsertNewOnly(table) == registry' = Upserted(registry, table)

\* Every listed label is inserted or renamed; no row is ever deleted.
UpsertMany(table) == registry' = Upserted(table, registry)

\* Mutant: the list is kept for the next run.
WriteRegistryKeepList(j) ==
    /\ listed[j].taken
    /\ UpsertMany(listed[j].labels)
    /\ synced' = TRUE
    /\ UNCHANGED <<demo, accountVars, startVars, listed, request, boundVars>>

WriteRegistry(j) ==
    /\ listed[j].taken
    /\ UpsertMany(listed[j].labels)
    /\ listed' = [listed EXCEPT ![j] = NotListed]
    /\ synced' = TRUE
    /\ UNCHANGED <<demo, accountVars, startVars, request, boundVars>>

-----------------------------------------------------------------------------
(* The form of the settings page.                                          *)

\* create_label, as above; if Gmail refuses, the page fails and nothing changes.
CreateLabel(n) ==
    /\ phase = "up"
    /\ request = NoRequest
    /\ \/ NewLabel(n) /\ request' = [id |-> nextId, name |-> n]
       \/ /\ demo
          /\ \E id \in IdsOf(gmail, n) : request' = [id |-> id, name |-> n]
          /\ UNCHANGED accountVars
    /\ UNCHANGED <<demo, registry, startVars, listed, synced, boundVars>>

RegisterLabel ==
    /\ request # NoRequest
    /\ UpsertMany(Row(request.id, request.name))
    /\ request' = NoRequest
    /\ UNCHANGED <<demo, accountVars, startVars, listed, synced, boundVars>>

-----------------------------------------------------------------------------
(* Failures.                                                               *)

Failure ==
    /\ failures < MaxFailures
    /\ failures' = failures + 1

\* A sync raises before its commit.  The POST /sync route catches the
\* exception, and its teardown commits the rows that were written.
SyncFails(j) ==
    /\ Failure
    /\ listed[j].taken
    /\ \E ids \in SUBSET DOMAIN listed[j].labels :
          /\ j # "manual" => ids = {}
          /\ UpsertMany([id \in ids |-> listed[j].labels[id]])
    /\ listed' = [listed EXCEPT ![j] = NotListed]
    /\ UNCHANGED <<demo, accountVars, startVars, request, synced, touched, changes>>

\* The insert of the form's label fails: Gmail has it, the registry does not.
RegisterFails ==
    /\ Failure
    /\ request # NoRequest
    /\ request' = NoRequest
    /\ UNCHANGED <<demo, accountVars, registry, startVars, listed, synced, touched, changes>>

\* The process dies, or a call to Gmail raises while it starts.
Crash ==
    /\ Failure
    /\ phase # "down"
    /\ phase' = "down"
    /\ listed' = [j \in Jobs |-> NotListed]
    /\ request' = NoRequest
    /\ UNCHANGED <<demo, accountVars, registry, pos, existing, keyToId, synced, touched, changes>>

-----------------------------------------------------------------------------
Starting ==
    \/ StartApp \/ ListExisting \/ Serve
    \/ \E k \in KeySet : KeepLabel(k) \/ CreateMissing(k) \/ CreateRefused(k)

Next ==
    \/ Starting
    \/ \E j \in Jobs : ListLabels(j) \/ WriteRegistry(j) \/ SyncFails(j)
    \/ \E n \in Names : CreateLabel(n) \/ OwnerCreates(n)
    \/ \E id \in Ids : OwnerDeletes(id) \/ \E n \in Names : OwnerRenames(id, n)
    \/ RegisterLabel \/ RegisterFails
    \/ Crash

Spec == Init /\ [][Next]_vars

\* A process that is down is started again, and goes on; the scheduler starts
\* the daily sync again and again, and a run or a request goes on.
Fairness ==
    /\ WF_vars(Starting)
    /\ WF_vars(RegisterLabel)
    /\ \A j \in Jobs : WF_vars(WriteRegistry(j))
    /\ \A j \in Jobs \ {"manual"} : WF_vars(ListLabels(j))

FairSpec == Spec /\ Fairness

-----------------------------------------------------------------------------
(* Properties.                                                             *)

\* When the server is started, wherever earlier starts were cut off, Gmail has
\* each managed label under the id that the service cached for it, unless the
\* owner has changed labels since (label_config_service.py,
\* ensure_labels_exist).
ManagedLabelsExist ==
    (phase = "up" /\ ~touched) =>
        \A k \in KeySet : /\ k \in DOMAIN keyToId
                          /\ keyToId[k] \in DOMAIN gmail
                          /\ gmail[keyToId[k]] = NameOf[k]

\* After the first full sync of a process the registry has the managed labels
\* under these ids, too, whatever listings, forms and half-written registries
\* came between (sync_service.py, step 3): the pages find them by name.
RegistryKnowsManaged ==
    (phase = "up" /\ synced /\ ~touched) =>
        \A k \in KeySet : keyToId[k] \in DOMAIN registry /\ registry[keyToId[k]] = NameOf[k]

\* A start does not depend on the ones that failed: the process comes up in
\* the end, although Gmail refuses a label that appears while it starts
\* ("Idempotent - safe to call multiple times").
StartCompletes == <>[](phase = "up")

\* A sync that lists early and writes late, or a form that registers a renamed
\* label, can put an old name into the registry; once the owner rests, every
\* label comes to have, and keeps, the name that Gmail has.
RegistryCatchesUp ==
    <>[](\A id \in DOMAIN gmail : id \in DOMAIN registry /\ registry[id] = gmail[id])

-----------------------------------------------------------------------------
(* What the documentation says and the code does not keep.                 *)

\* label_repository.py:110: get_by_name returns the "Domain Label entity, or
\* None if not found": it has one row to return, or none.
LookupAnswers == \A n \in Names : Cardinality(IdsOf(registry, n)) <= 1

=============================================================================
