-------------------------- MODULE SyncEngineProofs --------------------------
(***************************************************************************)
(* Machine-checked theorems about SyncEngine, for any sets of messages,    *)
(* labels and callers, any page and batch size and any bounds.             *)
(***************************************************************************)
EXTENDS SyncEngine, MailboxProofs, TLAPS

-----------------------------------------------------------------------------
(* Type correctness.                                                       *)

\* The values a run is set to as a whole are runs.
LEMMA WholeRuns ==
    /\ NothingFetched \in [Messages -> Copy]
    /\ IdleRun \in Run
    /\ FullRun \in Run
    /\ syncState.hid \in Nat => IncrementalRun \in Run
<1>1. NothingFetched \in [Messages -> Copy]
  BY DEF NothingFetched, NoCopy, Copy
<1>2. IdleRun \in Run
  BY <1>1 DEF IdleRun, Run, Steps
<1>3. FullRun \in Run
  BY <1>1 DEF FullRun, IdleRun, Run, Steps
<1>4. syncState.hid \in Nat => IncrementalRun \in Run
  BY <1>1 DEF IncrementalRun, IdleRun, Run, Steps
<1>5. QED
  BY <1>1, <1>2, <1>3, <1>4

\* Noting an older answer adds messages to a run's history and nothing else.
LEMMA NotingKeepsRun ==
    ASSUME NEW r \in Run, NEW ms \in SUBSET Messages
    PROVE  /\ PassedBy(r, ms) \in Run
           /\ PassedBy(r, ms).pc = r.pc
           /\ PassedBy(r, ms).mode = r.mode
           /\ PassedBy(r, ms).toList = r.toList
           /\ PassedBy(r, ms).page = r.page
           /\ PassedBy(r, ms).fetched = r.fetched
           /\ PassedBy(r, ms).cursor = r.cursor
           /\ PassedBy(r, ms).mark = r.mark
           /\ r.dirty \subseteq PassedBy(r, ms).dirty
           /\ r.mode # "full" => PassedBy(r, ms) = r
           /\ r.mode = "full" /\ r.pc \notin {"idle", "snapshot"}
                 => ms \subseteq PassedBy(r, ms).dirty \cup r.toList \cup r.page
           /\ PassedBy(r, {}) = r
BY DEF PassedBy, Run

\* So the runs stay runs when one of them goes on.
LEMMA RunsGoOn ==
    ASSUME TypeOK, NEW j \in Jobs, NEW next \in Run, NEW ms \in SUBSET Messages,
           GoesOn(j, next, ms)
    PROVE  run' \in [Jobs -> Run] /\ missed' \in SUBSET Messages
<1>1. \A i \in Jobs : PassedBy(run[i], ms) \in Run
  BY NotingKeepsRun DEF TypeOK
<1> QED
  BY <1>1 DEF GoesOn, TypeOK

\* The first state is well typed.
LEMMA TypeInit == Init => TypeOK
<1> SUFFICES ASSUME Init PROVE TypeOK
  OBVIOUS
<1>1. MailboxTypeOK
  BY MailboxAssumption DEF Init, MailboxInit, MailboxTypeOK, Copy, NoCopy
<1>2. QED
  BY <1>1, WholeRuns DEF Init, TypeOK, SyncStates

\* Every step keeps the types.
LEMMA TypeNext == TypeOK /\ [Next]_vars => TypeOK'
<1> SUFFICES ASSUME TypeOK, [Next]_vars PROVE TypeOK'
  OBVIOUS
<1> USE DEF TypeOK
<1>1. ASSUME NEW m \in Messages, MessageChanges(m)
      PROVE  TypeOK'
  <2>1. MailboxTypeOK'
    BY <1>1, ChangeType DEF MessageChanges
  <2>2. run' \in [Jobs -> Run]
    BY ZenonT(60), <1>1 DEF MessageChanges, NoteChange, Run
  <2>3. QED
    BY <1>1, <2>1, <2>2 DEF MessageChanges, NoteChange, dbVars
<1>2. CASE MailboxChanges
  <2>1. MailboxTypeOK'
    BY <1>2 DEF MailboxChanges, MailboxTypeOK, Expunge, CreateLabel, ForgetHistory
  <2>2. QED
    BY <1>2, <2>1 DEF MailboxChanges, dbVars
<1>3. ASSUME NEW l \in Labels, RegisterLabel(l)
      PROVE  TypeOK'
  BY <1>3 DEF RegisterLabel, UpsertLabels, mailboxVars, MailboxTypeOK
<1>4. ASSUME NEW j \in Jobs,
             BeginFull(j) \/ BeginIncremental(j) \/ StepFails(j)
               \/ FetchGone(j) \/ HistoryExpired(j) \/ WriteSnapshot(j)
      PROVE  TypeOK'
  <2>1. run' \in [Jobs -> Run]
    BY <1>4, WholeRuns
    DEF BeginFull, BeginIncremental, StepFails, FetchGone, HistoryExpired,
        WriteSnapshot, AfterError, SyncStates
  <2>2. QED
    BY <1>4, <2>1
    DEF BeginFull, BeginIncremental, StepFails, FetchGone, HistoryExpired,
        WriteSnapshot, mailboxVars, dbVars, MailboxTypeOK
<1>5. ASSUME NEW j \in Jobs, ListPage(j)
      PROVE  TypeOK'
  <2>1. run' \in [Jobs -> Run]
    <3>1. PICK ids \in SUBSET (run[j].toList \cap Visible) :
            run' = [run EXCEPT ![j] =
                     [@ EXCEPT !.toList = (run[j].toList \cap Visible) \ ids,
                               !.page = ids,
                               !.pc = IF ids = {} THEN "labels" ELSE "fetch"]]
      BY <1>5 DEF ListPage
    <3>2. [run[j] EXCEPT !.toList = (run[j].toList \cap Visible) \ ids,
                         !.page = ids,
                         !.pc = IF ids = {} THEN "labels" ELSE "fetch"] \in Run
      <4>1. \A ls \in SUBSET Messages, is \in SUBSET Messages, pc \in Steps :
              [run[j] EXCEPT !.toList = ls, !.page = is, !.pc = pc] \in Run
        BY DEF Run
      <4>2. /\ (run[j].toList \cap Visible) \ ids \in SUBSET Messages
            /\ ids \in SUBSET Messages
            /\ (IF ids = {} THEN "labels" ELSE "fetch") \in Steps
        BY DEF Run, Steps
      <4>3. QED
        BY <4>1, <4>2
    <3>3. QED
      BY <3>1, <3>2
  <2>2. QED
    BY <1>5, <2>1 DEF ListPage, mailboxVars, dbVars, MailboxTypeOK
<1>6. ASSUME NEW j \in Jobs, HistoryPage(j)
      PROVE  TypeOK'
  <2>1. run' \in [Jobs -> Run]
    <3>1. PICK upto \in run[j].cursor..historyId,
               ids \in SUBSET Messages,
               pc \in {"history", "save", "fetch"} :
            run' = [run EXCEPT ![j] =
                     [@ EXCEPT !.cursor = upto, !.page = ids, !.mark = historyId,
                               !.pc = pc]]
      <4>1. PICK upto \in run[j].cursor..historyId :
              run' = [run EXCEPT ![j] =
                [@ EXCEPT !.cursor = upto,
                          !.page = run[j].page \cup ChangedBetween(run[j].cursor, upto),
                          !.mark = historyId,
                          !.pc = IF upto < historyId THEN "history"
                                 ELSE IF run[j].page
                                          \cup ChangedBetween(run[j].cursor, upto) = {}
                                      THEN "save" ELSE "fetch"]]
        BY <1>6 DEF HistoryPage
      <4>2. run[j].page \cup ChangedBetween(run[j].cursor, upto) \in SUBSET Messages
        BY DEF ChangedBetween, Run
      <4>3. (IF upto < historyId THEN "history"
             ELSE IF run[j].page \cup ChangedBetween(run[j].cursor, upto) = {}
                  THEN "save" ELSE "fetch") \in {"history", "save", "fetch"}
        OBVIOUS
      <4>4. QED
        BY <4>1, <4>2, <4>3
    <3>2. upto \in Nat /\ historyId \in Nat
      BY DEF Run, MailboxTypeOK
    <3>3. [run[j] EXCEPT !.cursor = upto, !.page = ids, !.mark = historyId,
                         !.pc = pc] \in Run
      BY ZenonT(60), <3>2 DEF Run, Steps
    <3>4. QED
      BY <3>1, <3>3
  <2>2. QED
    BY <1>6, <2>1 DEF HistoryPage, mailboxVars, dbVars, MailboxTypeOK
<1>7. ASSUME NEW j \in Jobs, NEW m \in Messages, Fetch(j, m)
      PROVE  TypeOK'
  <2>1. run' \in [Jobs -> Run]
    <3>1. [run[j].fetched EXCEPT ![m] = mail[m]] \in [Messages -> Copy]
      BY DEF Run, MailboxTypeOK
    <3>2. \A ids \in SUBSET Messages, got \in [Messages -> Copy] :
            [run[j] EXCEPT !.page = ids, !.fetched = got] \in Run
      BY ZenonT(60) DEF Run
    <3>3. run[j].page \ {m} \in SUBSET Messages
      BY DEF Run
    <3> DEFINE r == [run[j] EXCEPT !.page = run[j].page \ {m},
                                   !.fetched = [run[j].fetched EXCEPT ![m] = mail[m]]]
    <3>4. r \in Run
      BY <3>1, <3>2, <3>3
    <3>5. run' = [run EXCEPT ![j] = r]
      BY <1>7 DEF Fetch
    <3> HIDE DEF r
    <3>6. QED
      BY <3>4, <3>5
  <2>2. QED
    BY <1>7, <2>1 DEF Fetch, mailboxVars, dbVars, MailboxTypeOK
<1>8. ASSUME NEW j \in Jobs, StoreBatch(j)
      PROVE  TypeOK'
  <2>1. run[j].fetched \in [Messages -> Copy]
    BY DEF Run
  <2>2. rows' \in [Messages -> Copy]
    BY <1>8, <2>1 DEF StoreBatch, UpsertRows
  <2>3. junction' \in [Messages -> SUBSET Labels]
    BY <1>8, <2>1 DEF StoreBatch, SyncMessageLabels, Copy, Got
  <2>4. unindexed' \in SUBSET Messages
    BY <1>8 DEF StoreBatch, Got, Relabelled
  <2>5. AfterBatch(run[j]) \in Steps
    BY DEF AfterBatch, Steps, Run
  <2>6. run' \in [Jobs -> Run] /\ missed' \in SUBSET Messages
    <3>1. [run[j] EXCEPT !.fetched = NothingFetched, !.pc = AfterBatch(run[j])] \in Run
      BY <2>5, WholeRuns DEF Run
    <3>2. Overwritten(run[j].fetched, Got(run[j])) \in SUBSET Messages
      BY DEF Overwritten, Got
    <3>3. QED
      BY <1>8, <3>1, <3>2, RunsGoOn DEF StoreBatch
  <2>7. QED
    BY <1>8, <2>2, <2>3, <2>4, <2>6 DEF StoreBatch, mailboxVars, MailboxTypeOK
<1>9. ASSUME NEW j \in Jobs,
             SyncRegistry(j) \/ SelectLabels(j) \/ RebuildJunction(j) \/ GetProfile(j)
               \/ SaveState(j)
      PROVE  TypeOK'
  <2>1. run' \in [Jobs -> Run]
    <3>1. \A pc \in Steps, ls \in SUBSET Labels :
            /\ [run[j] EXCEPT !.pc = pc] \in Run
            /\ [run[j] EXCEPT !.valid = ls, !.pc = pc] \in Run
      BY DEF Run
    <3>2. historyId \in Nat => [run[j] EXCEPT !.mark = historyId, !.pc = "save"] \in Run
      BY DEF Run, Steps
    <3>3. PICK next \in Run : run' = [run EXCEPT ![j] = next]
      <4>1. CASE SyncRegistry(j) \/ SaveState(j)
        BY <4>1, <3>1 DEF SyncRegistry, SaveState, Steps
      <4>2. CASE SelectLabels(j) \/ RebuildJunction(j)
        <5>1. "profile" \in Steps /\ "junction" \in Steps
          BY DEF Steps
        <5> QED
          BY <4>2, <3>1, <5>1 DEF SelectLabels, RebuildJunction
      <4>3. CASE GetProfile(j)
        BY <4>3, <3>2 DEF GetProfile, MailboxTypeOK
      <4>4. QED
        BY <1>9, <4>1, <4>2, <4>3
    <3>4. QED
      BY <3>3
  <2>2. /\ junction' \in [Messages -> SUBSET Labels]
        /\ registry' \in SUBSET Labels
        /\ syncState' \in SyncStates
    BY <1>9 DEF SyncRegistry, UpsertLabels, SelectLabels, RebuildJunction, GetProfile,
                SaveState, dbVars, MailboxTypeOK, Copy, SyncStates, Run
  <2>3. /\ missed' \in SUBSET Messages
        /\ unindexed' \in SUBSET Messages
    BY <1>9 DEF SyncRegistry, UpsertLabels, SelectLabels, RebuildJunction, LabelledSince,
                GetProfile, SaveState, StillMissed, Run
  <2>4. QED
    BY <1>9, <2>1, <2>2, <2>3
    DEF SyncRegistry, SelectLabels, RebuildJunction, GetProfile, SaveState, mailboxVars,
        dbVars, MailboxTypeOK
<1>10. ASSUME NEW j \in Manual,
              HalfBatchCommitted(j) \/ HalfRegistryCommitted(j) \/ HalfJunctionCommitted(j)
       PROVE  TypeOK'
  <2>1. j \in Jobs /\ run[j].fetched \in [Messages -> Copy]
    BY DEF Manual, Run
  <2>2. PICK older \in SUBSET Messages : ManualRunBreaks(j, older)
    BY <1>10 DEF HalfBatchCommitted, HalfRegistryCommitted, HalfJunctionCommitted,
                 Overwritten, Got
  <2>3. run' \in [Jobs -> Run] /\ missed' \in SUBSET Messages
    BY <2>1, <2>2, WholeRuns, RunsGoOn DEF ManualRunBreaks
  <2>4. CASE HalfBatchCommitted(j)
    <3>1. PICK ids \in SUBSET Messages, joined \in SUBSET Messages,
               emptied \in SUBSET Messages :
            /\ UpsertRows(run[j].fetched, ids)
            /\ SyncMessageLabels(run[j].fetched, joined, emptied)
            /\ unindexed' = (unindexed \cup Relabelled(run[j].fetched, ids) \cup emptied)
                              \ joined
            /\ UNCHANGED registry
      BY <2>4 DEF HalfBatchCommitted, Got
    <3>2. rows' \in [Messages -> Copy]
      BY <2>1, <3>1 DEF UpsertRows
    <3>3. junction' \in [Messages -> SUBSET Labels]
      <4>1. ASSUME NEW m \in Messages
            PROVE  run[j].fetched[m].labels \cap registry \in SUBSET Labels
        OBVIOUS
      <4> QED
        BY <3>1, <4>1 DEF SyncMessageLabels
    <3>4. unindexed' \in SUBSET Messages
      BY <3>1 DEF Relabelled
    <3>5. QED
      BY <2>2, <2>3, <3>1, <3>2, <3>3, <3>4 DEF ManualRunBreaks, mailboxVars, MailboxTypeOK
  <2>5. CASE HalfRegistryCommitted(j)
    BY <2>2, <2>3, <2>5
    DEF HalfRegistryCommitted, ManualRunBreaks, UpsertLabels, mailboxVars, MailboxTypeOK
  <2>6. CASE HalfJunctionCommitted(j)
    <3>1. run[j].valid \in SUBSET Labels
      BY <2>1 DEF Run
    <3>2. junction' \in [Messages -> SUBSET Labels]
      BY <2>6, <3>1 DEF HalfJunctionCommitted
    <3> QED
      BY <2>2, <2>3, <2>6, <3>2
      DEF HalfJunctionCommitted, ManualRunBreaks, mailboxVars, MailboxTypeOK
  <2>7. QED
    BY <1>10, <2>4, <2>5, <2>6
<1>11. CASE Crash
  BY <1>11, WholeRuns DEF Crash, mailboxVars, dbVars, MailboxTypeOK
<1>12. CASE UNCHANGED vars
  BY <1>12 DEF vars, mailboxVars, dbVars, MailboxTypeOK
<1>13. QED
  BY <1>1, <1>2, <1>3, <1>4, <1>5, <1>6, <1>7, <1>8, <1>9, <1>10, <1>11, <1>12
  DEF Next, Advance

\* Every variable keeps its type: in particular a run is always at one of the
\* steps of the pipeline and its batch holds whole answers of Gmail.
THEOREM TypeCorrect == Spec => []TypeOK
BY TypeInit, TypeNext, PTL DEF Spec

-----------------------------------------------------------------------------
(* The junction table.                                                     *)

\* The ids that a rebuild has read stay in the registry: labels are never
\* deleted from it.
IdsRegistered == \A j \in Jobs : run[j].valid \subseteq registry

\* A step that enlarges the registry, if anything, and lets a run read the ids
\* it holds, keeps the ids registered.
LEMMA IdsStay ==
    ASSUME IdsRegistered, registry \subseteq registry',
           \A j \in Jobs : run'[j].valid \in {run[j].valid, registry, {}}
    PROVE  IdsRegistered'
BY DEF IdsRegistered

\* No run has read an id at first.
LEMMA IdsInit == Init => IdsRegistered
BY DEF Init, IdsRegistered, IdleRun

\* Every step keeps the ids registered.
LEMMA IdsNext == TypeOK /\ IdsRegistered /\ [Next]_vars => IdsRegistered'
<1> SUFFICES ASSUME TypeOK, IdsRegistered, [Next]_vars PROVE IdsRegistered'
  OBVIOUS
<1>1. ASSUME registry \subseteq registry', run' = run
      PROVE  IdsRegistered'
  BY <1>1, IdsStay
<1>2. ASSUME NEW m \in Messages, MessageChanges(m)
      PROVE  IdsRegistered'
  <2>1. \A j \in Jobs : run'[j].valid = run[j].valid
    BY <1>2 DEF MessageChanges, NoteChange, TypeOK, Run
  <2> QED
    BY <1>2, <2>1, IdsStay DEF MessageChanges, dbVars
<1>3. ASSUME NEW j \in Jobs, NEW next \in Run, run' = [run EXCEPT ![j] = next],
             next.valid \in {run[j].valid, registry, {}}, registry \subseteq registry'
      PROVE  IdsRegistered'
  <2>1. \A i \in Jobs : run'[i].valid \in {run[i].valid, registry, {}}
    BY <1>3 DEF TypeOK
  <2> QED
    BY <1>3, <2>1, IdsStay
<1>4. ASSUME NEW j \in Jobs, NEW next \in Run, NEW ms \in SUBSET Messages,
             GoesOn(j, next, ms), next.valid \in {run[j].valid, {}},
             registry \subseteq registry'
      PROVE  IdsRegistered'
  <2>1. \A i \in Jobs : PassedBy(run[i], ms).valid = run[i].valid
    BY DEF PassedBy, TypeOK, Run
  <2>2. \A i \in Jobs : run'[i].valid \in {run[i].valid, registry, {}}
    BY <1>4, <2>1 DEF GoesOn
  <2> QED
    BY <1>4, <2>2, IdsStay
<1>5. IdleRun.valid = {} /\ FullRun.valid = {} /\ IncrementalRun.valid = {}
  BY DEF IdleRun, FullRun, IncrementalRun
<1>6. syncState.hid \in Nat
  BY DEF TypeOK, SyncStates
<1>7. ASSUME NEW j \in Jobs,
             BeginFull(j) \/ BeginIncremental(j) \/ StepFails(j) \/ Advance(j)
      PROVE  IdsRegistered'
  <2>1. CASE BeginFull(j) \/ BeginIncremental(j) \/ StepFails(j) \/ FetchGone(j)
               \/ HistoryExpired(j) \/ WriteSnapshot(j)
    <3>1. PICK r \in {IdleRun, FullRun, IncrementalRun} : run' = [run EXCEPT ![j] = r]
      BY <2>1 DEF BeginFull, BeginIncremental, StepFails, FetchGone, HistoryExpired,
                  WriteSnapshot, AfterError
    <3>2. registry' = registry
      BY <2>1 DEF BeginFull, BeginIncremental, StepFails, FetchGone, HistoryExpired,
                  WriteSnapshot, dbVars
    <3>3. \A i \in Jobs : run'[i].valid \in {run[i].valid, {}}
      BY <1>5, <3>1 DEF TypeOK
    <3> QED
      BY <3>2, <3>3, IdsStay
  <2>2. CASE StoreBatch(j)
    <3> DEFINE next == [run[j] EXCEPT !.fetched = NothingFetched, !.pc = AfterBatch(run[j])]
               older == Overwritten(run[j].fetched, Got(run[j]))
    <3>1. next.valid = run[j].valid /\ older \in SUBSET Messages
      BY DEF TypeOK, Run, Overwritten, Got
    <3>2. next \in Run
      <4>1. AfterBatch(run[j]) \in Steps
        BY DEF AfterBatch, Steps
      <4> QED
        BY <4>1, WholeRuns DEF TypeOK, Run
    <3>3. GoesOn(j, next, older) /\ registry' = registry
      BY <2>2 DEF StoreBatch
    <3> HIDE DEF next, older
    <3> QED
      BY <1>4, <3>1, <3>2, <3>3
  <2>3. CASE ListPage(j) \/ HistoryPage(j) \/ (\E m \in Messages : Fetch(j, m))
               \/ SyncRegistry(j) \/ GetProfile(j) \/ SaveState(j)
    <3>1. \A i \in Jobs : run'[i].valid = run[i].valid
      <4>1. \A rest, ids, pc :
              [run[j] EXCEPT !.toList = rest, !.page = ids, !.pc = pc].valid = run[j].valid
        BY DEF TypeOK, Run
      <4>2. \A upto, ids, pc :
              [run[j] EXCEPT !.cursor = upto, !.page = ids, !.mark = historyId, !.pc = pc].valid
                = run[j].valid
        BY DEF TypeOK, Run
      <4>3. \A ids, got : [run[j] EXCEPT !.page = ids, !.fetched = got].valid = run[j].valid
        BY DEF TypeOK, Run
      <4>4. \A pc : [run[j] EXCEPT !.pc = pc].valid = run[j].valid
        BY DEF TypeOK, Run
      <4>5. CASE ListPage(j)
        <5>1. PICK rest, ids, pc :
                run' = [run EXCEPT ![j] = [@ EXCEPT !.toList = rest, !.page = ids, !.pc = pc]]
          BY <4>5 DEF ListPage
        <5> QED
          BY <4>1, <5>1 DEF TypeOK
      <4>6. CASE HistoryPage(j)
        <5>1. PICK upto, ids, pc :
                run' = [run EXCEPT ![j] =
                  [@ EXCEPT !.cursor = upto, !.page = ids, !.mark = historyId, !.pc = pc]]
          BY <4>6 DEF HistoryPage
        <5> QED
          BY <4>2, <5>1 DEF TypeOK
      <4>7. CASE \E m \in Messages : Fetch(j, m)
        <5>1. PICK ids, got :
                run' = [run EXCEPT ![j] = [@ EXCEPT !.page = ids, !.fetched = got]]
          BY <4>7 DEF Fetch
        <5> QED
          BY <4>3, <5>1 DEF TypeOK
      <4>8. CASE SyncRegistry(j) \/ GetProfile(j) \/ SaveState(j)
        <5>1. CASE SyncRegistry(j) \/ SaveState(j)
          <6>1. PICK pc : run' = [run EXCEPT ![j] = [@ EXCEPT !.pc = pc]]
            BY <5>1 DEF SyncRegistry, SaveState
          <6> QED
            BY <4>4, <6>1 DEF TypeOK
        <5>2. CASE GetProfile(j)
          BY <5>2 DEF GetProfile, TypeOK, Run
        <5> QED
          BY <4>8, <5>1, <5>2
      <4> QED
        BY <2>3, <4>5, <4>6, <4>7, <4>8
    <3>2. registry \subseteq registry'
      BY <2>3 DEF ListPage, HistoryPage, Fetch, SyncRegistry, GetProfile, SaveState,
                  UpsertLabels, dbVars
    <3> QED
      BY <3>1, <3>2, IdsStay
  <2>4. CASE SelectLabels(j) \/ RebuildJunction(j)
    <3>1. \A ls, pc : [run[j] EXCEPT !.valid = ls, !.pc = pc].valid = ls
      BY DEF TypeOK, Run
    <3>2. PICK ls \in {registry, {}}, pc \in Steps :
            run' = [run EXCEPT ![j] = [@ EXCEPT !.valid = ls, !.pc = pc]]
      BY <2>4 DEF SelectLabels, RebuildJunction, Steps
    <3>3. registry' = registry
      BY <2>4 DEF SelectLabels, RebuildJunction, dbVars
    <3>4. \A i \in Jobs : run'[i].valid \in {run[i].valid, registry, {}}
      BY <3>1, <3>2 DEF TypeOK
    <3> QED
      BY <3>3, <3>4, IdsStay
  <2> QED
    BY <1>7, <2>1, <2>2, <2>3, <2>4 DEF Advance
<1>8. ASSUME NEW j \in Manual,
             HalfBatchCommitted(j) \/ HalfRegistryCommitted(j) \/ HalfJunctionCommitted(j)
      PROVE  IdsRegistered'
  <2>1. PICK older \in SUBSET Messages : ManualRunBreaks(j, older)
    BY <1>8 DEF HalfBatchCommitted, HalfRegistryCommitted, HalfJunctionCommitted,
                Overwritten, Got
  <2>2. registry \subseteq registry'
    BY <1>8 DEF HalfBatchCommitted, HalfRegistryCommitted, HalfJunctionCommitted, UpsertLabels
  <2> QED
    BY <1>4, <1>5, <2>1, <2>2, WholeRuns DEF ManualRunBreaks, Manual
<1>9. CASE Crash
  <2>1. \A i \in Jobs : run'[i].valid = {}
    BY <1>5, <1>9 DEF Crash
  <2> QED
    BY <1>9, <2>1, IdsStay DEF Crash, dbVars
<1>10. QED
  BY <1>1, <1>2, <1>7, <1>8, <1>9
  DEF Next, MailboxChanges, RegisterLabel, UpsertLabels, vars, dbVars

\* The empty junction is exact.
LEMMA JunctionInit == Init => JunctionExact
BY DEF Init, JunctionExact, NothingFetched, NoCopy

\* Every step keeps the junction exact outside the rows that wait.
LEMMA JunctionNext == TypeOK /\ IdsRegistered /\ JunctionExact /\ [Next]_vars => JunctionExact'
<1> SUFFICES ASSUME TypeOK, IdsRegistered, JunctionExact, [Next]_vars PROVE JunctionExact'
  OBVIOUS
<1>1. ASSUME UNCHANGED <<rows, junction, registry, unindexed>>
      PROVE  JunctionExact'
  BY <1>1 DEF JunctionExact
<1>2. ASSUME NEW l \in Labels, RegisterLabel(l)
      PROVE  JunctionExact'
  BY <1>2 DEF JunctionExact, RegisterLabel, UpsertLabels
<1>3. ASSUME NEW j \in Jobs, StoreBatch(j), NEW m \in Messages \ unindexed'
      PROVE  junction'[m] = rows'[m].labels \cap registry'
  <2> DEFINE fetched == run[j].fetched
             ids == Got(run[j])
  <2>1. /\ rows' = [i \in Messages |-> IF i \in ids THEN fetched[i] ELSE rows[i]]
        /\ registry' = registry
    BY <1>3 DEF StoreBatch, UpsertRows
  <2>2. CASE run[j].mode = "incremental"
    <3>1. /\ \A i \in Messages : junction'[i] = IF i \in ids
                                                 THEN fetched[i].labels \cap registry
                                                 ELSE junction[i]
          /\ unindexed' = unindexed \ ids
      BY <1>3, <2>2 DEF StoreBatch, SyncMessageLabels
    <3>2. QED
      BY <2>1, <3>1 DEF JunctionExact
  <2>3. CASE run[j].mode # "incremental"
    <3>1. /\ junction' = junction
          /\ unindexed' = unindexed \cup Relabelled(fetched, ids)
      BY <1>3, <2>3 DEF StoreBatch
    <3>2. m \in ids => fetched[m].labels = rows[m].labels
      BY <3>1 DEF Relabelled
    <3>3. QED
      BY <2>1, <3>1, <3>2 DEF JunctionExact
  <2>4. QED
    BY <2>2, <2>3
<1>4. ASSUME NEW j \in Jobs, SyncRegistry(j)
      PROVE  JunctionExact'
  BY <1>4 DEF JunctionExact, SyncRegistry, UpsertLabels
<1>5. ASSUME NEW j \in Jobs, RebuildJunction(j)
      PROVE  JunctionExact'
  <2>1. ASSUME NEW m \in Messages \ unindexed'
        PROVE  rows[m].labels \cap run[j].valid = rows[m].labels \cap registry
    BY <1>5, <2>1 DEF RebuildJunction, LabelledSince, IdsRegistered
  <2> QED
    BY <1>5, <2>1 DEF JunctionExact, RebuildJunction
<1>6. ASSUME NEW j \in Manual, HalfBatchCommitted(j), NEW m \in Messages \ unindexed'
      PROVE  junction'[m] = rows'[m].labels \cap registry'
  <2> DEFINE fetched == run[j].fetched
  <2>1. PICK ids \in SUBSET Got(run[j]) :
          \E joined \in SUBSET ids : \E emptied \in SUBSET (ids \ joined) :
             /\ UpsertRows(fetched, ids)
             /\ SyncMessageLabels(fetched, joined, emptied)
             /\ unindexed' = (unindexed \cup Relabelled(fetched, ids) \cup emptied)
                               \ joined
    BY <1>6 DEF HalfBatchCommitted
  <2>2. PICK joined \in SUBSET ids :
          \E emptied \in SUBSET (ids \ joined) :
             /\ UpsertRows(fetched, ids)
             /\ SyncMessageLabels(fetched, joined, emptied)
             /\ unindexed' = (unindexed \cup Relabelled(fetched, ids) \cup emptied)
                               \ joined
    BY <2>1
  <2>3. PICK emptied \in SUBSET (ids \ joined) :
             /\ UpsertRows(fetched, ids)
             /\ SyncMessageLabels(fetched, joined, emptied)
             /\ unindexed' = (unindexed \cup Relabelled(fetched, ids) \cup emptied)
                               \ joined
    BY <2>2
  <2>4. registry' = registry
    BY <1>6 DEF HalfBatchCommitted
  <2>5. CASE m \in joined
    <3>1. m \in ids
      BY <2>5
    <3> QED
      BY <2>3, <2>4, <2>5, <3>1 DEF UpsertRows, SyncMessageLabels
  <2>6. CASE m \notin joined
    <3>1. m \notin unindexed /\ m \notin Relabelled(fetched, ids) /\ m \notin emptied
      BY <1>6, <2>3, <2>6
    <3>2. m \in ids => fetched[m].labels = rows[m].labels
      BY <3>1 DEF Relabelled
    <3>3. junction[m] = rows[m].labels \cap registry
      BY <3>1 DEF JunctionExact
    <3>4. QED
      BY <2>3, <2>4, <2>6, <3>1, <3>2, <3>3 DEF UpsertRows, SyncMessageLabels
  <2>7. QED
    BY <2>5, <2>6
<1>7. ASSUME NEW j \in Manual, HalfRegistryCommitted(j) \/ HalfJunctionCommitted(j)
      PROVE  JunctionExact'
  BY <1>7 DEF JunctionExact, HalfRegistryCommitted, UpsertLabels, HalfJunctionCommitted
<1>8. QED
  BY <1>1, <1>2, <1>3, <1>4, <1>5, <1>6, <1>7
  DEF Next, vars, dbVars, MessageChanges, MailboxChanges, BeginFull, BeginIncremental,
      Advance, StepFails, FetchGone, HistoryExpired, ListPage, HistoryPage, Fetch,
      SelectLabels, GetProfile, SaveState, WriteSnapshot, Crash, JunctionExact

\* For any callers, overlapping or not, and any failures: outside the rows
\* that wait for a rebuild the junction is the registered part of raw_label_ids,
\* also when labels are registered while a rebuild is at work.
THEOREM JunctionIsExact == Spec => []JunctionExact
<1>1. Init => TypeOK /\ IdsRegistered /\ JunctionExact
  BY TypeInit, IdsInit, JunctionInit
<1>2. TypeOK /\ IdsRegistered /\ JunctionExact /\ [Next]_vars
        => (TypeOK /\ IdsRegistered /\ JunctionExact)'
  BY TypeNext, IdsNext, JunctionNext
<1>3. QED
  BY <1>1, <1>2, PTL DEF Spec

-----------------------------------------------------------------------------
(* Where the rows come from.                                               *)

\* c is an answer that Gmail gave for message m.
Answer(c, m) ==
    /\ c.ver <= mail[m].ver
    /\ c.ver = mail[m].ver => c = mail[m]

\* No message is newer than the mailbox, so its next change gets a new version.
MailAges ==
    \A m \in Messages :
        /\ mail[m].ver <= historyId
        /\ mail[m].ver = 0 => mail[m] = NoCopy

\* The answers that wait in a batch are answers of Gmail, and no row is from the
\* future.
Sources ==
    /\ MailAges
    /\ \A m \in Messages : rows[m].ver <= mail[m].ver
    /\ \A j \in Jobs, m \in Messages : Answer(run[j].fetched[m], m)

\* Rows are answers of Gmail, too.
Provenance == Sources /\ \A m \in Messages : Answer(rows[m], m)

\* The empty database comes from Gmail.
LEMMA ProvenanceInit == Init => Provenance
<1> SUFFICES ASSUME Init PROVE Provenance
  OBVIOUS
<1>1. \A m \in Messages : rows[m] = NoCopy
  BY DEF Init, NothingFetched
<1>2. \A j \in Jobs, m \in Messages : run[j].fetched[m] = NoCopy
  BY DEF Init, NothingFetched, IdleRun
<1>3. \A m \in Messages : mail[m] = NoCopy \/ mail[m] = [ver |-> 1, labels |-> {}]
  BY DEF Init, MailboxInit
<1>4. NoCopy.ver = 0 /\ historyId = 1
  BY DEF NoCopy, Init, MailboxInit
<1>5. \A m \in Messages : /\ mail[m].ver <= historyId
                          /\ mail[m].ver = 0 => mail[m] = NoCopy
                          /\ NoCopy.ver <= mail[m].ver
                          /\ NoCopy.ver = mail[m].ver => NoCopy = mail[m]
  BY <1>3, <1>4
<1>6. /\ \A m \in Messages : Answer(rows[m], m) /\ rows[m].ver <= mail[m].ver
      /\ \A j \in Jobs, m \in Messages : Answer(run[j].fetched[m], m)
  BY <1>1, <1>2, <1>5 DEF Answer
<1>7. QED
  BY <1>5, <1>6 DEF Provenance, Sources, MailAges

\* Message i gets a new version.
NewVersion(i) ==
    /\ historyId' = historyId + 1
    /\ mail'[i] \in Copy
    /\ mail'[i].ver = historyId + 1
    /\ mail' = [mail EXCEPT ![i] = mail'[i]]

\* What the mailbox does with a message by itself is of this kind.
LEMMA ChangesGiveVersions ==
    ASSUME MailboxTypeOK, NEW i \in Messages, Arrive(i) \/ Relabel(i)
    PROVE  NewVersion(i)
<1>1. PICK ls \in SUBSET Labels : Change(i, ls)
  BY DEF MailboxTypeOK, Arrive, Relabel
<1> QED
  BY <1>1 DEF Change, NewVersion, MailboxTypeOK, Copy

\* Answers stay answers when the message changes: its version grows.
LEMMA AnswersAge ==
    ASSUME TypeOK, MailAges, NEW i \in Messages, NewVersion(i),
           NEW m \in Messages, NEW c \in Copy, Answer(c, m)
    PROVE  Answer(c, m)' /\ c.ver <= mail'[m].ver
<1>1. c.ver <= historyId /\ c.ver \in Nat /\ historyId \in Nat /\ mail[m].ver \in Nat
  BY DEF Answer, MailAges, TypeOK, MailboxTypeOK, Copy
<1>2. CASE m = i
  BY <1>1, <1>2 DEF NewVersion, Answer
<1>3. CASE m # i
  BY <1>1, <1>3 DEF NewVersion, Answer, TypeOK, MailboxTypeOK
<1> QED
  BY <1>2, <1>3

\* No message is newer than the mailbox afterwards.
LEMMA MailAgesOn ==
    ASSUME TypeOK, MailAges, NEW i \in Messages, NewVersion(i)
    PROVE  MailAges'
<1>1. /\ historyId \in Nat
      /\ \A m \in Messages : mail[m].ver \in Nat
      /\ \A m \in Messages \ {i} : mail'[m] = mail[m]
      /\ mail'[i].ver = historyId + 1 /\ historyId' = historyId + 1
  BY DEF NewVersion, TypeOK, MailboxTypeOK, Copy
<1> QED
  BY <1>1 DEF MailAges

\* A step in which the mailbox keeps its messages, rows may take fetched answers,
\* and a batch may be emptied or take what Gmail answers now.
MovesAnswers ==
    /\ mail' = mail
    /\ historyId' >= historyId /\ historyId' \in Nat
    /\ \A m \in Messages :
          rows'[m] = rows[m] \/ \E j \in Jobs : rows'[m] = run[j].fetched[m]
    /\ \A j \in Jobs, m \in Messages :
          run'[j].fetched[m] \in {run[j].fetched[m], NoCopy, mail[m]}

\* The whole mailbox may be seen again at any time.
LEMMA MailIsAnswer ==
    ASSUME TypeOK, MailAges, NEW m \in Messages
    PROVE  Answer(mail[m], m) /\ Answer(NoCopy, m)
BY DEF TypeOK, MailboxTypeOK, Copy, MailAges, Answer, NoCopy

\* When one run empties its batch the others keep theirs.
LEMMA GoOnFetched ==
    ASSUME TypeOK, NEW j \in Jobs, NEW next, next.fetched = NothingFetched,
           NEW ms \in SUBSET Messages, GoesOn(j, next, ms)
    PROVE  \A i \in Jobs, m \in Messages :
              run'[i].fetched[m] \in {run[i].fetched[m], NoCopy}
<1>1. \A i \in Jobs : PassedBy(run[i], ms).fetched = run[i].fetched
  BY NotingKeepsRun DEF TypeOK
<1> QED
  BY <1>1 DEF GoesOn, NothingFetched

\* Every step but a change of a message only moves answers.
LEMMA StepMovesAnswers ==
    ASSUME TypeOK, [Next]_vars
    PROVE  MovesAnswers \/ \E i \in Messages : MessageChanges(i)
<1>1. historyId \in Nat /\ \A i \in Jobs, m \in Messages :
            run[i].fetched[m] \in {run[i].fetched[m], NoCopy, mail[m]}
  BY DEF TypeOK, MailboxTypeOK
<1>2. ASSUME UNCHANGED <<mail, rows, run>>, historyId' >= historyId, historyId' \in Nat
      PROVE  MovesAnswers
  BY <1>2 DEF MovesAnswers
<1>3. CASE MailboxChanges
  <2>1. historyId' >= historyId /\ historyId' \in Nat /\ UNCHANGED <<mail, rows, run>>
    BY <1>3 DEF MailboxChanges, Expunge, CreateLabel, ForgetHistory, dbVars, TypeOK,
                MailboxTypeOK
  <2> QED
    BY <1>2, <2>1
<1>4. ASSUME NEW k \in Jobs, UNCHANGED <<mail, historyId>>,
             \A m \in Messages : rows'[m] = rows[m] \/ rows'[m] = run[k].fetched[m],
             \A j \in Jobs, m \in Messages :
                run'[j].fetched[m] \in {run[j].fetched[m], NoCopy, mail[m]}
      PROVE  MovesAnswers
  BY <1>1, <1>4 DEF MovesAnswers
<1>5. ASSUME NEW j \in Jobs, BeginFull(j) \/ BeginIncremental(j) \/ StepFails(j)
                               \/ Advance(j)
      PROVE  MovesAnswers
  <2>1. \A m \in Messages : /\ IdleRun.fetched[m] = NoCopy
                            /\ FullRun.fetched[m] = NoCopy
                            /\ IncrementalRun.fetched[m] = NoCopy
    BY DEF IdleRun, FullRun, IncrementalRun, NothingFetched
  <2>2. CASE BeginFull(j) \/ BeginIncremental(j) \/ StepFails(j) \/ FetchGone(j)
               \/ HistoryExpired(j) \/ WriteSnapshot(j)
    <3>1. \E r \in {IdleRun, FullRun, IncrementalRun} : run' = [run EXCEPT ![j] = r]
      BY <2>2 DEF BeginFull, BeginIncremental, StepFails, FetchGone, HistoryExpired,
                  WriteSnapshot, AfterError
    <3>2. UNCHANGED <<mail, historyId, rows>>
      BY <2>2 DEF BeginFull, BeginIncremental, StepFails, FetchGone, HistoryExpired,
                  WriteSnapshot, mailboxVars, dbVars
    <3>3. \A i \in Jobs, m \in Messages :
            run'[i].fetched[m] \in {run[i].fetched[m], NoCopy, mail[m]}
      BY <2>1, <3>1 DEF TypeOK
    <3>4. QED
      BY <1>4, <3>2, <3>3
  <2>3. CASE ListPage(j) \/ HistoryPage(j) \/ SyncRegistry(j) \/ SelectLabels(j)
               \/ RebuildJunction(j) \/ GetProfile(j) \/ SaveState(j)
    <3>1. UNCHANGED <<mail, historyId, rows>>
      BY <2>3 DEF ListPage, HistoryPage, SyncRegistry, SelectLabels, RebuildJunction,
                  GetProfile, SaveState, mailboxVars, dbVars
    <3>2. \A i \in Jobs : run'[i].fetched = run[i].fetched
      <4>1. CASE HistoryPage(j)
        <5>1. PICK upto, ids, pc :
                run' = [run EXCEPT ![j] =
                  [@ EXCEPT !.cursor = upto, !.page = ids, !.mark = historyId, !.pc = pc]]
          BY <4>1 DEF HistoryPage
        <5>2. [run[j] EXCEPT !.cursor = upto, !.page = ids, !.mark = historyId,
                             !.pc = pc].fetched = run[j].fetched
          BY DEF TypeOK, Run
        <5>3. QED
          BY <5>1, <5>2 DEF TypeOK
      <4>2. CASE ListPage(j)
        <5>1. PICK rest, ids, pc :
                run' = [run EXCEPT ![j] = [@ EXCEPT !.toList = rest, !.page = ids, !.pc = pc]]
          BY <4>2 DEF ListPage
        <5>2. [run[j] EXCEPT !.toList = rest, !.page = ids, !.pc = pc].fetched = run[j].fetched
          BY DEF TypeOK, Run
        <5>3. QED
          BY <5>1, <5>2 DEF TypeOK
      <4>3. CASE SyncRegistry(j) \/ SelectLabels(j) \/ RebuildJunction(j) \/ GetProfile(j)
                   \/ SaveState(j)
        <5>1. ASSUME NEW pc, run' = [run EXCEPT ![j] = [@ EXCEPT !.pc = pc]]
              PROVE  \A i \in Jobs : run'[i].fetched = run[i].fetched
          BY <5>1 DEF TypeOK, Run
        <5>2. CASE GetProfile(j)
          BY <5>2 DEF GetProfile, TypeOK, Run
        <5>3. CASE SelectLabels(j) \/ RebuildJunction(j)
          <6>1. \A ls, pc : [run[j] EXCEPT !.valid = ls, !.pc = pc].fetched = run[j].fetched
            BY DEF TypeOK, Run
          <6>2. PICK ls, pc : run' = [run EXCEPT ![j] = [@ EXCEPT !.valid = ls, !.pc = pc]]
            BY <5>3 DEF SelectLabels, RebuildJunction
          <6> QED
            BY <6>1, <6>2 DEF TypeOK
        <5>4. QED
          BY <4>3, <5>1, <5>2, <5>3 DEF SyncRegistry, SaveState
      <4>4. QED
        BY <2>3, <4>1, <4>2, <4>3
    <3>3. QED
      BY <1>4, <3>1, <3>2
  <2>4. ASSUME NEW i \in Messages, Fetch(j, i)
        PROVE  MovesAnswers
    <3>1. UNCHANGED <<mail, historyId, rows>>
      BY <2>4 DEF Fetch, mailboxVars, dbVars
    <3>2. \A k \in Jobs, m \in Messages : run'[k].fetched[m] \in {run[k].fetched[m], mail[m]}
      <4> DEFINE got == [run[j].fetched EXCEPT ![i] = mail[i]]
      <4>1. run'[j].fetched = got /\ \A k \in Jobs \ {j} : run'[k] = run[k]
        BY <2>4 DEF Fetch, TypeOK, Run
      <4>2. \A m \in Messages : got[m] \in {run[j].fetched[m], mail[m]}
        BY DEF TypeOK, Run
      <4>3. QED
        BY <4>1, <4>2
    <3>3. QED
      BY <1>4, <3>1, <3>2
  <2>5. CASE StoreBatch(j)
    <3>1. UNCHANGED <<mail, historyId>>
      BY <2>5 DEF StoreBatch, mailboxVars
    <3>2. \A m \in Messages : rows'[m] = rows[m] \/ rows'[m] = run[j].fetched[m]
      BY <2>5 DEF StoreBatch, UpsertRows
    <3>3. \A k \in Jobs, m \in Messages : run'[k].fetched[m] \in {run[k].fetched[m], NoCopy}
      <4> DEFINE next == [run[j] EXCEPT !.fetched = NothingFetched, !.pc = AfterBatch(run[j])]
                 older == Overwritten(run[j].fetched, Got(run[j]))
      <4>1. GoesOn(j, next, older)
        BY <2>5 DEF StoreBatch
      <4>2. older \in SUBSET Messages
        BY DEF Overwritten, Got
      <4>3. next.fetched = NothingFetched
        BY DEF TypeOK, Run
      <4> HIDE DEF next, older
      <4> QED
        BY <4>1, <4>2, <4>3, GoOnFetched
    <3>4. QED
      BY <1>4, <3>1, <3>2, <3>3
  <2>6. QED
    BY <1>5, <2>2, <2>3, <2>4, <2>5 DEF Advance
<1>6. ASSUME NEW j \in Manual,
             HalfBatchCommitted(j) \/ HalfRegistryCommitted(j) \/ HalfJunctionCommitted(j)
      PROVE  MovesAnswers
  <2>1. PICK older \in SUBSET Messages : ManualRunBreaks(j, older)
    BY <1>6 DEF HalfBatchCommitted, HalfRegistryCommitted, HalfJunctionCommitted,
                Overwritten, Got
  <2>2. j \in Jobs /\ UNCHANGED <<mail, historyId>>
    BY <2>1 DEF Manual, ManualRunBreaks, mailboxVars
  <2>3. \A m \in Messages : rows'[m] = rows[m] \/ rows'[m] = run[j].fetched[m]
    BY <1>6 DEF HalfBatchCommitted, HalfRegistryCommitted, HalfJunctionCommitted, UpsertRows
  <2>4. \A i \in Jobs, m \in Messages : run'[i].fetched[m] \in {run[i].fetched[m], NoCopy}
    BY <2>1, <2>2, GoOnFetched DEF ManualRunBreaks, IdleRun
  <2>5. QED
    BY <1>4, <2>2, <2>3, <2>4
<1>7. CASE Crash
  <2>1. \A j \in Jobs, m \in Messages : run'[j].fetched[m] = NoCopy
    BY <1>7 DEF Crash, IdleRun, NothingFetched
  <2>2. PICK k \in Jobs : TRUE
    BY <1>7 DEF Crash
  <2>3. UNCHANGED <<mail, historyId, rows>>
    BY <1>7 DEF Crash, mailboxVars, dbVars
  <2>4. QED
    BY <1>4, <2>1, <2>2, <2>3
<1>8. ASSUME NEW l \in Labels, RegisterLabel(l)
      PROVE  MovesAnswers
  BY <1>2, <1>8 DEF RegisterLabel, UpsertLabels, mailboxVars, TypeOK, MailboxTypeOK
<1>9. CASE UNCHANGED vars
  BY <1>2, <1>9 DEF vars, mailboxVars, dbVars, TypeOK, MailboxTypeOK
<1>10. QED
  BY <1>3, <1>5, <1>6, <1>7, <1>8, <1>9 DEF Next

\* Answers that only move stay answers.
LEMMA SourcesMove ==
    ASSUME TypeOK, Sources, MovesAnswers
    PROVE  Sources'
<1>1. MailAges'
  BY DEF MovesAnswers, Sources, MailAges, TypeOK, MailboxTypeOK, Copy
<1>2. \A m \in Messages : \A c : Answer(c, m) => Answer(c, m)'
  BY DEF MovesAnswers, Answer
<1>3. \A m \in Messages : rows'[m].ver <= mail'[m].ver
  BY DEF MovesAnswers, Sources, Answer
<1>4. \A j \in Jobs, m \in Messages : Answer(run'[j].fetched[m], m)
  BY MailIsAnswer DEF MovesAnswers, Sources
<1> QED
  BY <1>1, <1>3, <1>4 DEF Sources, Answer, MovesAnswers

\* They stay answers when a message gets a new version.
LEMMA SourcesAge ==
    ASSUME TypeOK, Sources, NEW i \in Messages, NewVersion(i), rows' = rows,
           \A j \in Jobs : run'[j].fetched = run[j].fetched
    PROVE  Sources'
<1>1. MailAges'
  BY MailAgesOn DEF Sources
<1>2. ASSUME NEW j \in Jobs, NEW m \in Messages PROVE Answer(run[j].fetched[m], m)'
  <2>1. run[j].fetched[m] \in Copy
    BY DEF TypeOK, Run
  <2> QED
    BY <2>1, AnswersAge DEF Sources, Answer
<1>3. ASSUME NEW m \in Messages PROVE rows'[m].ver <= mail'[m].ver
  <2>1. rows[m].ver \in Nat /\ mail[m].ver \in Nat /\ rows[m].ver <= mail[m].ver
        /\ mail[m].ver <= mail'[m].ver /\ mail'[m].ver \in Nat
    BY MailIsAnswer, AnswersAge DEF Sources, TypeOK, MailboxTypeOK, Copy, NewVersion
  <2> QED
    BY <2>1
<1> QED
  BY <1>1, <1>2, <1>3 DEF Sources, Answer

\* Every step writes answers of Gmail only, and Gmail never goes back.
LEMMA ProvenanceNext == TypeOK /\ Provenance /\ [Next]_vars => Provenance'
<1> SUFFICES ASSUME TypeOK, Provenance, [Next]_vars PROVE Provenance'
  OBVIOUS
<1>1. CASE MovesAnswers
  <2>1. Sources'
    BY <1>1, SourcesMove DEF Provenance
  <2>2. \A m \in Messages : Answer(rows'[m], m)
    BY <1>1 DEF MovesAnswers, Provenance, Sources
  <2> QED
    BY <1>1, <2>1, <2>2 DEF Provenance, Answer, MovesAnswers
<1>2. ASSUME NEW i \in Messages, MessageChanges(i) PROVE Provenance'
  <2>1. rows' = rows /\ \A j \in Jobs : run'[j].fetched = run[j].fetched
    BY <1>2 DEF MessageChanges, NoteChange, dbVars, TypeOK, Run
  <2>2. NewVersion(i)
    BY <1>2, ChangesGiveVersions DEF MessageChanges, TypeOK
  <2>3. Sources'
    BY <2>1, <2>2, SourcesAge DEF Provenance
  <2>4. \A m \in Messages : rows[m] \in Copy /\ Answer(rows[m], m)
    BY DEF TypeOK, Provenance
  <2>5. ASSUME NEW m \in Messages PROVE Answer(rows[m], m)'
    <3>1. \A c \in Copy :
            Answer(c, m) => /\ c.ver <= mail'[m].ver
                            /\ c.ver = mail'[m].ver => c = mail'[m]
      BY <2>2, AnswersAge DEF Provenance, Sources, Answer
    <3> QED
      BY <2>1, <2>4, <3>1 DEF Answer
  <2> QED
    BY <2>1, <2>3, <2>5 DEF Provenance, Answer
<1> QED
  BY <1>1, <1>2, StepMovesAnswers

\* For any callers, overlapping or not, any failures and any label changes: a
\* row is one answer of Gmail, never a mixture and never from the future.
THEOREM RowsAreAnswers == Spec => []RowsComeFromGmail
<1>1. Init => TypeOK /\ Provenance
  BY TypeInit, ProvenanceInit
<1>2. TypeOK /\ Provenance /\ [Next]_vars => (TypeOK /\ Provenance)'
  BY TypeNext, ProvenanceNext
<1>3. Provenance => RowsComeFromGmail
  BY DEF Provenance, Answer, RowsComeFromGmail
<1>4. QED
  BY <1>1, <1>2, <1>3, PTL DEF Spec

=============================================================================
