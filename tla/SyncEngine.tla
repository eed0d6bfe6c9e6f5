----------------------------- MODULE SyncEngine -----------------------------
(***************************************************************************)
(* The sync pipeline: SyncService.run_full_sync and run_incremental_sync,  *)
(* started by the two jobs of SyncScheduler and by the POST /sync route,   *)
(* against the Gmail account of module Mailbox and the local SQLite        *)
(* database.                                                               *)
(*                                                                         *)
(* One action per step that another thread can come between: every API     *)
(* call and every commit is a step of its own, so the mailbox, the other   *)
(* runs and a crash can act between any two of them.  Uncommitted writes   *)
(* are visible to nobody, so the statements of a transaction are one step. *)
(* The write of the daily_snapshots row (step 6 of both strategies) reads  *)
(* and writes nothing the other steps use: here it is a step that can only *)
(* end or fail.                                                            *)
(***************************************************************************)
EXTENDS Mailbox

CONSTANTS
    Jobs,          \* the callers: the two scheduled jobs and any sync requests
    PageSize,      \* max_results of list_messages
    BatchSize,     \* settings.sync_batch_size
    MaxFailures    \* bound on API errors, database errors and crashes

ASSUME SyncAssumption ==
    /\ PageSize \in Nat \ {0}
    /\ BatchSize \in Nat \ {0}
    /\ MaxFailures \in Nat

VARIABLES
    rows,          \* messages: version and raw_label_ids of each row
    junction,      \* message_labels: label ids joined to each message
    registry,      \* labels: ids of the label registry
    syncState,     \* sync_states: the record latest() returns
    run,           \* run[j]: local variables of the run of caller j
    failures,      \* failures so far, bounded by MaxFailures
    missed,        \* history: changes a recorded full sync did not see
    unindexed      \* history: rows whose junction entries are not rebuilt

\* Every caller that is not a job of the scheduler is a POST /sync request.
Manual == Jobs \ {"full_sync_daily", "incremental_sync"}

dbVars == <<rows, junction, registry, syncState>>
vars == <<mailboxVars, dbVars, run, failures, missed, unindexed>>

Steps == {"idle", "list", "fetch", "labels", "select", "junction", "profile",
          "history", "save", "snapshot"}

\* The variables of a run.  dirty is a history variable: the messages that
\* changed, or lost their newest answer, after this full sync had passed them.
Run == [pc : Steps, mode : {"full", "incremental"},
        toList : SUBSET Messages, page : SUBSET Messages,
        fetched : [Messages -> Copy], valid : SUBSET Labels,
        cursor : Nat, mark : Nat, dirty : SUBSET Messages]

NothingFetched == [m \in Messages |-> NoCopy]

IdleRun == [pc |-> "idle", mode |-> "full", toList |-> {}, page |-> {},
            fetched |-> NothingFetched, valid |-> {},
            cursor |-> 0, mark |-> 0, dirty |-> {}]

\* Mutant: an unset watermark is -1.
FullRunUnsetMark ==
    [IdleRun EXCEPT !.pc = "list", !.toList = Messages, !.mark = -1]

FullRun == [IdleRun EXCEPT !.pc = "list", !.toList = Messages]

\* The history cursor starts at the recorded watermark.
IncrementalRun ==
    [IdleRun EXCEPT !.pc = "history", !.mode = "incremental",
                    !.cursor = syncState.hid]

SyncStates == [type : {"none", "full", "incremental"}, hid : Nat]

TypeOK ==
    /\ MailboxTypeOK
    /\ rows \in [Messages -> Copy]
    /\ junction \in [Messages -> SUBSET Labels]
    /\ registry \in SUBSET Labels
    /\ syncState \in SyncStates
    /\ run \in [Jobs -> Run]
    /\ failures \in Nat
    /\ missed \in SUBSET Messages
    /\ unindexed \in SUBSET Messages

Init ==
    /\ MailboxInit
    /\ rows = NothingFetched
    /\ junction = [m \in Messages |-> {}]
    /\ registry = {}
    /\ syncState = [type |-> "none", hid |-> 0]
    /\ run = [j \in Jobs |-> IdleRun]
    /\ failures = 0
    /\ missed = {}
    /\ unindexed = {}

-----------------------------------------------------------------------------
(* The mailbox moves on its own.                                           *)

\* A full sync has taken no watermark yet in these steps.
InWindow(r) ==
    /\ r.mode = "full"
    /\ r.pc \in {"list", "fetch", "labels", "select", "junction", "profile"}

\* Message m changes: a full sync that still has to fetch it will see the
\* change, one that has passed it will not.  A change that was missed before
\* is superseded by this one.
NoteChange(m) ==
    /\ run' = [j \in Jobs |->
                 IF InWindow(run[j]) /\ m \notin run[j].toList \cup run[j].page
                 THEN [run[j] EXCEPT !.dirty = @ \cup {m}]
                 ELSE run[j]]
    /\ missed' = missed \ {m}

MessageChanges(m) ==
    /\ Arrive(m) \/ Relabel(m)
    /\ NoteChange(m)
    /\ UNCHANGED <<dbVars, failures, unindexed>>

MailboxChanges ==
    /\ \/ \E m \in Messages : Expunge(m)
       \/ \E l \in Labels : CreateLabel(l)
       \/ ForgetHistory
    /\ UNCHANGED <<dbVars, run, failures, missed, unindexed>>

-----------------------------------------------------------------------------
(* Starting and ending a run.  No run waits for those of other callers.    *)

\* run_full_sync: the daily job, or sync_mode = "full" in the route.
BeginFull(j) ==
    /\ j # "incremental_sync"
    /\ run[j].pc = "idle"
    /\ run' = [run EXCEPT ![j] = FullRun]
    /\ UNCHANGED <<mailboxVars, dbVars, failures, missed, unindexed>>

\* run_incremental_sync: without a recorded state it runs a full sync.
BeginIncremental(j) ==
    /\ j # "full_sync_daily"
    /\ run[j].pc = "idle"
    /\ run' = [run EXCEPT ![j] =
                 IF syncState.type = "none" THEN FullRun ELSE IncrementalRun]
    /\ UNCHANGED <<mailboxVars, dbVars, failures, missed, unindexed>>

\* Mutant: no caller catches IncrementalSyncError.
AfterErrorNoFallback(j) == IdleRun

\* What a run becomes when the step it is at raises.  The scheduler answers
\* IncrementalSyncError with a full sync in a fresh session and only logs
\* anything else; the route shows a message.
AfterError(j) ==
    IF j = "incremental_sync" /\ run[j].pc = "history" THEN FullRun ELSE IdleRun

\* messages.get of a message that was deleted since it was named.
FetchGone(j) ==
    /\ run[j].pc = "fetch"
    /\ \E m \in run[j].page : m \notin present
    /\ run' = [run EXCEPT ![j] = AfterError(j)]
    /\ UNCHANGED <<mailboxVars, dbVars, failures, missed, unindexed>>

\* history.list refuses a start id that Gmail no longer keeps.
HistoryExpired(j) ==
    /\ run[j].pc = "history"
    /\ run[j].cursor < horizon
    /\ run' = [run EXCEPT ![j] = AfterError(j)]
    /\ UNCHANGED <<mailboxVars, dbVars, failures, missed, unindexed>>

\* Any other API or database error; the transaction is rolled back.
StepFails(j) ==
    /\ failures < MaxFailures
    /\ failures' = failures + 1
    /\ run[j].pc # "idle"
    /\ run' = [run EXCEPT ![j] = AfterError(j)]
    /\ UNCHANGED <<mailboxVars, dbVars, missed, unindexed>>

\* The process dies and restarts: what was committed stays.
Crash ==
    /\ failures < MaxFailures
    /\ failures' = failures + 1
    /\ \E j \in Jobs : run[j].pc # "idle"
    /\ run' = [j \in Jobs |-> IdleRun]
    /\ UNCHANGED <<mailboxVars, dbVars, missed, unindexed>>

-----------------------------------------------------------------------------
(* Naming the messages to fetch.                                           *)

\* One page of messages.list.  The first page fixes what the later ones can
\* hold; a message that is hidden or deleted before its page is not listed.
ListPage(j) ==
    /\ run[j].pc = "list"
    /\ LET rest == run[j].toList \cap Visible IN
       \E ids \in SUBSET rest :
          /\ ids = rest \/ Cardinality(ids) = PageSize
          /\ Cardinality(ids) <= PageSize
          /\ run' = [run EXCEPT ![j] =
                [@ EXCEPT !.toList = rest \ ids, !.page = ids,
                          !.pc = IF ids = {} THEN "labels" ELSE "fetch"]]
    /\ UNCHANGED <<mailboxVars, dbVars, failures, missed, unindexed>>

\* One page of history.list: the changes up to some id.  The ids of all pages
\* are collected before any message is fetched; the historyId that the last
\* response carries becomes the watermark.
HistoryPage(j) ==
    /\ run[j].pc = "history"
    /\ run[j].cursor >= horizon
    /\ \E upto \in run[j].cursor..historyId :
          LET ids == run[j].page \cup ChangedBetween(run[j].cursor, upto) IN
          /\ upto > run[j].cursor \/ upto = historyId
          /\ run' = [run EXCEPT ![j] =
                [@ EXCEPT !.cursor = upto, !.page = ids, !.mark = historyId,
                          !.pc = IF upto < historyId THEN "history"
                                 ELSE IF ids = {} THEN "save" ELSE "fetch"]]
    /\ UNCHANGED <<mailboxVars, dbVars, failures, missed, unindexed>>

-----------------------------------------------------------------------------
(* Fetching a batch and committing it.                                     *)

Got(r) == {m \in Messages : r.fetched[m] # NoCopy}

\* batch_get_messages makes its messages.get calls one after the other.
Fetch(j, m) ==
    /\ run[j].pc = "fetch"
    /\ m \in run[j].page \cap present
    /\ Cardinality(Got(run[j])) < BatchSize
    /\ run' = [run EXCEPT ![j] =
          [@ EXCEPT !.page = run[j].page \ {m},
                    !.fetched = [run[j].fetched EXCEPT ![m] = mail[m]]]]
    /\ UNCHANGED <<mailboxVars, dbVars, failures, missed, unindexed>>

BatchReady(r) ==
    /\ r.pc = "fetch"
    /\ Got(r) # {}
    /\ r.page = {} \/ Cardinality(Got(r)) = BatchSize

\* Mutant: ON CONFLICT does not update raw_label_ids.
UpsertRowsKeepLabels(fetched, ids) ==
    rows' = [m \in Messages |->
               IF m \notin ids THEN rows[m]
               ELSE IF rows[m] = NoCopy THEN fetched[m]
               ELSE [fetched[m] EXCEPT !.labels = rows[m].labels]]

\* Mutant: a row only gives way to a newer version.
UpsertRowsOnlyNewer(fetched, ids) ==
    rows' = [m \in Messages |->
               IF m \in ids /\ fetched[m].ver > rows[m].ver THEN fetched[m] ELSE rows[m]]

\* upsert_many of the rows of ids.
UpsertRows(fetched, ids) ==
    rows' = [m \in Messages |-> IF m \in ids THEN fetched[m] ELSE rows[m]]

\* Mutant: label ids are not checked against the registry.
SyncMessageLabelsUnfiltered(fetched, joined, emptied) ==
    junction' = [m \in Messages |->
                   CASE m \in joined  -> fetched[m].labels
                     [] m \in emptied -> {}
                     [] OTHER         -> junction[m]]

\* sync_message_labels: all of it for joined, its DELETE alone for emptied.
\* Labels that the registry does not know are skipped.
SyncMessageLabels(fetched, joined, emptied) ==
    junction' = [m \in Messages |->
                   CASE m \in joined  -> fetched[m].labels \cap registry
                     [] m \in emptied -> {}
                     [] OTHER         -> junction[m]]

\* The messages of ids whose upsert changes their label set.
Relabelled(fetched, ids) == {m \in ids : fetched[m].labels # rows[m].labels}

\* The messages of ids for which another run has stored a newer answer.
Overwritten(fetched, ids) == {m \in ids : fetched[m].ver < rows[m].ver}

\* A full sync that has passed the messages ms and still has to record a
\* watermark does not repair what became of them.
PassedBy(r, ms) ==
    IF r.mode = "full" /\ r.pc \notin {"idle", "snapshot"}
    THEN [r EXCEPT !.dirty = @ \cup (ms \ (r.toList \cup r.page))]
    ELSE r

\* Run j goes on as next, and has put older answers into the rows of ms.
GoesOn(j, next, ms) ==
    /\ run' = [i \in Jobs |-> IF i = j THEN next ELSE PassedBy(run[i], ms)]
    /\ missed' = missed \cup ms

\* Mutant: nextPageToken is not followed.
AfterBatchFirstPageOnly(r) ==
    CASE r.page # {} -> "fetch"
      [] r.page = {} /\ r.mode = "incremental" -> "save"
      [] OTHER -> "labels"

AfterBatch(r) ==
    CASE r.page # {} -> "fetch"
      [] r.page = {} /\ r.mode = "incremental" -> "save"
      [] r.page = {} /\ r.mode = "full" /\ r.toList # {} -> "list"
      [] OTHER -> "labels"

\* The commit of a batch.  A full sync leaves the junction for later.
StoreBatch(j) ==
    LET fetched == run[j].fetched
        ids == Got(run[j])
    IN  /\ BatchReady(run[j])
        /\ UpsertRows(fetched, ids)
        /\ IF run[j].mode = "incremental"
           THEN /\ SyncMessageLabels(fetched, ids, {})
                /\ unindexed' = unindexed \ ids
           ELSE /\ UNCHANGED junction
                /\ unindexed' = unindexed \cup Relabelled(fetched, ids)
        /\ GoesOn(j, [run[j] EXCEPT !.fetched = NothingFetched, !.pc = AfterBatch(run[j])],
                   Overwritten(fetched, ids))
        /\ UNCHANGED <<mailboxVars, registry, syncState, failures>>

-----------------------------------------------------------------------------
(* The rest of a full sync, and the record every run ends with.            *)

\* label_repo.upsert of the labels ls: a row may carry one that was unknown.
UpsertLabels(ls) ==
    /\ registry' = registry \cup ls
    /\ unindexed' = unindexed \cup
          {m \in Messages : rows[m].labels \cap (ls \ registry) # {}}

\* list_labels and the upsert of every label.
SyncRegistry(j) ==
    /\ run[j].pc = "labels"
    /\ UpsertLabels(gmailLabels)
    /\ run' = [run EXCEPT ![j] = [@ EXCEPT !.pc = "select"]]
    /\ UNCHANGED <<mailboxVars, rows, junction, syncState, failures, missed>>

\* rebuild_message_label_junction reads the label ids before the DELETE that
\* begins its transaction.
SelectLabels(j) ==
    /\ run[j].pc = "select"
    /\ run' = [run EXCEPT ![j] = [@ EXCEPT !.valid = registry, !.pc = "junction"]]
    /\ UNCHANGED <<mailboxVars, dbVars, failures, missed, unindexed>>

\* The messages with a label that was registered after run r read the ids.
LabelledSince(r) == {m \in Messages : rows[m].labels \cap (registry \ r.valid) # {}}

\* Mutant: the old junction rows are not deleted.
RebuildJunctionInsertOnly(j) ==
    /\ run[j].pc = "junction"
    /\ junction' = [m \in Messages |-> junction[m] \cup (rows[m].labels \cap run[j].valid)]
    /\ unindexed' = LabelledSince(run[j])
    /\ run' = [run EXCEPT ![j] = [@ EXCEPT !.valid = {}, !.pc = "profile"]]
    /\ UNCHANGED <<mailboxVars, rows, registry, syncState, failures, missed>>

\* Its DELETE, its SELECT of the rows and its INSERT, with the ids read before.
RebuildJunction(j) ==
    /\ run[j].pc = "junction"
    /\ junction' = [m \in Messages |-> rows[m].labels \cap run[j].valid]
    /\ unindexed' = LabelledSince(run[j])
    /\ run' = [run EXCEPT ![j] = [@ EXCEPT !.valid = {}, !.pc = "profile"]]
    /\ UNCHANGED <<mailboxVars, rows, registry, syncState, failures, missed>>

GetProfile(j) ==
    /\ run[j].pc = "profile"
    /\ run' = [run EXCEPT ![j] = [@ EXCEPT !.mark = historyId, !.pc = "save"]]
    /\ UNCHANGED <<mailboxVars, dbVars, failures, missed, unindexed>>

\* What full sync r missed, and what is newer than its profile.
StillMissed(r) == r.dirty \cup {m \in missed : mail[m].ver > r.mark}

SaveState(j) ==
    /\ run[j].pc = "save"
    /\ syncState' = [type |-> run[j].mode, hid |-> run[j].mark]
    /\ missed' = IF run[j].mode = "full" THEN StillMissed(run[j]) ELSE missed
    /\ run' = [run EXCEPT ![j] = [@ EXCEPT !.pc = "snapshot"]]
    /\ UNCHANGED <<mailboxVars, rows, junction, registry, failures, unindexed>>

WriteSnapshot(j) ==
    /\ run[j].pc = "snapshot"
    /\ run' = [run EXCEPT ![j] = IdleRun]
    /\ UNCHANGED <<mailboxVars, dbVars, failures, missed, unindexed>>

-----------------------------------------------------------------------------
(* The route catches the exception of a failed run, so the request ends    *)
(* normally and its teardown commits what the failed transaction had       *)
(* already written.                                                        *)

\* older: the messages for which it leaves an older answer than there was.
ManualRunBreaks(j, older) ==
    /\ failures < MaxFailures
    /\ failures' = failures + 1
    /\ GoesOn(j, IdleRun, older)
    /\ UNCHANGED <<mailboxVars, syncState>>

\* Between two upserts of a batch, or, when all of an incremental batch is
\* written, in or between the calls of sync_message_labels.
HalfBatchCommitted(j) ==
    LET r == run[j] IN
    /\ BatchReady(r)
    /\ \E ids \in SUBSET Got(r) : \E joined \in SUBSET ids : \E emptied \in SUBSET (ids \ joined) :
          /\ joined \cup emptied # {} => r.mode = "incremental" /\ ids = Got(r)
          /\ Cardinality(emptied) <= 1
          /\ UpsertRows(r.fetched, ids)
          /\ SyncMessageLabels(r.fetched, joined, emptied)
          /\ unindexed' = (unindexed \cup Relabelled(r.fetched, ids) \cup emptied) \ joined
          /\ ManualRunBreaks(j, Overwritten(r.fetched, ids))
    /\ UNCHANGED registry

\* Between two upserts of the label registry.
HalfRegistryCommitted(j) ==
    /\ ManualRunBreaks(j, {})
    /\ run[j].pc = "labels"
    /\ \E ls \in SUBSET gmailLabels : UpsertLabels(ls)
    /\ UNCHANGED <<rows, junction>>

\* Between the DELETE and the INSERT of the junction rebuild, or within the
\* INSERT, which stops at any of its rows.
HalfJunctionCommitted(j) ==
    LET r == run[j] IN
    /\ ManualRunBreaks(j, {})
    /\ r.pc = "junction"
    /\ \E inserted \in [Messages -> SUBSET r.valid] :
          /\ \A m \in Messages : inserted[m] \subseteq rows[m].labels
          /\ junction' = inserted
    /\ unindexed' = {m \in Messages : junction'[m] # rows[m].labels \cap registry}
    /\ UNCHANGED <<rows, registry>>

\* The POST /labels/create route: label_repo.upsert of a label that
\* create_label returned, new or already there.
RegisterLabel(l) ==
    /\ l \in gmailLabels \ registry
    /\ UpsertLabels({l})
    /\ UNCHANGED <<mailboxVars, rows, junction, syncState, run, failures, missed>>

-----------------------------------------------------------------------------
(* The steps of a run that its thread takes by itself.                     *)
Advance(j) ==
    \/ FetchGone(j) \/ HistoryExpired(j)
    \/ ListPage(j) \/ HistoryPage(j)
    \/ \E m \in Messages : Fetch(j, m)
    \/ StoreBatch(j)
    \/ SyncRegistry(j) \/ SelectLabels(j) \/ RebuildJunction(j) \/ GetProfile(j)
    \/ SaveState(j) \/ WriteSnapshot(j)

Next ==
    \/ \E m \in Messages : MessageChanges(m)
    \/ MailboxChanges
    \/ \E l \in Labels : RegisterLabel(l)
    \/ \E j \in Jobs : BeginFull(j) \/ BeginIncremental(j) \/ Advance(j) \/ StepFails(j)
    \/ \E j \in Manual :
          HalfBatchCommitted(j) \/ HalfRegistryCommitted(j) \/ HalfJunctionCommitted(j)
    \/ Crash

Spec == Init /\ [][Next]_vars

\* APScheduler starts each of its jobs again and again, and a running thread
\* goes on: a started run ends or raises.
Fairness ==
    /\ \A j \in Jobs : WF_vars(Advance(j))
    /\ \A j \in Jobs \cap {"full_sync_daily"} : WF_vars(BeginFull(j))
    /\ \A j \in Jobs \cap {"incremental_sync"} : WF_vars(BeginIncremental(j))

FairSpec == Spec /\ Fairness

-----------------------------------------------------------------------------
(* Properties.                                                             *)

\* Every change that the recorded watermark covers is in the local rows: the
\* next incremental sync starts there and never looks at older changes.  Only
\* two kinds may be absent, those that overtook a full sync and those whose row
\* an overlapping run has set back to an older answer (sync_service.py,
\* run_full_sync and run_incremental_sync).
NoSilentLoss ==
    syncState.type # "none" =>
        \A m \in Visible :
            rows[m] = mail[m] \/ mail[m].ver > syncState.hid \/ m \in missed

\* The normalised junction answers a label query as raw_label_ids would, but
\* for the rows that a full sync or a broken manual run wrote and no rebuild
\* has indexed since, and those with a label that was registered after the
\* last rebuild had read the label ids (label_repository.py).
JunctionExact ==
    \A m \in Messages \ unindexed : junction[m] = rows[m].labels \cap registry

\* However runs, label changes and failures interleave, a row is one answer
\* that Gmail gave for that message, never newer than the mailbox, and equal
\* to it when the versions agree (the upsert writes whole rows).
RowsComeFromGmail ==
    \A m \in Messages :
        /\ rows[m].ver <= mail[m].ver
        /\ rows[m].ver = mail[m].ver => rows[m] = mail[m]

\* Full syncs heal every loss: as long as they are started again and again, as
\* the daily job does, once the mailbox is quiet and errors stop, all listed
\* messages are, and stay, as Gmail has them, however runs overlap
\* (sync_scheduler.py, start).
FullSyncsHeal ==
    []<><<\E j \in Jobs : BeginFull(j)>>_vars
        => <>[](\A m \in Visible : rows[m] = mail[m])

\* A watermark that Gmail has forgotten is replaced by one that it accepts:
\* the scheduled job falls back to a full sync
\* (sync_scheduler.py, _run_incremental_sync_with_fallback).
ExpiredHistoryRecovers ==
    (syncState.type # "none" /\ syncState.hid < horizon)
        ~> (syncState.hid >= horizon)

-----------------------------------------------------------------------------
(* What the documentation says and the code does not keep.                 *)

\* domain/models/sync_state.py:44: the recorded historyId is the "high-water
\* mark at end of sync", from which the next incremental sync continues: every
\* change up to it is in the local rows.
WatermarkIsHighWater ==
    syncState.type # "none" =>
        \A m \in Visible : rows[m] = mail[m] \/ mail[m].ver > syncState.hid

\* infrastructure/scheduler/sync_scheduler.py:5: incremental syncs "keep the
\* local database near-real-time": again and again they catch up with Gmail.
IncrementalSyncKeepsUp == []<>(syncState.hid = historyId)

=============================================================================
