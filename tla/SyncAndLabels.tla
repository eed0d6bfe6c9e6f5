---------------------------- MODULE SyncAndLabels ----------------------------
(***************************************************************************)
(* One server process at work: the sync runs of module SyncEngine and the  *)
(* label requests of module LabelOps on one Gmail account and one SQLite   *)
(* database.                                                               *)
(*                                                                         *)
(* They meet in three places.  A request that changes a message in Gmail   *)
(* makes it newer than what a run has fetched.  A request that has written *)
(* keeps SQLite's only write lock across its later calls to Gmail, and a   *)
(* run that wants to commit meanwhile waits, or gives up after the busy    *)
(* timeout.  A request writes the answer it got from Gmail, however long   *)
(* it waited for the lock and whatever a run stored in between.            *)
(***************************************************************************)
EXTENDS SyncEngine

CONSTANTS
    Requests, NoRequest, MaxIds,
    ProtectedLabelIds, ProtectedAddLabelIds, ArchiveTriggerLabelId,
    MaxBulkOperationMessages, MaxLabelsPerOperation

ASSUME SystemAssumption ==
    /\ NoRequest \notin Requests
    /\ MaxIds \in Nat

VARIABLES log, writer, tx, req, open, settled      \* as in LabelOps

requestVars == <<log, writer, tx, req, open, settled>>
systemVars == <<vars, requestVars>>

Ops == INSTANCE LabelOps WITH Concurrent <- TRUE, Repeats <- TRUE

\* Nothing is synced yet.
SystemInit ==
    /\ Init
    /\ log = {}
    /\ writer = NoRequest
    /\ tx = Ops!NoTransaction
    /\ req = [r \in Requests |-> Ops!IdleRequest]
    /\ open = [r \in Requests |-> {}]
    /\ settled = {}

-----------------------------------------------------------------------------
(* The account, as the runs and the requests see it move.                  *)

AccountMoves ==
    \/ \E m \in Messages :
          /\ MessageChanges(m)
          /\ settled' = settled \ {m}
          /\ UNCHANGED <<log, writer, tx, req, open>>
    \/ MailboxChanges /\ UNCHANGED requestVars

-----------------------------------------------------------------------------
(* Sync runs beside requests.                                              *)

\* A run reads from Gmail without a transaction, but for these steps.
AtCommit(j) ==
    BatchReady(run[j]) \/ run[j].pc \in {"labels", "junction", "save", "snapshot"}

\* Mutant: a run writes without waiting for the lock of a request.
LockedOutIgnored(j) == FALSE

LockedOut(j) == AtCommit(j) /\ writer # NoRequest

BeginRun(j) ==
    /\ BeginFull(j) \/ BeginIncremental(j)
    /\ UNCHANGED requestVars

RunAdvances(j) ==
    /\ Advance(j)
    /\ ~LockedOut(j)
    /\ UNCHANGED requestVars

\* "database is locked": a request outlasts the busy timeout of a commit.
RunLocked(j) ==
    /\ LockedOut(j)
    /\ run' = [run EXCEPT ![j] = AfterError(j)]
    /\ UNCHANGED <<mailboxVars, dbVars, failures, missed, unindexed, requestVars>>

RunFails(j) == StepFails(j) /\ UNCHANGED requestVars

\* The other writers: what a broken manual sync leaves, POST /labels/create.
OtherWrites ==
    /\ \/ \E j \in Manual :
             HalfBatchCommitted(j) \/ HalfRegistryCommitted(j) \/ HalfJunctionCommitted(j)
       \/ \E l \in Labels : RegisterLabel(l)
    /\ writer = NoRequest
    /\ UNCHANGED requestVars

-----------------------------------------------------------------------------
(* Label requests beside runs.                                             *)

BeginRequest(r) ==
    /\ Ops!BeginToggle(r) \/ Ops!BeginBulk(r)
    /\ UNCHANGED <<syncState, run, missed, unindexed>>

\* A change in Gmail is one that a full sync may have passed by.
RequestModifies(r) ==
    /\ Ops!Modify(r)
    /\ NoteChange(Ops!Current(r))
    /\ UNCHANGED <<syncState, unindexed>>

\* Gmail refuses a label that it does not have.
Refused(r) ==
    req[r].pc = "modify" /\ ~(req[r].op.add \cup req[r].op.remove \subseteq gmailLabels)

RequestRefused(r) ==
    /\ Refused(r)
    /\ Ops!RollBack(r)
    /\ UNCHANGED <<syncState, run, failures, missed, unindexed>>

\* The answer that r commits for these was superseded while r held it.
Overtaken(r) == Ops!Handled(r) \ Ops!LastChangedBy(r)

\* A message that r changed twice: the junction rows that the first change left
\* pending are inserted along with those of the second.
HandledTwice(r) ==
    {m \in Messages : \E c, d \in open[r] : c # d /\ c.message = m /\ d.message = m}

RequestCommits(r) ==
    /\ Ops!Commit(r)
    /\ unindexed' = (unindexed \ Ops!Handled(r)) \cup HandledTwice(r)
    /\ missed' = missed \cup Overtaken(r)
    /\ run' = [j \in Jobs |-> PassedBy(run[j], Overtaken(r))]
    /\ UNCHANGED syncState

\* Everything else a request does: it reads, writes what nobody sees yet, and
\* ends without a commit.
RequestAdvances(r) ==
    /\ \/ Ops!Resolve(r) \/ Ops!SkipUnknown(r) \/ Ops!ToggleUnknown(r)
       \/ Ops!ModifyGone(r) \/ Ops!Update(r) \/ Ops!DatabaseLocked(r)
       \/ Ops!EndUnwritten(r) \/ Ops!CommitFails(r) \/ Ops!RaiseSummary(r)
    /\ UNCHANGED <<syncState, run, missed, unindexed>>

RequestFails(r) ==
    /\ Ops!StepFails(r)
    /\ UNCHANGED <<syncState, run, missed, unindexed>>

\* The process dies with all its threads.
ProcessDies ==
    \/ Crash /\ Ops!Crash
    \/ Crash /\ (\A r \in Requests : req[r].pc \in {"idle", "done"}) /\ UNCHANGED requestVars
    \/ /\ Ops!Crash
       /\ \A j \in Jobs : run[j].pc = "idle"
       /\ UNCHANGED <<syncState, run, missed, unindexed>>

-----------------------------------------------------------------------------
RequestStep(r) ==
    \/ ~Refused(r) /\ RequestModifies(r)
    \/ RequestRefused(r)
    \/ RequestCommits(r)
    \/ RequestAdvances(r)

RunStep(j) == RunAdvances(j) \/ RunLocked(j)

SystemNext ==
    \/ AccountMoves \/ OtherWrites \/ ProcessDies
    \/ \E j \in Jobs : BeginRun(j) \/ RunStep(j) \/ RunFails(j)
    \/ \E r \in Requests : BeginRequest(r) \/ RequestStep(r) \/ RequestFails(r)

SystemSpec == SystemInit /\ [][SystemNext]_systemVars

\* As in the two parts; a wait for the lock ends by the busy timeout.
SystemFairness ==
    /\ \A j \in Jobs : WF_systemVars(RunStep(j))
    /\ \A j \in Jobs \ Manual : WF_systemVars(BeginRun(j))
    /\ \A r \in Requests : WF_systemVars(RequestStep(r))

FairSystem == SystemSpec /\ SystemFairness

-----------------------------------------------------------------------------
(* Properties.  NoSilentLoss and JunctionExact of SyncEngine are checked   *)
(* here as well, with the requests as further writers of the same rows.    *)

SystemTypeOK == TypeOK /\ Ops!TypeOK

\* Whatever runs commit while a request waits or works, its rows, junction
\* rows and log entries land together, as Gmail answered them, and no row of
\* another message moves with them: nothing that a run stored is undone
\* (app.py, _close_session; database.py, get_session).
RequestsLandWhole ==
    [][\A r \in Requests :
         log' # log /\ open'[r] # open[r] =>
            /\ log' = log \cup open[r]
            /\ \A c \in open[r] :
                  \/ rows'[c.message].labels = c.labels
                  \/ \E d \in open[r] : d.message = c.message /\ d.ver > c.ver
            /\ \A m \in Messages \ Ops!Handled(r) :
                  rows'[m] = rows[m] /\ junction'[m] = junction[m]]_systemVars

\* Full syncs repair what requests and runs did to each other: as long as they
\* are started again and again, listed rows end up as Gmail has the messages,
\* and the junction as the rows have the labels (sync_service.py,
\* run_full_sync; label_service.py, apply_label_operation).
DatabaseSettles ==
    []<><<\E j \in Jobs : BeginFull(j)>>_vars
        => <>[](/\ \A m \in Visible : rows[m] = mail[m]
                /\ gmailLabels \subseteq registry
                /\ \A m \in Messages : junction[m] = rows[m].labels \cap registry)

=============================================================================
