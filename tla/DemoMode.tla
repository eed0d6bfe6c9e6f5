------------------------------ MODULE DemoMode ------------------------------
(***************************************************************************)
(* The process of SyncAndLabels in demo mode, where MockGmailClient stands *)
(* for Gmail.                                                              *)
(*                                                                         *)
(* The mock keeps the account in memory and the database is on disk, so    *)
(* they part when the process ends: a new mock starts from the built-in    *)
(* data with a historyId below the recorded watermark, and answers the     *)
(* next incremental sync with nothing.  The mock also cuts its history at  *)
(* max_results, without a page token, and still reports the current        *)
(* historyId.  Nothing is ever deleted or expires in it, and nobody but    *)
(* the application uses it.                                                *)
(***************************************************************************)
EXTENDS SyncAndLabels

CONSTANT HistoryLimit    \* the changes a history answer holds for certain

ASSUME DemoAssumption == HistoryLimit \in Nat \ {0}

\* The mock has all of its messages from the start.
DemoInit == SystemInit /\ present = Messages

\* The label bootstrap.
MockMoves ==
    /\ \E l \in Labels : CreateLabel(l)
    /\ UNCHANGED <<dbVars, run, failures, missed, unindexed, requestVars>>

\* get_history of the mock: one answer, in which only the oldest changes are
\* certain to be named when there are more than it can hold.
MockHistory(j) ==
    LET r == run[j] IN
    /\ r.pc = "history"
    /\ \E ids \in SUBSET ChangedBetween(r.cursor, historyId) :
          /\ historyId - r.cursor <= HistoryLimit => ids = ChangedBetween(r.cursor, historyId)
          /\ ChangedBetween(r.cursor, r.cursor + HistoryLimit) \subseteq ids
          /\ run' = [run EXCEPT ![j] =
                [@ EXCEPT !.cursor = historyId, !.page = ids, !.mark = historyId,
                          !.pc = IF ids = {} THEN "save" ELSE "fetch"]]
    /\ UNCHANGED <<mailboxVars, dbVars, failures, missed, unindexed, requestVars>>

\* A new process with a new mock on the old database.
MockRestarts ==
    /\ failures < MaxFailures
    /\ failures' = failures + 1
    /\ mail' = [m \in Messages |-> [ver |-> 1, labels |-> {}]]
    /\ present' = Messages
    /\ historyId' = 1
    /\ gmailLabels' = Hidden
    /\ run' = [j \in Jobs |-> IdleRun]
    /\ req' = [r \in Requests |->
                 IF req[r].pc = "idle" THEN req[r]
                 ELSE [Ops!IdleRequest EXCEPT !.pc = "done"]]
    /\ open' = [r \in Requests |-> {}]
    /\ writer' = NoRequest
    /\ tx' = Ops!NoTransaction
    /\ settled' = {}
    /\ missed' = {}
    /\ UNCHANGED <<horizon, dbVars, log, unindexed>>

-----------------------------------------------------------------------------
WorkStep(j) ==
    IF run[j].pc = "history" THEN MockHistory(j) ELSE RunStep(j)

\* The mock takes any label.
AnswerStep(r) == IF Refused(r) THEN RequestModifies(r) ELSE RequestStep(r)

DemoNext ==
    \/ MockMoves \/ MockRestarts \/ OtherWrites
    \/ \E j \in Jobs : BeginRun(j) \/ WorkStep(j) \/ RunFails(j)
    \/ \E r \in Requests : BeginRequest(r) \/ AnswerStep(r) \/ RequestFails(r)

\* As in SyncAndLabels.
DemoFairness ==
    /\ \A j \in Jobs : WF_systemVars(WorkStep(j))
    /\ \A j \in Jobs \ Manual : WF_systemVars(BeginRun(j))
    /\ \A r \in Requests : WF_systemVars(AnswerStep(r))

FairDemo == DemoInit /\ [][DemoNext]_systemVars /\ DemoFairness

=============================================================================
