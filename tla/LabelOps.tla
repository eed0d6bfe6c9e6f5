------------------------------ MODULE LabelOps ------------------------------
(***************************************************************************)
(* LabelService under the request lifecycle of the Flask application: the  *)
(* toggle of one label over the selected messages (POST /messages/label)   *)
(* and one operation over many messages (apply_bulk_label_operation).      *)
(*                                                                         *)
(* A request is a thread with a database session of its own.  It opens a   *)
(* write transaction with its first UPDATE, keeps SQLite's only write lock *)
(* across its later calls to Gmail, and commits or rolls back in the       *)
(* teardown of the request.  Gmail is changed at once and never rolled     *)
(* back.  One action per step that another request, the mailbox or a crash *)
(* can come between.                                                       *)
(***************************************************************************)
EXTENDS Mailbox, SafetyGuard

CONSTANTS
    Requests,      \* the requests that can be made, each of them once
    NoRequest,     \* nobody holds the write lock
    Concurrent,    \* TRUE: as coded, the server handles requests in parallel
    Repeats,       \* TRUE: as coded, a request may name a message twice
    MaxIds,        \* bound on the messages named by a request
    MaxFailures    \* bound on API errors, database errors and crashes

ASSUME LabelOpsAssumption ==
    /\ NoRequest \notin Requests
    /\ Concurrent \in BOOLEAN
    /\ Repeats \in BOOLEAN
    /\ MaxIds \in Nat
    /\ MaxFailures \in Nat

VARIABLES
    rows,          \* messages: version and raw_label_ids of each row
    junction,      \* message_labels: label ids joined to each message
    registry,      \* labels: ids of the label registry
    log,           \* label_operations_log, committed entries
    writer,        \* the request that holds the write lock
    tx,            \* what the writer has written and not committed
    req,           \* req[r]: local variables of request r
    failures,      \* failures so far, bounded by MaxFailures
    open,          \* history: changes in Gmail made by unfinished requests
    settled        \* history: messages last changed by the last writer of their row

dbVars == <<rows, junction, registry, log>>
vars == <<mailboxVars, dbVars, writer, tx, req, failures, open, settled>>

Operation == [add : SUBSET Labels, remove : SUBSET Labels]
NoOperation == [add |-> {}, remove |-> {}]

\* ids are the messages still to be handled.  ask is the operation of a bulk
\* request; a toggle keeps its label in ask.add.  answer is what the last call
\* to Gmail returned.
Request == [pc : {"idle", "next", "modify", "update", "reply", "done"},
            kind : {"toggle", "bulk"}, ids : Seq(Messages),
            ask : Operation, op : Operation, answer : Copy,
            failed : BOOLEAN, rejected : BOOLEAN]

\* Mutant: an answer that has not come yet has version -1.
IdleRequestUnsetAnswer ==
    [pc |-> "idle", kind |-> "toggle", ids |-> <<>>,
     ask |-> NoOperation, op |-> NoOperation, answer |-> [NoCopy EXCEPT !.ver = -1],
     failed |-> FALSE, rejected |-> FALSE]

IdleRequest == [pc |-> "idle", kind |-> "toggle", ids |-> <<>>,
                ask |-> NoOperation, op |-> NoOperation, answer |-> NoCopy,
                failed |-> FALSE, rejected |-> FALSE]

\* The audit log keeps one row per label of an operation; here one record.
\* Which change in Gmail it is about, ver and labels, is not in the table.
LogEntry == [message : Messages, ver : Nat, labels : SUBSET Labels,
             add : SUBSET Labels, remove : SUBSET Labels]

\* added are the junction objects that the session inserts when it commits;
\* clash says that two of them have the same key.
Transaction == [rows : [Messages -> Copy],
                junction : [Messages -> SUBSET Labels],
                added : [Messages -> SUBSET Labels],
                clash : BOOLEAN, log : SUBSET LogEntry]

NoJunction == [m \in Messages |-> {}]

NoTransaction == [rows |-> [m \in Messages |-> NoCopy], junction |-> NoJunction,
                  added |-> NoJunction, clash |-> FALSE, log |-> {}]

TypeOK ==
    /\ MailboxTypeOK
    /\ rows \in [Messages -> Copy]
    /\ junction \in [Messages -> SUBSET Labels]
    /\ registry \in SUBSET Labels
    /\ log \in SUBSET LogEntry
    /\ writer \in Requests \cup {NoRequest}
    /\ tx \in Transaction
    /\ req \in [Requests -> Request]
    /\ failures \in Nat
    /\ open \in [Requests -> SUBSET LogEntry]
    /\ settled \in SUBSET Messages

\* A synced database: messages that arrived since have no row, and the labels
\* created since are not registered.
Init ==
    /\ present \in SUBSET Messages
    /\ mail \in [Messages -> [ver : {0, 1}, labels : SUBSET (Labels \ Hidden)]]
    /\ \A m \in Messages :
          IF m \in present THEN mail[m].ver = 1 ELSE mail[m] = NoCopy
    /\ historyId = 1
    /\ horizon = 1
    /\ gmailLabels = Labels
    /\ rows = mail
    /\ registry \in SUBSET Labels
    /\ ProtectedLabelIds \cap Labels \subseteq registry
    /\ junction = [m \in Messages |-> rows[m].labels \cap registry]
    /\ log = {}
    /\ writer = NoRequest
    /\ tx = NoTransaction
    /\ req = [r \in Requests |-> IdleRequest]
    /\ failures = 0
    /\ open = [r \in Requests |-> {}]
    /\ settled = {}

-----------------------------------------------------------------------------
\* The owner of the account and other clients.

Elsewhere(m) ==
    /\ Arrive(m) \/ Relabel(m)
    /\ settled' = settled \ {m}
    /\ UNCHANGED <<dbVars, writer, tx, req, failures, open>>

Deleted(m) ==
    /\ Expunge(m)
    /\ UNCHANGED <<dbVars, writer, tx, req, failures, open, settled>>

-----------------------------------------------------------------------------
(* A request comes in.                                                     *)

\* The message_ids of a form.
IdLists ==
    {ids \in UNION {[1..n -> Messages] : n \in 1..MaxIds} :
        Repeats \/ \A i, j \in DOMAIN ids : ids[i] = ids[j] => i = j}

MayBegin(r) ==
    /\ req[r].pc = "idle"
    /\ Concurrent \/ \A i \in Requests : req[i].pc \in {"idle", "done"}

Accepted(kind, ids, op) ==
    [IdleRequest EXCEPT !.pc = "next", !.kind = kind, !.ids = ids,
                        !.ask = op, !.op = op]

Rejected == [IdleRequest EXCEPT !.pc = "reply", !.rejected = TRUE]

BeginToggle(r) ==
    /\ MayBegin(r)
    /\ \E ids \in IdLists, label \in Labels :
          req' = [req EXCEPT ![r] =
             IF ValidLabelToggle(ids, label)
             THEN Accepted("toggle", ids, [add |-> {label}, remove |-> {}])
             ELSE Rejected]
    /\ UNCHANGED <<mailboxVars, dbVars, writer, tx, failures, open, settled>>

BeginBulk(r) ==
    /\ MayBegin(r)
    /\ \E ids \in IdLists, op \in Operation :
          /\ WellFormed(op)
          /\ req' = [req EXCEPT ![r] =
                IF ValidBulkLabelOperation(ids, op)
                THEN Accepted("bulk", ids, op)
                ELSE Rejected]
    /\ UNCHANGED <<mailboxVars, dbVars, writer, tx, failures, open, settled>>

-----------------------------------------------------------------------------
(* The end of a request: its teardown commits or rolls back.               *)

\* Mutant: the session is not closed when the request fails.
CloseKeepsLock(r) ==
    /\ req' = [req EXCEPT ![r] = [IdleRequest EXCEPT !.pc = "done"]]
    /\ open' = [open EXCEPT ![r] = {}]
    /\ UNCHANGED <<writer, tx>>

Close(r) ==
    /\ req' = [req EXCEPT ![r] = [IdleRequest EXCEPT !.pc = "done"]]
    /\ open' = [open EXCEPT ![r] = {}]
    /\ IF writer = r
       THEN writer' = NoRequest /\ tx' = NoTransaction
       ELSE UNCHANGED <<writer, tx>>

\* session.commit inserts the pending junction objects.
CommitSession ==
    /\ rows' = tx.rows
    /\ junction' = [m \in Messages |-> tx.junction[m] \cup tx.added[m]]
    /\ log' = log \cup tx.log

\* Mutant: the teardown commits after an exception, too.
RollBackCommits(r) ==
    /\ IF writer = r THEN CommitSession ELSE UNCHANGED <<rows, junction, log>>
    /\ Close(r)
    /\ UNCHANGED <<mailboxVars, registry, settled>>

\* The request ends by an exception that no error handler answers.
RollBack(r) ==
    /\ Close(r)
    /\ UNCHANGED <<mailboxVars, dbVars, settled>>

\* The messages whose rows the request has written.
Handled(r) == {c.message : c \in open[r]}

\* The messages that nothing else changed since the request did.
LastChangedBy(r) ==
    {m \in Messages : \E c \in open[r] : c.message = m /\ c.ver = mail[m].ver}

AllHandled(r) == req[r].pc = "next" /\ req[r].ids = <<>>

\* Returned, or answered by an error handler.
Ended(r) == req[r].pc = "reply" \/ (AllHandled(r) /\ ~req[r].failed)

Commit(r) ==
    /\ Ended(r)
    /\ writer = r
    /\ ~tx.clash
    /\ CommitSession
    /\ settled' = (settled \ Handled(r)) \cup LastChangedBy(r)
    /\ Close(r)
    /\ UNCHANGED <<mailboxVars, registry, failures>>

\* A request that wrote nothing: rejected by the guard (400).
EndUnwritten(r) ==
    /\ Ended(r)
    /\ writer # r
    /\ Close(r)
    /\ UNCHANGED <<mailboxVars, dbVars, failures, settled>>

\* Two pending junction rows with one key: the commit itself raises.
CommitFails(r) ==
    /\ Ended(r)
    /\ writer = r
    /\ tx.clash
    /\ RollBack(r)
    /\ UNCHANGED failures

\* The summary of a bulk request in which a message was not found.
RaiseSummary(r) ==
    /\ AllHandled(r)
    /\ req[r].failed
    /\ RollBack(r)
    /\ UNCHANGED failures

-----------------------------------------------------------------------------
(* One message of a request: resolve, call Gmail, write.                   *)

\* A session sees its own writes.
View(r) == IF writer = r THEN tx.rows ELSE rows

Current(r) == Head(req[r].ids)

\* Mutant: where the label is, the row's labels are removed.
OperationForWholeRow(q, row) ==
    IF q.kind = "toggle" /\ q.ask.add \subseteq row.labels
    THEN [add |-> {}, remove |-> row.labels]
    ELSE q.ask

\* A toggle removes the label from a message that has it locally.
OperationFor(q, row) ==
    IF q.kind = "toggle" /\ q.ask.add \subseteq row.labels
    THEN [add |-> {}, remove |-> q.ask.add]
    ELSE q.ask

\* The guard is asked again for every single message.
Resolve(r) ==
    /\ req[r].pc = "next"
    /\ req[r].ids # <<>>
    /\ View(r)[Current(r)] # NoCopy
    /\ LET op == OperationFor(req[r], View(r)[Current(r)]) IN
       req' = [req EXCEPT ![r] =
          IF ValidLabelOperation(op)
          THEN [@ EXCEPT !.pc = "modify", !.op = op]
          ELSE Rejected]
    /\ UNCHANGED <<mailboxVars, dbVars, writer, tx, failures, open, settled>>

\* A bulk request notes that a message has no row, and goes on.
SkipUnknown(r) ==
    /\ req[r].pc = "next"
    /\ req[r].ids # <<>>
    /\ req[r].kind = "bulk"
    /\ View(r)[Current(r)] = NoCopy
    /\ req' = [req EXCEPT ![r] = [@ EXCEPT !.ids = Tail(req[r].ids), !.failed = TRUE]]
    /\ UNCHANGED <<mailboxVars, dbVars, writer, tx, failures, open, settled>>

\* A toggle raises.
ToggleUnknown(r) ==
    /\ req[r].pc = "next"
    /\ req[r].ids # <<>>
    /\ req[r].kind = "toggle"
    /\ View(r)[Current(r)] = NoCopy
    /\ RollBack(r)
    /\ UNCHANGED failures

\* The change that the answer of Gmail is about.
Entry(q) == [message |-> Head(q.ids), ver |-> q.answer.ver, labels |-> q.answer.labels,
             add |-> q.op.add, remove |-> q.op.remove]

\* Gmail carries out the operation of the current message.
Modify(r) ==
    LET m == Current(r)
        op == req[r].op
        answer == [ver |-> historyId + 1,
                   labels |-> (mail[m].labels \cup op.add) \ op.remove]
    IN  /\ req[r].pc = "modify"
        /\ m \in present
        /\ historyId' = historyId + 1
        /\ mail' = [mail EXCEPT ![m] = answer]
        /\ req' = [req EXCEPT ![r] = [@ EXCEPT !.pc = "update", !.answer = answer]]
        /\ open' = [open EXCEPT ![r] = @ \cup {Entry(req'[r])}]
        /\ settled' = settled \ {m}
        /\ UNCHANGED <<present, horizon, gmailLabels, dbVars, writer, tx, failures>>

\* messages.modify of a message that no longer exists.
ModifyGone(r) ==
    /\ req[r].pc = "modify"
    /\ Current(r) \notin present
    /\ RollBack(r)
    /\ UNCHANGED failures

\* Mutant: the new labels are computed from the row, not taken from Gmail.
UpdateLabelsFromRow(kept, q, m) ==
    [kept EXCEPT ![m].labels = (@ \cup q.op.add) \ q.op.remove]

\* update_labels: the row's version stays.
UpdateLabels(kept, q, m) == [kept EXCEPT ![m].labels = q.answer.labels]

\* Mutant: with no label to insert, the old rows are not deleted.
DeleteJunctionUnlessEmpty(joined, q, m) ==
    IF q.answer.labels = {} THEN joined ELSE [joined EXCEPT ![m] = {}]

\* sync_message_labels deletes at once ...
DeleteJunction(joined, q, m) == [joined EXCEPT ![m] = {}]

\* ... and leaves the insertion to the commit; unknown labels are skipped.
PendingJunction(q) == q.answer.labels \cap registry

\* Row, junction and audit entries of the current message.
Update(r) ==
    LET m == Current(r)
        t == IF writer = r THEN tx
             ELSE [NoTransaction EXCEPT !.rows = rows, !.junction = junction]
    IN  /\ req[r].pc = "update"
        /\ writer \in {NoRequest, r}
        /\ writer' = r
        /\ tx' = [rows |-> UpdateLabels(t.rows, req[r], m),
                  junction |-> DeleteJunction(t.junction, req[r], m),
                  added |-> [t.added EXCEPT ![m] = @ \cup PendingJunction(req[r])],
                  clash |-> t.clash \/ t.added[m] \cap PendingJunction(req[r]) # {},
                  log |-> t.log \cup {Entry(req[r])}]
        /\ req' = [req EXCEPT ![r] =
              [@ EXCEPT !.pc = "next", !.ids = Tail(req[r].ids), !.answer = NoCopy]]
        /\ UNCHANGED <<mailboxVars, dbVars, failures, open, settled>>

\* Another request keeps the write lock for longer than the busy timeout.  The
\* entry with success = FALSE is part of what is rolled back.
DatabaseLocked(r) ==
    /\ req[r].pc = "update"
    /\ writer \notin {NoRequest, r}
    /\ RollBack(r)
    /\ UNCHANGED failures

\* Gmail refuses a change, its answer is lost, or the database fails: none of
\* these is a LabelOperationError, so nothing catches them.
StepFails(r) ==
    /\ failures < MaxFailures
    /\ failures' = failures + 1
    /\ req[r].pc \in {"next", "modify", "update"}
    /\ RollBack(r)

\* The process dies: open transactions are gone, and so are the requests.
Crash ==
    /\ failures < MaxFailures
    /\ failures' = failures + 1
    /\ \E r \in Requests : req[r].pc \notin {"idle", "done"}
    /\ req' = [r \in Requests |->
                 IF req[r].pc = "idle" THEN req[r]
                 ELSE [IdleRequest EXCEPT !.pc = "done"]]
    /\ open' = [r \in Requests |-> {}]
    /\ writer' = NoRequest
    /\ tx' = NoTransaction
    /\ UNCHANGED <<mailboxVars, dbVars, settled>>

-----------------------------------------------------------------------------
\* What the thread of a request does by itself.
Advance(r) ==
    \/ Resolve(r) \/ SkipUnknown(r) \/ ToggleUnknown(r)
    \/ Modify(r) \/ ModifyGone(r)
    \/ Update(r) \/ DatabaseLocked(r)
    \/ Commit(r) \/ EndUnwritten(r) \/ CommitFails(r) \/ RaiseSummary(r)

Next ==
    \/ \E m \in Messages : Elsewhere(m) \/ Deleted(m)
    \/ \E r \in Requests : BeginToggle(r) \/ BeginBulk(r) \/ Advance(r) \/ StepFails(r)
    \/ Crash

Spec == Init /\ [][Next]_vars

\* A thread goes on, and a wait for the lock ends by the busy timeout.
FairSpec == Spec /\ \A r \in Requests : WF_vars(Advance(r))

-----------------------------------------------------------------------------
(* Properties.                                                             *)

\* Gmail is never told to remove a protected label or to add one that only
\* Gmail assigns, although a toggle decides by a row that may be stale
\* (guard.py, label_service.py toggle_label_operation).
OnlyPermittedChanges ==
    [][\A r \in Requests : \A c \in open'[r] \ open[r] :
          /\ c.add \cap ProtectedAddLabelIds = {}
          /\ c.remove \cap ProtectedLabelIds = {}
          /\ mail[c.message].labels \ mail'[c.message].labels \subseteq c.remove]_vars

\* A request that the guard refuses was refused before it changed anything:
\* the check of the whole request covers those of every message
\* (label_service.py, step 1 of each entry point).
RejectedBeforeAnyCall == \A r \in Requests : req[r].rejected => open[r] = {}

\* However requests overlap, wait for the lock, repeat messages and fail: the
\* row of a message that only the last committed writer of it changed since is
\* as Gmail has the message (label_service.py, apply_label_operation).
SettledRowsMatch == \A m \in settled : rows[m].labels = mail[m].labels

\* No request keeps the others from writing for ever, however it ends
\* (database.py, get_session; app.py, _close_session).
WriteLockReleased == []<>(writer = NoRequest)

\* Rows and audit log receive all or nothing of a request, as Gmail answered.
Promise == INSTANCE LabelPromise
           WITH mail <- mail, rows <- rows, open <- open, log <- log

KeepsPromise == Promise!Spec

-----------------------------------------------------------------------------
(* What the documentation says and the code does not keep.                 *)

\* application/services/label_service.py:11: "Audit log entry is written
\* regardless of success or failure": no change of a request that ended is
\* missing from the log.
EveryChangeLogged ==
    [][\A r \in Requests : open'[r] = {} => open[r] \subseteq log']_vars

=============================================================================
