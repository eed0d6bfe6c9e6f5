--------------------------- MODULE LabelOpsProofs ---------------------------
(***************************************************************************)
(* Machine-checked theorems about LabelOps, for any sets of messages,      *)
(* labels and requests, any limits and bounds, and requests that overlap   *)
(* and repeat messages as they like.                                       *)
(***************************************************************************)
EXTENDS LabelOps, MailboxProofs, FiniteSetTheorems, TLAPS

-----------------------------------------------------------------------------
(* The guard of a whole request covers the guard of every single call that *)
(* the request is expanded into, so the second check, between two calls,   *)
(* never refuses what the first has accepted.                              *)

\* The operation that a toggle turns into for a message without the label,
\* and for one with it.
Adding(label) == [add |-> {label}, remove |-> {}]
Removing(label) == [add |-> {}, remove |-> {label}]

\* Both change exactly one label.
LEMMA OneLabelCount ==
    ASSUME NEW label
    PROVE  /\ TotalLabelCount(Adding(label)) = 1
           /\ TotalLabelCount(Removing(label)) = 1
<1>1. Cardinality({label}) = 1
  BY FS_Singleton
<1>2. Cardinality({}) = 0
  BY FS_EmptySet
<1> QED
  BY <1>1, <1>2 DEF TotalLabelCount, Adding, Removing

\* validate_bulk_label_operation accepts only what validate_label_operation
\* accepts of each message (to_individual_requests).
THEOREM BulkCoversEach ==
    ASSUME NEW ids, NEW op, ValidBulkLabelOperation(ids, op)
    PROVE  ValidLabelOperation(op)
BY DEF ValidBulkLabelOperation, ValidLabelOperation

\* validate_label_toggle_operation asks nothing about archiving and counts one
\* label: still it covers both operations that a toggle can become.
THEOREM ToggleCoversBoth ==
    ASSUME NEW ids, NEW label, ValidLabelToggle(ids, label)
    PROVE  ValidLabelOperation(Adding(label)) /\ ValidLabelOperation(Removing(label))
<1>1. label # ArchiveTriggerLabelId
  BY GuardAssumption DEF ValidLabelToggle, NoProtectedLabelRemoval
<1>2. WithinLabelsPerOperationLimit(TotalLabelCount(Adding(label)))
  BY OneLabelCount DEF ValidLabelToggle
<1>3. WithinLabelsPerOperationLimit(TotalLabelCount(Removing(label)))
  BY OneLabelCount DEF ValidLabelToggle
<1>4. ValidLabelOperation(Adding(label))
  BY <1>2 DEF ValidLabelToggle, ValidLabelOperation, Adding, NoArchiveViaInboxRemoval,
     NoProtectedLabelRemoval
<1>5. ValidLabelOperation(Removing(label))
  BY <1>1, <1>3 DEF ValidLabelToggle, ValidLabelOperation, Removing,
     NoArchiveViaInboxRemoval, NoProtectedLabelAddition
<1> QED
  BY <1>4, <1>5

\* The separate archive check refuses nothing that the protected-label check
\* lets through: it only gives a better message (guard.py:119).
THEOREM ArchiveCheckIsImplied ==
    ASSUME NEW removed, NoProtectedLabelRemoval(removed)
    PROVE  NoArchiveViaInboxRemoval(removed)
BY GuardAssumption DEF NoProtectedLabelRemoval, NoArchiveViaInboxRemoval

-----------------------------------------------------------------------------
Running == {"next", "modify", "update"}

-----------------------------------------------------------------------------
(* Type correctness.  A request that is at a message still has its id.     *)

IdsLeft ==
    \A r \in Requests : req[r].pc \in {"modify", "update"} => req[r].ids # <<>>

TypeInv == TypeOK /\ IdsLeft

\* The members of the constant sets are what the model needs them to be.
LEMMA Constants ==
    /\ NoOperation \in Operation
    /\ NoCopy \in Copy
    /\ IdleRequest \in Request
    /\ NoTransaction \in Transaction
    /\ Rejected \in Request
<1>1. NoOperation \in Operation /\ NoCopy \in Copy
  BY DEF NoOperation, Operation, NoCopy, Copy
<1>2. IdleRequest \in Request
  BY <1>1 DEF IdleRequest, Request
<1>3. NoTransaction \in Transaction
  BY <1>1 DEF NoTransaction, Transaction, NoJunction
<1>4. Rejected \in Request
  BY <1>2 DEF Rejected, Request
<1> QED
  BY <1>1, <1>2, <1>3, <1>4

\* Forms name messages.
LEMMA IdListsAreSequences == IdLists \subseteq Seq(Messages)
<1> SUFFICES ASSUME NEW ids \in IdLists PROVE ids \in Seq(Messages)
  OBVIOUS
<1>1. PICK n \in 1..MaxIds : ids \in [1..n -> Messages]
  BY DEF IdLists
<1> QED
  BY <1>1, LabelOpsAssumption

\* A request that the guard accepted is well typed.
LEMMA AcceptedType ==
    ASSUME NEW kind \in {"toggle", "bulk"}, NEW ids \in IdLists, NEW op \in Operation
    PROVE  Accepted(kind, ids, op) \in Request
BY Constants, IdListsAreSequences DEF Accepted, IdleRequest, Request

\* Closing a request, whatever else its step does.
LEMMA CloseType ==
    ASSUME TypeInv, NEW r \in Requests, Close(r)
    PROVE  /\ req' \in [Requests -> Request]
           /\ open' \in [Requests -> SUBSET LogEntry]
           /\ writer' \in Requests \cup {NoRequest}
           /\ tx' \in Transaction
           /\ IdsLeft'
<1>1. [IdleRequest EXCEPT !.pc = "done"] \in Request
  BY Constants DEF IdleRequest, Request
<1>2. [IdleRequest EXCEPT !.pc = "done"].pc = "done"
  BY DEF IdleRequest
<1>3. req' \in [Requests -> Request]
  BY <1>1 DEF TypeInv, TypeOK, Close
<1>4. IdsLeft'
  BY <1>2 DEF TypeInv, TypeOK, IdsLeft, Close
<1>5. writer' \in Requests \cup {NoRequest} /\ tx' \in Transaction
  BY Constants DEF TypeInv, TypeOK, Close
<1>6. open' \in [Requests -> SUBSET LogEntry]
  BY DEF TypeInv, TypeOK, Close
<1> QED
  BY <1>3, <1>4, <1>5, <1>6

\* An audit entry is well typed.
LEMMA EntryType ==
    ASSUME NEW q \in Request, q.ids # <<>>
    PROVE  Entry(q) \in LogEntry
<1>1. Head(q.ids) \in Messages
  BY DEF Request
<1> QED
  BY <1>1 DEF Entry, LogEntry, Request, Copy, Operation

\* A request that goes on to its next message.
LEMMA TailType ==
    ASSUME NEW q \in Request, q.ids # <<>>
    PROVE  Tail(q.ids) \in Seq(Messages)
<1>1. q.ids \in Seq(Messages)
  BY DEF Request
<1> QED
  BY <1>1

\* Writing an answer to a row keeps the rows well typed.
LEMMA UpdateLabelsType ==
    ASSUME NEW kept \in [Messages -> Copy], NEW q \in Request, NEW m \in Messages
    PROVE  UpdateLabels(kept, q, m) \in [Messages -> Copy]
<1>1. q.answer.labels \in SUBSET Labels
  BY DEF Request, Copy
<1>2. [kept[m] EXCEPT !.labels = q.answer.labels] \in Copy
  BY <1>1 DEF Copy
<1>3. UpdateLabels(kept, q, m) = [kept EXCEPT ![m] = [kept[m] EXCEPT !.labels = q.answer.labels]]
  BY DEF UpdateLabels
<1> QED
  BY <1>2, <1>3

\* The first state is well typed.
LEMMA TypeInit == Init => TypeInv
<1> SUFFICES ASSUME Init PROVE TypeInv
  OBVIOUS
<1>1. mail \in [Messages -> Copy]
  BY DEF Init, Copy
<1>2. MailboxTypeOK
  BY <1>1 DEF Init, MailboxTypeOK
<1>3. junction \in [Messages -> SUBSET Labels]
  BY <1>1 DEF Init, Copy
<1>4. TypeOK
  BY <1>1, <1>2, <1>3, Constants, LabelOpsAssumption DEF Init, TypeOK
<1>5. IdsLeft
  BY DEF Init, IdsLeft, IdleRequest
<1> QED
  BY <1>4, <1>5 DEF TypeInv

\* Every step keeps the types.
LEMMA TypeNext == TypeInv /\ [Next]_vars => TypeInv'
<1> SUFFICES ASSUME TypeInv, [Next]_vars PROVE TypeInv'
  OBVIOUS
<1> USE DEF TypeInv, TypeOK
<1>1. ASSUME NEW m \in Messages, Elsewhere(m) PROVE TypeInv'
  BY <1>1, ChangeType DEF Elsewhere, dbVars, IdsLeft
<1>2. ASSUME NEW m \in Messages, Deleted(m) PROVE TypeInv'
  BY <1>2, ExpungeType DEF Deleted, dbVars, IdsLeft
<1>3. ASSUME NEW r \in Requests, BeginToggle(r) PROVE TypeInv'
  <2>1. PICK ids \in IdLists, label \in Labels :
          req' = [req EXCEPT ![r] =
             IF ValidLabelToggle(ids, label)
             THEN Accepted("toggle", ids, [add |-> {label}, remove |-> {}])
             ELSE Rejected]
    BY <1>3 DEF BeginToggle
  <2>2. [add |-> {label}, remove |-> {}] \in Operation
    BY DEF Operation
  <2>3. PICK q \in Request : req' = [req EXCEPT ![r] = q] /\ q.pc \in {"next", "reply"}
    BY <2>1, <2>2, AcceptedType, Constants DEF Accepted, Rejected, IdleRequest
  <2> QED
    BY <1>3, <2>3 DEF BeginToggle, mailboxVars, dbVars, MailboxTypeOK, IdsLeft
<1>4. ASSUME NEW r \in Requests, BeginBulk(r) PROVE TypeInv'
  <2>1. PICK ids \in IdLists, op \in Operation :
          req' = [req EXCEPT ![r] =
             IF ValidBulkLabelOperation(ids, op) THEN Accepted("bulk", ids, op)
             ELSE Rejected]
    BY <1>4 DEF BeginBulk
  <2>2. PICK q \in Request : req' = [req EXCEPT ![r] = q] /\ q.pc \in {"next", "reply"}
    BY <2>1, AcceptedType, Constants DEF Accepted, Rejected, IdleRequest
  <2> QED
    BY <1>4, <2>2 DEF BeginBulk, mailboxVars, dbVars, MailboxTypeOK, IdsLeft
<1>5. ASSUME NEW r \in Requests, Resolve(r) PROVE TypeInv'
  <2>1. PICK op : /\ op = OperationFor(req[r], View(r)[Current(r)])
                  /\ req' = [req EXCEPT ![r] =
                       IF ValidLabelOperation(op)
                       THEN [req[r] EXCEPT !.pc = "modify", !.op = op]
                       ELSE Rejected]
    BY <1>5 DEF Resolve
  <2>2. op \in Operation
    BY <2>1 DEF OperationFor, Operation, Request
  <2>3. [req[r] EXCEPT !.pc = "modify", !.op = op] \in Request
    BY <2>2 DEF Request
  <2>4. req' \in [Requests -> Request]
    BY <2>1, <2>3, Constants
  <2>5. IdsLeft'
    BY <1>5, <2>1 DEF Resolve, IdsLeft, Request, Rejected, IdleRequest
  <2> QED
    BY <1>5, <2>4, <2>5 DEF Resolve, mailboxVars, dbVars, MailboxTypeOK
<1>6. ASSUME NEW r \in Requests, SkipUnknown(r) PROVE TypeInv'
  <2>1. [req[r] EXCEPT !.ids = Tail(req[r].ids), !.failed = TRUE] \in Request
    <3>1. Tail(req[r].ids) \in Seq(Messages)
      BY <1>6, TailType DEF SkipUnknown
    <3> QED
      BY <3>1 DEF Request
  <2>2. req' \in [Requests -> Request] /\ IdsLeft'
    BY <1>6, <2>1 DEF SkipUnknown, IdsLeft, Request
  <2> QED
    BY <1>6, <2>2 DEF SkipUnknown, mailboxVars, dbVars, MailboxTypeOK
<1>7. ASSUME NEW r \in Requests, Modify(r) PROVE TypeInv'
  <2> DEFINE answer == [ver |-> historyId + 1,
                        labels |-> (mail[Current(r)].labels \cup req[r].op.add)
                                      \ req[r].op.remove]
             q == [req[r] EXCEPT !.pc = "update", !.answer = answer]
  <2>1. answer \in Copy
    BY <1>7 DEF Modify, MailboxTypeOK, Copy, Request, Operation
  <2>2. q \in Request /\ q.ids = req[r].ids
    BY <2>1 DEF Request
  <2>3. req' = [req EXCEPT ![r] = q]
    BY <1>7 DEF Modify
  <2>4. req[r].ids # <<>>
    BY <1>7 DEF Modify, IdsLeft
  <2>5. req' \in [Requests -> Request] /\ IdsLeft'
    BY <2>2, <2>3, <2>4 DEF IdsLeft
  <2>6. open' = [open EXCEPT ![r] = @ \cup {Entry(q)}]
    BY <1>7, <2>3 DEF Modify
  <2>7. open' \in [Requests -> SUBSET LogEntry]
    BY <2>2, <2>4, <2>6, EntryType
  <2>8. MailboxTypeOK'
    BY <1>7, <2>1 DEF Modify, MailboxTypeOK
  <2> QED
    BY <1>7, <2>5, <2>7, <2>8 DEF Modify, dbVars
<1>8. ASSUME NEW r \in Requests, Update(r) PROVE TypeInv'
  <2> DEFINE t == IF writer = r THEN tx
                  ELSE [NoTransaction EXCEPT !.rows = rows, !.junction = junction]
             m == Current(r)
  <2>1. t \in Transaction
    BY Constants DEF Transaction, NoTransaction
  <2>2. req[r].ids # <<>>
    BY <1>8 DEF Update, IdsLeft
  <2>3. m \in Messages
    BY <2>2 DEF Current, Request
  <2>4. UpdateLabels(t.rows, req[r], m) \in [Messages -> Copy]
    BY <2>1, <2>3, UpdateLabelsType DEF Transaction
  <2>5. DeleteJunction(t.junction, req[r], m) \in [Messages -> SUBSET Labels]
    BY <2>1, <2>3 DEF DeleteJunction, Transaction
  <2>6. PendingJunction(req[r]) \in SUBSET Labels
    BY DEF PendingJunction
  <2>7. Entry(req[r]) \in LogEntry
    BY <2>2, EntryType
  <2>8. [t.added EXCEPT ![m] = @ \cup PendingJunction(req[r])]
            \in [Messages -> SUBSET Labels]
    BY ZenonT(60), <2>1, <2>6 DEF Transaction
  <2>9. tx' \in Transaction
    <3>1. tx' = [rows |-> UpdateLabels(t.rows, req[r], m),
                 junction |-> DeleteJunction(t.junction, req[r], m),
                 added |-> [t.added EXCEPT ![m] = @ \cup PendingJunction(req[r])],
                 clash |-> t.clash \/ t.added[m] \cap PendingJunction(req[r]) # {},
                 log |-> t.log \cup {Entry(req[r])}]
      BY <1>8 DEF Update
    <3>2. (t.clash \/ t.added[m] \cap PendingJunction(req[r]) # {}) \in BOOLEAN
      OBVIOUS
    <3>3. t.log \cup {Entry(req[r])} \in SUBSET LogEntry
      BY <2>1, <2>7 DEF Transaction
    <3> HIDE DEF t, m
    <3> QED
      BY <2>4, <2>5, <2>8, <3>1, <3>2, <3>3 DEF Transaction
  <2>10. [req[r] EXCEPT !.pc = "next", !.ids = Tail(req[r].ids), !.answer = NoCopy]
            \in Request
    <3>1. Tail(req[r].ids) \in Seq(Messages)
      BY <2>2, TailType
    <3> QED
      BY <3>1, Constants DEF Request
  <2>11. req' \in [Requests -> Request] /\ IdsLeft'
    BY <1>8, <2>10 DEF Update, IdsLeft, Request
  <2> QED
    BY <1>8, <2>9, <2>11 DEF Update, mailboxVars, dbVars, MailboxTypeOK
<1>9. ASSUME NEW r \in Requests, Commit(r) PROVE TypeInv'
  <2>1. /\ rows' \in [Messages -> Copy]
        /\ junction' \in [Messages -> SUBSET Labels]
        /\ log' \in SUBSET LogEntry
    BY <1>9 DEF Commit, CommitSession, Transaction
  <2>2. settled' \in SUBSET Messages
    BY <1>9 DEF Commit, LastChangedBy
  <2>3. UNCHANGED <<mailboxVars, registry, failures>> /\ Close(r)
    BY <1>9 DEF Commit
  <2> QED
    BY <2>1, <2>2, <2>3, CloseType DEF mailboxVars, MailboxTypeOK
<1>10. ASSUME NEW r \in Requests, EndUnwritten(r) PROVE TypeInv'
  BY <1>10, CloseType DEF EndUnwritten, mailboxVars, dbVars, MailboxTypeOK
<1>11. ASSUME NEW r \in Requests, RollBack(r), failures' \in Nat PROVE TypeInv'
  BY <1>11, CloseType DEF RollBack, mailboxVars, dbVars, MailboxTypeOK
<1>12. ASSUME NEW r \in Requests,
              ToggleUnknown(r) \/ ModifyGone(r) \/ DatabaseLocked(r)
                \/ CommitFails(r) \/ RaiseSummary(r) \/ StepFails(r)
       PROVE  TypeInv'
  <2>1. RollBack(r) /\ failures' \in Nat
    BY <1>12 DEF ToggleUnknown, ModifyGone, DatabaseLocked, CommitFails,
       RaiseSummary, StepFails
  <2> QED
    BY <1>11, <2>1
<1>13. CASE Crash
  <2>1. [IdleRequest EXCEPT !.pc = "done"] \in Request
    BY Constants DEF IdleRequest, Request
  <2>2. [IdleRequest EXCEPT !.pc = "done"].pc = "done"
    BY DEF IdleRequest
  <2>3. req' \in [Requests -> Request] /\ IdsLeft'
    BY <1>13, <2>1, <2>2 DEF Crash, IdsLeft
  <2> QED
    BY <1>13, <2>3, Constants DEF Crash, mailboxVars, dbVars, MailboxTypeOK
<1>14. CASE UNCHANGED vars
  BY <1>14 DEF vars, mailboxVars, dbVars, MailboxTypeOK, IdsLeft
<1> QED
  BY <1>1, <1>2, <1>3, <1>4, <1>5, <1>6, <1>7, <1>8, <1>9, <1>10, <1>12, <1>13, <1>14
  DEF Next, Advance

\* Every reachable state of requests, transaction and database is well typed
\* (label_service.py; LabelOps!TypeOK).
THEOREM TypeCorrect == Spec => []TypeOK
<1>1. TypeInv => TypeOK
  BY DEF TypeInv
<1> QED
  BY <1>1, TypeInit, TypeNext, PTL DEF Spec

-----------------------------------------------------------------------------
(* What the guard accepted at the start of a request stays accepted for    *)
(* every message, so no request is refused between two calls to Gmail.     *)

\* q is a request, changes what it did in Gmail.
Guarded(q, changes) ==
    /\ q.pc \in Running => ValidLabelOperation(q.ask)
    /\ q.pc \in Running /\ q.kind = "toggle"
          => ValidLabelOperation([add |-> {}, remove |-> q.ask.add])
    /\ q.pc \in {"modify", "update"} => ValidLabelOperation(q.op)
    /\ q.pc \notin Running => changes = {}
    /\ q.rejected => q.pc = "reply"

GuardInv == \A r \in Requests : Guarded(req[r], open[r])

\* A step that concerns one request only.
LEMMA GuardedOne ==
    ASSUME TypeInv, GuardInv, NEW r \in Requests, NEW q, NEW changes,
           req' = [req EXCEPT ![r] = q], open' = [open EXCEPT ![r] = changes],
           Guarded(q, changes)
    PROVE  GuardInv'
<1> SUFFICES ASSUME NEW i \in Requests PROVE Guarded(req'[i], open'[i])
  BY DEF GuardInv, Guarded
<1>1. CASE i = r
  BY <1>1 DEF TypeInv, TypeOK
<1>2. CASE i # r
  BY <1>2 DEF TypeInv, TypeOK, GuardInv
<1> QED
  BY <1>1, <1>2

\* A request that ends has no changes left to answer for.
LEMMA GuardedClosed ==
    ASSUME TypeInv, GuardInv, NEW r \in Requests, Close(r)
    PROVE  GuardInv'
<1>1. Guarded([IdleRequest EXCEPT !.pc = "done"], {})
  BY DEF Guarded, Running, IdleRequest
<1> QED
  BY <1>1, GuardedOne DEF Close

\* Before the first request nothing was accepted.
LEMMA GuardInit == Init => GuardInv
BY DEF Init, GuardInv, Guarded, Running, IdleRequest

\* Every step keeps GuardInv: no request reaches Gmail with an operation the guard refuses.
LEMMA GuardNext == TypeInv /\ GuardInv /\ [Next]_vars => GuardInv'
<1> SUFFICES ASSUME TypeInv, GuardInv, [Next]_vars PROVE GuardInv'
  OBVIOUS
<1>0. ASSUME NEW r \in Requests PROVE open = [open EXCEPT ![r] = open[r]]
  BY DEF TypeInv, TypeOK
<1>1. ASSUME NEW m \in Messages, Elsewhere(m) \/ Deleted(m) PROVE GuardInv'
  BY <1>1 DEF Elsewhere, Deleted, GuardInv
<1>2. ASSUME NEW r \in Requests, BeginToggle(r) PROVE GuardInv'
  <2>1. PICK ids \in IdLists, label \in Labels :
          req' = [req EXCEPT ![r] =
             IF ValidLabelToggle(ids, label)
             THEN Accepted("toggle", ids, [add |-> {label}, remove |-> {}])
             ELSE Rejected]
    BY <1>2 DEF BeginToggle
  <2>2. open[r] = {} /\ open' = open
    BY <1>2 DEF BeginToggle, MayBegin, GuardInv, Guarded, Running
  <2>3. CASE ValidLabelToggle(ids, label)
    <3>1. ValidLabelOperation(Adding(label)) /\ ValidLabelOperation(Removing(label))
      BY <2>3, ToggleCoversBoth
    <3>2. Guarded(Accepted("toggle", ids, [add |-> {label}, remove |-> {}]), open[r])
      BY <3>1 DEF Guarded, Accepted, IdleRequest, Adding, Removing, Running
    <3> QED
      BY <1>0, <2>1, <2>2, <2>3, <3>2, GuardedOne
  <2>4. CASE ~ValidLabelToggle(ids, label)
    <3>1. Guarded(Rejected, open[r])
      BY <2>2 DEF Guarded, Rejected, IdleRequest, Running
    <3> QED
      BY <1>0, <2>1, <2>2, <2>4, <3>1, GuardedOne
  <2> QED
    BY <2>3, <2>4
<1>3. ASSUME NEW r \in Requests, BeginBulk(r) PROVE GuardInv'
  <2>1. PICK ids \in IdLists, op \in Operation :
          req' = [req EXCEPT ![r] =
             IF ValidBulkLabelOperation(ids, op) THEN Accepted("bulk", ids, op)
             ELSE Rejected]
    BY <1>3 DEF BeginBulk
  <2>2. open[r] = {} /\ open' = open
    BY <1>3 DEF BeginBulk, MayBegin, GuardInv, Guarded, Running
  <2>3. CASE ValidBulkLabelOperation(ids, op)
    <3>1. ValidLabelOperation(op)
      BY <2>3, BulkCoversEach
    <3>2. Guarded(Accepted("bulk", ids, op), open[r])
      BY <3>1 DEF Guarded, Accepted, IdleRequest, Running
    <3> QED
      BY <1>0, <2>1, <2>2, <2>3, <3>2, GuardedOne
  <2>4. CASE ~ValidBulkLabelOperation(ids, op)
    <3>1. Guarded(Rejected, open[r])
      BY <2>2 DEF Guarded, Rejected, IdleRequest, Running
    <3> QED
      BY <1>0, <2>1, <2>2, <2>4, <3>1, GuardedOne
  <2> QED
    BY <2>3, <2>4
<1>4. ASSUME NEW r \in Requests, Resolve(r) PROVE GuardInv'
  <2>1. PICK op : /\ op = OperationFor(req[r], View(r)[Current(r)])
                  /\ req' = [req EXCEPT ![r] =
                       IF ValidLabelOperation(op)
                       THEN [req[r] EXCEPT !.pc = "modify", !.op = op]
                       ELSE Rejected]
    BY <1>4 DEF Resolve
  <2>2. req[r] \in Request /\ Guarded(req[r], open[r]) /\ req[r].pc = "next"
    BY <1>4 DEF TypeInv, TypeOK, GuardInv, Resolve
  <2>3. ValidLabelOperation(op)
    BY <2>1, <2>2 DEF OperationFor, Guarded, Running
  <2>4. Guarded([req[r] EXCEPT !.pc = "modify", !.op = op], open[r])
    BY <2>2, <2>3 DEF Guarded, Running, Request
  <2> QED
    BY <1>0, <1>4, <2>1, <2>3, <2>4, GuardedOne DEF Resolve
<1>5. ASSUME NEW r \in Requests, SkipUnknown(r) PROVE GuardInv'
  <2>1. req[r] \in Request /\ Guarded(req[r], open[r])
    BY DEF TypeInv, TypeOK, GuardInv
  <2>2. Guarded([req[r] EXCEPT !.ids = Tail(req[r].ids), !.failed = TRUE], open[r])
    BY <1>5, <2>1 DEF SkipUnknown, Guarded, Running, Request
  <2> QED
    BY <1>0, <1>5, <2>2, GuardedOne DEF SkipUnknown
<1>6. ASSUME NEW r \in Requests, Modify(r) PROVE GuardInv'
  <2>1. req[r] \in Request /\ Guarded(req[r], open[r])
    BY DEF TypeInv, TypeOK, GuardInv
  <2>2. PICK answer, changes :
          /\ req' = [req EXCEPT ![r] = [req[r] EXCEPT !.pc = "update", !.answer = answer]]
          /\ open' = [open EXCEPT ![r] = changes]
    BY <1>6 DEF Modify
  <2>3. Guarded([req[r] EXCEPT !.pc = "update", !.answer = answer], changes)
    BY <1>6, <2>1 DEF Modify, Guarded, Running, Request
  <2> QED
    BY <2>2, <2>3, GuardedOne
<1>7. ASSUME NEW r \in Requests, Update(r) PROVE GuardInv'
  <2>1. req[r] \in Request /\ Guarded(req[r], open[r])
    BY DEF TypeInv, TypeOK, GuardInv
  <2>2. Guarded([req[r] EXCEPT !.pc = "next", !.ids = Tail(req[r].ids),
                               !.answer = NoCopy], open[r])
    BY <1>7, <2>1 DEF Update, Guarded, Running, Request
  <2> QED
    BY <1>0, <1>7, <2>2, GuardedOne DEF Update
<1>8. ASSUME NEW r \in Requests,
             Commit(r) \/ EndUnwritten(r) \/ ToggleUnknown(r) \/ ModifyGone(r)
               \/ DatabaseLocked(r) \/ CommitFails(r) \/ RaiseSummary(r) \/ StepFails(r)
      PROVE  GuardInv'
  <2>1. Close(r)
    BY <1>8 DEF Commit, EndUnwritten, ToggleUnknown, ModifyGone, DatabaseLocked,
       CommitFails, RaiseSummary, StepFails, RollBack
  <2> QED
    BY <2>1, GuardedClosed
<1>9. CASE Crash
  <2> SUFFICES ASSUME NEW i \in Requests PROVE Guarded(req'[i], open'[i])
    BY DEF GuardInv, Guarded
  <2>1. open'[i] = {} /\ Guarded(req[i], open[i])
    BY <1>9 DEF Crash, GuardInv
  <2> QED
    BY <1>9, <2>1 DEF Crash, Guarded, Running, IdleRequest
<1>10. CASE UNCHANGED vars
  BY <1>10 DEF vars, GuardInv
<1> QED
  BY <1>1, <1>2, <1>3, <1>4, <1>5, <1>6, <1>7, <1>8, <1>9, <1>10 DEF Next, Advance

\* A refused request has changed nothing, however many messages it names
\* (label_service.py: the guard is step 1 of every entry point).
THEOREM RefusedInTime == Spec => []RejectedBeforeAnyCall
<1>1. GuardInv => RejectedBeforeAnyCall
  BY DEF GuardInv, Guarded, Running, RejectedBeforeAnyCall
<1>2. Init => TypeInv /\ GuardInv
  BY TypeInit, GuardInit
<1>3. TypeInv /\ GuardInv /\ [Next]_vars => (TypeInv /\ GuardInv)'
  BY TypeNext, GuardNext
<1> QED
  BY <1>1, <1>2, <1>3, PTL DEF Spec

-----------------------------------------------------------------------------
(* What reaches Gmail.                                                     *)

\* Only Modify adds to the changes of a request.
LEMMA OnlyModifyOpens ==
    ASSUME TypeInv, [Next]_vars, NEW r \in Requests, NEW c \in open'[r] \ open[r]
    PROVE  Modify(r)
<1> USE DEF TypeInv, TypeOK
<1>1. ASSUME NEW i \in Requests, Close(i) PROVE open'[r] \subseteq open[r]
  BY <1>1 DEF Close
<1>2. ASSUME NEW i \in Requests, Advance(i) \/ StepFails(i), ~Modify(i)
      PROVE  open'[r] \subseteq open[r]
  BY <1>1, <1>2 DEF Advance, StepFails, Resolve, SkipUnknown, ToggleUnknown, ModifyGone,
     Update, DatabaseLocked, Commit, EndUnwritten, CommitFails, RaiseSummary, RollBack
<1>3. ASSUME NEW i \in Requests, Modify(i), i # r PROVE open'[r] = open[r]
  BY <1>3 DEF Modify
<1>4. CASE Crash
  BY <1>4 DEF Crash
<1>5. ASSUME NEW m \in Messages, Elsewhere(m) \/ Deleted(m) PROVE FALSE
  BY <1>5 DEF Elsewhere, Deleted
<1>6. ASSUME NEW i \in Requests, BeginToggle(i) \/ BeginBulk(i) PROVE FALSE
  BY <1>6 DEF BeginToggle, BeginBulk
<1>7. CASE UNCHANGED vars
  BY <1>7 DEF vars
<1> QED
  BY <1>2, <1>3, <1>4, <1>5, <1>6, <1>7 DEF Next, Advance

\* The operation of a step that reaches Gmail, and what it does there.
LEMMA ModifyIsPermitted ==
    ASSUME TypeInv, GuardInv, NEW r \in Requests, Modify(r)
    PROVE  /\ Current(r) \in Messages
           /\ req[r].op \in Operation
           /\ req[r].op.add \cap ProtectedAddLabelIds = {}
           /\ req[r].op.remove \cap ProtectedLabelIds = {}
           /\ mail' = [mail EXCEPT ![Current(r)] =
                 [ver |-> historyId + 1,
                  labels |-> (mail[Current(r)].labels \cup req[r].op.add)
                                \ req[r].op.remove]]
           /\ open' = [open EXCEPT ![r] = @ \cup
                 {[message |-> Current(r), ver |-> historyId + 1,
                   labels |-> (mail[Current(r)].labels \cup req[r].op.add)
                                 \ req[r].op.remove,
                   add |-> req[r].op.add, remove |-> req[r].op.remove]}]
<1> USE DEF TypeInv, TypeOK
<1>1. ValidLabelOperation(req[r].op)
  BY DEF Modify, GuardInv, Guarded, Running
<1>2. /\ req[r].op.add \cap ProtectedAddLabelIds = {}
      /\ req[r].op.remove \cap ProtectedLabelIds = {}
  BY <1>1 DEF ValidLabelOperation, NoProtectedLabelRemoval, NoProtectedLabelAddition
<1>3. Current(r) \in Messages
  BY DEF Modify, MailboxTypeOK
<1>4. req[r].op \in Operation
  BY DEF Request
<1> DEFINE answer == [ver |-> historyId + 1,
                      labels |-> (mail[Current(r)].labels \cup req[r].op.add)
                                    \ req[r].op.remove]
           q == [req[r] EXCEPT !.pc = "update", !.answer = answer]
<1>5. mail' = [mail EXCEPT ![Current(r)] = answer]
  BY DEF Modify
<1>6. req' = [req EXCEPT ![r] = q] /\ open' = [open EXCEPT ![r] = @ \cup {Entry(req'[r])}]
  BY DEF Modify
<1>7. Entry(req'[r]) = [message |-> Current(r), ver |-> answer.ver,
                        labels |-> answer.labels,
                        add |-> req[r].op.add, remove |-> req[r].op.remove]
  BY <1>6 DEF Entry, Current, Request
<1> QED
  BY <1>2, <1>3, <1>4, <1>5, <1>6, <1>7

\* Whatever is asked of it, and however stale the rows are by which a toggle
\* decides, the application never has Gmail remove a protected label or add
\* one that only Gmail assigns (guard.py; label_service.py).
THEOREM NothingForbiddenReachesGmail == Spec => OnlyPermittedChanges
<1> DEFINE Permitted ==
      \A r \in Requests : \A c \in open'[r] \ open[r] :
         /\ c.add \cap ProtectedAddLabelIds = {}
         /\ c.remove \cap ProtectedLabelIds = {}
         /\ mail[c.message].labels \ mail'[c.message].labels \subseteq c.remove
<1>1. TypeInv /\ GuardInv /\ [Next]_vars => Permitted
  <2> SUFFICES ASSUME TypeInv, GuardInv, [Next]_vars,
                      NEW r \in Requests, NEW c \in open'[r] \ open[r]
               PROVE  /\ c.add \cap ProtectedAddLabelIds = {}
                      /\ c.remove \cap ProtectedLabelIds = {}
                      /\ mail[c.message].labels \ mail'[c.message].labels \subseteq c.remove
    OBVIOUS
  <2>1. Modify(r)
    BY OnlyModifyOpens
  <2>2. c = [message |-> Current(r), ver |-> historyId + 1,
             labels |-> (mail[Current(r)].labels \cup req[r].op.add) \ req[r].op.remove,
             add |-> req[r].op.add, remove |-> req[r].op.remove]
    BY <2>1, ModifyIsPermitted DEF TypeInv, TypeOK
  <2>3. mail'[Current(r)].labels
          = (mail[Current(r)].labels \cup req[r].op.add) \ req[r].op.remove
    BY <2>1, ModifyIsPermitted DEF TypeInv, TypeOK, MailboxTypeOK
  <2> QED
    BY <2>1, <2>2, <2>3, ModifyIsPermitted
<1>2. Init => TypeInv /\ GuardInv
  BY TypeInit, GuardInit
<1>3. TypeInv /\ GuardInv /\ [Next]_vars => (TypeInv /\ GuardInv)'
  BY TypeNext, GuardNext
<1>4. TypeInv /\ GuardInv /\ [Next]_vars => [Permitted]_vars
  BY <1>1
<1> QED
  BY <1>2, <1>3, <1>4, PTL DEF Spec, OnlyPermittedChanges

-----------------------------------------------------------------------------
(* LabelOps implements LabelPromise.                                       *)

\* What request r has written in its transaction.
Written(r) == IF writer = r THEN tx.log ELSE {}

\* A row follows from the committed one by the newest of the changes.
RowFollows(new, old, m, changes) ==
    \/ /\ \A c \in changes : c.message # m
       /\ new = old
    \/ \E c \in changes :
          /\ c.message = m
          /\ new = [old EXCEPT !.labels = c.labels]
          /\ \A d \in changes : d.message = m => d = c \/ d.ver < c.ver

\* All that a request changed in Gmail is written, but for an answer that it
\* still has in its hands ...
OpenIsWritten ==
    \A r \in Requests :
        open[r] = IF req[r].pc = "update" THEN Written(r) \cup {Entry(req[r])}
                  ELSE Written(r)

\* ... which is newer than all that is written.
AnswerIsNewest ==
    \A r \in Requests : req[r].pc = "update" =>
        \A d \in Written(r) : d.ver < req[r].answer.ver

\* Versions come from Gmail's counter.
VersionsAreOld ==
    /\ \A m \in Messages : mail[m].ver <= historyId
    /\ \A r \in Requests : \A c \in open[r] : c.ver <= historyId

RowsFollow ==
    writer # NoRequest =>
        \A m \in Messages : RowFollows(tx.rows[m], rows[m], m, tx.log)

PromiseInv == OpenIsWritten /\ AnswerIsNewest /\ VersionsAreOld /\ RowsFollow

\* At the start nothing is open and no answer waits.
LEMMA PromiseInvInit == Init => PromiseInv
<1> SUFFICES ASSUME Init PROVE PromiseInv
  OBVIOUS
<1>1. \A r \in Requests : Written(r) = {} /\ req[r].pc = "idle"
  BY LabelOpsAssumption DEF Init, Written, IdleRequest
<1>2. OpenIsWritten /\ AnswerIsNewest
  BY <1>1 DEF Init, OpenIsWritten, AnswerIsNewest
<1>3. \A m \in Messages : mail[m].ver <= historyId
  BY DEF Init, NoCopy
<1> QED
  BY <1>1, <1>2, <1>3 DEF Init, PromiseInv, VersionsAreOld, RowsFollow

\* A step that writes nothing and reaches Gmail in the name of nobody.
LEMMA PromiseInvQuiet ==
    ASSUME TypeInv, PromiseInv, NEW r \in Requests, NEW q,
           UNCHANGED <<mail, historyId, rows, writer, tx, open>>,
           req' = [req EXCEPT ![r] = q],
           req[r].pc # "update", q.pc # "update"
    PROVE  PromiseInv'
<1> USE DEF TypeInv, TypeOK
<1>1. \A i \in Requests : Written(i)' = Written(i)
  BY DEF Written
<1>2. \A i \in Requests : i # r => req'[i] = req[i]
  OBVIOUS
<1>3. req'[r] = q
  OBVIOUS
<1>4. \A i \in Requests : req'[i].pc = "update" <=> req[i].pc = "update"
  BY <1>2, <1>3
<1>5. \A i \in Requests : req'[i].pc = "update" => req'[i] = req[i]
  BY <1>2, <1>3
<1>6. OpenIsWritten' /\ AnswerIsNewest'
  BY <1>1, <1>4, <1>5 DEF PromiseInv, OpenIsWritten, AnswerIsNewest, Entry
<1>7. VersionsAreOld' /\ RowsFollow'
  BY <1>1 DEF PromiseInv, VersionsAreOld, RowsFollow, RowFollows
<1> QED
  BY <1>6, <1>7 DEF PromiseInv

\* The end of a request.
LEMMA PromiseInvClose ==
    ASSUME TypeInv, PromiseInv, NEW r \in Requests, Close(r),
           UNCHANGED <<mail, historyId>>, writer # r => UNCHANGED rows
    PROVE  PromiseInv'
<1> USE DEF TypeInv, TypeOK
<1>1. \A i \in Requests : i # r => req'[i] = req[i] /\ open'[i] = open[i]
  BY DEF Close
<1>2. req'[r].pc = "done" /\ open'[r] = {}
  BY DEF Close, IdleRequest
<1>3. \A i \in Requests : i # r => Written(i)' = Written(i)
  BY LabelOpsAssumption DEF Close, Written
<1>4. Written(r)' = {}
  BY LabelOpsAssumption DEF Close, Written
<1>5. OpenIsWritten' /\ AnswerIsNewest'
  BY <1>1, <1>2, <1>3, <1>4 DEF PromiseInv, OpenIsWritten, AnswerIsNewest, Entry
<1>6. VersionsAreOld'
  BY <1>1, <1>2 DEF PromiseInv, VersionsAreOld
<1>7. RowsFollow'
  BY DEF PromiseInv, RowsFollow, Close, RowFollows
<1> QED
  BY <1>5, <1>6, <1>7 DEF PromiseInv

\* Changes from elsewhere keep PromiseInv: they get versions nobody holds.
LEMMA PromiseInvMailbox ==
    ASSUME TypeInv, PromiseInv, NEW m \in Messages, Elsewhere(m) \/ Deleted(m)
    PROVE  PromiseInv'
<1> USE DEF TypeInv, TypeOK, MailboxTypeOK
<1>1. UNCHANGED <<rows, writer, tx, req, open>>
  BY DEF Elsewhere, Deleted, dbVars
<1>2. /\ historyId' = historyId + 1
      /\ \A i \in Messages : mail'[i] = mail[i] \/ mail'[i].ver = historyId + 1
  BY DEF Elsewhere, Deleted, Arrive, Relabel, Expunge, Change, Copy
<1>3. \A r \in Requests : Written(r)' = Written(r)
  BY <1>1 DEF Written
<1>4. OpenIsWritten' /\ AnswerIsNewest' /\ RowsFollow'
  BY <1>1, <1>3 DEF PromiseInv, OpenIsWritten, AnswerIsNewest, RowsFollow,
     RowFollows, Entry
<1>5. \A r \in Requests : \A c \in open[r] : c.ver \in Nat
  BY DEF LogEntry
<1>6. \A i \in Messages : mail[i].ver \in Nat
  BY DEF Copy
<1>7. VersionsAreOld'
  BY <1>1, <1>2, <1>5, <1>6 DEF PromiseInv, VersionsAreOld
<1> QED
  BY <1>4, <1>7 DEF PromiseInv

\* A change in Gmail keeps PromiseInv: it is open and its answer waits.
LEMMA PromiseInvModify ==
    ASSUME TypeInv, PromiseInv, NEW r \in Requests, Modify(r)
    PROVE  PromiseInv'
<1> USE DEF TypeInv, TypeOK, MailboxTypeOK
<1>1. UNCHANGED <<rows, writer, tx>> /\ historyId' = historyId + 1
  BY DEF Modify, dbVars
<1>2. PICK answer : /\ answer.ver = historyId + 1
                    /\ mail' = [mail EXCEPT ![Current(r)] = answer]
                    /\ req' = [req EXCEPT ![r] =
                          [req[r] EXCEPT !.pc = "update", !.answer = answer]]
                    /\ open' = [open EXCEPT ![r] = @ \cup {Entry(req'[r])}]
  BY DEF Modify
<1>3. req[r].pc = "modify"
  BY DEF Modify
<1>4. req'[r].pc = "update" /\ req'[r].answer.ver = historyId + 1
  BY <1>2 DEF Request
<1>5. \A i \in Requests : i # r => req'[i] = req[i] /\ open'[i] = open[i]
  BY <1>2
<1>6. \A i \in Requests : Written(i)' = Written(i)
  BY <1>1 DEF Written
<1>7. \A i \in Requests : \A c \in open[i] : c.ver \in Nat /\ c.ver <= historyId
  BY DEF LogEntry, PromiseInv, VersionsAreOld
<1>8. OpenIsWritten'
  <2> SUFFICES ASSUME NEW i \in Requests
               PROVE  open'[i] = IF req'[i].pc = "update"
                                 THEN Written(i)' \cup {Entry(req'[i])}
                                 ELSE Written(i)'
    BY DEF OpenIsWritten, Entry
  <2>1. CASE i = r
    <3>1. open[r] = Written(r)
      BY <1>3 DEF PromiseInv, OpenIsWritten
    <3>2. open'[r] = open[r] \cup {Entry(req'[r])}
      BY <1>2
    <3> QED
      BY <2>1, <3>1, <3>2, <1>4, <1>6
  <2>2. CASE i # r
    BY <2>2, <1>5, <1>6 DEF PromiseInv, OpenIsWritten
  <2> QED
    BY <2>1, <2>2
<1>9. AnswerIsNewest'
  <2> SUFFICES ASSUME NEW i \in Requests, req'[i].pc = "update", NEW d \in Written(i)'
               PROVE  d.ver < req'[i].answer.ver
    BY DEF AnswerIsNewest
  <2>1. CASE i = r
    <3>1. d \in open[r]
      BY <2>1, <1>3, <1>6 DEF PromiseInv, OpenIsWritten
    <3> QED
      BY <2>1, <3>1, <1>4, <1>7
  <2>2. CASE i # r
    BY <2>2, <1>5, <1>6 DEF PromiseInv, AnswerIsNewest
  <2> QED
    BY <2>1, <2>2
<1>10. VersionsAreOld'
  <2>1. \A i \in Messages : mail[i].ver \in Nat /\ mail[i].ver <= historyId
    BY DEF Copy, PromiseInv, VersionsAreOld
  <2>2. \A i \in Messages : mail'[i] = mail[i] \/ mail'[i].ver = historyId + 1
    BY <1>2
  <2>3. \A i \in Requests : \A c \in open'[i] : c \in open[i] \/ c.ver = historyId + 1
    BY <1>2, <1>4, <1>5 DEF Entry
  <2> QED
    BY <1>1, <1>7, <2>1, <2>2, <2>3 DEF VersionsAreOld
<1>11. RowsFollow'
  BY <1>1 DEF PromiseInv, RowsFollow, RowFollows
<1> QED
  BY <1>8, <1>9, <1>10, <1>11 DEF PromiseInv

\* One more change, newer than the others, and the row that it gives.
LEMMA OneMoreChange ==
    ASSUME NEW old \in Copy, NEW new \in Copy, NEW m \in Messages,
           NEW changes \in SUBSET LogEntry, NEW e \in LogEntry,
           RowFollows(new, old, m, changes),
           \A d \in changes : d.ver < e.ver
    PROVE  /\ e.message = m =>
                RowFollows([new EXCEPT !.labels = e.labels], old, m, changes \cup {e})
           /\ e.message # m => RowFollows(new, old, m, changes \cup {e})
<1>1. ASSUME e.message = m
      PROVE  RowFollows([new EXCEPT !.labels = e.labels], old, m, changes \cup {e})
  <2>1. [new EXCEPT !.labels = e.labels] = [old EXCEPT !.labels = e.labels]
    <3>1. CASE new = old
      BY <3>1
    <3>2. CASE \E c \in changes : new = [old EXCEPT !.labels = c.labels]
      BY <3>2 DEF Copy
    <3> QED
      BY <3>1, <3>2 DEF RowFollows
  <2> QED
    BY <1>1, <2>1 DEF RowFollows
<1>2. ASSUME e.message # m PROVE RowFollows(new, old, m, changes \cup {e})
  BY <1>2 DEF RowFollows
<1> QED
  BY <1>1, <1>2

\* Writing the waiting answer to the row keeps PromiseInv.
LEMMA PromiseInvUpdate ==
    ASSUME TypeInv, PromiseInv, NEW r \in Requests, Update(r)
    PROVE  PromiseInv'
<1> USE DEF TypeInv, TypeOK, MailboxTypeOK
<1> DEFINE t == IF writer = r THEN tx
                ELSE [NoTransaction EXCEPT !.rows = rows, !.junction = junction]
           e == Entry(req[r])
<1>1. UNCHANGED <<mail, historyId, rows, open>> /\ writer \in {NoRequest, r}
  BY DEF Update, dbVars, mailboxVars
<1>2. writer' = r /\ tx'.log = t.log \cup {e}
        /\ tx'.rows = UpdateLabels(t.rows, req[r], Current(r))
  BY DEF Update
<1>3. req[r].pc = "update" /\ req[r].ids # <<>>
  BY DEF Update, IdsLeft
<1>4. e \in LogEntry /\ e.message = Current(r) /\ e.ver = req[r].answer.ver
        /\ e.labels = req[r].answer.labels
  BY <1>3, EntryType DEF Entry, Current
<1>5. t \in Transaction /\ t.log = Written(r)
  BY Constants DEF Written, Transaction, NoTransaction
<1>6. \A m \in Messages : RowFollows(t.rows[m], rows[m], m, t.log)
  <2>1. CASE writer = r
    BY <2>1, LabelOpsAssumption DEF PromiseInv, RowsFollow
  <2>2. CASE writer # r
    BY <2>2 DEF RowFollows, NoTransaction
  <2> QED
    BY <2>1, <2>2
<1>7. \A d \in t.log : d.ver < e.ver
  BY <1>3, <1>4, <1>5 DEF PromiseInv, AnswerIsNewest
<1> HIDE DEF t, e
<1>8. Written(r)' = t.log \cup {e}
  BY <1>2 DEF Written
<1>9. \A i \in Requests : i # r => Written(i)' = {} /\ Written(i) = {}
  BY <1>1, <1>2, LabelOpsAssumption DEF Written
<1>10. /\ req'[r].pc = "next"
       /\ \A i \in Requests : i # r => req'[i] = req[i]
  BY DEF Update, Request
<1>11. open[r] = t.log \cup {e}
  BY <1>3, <1>5 DEF PromiseInv, OpenIsWritten, e
<1>12. OpenIsWritten'
  BY <1>1, <1>8, <1>9, <1>10, <1>11 DEF PromiseInv, OpenIsWritten, Entry
<1>13. AnswerIsNewest'
  BY <1>9, <1>10 DEF AnswerIsNewest
<1>14. VersionsAreOld'
  BY <1>1 DEF PromiseInv, VersionsAreOld
<1>15. RowsFollow'
  <2> SUFFICES ASSUME NEW m \in Messages
               PROVE  RowFollows(tx'.rows[m], rows[m], m, t.log \cup {e})
    BY <1>1, <1>2 DEF RowsFollow, RowFollows
  <2>1. t.rows \in [Messages -> Copy] /\ t.log \in SUBSET LogEntry
    BY <1>5 DEF Transaction
  <2>2. CASE m = Current(r)
    <3>1. tx'.rows[m] = [t.rows[m] EXCEPT !.labels = e.labels]
      BY <1>2, <1>4, <2>1, <2>2 DEF UpdateLabels
    <3>2. RowFollows([t.rows[m] EXCEPT !.labels = e.labels], rows[m], m, t.log \cup {e})
      <4>1. e.message = m /\ rows[m] \in Copy /\ t.rows[m] \in Copy
        BY <1>4, <2>1, <2>2
      <4> QED
        BY <1>4, <1>6, <1>7, <2>1, <4>1, OneMoreChange
    <3> QED
      BY <3>1, <3>2
  <2>3. CASE m # Current(r)
    <3>1. tx'.rows[m] = t.rows[m]
      BY <1>2, <2>1, <2>3 DEF UpdateLabels
    <3> QED
      BY <1>4, <1>6, <1>7, <2>1, <2>3, <3>1, OneMoreChange
  <2> QED
    BY <2>2, <2>3
<1> QED
  BY <1>12, <1>13, <1>14, <1>15 DEF PromiseInv

\* Every step keeps PromiseInv.
LEMMA PromiseInvNext == TypeInv /\ PromiseInv /\ [Next]_vars => PromiseInv'
<1> SUFFICES ASSUME TypeInv, PromiseInv, [Next]_vars PROVE PromiseInv'
  OBVIOUS
<1>1. ASSUME NEW m \in Messages, Elsewhere(m) \/ Deleted(m) PROVE PromiseInv'
  BY <1>1, PromiseInvMailbox
<1>2. ASSUME NEW r \in Requests, BeginToggle(r) PROVE PromiseInv'
  <2>1. PICK q : req' = [req EXCEPT ![r] = q] /\ q.pc # "update"
    <3>1. PICK ids \in IdLists, label \in Labels :
            req' = [req EXCEPT ![r] =
               IF ValidLabelToggle(ids, label)
               THEN Accepted("toggle", ids, [add |-> {label}, remove |-> {}])
               ELSE Rejected]
      BY <1>2 DEF BeginToggle
    <3>2. /\ Accepted("toggle", ids, [add |-> {label}, remove |-> {}]).pc = "next"
          /\ Rejected.pc = "reply"
      BY DEF Accepted, Rejected, IdleRequest
    <3> QED
      BY <3>1, <3>2
  <2> QED
    BY <1>2, <2>1, PromiseInvQuiet DEF BeginToggle, MayBegin, mailboxVars, dbVars
<1>3. ASSUME NEW r \in Requests, BeginBulk(r) PROVE PromiseInv'
  <2>1. PICK q : req' = [req EXCEPT ![r] = q] /\ q.pc # "update"
    <3>1. PICK ids \in IdLists, op \in Operation :
            req' = [req EXCEPT ![r] =
               IF ValidBulkLabelOperation(ids, op) THEN Accepted("bulk", ids, op)
               ELSE Rejected]
      BY <1>3 DEF BeginBulk
    <3>2. Accepted("bulk", ids, op).pc = "next" /\ Rejected.pc = "reply"
      BY DEF Accepted, Rejected, IdleRequest
    <3> QED
      BY <3>1, <3>2
  <2> QED
    BY <1>3, <2>1, PromiseInvQuiet DEF BeginBulk, MayBegin, mailboxVars, dbVars
<1>4. ASSUME NEW r \in Requests, Resolve(r) PROVE PromiseInv'
  <2>1. PICK q : req' = [req EXCEPT ![r] = q] /\ q.pc # "update"
    <3>1. PICK op : req' = [req EXCEPT ![r] =
                       IF ValidLabelOperation(op)
                       THEN [req[r] EXCEPT !.pc = "modify", !.op = op]
                       ELSE Rejected]
      BY <1>4 DEF Resolve
    <3>2. [req[r] EXCEPT !.pc = "modify", !.op = op].pc = "modify"
      BY DEF TypeInv, TypeOK, Request
    <3>3. Rejected.pc = "reply"
      BY DEF Rejected, IdleRequest
    <3> QED
      BY <3>1, <3>2, <3>3
  <2> QED
    BY <1>4, <2>1, PromiseInvQuiet DEF Resolve, mailboxVars, dbVars
<1>5. ASSUME NEW r \in Requests, SkipUnknown(r) PROVE PromiseInv'
  <2>1. PICK q : req' = [req EXCEPT ![r] = q] /\ q.pc # "update"
    <3>1. [req[r] EXCEPT !.ids = Tail(req[r].ids), !.failed = TRUE].pc = "next"
      BY <1>5 DEF SkipUnknown, TypeInv, TypeOK, Request
    <3> QED
      BY <1>5, <3>1 DEF SkipUnknown
  <2> QED
    BY <1>5, <2>1, PromiseInvQuiet DEF SkipUnknown, mailboxVars, dbVars
<1>6. ASSUME NEW r \in Requests, Modify(r) PROVE PromiseInv'
  BY <1>6, PromiseInvModify
<1>7. ASSUME NEW r \in Requests, Update(r) PROVE PromiseInv'
  BY <1>7, PromiseInvUpdate
<1>8. ASSUME NEW r \in Requests, Commit(r) PROVE PromiseInv'
  BY <1>8, PromiseInvClose DEF Commit, mailboxVars
<1>9. ASSUME NEW r \in Requests,
             EndUnwritten(r) \/ ToggleUnknown(r) \/ ModifyGone(r) \/ DatabaseLocked(r)
               \/ CommitFails(r) \/ RaiseSummary(r) \/ StepFails(r)
      PROVE  PromiseInv'
  <2>1. Close(r) /\ UNCHANGED <<mailboxVars, dbVars>>
    BY <1>9 DEF EndUnwritten, ToggleUnknown, ModifyGone, DatabaseLocked, CommitFails,
       RaiseSummary, StepFails, RollBack
  <2> QED
    BY <2>1, PromiseInvClose DEF mailboxVars, dbVars
<1>10. CASE Crash
  <2>1. \A r \in Requests : open'[r] = {} /\ Written(r)' = {} /\ req'[r].pc # "update"
    BY <1>10, LabelOpsAssumption DEF Crash, Written, TypeInv, TypeOK, IdleRequest
  <2> QED
    BY <1>10, <2>1 DEF Crash, PromiseInv, OpenIsWritten, AnswerIsNewest, VersionsAreOld,
       RowsFollow, mailboxVars, dbVars
<1>11. CASE UNCHANGED vars
  BY <1>11 DEF vars, mailboxVars, dbVars, PromiseInv, OpenIsWritten, AnswerIsNewest,
     VersionsAreOld, RowsFollow, RowFollows, Written, Entry
<1> QED
  BY <1>1, <1>2, <1>3, <1>4, <1>5, <1>6, <1>7, <1>8, <1>9, <1>10, <1>11
  DEF Next, Advance

\* Modify is a permitted change of the abstract specification.
LEMMA ModifyApplies ==
    ASSUME TypeInv, GuardInv, PromiseInv, NEW r \in Requests, Modify(r)
    PROVE  Promise!Apply(r)
<1> USE DEF TypeInv, TypeOK
<1> DEFINE m == Current(r)
           added == req[r].op.add
           removed == req[r].op.remove
           labels == (mail[m].labels \cup added) \ removed
<1>1. /\ m \in Messages
      /\ mail' = [mail EXCEPT ![m] = [ver |-> historyId + 1, labels |-> labels]]
      /\ open' = [open EXCEPT ![r] = @ \cup
            {[message |-> m, ver |-> historyId + 1, labels |-> labels,
              add |-> added, remove |-> removed]}]
  BY ModifyIsPermitted
<1>2. added \in SUBSET (Labels \ ProtectedAddLabelIds)
  BY ModifyIsPermitted DEF Operation
<1>3. removed \in SUBSET (Labels \ ProtectedLabelIds)
  BY ModifyIsPermitted DEF Operation
<1>4. mail'[m] = [ver |-> historyId + 1, labels |-> labels]
  BY <1>1 DEF MailboxTypeOK
<1>5. mail'[m].ver = historyId + 1 /\ mail'[m].labels = labels
  BY <1>4
<1>6. mail'[m].ver > mail[m].ver
  BY <1>1, <1>5 DEF PromiseInv, VersionsAreOld, MailboxTypeOK, Copy
<1>7. UNCHANGED <<rows, log>>
  BY DEF Modify, dbVars
<1> HIDE DEF m, added, removed
<1>8. /\ mail' = [mail EXCEPT ![m] =
                    [ver |-> mail'[m].ver, labels |-> (mail[m].labels \cup added) \ removed]]
      /\ open' = [open EXCEPT ![r] = @ \cup
            {[message |-> m, ver |-> mail'[m].ver, labels |-> mail'[m].labels,
              add |-> added, remove |-> removed]}]
  BY <1>1, <1>5
<1> QED
  BY <1>1, <1>2, <1>3, <1>6, <1>7, <1>8 DEF Promise!Apply

\* Commit publishes all that the request did.
LEMMA CommitPublishes ==
    ASSUME TypeInv, PromiseInv, NEW r \in Requests, Commit(r)
    PROVE  Promise!Publish(r)
<1> USE DEF TypeInv, TypeOK
<1>1. /\ writer = r /\ req[r].pc # "update"
      /\ rows' = tx.rows /\ log' = log \cup tx.log
      /\ open' = [open EXCEPT ![r] = {}]
      /\ UNCHANGED mail
  BY DEF Commit, Ended, AllHandled, CommitSession, Close, mailboxVars
<1>2. open[r] = tx.log
  BY <1>1 DEF PromiseInv, OpenIsWritten, Written
<1>3. ASSUME NEW m \in Messages
      PROVE  LET mine == {c \in open[r] : c.message = m} IN
             tx.rows[m] = IF mine = {} THEN rows[m]
                          ELSE [rows[m] EXCEPT !.labels =
                                  (CHOOSE c \in mine : \A d \in mine : d.ver <= c.ver).labels]
  <2> DEFINE mine == {c \in open[r] : c.message = m}
             best == CHOOSE c \in mine : \A d \in mine : d.ver <= c.ver
  <2>1. RowFollows(tx.rows[m], rows[m], m, open[r])
    BY <1>1, <1>2, LabelOpsAssumption DEF PromiseInv, RowsFollow
  <2>3. ASSUME NEW c \in open[r], c.message = m,
               tx.rows[m] = [rows[m] EXCEPT !.labels = c.labels],
               \A d \in open[r] : d.message = m => d = c \/ d.ver < c.ver
        PROVE  best = c
    <3>1. c \in mine /\ \A d \in mine : d.ver \in Nat
      BY <2>3 DEF LogEntry
    <3>2. \A d \in mine : d.ver <= c.ver
      BY <2>3, <3>1
    <3>3. best \in mine /\ \A d \in mine : d.ver <= best.ver
      BY <3>1, <3>2
    <3> HIDE DEF best
    <3>4. c.ver <= best.ver /\ best.ver \in Nat /\ c.ver \in Nat
      BY <3>1, <3>3
    <3>5. best = c \/ best.ver < c.ver
      BY <2>3, <3>3
    <3> QED
      BY <3>4, <3>5
  <2> HIDE DEF best
  <2>4. ASSUME mine # {}
        PROVE  tx.rows[m] = [rows[m] EXCEPT !.labels = best.labels]
    <3>1. PICK c \in open[r] :
             /\ c.message = m
             /\ tx.rows[m] = [rows[m] EXCEPT !.labels = c.labels]
             /\ \A d \in open[r] : d.message = m => d = c \/ d.ver < c.ver
      BY <2>1, <2>4 DEF RowFollows
    <3>2. best = c
      BY <2>3, <3>1
    <3> QED
      BY <3>1, <3>2
  <2>5. tx.rows[m] = IF mine = {} THEN rows[m] ELSE [rows[m] EXCEPT !.labels = best.labels]
    <3>1. ASSUME mine = {} PROVE tx.rows[m] = rows[m]
      BY <2>1, <3>1 DEF RowFollows
    <3> QED
      BY <2>4, <3>1
  <2> QED
    BY <2>5 DEF best
<1>4. tx.rows = [m \in Messages |-> tx.rows[m]]
  BY DEF Transaction
<1> QED
  BY <1>1, <1>2, <1>3, <1>4 DEF Promise!Publish

\* A request that ends without writing forgets its changes.
LEMMA CloseForgets ==
    ASSUME TypeInv, NEW r \in Requests, Close(r), UNCHANGED <<mailboxVars, dbVars>>
    PROVE  Promise!Forget({r})
BY DEF TypeInv, TypeOK, Close, mailboxVars, dbVars, Promise!Forget

\* Every step is a step of LabelPromise or leaves its variables alone.
LEMMA StepKeepsPromise ==
    TypeInv /\ GuardInv /\ PromiseInv /\ [Next]_vars => [Promise!Next]_(Promise!vars)
<1> SUFFICES ASSUME TypeInv, GuardInv, PromiseInv, [Next]_vars
             PROVE  Promise!Next \/ UNCHANGED Promise!vars
  OBVIOUS
<1>1. ASSUME NEW m \in Messages, Elsewhere(m) \/ Deleted(m) PROVE Promise!Elsewhere
  BY <1>1 DEF Elsewhere, Deleted, dbVars, Promise!Elsewhere
<1>2. ASSUME NEW r \in Requests,
             BeginToggle(r) \/ BeginBulk(r) \/ Resolve(r) \/ SkipUnknown(r) \/ Update(r)
      PROVE  Promise!Elsewhere
  BY <1>2 DEF BeginToggle, BeginBulk, Resolve, SkipUnknown, Update, dbVars,
     Promise!Elsewhere
<1>3. ASSUME NEW r \in Requests,
             EndUnwritten(r) \/ ToggleUnknown(r) \/ ModifyGone(r) \/ DatabaseLocked(r)
               \/ CommitFails(r) \/ RaiseSummary(r) \/ StepFails(r)
      PROVE  Promise!Forget({r})
  BY <1>3, CloseForgets DEF EndUnwritten, ToggleUnknown, ModifyGone, DatabaseLocked,
     CommitFails, RaiseSummary, StepFails, RollBack
<1>4. CASE Crash
  <2>1. Promise!Forget(Requests)
    BY <1>4 DEF Crash, mailboxVars, dbVars, Promise!Forget
  <2> QED
    BY <2>1 DEF Promise!Next
<1>5. CASE UNCHANGED vars
  BY <1>5 DEF vars, mailboxVars, dbVars, Promise!vars
<1> QED
  BY <1>1, <1>2, <1>3, <1>4, <1>5, ModifyApplies, CommitPublishes
  DEF Next, Advance, Promise!Next

\* Whatever requests overlap, repeat, fail or crash, rows and audit log only
\* ever receive the whole of a request, as Gmail answered it, and Gmail only
\* receives what is permitted (label_service.py, get_session in database.py).
THEOREM ImplementsPromise == Spec => KeepsPromise
<1>1. Init => TypeInv /\ GuardInv /\ PromiseInv
  BY TypeInit, GuardInit, PromiseInvInit
<1>2. TypeInv /\ GuardInv /\ PromiseInv /\ [Next]_vars
        => (TypeInv /\ GuardInv /\ PromiseInv)'
  BY TypeNext, GuardNext, PromiseInvNext
<1>3. Init => Promise!Init
  BY DEF Init, Promise!Init
<1> QED
  BY <1>1, <1>2, <1>3, StepKeepsPromise, PTL DEF Spec, KeepsPromise, Promise!Spec

-----------------------------------------------------------------------------
(* Settled rows are as Gmail has the messages.                             *)

\* The newest change of a message is what Gmail has of it.
AsAnswered ==
    \A r \in Requests : \A c \in open[r] :
        /\ c.ver <= mail[c.message].ver
        /\ c.ver = mail[c.message].ver => c.labels = mail[c.message].labels

SettledInv == SettledRowsMatch /\ AsAnswered

\* A step of the mailbox: the message is not settled, and no request holds its
\* new version.
LEMMA SettledMailbox ==
    ASSUME TypeInv, PromiseInv, SettledInv, NEW m \in Messages,
           Elsewhere(m) \/ Deleted(m)
    PROVE  SettledInv'
<1> USE DEF TypeInv, TypeOK, MailboxTypeOK
<1>1. UNCHANGED <<rows, open>>
  BY DEF Elsewhere, Deleted, dbVars
<1>2. /\ settled' \subseteq settled
      /\ \A i \in Messages : \/ mail'[i] = mail[i]
                             \/ mail'[i].ver = historyId + 1 /\ i \notin settled'
  BY DEF Elsewhere, Deleted, Arrive, Relabel, Expunge, Change, Copy
<1>3. SettledRowsMatch'
  BY <1>1, <1>2 DEF SettledInv, SettledRowsMatch, Copy
<1>4. \A r \in Requests : \A c \in open[r] :
         c.message \in Messages /\ c.ver \in Nat /\ c.ver <= historyId
  BY DEF LogEntry, PromiseInv, VersionsAreOld
<1>5. AsAnswered'
  BY <1>1, <1>2, <1>4 DEF SettledInv, AsAnswered
<1> QED
  BY <1>3, <1>5 DEF SettledInv

\* A change by a request: it is the newest, and unsettles its message.
LEMMA SettledModify ==
    ASSUME TypeInv, GuardInv, PromiseInv, SettledInv, NEW r \in Requests, Modify(r)
    PROVE  SettledInv'
<1> USE DEF TypeInv, TypeOK, MailboxTypeOK
<1> DEFINE labels == (mail[Current(r)].labels \cup req[r].op.add) \ req[r].op.remove
           e == [message |-> Current(r), ver |-> historyId + 1, labels |-> labels,
                 add |-> req[r].op.add, remove |-> req[r].op.remove]
<1>1. /\ Current(r) \in Messages
      /\ mail' = [mail EXCEPT ![Current(r)] =
                    [ver |-> historyId + 1, labels |-> labels]]
      /\ open' = [open EXCEPT ![r] = @ \cup {e}]
  BY ModifyIsPermitted
<1>2. UNCHANGED rows /\ settled' = settled \ {Current(r)}
  BY DEF Modify, dbVars
<1>3. /\ mail'[Current(r)].ver = historyId + 1
      /\ mail'[Current(r)].labels = labels
      /\ \A i \in Messages : i # Current(r) => mail'[i] = mail[i]
  BY <1>1
<1>4. e.message = Current(r) /\ e.ver = historyId + 1 /\ e.labels = labels
  OBVIOUS
<1>5. \A i \in Requests : \A c \in open'[i] : c \in open[i] \/ c = e
  BY <1>1
<1> HIDE DEF e, labels
<1>6. SettledRowsMatch'
  BY <1>2, <1>3 DEF SettledInv, SettledRowsMatch
<1>7. \A i \in Requests : \A c \in open[i] :
         c.message \in Messages /\ c.ver \in Nat /\ c.ver <= historyId
  BY DEF LogEntry, PromiseInv, VersionsAreOld
<1>8. AsAnswered'
  <2> SUFFICES ASSUME NEW i \in Requests, NEW c \in open'[i]
               PROVE  /\ c.ver <= mail'[c.message].ver
                      /\ c.ver = mail'[c.message].ver => c.labels = mail'[c.message].labels
    BY DEF AsAnswered
  <2>1. CASE c = e
    BY <2>1, <1>3, <1>4
  <2>2. CASE c \in open[i]
    BY <2>2, <1>3, <1>7 DEF SettledInv, AsAnswered
  <2> QED
    BY <1>5, <2>1, <2>2
<1> QED
  BY <1>6, <1>8 DEF SettledInv

\* A commit: rows that the request did not write stay, and the answer written
\* last is the newest of those that the request got.
LEMMA SettledCommit ==
    ASSUME TypeInv, PromiseInv, SettledInv, NEW r \in Requests, Commit(r)
    PROVE  SettledInv'
<1> USE DEF TypeInv, TypeOK, MailboxTypeOK
<1>1. /\ writer = r /\ req[r].pc # "update"
      /\ rows' = tx.rows
      /\ settled' = (settled \ Handled(r)) \cup LastChangedBy(r)
      /\ open' = [open EXCEPT ![r] = {}]
      /\ UNCHANGED mail
  BY DEF Commit, Ended, AllHandled, CommitSession, Close, mailboxVars
<1>2. open[r] = tx.log
  BY <1>1 DEF PromiseInv, OpenIsWritten, Written
<1>3. \A m \in Messages : RowFollows(tx.rows[m], rows[m], m, open[r])
  BY <1>1, <1>2, LabelOpsAssumption DEF PromiseInv, RowsFollow
<1>4. ASSUME NEW m \in settled \ Handled(r) PROVE rows'[m].labels = mail'[m].labels
  <2>1. tx.rows[m] = rows[m]
    BY <1>3 DEF RowFollows, Handled
  <2> QED
    BY <1>1, <2>1 DEF SettledInv, SettledRowsMatch
<1>5. ASSUME NEW m \in LastChangedBy(r) PROVE rows'[m].labels = mail'[m].labels
  <2>1. PICK c \in open[r] : c.message = m /\ c.ver = mail[m].ver
    BY DEF LastChangedBy
  <2>2. m \in Messages
    BY DEF LastChangedBy
  <2>3. PICK d \in open[r] :
          /\ d.message = m
          /\ tx.rows[m] = [rows[m] EXCEPT !.labels = d.labels]
          /\ \A x \in open[r] : x.message = m => x = d \/ x.ver < d.ver
    BY <1>3, <2>1, <2>2 DEF RowFollows
  <2>4. d.ver <= mail[m].ver /\ d.ver \in Nat /\ mail[m].ver \in Nat
    BY <2>2, <2>3 DEF SettledInv, AsAnswered, LogEntry, Copy
  <2>5. c = d
    BY <2>1, <2>3, <2>4
  <2>6. tx.rows[m].labels = d.labels
    BY <2>2, <2>3 DEF Copy
  <2>7. c.labels = mail[m].labels
    BY <2>1 DEF SettledInv, AsAnswered
  <2> QED
    BY <1>1, <2>5, <2>6, <2>7
<1>6. SettledRowsMatch'
  BY <1>1, <1>4, <1>5 DEF SettledRowsMatch
<1>7. AsAnswered'
  BY <1>1 DEF SettledInv, AsAnswered
<1> QED
  BY <1>6, <1>7 DEF SettledInv

\* Every step keeps SettledInv.
LEMMA SettledNext ==
    TypeInv /\ GuardInv /\ PromiseInv /\ SettledInv /\ [Next]_vars => SettledInv'
<1> SUFFICES ASSUME TypeInv, GuardInv, PromiseInv, SettledInv, [Next]_vars
             PROVE  SettledInv'
  OBVIOUS
<1> USE DEF TypeInv, TypeOK
<1>1. ASSUME UNCHANGED <<mail, rows, settled>>,
             \A r \in Requests : open'[r] \subseteq open[r]
      PROVE  SettledInv'
  BY <1>1 DEF SettledInv, SettledRowsMatch, AsAnswered
<1>2. ASSUME NEW r \in Requests,
             BeginToggle(r) \/ BeginBulk(r) \/ Resolve(r) \/ SkipUnknown(r) \/ Update(r)
      PROVE  SettledInv'
  BY <1>1, <1>2 DEF BeginToggle, BeginBulk, Resolve, SkipUnknown, Update, dbVars,
     mailboxVars
<1>3. ASSUME NEW r \in Requests,
             EndUnwritten(r) \/ ToggleUnknown(r) \/ ModifyGone(r) \/ DatabaseLocked(r)
               \/ CommitFails(r) \/ RaiseSummary(r) \/ StepFails(r)
      PROVE  SettledInv'
  <2>1. Close(r) /\ UNCHANGED <<mailboxVars, dbVars, settled>>
    BY <1>3 DEF EndUnwritten, ToggleUnknown, ModifyGone, DatabaseLocked, CommitFails,
       RaiseSummary, StepFails, RollBack
  <2> QED
    BY <1>1, <2>1 DEF Close, mailboxVars, dbVars
<1>4. CASE Crash
  BY <1>1, <1>4 DEF Crash, mailboxVars, dbVars
<1>5. CASE UNCHANGED vars
  BY <1>1, <1>5 DEF vars, mailboxVars, dbVars
<1> QED
  BY <1>2, <1>3, <1>4, <1>5, SettledMailbox, SettledModify, SettledCommit
  DEF Next, Advance

\* However requests overlap, wait for the lock, repeat messages, fail and
\* crash: the row of a message that only the last committed writer of it
\* changed since is as Gmail has it (label_service.py apply_label_operation;
\* LabelOps!SettledRowsMatch).
THEOREM SettledRowsAreRight == Spec => []SettledRowsMatch
<1>1. Init => TypeInv /\ GuardInv /\ PromiseInv /\ SettledInv
  <2>1. Init => SettledInv
    BY DEF Init, SettledInv, SettledRowsMatch, AsAnswered
  <2> QED
    BY <2>1, TypeInit, GuardInit, PromiseInvInit
<1>2. TypeInv /\ GuardInv /\ PromiseInv /\ SettledInv /\ [Next]_vars
        => (TypeInv /\ GuardInv /\ PromiseInv /\ SettledInv)'
  BY TypeNext, GuardNext, PromiseInvNext, SettledNext
<1>3. SettledInv => SettledRowsMatch
  BY DEF SettledInv
<1> QED
  BY <1>1, <1>2, <1>3, PTL DEF Spec

=============================================================================
