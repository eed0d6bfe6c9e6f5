------------------------- MODULE SyncAndLabelsProofs -------------------------
(***************************************************************************)
(* Theorems about the whole server process, sync runs and label requests   *)
(* together, for any sets of messages, labels, callers and requests.  What *)
(* the theorems of SyncEngine say of runs alone still holds with requests  *)
(* as further writers of the rows, and a request still lands whole.        *)
(***************************************************************************)
EXTENDS SyncAndLabels, SyncWatermarkProofs, Sequences

-----------------------------------------------------------------------------
(* The two parts see one mailbox.                                          *)

LEMMA OneMailbox ==
    /\ Ops!Copy = Copy
    /\ Ops!NoCopy = NoCopy
    /\ Ops!MailboxTypeOK <=> MailboxTypeOK
BY DEF Ops!Copy, Copy, Ops!NoCopy, NoCopy, Ops!MailboxTypeOK, MailboxTypeOK

\* The types of what the requests add to the state.  A request that is at a
\* message still has its id.
RequestTypes ==
    /\ log \in SUBSET Ops!LogEntry
    /\ writer \in Requests \cup {NoRequest}
    /\ tx \in Ops!Transaction
    /\ req \in [Requests -> Ops!Request]
    /\ open \in [Requests -> SUBSET Ops!LogEntry]
    /\ settled \in SUBSET Messages

IdsLeft ==
    \A r \in Requests : req[r].pc \in {"modify", "update"} => req[r].ids # <<>>

TypeInv == TypeOK /\ RequestTypes /\ IdsLeft

LEMMA TypesAreAll == TypeOK /\ RequestTypes => SystemTypeOK
BY OneMailbox DEF TypeOK, RequestTypes, SystemTypeOK, Ops!TypeOK

-----------------------------------------------------------------------------
(* What holds between a request, its transaction and Gmail.                *)

\* What request r has written in its transaction.
Written(r) == IF writer = r THEN tx.log ELSE {}

\* All that a request changed in Gmail is written, but for an answer that it
\* still has in its hands ...
OpenIsWritten ==
    \A r \in Requests :
        open[r] = IF req[r].pc = "update" THEN Written(r) \cup {Ops!Entry(req[r])}
                  ELSE Written(r)

\* ... which is newer than all that is written.
AnswerIsNewest ==
    \A r \in Requests : req[r].pc = "update" =>
        \A d \in Written(r) : d.ver < req[r].answer.ver

\* The newest change of a message is what Gmail has of it.
AsAnswered ==
    \A r \in Requests : \A c \in open[r] :
        /\ c.ver <= mail[c.message].ver
        /\ c.ver = mail[c.message].ver => c.labels = mail[c.message].labels

\* A row follows from the committed one by the newest of the changes.
RowFollows(new, old, m, changes) ==
    \/ /\ \A c \in changes : c.message # m
       /\ new = old
    \/ \E c \in changes :
          /\ c.message = m
          /\ new = [old EXCEPT !.labels = c.labels]
          /\ \A d \in changes : d.message = m => d = c \/ d.ver < c.ver

\* So do the junction rows of a message that was changed once at most.
JunctionFollows(joined, added, old, m, changes) ==
    /\ (\A c \in changes : c.message # m) => joined = old /\ added = {}
    /\ \A c \in changes :
          c.message = m /\ (\A d \in changes : d.message = m => d = c)
             => joined = {} /\ added = c.labels \cap registry

\* Nobody else writes while a transaction is open.
TxFollows ==
    writer # NoRequest =>
        \A m \in Messages :
            /\ RowFollows(tx.rows[m], rows[m], m, tx.log)
            /\ JunctionFollows(tx.junction[m], tx.added[m], junction[m], m, tx.log)

RequestInv == OpenIsWritten /\ AnswerIsNewest /\ AsAnswered /\ TxFollows

-----------------------------------------------------------------------------
(* The kinds of steps.                                                     *)

\* What the runs and the mailbox do beside the requests.
BesideRequests ==
    /\ UNCHANGED <<log, writer, tx, req, open>>
    /\ settled' \subseteq settled
    /\ writer # NoRequest => UNCHANGED <<rows, junction, registry>>
    /\ \/ UNCHANGED mail
       \/ \E i \in Messages : NewVersion(i)

\* What a request may leave as it is.
BesideRuns ==
    /\ UNCHANGED <<mailboxVars, dbVars, run, missed, unindexed>>
    /\ failures' \in Nat

\* A request goes on without writing or calling Gmail.
Prepares(r) ==
    /\ BesideRuns
    /\ UNCHANGED <<log, writer, tx, open, settled>>
    /\ req[r].pc # "update"
    /\ \E q \in Ops!Request :
          /\ req' = [req EXCEPT ![r] = q]
          /\ q.pc # "update"
          /\ q.pc = "modify" => q.ids # <<>>

\* A request ends without a commit.
EndsUnwritten(r) ==
    /\ BesideRuns
    /\ UNCHANGED <<log, settled>>
    /\ Ops!Close(r)

Updates(r) == Ops!Update(r) /\ BesideRuns

\* All requests die.
RequestsDie ==
    /\ UNCHANGED <<log, settled>>
    /\ \A r \in Requests : open'[r] = {} /\ req'[r].pc \in {"idle", "done"}
    /\ req' \in [Requests -> Ops!Request]
    /\ open' \in [Requests -> SUBSET Ops!LogEntry]
    /\ writer' = NoRequest
    /\ tx' \in Ops!Transaction

LEMMA RequestConstants ==
    /\ Ops!NoOperation \in Ops!Operation
    /\ Ops!IdleRequest \in Ops!Request
    /\ Ops!NoTransaction \in Ops!Transaction
    /\ Ops!Rejected \in Ops!Request
<1>1. Ops!NoOperation \in Ops!Operation /\ Ops!NoCopy \in Ops!Copy
  BY DEF Ops!NoOperation, Ops!Operation, Ops!NoCopy, Ops!Copy
<1>2. Ops!IdleRequest \in Ops!Request
  BY <1>1 DEF Ops!IdleRequest, Ops!Request
<1>3. Ops!NoTransaction \in Ops!Transaction
  BY <1>1 DEF Ops!NoTransaction, Ops!Transaction, Ops!NoJunction
<1>4. Ops!Rejected \in Ops!Request
  BY <1>2 DEF Ops!Rejected, Ops!Request
<1> QED
  BY <1>1, <1>2, <1>3, <1>4

\* A request comes in.
LEMMA BeginPrepares ==
    ASSUME TypeInv, NEW r \in Requests, BeginRequest(r)
    PROVE  Prepares(r)
<1>1. Ops!IdLists \subseteq Seq(Messages)
  <2> SUFFICES ASSUME NEW ids \in Ops!IdLists PROVE ids \in Seq(Messages)
    OBVIOUS
  <2>1. PICK n \in 1..MaxIds : ids \in [1..n -> Messages]
    BY DEF Ops!IdLists
  <2> QED
    BY <2>1, SystemAssumption
<1>2. ASSUME NEW kind \in {"toggle", "bulk"}, NEW ids \in Ops!IdLists,
             NEW op \in Ops!Operation
      PROVE  Ops!Accepted(kind, ids, op) \in Ops!Request
             /\ Ops!Accepted(kind, ids, op).pc = "next"
  BY <1>1, RequestConstants DEF Ops!Accepted, Ops!IdleRequest, Ops!Request
<1>3. Ops!Rejected.pc = "reply"
  BY DEF Ops!Rejected, Ops!IdleRequest
<1>4. \E q \in Ops!Request : req' = [req EXCEPT ![r] = q] /\ q.pc \in {"next", "reply"}
  <2>1. CASE Ops!BeginToggle(r)
    <3>1. PICK ids \in Ops!IdLists, label \in Labels :
            req' = [req EXCEPT ![r] =
               IF Ops!ValidLabelToggle(ids, label)
               THEN Ops!Accepted("toggle", ids, [add |-> {label}, remove |-> {}])
               ELSE Ops!Rejected]
      BY <2>1 DEF Ops!BeginToggle
    <3>2. [add |-> {label}, remove |-> {}] \in Ops!Operation
      BY DEF Ops!Operation
    <3> QED
      BY <3>1, <3>2, <1>2, <1>3, RequestConstants
  <2>2. CASE Ops!BeginBulk(r)
    <3>1. PICK ids \in Ops!IdLists, op \in Ops!Operation :
            req' = [req EXCEPT ![r] =
               IF Ops!ValidBulkLabelOperation(ids, op)
               THEN Ops!Accepted("bulk", ids, op) ELSE Ops!Rejected]
      BY <2>2 DEF Ops!BeginBulk
    <3> QED
      BY <3>1, <1>2, <1>3, RequestConstants
  <2> QED
    BY <2>1, <2>2 DEF BeginRequest
<1>5. req[r].pc # "update"
  BY DEF BeginRequest, Ops!BeginToggle, Ops!BeginBulk, Ops!MayBegin
<1>6. BesideRuns /\ UNCHANGED <<log, writer, tx, open, settled>>
  BY DEF BeginRequest, Ops!BeginToggle, Ops!BeginBulk, BesideRuns, Ops!mailboxVars,
     mailboxVars, Ops!dbVars, dbVars, TypeInv, TypeOK
<1> QED
  BY <1>4, <1>5, <1>6 DEF Prepares

\* Everything that a request does without the whole of it being committed.
LEMMA RequestKinds ==
    ASSUME TypeInv, NEW r \in Requests, BeginRequest(r) \/ RequestStep(r) \/ RequestFails(r)
    PROVE  \/ Prepares(r) \/ Updates(r) \/ EndsUnwritten(r)
           \/ RequestModifies(r) \/ RequestCommits(r)
<1> USE DEF TypeInv, TypeOK, RequestTypes
<1>1. CASE BeginRequest(r)
  BY <1>1, BeginPrepares
<1>2. ASSUME Ops!Resolve(r) \/ Ops!SkipUnknown(r), UNCHANGED <<syncState, run, missed, unindexed>>
      PROVE  Prepares(r)
  <2>1. /\ req[r].pc = "next" /\ req[r].ids # <<>>
        /\ UNCHANGED <<log, writer, tx, open, settled>>
        /\ BesideRuns
    BY <1>2 DEF Ops!Resolve, Ops!SkipUnknown, BesideRuns, Ops!mailboxVars,
       mailboxVars, Ops!dbVars, dbVars
  <2>2. CASE Ops!Resolve(r)
    <3>1. PICK op : /\ op = Ops!OperationFor(req[r], Ops!View(r)[Ops!Current(r)])
                    /\ req' = [req EXCEPT ![r] =
                         IF Ops!ValidLabelOperation(op)
                         THEN [req[r] EXCEPT !.pc = "modify", !.op = op]
                         ELSE Ops!Rejected]
      BY <2>2 DEF Ops!Resolve
    <3>2. op \in Ops!Operation
      BY <3>1 DEF Ops!OperationFor, Ops!Operation, Ops!Request
    <3>3. /\ [req[r] EXCEPT !.pc = "modify", !.op = op] \in Ops!Request
          /\ [req[r] EXCEPT !.pc = "modify", !.op = op].pc = "modify"
          /\ [req[r] EXCEPT !.pc = "modify", !.op = op].ids = req[r].ids
      BY <3>2 DEF Ops!Request
    <3>4. Ops!Rejected.pc = "reply"
      BY DEF Ops!Rejected, Ops!IdleRequest
    <3> QED
      BY <2>1, <3>1, <3>3, <3>4, RequestConstants DEF Prepares
  <2>3. CASE Ops!SkipUnknown(r)
    <3>1. Tail(req[r].ids) \in Seq(Messages)
      <4>1. req[r].ids \in Seq(Messages)
        BY DEF Ops!Request
      <4> QED
        BY <2>1, <4>1
    <3>2. /\ [req[r] EXCEPT !.ids = Tail(req[r].ids), !.failed = TRUE] \in Ops!Request
          /\ [req[r] EXCEPT !.ids = Tail(req[r].ids), !.failed = TRUE].pc = "next"
      BY <2>1, <3>1 DEF Ops!Request
    <3> QED
      BY <2>1, <2>3, <3>2 DEF Prepares, Ops!SkipUnknown
  <2> QED
    BY <1>2, <2>2, <2>3
<1>3. ASSUME Ops!RollBack(r), failures' \in Nat, UNCHANGED <<syncState, run, missed, unindexed>>
      PROVE  EndsUnwritten(r)
  BY <1>3 DEF Ops!RollBack, EndsUnwritten, BesideRuns, Ops!mailboxVars, mailboxVars,
     Ops!dbVars, dbVars
<1>4. CASE RequestRefused(r)
  BY <1>3, <1>4 DEF RequestRefused
<1>5. CASE RequestFails(r)
  BY <1>3, <1>5 DEF RequestFails, Ops!StepFails
<1>6. CASE RequestAdvances(r)
  <2>1. CASE Ops!Update(r)
    BY <1>6, <2>1 DEF RequestAdvances, Updates, Ops!Update, BesideRuns, Ops!mailboxVars,
       mailboxVars, Ops!dbVars, dbVars
  <2>2. CASE Ops!EndUnwritten(r)
    BY <1>6, <2>2 DEF RequestAdvances, EndsUnwritten, Ops!EndUnwritten, BesideRuns,
       Ops!mailboxVars, mailboxVars, Ops!dbVars, dbVars
  <2>3. CASE Ops!ToggleUnknown(r) \/ Ops!ModifyGone(r) \/ Ops!DatabaseLocked(r)
               \/ Ops!CommitFails(r) \/ Ops!RaiseSummary(r)
    <3>1. Ops!RollBack(r) /\ failures' \in Nat
      BY <2>3 DEF Ops!ToggleUnknown, Ops!ModifyGone, Ops!DatabaseLocked, Ops!CommitFails,
         Ops!RaiseSummary
    <3> QED
      BY <1>3, <1>6, <3>1 DEF RequestAdvances
  <2> QED
    BY <1>2, <1>6, <2>1, <2>2, <2>3 DEF RequestAdvances
<1> QED
  BY <1>1, <1>4, <1>5, <1>6 DEF RequestStep

\* The process and its requests die.
LEMMA CrashKind ==
    ASSUME TypeInv, Ops!Crash
    PROVE  RequestsDie
<1> USE DEF TypeInv, RequestTypes
<1>1. /\ [Ops!IdleRequest EXCEPT !.pc = "done"] \in Ops!Request
      /\ [Ops!IdleRequest EXCEPT !.pc = "done"].pc = "done"
  BY RequestConstants DEF Ops!IdleRequest, Ops!Request
<1>2. req' \in [Requests -> Ops!Request] /\ \A r \in Requests : req'[r].pc \in {"idle", "done"}
  BY <1>1 DEF Ops!Crash
<1> QED
  BY <1>2, RequestConstants DEF Ops!Crash, RequestsDie, Ops!dbVars

\* Every step of the runs and of the account leaves the requests alone, and
\* does not write while one of them holds the lock.
LEMMA RunKinds ==
    ASSUME TypeInv,
           AccountMoves \/ OtherWrites
             \/ \E j \in Jobs : BeginRun(j) \/ RunAdvances(j) \/ RunFails(j)
    PROVE  Next /\ BesideRequests
<1> USE DEF TypeInv, TypeOK
<1>1. ASSUME UNCHANGED requestVars, UNCHANGED mail,
             writer # NoRequest => UNCHANGED <<rows, junction, registry>>
      PROVE  BesideRequests
  BY <1>1 DEF requestVars, BesideRequests
<1>2. ASSUME NEW m \in Messages, MessageChanges(m), settled' = settled \ {m},
             UNCHANGED <<log, writer, tx, req, open>>
      PROVE  Next /\ BesideRequests
  <2>1. NewVersion(m)
    BY <1>2, ChangesGiveVersions DEF MessageChanges
  <2> QED
    BY <1>2, <2>1 DEF Next, MessageChanges, BesideRequests, dbVars
<1>3. CASE MailboxChanges /\ UNCHANGED requestVars
  BY <1>1, <1>3 DEF Next, MailboxChanges, Expunge, CreateLabel, ForgetHistory, dbVars
<1>4. CASE OtherWrites
  <2>1. UNCHANGED mail /\ writer = NoRequest /\ UNCHANGED requestVars
    BY <1>4 DEF OtherWrites, HalfBatchCommitted, HalfRegistryCommitted,
       HalfJunctionCommitted, ManualRunBreaks, RegisterLabel, mailboxVars
  <2> QED
    BY <1>1, <1>4, <2>1 DEF OtherWrites, Next
<1>5. ASSUME NEW j \in Jobs, BeginRun(j) \/ RunFails(j)
      PROVE  Next /\ BesideRequests
  <2>1. UNCHANGED mailboxVars /\ UNCHANGED dbVars /\ UNCHANGED requestVars
    BY <1>5 DEF BeginRun, RunFails, BeginFull, BeginIncremental, StepFails
  <2>2. Next
    BY <1>5 DEF BeginRun, RunFails, Next
  <2> QED
    BY <1>1, <2>1, <2>2 DEF mailboxVars, dbVars
<1>6. ASSUME NEW j \in Jobs, RunAdvances(j)
      PROVE  Next /\ BesideRequests
  <2>1. UNCHANGED requestVars /\ Advance(j) /\ ~LockedOut(j)
    BY <1>6 DEF RunAdvances
  <2>2. UNCHANGED mail
    BY <2>1 DEF Advance, FetchGone, HistoryExpired, ListPage, HistoryPage, Fetch, StoreBatch,
       SyncRegistry, SelectLabels, RebuildJunction, GetProfile, SaveState, WriteSnapshot,
       mailboxVars
  <2>3. CASE StoreBatch(j) \/ SyncRegistry(j) \/ RebuildJunction(j)
    <3>1. writer = NoRequest
      BY <2>1, <2>3 DEF LockedOut, AtCommit, StoreBatch, SyncRegistry, RebuildJunction
    <3> QED
      BY <1>1, <2>1, <2>2, <3>1 DEF Next
  <2>4. CASE ~(StoreBatch(j) \/ SyncRegistry(j) \/ RebuildJunction(j))
    <3>1. UNCHANGED <<rows, junction, registry>>
      BY <2>1, <2>4 DEF Advance, FetchGone, HistoryExpired, ListPage, HistoryPage, Fetch,
         SelectLabels, GetProfile, SaveState, WriteSnapshot, dbVars
    <3> QED
      BY <1>1, <2>1, <2>2, <3>1 DEF Next
  <2> QED
    BY <2>3, <2>4
<1> QED
  BY <1>2, <1>3, <1>4, <1>5, <1>6 DEF AccountMoves

\* All steps of the process.
LEMMA SystemKinds ==
    ASSUME TypeInv, [SystemNext]_systemVars
    PROVE  \/ [Next]_vars /\ (BesideRequests \/ RequestsDie)
           \/ \E j \in Jobs : RunLocked(j)
           \/ BesideRuns /\ RequestsDie
           \/ \E r \in Requests : \/ Prepares(r) \/ Updates(r) \/ EndsUnwritten(r)
                                  \/ RequestModifies(r) \/ RequestCommits(r)
<1>1. CASE ProcessDies
  <2>1. CASE Crash /\ Ops!Crash
    BY <2>1, CrashKind DEF Next
  <2>2. CASE Crash /\ UNCHANGED requestVars
    BY <2>2 DEF Crash, Next, BesideRequests, requestVars, mailboxVars, dbVars
  <2>3. CASE Ops!Crash /\ UNCHANGED <<syncState, run, missed, unindexed>>
    <3>1. BesideRuns
      BY <2>3 DEF Ops!Crash, BesideRuns, Ops!mailboxVars, mailboxVars, Ops!dbVars, dbVars,
         TypeInv, TypeOK
    <3> QED
      BY <2>3, <3>1, CrashKind
  <2> QED
    BY <1>1, <2>1, <2>2, <2>3 DEF ProcessDies
<1>2. CASE UNCHANGED systemVars
  BY <1>2 DEF systemVars, vars, requestVars, BesideRequests, mailboxVars, dbVars
<1>3. CASE \E r \in Requests : BeginRequest(r) \/ RequestStep(r) \/ RequestFails(r)
  BY <1>3, RequestKinds
<1>4. CASE AccountMoves \/ OtherWrites
             \/ \E j \in Jobs : BeginRun(j) \/ RunAdvances(j) \/ RunFails(j)
  BY <1>4, RunKinds
<1> QED
  BY <1>1, <1>2, <1>3, <1>4 DEF SystemNext, RunStep

-----------------------------------------------------------------------------
(* Type correctness.                                                       *)

\* The entry of a request at a message.
LEMMA ChangeEntryType ==
    ASSUME NEW q \in Ops!Request, q.ids # <<>>
    PROVE  /\ Ops!Entry(q) \in Ops!LogEntry
           /\ Head(q.ids) \in Messages
           /\ Tail(q.ids) \in Seq(Messages)
<1>1. q.ids \in Seq(Messages)
  BY DEF Ops!Request
<1>2. Head(q.ids) \in Messages /\ Tail(q.ids) \in Seq(Messages)
  BY SMTT(30), <1>1
<1> QED
  BY <1>2 DEF Ops!Entry, Ops!LogEntry, Ops!Request, Ops!Copy, Ops!Operation

\* What the call of Gmail does, written out.
LEMMA ModifyWrites ==
    ASSUME TypeInv, NEW r \in Requests, RequestModifies(r)
    PROVE  LET m == Head(req[r].ids)
               answer == [ver |-> historyId + 1,
                          labels |-> (mail[m].labels \cup req[r].op.add) \ req[r].op.remove]
               q == [req[r] EXCEPT !.pc = "update", !.answer = answer]
           IN  /\ m \in Messages
               /\ req[r].pc = "modify"
               /\ q \in Ops!Request /\ q.pc = "update" /\ q.answer = answer
               /\ q.ids = req[r].ids /\ q.ids # <<>>
               /\ Ops!Entry(q) \in Ops!LogEntry
               /\ Ops!Entry(q).message = m
               /\ Ops!Entry(q).ver = historyId + 1
               /\ Ops!Entry(q).labels = answer.labels
               /\ mail' = [mail EXCEPT ![m] = answer]
               /\ req' = [req EXCEPT ![r] = q]
               /\ open' = [open EXCEPT ![r] = @ \cup {Ops!Entry(q)}]
               /\ NewVersion(m)
               /\ NoteChange(m)
               /\ settled' = settled \ {m}
               /\ UNCHANGED <<present, horizon, gmailLabels, dbVars, log, writer, tx,
                              failures, unindexed>>
<1> USE DEF TypeInv, TypeOK, MailboxTypeOK, RequestTypes
<1> DEFINE m == Head(req[r].ids)
           answer == [ver |-> historyId + 1,
                      labels |-> (mail[m].labels \cup req[r].op.add) \ req[r].op.remove]
           q == [req[r] EXCEPT !.pc = "update", !.answer = answer]
<1>1. req[r].pc = "modify" /\ req[r].ids # <<>>
  BY DEF RequestModifies, Ops!Modify, IdsLeft
<1>2. m \in Messages
  BY <1>1, ChangeEntryType
<1>3. answer \in Copy
  BY <1>2 DEF Copy, Ops!Request, Ops!Operation
<1>4. q \in Ops!Request /\ q.pc = "update" /\ q.answer = answer /\ q.ids = req[r].ids
  BY <1>3, OneMailbox DEF Ops!Request
<1>5. /\ mail' = [mail EXCEPT ![m] = answer]
      /\ historyId' = historyId + 1
      /\ req' = [req EXCEPT ![r] = q]
      /\ settled' = settled \ {m}
      /\ UNCHANGED <<present, horizon, gmailLabels, dbVars, log, writer, tx, failures,
                     unindexed>>
      /\ NoteChange(m)
  BY DEF RequestModifies, Ops!Modify, Ops!Current, Ops!dbVars, dbVars
<1>6. open' = [open EXCEPT ![r] = @ \cup {Ops!Entry(q)}]
  BY <1>5 DEF RequestModifies, Ops!Modify
<1>7. answer.ver = historyId + 1
  OBVIOUS
<1> HIDE DEF m, answer, q
<1>8. NewVersion(m)
  <2>1. mail'[m] = answer
    BY <1>2, <1>5
  <2> QED
    BY <1>3, <1>5, <1>7, <2>1 DEF NewVersion
<1>9. /\ Ops!Entry(q) \in Ops!LogEntry
      /\ Ops!Entry(q).message = m
      /\ Ops!Entry(q).ver = historyId + 1
      /\ Ops!Entry(q).labels = answer.labels
  BY <1>1, <1>4, <1>7, ChangeEntryType DEF Ops!Entry, m
<1> QED
  BY <1>1, <1>2, <1>4, <1>5, <1>6, <1>8, <1>9 DEF m, answer, q

\* The transaction that an UPDATE goes into, and what it adds to it.
Transacting(r) ==
    IF writer = r THEN tx
    ELSE [Ops!NoTransaction EXCEPT !.rows = rows, !.junction = junction]

LEMMA UpdateWrites ==
    ASSUME TypeInv, NEW r \in Requests, Updates(r)
    PROVE  LET m == Head(req[r].ids)
               e == Ops!Entry(req[r])
               t == Transacting(r)
               pending == e.labels \cap registry
           IN  /\ m \in Messages
               /\ req[r].pc = "update"
               /\ e \in Ops!LogEntry
               /\ e.message = m /\ e.ver = req[r].answer.ver
               /\ t \in Ops!Transaction
               /\ writer \in {NoRequest, r} /\ writer' = r
               /\ tx'.log = t.log \cup {e}
               /\ tx'.rows = [t.rows EXCEPT ![m] = [@ EXCEPT !.labels = e.labels]]
               /\ tx'.junction = [t.junction EXCEPT ![m] = {}]
               /\ tx'.added = [t.added EXCEPT ![m] = @ \cup pending]
               /\ tx' \in Ops!Transaction
               /\ req' \in [Requests -> Ops!Request]
               /\ req'[r].pc = "next"
               /\ \A i \in Requests \ {r} : req'[i] = req[i]
               /\ UNCHANGED <<open, log, settled>>
<1> USE DEF TypeInv, TypeOK, MailboxTypeOK, RequestTypes
<1> DEFINE m == Head(req[r].ids)
           e == Ops!Entry(req[r])
           t == Transacting(r)
           pending == e.labels \cap registry
<1>1. req[r].pc = "update" /\ req[r].ids # <<>>
  BY DEF Updates, Ops!Update, IdsLeft
<1>2. /\ m \in Messages /\ e \in Ops!LogEntry /\ Tail(req[r].ids) \in Seq(Messages)
      /\ e.message = m /\ e.ver = req[r].answer.ver /\ e.labels = req[r].answer.labels
  BY <1>1, ChangeEntryType DEF Ops!Entry
<1>3. t \in Ops!Transaction
  BY RequestConstants, OneMailbox DEF Transacting, Ops!Transaction, Ops!NoTransaction
<1>4. tx' = [rows |-> [t.rows EXCEPT ![m] = [@ EXCEPT !.labels = e.labels]],
             junction |-> [t.junction EXCEPT ![m] = {}],
             added |-> [t.added EXCEPT ![m] = @ \cup pending],
             clash |-> t.clash \/ t.added[m] \cap pending # {},
             log |-> t.log \cup {e}]
  BY <1>2 DEF Updates, Ops!Update, Transacting, Ops!UpdateLabels, Ops!DeleteJunction,
     Ops!PendingJunction, Ops!Current
<1>5. writer \in {NoRequest, r} /\ writer' = r /\ UNCHANGED <<open, log, settled>>
  BY DEF Updates, Ops!Update, Ops!dbVars
<1>6. /\ [req[r] EXCEPT !.pc = "next", !.ids = Tail(req[r].ids), !.answer = NoCopy]
            \in Ops!Request
      /\ [req[r] EXCEPT !.pc = "next", !.ids = Tail(req[r].ids), !.answer = NoCopy].pc = "next"
  BY <1>2, OneMailbox DEF Ops!Request, NoCopy, Copy
<1>7. /\ req' \in [Requests -> Ops!Request]
      /\ req'[r].pc = "next"
      /\ \A i \in Requests \ {r} : req'[i] = req[i]
  BY <1>6, OneMailbox DEF Updates, Ops!Update
<1>8. tx' \in Ops!Transaction
  <2> HIDE DEF t, m, e, pending
  <2>1. e.labels \in SUBSET Labels /\ pending \in SUBSET Labels
    BY <1>2 DEF Ops!LogEntry, pending
  <2>2. [t.rows[m] EXCEPT !.labels = e.labels] \in Ops!Copy
    <3>1. t.rows[m] \in Ops!Copy
      BY <1>2, <1>3 DEF Ops!Transaction
    <3> QED
      BY <2>1, <3>1 DEF Ops!Copy
  <2>3. [t.rows EXCEPT ![m] = [@ EXCEPT !.labels = e.labels]] \in [Messages -> Ops!Copy]
    BY <1>3, <2>2 DEF Ops!Transaction
  <2>4. /\ [t.junction EXCEPT ![m] = {}] \in [Messages -> SUBSET Labels]
        /\ [t.added EXCEPT ![m] = @ \cup pending] \in [Messages -> SUBSET Labels]
        /\ t.log \cup {e} \in SUBSET Ops!LogEntry
    BY <1>2, <1>3, <2>1 DEF Ops!Transaction
  <2>5. (t.clash \/ t.added[m] \cap pending # {}) \in BOOLEAN
    OBVIOUS
  <2> QED
    BY <1>4, <2>3, <2>4, <2>5 DEF Ops!Transaction
<1>9. /\ tx'.log = t.log \cup {e}
      /\ tx'.rows = [t.rows EXCEPT ![m] = [@ EXCEPT !.labels = e.labels]]
      /\ tx'.junction = [t.junction EXCEPT ![m] = {}]
      /\ tx'.added = [t.added EXCEPT ![m] = @ \cup pending]
  BY <1>4
<1> HIDE DEF t, m, e, pending
<1> QED
  BY <1>1, <1>2, <1>3, <1>5, <1>7, <1>8, <1>9 DEF t, m, e, pending

\* The end of a request.
LEMMA CloseTypes ==
    ASSUME TypeInv, NEW r \in Requests, Ops!Close(r)
    PROVE  /\ req' \in [Requests -> Ops!Request]
           /\ open' \in [Requests -> SUBSET Ops!LogEntry]
           /\ writer' \in Requests \cup {NoRequest}
           /\ tx' \in Ops!Transaction
           /\ IdsLeft'
<1> USE DEF TypeInv, RequestTypes
<1>1. /\ [Ops!IdleRequest EXCEPT !.pc = "done"] \in Ops!Request
      /\ [Ops!IdleRequest EXCEPT !.pc = "done"].pc = "done"
  BY RequestConstants DEF Ops!IdleRequest, Ops!Request
<1>2. req' \in [Requests -> Ops!Request]
  BY <1>1 DEF Ops!Close
<1>3. IdsLeft'
  BY <1>1 DEF IdsLeft, Ops!Close
<1>4. writer' \in Requests \cup {NoRequest} /\ tx' \in Ops!Transaction
  BY RequestConstants DEF Ops!Close
<1>5. open' \in [Requests -> SUBSET Ops!LogEntry]
  BY DEF Ops!Close
<1> QED
  BY <1>2, <1>3, <1>4, <1>5

\* A commit keeps the types: the transaction is well typed.
LEMMA CommitTypes ==
    ASSUME TypeInv, NEW r \in Requests, RequestCommits(r)
    PROVE  TypeInv'
<1> USE DEF TypeInv, TypeOK, RequestTypes
<1>1. /\ Ops!CommitSession /\ Ops!Close(r)
      /\ settled' = (settled \ Ops!Handled(r)) \cup Ops!LastChangedBy(r)
      /\ UNCHANGED <<mailboxVars, registry, syncState, failures>>
  BY DEF RequestCommits, Ops!Commit, Ops!mailboxVars, mailboxVars
<1>2. /\ rows' \in [Messages -> Copy]
      /\ junction' \in [Messages -> SUBSET Labels]
      /\ log' \in SUBSET Ops!LogEntry
  BY <1>1, OneMailbox DEF Ops!CommitSession, Ops!Transaction
<1>3. Ops!Handled(r) \in SUBSET Messages
  BY DEF Ops!Handled, Ops!LogEntry
<1>4. settled' \in SUBSET Messages /\ unindexed' \in SUBSET Messages /\ missed' \in SUBSET Messages
  BY <1>1, <1>3 DEF RequestCommits, Ops!LastChangedBy, HandledTwice, Overtaken
<1>5. run' \in [Jobs -> Run]
  <2>1. Overtaken(r) \in SUBSET Messages
    BY <1>3 DEF Overtaken
  <2>2. \A j \in Jobs : PassedBy(run[j], Overtaken(r)) \in Run
    BY <2>1, NotingKeepsRun
  <2> QED
    BY <2>2 DEF RequestCommits
<1> QED
  BY <1>1, <1>2, <1>4, <1>5, CloseTypes DEF mailboxVars, MailboxTypeOK

\* Every step keeps the types.
LEMMA SystemTypeNext ==
    ASSUME TypeInv, [SystemNext]_systemVars
    PROVE  TypeInv'
<1> USE DEF TypeInv, RequestTypes
<1>1. CASE [Next]_vars /\ (BesideRequests \/ RequestsDie)
  <2>1. TypeOK'
    BY <1>1, TypeNext
  <2>2. CASE BesideRequests
    BY <2>1, <2>2 DEF BesideRequests, IdsLeft
  <2>3. CASE RequestsDie
    BY <2>1, <2>3 DEF RequestsDie, IdsLeft
  <2> QED
    BY <1>1, <2>2, <2>3
<1>2. ASSUME BesideRuns PROVE TypeOK'
  BY <1>2 DEF BesideRuns, TypeOK, MailboxTypeOK, mailboxVars, dbVars
<1>3. ASSUME NEW j \in Jobs, RunLocked(j) PROVE TypeInv'
  <2>1. run' \in [Jobs -> Run]
    BY <1>3, WholeRuns DEF RunLocked, AfterError, TypeOK
  <2> QED
    BY <1>3, <2>1 DEF RunLocked, requestVars, TypeOK, MailboxTypeOK, mailboxVars, dbVars,
       IdsLeft
<1>4. CASE BesideRuns /\ RequestsDie
  BY <1>2, <1>4 DEF RequestsDie, IdsLeft
<1>5. ASSUME NEW r \in Requests, Prepares(r) PROVE TypeInv'
  BY <1>2, <1>5 DEF Prepares, IdsLeft
<1>6. ASSUME NEW r \in Requests, Updates(r) PROVE TypeInv'
  <2>1. TypeOK'
    BY <1>2, <1>6 DEF Updates
  <2> QED
    BY <1>6, <2>1, UpdateWrites DEF IdsLeft
<1>7. ASSUME NEW r \in Requests, EndsUnwritten(r) PROVE TypeInv'
  BY <1>2, <1>7, CloseTypes DEF EndsUnwritten
<1>8. ASSUME NEW r \in Requests, RequestModifies(r) PROVE TypeInv'
  <2>1. PICK m \in Messages, q \in Ops!Request :
          /\ q.pc = "update" /\ q.ids # <<>> /\ Ops!Entry(q) \in Ops!LogEntry
          /\ req' = [req EXCEPT ![r] = q]
          /\ open' = [open EXCEPT ![r] = @ \cup {Ops!Entry(q)}]
          /\ NewVersion(m) /\ NoteChange(m)
          /\ settled' = settled \ {m}
          /\ UNCHANGED <<present, horizon, gmailLabels, dbVars, log, writer, tx,
                         failures, unindexed>>
    BY <1>8, ModifyWrites
  <2>2. MailboxTypeOK'
    BY <2>1 DEF NewVersion, TypeOK, MailboxTypeOK
  <2>3. run' \in [Jobs -> Run] /\ missed' \in SUBSET Messages
    <3>1. ASSUME NEW j \in Jobs PROVE [run[j] EXCEPT !.dirty = @ \cup {m}] \in Run
      BY DEF TypeOK, Run
    <3> QED
      BY <2>1, <3>1 DEF NoteChange, TypeOK
  <2>4. TypeOK'
    BY <2>1, <2>2, <2>3 DEF TypeOK, dbVars
  <2> QED
    BY <2>1, <2>4 DEF IdsLeft
<1> QED
  BY <1>1, <1>3, <1>4, <1>5, <1>6, <1>7, <1>8, CommitTypes, SystemKinds

\* Nothing is synced and nobody has asked for anything.
LEMMA SystemTypeInit == SystemInit => TypeInv
<1> SUFFICES ASSUME SystemInit PROVE TypeInv
  OBVIOUS
<1>1. TypeOK
  BY TypeInit DEF SystemInit
<1>2. RequestTypes
  BY RequestConstants DEF SystemInit, RequestTypes
<1>3. IdsLeft
  BY DEF SystemInit, IdsLeft, Ops!IdleRequest
<1> QED
  BY <1>1, <1>2, <1>3 DEF TypeInv

\* Every reachable state of runs, requests, transaction and database is well
\* typed (SyncAndLabels!SystemTypeOK).
THEOREM SystemTypeCorrect == SystemSpec => []SystemTypeOK
<1>1. TypeInv => SystemTypeOK
  BY TypesAreAll DEF TypeInv
<1> QED
  BY <1>1, SystemTypeInit, SystemTypeNext, PTL DEF SystemSpec

-----------------------------------------------------------------------------
(* Requests beside runs: what a request holds follows from what is         *)
(* committed, and its answers stay answers.                                *)

\* While nothing is committed, the open transaction follows from the same rows.
LEMMA TxStays ==
    ASSUME TxFollows,
           writer' # NoRequest => UNCHANGED <<writer, tx, rows, junction, registry>>
    PROVE  TxFollows'
<1> SUFFICES ASSUME writer' # NoRequest, NEW m \in Messages
             PROVE  /\ RowFollows(tx.rows[m], rows[m], m, tx.log)'
                    /\ JunctionFollows(tx.junction[m], tx.added[m], junction[m], m, tx.log)'
  BY DEF TxFollows
<1>1. /\ RowFollows(tx.rows[m], rows[m], m, tx.log)
      /\ JunctionFollows(tx.junction[m], tx.added[m], junction[m], m, tx.log)
  BY DEF TxFollows
<1>2. UNCHANGED <<tx, rows, junction, registry>>
  OBVIOUS
<1>3. RowFollows(tx.rows[m], rows[m], m, tx.log)'
  BY <1>1, <1>2 DEF RowFollows
<1>4. JunctionFollows(tx.junction[m], tx.added[m], junction[m], m, tx.log)'
  BY <1>1, <1>2 DEF JunctionFollows
<1> QED
  BY <1>3, <1>4

\* Runs and account at work: nothing that a transaction builds on moves, and
\* what changes in Gmail gets a version that no request holds.
LEMMA RequestInvBeside ==
    ASSUME TypeInv, RequestInv, Sources, BesideRequests
    PROVE  RequestInv'
<1> USE DEF TypeInv, RequestTypes
<1>1. \A r \in Requests : Written(r)' = Written(r)
  BY DEF BesideRequests, Written
<1>2. OpenIsWritten' /\ AnswerIsNewest'
  BY <1>1 DEF BesideRequests, RequestInv, OpenIsWritten, AnswerIsNewest, Ops!Entry
<1>3. TxFollows'
  BY TxStays DEF BesideRequests, RequestInv
<1>4. AsAnswered'
  <2>1. CASE UNCHANGED mail
    BY <2>1 DEF BesideRequests, RequestInv, AsAnswered
  <2>2. ASSUME NEW i \in Messages, NewVersion(i) PROVE AsAnswered'
    <3> SUFFICES ASSUME NEW r \in Requests, NEW c \in open[r]
                 PROVE  /\ c.ver <= mail'[c.message].ver
                        /\ c.ver = mail'[c.message].ver
                              => c.labels = mail'[c.message].labels
      BY DEF AsAnswered, BesideRequests
    <3>1. c \in Ops!LogEntry
      OBVIOUS
    <3>2. c.message \in Messages /\ c.ver \in Nat
      BY <3>1 DEF Ops!LogEntry
    <3>3. /\ c.ver <= mail[c.message].ver
          /\ c.ver = mail[c.message].ver => c.labels = mail[c.message].labels
      BY DEF RequestInv, AsAnswered
    <3>4. mail[c.message].ver <= historyId /\ mail[c.message].ver \in Nat /\ historyId \in Nat
      BY <3>2 DEF Sources, MailAges, TypeOK, MailboxTypeOK, Copy
    <3> QED
      BY <2>2, <3>2, <3>3, <3>4 DEF NewVersion, TypeOK, MailboxTypeOK
  <2> QED
    BY <2>1, <2>2 DEF BesideRequests
<1> QED
  BY <1>2, <1>3, <1>4 DEF RequestInv

\* Nobody asks any more.
LEMMA RequestInvDie ==
    ASSUME TypeInv, RequestsDie
    PROVE  RequestInv'
<1>1. \A r \in Requests : open'[r] = {} /\ Written(r)' = {} /\ req'[r].pc # "update"
  BY SystemAssumption DEF RequestsDie, Written
<1> QED
  BY <1>1 DEF RequestsDie, RequestInv, OpenIsWritten, AnswerIsNewest, AsAnswered, TxFollows

\* A request goes on without an answer in its hands.
LEMMA RequestInvPrepare ==
    ASSUME TypeInv, RequestInv, NEW r \in Requests, Prepares(r)
    PROVE  RequestInv'
<1> USE DEF TypeInv, RequestTypes
<1>1. PICK q \in Ops!Request : req' = [req EXCEPT ![r] = q] /\ q.pc # "update"
  BY DEF Prepares
<1>2. /\ UNCHANGED <<mail, rows, junction, registry, writer, tx, open>>
      /\ req[r].pc # "update"
  BY DEF Prepares, BesideRuns, mailboxVars, dbVars
<1>3. \A i \in Requests : Written(i)' = Written(i)
  BY <1>2 DEF Written
<1>4. \A i \in Requests : /\ req'[i].pc = "update" <=> req[i].pc = "update"
                          /\ req'[i].pc = "update" => req'[i] = req[i]
  BY <1>1, <1>2
<1>5. OpenIsWritten' /\ AnswerIsNewest'
  BY <1>2, <1>3, <1>4 DEF RequestInv, OpenIsWritten, AnswerIsNewest, Ops!Entry
<1>6. AsAnswered' /\ TxFollows'
  BY <1>2, TxStays DEF RequestInv, AsAnswered
<1> QED
  BY <1>5, <1>6 DEF RequestInv

\* The end of a request; if it is not the writer, it writes nothing.
LEMMA RequestInvClose ==
    ASSUME TypeInv, RequestInv, NEW r \in Requests, Ops!Close(r),
           UNCHANGED <<mail, registry>>, writer # r => UNCHANGED <<rows, junction>>
    PROVE  RequestInv'
<1> USE DEF TypeInv, RequestTypes
<1>1. \A i \in Requests : i # r => req'[i] = req[i] /\ open'[i] = open[i]
  BY DEF Ops!Close
<1>2. req'[r].pc = "done" /\ open'[r] = {}
  BY DEF Ops!Close, Ops!IdleRequest
<1>3. \A i \in Requests : i # r => Written(i)' = Written(i)
  BY SystemAssumption DEF Ops!Close, Written
<1>4. Written(r)' = {}
  BY SystemAssumption DEF Ops!Close, Written
<1>5. OpenIsWritten' /\ AnswerIsNewest'
  BY <1>1, <1>2, <1>3, <1>4 DEF RequestInv, OpenIsWritten, AnswerIsNewest, Ops!Entry
<1>6. AsAnswered'
  BY <1>1, <1>2 DEF RequestInv, AsAnswered
<1>7. TxFollows'
  BY TxStays DEF RequestInv, Ops!Close
<1> QED
  BY <1>5, <1>6, <1>7 DEF RequestInv

\* A change in Gmail is open, and its answer waits.
LEMMA RequestInvModify ==
    ASSUME TypeInv, RequestInv, Sources, NEW r \in Requests, RequestModifies(r)
    PROVE  RequestInv'
<1> USE DEF TypeInv, RequestTypes
<1> DEFINE m == Head(req[r].ids)
           labels == (mail[m].labels \cup req[r].op.add) \ req[r].op.remove
           answer == [ver |-> historyId + 1, labels |-> labels]
           q == [req[r] EXCEPT !.pc = "update", !.answer = answer]
           e == Ops!Entry(q)
<1>1. /\ m \in Messages
      /\ req[r].pc = "modify"
      /\ q \in Ops!Request /\ q.pc = "update" /\ q.answer = answer
      /\ e \in Ops!LogEntry
      /\ e.message = m /\ e.ver = historyId + 1 /\ e.labels = labels
      /\ mail' = [mail EXCEPT ![m] = answer]
      /\ req' = [req EXCEPT ![r] = q]
      /\ open' = [open EXCEPT ![r] = @ \cup {e}]
      /\ UNCHANGED <<dbVars, writer, tx>>
  BY ModifyWrites
<1>2. answer.ver = historyId + 1 /\ answer.labels = labels
  OBVIOUS
<1> HIDE DEF m, labels, answer, q, e
<1>3. /\ req'[r] = q /\ open'[r] = open[r] \cup {e}
      /\ \A i \in Requests : i # r => req'[i] = req[i] /\ open'[i] = open[i]
  BY <1>1
<1>4. /\ mail'[m] = answer
      /\ \A i \in Messages : i # m => mail'[i] = mail[i]
  BY <1>1 DEF TypeOK, MailboxTypeOK
<1>5. \A i \in Requests : Written(i)' = Written(i)
  BY <1>1 DEF Written
<1>6. ASSUME NEW i \in Requests, NEW c \in open[i]
      PROVE  /\ c.message \in Messages /\ c.ver \in Nat /\ c.ver <= historyId
             /\ historyId \in Nat
  <2>1. c \in Ops!LogEntry
    OBVIOUS
  <2>2. c.message \in Messages /\ c.ver \in Nat
    BY <2>1 DEF Ops!LogEntry
  <2>3. c.ver <= mail[c.message].ver
    BY DEF RequestInv, AsAnswered
  <2>4. mail[c.message].ver <= historyId /\ mail[c.message].ver \in Nat /\ historyId \in Nat
    BY <2>2 DEF Sources, MailAges, TypeOK, MailboxTypeOK, Copy
  <2> QED
    BY <2>2, <2>3, <2>4
<1>7. OpenIsWritten'
  <2> SUFFICES ASSUME NEW i \in Requests
               PROVE  open'[i] = IF req'[i].pc = "update"
                                 THEN Written(i)' \cup {Ops!Entry(req'[i])}
                                 ELSE Written(i)'
    BY DEF OpenIsWritten, Ops!Entry
  <2>1. CASE i = r
    <3>1. open[r] = Written(r)
      BY <1>1 DEF RequestInv, OpenIsWritten
    <3> QED
      BY <2>1, <3>1, <1>1, <1>3, <1>5 DEF e
  <2>2. CASE i # r
    BY <2>2, <1>3, <1>5 DEF RequestInv, OpenIsWritten
  <2> QED
    BY <2>1, <2>2
<1>8. AnswerIsNewest'
  <2> SUFFICES ASSUME NEW i \in Requests, req'[i].pc = "update", NEW d \in Written(i)'
               PROVE  d.ver < req'[i].answer.ver
    BY DEF AnswerIsNewest
  <2>1. CASE i = r
    <3>1. d \in open[r]
      BY <2>1, <1>1, <1>5 DEF RequestInv, OpenIsWritten
    <3>2. req'[i].answer.ver = historyId + 1
      BY <2>1, <1>1, <1>2, <1>3
    <3> QED
      BY <3>1, <3>2, <1>6
  <2>2. CASE i # r
    BY <2>2, <1>3, <1>5 DEF RequestInv, AnswerIsNewest
  <2> QED
    BY <2>1, <2>2
<1>9. AsAnswered'
  <2> SUFFICES ASSUME NEW i \in Requests, NEW c \in open'[i]
               PROVE  /\ c.ver <= mail'[c.message].ver
                      /\ c.ver = mail'[c.message].ver
                            => c.labels = mail'[c.message].labels
    BY DEF AsAnswered
  <2>1. CASE c = e
    <3>1. historyId \in Nat
      BY DEF TypeOK, MailboxTypeOK
    <3> QED
      BY <2>1, <3>1, <1>1, <1>2, <1>4
  <2>2. CASE c \in open[i]
    <3>1. CASE c.message = m
      BY <2>2, <3>1, <1>2, <1>4, <1>6
    <3>2. CASE c.message # m
      BY <2>2, <3>2, <1>4, <1>6 DEF RequestInv, AsAnswered
    <3> QED
      BY <3>1, <3>2
  <2> QED
    BY <1>3, <2>1, <2>2
<1>10. TxFollows'
  BY <1>1, TxStays DEF RequestInv, dbVars
<1> QED
  BY <1>7, <1>8, <1>9, <1>10 DEF RequestInv

\* One more change, newer than the others, and the row that it gives.
LEMMA RowAfterOneMore ==
    ASSUME NEW old \in Copy, NEW new \in Copy, NEW m \in Messages,
           NEW changes, NEW e, RowFollows(new, old, m, changes),
           \A d \in changes : d.ver < e.ver
    PROVE  /\ e.message = m =>
                RowFollows([new EXCEPT !.labels = e.labels], old, m, changes \cup {e})
           /\ e.message # m => RowFollows(new, old, m, changes \cup {e})
<1>1. ASSUME e.message = m
      PROVE  RowFollows([new EXCEPT !.labels = e.labels], old, m, changes \cup {e})
  <2>1. [new EXCEPT !.labels = e.labels] = [old EXCEPT !.labels = e.labels]
    <3>1. CASE new = old
      BY <3>1
    <3>2. CASE \E c \in changes : new = [old EXCEPT !.labels = c.labels]
      BY <3>2 DEF Copy
    <3> QED
      BY <3>1, <3>2 DEF RowFollows
  <2> QED
    BY <1>1, <2>1 DEF RowFollows
<1>2. ASSUME e.message # m PROVE RowFollows(new, old, m, changes \cup {e})
  BY <1>2 DEF RowFollows
<1> QED
  BY <1>1, <1>2

\* ... and its junction rows: those of an earlier change stay pending.
LEMMA JunctionAfterOneMore ==
    ASSUME NEW old, NEW joined, NEW added, NEW m \in Messages, NEW changes, NEW e,
           JunctionFollows(joined, added, old, m, changes),
           \A d \in changes : d # e
    PROVE  /\ e.message = m =>
                JunctionFollows({}, added \cup (e.labels \cap registry), old, m,
                                changes \cup {e})
           /\ e.message # m => JunctionFollows(joined, added, old, m, changes \cup {e})
<1>1. ASSUME e.message = m
      PROVE  JunctionFollows({}, added \cup (e.labels \cap registry), old, m,
                             changes \cup {e})
  <2>1. ~ \A c \in changes \cup {e} : c.message # m
    BY <1>1
  <2>2. ASSUME NEW c \in changes \cup {e}, c.message = m,
               \A d \in changes \cup {e} : d.message = m => d = c
        PROVE  added \cup (e.labels \cap registry) = c.labels \cap registry
    <3>1. c = e /\ \A d \in changes : d.message # m
      BY <1>1, <2>2
    <3>2. added = {}
      BY <3>1 DEF JunctionFollows
    <3> QED
      BY <3>1, <3>2
  <2> QED
    BY <2>1, <2>2 DEF JunctionFollows
<1>2. ASSUME e.message # m PROVE JunctionFollows(joined, added, old, m, changes \cup {e})
  BY <1>2 DEF JunctionFollows
<1> QED
  BY <1>1, <1>2

\* The waiting answer is written to row and junction.
LEMMA RequestInvUpdate ==
    ASSUME TypeInv, RequestInv, NEW r \in Requests, Updates(r)
    PROVE  RequestInv'
<1> USE DEF TypeInv, RequestTypes
<1> DEFINE m == Head(req[r].ids)
           e == Ops!Entry(req[r])
           t == Transacting(r)
           pending == e.labels \cap registry
<1>1. /\ m \in Messages
      /\ req[r].pc = "update"
      /\ e.message = m /\ e.ver = req[r].answer.ver
      /\ t \in Ops!Transaction
      /\ writer \in {NoRequest, r} /\ writer' = r
      /\ tx'.log = t.log \cup {e}
      /\ tx'.rows = [t.rows EXCEPT ![m] = [@ EXCEPT !.labels = e.labels]]
      /\ tx'.junction = [t.junction EXCEPT ![m] = {}]
      /\ tx'.added = [t.added EXCEPT ![m] = @ \cup pending]
      /\ req'[r].pc = "next"
      /\ \A i \in Requests \ {r} : req'[i] = req[i]
      /\ UNCHANGED open
  BY UpdateWrites
<1>2. UNCHANGED <<mail, rows, junction, registry>>
  BY DEF Updates, BesideRuns, mailboxVars, dbVars
<1>3. t.log = Written(r)
  BY DEF Transacting, Written, Ops!NoTransaction
<1>4. open[r] = Written(r) \cup {e}
  BY <1>1 DEF RequestInv, OpenIsWritten
<1> HIDE DEF m, e, pending
<1>5. \A i \in Messages :
        /\ RowFollows(t.rows[i], rows[i], i, t.log)
        /\ JunctionFollows(t.junction[i], t.added[i], junction[i], i, t.log)
  <2>1. CASE writer = r
    BY <2>1, SystemAssumption DEF RequestInv, TxFollows, Transacting
  <2>2. CASE writer # r
    BY <2>2 DEF RowFollows, JunctionFollows, Transacting, Ops!NoTransaction, Ops!NoJunction
  <2> QED
    BY <2>1, <2>2
<1>6. \A d \in t.log : d.ver < e.ver
  BY <1>1, <1>3 DEF RequestInv, AnswerIsNewest
<1>7. \A d \in t.log : d # e
  <2>1. e.ver \in Nat
    BY <1>1, OneMailbox DEF Ops!Request, Copy
  <2> QED
    BY <1>6, <2>1
<1>8. /\ t.rows \in [Messages -> Copy]
      /\ t.junction \in [Messages -> SUBSET Labels]
      /\ t.added \in [Messages -> SUBSET Labels]
  BY <1>1, OneMailbox DEF Ops!Transaction
<1> HIDE DEF t
<1>9. Written(r)' = t.log \cup {e}
  BY <1>1 DEF Written
<1>10. \A i \in Requests : i # r => Written(i)' = {} /\ Written(i) = {}
  BY <1>1, SystemAssumption DEF Written
<1>11. OpenIsWritten'
  <2>1. open[r] = Written(r)' /\ req'[r].pc # "update"
    BY <1>1, <1>3, <1>4, <1>9
  <2>2. ASSUME NEW i \in Requests \ {r}
        PROVE  open[i] = IF req'[i].pc = "update" THEN Written(i)' \cup {Ops!Entry(req'[i])}
                         ELSE Written(i)'
    <3>1. Written(i)' = Written(i) /\ req'[i] = req[i]
      BY <1>1, <1>10
    <3>2. open[i] = IF req[i].pc = "update" THEN Written(i) \cup {Ops!Entry(req[i])}
                    ELSE Written(i)
      BY DEF RequestInv, OpenIsWritten
    <3> QED
      BY <3>1, <3>2
  <2>3. open' = open
    BY <1>1
  <2> QED
    BY <2>1, <2>2, <2>3 DEF OpenIsWritten, Ops!Entry
<1>12. AnswerIsNewest'
  BY <1>1, <1>10 DEF AnswerIsNewest
<1>13. AsAnswered'
  BY <1>1, <1>2 DEF RequestInv, AsAnswered
<1>14. TxFollows'
  <2> SUFFICES ASSUME NEW i \in Messages
               PROVE  /\ RowFollows(tx'.rows[i], rows[i], i, t.log \cup {e})
                      /\ JunctionFollows(tx'.junction[i], tx'.added[i], junction[i], i,
                                         t.log \cup {e})
    <3> SUFFICES ASSUME NEW i \in Messages
                 PROVE  /\ RowFollows(tx.rows[i], rows[i], i, tx.log)'
                        /\ JunctionFollows(tx.junction[i], tx.added[i], junction[i], i,
                                           tx.log)'
      BY DEF TxFollows
    <3> DEFINE changes == t.log \cup {e}
    <3>0. tx'.log = changes /\ UNCHANGED <<rows, junction, registry>>
      BY <1>1, <1>2
    <3> HIDE DEF changes
    <3>1. RowFollows(tx'.rows[i], rows[i], i, changes)
             => RowFollows(tx.rows[i], rows[i], i, tx.log)'
      BY <3>0 DEF RowFollows
    <3>2. JunctionFollows(tx'.junction[i], tx'.added[i], junction[i], i, changes)
             => JunctionFollows(tx.junction[i], tx.added[i], junction[i], i, tx.log)'
      BY <3>0 DEF JunctionFollows
    <3> QED
      BY <3>1, <3>2 DEF changes
  <2>1. rows[i] \in Copy /\ t.rows[i] \in Copy
    BY <1>8 DEF TypeOK
  <2>2. /\ e.message = i =>
             /\ RowFollows([t.rows[i] EXCEPT !.labels = e.labels], rows[i], i, t.log \cup {e})
             /\ JunctionFollows({}, t.added[i] \cup pending, junction[i], i, t.log \cup {e})
        /\ e.message # i =>
             /\ RowFollows(t.rows[i], rows[i], i, t.log \cup {e})
             /\ JunctionFollows(t.junction[i], t.added[i], junction[i], i, t.log \cup {e})
    BY <1>5, <1>6, <1>7, <2>1, RowAfterOneMore, JunctionAfterOneMore DEF pending
  <2>3. CASE i = m
    <3>1. /\ tx'.rows[i] = [t.rows[i] EXCEPT !.labels = e.labels]
          /\ tx'.junction[i] = {}
          /\ tx'.added[i] = t.added[i] \cup pending
      BY <1>1, <1>8, <2>3
    <3> QED
      BY <1>1, <2>2, <2>3, <3>1
  <2>4. CASE i # m
    <3>1. /\ tx'.rows[i] = t.rows[i]
          /\ tx'.junction[i] = t.junction[i]
          /\ tx'.added[i] = t.added[i]
      BY <1>1, <1>8, <2>4
    <3> QED
      BY <1>1, <2>2, <2>4, <3>1
  <2> QED
    BY <2>3, <2>4
<1> QED
  BY <1>11, <1>12, <1>13, <1>14 DEF RequestInv

\* Every step keeps RequestInv.
LEMMA RequestInvNext ==
    ASSUME TypeInv, RequestInv, Sources, [SystemNext]_systemVars
    PROVE  RequestInv'
<1>1. CASE BesideRequests
  BY <1>1, RequestInvBeside
<1>2. CASE RequestsDie
  BY <1>2, RequestInvDie
<1>3. ASSUME NEW j \in Jobs, RunLocked(j) PROVE BesideRequests
  BY <1>3 DEF RunLocked, BesideRequests, requestVars, mailboxVars, dbVars
<1>4. ASSUME NEW r \in Requests, EndsUnwritten(r) PROVE RequestInv'
  BY <1>4, RequestInvClose DEF EndsUnwritten, BesideRuns, mailboxVars, dbVars
<1>5. ASSUME NEW r \in Requests, RequestCommits(r) PROVE RequestInv'
  BY <1>5, RequestInvClose DEF RequestCommits, Ops!Commit, Ops!mailboxVars
<1> QED
  BY <1>1, <1>2, <1>3, <1>4, <1>5, SystemKinds, RequestInvBeside, RequestInvPrepare,
     RequestInvUpdate, RequestInvModify

\* At the start nothing is open and no answer waits.
LEMMA RequestInvInit == SystemInit => RequestInv
<1> SUFFICES ASSUME SystemInit PROVE RequestInv
  OBVIOUS
<1>1. \A r \in Requests : Written(r) = {} /\ req[r].pc = "idle" /\ open[r] = {}
  BY SystemAssumption DEF SystemInit, Written, Ops!IdleRequest
<1> QED
  BY <1>1 DEF SystemInit, RequestInv, OpenIsWritten, AnswerIsNewest, AsAnswered, TxFollows

-----------------------------------------------------------------------------
(* What a commit does to the committed rows.                               *)

\* The newest change of a message that r handled gives the row its labels.
Newest(r, m, d) ==
    /\ d \in open[r]
    /\ d.message = m
    /\ rows'[m] = [rows[m] EXCEPT !.labels = d.labels]
    /\ \A c \in open[r] : c.message = m => c = d \/ c.ver < d.ver

LEMMA CommitEffect ==
    ASSUME TypeInv, RequestInv, NEW r \in Requests, RequestCommits(r)
    PROVE  /\ log' = log \cup open[r]
           /\ open' = [open EXCEPT ![r] = {}]
           /\ \A m \in Messages \ Ops!Handled(r) :
                 rows'[m] = rows[m] /\ junction'[m] = junction[m]
           /\ \A m \in Ops!Handled(r) : m \in Messages /\ \E d \in open[r] : Newest(r, m, d)
           /\ \A m \in Ops!Handled(r) \ HandledTwice(r) :
                 junction'[m] = rows'[m].labels \cap registry
<1> USE DEF TypeInv, TypeOK, RequestTypes
<1>1. /\ writer = r /\ req[r].pc # "update"
      /\ rows' = tx.rows
      /\ junction' = [m \in Messages |-> tx.junction[m] \cup tx.added[m]]
      /\ log' = log \cup tx.log
      /\ open' = [open EXCEPT ![r] = {}]
  BY DEF RequestCommits, Ops!Commit, Ops!Ended, Ops!AllHandled, Ops!CommitSession, Ops!Close
<1>2. open[r] = tx.log
  BY <1>1 DEF RequestInv, OpenIsWritten, Written
<1>3. \A m \in Messages :
        /\ RowFollows(rows'[m], rows[m], m, open[r])
        /\ JunctionFollows(tx.junction[m], tx.added[m], junction[m], m, open[r])
  BY <1>1, <1>2, SystemAssumption DEF RequestInv, TxFollows
<1>4. ASSUME NEW m \in Messages, m \notin Ops!Handled(r)
      PROVE  rows'[m] = rows[m] /\ junction'[m] = junction[m]
  <2>1. \A c \in open[r] : c.message # m
    BY <1>4 DEF Ops!Handled
  <2>2. rows'[m] = rows[m]
    BY <1>3, <2>1 DEF RowFollows
  <2>3. tx.junction[m] = junction[m] /\ tx.added[m] = {}
    BY <1>3, <2>1 DEF JunctionFollows
  <2> QED
    BY <1>1, <2>2, <2>3
<1>5. ASSUME NEW m \in Ops!Handled(r)
      PROVE  m \in Messages /\ \E d \in open[r] : Newest(r, m, d)
  <2>1. PICK c \in open[r] : c.message = m
    BY DEF Ops!Handled
  <2>2. m \in Messages
    <3>1. c \in Ops!LogEntry
      OBVIOUS
    <3> QED
      BY <2>1, <3>1 DEF Ops!LogEntry
  <2> QED
    BY <1>3, <2>1, <2>2 DEF RowFollows, Newest
<1>6. ASSUME NEW m \in Ops!Handled(r), m \notin HandledTwice(r)
      PROVE  junction'[m] = rows'[m].labels \cap registry
  <2>1. PICK d \in open[r] : Newest(r, m, d)
    BY <1>5
  <2>2. m \in Messages
    BY <1>5
  <2>3. \A c \in open[r] : c.message = m => c = d
    BY <1>6, <2>1, <2>2 DEF HandledTwice, Newest
  <2>4. tx.junction[m] = {} /\ tx.added[m] = d.labels \cap registry
    BY <1>3, <2>1, <2>2, <2>3 DEF JunctionFollows, Newest
  <2>5. rows'[m].labels = d.labels
    BY <2>1, <2>2 DEF Newest, Copy
  <2> QED
    BY <1>1, <2>2, <2>4, <2>5
<1> QED
  BY <1>1, <1>2, <1>4, <1>5, <1>6

\* A row keeps its version, and one that was as Gmail has its message stays so
\* unless the message changed again since the request changed it.
LEMMA CommitKeepsRows ==
    ASSUME TypeInv, RequestInv, NEW r \in Requests, RequestCommits(r), NEW m \in Messages
    PROVE  /\ rows'[m].ver = rows[m].ver
           /\ rows[m] = mail[m] /\ m \notin Overtaken(r) => rows'[m] = mail[m]
<1> USE DEF TypeInv, TypeOK, MailboxTypeOK, RequestTypes
<1>1. CASE m \notin Ops!Handled(r)
  BY <1>1, CommitEffect
<1>2. CASE m \in Ops!Handled(r)
  <2>1. PICK d \in open[r] : Newest(r, m, d)
    BY <1>2, CommitEffect
  <2>2. rows'[m].ver = rows[m].ver
    BY <2>1 DEF Newest, Copy
  <2>3. ASSUME rows[m] = mail[m], m \notin Overtaken(r) PROVE rows'[m] = mail[m]
    <3>1. PICK c \in open[r] : c.message = m /\ c.ver = mail[m].ver
      BY <1>2, <2>3 DEF Overtaken, Ops!LastChangedBy
    <3>2. c \in Ops!LogEntry /\ d \in Ops!LogEntry
      BY <2>1 DEF Newest
    <3>3. c.ver \in Nat /\ d.ver \in Nat
      BY <3>2 DEF Ops!LogEntry
    <3>4. d.ver <= mail[m].ver
      BY <2>1 DEF Newest, RequestInv, AsAnswered
    <3>5. c = d
      BY <2>1, <3>1, <3>3, <3>4 DEF Newest
    <3>6. d.labels = mail[m].labels
      BY <3>1, <3>5 DEF RequestInv, AsAnswered
    <3> QED
      BY <2>1, <2>3, <3>6 DEF Newest, Copy
  <2> QED
    BY <2>2, <2>3
<1> QED
  BY <1>1, <1>2

\* The log only grows by a commit.
LEMMA OnlyCommitsLog ==
    ASSUME TypeInv, [SystemNext]_systemVars, log' # log
    PROVE  \E r \in Requests : RequestCommits(r)
<1>1. ASSUME NEW r \in Requests, Updates(r) PROVE log' = log
  BY <1>1, UpdateWrites
<1>2. ASSUME NEW r \in Requests, RequestModifies(r) PROVE log' = log
  BY <1>2, ModifyWrites
<1> QED
  BY <1>1, <1>2, SystemKinds DEF BesideRequests, RequestsDie, RunLocked, requestVars,
     Prepares, EndsUnwritten

-----------------------------------------------------------------------------
(* What the runs guarantee, with requests as further writers.              *)

\* A commit brings no row from the future.
LEMMA SourcesNext ==
    ASSUME TypeInv, RequestInv, Sources, [SystemNext]_systemVars
    PROVE  Sources'
<1> USE DEF TypeInv
<1>1. CASE [Next]_vars
  <2>1. ASSUME NEW i \in Messages, MessageChanges(i) PROVE Sources'
    <3>1. NewVersion(i)
      BY <2>1, ChangesGiveVersions DEF MessageChanges, TypeOK
    <3>2. rows' = rows /\ \A j \in Jobs : run'[j].fetched = run[j].fetched
      BY <2>1 DEF MessageChanges, NoteChange, dbVars, TypeOK, Run
    <3> QED
      BY <3>1, <3>2, SourcesAge
  <2> QED
    BY <1>1, <2>1, StepMovesAnswers, SourcesMove
<1>2. ASSUME BesideRuns PROVE Sources'
  BY <1>2 DEF BesideRuns, mailboxVars, dbVars, Sources, MailAges, Answer
<1>3. ASSUME NEW j \in Jobs, RunLocked(j) PROVE Sources'
  <2>1. UNCHANGED <<mail, historyId, rows>>
    BY <1>3 DEF RunLocked, mailboxVars, dbVars
  <2>2. \A i \in Jobs, m \in Messages : run'[i].fetched[m] \in {run[i].fetched[m], NoCopy}
    BY <1>3 DEF RunLocked, AfterError, IdleRun, FullRun, NothingFetched, TypeOK
  <2>3. MovesAnswers
    BY <2>1, <2>2 DEF MovesAnswers, TypeOK, MailboxTypeOK
  <2> QED
    BY <2>3, SourcesMove
<1>4. ASSUME NEW r \in Requests, RequestModifies(r) PROVE Sources'
  <2>1. PICK m \in Messages : NewVersion(m) /\ NoteChange(m) /\ UNCHANGED dbVars
    BY <1>4, ModifyWrites
  <2>2. \A j \in Jobs : run'[j].fetched = run[j].fetched
    BY <2>1 DEF NoteChange, TypeOK, Run
  <2> QED
    BY <2>1, <2>2, SourcesAge DEF dbVars
<1>5. ASSUME NEW r \in Requests, RequestCommits(r) PROVE Sources'
  <2>1. UNCHANGED <<mail, historyId>>
    BY <1>5 DEF RequestCommits, Ops!Commit, Ops!mailboxVars
  <2>2. \A j \in Jobs : run'[j].fetched = run[j].fetched
    <3>1. Overtaken(r) \in SUBSET Messages
      BY DEF Overtaken, Ops!Handled, Ops!LogEntry, RequestTypes
    <3>2. \A j \in Jobs : PassedBy(run[j], Overtaken(r)).fetched = run[j].fetched
      BY <3>1, NotingKeepsRun DEF TypeOK
    <3> QED
      BY <1>5, <3>2 DEF RequestCommits
  <2>3. \A m \in Messages : rows'[m].ver <= mail[m].ver
    BY <1>5, CommitKeepsRows DEF Sources
  <2> QED
    BY <2>1, <2>2, <2>3 DEF Sources, MailAges, Answer
<1> QED
  BY <1>1, <1>2, <1>3, <1>4, <1>5, SystemKinds DEF Prepares, Updates, EndsUnwritten

\* Requests leave the registry, and the ids that a rebuild has read, alone.
LEMMA SystemIdsNext ==
    ASSUME TypeInv, IdsRegistered, [SystemNext]_systemVars
    PROVE  IdsRegistered'
<1> USE DEF TypeInv
<1>1. CASE [Next]_vars
  BY <1>1, IdsNext
<1>2. ASSUME BesideRuns PROVE IdsRegistered'
  BY <1>2 DEF BesideRuns, dbVars, IdsRegistered
<1>3. ASSUME NEW j \in Jobs, RunLocked(j) PROVE IdsRegistered'
  <2>1. IdleRun.valid = {} /\ FullRun.valid = {}
    BY DEF IdleRun, FullRun
  <2>2. \A i \in Jobs : run'[i].valid \in {run[i].valid, {}}
    BY <1>3, <2>1 DEF RunLocked, AfterError, TypeOK
  <2>3. registry' = registry
    BY <1>3 DEF RunLocked, dbVars
  <2> QED
    BY <2>2, <2>3, IdsStay
<1>4. ASSUME NEW r \in Requests, RequestModifies(r) PROVE IdsRegistered'
  <2>1. PICK m \in Messages : NoteChange(m) /\ UNCHANGED dbVars
    BY <1>4, ModifyWrites
  <2>2. \A j \in Jobs : run'[j].valid = run[j].valid
    BY <2>1 DEF NoteChange, TypeOK, Run
  <2> QED
    BY <2>1, <2>2, IdsStay DEF dbVars
<1>5. ASSUME NEW r \in Requests, RequestCommits(r) PROVE IdsRegistered'
  <2>1. \A j \in Jobs : PassedBy(run[j], Overtaken(r)).valid = run[j].valid
    BY DEF PassedBy, TypeOK, Run
  <2>2. registry' = registry /\ \A j \in Jobs : run'[j].valid = run[j].valid
    BY <1>5, <2>1 DEF RequestCommits, Ops!Commit
  <2> QED
    BY <2>2, IdsStay
<1> QED
  BY <1>1, <1>2, <1>3, <1>4, <1>5, SystemKinds DEF Prepares, Updates, EndsUnwritten

\* Whatever writes a row writes its junction rows, or leaves the row to a rebuild.
LEMMA SystemJunctionNext ==
    ASSUME TypeInv, RequestInv, IdsRegistered, JunctionExact, [SystemNext]_systemVars
    PROVE  JunctionExact'
<1> USE DEF TypeInv
<1>1. CASE [Next]_vars
  BY <1>1, JunctionNext
<1>2. ASSUME UNCHANGED <<dbVars, unindexed>> PROVE JunctionExact'
  BY <1>2 DEF dbVars, JunctionExact
<1>3. ASSUME NEW r \in Requests, RequestModifies(r) PROVE UNCHANGED <<dbVars, unindexed>>
  BY <1>3, ModifyWrites
<1>4. ASSUME NEW r \in Requests, RequestCommits(r) PROVE JunctionExact'
  <2> SUFFICES ASSUME NEW m \in Messages, m \notin unindexed'
               PROVE  junction'[m] = rows'[m].labels \cap registry'
    BY DEF JunctionExact
  <2>1. /\ registry' = registry
        /\ unindexed' = (unindexed \ Ops!Handled(r)) \cup HandledTwice(r)
    BY <1>4 DEF RequestCommits, Ops!Commit
  <2>2. CASE m \in Ops!Handled(r)
    BY <1>4, <2>1, <2>2, CommitEffect
  <2>3. CASE m \notin Ops!Handled(r)
    BY <1>4, <2>1, <2>3, CommitEffect DEF JunctionExact
  <2> QED
    BY <2>2, <2>3
<1> QED
  BY <1>1, <1>2, <1>3, <1>4, SystemKinds DEF Prepares, Updates, EndsUnwritten, BesideRuns,
     RunLocked

SystemInv == TypeInv /\ RequestInv /\ Sources /\ IdsRegistered /\ JunctionExact

\* The empty database, before any request.
LEMMA SystemInvInit == SystemInit => SystemInv
BY SystemTypeInit, RequestInvInit, ProvenanceInit, IdsInit, JunctionInit
DEF SystemInit, SystemInv, Provenance

\* Every step keeps SystemInv.
LEMMA SystemInvNext == SystemInv /\ [SystemNext]_systemVars => SystemInv'
BY SystemTypeNext, RequestInvNext, SourcesNext, SystemIdsNext, SystemJunctionNext
DEF SystemInv

\* However runs and requests share the database, and whichever of them fail:
\* outside the rows that wait for a rebuild the junction is the registered part
\* of raw_label_ids (SyncEngine!JunctionExact; label_repository.py).
THEOREM JunctionStaysExact == SystemSpec => []JunctionExact
<1>1. SystemInv => JunctionExact
  BY DEF SystemInv
<1> QED
  BY <1>1, SystemInvInit, SystemInvNext, PTL DEF SystemSpec

\* Whatever runs commit while a request waits or works, all that it wrote lands
\* together, as Gmail answered, and undoes nothing of any other message
\* (app.py, _close_session; database.py, get_session).
THEOREM WholeRequestsLand == SystemSpec => RequestsLandWhole
<1> DEFINE Whole ==
      \A r \in Requests :
         log' # log /\ open'[r] # open[r] =>
            /\ log' = log \cup open[r]
            /\ \A c \in open[r] :
                  \/ rows'[c.message].labels = c.labels
                  \/ \E d \in open[r] : d.message = c.message /\ d.ver > c.ver
            /\ \A m \in Messages \ Ops!Handled(r) :
                  rows'[m] = rows[m] /\ junction'[m] = junction[m]
<1>1. SystemInv /\ [SystemNext]_systemVars => Whole
  <2> SUFFICES ASSUME SystemInv, [SystemNext]_systemVars, NEW r \in Requests,
                      log' # log, open'[r] # open[r]
               PROVE  /\ log' = log \cup open[r]
                      /\ \A c \in open[r] :
                            \/ rows'[c.message].labels = c.labels
                            \/ \E d \in open[r] : d.message = c.message /\ d.ver > c.ver
                      /\ \A m \in Messages \ Ops!Handled(r) :
                            rows'[m] = rows[m] /\ junction'[m] = junction[m]
    OBVIOUS
  <2> USE DEF SystemInv, TypeInv, RequestTypes
  <2>1. RequestCommits(r)
    <3>1. PICK i \in Requests : RequestCommits(i)
      BY OnlyCommitsLog
    <3>2. open' = [open EXCEPT ![i] = {}]
      BY <3>1, CommitEffect
    <3> QED
      BY <3>1, <3>2
  <2>2. ASSUME NEW c \in open[r]
        PROVE  \/ rows'[c.message].labels = c.labels
               \/ \E d \in open[r] : d.message = c.message /\ d.ver > c.ver
    <3>1. c.message \in Ops!Handled(r) /\ c.message \in Messages
      BY <2>1, CommitEffect DEF Ops!Handled
    <3>2. PICK d \in open[r] : Newest(r, c.message, d)
      BY <2>1, <3>1, CommitEffect
    <3>3. rows'[c.message].labels = d.labels
      BY <3>1, <3>2 DEF Newest, TypeOK, Copy
    <3>4. c.ver \in Nat /\ d.ver \in Nat
      <4>1. c \in Ops!LogEntry /\ d \in Ops!LogEntry
        OBVIOUS
      <4> QED
        BY <4>1 DEF Ops!LogEntry
    <3> QED
      BY <3>2, <3>3, <3>4 DEF Newest
  <2> QED
    BY <2>1, <2>2, CommitEffect
<1>2. SystemInv /\ [SystemNext]_systemVars => [Whole]_systemVars
  BY <1>1
<1> QED
  BY <1>2, SystemInvInit, SystemInvNext, PTL DEF SystemSpec, RequestsLandWhole

-----------------------------------------------------------------------------
(* The watermark, with requests beside runs.                               *)

\* A commit takes nothing back that the watermark covers: what it overtook is
\* noted as missed, at once and in every full sync that still has to record.
LEMMA WatermarkInvCommit ==
    ASSUME TypeInv, RequestInv, WatermarkInv, NEW r \in Requests, RequestCommits(r)
    PROVE  WatermarkInv'
<1> USE DEF TypeInv
<1> DEFINE older == Overtaken(r)
<1>1. /\ UNCHANGED <<mailboxVars, syncState>>
      /\ missed' = missed \cup older
      /\ run' = [j \in Jobs |-> PassedBy(run[j], older)]
  BY DEF RequestCommits, Ops!Commit, Ops!mailboxVars, mailboxVars
<1>2. older \in SUBSET Messages
  BY DEF Overtaken, Ops!Handled, Ops!LogEntry, RequestTypes
<1>3. Visible' = Visible /\ Visible \subseteq Messages
  BY <1>1 DEF Visible, mailboxVars, TypeOK, MailboxTypeOK
<1>4. \A m \in Visible : rows[m] = mail[m] => rows'[m] = mail[m] \/ m \in older
  BY <1>3, CommitKeepsRows
<1> HIDE DEF older
<1>5. \A j \in Jobs : Sound(run[j])'
  BY <1>1, <1>2, <1>4, OthersStaySound
<1>6. NoSilentLoss'
  BY <1>1, <1>3, <1>4 DEF WatermarkInv, NoSilentLoss, mailboxVars
<1> QED
  BY <1>1, <1>5, <1>6 DEF WatermarkInv, mailboxVars

\* Every step keeps WatermarkInv.
LEMMA SystemWatermarkNext ==
    ASSUME SystemInv, WatermarkInv, [SystemNext]_systemVars
    PROVE  WatermarkInv'
<1> USE DEF SystemInv, TypeInv
<1>1. CASE [Next]_vars
  BY <1>1, WatermarkInvNext
<1>2. ASSUME BesideRuns PROVE WatermarkInv'
  <2>1. /\ UNCHANGED <<mail, rows, syncState, run, missed>>
        /\ present' \subseteq present
        /\ historyId' \in Nat /\ historyId' >= historyId
    BY <1>2 DEF BesideRuns, mailboxVars, dbVars, TypeOK, MailboxTypeOK
  <2> QED
    BY <2>1, WatermarkInvQuiet
<1>3. ASSUME NEW j \in Jobs, RunLocked(j) PROVE WatermarkInv'
  <2>1. /\ UNCHANGED <<mailboxVars, rows, syncState, missed>>
        /\ \E i \in {IdleRun, FullRun} : run' = [run EXCEPT ![j] = i]
    BY <1>3 DEF RunLocked, AfterError, dbVars
  <2> QED
    BY <2>1, WatermarkInvEnd
<1>4. ASSUME NEW r \in Requests, RequestModifies(r) PROVE WatermarkInv'
  <2>1. PICK m \in Messages : /\ NewVersion(m) /\ NoteChange(m)
                              /\ UNCHANGED <<present, dbVars>>
    BY <1>4, ModifyWrites
  <2>2. present' \subseteq present \cup {m} /\ UNCHANGED <<rows, syncState>>
    BY <2>1 DEF dbVars
  <2> QED
    BY <2>1, <2>2, WatermarkInvChange
<1>5. ASSUME NEW r \in Requests, RequestCommits(r) PROVE WatermarkInv'
  BY <1>5, WatermarkInvCommit
<1> QED
  BY <1>1, <1>2, <1>3, <1>4, <1>5, SystemKinds DEF Prepares, Updates, EndsUnwritten

\* With requests that change the same messages at any time, and however runs
\* overlap: every change up to the recorded watermark is in the rows, but for
\* those that overtook a full sync or a waiting commit and those that a run has
\* set back (SyncEngine!NoSilentLoss; sync_service.py, label_service.py).
THEOREM NothingIsLostBesideRequests == SystemSpec => []NoSilentLoss
<1>1. SystemInit => SystemInv /\ WatermarkInv
  BY SystemInvInit, WatermarkInvInit DEF SystemInit
<1>2. SystemInv /\ WatermarkInv /\ [SystemNext]_systemVars => (SystemInv /\ WatermarkInv)'
  BY SystemInvNext, SystemWatermarkNext
<1>3. WatermarkInv => NoSilentLoss
  BY DEF WatermarkInv
<1> QED
  BY <1>1, <1>2, <1>3, PTL DEF SystemSpec

=============================================================================
