---------------------------- MODULE LabelPromise ----------------------------
(***************************************************************************)
(* What label requests promise, whatever they consist of: Gmail is only    *)
(* changed in permitted ways, and the local rows and the audit log receive *)
(* all that one request did, as Gmail answered it, or nothing of it.       *)
(***************************************************************************)
EXTENDS Integers

CONSTANTS Messages, Labels, Requests, ProtectedLabelIds, ProtectedAddLabelIds

VARIABLES
    mail,     \* Gmail: version and labels of each message
    rows,     \* the local database's copy of them
    open,     \* open[r]: the changes request r made and has not published
    log       \* the published changes

vars == <<mail, rows, open, log>>

Init ==
    /\ open = [r \in Requests |-> {}]
    /\ log = {}

\* A change is known by the version that it gave its message.
Apply(r) ==
    \E m \in Messages, added \in SUBSET (Labels \ ProtectedAddLabelIds),
       removed \in SUBSET (Labels \ ProtectedLabelIds) :
        /\ mail'[m].ver > mail[m].ver
        /\ mail' = [mail EXCEPT ![m] =
              [ver |-> mail'[m].ver, labels |-> (mail[m].labels \cup added) \ removed]]
        /\ open' = [open EXCEPT ![r] = @ \cup
              {[message |-> m, ver |-> mail'[m].ver, labels |-> mail'[m].labels,
                add |-> added, remove |-> removed]}]
        /\ UNCHANGED <<rows, log>>

\* The owner and other clients may change anything.
Elsewhere == UNCHANGED <<rows, open, log>>

\* The rows take the last answer that the request got for each message.
Publish(r) ==
    /\ log' = log \cup open[r]
    /\ open' = [open EXCEPT ![r] = {}]
    /\ rows' = [m \in Messages |->
          LET mine == {c \in open[r] : c.message = m} IN
          IF mine = {} THEN rows[m]
          ELSE [rows[m] EXCEPT !.labels =
                  (CHOOSE c \in mine : \A d \in mine : d.ver <= c.ver).labels]]
    /\ UNCHANGED mail

Forget(rs) ==
    /\ open' = [r \in Requests |-> IF r \in rs THEN {} ELSE open[r]]
    /\ UNCHANGED <<mail, rows, log>>

Next ==
    \/ \E r \in Requests : Apply(r) \/ Publish(r)
    \/ \E rs \in SUBSET Requests : Forget(rs)
    \/ Elsewhere

Spec == Init /\ [][Next]_vars

=============================================================================
