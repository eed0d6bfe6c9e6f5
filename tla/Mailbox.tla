------------------------------- MODULE Mailbox -------------------------------
(***************************************************************************)
(* The Gmail account, as the application's clients see it.  It is the      *)
(* environment of every other module: the code under src/ only reads it    *)
(* and changes labels in it.  What MockGmailClient implements of it is     *)
(* translated from there; permanent deletion and the expiry of history     *)
(* exist in the real service only and are modelled from how SyncService    *)
(* handles them.                                                           *)
(*                                                                         *)
(* A message is known by the historyId of its last change, its "version",  *)
(* and by its labels.  Subject, sender, size and snippet never change in   *)
(* Gmail and are left out.                                                 *)
(***************************************************************************)
EXTENDS Integers, FiniteSets

CONSTANTS
    Messages,      \* message ids that can ever exist
    Labels,        \* label ids that can ever exist
    Hidden,        \* TRASH and SPAM: messages carrying them are not listed
    MaxHistory     \* bound on the number of changes Gmail records

ASSUME MailboxAssumption ==
    /\ Hidden \subseteq Labels
    /\ MaxHistory \in Nat

VARIABLES
    mail,          \* mail[m]: version and labels of message m
    present,       \* messages that exist now
    historyId,     \* the mailbox's current historyId
    horizon,       \* oldest historyId that history.list still accepts
    gmailLabels    \* labels.list

mailboxVars == <<mail, present, historyId, horizon, gmailLabels>>

\* What messages.get returns of a message, and what the local row keeps of it.
Copy == [ver : Nat, labels : SUBSET Labels]

\* Version 0 belongs to no change: a message that does not exist, a missing row.
NoCopy == [ver |-> 0, labels |-> {}]

MailboxTypeOK ==
    /\ mail \in [Messages -> Copy]
    /\ present \in SUBSET Messages
    /\ historyId \in Nat
    /\ horizon \in Nat
    /\ gmailLabels \in SUBSET Labels

\* An account with any set of old messages; the system labels always exist.
MailboxInit ==
    /\ present \in SUBSET Messages
    /\ mail = [m \in Messages |->
                 IF m \in present THEN [ver |-> 1, labels |-> {}] ELSE NoCopy]
    /\ historyId = 1
    /\ horizon = 1
    /\ gmailLabels = Hidden

-----------------------------------------------------------------------------
\* What the read calls answer.

\* messages.list without include_spam_trash.
Visible == {m \in present : mail[m].labels \cap Hidden = {}}

\* Mutant: the newest event of the range is left out.
ChangedBeforeUpto(after, upto) ==
    {m \in Messages : after < mail[m].ver /\ mail[m].ver < upto}

\* Messages named by the messageAdded, labelAdded and labelRemoved events with
\* an id in (after, upto].  Deletion does not erase the events of a message.
ChangedBetween(after, upto) ==
    {m \in Messages : after < mail[m].ver /\ mail[m].ver <= upto}

-----------------------------------------------------------------------------
\* What the owner of the account, other mail clients and Gmail itself do.

\* Every recorded change takes the next historyId.
Change(m, newLabels) ==
    /\ historyId < MaxHistory
    /\ historyId' = historyId + 1
    /\ mail' = [mail EXCEPT ![m] = [ver |-> historyId + 1, labels |-> newLabels]]

Arrive(m) ==
    /\ mail[m] = NoCopy
    /\ \E ls \in SUBSET gmailLabels : Change(m, ls)
    /\ present' = present \cup {m}
    /\ UNCHANGED <<horizon, gmailLabels>>

Relabel(m) ==
    /\ m \in present
    /\ \E ls \in SUBSET gmailLabels : ls # mail[m].labels /\ Change(m, ls)
    /\ UNCHANGED <<present, horizon, gmailLabels>>

\* Permanent deletion: a messageDeleted event, which the application never
\* asks for, so only the historyId moves.
Expunge(m) ==
    /\ m \in present
    /\ historyId < MaxHistory
    /\ historyId' = historyId + 1
    /\ present' = present \ {m}
    /\ UNCHANGED <<mail, horizon, gmailLabels>>

\* labels.create, by the owner or by the application.
CreateLabel(l) ==
    /\ l \notin gmailLabels
    /\ gmailLabels' = gmailLabels \cup {l}
    /\ UNCHANGED <<mail, present, historyId, horizon>>

\* Gmail keeps about a week of history: older start ids are refused.
ForgetHistory ==
    /\ \E h \in (horizon + 1)..historyId : horizon' = h
    /\ UNCHANGED <<mail, present, historyId, gmailLabels>>

=============================================================================
