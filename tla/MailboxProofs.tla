--------------------------- MODULE MailboxProofs ---------------------------
(* What every module over Mailbox needs to know of the mailbox's own steps. *)
EXTENDS Mailbox, TLAPS

\* A change of a message keeps the mailbox well typed.
LEMMA ChangeType ==
    ASSUME MailboxTypeOK, NEW m \in Messages, Arrive(m) \/ Relabel(m)
    PROVE  MailboxTypeOK'
<1>1. PICK ls \in SUBSET Labels : Change(m, ls)
  BY DEF MailboxTypeOK, Arrive, Relabel
<1>2. /\ mail' \in [Messages -> Copy]
      /\ historyId' \in Nat
  BY <1>1 DEF MailboxTypeOK, Change, Copy
<1>3. present' \in SUBSET Messages /\ UNCHANGED <<horizon, gmailLabels>>
  BY DEF MailboxTypeOK, Arrive, Relabel
<1>4. QED
  BY <1>2, <1>3 DEF MailboxTypeOK

\* So does a permanent deletion.
LEMMA ExpungeType ==
    ASSUME MailboxTypeOK, NEW m \in Messages, Expunge(m)
    PROVE  MailboxTypeOK'
BY DEF MailboxTypeOK, Expunge

=============================================================================
