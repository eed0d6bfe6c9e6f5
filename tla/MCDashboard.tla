---------------------------- MODULE MCDashboard -----------------------------
(* Small instances of Dashboard for TLC. *)
EXTENDS Dashboard

\* Two messages of one thread, the second one newer and larger, at the first
\* instant of a year.
MCSizeOf == [m \in Messages |-> IF m = "m1" THEN 1 ELSE 3]
MCDateOf == [m \in Messages |-> IF m = "m1" THEN 3 ELSE 4]
MCThreadOf == [m \in Messages |-> "t1"]
MCWorkflowLabels == <<"To-Archive", "To-Remove">>

\* A message to oneself, in the inbox, or filed and waiting for both steps of
\* the workflow; and a received one, archived without a label of the owner,
\* waiting for one step, or labelled and in trash.
MCLabelSets ==
    [m \in Messages |->
        IF m = "m1" THEN {{"SENT", "INBOX", "UNREAD"}, {"SENT", "To-Archive", "To-Remove"}}
        ELSE {{"CATEGORY_PURCHASES"}, {"To-Archive"}, {"TRASH", "Work"}}]

\* A new database, and one with both messages.
MCOldMail ==
    {<<>>, [m \in Messages |->
              IF m = "m1" THEN {"SENT", "To-Archive", "To-Remove"} ELSE {"CATEGORY_PURCHASES"}]}

=============================================================================
