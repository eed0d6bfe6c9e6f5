---------------------------- MODULE MessageTable ----------------------------
(***************************************************************************)
(* The messages and threads tables as the pages and the daily snapshot     *)
(* read them: the boolean columns derived from the labels, the figures     *)
(* counted over them, the thread stubs, and the lists of the pages.        *)
(*                                                                         *)
(* A table is a function on the ids that have a row.  Sender, subject and  *)
(* snippet only decide whether a search text matches: a search is given    *)
(* the messages its texts match.                                           *)
(***************************************************************************)
EXTENDS Integers, Sequences, FiniteSets, Folds

CONSTANTS
    Messages,         \* message ids
    LabelSets,        \* LabelSets[m]: the label sets Gmail may report of m
    SizeOf,           \* size_estimate of each message
    DateOf,           \* internal_date of each message
    DayLength,        \* instants of a day
    YearLength,       \* days of a year
    ThreadOf,         \* thread_id of each message
    CategoryLabels,   \* ids that begin with CATEGORY_
    WorkflowLabels,   \* ids of ZeroApp/To-Archive and ZeroApp/To-Remove, in turn
    ArchiveLimit      \* rows of one query of the archive page (200)

\* SQL leaves the order of equal dates open; here no two dates are equal.
ASSUME TableAssumption ==
    /\ IsFiniteSet(Messages)
    /\ SizeOf \in [Messages -> Nat]
    /\ DateOf \in [Messages -> Nat]
    /\ \A m, i \in Messages : DateOf[m] = DateOf[i] => m = i
    /\ DOMAIN ThreadOf = Messages
    /\ Len(WorkflowLabels) \in Nat
    /\ DayLength \in Nat \ {0}
    /\ YearLength \in Nat \ {0}
    /\ ArchiveLimit \in Nat

-----------------------------------------------------------------------------
(* The derived columns.                                                    *)

SystemLabelIds ==
    {"INBOX", "SENT", "DRAFT", "TRASH", "SPAM", "STARRED", "IMPORTANT", "UNREAD",
     "CATEGORY_PERSONAL", "CATEGORY_SOCIAL", "CATEGORY_PROMOTIONS",
     "CATEGORY_UPDATES", "CATEGORY_FORUMS"}

\* The columns that say whether one system label is there.
LabelOfFlag ==
    [is_unread |-> "UNREAD", is_inbox |-> "INBOX", is_sent |-> "SENT",
     is_starred |-> "STARRED", is_important |-> "IMPORTANT"]

FlagNames == DOMAIN LabelOfFlag \cup {"is_archived", "has_custom_label"}

HasCustomLabel(ls) == ~ ls \subseteq SystemLabelIds \cup CategoryLabels

\* The columns that make_message sets for the labels ls.
MadeFlags(ls) ==
    {f \in DOMAIN LabelOfFlag : LabelOfFlag[f] \in ls}
    \cup {f \in {"is_archived"} : ls \cap {"INBOX", "TRASH", "SPAM"} = {}}
    \cup {f \in {"has_custom_label"} : HasCustomLabel(ls)}

\* Mutant: the UPDATE leaves out is_inbox.
UpdatedFlagsKeepInbox(flags, ls) ==
    (MadeFlags(ls) \ {"is_inbox"}) \cup (flags \cap {"is_inbox"})

\* The columns after update_labels, which has conditions of its own for the
\* columns it sets.
UpdatedFlags(flags, ls) ==
    LET set == [is_unread |-> "UNREAD" \in ls,
                is_inbox |-> "INBOX" \in ls,
                is_sent |-> "SENT" \in ls,
                is_archived |-> "INBOX" \notin ls /\ "TRASH" \notin ls /\ "SPAM" \notin ls,
                is_starred |-> "STARRED" \in ls,
                is_important |-> "IMPORTANT" \in ls,
                has_custom_label |->
                    \E l \in ls : l \notin SystemLabelIds /\ l \notin CategoryLabels]
    IN  {f \in DOMAIN set : set[f]} \cup (flags \ DOMAIN set)

Flagged(rows, f) == {m \in DOMAIN rows : f \in rows[m].flags}

\* list_archive_unlabelled and its count.
ArchiveUnlabelled(rows) == Flagged(rows, "is_archived") \ Flagged(rows, "has_custom_label")

\* What count_sent_unresolved counts: the sent messages without a custom label.
SentUnresolved(rows) == Flagged(rows, "is_sent") \ Flagged(rows, "has_custom_label")

\* list_by_raw_label(l, is_archived=True) and its count.
ArchivedByRawLabel(rows, l) == {m \in Flagged(rows, "is_archived") : l \in rows[m].labels}

-----------------------------------------------------------------------------
(* The figures of the dashboard.                                           *)

SizeSum(ids) == MapThenFoldSet(LAMBDA a, b : a + b, 0, LAMBDA m : SizeOf[m],
                               LAMBDA s : CHOOSE m \in s : TRUE, ids)

\* The queries of a snapshot in the order they are made; the last two are the
\* two counts of custom_label_coverage_pct.
Queries == <<"inbox_count", "inbox_size_bytes", "archive_unlabelled_count",
             "sent_unresolved_count", "total_size_bytes", "total", "labelled">>

\* What each query answers.
Measure(rows) ==
    [inbox_count |-> Cardinality(Flagged(rows, "is_inbox")),
     inbox_size_bytes |-> SizeSum(Flagged(rows, "is_inbox")),
     archive_unlabelled_count |-> Cardinality(ArchiveUnlabelled(rows)),
     sent_unresolved_count |-> Cardinality(SentUnresolved(rows)),
     total_size_bytes |-> SizeSum(DOMAIN rows),
     total |-> Cardinality(DOMAIN rows),
     labelled |-> Cardinality(Flagged(rows, "has_custom_label"))]

\* round((labelled / total) * 100, 2), in hundredths of a percent.
Coverage(total, labelled) ==
    IF total = 0 THEN 0 ELSE (labelled * 10000 + total \div 2) \div total

Figures == [inbox_count : Nat, inbox_size_bytes : Nat, archive_unlabelled_count : Nat,
            sent_unresolved_count : Nat, total_size_bytes : Nat,
            custom_label_coverage_pct : Nat]

\* The snapshot made of the answers.
SnapshotOf(answers) ==
    [inbox_count |-> answers.inbox_count,
     inbox_size_bytes |-> answers.inbox_size_bytes,
     archive_unlabelled_count |-> answers.archive_unlabelled_count,
     sent_unresolved_count |-> answers.sent_unresolved_count,
     total_size_bytes |-> answers.total_size_bytes,
     custom_label_coverage_pct |-> Coverage(answers.total, answers.labelled)]

\* Reference: the same figures from the labels that Gmail reported.
FiguresOfLabels(rows) ==
    LET With(l) == {m \in DOMAIN rows : l \in rows[m].labels}
        custom == {m \in DOMAIN rows : \E l \in rows[m].labels : l \notin SystemLabelIds \cup CategoryLabels}
        filed == DOMAIN rows \ (With("INBOX") \cup With("TRASH") \cup With("SPAM"))
    IN  [inbox_count |-> Cardinality(With("INBOX")),
         inbox_size_bytes |-> SizeSum(With("INBOX")),
         archive_unlabelled_count |-> Cardinality(filed \ custom),
         sent_unresolved_count |-> Cardinality(With("SENT") \ custom),
         total_size_bytes |-> SizeSum(DOMAIN rows),
         custom_label_coverage_pct |-> Coverage(Cardinality(DOMAIN rows), Cardinality(custom))]

\* Mutant: the past year is closed at both ends.
AgeBucketsClosed(rows, day) ==
    LET thisYear == (day - (day % YearLength)) * DayLength
        lastYear == thisYear - YearLength * DayLength
        From(a) == {m \in DOMAIN rows : DateOf[m] >= a}
    IN  [current_year |-> From(thisYear),
         past_year |-> {m \in From(lastYear) : DateOf[m] <= thisYear},
         older |-> DOMAIN rows \ From(lastYear)]

\* The chart of ages on some day: the years begin at their first instant.
AgeBuckets(rows, day) ==
    LET thisYear == (day - (day % YearLength)) * DayLength
        lastYear == thisYear - YearLength * DayLength
        From(a) == {m \in DOMAIN rows : DateOf[m] >= a}
    IN  [current_year |-> From(thisYear),
         past_year |-> {m \in From(lastYear) : DateOf[m] < thisYear},
         older |-> DOMAIN rows \ From(lastYear)]

\* Reference: the year of a message.
YearOf(m) == (DateOf[m] \div DayLength) \div YearLength

-----------------------------------------------------------------------------
(* Thread stubs.                                                           *)

\* One stub per thread of a batch, from the newest of its messages there.
ThreadStubs(batch) ==
    [t \in {ThreadOf[m] : m \in DOMAIN batch} |->
        LET newest == CHOOSE m \in DOMAIN batch :
                         /\ ThreadOf[m] = t
                         /\ \A i \in DOMAIN batch : ThreadOf[i] = t => DateOf[i] <= DateOf[m]
        IN  [last_message_at |-> DateOf[newest],
             is_inbox |-> "is_inbox" \in batch[newest].flags,
             has_custom_label |-> "has_custom_label" \in batch[newest].flags]]

-----------------------------------------------------------------------------
(* Lists and pages.                                                        *)

\* Position of m among ids, newest first.
Rank(ids, m) == Cardinality({i \in ids : DateOf[i] > DateOf[m]})

\* LIMIT perPage OFFSET (page - 1) * perPage.
PageOf(ids, perPage, page) ==
    {m \in ids : (page - 1) * perPage <= Rank(ids, m) /\ Rank(ids, m) < page * perPage}

TotalPages(count, perPage) ==
    IF count = 0 THEN 1 ELSE (count + perPage - 1) \div perPage

\* The flags of the search form, and what _parse_bool allows a column to be:
\* no filter when the parameter is absent, one value otherwise.
FormFlags == {"is_inbox", "is_sent", "is_unread"}

ParseBool(raw) == IF raw = "absent" THEN BOOLEAN ELSE {raw \in {"1", "true", "yes"}}

\* What search, count_search and list_search select for the request q.  A day
\* stands for its first instant, also as date_to.
Matches(rows, q) ==
    {m \in DOMAIN rows \cap q.texts :
        /\ SizeOf[m] >= q.min_size_bytes
        /\ \A d \in q.date_from : DateOf[m] >= d * DayLength
        /\ \A d \in q.date_to : DateOf[m] <= d * DayLength
        /\ \A f \in FormFlags : (f \in rows[m].flags) \in ParseBool(q[f])}

\* No date, or one day on which there is a message.
Dates == {{}} \cup {{DateOf[m] \div DayLength} : m \in Messages}

\* The requests that the search form sends: a box that is not ticked is absent,
\* and a least size of 0 is none.
Forms == [texts : {Messages}, min_size_bytes : {0} \cup {SizeOf[m] : m \in Messages},
          date_from : Dates, date_to : Dates,
          is_inbox : {"absent", "1"}, is_sent : {"absent", "1"},
          is_unread : {"absent", "1"}]

\* The request of a page link on the results of q: it has no least size, and
\* sends a flag that q leaves out as an empty one.
PageLink(q) ==
    [x \in DOMAIN q |-> CASE x = "min_size_bytes" -> 0
                          [] x \in FormFlags /\ q[x] = "absent" -> ""
                          [] OTHER -> q[x]]

\* The queries of the archive page: the unlabelled messages, then those that
\* carry each of the workflow labels.
ArchiveQuery(rows, i) ==
    IF i = 0 THEN ArchiveUnlabelled(rows) ELSE ArchivedByRawLabel(rows, WorkflowLabels[i])

\* LIMIT ArchiveLimit, in an order that depends on the request or is left open.
Limited(ids) ==
    {s \in SUBSET ids : /\ Cardinality(s) <= ArchiveLimit
                        /\ s = ids \/ Cardinality(s) = ArchiveLimit}

\* What the queries may answer: lists[i] to the i-th.
ArchiveAnswers(rows) ==
    LET answers == [i \in 0..Len(WorkflowLabels) |-> Limited(ArchiveQuery(rows, i))]
    IN  {lists \in [DOMAIN answers -> UNION {answers[i] : i \in DOMAIN answers}] :
            \A i \in DOMAIN answers : lists[i] \in answers[i]}

\* Mutant: seen_ids is filled from the first query only.
AddedByIfNotUnlabelled(lists, i) == lists[i] \ (IF i = 0 THEN {} ELSE lists[0])

\* What the i-th answer adds to the page: messages that are not in it yet.
AddedBy(lists, i) == lists[i] \ UNION {lists[k] : k \in 0..(i - 1)}

\* How often the archive page lists message m.
TimesListed(lists, m) ==
    Cardinality({i \in 0..Len(WorkflowLabels) : m \in AddedBy(lists, i)})

=============================================================================
