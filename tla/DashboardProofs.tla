--------------------------- MODULE DashboardProofs ---------------------------
(***************************************************************************)
(* Proofs about Dashboard, for any messages, labels, sizes and dates, any  *)
(* callers and any bounds: the threads of the messages, the seeded         *)
(* history of a demo, the figures of an undisturbed snapshot, the types,   *)
(* and the lists of the pages.                                             *)
(***************************************************************************)
EXTENDS Dashboard, FiniteSetTheorems, WellFoundedInduction, TLAPS

LEMMA NoRows == DOMAIN <<>> = {}
  OBVIOUS

-----------------------------------------------------------------------------
(* Threads and messages.                                                   *)

\* Every batch, or half of one, comes with the threads of its messages.
LEMMA StubsCover == ASSUME NEW batch
                    PROVE  DOMAIN ThreadStubs(batch) = {ThreadOf[m] : m \in DOMAIN batch}
  BY DEF ThreadStubs

LEMMA ThreadsStep == EveryRowHasItsThread /\ [Next]_vars => EveryRowHasItsThread'
<1> SUFFICES ASSUME EveryRowHasItsThread, [Next]_vars PROVE EveryRowHasItsThread'
  OBVIOUS
<1>1. ASSUME UNCHANGED <<rows, threads>> PROVE EveryRowHasItsThread'
  BY <1>1 DEF EveryRowHasItsThread
<1>2. ASSUME NEW j \in Jobs, StoreBatch(j) PROVE EveryRowHasItsThread'
  <2>1. PICK batch \in Batches : /\ threads' = Upserted(ThreadStubs(batch), threads)
                                 /\ rows' = Upserted(batch, rows)
    BY <1>2 DEF StoreBatch
  <2> QED
    BY <2>1, StubsCover DEF EveryRowHasItsThread, Upserted
<1>3. CASE HalfBatchCommitted
  <2>1. PICK batch \in Batches :
            \E ts \in SUBSET DOMAIN ThreadStubs(batch), ids \in SUBSET DOMAIN batch :
                /\ ids # {} => ts = DOMAIN ThreadStubs(batch)
                /\ threads' = Upserted(Only(ThreadStubs(batch), ts), threads)
                /\ rows' = Upserted(Only(batch, ids), rows)
    BY <1>3 DEF HalfBatchCommitted
  <2>2. PICK ts \in SUBSET DOMAIN ThreadStubs(batch), ids \in SUBSET DOMAIN batch :
            /\ ids # {} => ts = DOMAIN ThreadStubs(batch)
            /\ threads' = Upserted(Only(ThreadStubs(batch), ts), threads)
            /\ rows' = Upserted(Only(batch, ids), rows)
    BY <2>1
  <2>3. DOMAIN rows' = ids \cup DOMAIN rows /\ DOMAIN threads' = ts \cup DOMAIN threads
    BY <2>2 DEF Upserted, Only
  <2> QED
    BY ZenonT(60), <2>2, <2>3, StubsCover DEF EveryRowHasItsThread
<1>4. ASSUME NEW m \in Messages, LabelOperation(m) PROVE EveryRowHasItsThread'
  BY <1>4 DEF LabelOperation, EveryRowHasItsThread
<1> QED
  BY <1>1, <1>2, <1>3, <1>4
     DEF Next, Advance, StartApp, SkipSeeding, ClearSnapshots, SeedSnapshots, NextDay, BeginSync,
         SaveState, Count, WriteSnapshot, StepFails, Crash, vars, dbVars

\* No commit of a sync, whole or half, leaves a message without its thread.
THEOREM MessagesHaveThreads == Spec => []EveryRowHasItsThread
<1>1. Init => EveryRowHasItsThread
  BY StubsCover DEF Init, EveryRowHasItsThread
<1>2. EveryRowHasItsThread /\ [Next]_vars => EveryRowHasItsThread'
  BY ThreadsStep
<1> QED
  BY <1>1, <1>2, PTL DEF Spec

-----------------------------------------------------------------------------
(* Seeding.                                                                *)

\* The snapshots are finitely many, so a row more never makes them fewer.
SeedInv == /\ today \in Int
           /\ IsFiniteSet(DOMAIN snapshots)
           /\ SeededWhenServing

LEMMA DemoDays ==
    ASSUME NEW date \in Int, NEW n \in Nat
    PROVE  /\ IsFiniteSet(DOMAIN DemoSnapshots(date, n))
           /\ Cardinality(DOMAIN DemoSnapshots(date, n)) = n
<1>1. DOMAIN DemoSnapshots(date, n) = (date - n)..(date - 1)
  BY DEF DemoSnapshots
<1> QED
  BY <1>1, FS_Interval

LEMMA SeedStep == SeedInv /\ [Next]_vars => SeedInv'
<1> SUFFICES ASSUME SeedInv, [Next]_vars PROVE SeedInv'
  OBVIOUS
<1>1. ASSUME today' \in Int, UNCHANGED snapshots, phase' = "up" => phase = "up" PROVE SeedInv'
  BY <1>1 DEF SeedInv, SeededWhenServing
<1>2. CASE StartApp
  BY <1>2 DEF StartApp, dbVars, SeedInv, SeededWhenServing
<1>3. CASE SkipSeeding
  BY <1>3 DEF SkipSeeding, dbVars, SeedInv, SeededWhenServing
<1>4. CASE ClearSnapshots
  <2>1. DOMAIN snapshots' = {} /\ phase' = "fill"
    BY <1>4, NoRows DEF ClearSnapshots
  <2> QED
    BY <1>4, <2>1, FS_EmptySet DEF ClearSnapshots, SeedInv, SeededWhenServing
<1>5. CASE SeedSnapshots
  <2>1. SeedDays \in Nat
    BY DashboardAssumption
  <2> QED
    BY <1>5, <2>1, DemoDays DEF SeedSnapshots, SeedInv, SeededWhenServing
<1>6. ASSUME NEW j \in Jobs, WriteSnapshot(j) PROVE SeedInv'
  <2>1. DOMAIN snapshots' = DOMAIN snapshots \cup {run[j].date}
    BY <1>6 DEF WriteSnapshot, Upsert, Upserted, Row
  <2>2. /\ IsFiniteSet(DOMAIN snapshots')
        /\ Cardinality(DOMAIN snapshots) \in Nat
        /\ Cardinality(DOMAIN snapshots') >= Cardinality(DOMAIN snapshots)
    <3>1. IsFiniteSet(DOMAIN snapshots) /\ Cardinality(DOMAIN snapshots) \in Nat
      BY FS_CardinalityType DEF SeedInv
    <3> QED
      BY <2>1, <3>1, FS_AddElement
  <2>3. Cardinality(DOMAIN snapshots') \in Nat
    BY <2>2, FS_CardinalityType
  <2> QED
    BY <1>6, <2>2, <2>3, DashboardAssumption
       DEF WriteSnapshot, SeedInv, SeededWhenServing, DashboardAssumption
<1>7. CASE NextDay
  BY <1>1, <1>7 DEF NextDay, dbVars, SeedInv
<1> QED
  BY <1>1, <1>2, <1>3, <1>4, <1>5, <1>6, <1>7
     DEF Next, Advance, BeginSync, StoreBatch, SaveState, Count, StepFails, Crash,
         HalfBatchCommitted, LabelOperation, vars, dbVars, SeedInv

\* A demo that serves has its history, from whatever incomplete one and however
\* often it was started.
THEOREM DemoHasHistory == Spec => []SeededWhenServing
<1>1. Init => SeedInv
  <2> SUFFICES ASSUME Init PROVE SeedInv
    OBVIOUS
  <2>1. today \in Int /\ phase = "down"
    BY DashboardAssumption DEF Init, DashboardAssumption
  <2>2. PICK n \in OldDays : snapshots = DemoSnapshots(today, n)
    BY DEF Init
  <2>3. n \in Nat
    BY DashboardAssumption DEF DashboardAssumption
  <2> QED
    BY <2>1, <2>2, <2>3, DemoDays DEF SeedInv, SeededWhenServing
<1>2. SeedInv /\ [Next]_vars => SeedInv'
  BY SeedStep
<1>3. SeedInv => SeededWhenServing
  BY DEF SeedInv
<1> QED
  BY <1>1, <1>2, <1>3, PTL DEF Spec

-----------------------------------------------------------------------------
(* The figures of a snapshot.  Both writers keep the boolean columns equal *)
(* to what the labels say, so the queries count what the labels give.      *)

RowsDerived == \A m \in DOMAIN rows : rows[m].flags = MadeFlags(rows[m].labels)

LEMMA FlagMeanings ==
    ASSUME NEW ls
    PROVE  /\ "is_inbox" \in MadeFlags(ls) <=> "INBOX" \in ls
           /\ "is_sent" \in MadeFlags(ls) <=> "SENT" \in ls
           /\ "is_archived" \in MadeFlags(ls) <=> ls \cap {"INBOX", "TRASH", "SPAM"} = {}
           /\ "has_custom_label" \in MadeFlags(ls) <=> ~ ls \subseteq SystemLabelIds \cup CategoryLabels
<1>1. /\ DOMAIN LabelOfFlag = {"is_unread", "is_inbox", "is_sent", "is_starred", "is_important"}
      /\ LabelOfFlag["is_inbox"] = "INBOX" /\ LabelOfFlag["is_sent"] = "SENT"
  BY DEF LabelOfFlag
<1> QED
  BY <1>1 DEF MadeFlags, HasCustomLabel

LEMMA FlagsTyped == ASSUME NEW ls PROVE MadeFlags(ls) \subseteq FlagNames
  BY DEF MadeFlags, FlagNames

\* The conditions of update_labels are those of make_message.
LEMMA UpdatedAsMade ==
    ASSUME NEW flags \in SUBSET FlagNames, NEW ls
    PROVE  UpdatedFlags(flags, ls) = MadeFlags(ls)
<1>1. DOMAIN LabelOfFlag = {"is_unread", "is_inbox", "is_sent", "is_starred", "is_important"}
  BY DEF LabelOfFlag
<1>2. /\ LabelOfFlag["is_unread"] = "UNREAD" /\ LabelOfFlag["is_inbox"] = "INBOX"
      /\ LabelOfFlag["is_sent"] = "SENT" /\ LabelOfFlag["is_starred"] = "STARRED"
      /\ LabelOfFlag["is_important"] = "IMPORTANT"
  BY DEF LabelOfFlag
<1>3. flags \subseteq {"is_unread", "is_inbox", "is_sent", "is_starred", "is_important",
                      "is_archived", "has_custom_label"}
  BY <1>1 DEF FlagNames
<1> DEFINE set == [is_unread |-> "UNREAD" \in ls,
                   is_inbox |-> "INBOX" \in ls,
                   is_sent |-> "SENT" \in ls,
                   is_archived |-> "INBOX" \notin ls /\ "TRASH" \notin ls /\ "SPAM" \notin ls,
                   is_starred |-> "STARRED" \in ls,
                   is_important |-> "IMPORTANT" \in ls,
                   has_custom_label |->
                       \E l \in ls : l \notin SystemLabelIds /\ l \notin CategoryLabels]
           columns == {"is_unread", "is_inbox", "is_sent", "is_starred", "is_important",
                       "is_archived", "has_custom_label"}
<1>4. DOMAIN set = columns
  OBVIOUS
<1>5. UpdatedFlags(flags, ls) = {f \in columns : set[f]}
  BY <1>3, <1>4 DEF UpdatedFlags
<1>6. MadeFlags(ls) \subseteq columns
  BY <1>1 DEF MadeFlags
<1>7. ASSUME NEW f \in columns PROVE set[f] <=> f \in MadeFlags(ls)
  <2>1. CASE f = "has_custom_label"
    BY <2>1, <1>1 DEF MadeFlags, HasCustomLabel
  <2>2. CASE f = "is_archived"
    BY <2>2, <1>1 DEF MadeFlags
  <2>3. CASE f = "is_unread"
    BY <2>3, <1>1, <1>2 DEF MadeFlags
  <2>4. CASE f = "is_inbox"
    BY <2>4, <1>1, <1>2 DEF MadeFlags
  <2>5. CASE f = "is_sent"
    BY <2>5, <1>1, <1>2 DEF MadeFlags
  <2>6. CASE f = "is_starred"
    BY <2>6, <1>1, <1>2 DEF MadeFlags
  <2>7. CASE f = "is_important"
    BY <2>7, <1>1, <1>2 DEF MadeFlags
  <2> QED
    BY <2>1, <2>2, <2>3, <2>4, <2>5, <2>6, <2>7
<1> HIDE DEF set, columns
<1> QED
  BY <1>5, <1>6, <1>7

\* The snapshot made of the answers to all queries, asked of one table.
LEMMA AnswersGiveFigures ==
    ASSUME RowsDerived, NEW answers,
           \A i \in 1..Len(Queries) : answers[Queries[i]] = Measure(rows)[Queries[i]]
    PROVE  SnapshotOf(answers) = FiguresOfLabels(rows)
<1> DEFINE With(l) == {m \in DOMAIN rows : l \in rows[m].labels}
           custom == {m \in DOMAIN rows : \E l \in rows[m].labels : l \notin SystemLabelIds \cup CategoryLabels}
           filed == DOMAIN rows \ (With("INBOX") \cup With("TRASH") \cup With("SPAM"))
<1>1. Flagged(rows, "is_inbox") = With("INBOX")
  BY FlagMeanings DEF RowsDerived, Flagged
<1>2. Flagged(rows, "has_custom_label") = custom
  BY FlagMeanings DEF RowsDerived, Flagged
<1>3. ArchiveUnlabelled(rows) = filed \ custom
  <2>1. Flagged(rows, "is_archived") = filed
    BY FlagMeanings DEF RowsDerived, Flagged
  <2> QED
    BY <1>2, <2>1 DEF ArchiveUnlabelled
<1>4. SentUnresolved(rows) = With("SENT") \ custom
  <2>1. Flagged(rows, "is_sent") = With("SENT")
    BY FlagMeanings DEF RowsDerived, Flagged
  <2> QED
    BY <1>2, <2>1 DEF SentUnresolved
<1>5. \A q \in {"inbox_count", "inbox_size_bytes", "archive_unlabelled_count",
                "sent_unresolved_count", "total_size_bytes", "total", "labelled"} :
          answers[q] = Measure(rows)[q]
  BY DEF Queries
<1>6. /\ answers.inbox_count = Cardinality(With("INBOX"))
      /\ answers.inbox_size_bytes = SizeSum(With("INBOX"))
      /\ answers.archive_unlabelled_count = Cardinality(filed \ custom)
      /\ answers.sent_unresolved_count = Cardinality(With("SENT") \ custom)
      /\ answers.total_size_bytes = SizeSum(DOMAIN rows)
      /\ answers.total = Cardinality(DOMAIN rows)
      /\ answers.labelled = Cardinality(custom)
  BY <1>1, <1>2, <1>3, <1>4, <1>5 DEF Measure
<1> QED
  BY <1>6 DEF SnapshotOf, FiguresOfLabels

-----------------------------------------------------------------------------
(* The answers of a run: the queries so far, each with the figure of the   *)
(* table as it is, unless another commit has disturbed it.                 *)

Asked(n) == {Queries[i] : i \in 1..n}

LEMMA AskedCount ==
    \A n \in 0..Len(Queries) : IsFiniteSet(Asked(n)) /\ Cardinality(Asked(n)) = n
<1> DEFINE Counted(n) == IsFiniteSet(Asked(n)) /\ Cardinality(Asked(n)) = n
<1>1. Len(Queries) = 7
  BY DEF Queries
<1>2. Counted(0)
  BY FS_EmptySet DEF Asked
<1>3. ASSUME NEW n \in 0..6, Counted(n) PROVE Counted(n + 1)
  <2>1. Asked(n + 1) = Asked(n) \cup {Queries[n + 1]}
    BY DEF Asked
  <2>2. Queries[n + 1] \notin Asked(n)
    BY DEF Asked, Queries
  <2>3. IsFiniteSet(Asked(n) \cup {Queries[n + 1]})
        /\ Cardinality(Asked(n) \cup {Queries[n + 1]}) = Cardinality(Asked(n)) + 1
    BY <1>3, <2>2, FS_AddElement
  <2> QED
    BY <1>3, <2>1, <2>3
<1> HIDE DEF Counted
<1>4. Counted(0) /\ Counted(1) /\ Counted(2) /\ Counted(3)
  BY <1>2, <1>3
<1>5. Counted(4) /\ Counted(5) /\ Counted(6) /\ Counted(7)
  BY <1>3, <1>4
<1>6. \A n \in 0..7 : Counted(n)
  BY <1>4, <1>5
<1> QED
  BY <1>1, <1>6 DEF Counted

RunOk(r) ==
    /\ DOMAIN r = {"pc", "date", "answers", "disturbed"}
    /\ \E n \in 0..Len(Queries) : DOMAIN r.answers = Asked(n)

\* What r has counted is what the table says.
Fresh(r) ==
    r.pc = "count" /\ ~r.disturbed =>
        \A q \in DOMAIN r.answers : r.answers[q] = Measure(rows)[q]

CountInv == /\ RowsDerived
            /\ DOMAIN run = Jobs
            /\ \A j \in Jobs : RunOk(run[j]) /\ Fresh(run[j])

LEMMA IdleRunOk ==
    /\ RunOk(IdleRun) /\ IdleRun.pc = "idle" /\ IdleRun.answers = <<>>
    /\ DOMAIN IdleRun = {"pc", "date", "answers", "disturbed"}
<1>1. DOMAIN IdleRun.answers = Asked(0)
  BY NoRows DEF IdleRun, Asked
<1> QED
  BY <1>1 DEF IdleRun, RunOk, Queries

LEMMA CountInit == Init => CountInv
<1> SUFFICES ASSUME Init PROVE CountInv
  OBVIOUS
<1>1. RowsDerived
  BY DEF Init, RowsDerived, Made, RowOf
<1>2. DOMAIN run = Jobs /\ \A j \in Jobs : run[j] = IdleRun
  BY DEF Init
<1> QED
  BY <1>1, <1>2, IdleRunOk DEF CountInv, Fresh

\* A run that no change of the table can mislead: it has counted nothing yet,
\* or knows that it is disturbed.
Harmless(r) == r.pc = "count" => r.disturbed \/ r.answers = <<>>

\* A commit that changes the table disturbs every run that has counted.
LEMMA DisturbOk ==
    ASSUME CountInv
    PROVE  /\ DOMAIN Disturb(run) = Jobs
           /\ \A j \in Jobs : RunOk(Disturb(run)[j]) /\ Harmless(Disturb(run)[j])
<1> DEFINE d(j) == Disturb(run)[j]
<1>1. DOMAIN Disturb(run) = Jobs
  BY DEF Disturb
<1>2. ASSUME NEW j \in Jobs
      PROVE  /\ DOMAIN d(j) = DOMAIN run[j] /\ d(j).answers = run[j].answers
             /\ Harmless(d(j))
  <2>1. DOMAIN run[j] = {"pc", "date", "answers", "disturbed"}
    BY DEF CountInv, RunOk
  <2> QED
    BY <2>1 DEF Disturb, Harmless
<1> QED
  BY <1>1, <1>2 DEF CountInv, RunOk

\* A run that is set to another value of the right form.
LEMMA RunSet ==
    ASSUME CountInv, NEW j \in Jobs, NEW r, run' = [run EXCEPT ![j] = r], RunOk(r), Fresh(r),
           UNCHANGED rows
    PROVE  CountInv'
<1>1. DOMAIN run' = Jobs /\ run'[j] = r /\ \A i \in Jobs \ {j} : run'[i] = run[i]
  BY DEF CountInv
<1>2. RowsDerived'
  BY DEF CountInv, RowsDerived
<1> QED
  BY <1>1, <1>2 DEF CountInv, RunOk, Fresh

LEMMA CountStep == CountInv /\ [Next]_vars => CountInv'
<1> SUFFICES ASSUME CountInv, [Next]_vars PROVE CountInv'
  OBVIOUS
<1>1. ASSUME UNCHANGED <<rows, run>> PROVE CountInv'
  BY <1>1 DEF CountInv, RowsDerived, RunOk, Fresh
<1>2. ASSUME NEW j \in Jobs, run' = [run EXCEPT ![j] = IdleRun], UNCHANGED rows PROVE CountInv'
  BY <1>2, IdleRunOk, RunSet DEF Fresh
<1>3. ASSUME run' = Disturb(run), RowsDerived' PROVE CountInv'
  BY <1>3, DisturbOk, NoRows DEF CountInv, RunOk, Harmless, Fresh
<1>4. ASSUME NEW j \in Jobs, StoreBatch(j) PROVE CountInv'
  <2>1. PICK batch \in Batches : rows' = Upserted(batch, rows)
    BY <1>4 DEF StoreBatch
  <2>2. \A m \in DOMAIN batch : batch[m].flags = MadeFlags(batch[m].labels)
    BY DEF Batches, Made, RowOf
  <2>3. RowsDerived'
    BY <2>1, <2>2 DEF CountInv, RowsDerived, Upserted
  <2> QED
    BY <1>3, <1>4, <2>3 DEF StoreBatch
<1>5. CASE HalfBatchCommitted
  <2>1. PICK batch \in Batches :
            \E ids \in SUBSET DOMAIN batch : rows' = Upserted(Only(batch, ids), rows)
    BY <1>5 DEF HalfBatchCommitted
  <2>2. \A m \in DOMAIN batch : batch[m].flags = MadeFlags(batch[m].labels)
    BY DEF Batches, Made, RowOf
  <2>3. RowsDerived'
    BY <2>1, <2>2 DEF CountInv, RowsDerived, Upserted, Only
  <2>4. run' = [Disturb(run) EXCEPT !["manual"] = IdleRun] /\ "manual" \in Jobs
    BY <1>5 DEF HalfBatchCommitted
  <2>5. /\ DOMAIN run' = Jobs /\ run'["manual"] = IdleRun
        /\ \A j \in Jobs \ {"manual"} : run'[j] = Disturb(run)[j]
    BY <2>4, DisturbOk
  <2>6. \A j \in Jobs : RunOk(run'[j]) /\ Harmless(run'[j])
    <3>1. RunOk(IdleRun) /\ Harmless(IdleRun)
      BY IdleRunOk DEF Harmless
    <3> QED
      BY <2>5, <3>1, DisturbOk
  <2> QED
    BY <2>3, <2>5, <2>6, NoRows DEF CountInv, RunOk, Harmless, Fresh
<1>6. ASSUME NEW m \in Messages, LabelOperation(m) PROVE CountInv'
  <2>1. PICK ls \in LabelSets[m] :
            rows' = [rows EXCEPT ![m] =
                       [labels |-> ls, flags |-> UpdatedFlags(rows[m].flags, ls)]]
    BY <1>6 DEF LabelOperation
  <2>2. UpdatedFlags(rows[m].flags, ls) = MadeFlags(ls)
    <3>1. rows[m].flags \subseteq FlagNames
      BY <1>6, FlagsTyped DEF LabelOperation, CountInv, RowsDerived
    <3> QED
      BY <3>1, UpdatedAsMade
  <2>3. RowsDerived'
    BY <2>1, <2>2 DEF CountInv, RowsDerived
  <2> QED
    BY <1>3, <1>6, <2>3 DEF LabelOperation
<1>7. ASSUME NEW j \in Jobs, BeginSync(j) PROVE CountInv'
  <2> DEFINE r == [IdleRun EXCEPT !.pc = "store"]
  <2>1. DOMAIN r = DOMAIN IdleRun /\ r.pc = "store" /\ r.answers = IdleRun.answers
    BY IdleRunOk
  <2>2. RunOk(r) /\ Fresh(r)
    BY <2>1, IdleRunOk DEF RunOk, Fresh
  <2> QED
    BY <1>7, <2>2, RunSet DEF BeginSync, dbVars
<1>8. ASSUME NEW j \in Jobs, SaveState(j) PROVE CountInv'
  <2> DEFINE r == [IdleRun EXCEPT !.pc = "count", !.date = today]
  <2>1. DOMAIN r = DOMAIN IdleRun /\ r.answers = <<>>
    BY IdleRunOk
  <2>2. RunOk(r) /\ Fresh(r)
    BY <2>1, IdleRunOk, NoRows DEF RunOk, Fresh
  <2> QED
    BY <1>8, <2>2, RunSet DEF SaveState, dbVars
<1>9. ASSUME NEW j \in Jobs, Count(j) PROVE CountInv'
  <2> DEFINE k == Cardinality(DOMAIN run[j].answers) + 1
             q == Queries[k]
             answers == Upserted(Row(q, Measure(rows)[q]), run[j].answers)
             r == [run[j] EXCEPT !.answers = answers]
  <2>1. run[j].pc = "count" /\ k <= Len(Queries) /\ run' = [run EXCEPT ![j] = r]
    BY <1>9 DEF Count
  <2>2. PICK n \in 0..Len(Queries) : DOMAIN run[j].answers = Asked(n)
    BY DEF CountInv, RunOk
  <2>3. k = n + 1 /\ n \in 0..(Len(Queries) - 1)
    BY <2>1, <2>2, AskedCount DEF Queries
  <2>4. DOMAIN answers = Asked(n + 1)
    <3>1. DOMAIN answers = {Queries[n + 1]} \cup Asked(n)
      BY <2>2, <2>3 DEF Upserted, Row
    <3>2. Asked(n + 1) = {Queries[n + 1]} \cup Asked(n)
      BY <2>3 DEF Asked, Queries
    <3> QED
      BY <3>1, <3>2
  <2>5. DOMAIN r = DOMAIN run[j] /\ r.answers = answers /\ r.pc = run[j].pc
        /\ r.disturbed = run[j].disturbed
    BY DEF CountInv, RunOk
  <2>6. RunOk(r)
    BY <2>3, <2>4, <2>5 DEF CountInv, RunOk, Queries
  <2>7. Fresh(r)
    BY <2>5 DEF CountInv, Fresh, Upserted, Row
  <2> QED
    BY <1>9, <2>1, <2>6, <2>7, RunSet DEF Count, dbVars
<1>10. ASSUME NEW j \in Jobs, WriteSnapshot(j) \/ StepFails(j) PROVE CountInv'
  BY <1>2, <1>10 DEF WriteSnapshot, StepFails, dbVars
<1>11. CASE Crash
  <2>1. DOMAIN run' = Jobs /\ \A j \in Jobs : run'[j] = IdleRun
    BY <1>11 DEF Crash
  <2> QED
    BY <1>11, <2>1, IdleRunOk DEF Crash, dbVars, CountInv, RowsDerived, RunOk, Fresh
<1> QED
  BY <1>1, <1>4, <1>5, <1>6, <1>7, <1>8, <1>9, <1>10, <1>11
     DEF Next, Advance, StartApp, SkipSeeding, ClearSnapshots, SeedSnapshots, NextDay, vars, dbVars

\* The steps that change the snapshots and a run are the writings of that run.
LEMMA WriterOf ==
    ASSUME [Next]_vars, DOMAIN run = Jobs, NEW j \in Jobs,
           snapshots' # snapshots, run'[j] # run[j]
    PROVE  WriteSnapshot(j)
<1>1. ASSUME NEW i \in Jobs, i # j, WriteSnapshot(i) PROVE FALSE
  BY <1>1 DEF WriteSnapshot
<1> QED
  BY <1>1 DEF Next, Advance, StartApp, SkipSeeding, ClearSnapshots, SeedSnapshots, NextDay,
              BeginSync, StoreBatch, SaveState, Count, StepFails, HalfBatchCommitted,
              LabelOperation, Crash, vars, dbVars

\* The snapshot that an undisturbed run writes has the figures that the labels
\* of all messages give: no query misses a message, and the copy of the column
\* conditions in update_labels agrees with that of make_message.
THEOREM UndisturbedSnapshotExact == Spec => SnapshotIsExact
<1>1. CountInv /\ [Next]_vars => CountInv'
  BY CountStep
<1>2. CountInv /\ [Next]_vars =>
        [\A j \in Jobs :
            (run[j].pc = "count" /\ ~run[j].disturbed /\ snapshots' # snapshots /\ run'[j] # run[j])
                => snapshots'[run[j].date] = FiguresOfLabels(rows)]_vars
  <2> SUFFICES ASSUME CountInv, [Next]_vars, NEW j \in Jobs,
                      run[j].pc = "count", ~run[j].disturbed,
                      snapshots' # snapshots, run'[j] # run[j]
               PROVE  snapshots'[run[j].date] = FiguresOfLabels(rows)
    OBVIOUS
  <2>1. WriteSnapshot(j)
    BY WriterOf DEF CountInv
  <2>2. PICK n \in 0..Len(Queries) : DOMAIN run[j].answers = Asked(n)
    BY DEF CountInv, RunOk
  <2>3. n = Len(Queries)
    BY <2>1, <2>2, AskedCount DEF WriteSnapshot
  <2>4. \A i \in 1..Len(Queries) : run[j].answers[Queries[i]] = Measure(rows)[Queries[i]]
    BY <2>2, <2>3 DEF CountInv, Fresh, Asked
  <2>5. SnapshotOf(run[j].answers) = FiguresOfLabels(rows)
    BY <2>4, AnswersGiveFigures DEF CountInv
  <2>6. snapshots'[run[j].date] = SnapshotOf(run[j].answers)
    BY <2>1 DEF WriteSnapshot, Upsert, Upserted, Row
  <2> QED
    BY <2>5, <2>6
<1> QED
  BY <1>1, <1>2, CountInit, PTL DEF Spec, SnapshotIsExact

-----------------------------------------------------------------------------
(* Sums of sizes.  A fold is a recursive function on sets: it has a value  *)
(* for every finite set, because no set is the smallest without one.       *)

LEMMA SmallestSet ==
    ASSUME NEW S, IsFiniteSet(S), NEW F, F \subseteq SUBSET S, F # {}
    PROVE  \E s \in F : \A t \in F : t \subseteq s => t = s
<1>1. IsWellFoundedOn(StrictSubsetOrdering(S), SUBSET S)
  BY FS_StrictSubsetOrderingWellFounded, FS_FiniteSubsetsOfFinite, Zenon
<1>2. \E s \in F : \A t \in F : ~ (<<t, s>> \in StrictSubsetOrdering(S))
  BY <1>1, WFMin, Zenon
<1>3. \A s, t \in F : t \subseteq s /\ t # s => <<t, s>> \in StrictSubsetOrdering(S)
  BY DEF StrictSubsetOrdering
<1> QED
  BY <1>2, <1>3

First(s) == CHOOSE m \in s : TRUE
Rest(s) == s \ {First(s)}

LEMMA RestIsLess == ASSUME NEW s, s # {} PROVE First(s) \in s /\ Rest(s) \subseteq s /\ Rest(s) # s
  BY DEF First, Rest

\* g has the sums of the subsets of ids.
Sums(g, ids) == g = [s \in SUBSET ids |-> IF s = {} THEN 0 ELSE SizeOf[First(s)] + g[Rest(s)]]

LEMMA SizeSumIs == ASSUME NEW ids PROVE SizeSum(ids) = (CHOOSE g : Sums(g, ids))[ids]
  BY DEF SizeSum, MapThenFoldSet, Sums, First, Rest

LEMMA SumOf ==
    ASSUME NEW g, NEW ids, Sums(g, ids), NEW s \in SUBSET ids
    PROVE  g[s] = IF s = {} THEN 0 ELSE SizeOf[First(s)] + g[Rest(s)]
  BY DEF Sums

LEMMA SumsAgree ==
    ASSUME NEW S, IsFiniteSet(S), NEW U, S \subseteq U, NEW g, Sums(g, U), NEW h, Sums(h, S)
    PROVE  g[S] = h[S]
<1> SUFFICES ASSUME g[S] # h[S] PROVE FALSE
  OBVIOUS
<1> DEFINE differ == {s \in SUBSET S : g[s] # h[s]}
<1>1. PICK s \in differ : \A t \in differ : t \subseteq s => t = s
  <2>1. differ \subseteq SUBSET S /\ differ # {}
    OBVIOUS
  <2> HIDE DEF differ
  <2> QED
    BY <2>1, SmallestSet
<1>2. /\ g[s] = IF s = {} THEN 0 ELSE SizeOf[First(s)] + g[Rest(s)]
      /\ h[s] = IF s = {} THEN 0 ELSE SizeOf[First(s)] + h[Rest(s)]
  BY SumOf
<1>3. s # {}
  BY <1>2
<1>4. Rest(s) \in SUBSET S /\ Rest(s) \notin differ
  BY <1>1, <1>3, RestIsLess
<1> QED
  BY <1>2, <1>4

LEMMA SumsExist == ASSUME NEW S, IsFiniteSet(S) PROVE \E g : Sums(g, S)
<1> SUFFICES ASSUME ~ \E g : Sums(g, S) PROVE FALSE
  OBVIOUS
<1> DEFINE without == {T \in SUBSET S : ~ \E g : Sums(g, T)}
           G(U) == CHOOSE g : Sums(g, U)
<1>1. PICK T \in without : \A U \in without : U \subseteq T => U = T
  <2>1. without \subseteq SUBSET S /\ without # {}
    OBVIOUS
  <2> HIDE DEF without
  <2> QED
    BY <2>1, SmallestSet
<1>2. ASSUME NEW U, U \subseteq T, U # T PROVE Sums(G(U), U)
  <2>1. \E g : Sums(g, U)
    BY <1>1, <1>2
  <2> QED
    BY <2>1
<1> DEFINE h == [s \in SUBSET T |->
                    IF s = {} THEN 0 ELSE SizeOf[First(s)] + G(Rest(s))[Rest(s)]]
<1>3. ASSUME NEW s \in SUBSET T, s # {} PROVE h[Rest(s)] = G(Rest(s))[Rest(s)]
  <2> DEFINE u == Rest(s)
             v == Rest(u)
  <2>1. u \subseteq T /\ u # T
    BY <1>3, RestIsLess
  <2>2. Sums(G(u), u)
    BY <1>2, <2>1
  <2>3. G(u)[u] = IF u = {} THEN 0 ELSE SizeOf[First(u)] + G(u)[v]
    BY <2>2, SumOf
  <2>4. ASSUME u # {} PROVE G(u)[v] = G(v)[v]
    <3>1. v \subseteq u /\ v # T
      BY <2>1, <2>4, RestIsLess
    <3>2. IsFiniteSet(v)
      BY <2>1, <3>1, FS_Subset
    <3>3. Sums(G(v), v)
      BY <1>2, <2>1, <3>1
    <3> HIDE DEF G, u, v
    <3> QED
      BY <2>2, <3>1, <3>2, <3>3, SumsAgree
  <2>5. h[u] = IF u = {} THEN 0 ELSE SizeOf[First(u)] + G(v)[v]
    BY <2>1
  <2> QED
    BY <2>3, <2>4, <2>5
<1>4. h = [s \in SUBSET T |-> IF s = {} THEN 0 ELSE SizeOf[First(s)] + h[Rest(s)]]
  <2>1. ASSUME NEW s \in SUBSET T
        PROVE  h[s] = IF s = {} THEN 0 ELSE SizeOf[First(s)] + h[Rest(s)]
    <3>1. h[s] = IF s = {} THEN 0 ELSE SizeOf[First(s)] + G(Rest(s))[Rest(s)]
      OBVIOUS
    <3>2. s # {} => h[Rest(s)] = G(Rest(s))[Rest(s)]
      BY <1>3
    <3> HIDE DEF h, G
    <3> QED
      BY <3>1, <3>2
  <2>2. h = [s \in SUBSET T |-> h[s]]
    OBVIOUS
  <2> HIDE DEF h
  <2> QED
    BY <2>1, <2>2
<1>5. Sums(h, T)
  BY <1>4 DEF Sums
<1> QED
  BY <1>1, <1>5

\* A sum of sizes is a natural number.
LEMMA SizeSumNat == ASSUME NEW ids \in SUBSET Messages, IsFiniteSet(ids) PROVE SizeSum(ids) \in Nat
<1> DEFINE g == CHOOSE g : Sums(g, ids)
           others == {s \in SUBSET ids : g[s] \notin Nat}
<1>1. Sums(g, ids)
  BY SumsExist
<1> HIDE DEF g
<1>2. SUFFICES ASSUME others # {} PROVE FALSE
  BY SizeSumIs DEF g
<1>3. PICK s \in others : \A t \in others : t \subseteq s => t = s
  <2>1. others \subseteq SUBSET ids /\ others # {}
    BY <1>2
  <2> HIDE DEF others
  <2> QED
    BY <2>1, SmallestSet
<1>4. g[s] = IF s = {} THEN 0 ELSE SizeOf[First(s)] + g[Rest(s)]
  BY <1>1, SumOf
<1>5. s # {}
  BY <1>4
<1>6. Rest(s) \in SUBSET ids /\ Rest(s) \notin others
  BY <1>3, <1>5, RestIsLess
<1>7. SizeOf[First(s)] \in Nat
  BY <1>5, RestIsLess, TableAssumption
<1> QED
  BY <1>4, <1>5, <1>6, <1>7

-----------------------------------------------------------------------------
(* Type correctness.                                                       *)

\* A number has reached the multiple k of n when its quotient has reached k.
LEMMA QuotientReaches ==
    ASSUME NEW x \in Int, NEW n \in Nat \ {0}, NEW k \in Int
    PROVE  x >= k * n <=> x \div n >= k
<1> DEFINE q == x \div n
<1>1. q \in Int /\ q * n <= x /\ x < (q + 1) * n
  OBVIOUS
<1> HIDE DEF q
<1>2. q >= k => q * n >= k * n
  BY <1>1
<1>3. q < k => (q + 1) * n <= k * n
  BY <1>1
<1> QED
  BY <1>1, <1>2, <1>3 DEF q

\* Some message of a set is not older than any other of them.
LEMMA NewestExists ==
    ASSUME NEW S, S \subseteq Messages, S # {}
    PROVE  \E m \in S : \A i \in S : DateOf[i] <= DateOf[m]
<1> DEFINE newer(m) == {i \in S : DateOf[i] > DateOf[m]}
           F == {newer(m) : m \in S}
<1>1. IsFiniteSet(S) /\ \A m \in S : DateOf[m] \in Nat
  BY TableAssumption, FS_Subset
<1>2. PICK s \in F : \A t \in F : t \subseteq s => t = s
  <2>1. F \subseteq SUBSET S /\ F # {}
    OBVIOUS
  <2> HIDE DEF F
  <2> QED
    BY <1>1, <2>1, SmallestSet
<1>3. PICK m \in S : \A i \in S : newer(i) \subseteq newer(m) => newer(i) = newer(m)
  <2>1. \A i \in S : newer(i) \in F
    OBVIOUS
  <2>2. PICK m \in S : s = newer(m)
    OBVIOUS
  <2> HIDE DEF newer, F
  <2> QED
    BY <1>2, <2>1, <2>2
<1>4. ASSUME NEW i \in S, DateOf[i] > DateOf[m] PROVE FALSE
  <2>1. newer(i) \subseteq newer(m)
    BY <1>1, <1>4
  <2>2. i \in newer(m) /\ i \notin newer(i)
    BY <1>1, <1>4
  <2> QED
    BY <1>3, <2>1, <2>2
<1> QED
  BY <1>1, <1>4

\* The stub of a thread has a date: a batch has a newest message of the thread.
LEMMA StubsTyped ==
    ASSUME NEW batch, DOMAIN batch \subseteq Messages, NEW t \in DOMAIN ThreadStubs(batch)
    PROVE  ThreadStubs(batch)[t] \in Stub
<1> DEFINE IsNewest(m) == /\ ThreadOf[m] = t
                          /\ \A i \in DOMAIN batch : ThreadOf[i] = t => DateOf[i] <= DateOf[m]
           newest == CHOOSE m \in DOMAIN batch : IsNewest(m)
           S == {m \in DOMAIN batch : ThreadOf[m] = t}
<1>1. S \subseteq Messages /\ S # {}
  BY DEF ThreadStubs
<1>2. \E m \in DOMAIN batch : IsNewest(m)
  <2>1. \E m \in S : \A i \in S : DateOf[i] <= DateOf[m]
    BY <1>1, NewestExists
  <2> QED
    BY <2>1
<1>3. newest \in DOMAIN batch
  BY <1>2
<1>4. DateOf[newest] \in Nat
  BY <1>3, TableAssumption
<1>5. ThreadStubs(batch)[t] = [last_message_at |-> DateOf[newest],
                               is_inbox |-> "is_inbox" \in batch[newest].flags,
                               has_custom_label |-> "has_custom_label" \in batch[newest].flags]
  BY DEF ThreadStubs
<1> HIDE DEF newest
<1> QED
  BY <1>4, <1>5 DEF Stub

\* Every query answers with a natural number.
LEMMA MeasureTyped ==
    ASSUME DOMAIN rows \subseteq Messages
    PROVE  \A i \in 1..Len(Queries) : Measure(rows)[Queries[i]] \in Nat
<1>1. ASSUME NEW S \in SUBSET DOMAIN rows PROVE Cardinality(S) \in Nat /\ SizeSum(S) \in Nat
  <2>1. IsFiniteSet(S) /\ S \in SUBSET Messages
    BY TableAssumption, FS_Subset
  <2> QED
    BY <2>1, SizeSumNat, FS_CardinalityType
<1>2. \A f : Flagged(rows, f) \in SUBSET DOMAIN rows
  BY DEF Flagged
<1>3. ArchiveUnlabelled(rows) \in SUBSET DOMAIN rows /\ SentUnresolved(rows) \in SUBSET DOMAIN rows
  BY <1>2 DEF ArchiveUnlabelled, SentUnresolved
<1>4. Measure(rows) \in [{"inbox_count", "inbox_size_bytes", "archive_unlabelled_count",
                          "sent_unresolved_count", "total_size_bytes", "total", "labelled"} -> Nat]
  BY <1>1, <1>2, <1>3 DEF Measure
<1> QED
  BY <1>4 DEF Queries

\* The snapshot of seven natural numbers, and that of a demo day.
LEMMA SnapshotTyped ==
    ASSUME NEW answers, \A q \in Asked(Len(Queries)) : answers[q] \in Nat
    PROVE  SnapshotOf(answers) \in Figures
<1>1. \A q \in {"inbox_count", "inbox_size_bytes", "archive_unlabelled_count",
                "sent_unresolved_count", "total_size_bytes", "total", "labelled"} :
          answers[q] \in Nat
  BY DEF Asked, Queries
<1>2. Coverage(answers.total, answers.labelled) \in Nat
  <2> DEFINE t == answers.total
             x == answers.labelled * 10000 + t \div 2
  <2>1. t \in Nat /\ answers.labelled \in Nat
    BY <1>1
  <2>2. t \div 2 >= 0 /\ t \div 2 \in Int
    BY <2>1
  <2>3. x \in Nat
    BY <2>1, <2>2
  <2> HIDE DEF x
  <2>4. CASE t # 0
    <3>1. x \div t \in Int /\ x >= 0 * t
      BY <2>1, <2>3, <2>4
    <3>2. x \div t >= 0
      BY <2>1, <2>3, <2>4, <3>1, QuotientReaches
    <3> QED
      BY <2>4, <3>1, <3>2 DEF Coverage, x
  <2> QED
    BY <2>4 DEF Coverage
<1> QED
  BY <1>1, <1>2 DEF SnapshotOf, Figures

LEMMA DemoTyped ==
    ASSUME NEW date \in Int, date >= SeedDays + 1, NEW n \in 0..SeedDays
    PROVE  /\ DOMAIN DemoSnapshots(date, n) \subseteq Nat
           /\ \A d \in DOMAIN DemoSnapshots(date, n) : DemoSnapshots(date, n)[d] \in Figures
<1>1. SeedDays \in 1..90
  BY DashboardAssumption
<1>2. ASSUME NEW d \in (date - n)..(date - 1) PROVE d \in Nat /\ DemoFigures(date - d) \in Figures
  <2>1. d \in Nat /\ date - d \in 1..90
    BY <1>1
  <2>2. ASSUME NEW i \in 1..90 PROVE DemoFigures(i) \in Figures
    <3>1. i \div 3 \in 0..30 /\ i \div 6 \in 0..15
      OBVIOUS
    <3> QED
      BY <3>1 DEF DemoFigures, Figures
  <2> QED
    BY <2>1, <2>2
<1> QED
  BY <1>2 DEF DemoSnapshots

\* A run with the answers to the first n queries.
RunWith(n) == [pc : {"idle", "store", "count"}, date : Nat, disturbed : BOOLEAN,
               answers : [Asked(n) -> Nat]]

RunTyped(r) == \E n \in 0..Len(Queries) : r \in RunWith(n)

LEMMA IsRunIs == \A r : IsRun(r) <=> RunTyped(r)
  BY DEF IsRun, RunTyped, RunWith, Asked

LEMMA IdleTyped == IdleRun \in RunWith(0) /\ RunTyped(IdleRun)
<1>1. <<>> \in [Asked(0) -> Nat] /\ 0 \in 0..Len(Queries)
  BY NoRows DEF Asked, Queries
<1> QED
  BY <1>1 DEF IdleRun, RunWith, RunTyped

\* A row as the type has it, and the rows of an upsert.
RowTyped(m, row) == m \in Messages /\ row.labels \in LabelSets[m] /\ row.flags \subseteq FlagNames

LEMMA BatchTyped == ASSUME NEW batch \in Batches, NEW m \in DOMAIN batch PROVE RowTyped(m, batch[m])
<1>1. PICK ids \in SUBSET Messages :
          \E answer \in [ids -> UNION {LabelSets[i] : i \in ids}] :
              (\A i \in ids : answer[i] \in LabelSets[i]) /\ batch = Made(answer)
  BY DEF Batches
<1>2. PICK answer \in [ids -> UNION {LabelSets[i] : i \in ids}] :
          (\A i \in ids : answer[i] \in LabelSets[i]) /\ batch = Made(answer)
  BY <1>1
<1>3. DOMAIN batch = ids /\ batch[m] = RowOf(answer[m])
  BY <1>2 DEF Made
<1> QED
  BY <1>2, <1>3, FlagsTyped DEF RowTyped, RowOf

\* The demo history stays in the years that are counted.
TypeInv == TypeOK /\ today >= SeedDays + 1

\* The parts of the type that a step changes one at a time.
TableTyped ==
    /\ \A m \in DOMAIN rows : RowTyped(m, rows[m])
    /\ \A t \in DOMAIN threads : threads[t] \in Stub

HistoryTyped == \A d \in DOMAIN snapshots : d \in Nat /\ snapshots[d] \in Figures

RunsTyped == DOMAIN run = Jobs /\ \A j \in Jobs : RunTyped(run[j])

ClockTyped == /\ today \in 1..MaxDay /\ today >= SeedDays + 1
              /\ phase \in {"down", "seed", "fill", "up"}
              /\ changes \in 0..MaxChanges
              /\ failures \in 0..MaxFailures

LEMMA TypeParts == TypeInv <=> TableTyped /\ HistoryTyped /\ RunsTyped /\ ClockTyped
<1>1. TypeInv => TableTyped /\ HistoryTyped /\ ClockTyped
  BY DEF TypeInv, TypeOK, TableTyped, RowTyped, HistoryTyped, ClockTyped
<1>2. (\A j \in Jobs : IsRun(run[j])) <=> (\A j \in Jobs : RunTyped(run[j]))
  BY IsRunIs
<1>3. TableTyped /\ HistoryTyped /\ ClockTyped =>
        (TypeInv <=> DOMAIN run = Jobs /\ \A j \in Jobs : IsRun(run[j]))
  BY DEF TypeInv, TypeOK, TableTyped, RowTyped, HistoryTyped, ClockTyped
<1> QED
  BY <1>1, <1>2, <1>3 DEF RunsTyped

LEMMA RowsInMessages == TypeInv => DOMAIN rows \subseteq Messages /\ today \in Int
  BY DEF TypeInv, TypeOK

LEMMA TypeInit == Init => TypeInv
<1> SUFFICES ASSUME Init PROVE TypeInv
  OBVIOUS
<1>1. TableTyped
  <2>1. PICK mail \in OldMail : rows = Made(mail)
    BY DEF Init
  <2>2. DOMAIN mail \subseteq Messages /\ \A m \in DOMAIN mail : mail[m] \in LabelSets[m]
    BY DashboardAssumption
  <2>3. DOMAIN rows \subseteq Messages /\ \A m \in DOMAIN rows : RowTyped(m, rows[m])
    BY <2>1, <2>2, FlagsTyped DEF Made, RowOf, RowTyped
  <2> QED
    BY <2>3, StubsTyped DEF Init, TableTyped
<1>2. SeedDays \in 1..90 /\ MaxDay \in Nat /\ MaxDay > SeedDays
  BY DashboardAssumption
<1>3. HistoryTyped
  <2>1. PICK n \in OldDays : snapshots = DemoSnapshots(today, n)
    BY DEF Init
  <2>2. n \in 0..SeedDays
    BY DashboardAssumption
  <2> QED
    BY <1>2, <2>1, <2>2, DemoTyped DEF Init, HistoryTyped
<1>4. RunsTyped
  BY IdleTyped DEF Init, RunsTyped
<1>5. ClockTyped
  BY <1>2, DashboardAssumption DEF Init, ClockTyped
<1> QED
  BY <1>1, <1>3, <1>4, <1>5, TypeParts

\* A commit of rows and stubs that are typed.
LEMMA TableUpserted ==
    ASSUME TableTyped, NEW batch \in Batches,
           NEW ts \in SUBSET DOMAIN ThreadStubs(batch), NEW ids \in SUBSET DOMAIN batch,
           NEW newThreads, DOMAIN newThreads = ts, \A t \in ts : newThreads[t] = ThreadStubs(batch)[t],
           NEW newRows, DOMAIN newRows = ids, \A m \in ids : newRows[m] = batch[m],
           threads' = Upserted(newThreads, threads), rows' = Upserted(newRows, rows)
    PROVE  TableTyped'
<1>1. \A m \in DOMAIN batch : RowTyped(m, batch[m])
  BY BatchTyped
<1>2. \A t \in DOMAIN ThreadStubs(batch) : ThreadStubs(batch)[t] \in Stub
  <2>1. DOMAIN batch \subseteq Messages
    BY <1>1 DEF RowTyped
  <2> QED
    BY <2>1, StubsTyped
<1>3. \A m \in DOMAIN rows' : RowTyped(m, rows'[m])
  BY <1>1 DEF TableTyped, Upserted
<1>4. \A t \in DOMAIN threads' : threads'[t] \in Stub
  BY <1>2 DEF TableTyped, Upserted
<1> QED
  BY <1>3, <1>4 DEF TableTyped

LEMMA RunsSet ==
    ASSUME RunsTyped, NEW j \in Jobs, NEW r, RunTyped(r), run' = [run EXCEPT ![j] = r]
    PROVE  RunsTyped'
<1>1. DOMAIN run' = Jobs /\ run'[j] = r /\ \A i \in Jobs \ {j} : run'[i] = run[i]
  BY DEF RunsTyped
<1> QED
  BY <1>1 DEF RunsTyped, RunTyped

LEMMA DisturbTyped ==
    ASSUME RunsTyped
    PROVE  DOMAIN Disturb(run) = Jobs /\ \A j \in Jobs : RunTyped(Disturb(run)[j])
<1>1. ASSUME NEW j \in Jobs PROVE RunTyped([run[j] EXCEPT !.disturbed = TRUE])
  BY DEF RunsTyped, RunTyped, RunWith
<1> QED
  BY <1>1 DEF RunsTyped, Disturb

LEMMA TypeStep == TypeInv /\ [Next]_vars => TypeInv'
<1> DEFINE Typed == TableTyped /\ HistoryTyped /\ RunsTyped /\ ClockTyped
<1>1. SUFFICES ASSUME Typed, [Next]_vars PROVE Typed'
  BY TypeParts, PTL
<1>2. UNCHANGED <<rows, threads>> => TableTyped'
  BY <1>1 DEF TableTyped
<1>3. UNCHANGED snapshots => HistoryTyped'
  BY <1>1 DEF HistoryTyped
<1>4. UNCHANGED run => RunsTyped'
  BY <1>1 DEF RunsTyped
<1>5. SeedDays \in 1..90 /\ MaxDay \in Nat /\ MaxChanges \in Nat /\ MaxFailures \in Nat
  BY DashboardAssumption
<1>6. CASE UNCHANGED vars
  BY <1>1, <1>2, <1>3, <1>4, <1>6 DEF vars, dbVars, ClockTyped
<1>7. CASE StartApp \/ SkipSeeding
  BY <1>1, <1>2, <1>3, <1>4, <1>7 DEF StartApp, SkipSeeding, dbVars, ClockTyped
<1>8. CASE ClearSnapshots
  <2>1. HistoryTyped'
    BY <1>8, NoRows DEF ClearSnapshots, HistoryTyped
  <2> QED
    BY <1>1, <1>2, <1>4, <1>8, <2>1 DEF ClearSnapshots, ClockTyped
<1>9. CASE SeedSnapshots
  <2>1. today \in Int /\ today >= SeedDays + 1
    BY <1>1, <1>5 DEF ClockTyped
  <2>2. HistoryTyped'
    BY <1>5, <1>9, <2>1, DemoTyped DEF SeedSnapshots, HistoryTyped
  <2> QED
    BY <1>1, <1>2, <1>4, <1>9, <2>2 DEF SeedSnapshots, ClockTyped
<1>10. CASE NextDay
  <2>1. ClockTyped'
    BY <1>1, <1>5, <1>10 DEF NextDay, ClockTyped
  <2> QED
    BY <1>1, <1>2, <1>3, <1>4, <1>10, <2>1 DEF NextDay, dbVars
<1>11. ASSUME NEW j \in Jobs, BeginSync(j) PROVE Typed'
  <2> DEFINE r == [IdleRun EXCEPT !.pc = "store"]
  <2>1. RunTyped(r)
    <3>1. r \in RunWith(0)
      BY IdleTyped DEF RunWith
    <3> QED
      BY <3>1 DEF RunTyped, Queries
  <2>2. RunsTyped'
    BY <1>1, <1>11, <2>1, RunsSet DEF BeginSync
  <2> QED
    BY <1>1, <1>2, <1>3, <1>11, <2>2 DEF BeginSync, dbVars, ClockTyped
<1>12. ASSUME NEW j \in Jobs, StoreBatch(j) PROVE Typed'
  <2>1. PICK batch \in Batches : /\ threads' = Upserted(ThreadStubs(batch), threads)
                                 /\ rows' = Upserted(batch, rows)
    BY <1>12 DEF StoreBatch
  <2>2. TableTyped'
    BY <1>1, <2>1, TableUpserted
  <2>3. RunsTyped'
    BY <1>1, <1>12, DisturbTyped DEF StoreBatch, RunsTyped
  <2>4. ClockTyped'
    BY <1>1, <1>5, <1>12 DEF StoreBatch, CountChange, ClockTyped
  <2> QED
    BY <1>1, <1>3, <1>12, <2>2, <2>3, <2>4 DEF StoreBatch
<1>13. CASE HalfBatchCommitted
  <2>1. PICK batch \in Batches :
            \E ts \in SUBSET DOMAIN ThreadStubs(batch), ids \in SUBSET DOMAIN batch :
                /\ threads' = Upserted(Only(ThreadStubs(batch), ts), threads)
                /\ rows' = Upserted(Only(batch, ids), rows)
    BY <1>13 DEF HalfBatchCommitted
  <2>2. PICK ts \in SUBSET DOMAIN ThreadStubs(batch), ids \in SUBSET DOMAIN batch :
            /\ threads' = Upserted(Only(ThreadStubs(batch), ts), threads)
            /\ rows' = Upserted(Only(batch, ids), rows)
    BY <2>1
  <2>3. TableTyped'
    BY <1>1, <2>2, TableUpserted DEF Only
  <2>4. RunsTyped'
    <3>1. run' = [Disturb(run) EXCEPT !["manual"] = IdleRun]
      BY <1>13 DEF HalfBatchCommitted
    <3>2. /\ DOMAIN run' = Jobs
          /\ \A j \in Jobs : run'[j] = IdleRun \/ run'[j] = Disturb(run)[j]
      BY <1>1, <3>1, DisturbTyped
    <3> QED
      BY <1>1, <3>2, DisturbTyped, IdleTyped DEF RunsTyped
  <2>5. ClockTyped'
    BY <1>1, <1>5, <1>13 DEF HalfBatchCommitted, CountChange, ClockTyped
  <2> QED
    BY <1>1, <1>3, <1>13, <2>3, <2>4, <2>5 DEF HalfBatchCommitted
<1>14. ASSUME NEW m \in Messages, LabelOperation(m) PROVE Typed'
  <2>1. PICK ls \in LabelSets[m] :
            rows' = [rows EXCEPT ![m] =
                       [labels |-> ls, flags |-> UpdatedFlags(rows[m].flags, ls)]]
    BY <1>14 DEF LabelOperation
  <2>2. TableTyped'
    <3>1. UpdatedFlags(rows[m].flags, ls) \subseteq FlagNames
      <4>1. rows[m].flags \subseteq FlagNames
        BY <1>1, <1>14 DEF LabelOperation, TableTyped, RowTyped
      <4> QED
        BY <4>1, UpdatedAsMade, FlagsTyped
    <3>2. /\ DOMAIN rows' = DOMAIN rows
          /\ \A i \in DOMAIN rows : RowTyped(i, rows'[i])
      BY <1>1, <1>14, <2>1, <3>1 DEF LabelOperation, TableTyped, RowTyped
    <3> QED
      BY <1>1, <1>14, <3>2 DEF LabelOperation, TableTyped
  <2>3. RunsTyped'
    BY <1>1, <1>14, DisturbTyped DEF LabelOperation, RunsTyped
  <2>4. ClockTyped'
    BY <1>1, <1>5, <1>14 DEF LabelOperation, CountChange, ClockTyped
  <2> QED
    BY <1>1, <1>3, <1>14, <2>2, <2>3, <2>4 DEF LabelOperation
<1>15. ASSUME NEW j \in Jobs, SaveState(j) PROVE Typed'
  <2> DEFINE r == [IdleRun EXCEPT !.pc = "count", !.date = today]
  <2>1. today \in Nat
    BY <1>1, <1>5 DEF ClockTyped
  <2>2. RunTyped(r)
    <3>1. r \in RunWith(0)
      BY <2>1, IdleTyped DEF RunWith
    <3> QED
      BY <3>1 DEF RunTyped, Queries
  <2>3. RunsTyped'
    BY <1>1, <1>15, <2>2, RunsSet DEF SaveState
  <2> QED
    BY <1>1, <1>2, <1>3, <1>15, <2>3 DEF SaveState, dbVars, ClockTyped
<1>16. ASSUME NEW j \in Jobs, Count(j) PROVE Typed'
  <2> DEFINE k == Cardinality(DOMAIN run[j].answers) + 1
             q == Queries[k]
             answers == Upserted(Row(q, Measure(rows)[q]), run[j].answers)
             r == [run[j] EXCEPT !.answers = answers]
  <2>1. k <= Len(Queries) /\ run' = [run EXCEPT ![j] = r]
    BY <1>16 DEF Count
  <2>2. PICK n \in 0..Len(Queries) : run[j] \in RunWith(n)
    BY <1>1 DEF RunsTyped, RunTyped
  <2>3. run[j].answers \in [Asked(n) -> Nat]
    BY <2>2 DEF RunWith
  <2>4. k = n + 1 /\ n + 1 \in 1..Len(Queries)
    BY <2>1, <2>3, AskedCount DEF Queries
  <2>5. Measure(rows)[q] \in Nat
    <3>1. DOMAIN rows \subseteq Messages
      BY <1>1 DEF TableTyped, RowTyped
    <3> QED
      BY <2>4, <3>1, MeasureTyped
  <2>6. Asked(n + 1) = {q} \cup Asked(n)
    BY <2>4 DEF Asked, Queries
  <2>7. answers \in [Asked(n + 1) -> Nat]
    BY <2>3, <2>5, <2>6 DEF Upserted, Row
  <2>8. r \in RunWith(n + 1)
    <3> HIDE DEF answers
    <3> QED
      BY <2>2, <2>7 DEF RunWith
  <2>9. RunTyped(r)
    BY <2>4, <2>8 DEF RunTyped
  <2>10. RunsTyped'
    <3> HIDE DEF r
    <3> QED
      BY <1>1, <2>1, <2>9, RunsSet
  <2> QED
    BY <1>1, <1>2, <1>3, <1>16, <2>10 DEF Count, dbVars, ClockTyped
<1>17. ASSUME NEW j \in Jobs, WriteSnapshot(j) PROVE Typed'
  <2>1. PICK n \in 0..Len(Queries) : run[j] \in RunWith(n)
    BY <1>1 DEF RunsTyped, RunTyped
  <2>2. run[j].answers \in [Asked(n) -> Nat] /\ run[j].date \in Nat
    BY <2>1 DEF RunWith
  <2>3. n = Len(Queries)
    BY <1>17, <2>2, AskedCount DEF WriteSnapshot
  <2>4. SnapshotOf(run[j].answers) \in Figures
    BY <2>2, <2>3, SnapshotTyped
  <2>5. HistoryTyped'
    BY <1>1, <1>17, <2>2, <2>4 DEF WriteSnapshot, Upsert, Upserted, Row, HistoryTyped
  <2>6. RunsTyped'
    BY <1>1, <1>17, IdleTyped, RunsSet DEF WriteSnapshot
  <2> QED
    BY <1>1, <1>2, <1>17, <2>5, <2>6 DEF WriteSnapshot, ClockTyped
<1>18. ASSUME NEW j \in Jobs, StepFails(j) PROVE Typed'
  <2>1. RunsTyped'
    BY <1>1, <1>18, IdleTyped, RunsSet DEF StepFails
  <2>2. ClockTyped'
    BY <1>1, <1>5, <1>18 DEF StepFails, ClockTyped
  <2> QED
    BY <1>1, <1>2, <1>3, <1>18, <2>1, <2>2 DEF StepFails, dbVars
<1>19. CASE Crash
  <2>1. RunsTyped'
    BY <1>19, IdleTyped DEF Crash, RunsTyped
  <2>2. ClockTyped'
    BY <1>1, <1>5, <1>19 DEF Crash, ClockTyped
  <2> QED
    BY <1>1, <1>2, <1>3, <1>19, <2>1, <2>2 DEF Crash, dbVars
<1> QED
  BY <1>1, <1>6, <1>7, <1>8, <1>9, <1>10, <1>11, <1>12, <1>13, <1>14, <1>15, <1>16, <1>17, <1>18,
     <1>19 DEF Next, Advance

\* Every snapshot has figures that are natural numbers, also the sums of sizes
\* and the coverage, and every run the answers to the first queries.
THEOREM DashboardTypeCorrect == Spec => []TypeOK
<1>1. TypeInv => TypeOK
  BY DEF TypeInv
<1> QED
  BY <1>1, TypeInit, TypeStep, PTL DEF Spec

-----------------------------------------------------------------------------
(* The archive page.                                                       *)

LEMMA LeastOf == ASSUME NEW S \in SUBSET Nat, S # {} PROVE \E i \in S : \A k \in S : ~(k < i)
<1>1. \E i \in S : \A k \in S : ~(<<k, i>> \in OpToRel(<, Nat))
  BY WFMin, NatLessThanWellFounded, Zenon
<1> QED
  BY <1>1, Zenon DEF OpToRel

\* What the columns select is what the labels say.
LEMMA ArchiveQueries ==
    ASSUME RowsDerived, NEW m \in DOMAIN rows
    PROVE  LET ls == rows[m].labels
               filed == {"INBOX", "TRASH", "SPAM"} \cap ls = {}
           IN  /\ m \in ArchiveQuery(rows, 0) <=> filed /\ ls \subseteq SystemLabelIds \cup CategoryLabels
               /\ \A i \in 1..Len(WorkflowLabels) :
                     m \in ArchiveQuery(rows, i) <=> filed /\ WorkflowLabels[i] \in ls
<1>1. rows[m].flags = MadeFlags(rows[m].labels)
  BY DEF RowsDerived
<1>2. /\ m \in Flagged(rows, "is_archived") <=> {"INBOX", "TRASH", "SPAM"} \cap rows[m].labels = {}
      /\ m \in Flagged(rows, "has_custom_label") <=> ~ rows[m].labels \subseteq SystemLabelIds \cup CategoryLabels
  BY <1>1, FlagMeanings DEF Flagged
<1>3. m \in ArchiveQuery(rows, 0) <=> /\ {"INBOX", "TRASH", "SPAM"} \cap rows[m].labels = {}
                                      /\ rows[m].labels \subseteq SystemLabelIds \cup CategoryLabels
  BY <1>2 DEF ArchiveQuery, ArchiveUnlabelled
<1>4. ASSUME NEW i \in 1..Len(WorkflowLabels)
      PROVE  m \in ArchiveQuery(rows, i) <=> /\ {"INBOX", "TRASH", "SPAM"} \cap rows[m].labels = {}
                                             /\ WorkflowLabels[i] \in rows[m].labels
  <2>1. ArchiveQuery(rows, i) = ArchivedByRawLabel(rows, WorkflowLabels[i])
    BY TableAssumption DEF ArchiveQuery
  <2> QED
    BY <1>2, <2>1 DEF ArchivedByRawLabel, Flagged
<1> QED
  BY <1>3, <1>4

\* The first answer that has a message adds it, and no other one.
LEMMA ListedOnce ==
    ASSUME NEW lists, NEW m
    PROVE  TimesListed(lists, m) =
              IF \E i \in 0..Len(WorkflowLabels) : m \in lists[i] THEN 1 ELSE 0
<1> DEFINE S == {i \in 0..Len(WorkflowLabels) : m \in lists[i]}
           A == {i \in 0..Len(WorkflowLabels) : m \in AddedBy(lists, i)}
<1>1. CASE S # {}
  <2>1. PICK i \in S : \A k \in S : ~(k < i)
    <3>1. S \in SUBSET Nat
      BY TableAssumption
    <3> QED
      BY <1>1, <3>1, LeastOf
  <2>2. ASSUME NEW k \in 0..Len(WorkflowLabels)
        PROVE  m \in AddedBy(lists, k) <=> k = i
    <3>1. k < i => m \notin AddedBy(lists, k)
      BY <2>1 DEF AddedBy
    <3>2. k = i => m \in AddedBy(lists, k)
      BY <2>1, TableAssumption DEF AddedBy
    <3>3. k > i => m \notin AddedBy(lists, k)
      BY <2>1, TableAssumption DEF AddedBy
    <3> QED
      BY <2>1, <3>1, <3>2, <3>3, TableAssumption
  <2>3. A = {i}
    BY <2>1, <2>2
  <2> QED
    BY <1>1, <2>3, FS_Singleton DEF TimesListed
<1>2. CASE S = {}
  <2>1. A = {}
    BY <1>2 DEF AddedBy
  <2> QED
    BY <1>2, <2>1, FS_EmptySet DEF TimesListed
<1> QED
  BY <1>1, <1>2

\* The archive page lists what it should once at most and nothing else, and
\* leaves out only what full lists leave no room for, for any messages, any
\* number of workflow labels, any limit, and whichever rows the queries take.
THEOREM ArchiveHasEachOnce == Spec => []ArchiveListsOnce
<1>1. CountInv /\ [Next]_vars => CountInv'
  BY CountStep
<1>2. CountInv => ArchiveListsOnce
  <2> SUFFICES ASSUME CountInv, NEW lists \in ArchiveAnswers(rows), NEW m \in DOMAIN rows
               PROVE  LET ls == rows[m].labels
                          filed == {"INBOX", "TRASH", "SPAM"} \cap ls = {}
                          due == {i \in 0..Len(WorkflowLabels) :
                                     filed /\ IF i = 0
                                              THEN ls \subseteq SystemLabelIds \cup CategoryLabels
                                              ELSE WorkflowLabels[i] \in ls}
                      IN  /\ TimesListed(lists, m) <= 1
                          /\ TimesListed(lists, m) = 1 => due # {}
                          /\ TimesListed(lists, m) = 0 =>
                                \A i \in due : Cardinality(lists[i]) = ArchiveLimit
    BY DEF ArchiveListsOnce
  <2> DEFINE due == {i \in 0..Len(WorkflowLabels) : m \in ArchiveQuery(rows, i)}
  <2>1. due = {i \in 0..Len(WorkflowLabels) :
                  /\ {"INBOX", "TRASH", "SPAM"} \cap rows[m].labels = {}
                  /\ IF i = 0 THEN rows[m].labels \subseteq SystemLabelIds \cup CategoryLabels
                     ELSE WorkflowLabels[i] \in rows[m].labels}
    <3>1. 0..Len(WorkflowLabels) = {0} \cup 1..Len(WorkflowLabels) /\ 0 \notin 1..Len(WorkflowLabels)
      BY TableAssumption
    <3> QED
      BY <3>1, ArchiveQueries DEF CountInv
  <2>2. ASSUME NEW i \in 0..Len(WorkflowLabels)
        PROVE  /\ m \in lists[i] => i \in due
               /\ i \in due /\ m \notin lists[i] => Cardinality(lists[i]) = ArchiveLimit
    BY DEF ArchiveAnswers, Limited
  <2> HIDE DEF due
  <2>3. /\ TimesListed(lists, m) = 1 => due # {}
        /\ TimesListed(lists, m) = 0 => \A i \in due : Cardinality(lists[i]) = ArchiveLimit
    <3>1. due \subseteq 0..Len(WorkflowLabels)
      BY DEF due
    <3>2. CASE \E i \in 0..Len(WorkflowLabels) : m \in lists[i]
      <4>1. TimesListed(lists, m) = 1
        BY <3>2, ListedOnce
      <4> QED
        BY <2>2, <3>2, <4>1
    <3>3. CASE ~ \E i \in 0..Len(WorkflowLabels) : m \in lists[i]
      <4>1. TimesListed(lists, m) = 0
        BY <3>3, ListedOnce
      <4> QED
        BY <2>2, <3>1, <3>3, <4>1
    <3> QED
      BY <3>2, <3>3
  <2>4. TimesListed(lists, m) <= 1
    BY ListedOnce
  <2> QED
    BY <2>1, <2>3, <2>4
<1> QED
  BY <1>1, <1>2, CountInit, PTL DEF Spec

-----------------------------------------------------------------------------
(* The chart of ages.                                                      *)

LEMMA YearBounds ==
    ASSUME NEW m \in Messages, NEW y \in Int
    PROVE  DateOf[m] >= (y * YearLength) * DayLength <=> YearOf(m) >= y
<1>1. DateOf[m] \in Int /\ DayLength \in Nat \ {0} /\ YearLength \in Nat \ {0}
  BY TableAssumption
<1>2. y * YearLength \in Int /\ DateOf[m] \div DayLength \in Int
  BY <1>1
<1>3. DateOf[m] >= (y * YearLength) * DayLength <=> DateOf[m] \div DayLength >= y * YearLength
  BY <1>1, <1>2, QuotientReaches
<1>4. DateOf[m] \div DayLength >= y * YearLength <=> YearOf(m) >= y
  BY <1>1, <1>2, QuotientReaches DEF YearOf
<1> QED
  BY <1>3, <1>4

\* The bars of the chart of ages partition the messages, for any length of days
\* and years, on any day.
THEOREM AgeBarsAddUp == Spec => []AgeBarsPartition
<1>1. TypeInv => AgeBarsPartition
  <2> SUFFICES ASSUME TypeInv, NEW m \in DOMAIN rows
               PROVE  LET bars == AgeBuckets(rows, today)
                          age == today \div YearLength - YearOf(m)
                      IN  /\ m \in bars.current_year <=> age <= 0
                          /\ m \in bars.past_year <=> age = 1
                          /\ m \in bars.older <=> age >= 2
    BY DEF AgeBarsPartition
  <2> DEFINE y == today \div YearLength
             thisYear == (today - (today % YearLength)) * DayLength
             lastYear == thisYear - YearLength * DayLength
  <2>1. /\ DayLength \in Nat \ {0} /\ YearLength \in Nat \ {0}
        /\ today \in Int /\ m \in Messages /\ DateOf[m] \in Int
    BY RowsInMessages, TableAssumption
  <2>2. y \in Int /\ today - (today % YearLength) = y * YearLength
    BY <2>1
  <2>3. YearOf(m) \in Int
    BY <2>1 DEF YearOf
  <2>4. thisYear = (y * YearLength) * DayLength /\ thisYear \in Int
    BY <2>1, <2>2
  <2>5. lastYear = ((y - 1) * YearLength) * DayLength /\ lastYear \in Int
    BY <2>1, <2>2, <2>4
  <2>6. /\ m \in AgeBuckets(rows, today).current_year <=> DateOf[m] >= thisYear
        /\ m \in AgeBuckets(rows, today).past_year <=> DateOf[m] >= lastYear /\ DateOf[m] < thisYear
        /\ m \in AgeBuckets(rows, today).older <=> ~(DateOf[m] >= lastYear)
    BY DEF AgeBuckets
  <2> HIDE DEF y, thisYear, lastYear
  <2>7. /\ DateOf[m] >= thisYear <=> YearOf(m) >= y
        /\ DateOf[m] >= lastYear <=> YearOf(m) >= y - 1
    BY <2>1, <2>2, <2>4, <2>5, YearBounds
  <2>8. /\ m \in AgeBuckets(rows, today).current_year <=> y - YearOf(m) <= 0
        /\ m \in AgeBuckets(rows, today).past_year <=> y - YearOf(m) = 1
        /\ m \in AgeBuckets(rows, today).older <=> y - YearOf(m) >= 2
    BY <2>1, <2>2, <2>3, <2>4, <2>5, <2>6, <2>7
  <2> QED
    BY <2>8 DEF y
<1> QED
  BY <1>1, TypeInit, TypeStep, PTL DEF Spec

=============================================================================
