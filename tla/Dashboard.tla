----------------------------- MODULE Dashboard ------------------------------
(***************************************************************************)
(* The daily snapshots behind the progress graphs: the sync runs and label *)
(* operations that change the messages table, the figures each run counts  *)
(* after its watermark is saved, the row of the day it writes, and the     *)
(* seeding of demo snapshots when the application starts.                  *)
(*                                                                         *)
(* Every commit is a step, and so is every query of the figures: after the *)
(* commit of the watermark no transaction is open, and SQLite reads each   *)
(* of them from the state of that moment.  How a run comes to the messages *)
(* it stores is the subject of SyncEngine, how a label operation comes to  *)
(* its commit that of LabelOps: here both bring any answer of Gmail.       *)
(***************************************************************************)
EXTENDS MessageTable, Tables

CONSTANTS
    Jobs,          \* which callers of sync runs exist
    BatchSize,     \* settings.sync_batch_size
    Demo,          \* settings.is_demo
    SeedDays,      \* days of demo snapshots (90)
    OldMail,       \* labels, by message id, that an older database may hold
    OldDays,       \* numbers of snapshots it may hold
    MaxDay,        \* bound on the calendar
    MaxChanges,    \* bound on commits that change the messages table
    MaxFailures    \* bound on errors and crashes

ASSUME DashboardAssumption ==
    /\ BatchSize \in Nat \ {0}
    /\ Demo \in BOOLEAN
    /\ SeedDays \in 1..90
    /\ \A mail \in OldMail : /\ DOMAIN mail \subseteq Messages
                             /\ \A m \in DOMAIN mail : mail[m] \in LabelSets[m]
    /\ OldDays \subseteq 0..SeedDays
    /\ MaxDay \in Nat /\ MaxDay > SeedDays
    /\ MaxChanges \in Nat
    /\ MaxFailures \in Nat

VARIABLES
    rows,          \* messages: raw_label_ids and the boolean columns
    threads,       \* threads: the stub of each thread id
    snapshots,     \* daily_snapshots: the figures of each date
    today,         \* date.today()
    phase,         \* where the process is in create_app
    run,           \* run[j]: local variables of the sync run of caller j
    changes,       \* commits that changed the messages table so far
    failures       \* failures so far

dbVars == <<rows, threads, snapshots>>
vars == <<dbVars, today, phase, run, changes, failures>>

\* A row for the labels ls.
RowOf(ls) == [labels |-> ls, flags |-> MadeFlags(ls)]

Stub == [last_message_at : Nat, is_inbox : BOOLEAN, has_custom_label : BOOLEAN]

\* Mutant: the date is no date until a snapshot is begun.
IdleRunUndated ==
    [pc |-> "idle", date |-> -1, answers |-> <<>>, disturbed |-> FALSE]

\* "store": batches and watermark; "count": the queries of the snapshot, with
\* the answers so far.  disturbed is a history variable: another commit has
\* changed the messages table since the first of them.
IdleRun == [pc |-> "idle", date |-> 0, answers |-> <<>>, disturbed |-> FALSE]

\* A run, with the answers to the first k queries.
IsRun(r) ==
    \E k \in 0..Len(Queries) :
        r \in [pc : {"idle", "store", "count"}, date : Nat, disturbed : BOOLEAN,
              answers : [{Queries[i] : i \in 1..k} -> Nat]]

TypeOK ==
    /\ DOMAIN rows \subseteq Messages
    /\ \A m \in DOMAIN rows : rows[m].labels \in LabelSets[m] /\ rows[m].flags \subseteq FlagNames
    /\ \A t \in DOMAIN threads : threads[t] \in Stub
    /\ DOMAIN snapshots \subseteq Nat
    /\ \A d \in DOMAIN snapshots : snapshots[d] \in Figures
    /\ today \in 1..MaxDay
    /\ phase \in {"down", "seed", "fill", "up"}
    /\ DOMAIN run = Jobs /\ \A j \in Jobs : IsRun(run[j])
    /\ changes \in 0..MaxChanges
    /\ failures \in 0..MaxFailures

\* The synthetic snapshot of i days ago, coverage in hundredths of a percent.
DemoFigures(i) ==
    [inbox_count |-> 200 - i \div 3,
     inbox_size_bytes |-> 500000000 - (i \div 3) * 2000000,
     archive_unlabelled_count |-> 80 - i \div 3,
     sent_unresolved_count |-> 40 - i \div 6,
     total_size_bytes |-> 2000000000 - (i \div 3) * 10000000,
     custom_label_coverage_pct |-> 1000 + (i \div 3) * 15]

\* The demo snapshots of the n days before a date.
DemoSnapshots(date, n) == [d \in (date - n)..(date - 1) |-> DemoFigures(date - d)]

\* The rows of some messages with their labels.
Made(mail) == [m \in DOMAIN mail |-> RowOf(mail[m])]

\* The rows that the mapper makes of one batch of answers.
Batches ==
    LET idSets == {ids \in SUBSET Messages : ids # {} /\ Cardinality(ids) <= BatchSize}
        Answers(ids) == {answer \in [ids -> UNION {LabelSets[m] : m \in ids}] :
                            \A m \in ids : answer[m] \in LabelSets[m]}
    IN  {Made(answer) : answer \in UNION {Answers(ids) : ids \in idSets}}

\* A new database, or one that an earlier start has left: with the messages of
\* a sync, or, by an earlier version, with the demo snapshots of fewer days.
Init ==
    /\ \E mail \in OldMail : rows = Made(mail)
    /\ threads = ThreadStubs(rows)
    /\ today = SeedDays + 1
    /\ \E n \in OldDays : snapshots = DemoSnapshots(today, n)
    /\ phase = "down"
    /\ run = [j \in Jobs |-> IdleRun]
    /\ changes = 0
    /\ failures = 0

-----------------------------------------------------------------------------
(* Starting the application.                                               *)

StartApp ==
    /\ phase = "down"
    /\ phase' = IF Demo THEN "seed" ELSE "up"
    /\ UNCHANGED <<dbVars, today, run, changes, failures>>

SkipSeeding ==
    /\ phase = "seed"
    /\ Cardinality(DOMAIN snapshots) >= SeedDays
    /\ phase' = "up"
    /\ UNCHANGED <<dbVars, today, run, changes, failures>>

\* The DELETE of an incomplete history is committed before the INSERTs.
ClearSnapshots ==
    /\ phase = "seed"
    /\ Cardinality(DOMAIN snapshots) \in 1..(SeedDays - 1)
    /\ snapshots' = <<>>
    /\ phase' = "fill"
    /\ UNCHANGED <<rows, threads, today, run, changes, failures>>

\* Mutant: any snapshot at all is taken for a complete history.
SeedIfEmptyOnly ==
    /\ phase = "seed" \/ phase = "fill"
    /\ snapshots' = IF snapshots = <<>> THEN DemoSnapshots(today, SeedDays - 1) ELSE snapshots
    /\ phase' = "up"
    /\ UNCHANGED <<rows, threads, today, run, changes, failures>>

SeedSnapshots ==
    /\ phase = "fill" \/ (phase = "seed" /\ snapshots = <<>>)
    /\ snapshots' = DemoSnapshots(today, SeedDays)
    /\ phase' = "up"
    /\ UNCHANGED <<rows, threads, today, run, changes, failures>>

NextDay ==
    /\ today < MaxDay
    /\ today' = today + 1
    /\ UNCHANGED <<dbVars, phase, run, changes, failures>>

-----------------------------------------------------------------------------
(* Commits that change the messages table.                                 *)

\* Every run that is counting has seen the table before this commit.
Disturb(runs) ==
    [j \in Jobs |-> IF runs[j].pc = "count" /\ runs[j].answers # <<>>
                    THEN [runs[j] EXCEPT !.disturbed = TRUE] ELSE runs[j]]

CountChange ==
    /\ changes < MaxChanges
    /\ changes' = changes + 1

\* One batch of a sync: the threads first, then the messages, one commit.
StoreBatch(j) ==
    /\ run[j].pc = "store"
    /\ CountChange
    /\ \E batch \in Batches :
          /\ threads' = Upserted(ThreadStubs(batch), threads)
          /\ rows' = Upserted(batch, rows)
    /\ run' = Disturb(run)
    /\ UNCHANGED <<snapshots, today, phase, failures>>

Only(f, ids) == [x \in ids |-> f[x]]

\* Mutant: upsert_many of the messages runs before upsert_threads.
HalfBatchMessagesFirst ==
    /\ "manual" \in Jobs
    /\ run["manual"].pc = "store"
    /\ failures < MaxFailures
    /\ failures' = failures + 1
    /\ CountChange
    /\ \E batch \in Batches : \E ts \in SUBSET DOMAIN ThreadStubs(batch), ids \in SUBSET DOMAIN batch :
          /\ ts # {} => ids = DOMAIN batch
          /\ threads' = Upserted(Only(ThreadStubs(batch), ts), threads)
          /\ rows' = Upserted(Only(batch, ids), rows)
    /\ run' = [Disturb(run) EXCEPT !["manual"] = IdleRun]
    /\ UNCHANGED <<snapshots, today, phase>>

\* The POST /sync route catches the exception of a broken batch, and its
\* teardown commits the part that was written: some threads, or all of them
\* and some messages.
HalfBatchCommitted ==
    /\ "manual" \in Jobs
    /\ run["manual"].pc = "store"
    /\ failures < MaxFailures
    /\ failures' = failures + 1
    /\ CountChange
    /\ \E batch \in Batches : \E ts \in SUBSET DOMAIN ThreadStubs(batch), ids \in SUBSET DOMAIN batch :
          /\ ids # {} => ts = DOMAIN ThreadStubs(batch)
          /\ threads' = Upserted(Only(ThreadStubs(batch), ts), threads)
          /\ rows' = Upserted(Only(batch, ids), rows)
    /\ run' = [Disturb(run) EXCEPT !["manual"] = IdleRun]
    /\ UNCHANGED <<snapshots, today, phase>>

\* A label operation: update_labels with the labels of Gmail's answer.
LabelOperation(m) ==
    /\ phase = "up"
    /\ m \in DOMAIN rows
    /\ CountChange
    /\ \E ls \in LabelSets[m] :
          rows' = [rows EXCEPT ![m] =
                     [labels |-> ls, flags |-> UpdatedFlags(rows[m].flags, ls)]]
    /\ run' = Disturb(run)
    /\ UNCHANGED <<threads, snapshots, today, phase, failures>>

-----------------------------------------------------------------------------
(* A sync run.                                                             *)

BeginSync(j) ==
    /\ phase = "up"
    /\ run[j].pc = "idle"
    /\ run' = [run EXCEPT ![j] = [IdleRun EXCEPT !.pc = "store"]]
    /\ UNCHANGED <<dbVars, today, phase, changes, failures>>

\* The watermark is committed; _write_snapshot begins with date.today().
SaveState(j) ==
    /\ run[j].pc = "store"
    /\ run' = [run EXCEPT ![j] = [IdleRun EXCEPT !.pc = "count", !.date = today]]
    /\ UNCHANGED <<dbVars, today, phase, changes, failures>>

\* The next query of the snapshot.
Count(j) ==
    LET k == Cardinality(DOMAIN run[j].answers) + 1 IN
    /\ run[j].pc = "count"
    /\ k <= Len(Queries)
    /\ run' = [run EXCEPT ![j].answers =
                             Upserted(Row(Queries[k], Measure(rows)[Queries[k]]), @)]
    /\ UNCHANGED <<dbVars, today, phase, changes, failures>>

\* Mutant: ON CONFLICT DO NOTHING.
UpsertFirstWins(date, figures) == snapshots' = Upserted(snapshots, Row(date, figures))

\* SnapshotRepository.upsert: the row of the date is replaced.
Upsert(date, figures) == snapshots' = Upserted(Row(date, figures), snapshots)

WriteSnapshot(j) ==
    /\ run[j].pc = "count"
    /\ Cardinality(DOMAIN run[j].answers) = Len(Queries)
    /\ Upsert(run[j].date, SnapshotOf(run[j].answers))
    /\ run' = [run EXCEPT ![j] = IdleRun]
    /\ UNCHANGED <<rows, threads, today, phase, changes, failures>>

\* A step of the run raises; what it had committed stays.
StepFails(j) ==
    /\ run[j].pc # "idle"
    /\ failures < MaxFailures
    /\ failures' = failures + 1
    /\ run' = [run EXCEPT ![j] = IdleRun]
    /\ UNCHANGED <<dbVars, today, phase, changes>>

\* The process dies, also while it starts.
Crash ==
    /\ phase # "down"
    /\ failures < MaxFailures
    /\ failures' = failures + 1
    /\ phase' = "down"
    /\ run' = [j \in Jobs |-> IdleRun]
    /\ UNCHANGED <<dbVars, today, changes>>

-----------------------------------------------------------------------------
Advance(j) == SaveState(j) \/ Count(j) \/ WriteSnapshot(j)

Next ==
    \/ StartApp \/ SkipSeeding \/ ClearSnapshots \/ SeedSnapshots
    \/ NextDay
    \/ \E j \in Jobs : BeginSync(j) \/ StoreBatch(j) \/ Advance(j) \/ StepFails(j)
    \/ HalfBatchCommitted
    \/ \E m \in Messages : LabelOperation(m)
    \/ Crash

Spec == Init /\ [][Next]_vars

\* A run goes on, and the scheduler starts its jobs again and again.
Fairness ==
    /\ \A j \in Jobs : WF_vars(Advance(j))
    /\ \A j \in Jobs \ {"manual"} : WF_vars(BeginSync(j))

FairSpec == Spec /\ Fairness

-----------------------------------------------------------------------------
(* Properties.                                                             *)

\* No committed message is without its thread, although a broken manual run
\* commits half a batch: with foreign keys on, the next write would fail
\* (sync_service.py, "Threads must exist before messages").
EveryRowHasItsThread == \A m \in DOMAIN rows : ThreadOf[m] \in DOMAIN threads

\* A demo instance that serves has its full history, whatever an older
\* version left behind and wherever an earlier start was cut off
\* (app.py, _seed_demo_snapshots).
SeededWhenServing ==
    (Demo /\ phase = "up") => Cardinality(DOMAIN snapshots) >= SeedDays

\* A snapshot whose seven queries nobody disturbed has the figures that the
\* labels of all messages give, although it is counted over columns that two
\* writers derive from them (message.py make_message, update_labels).
SnapshotIsExact ==
    [][\A j \in Jobs :
          (run[j].pc = "count" /\ ~run[j].disturbed /\ snapshots' # snapshots /\ run'[j] # run[j])
              => snapshots'[run[j].date] = FiguresOfLabels(rows)]_vars

\* However runs overlap, fail and cross midnight: when the messages table
\* rests, the snapshot of the day gets, and keeps, its figures
\* (snapshot_repository.py, "so the most recent sync's numbers are always
\* reflected").
SnapshotSettles ==
    <>[](phase = "up" => /\ today \in DOMAIN snapshots
                         /\ snapshots[today] = FiguresOfLabels(rows))

\* On every day, also the first of a year, the chart of ages has each message
\* in one bar, that of its year (message_repository.py, messages_by_age_bucket:
\* "No messages are double-counted").
AgeBarsPartition ==
    LET bars == AgeBuckets(rows, today)
        age(m) == today \div YearLength - YearOf(m)
    IN  \A m \in DOMAIN rows :
            /\ m \in bars.current_year <=> age(m) <= 0
            /\ m \in bars.past_year <=> age(m) = 1
            /\ m \in bars.older <=> age(m) >= 2

\* The archive page lists a message once at most, and only an archived one that
\* is unlabelled or waits for the workflow; it leaves one of these out only when
\* every list it is due in is at its limit without it (main.py, archive: "up to
\* 200 unlabelled archived messages", the waiting ones "*always* included").
ArchiveListsOnce ==
    \A lists \in ArchiveAnswers(rows), m \in DOMAIN rows :
        LET ls == rows[m].labels
            filed == {"INBOX", "TRASH", "SPAM"} \cap ls = {}
            due == {i \in 0..Len(WorkflowLabels) :
                       filed /\ IF i = 0 THEN ls \subseteq SystemLabelIds \cup CategoryLabels
                                ELSE WorkflowLabels[i] \in ls}
        IN  /\ TimesListed(lists, m) <= 1
            /\ TimesListed(lists, m) = 1 => due # {}
            /\ TimesListed(lists, m) = 0 => \A i \in due : Cardinality(lists[i]) = ArchiveLimit

\* Whoever follows the page links of a search finds each message that
\* count_search counted for the form on one of the pages.  The form leaves out a
\* flag that is no filter, and so would the empty flag of a link be, by the
\* docstring of _parse_bool (main.py: "Parse '1', 'true', 'yes' -> True; '0',
\* 'false', 'no' -> False; else None").
PageLinksKeepSearch ==
    \A q \in Forms, perPage \in 1..Cardinality(Messages) :
        q.min_size_bytes = 0 =>
            LET found == Matches(rows, q)
                Page(k) == PageOf(IF k = 1 THEN found ELSE Matches(rows, PageLink(q)), perPage, k)
            IN  \A m \in found :
                    \E k \in 1..TotalPages(Cardinality(found), perPage) : m \in Page(k)

=============================================================================
