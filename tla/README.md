# Verification of gmail_zero_app

TLA+ models of gmail_zero_app, a Flask application that mirrors a Gmail account
in a local SQLite database, shows what is left to be filed, and changes labels
(and nothing else) in the account. The models are translated from the Python
source; TLC checks them on small instances and TLAPS proves the main safety
properties for all instances.

Run them in this directory:

    tlc -config sync_overlap.cfg MCSyncEngine      # doc_high_water, doc_keeps_up
    tlc -config labels.cfg MCLabelOps              # doc_audit
    tlc -config together.cfg MCSyncAndLabels
    tlc -config demo.cfg MCDemoMode
    tlc -config lifecycle.cfg MCApplication
    tlc -config dashboard.cfg MCDashboard          # doc_page_links
    tlc -config registry.cfg MCLabelRegistry        # doc_label_lookup
    tlapm SyncEngineProofs.tla                     # and the other *Proofs.tla

## The system

| Part | State it keeps | Operations | Modelled in |
|---|---|---|---|
| Gmail account (`infrastructure/gmail`) | messages and their labels, historyId, the history Gmail still keeps, labels | list, get, history, profile, labels, modify, create label | `Mailbox`, the mock in `DemoMode` |
| Sync pipeline (`sync_service.py`) | variables of a run; rows, junction, registry, sync states | full sync, incremental sync | `SyncEngine`, with the label routes `SyncAndLabels` |
| Scheduler (`sync_scheduler.py`) | two APScheduler jobs with their fire times | start, shutdown; daily full sync, incremental sync with fallback | `Application` (when they start), `SyncEngine` (what they do) |
| Request lifecycle (`app.py`, `routes/`) | one session per request, committed or rolled back at teardown | POST /sync, POST /labels/create, label routes, pages; start and end of the application, in one process or, in debug mode, two | `SyncEngine` (the first two), `LabelOps` (label routes), `Application`, `Dashboard` and `LabelRegistry` (start) |
| Label operations (`label_service.py`) | none of its own; writes rows, junction, audit log | single, bulk, toggle | `LabelOps`, `LabelPromise` |
| Safety guard (`domain/safety`) | none | validate single, bulk, toggle | `SafetyGuard` |
| Label configuration (`label_config_service.py`) | key to id map | create missing labels at start | `LabelRegistry` |
| Dashboard and snapshots (`analytics_service.py`) | daily_snapshots | counts, upsert of the day, seeding; age chart; summary cards and other charts | `MessageTable`, `Dashboard` (not the cards and the other charts) |
| OAuth (`oauth.py`) | token file | load, refresh, authorise, save | `Application` |
| Search and lists (`search_service.py`, `message_repository.py`) | none that changes | filter, page, count, merge | `MessageTable` |
| Settings | none that changes | debug and demo mode | `Application` |
| Templates | none | rendering | see the end |

How they interact: the scheduler's threads and the request threads each build a
session and a SyncService or LabelService of their own over one SQLite file and
one Gmail client. Nothing but SQLite's write lock orders them; nothing at all
orders their Gmail calls, and the owner of the account, other clients and Gmail
itself change the mailbox at any time. What makes the system hard to test is
there: a change between two API calls, two runs that overlap, a run that stops
after some of its commits, a watermark that Gmail has forgotten, and the route
that catches a failed run and so lets the request commit the half that was
written.

What makes it correct, part by part:

* sync: no change is lost for good; rows are what Gmail said, never a mixture;
  an expired watermark is replaced;
* junction and registry: a label query finds what `raw_label_ids` would find;
* both together: full syncs repair what runs and requests did to each other's rows;
* label operations: only allowed changes reach Gmail; rows and audit log get all
  of a request or nothing; a lock is given back;
* snapshots: an undisturbed count is exact, and the row of the day settles at the
  figures of the labels; demo history is complete whenever the server runs;
* lists, pages and the age chart: no message is repeated, or lost but at a limit;
* application: one scheduler on one database, which comes back after any end and
  keeps starting both jobs; nobody signs in twice without a reason;
* managed labels: they exist, under the cached ids, whenever the server starts; the
  registry follows Gmail.

## Modules

`Mailbox` is the environment. A message is the historyId of its last change (its
version) and its labels; the other fields never change in Gmail. `Arrive`,
`Relabel`, `Expunge`, `CreateLabel` and `ForgetHistory` are what happens there
without the application. What the mock client implements is translated from it;
deletion and expiry exist only in the real service and are modelled from the way
`SyncService` meets them.

`SyncEngine` EXTENDS `Mailbox` with the database tables (`rows` is `messages`,
`junction` is `message_labels`, `registry` is `labels`, `syncState` is what
`latest()` returns of `sync_states`) and, for each caller, the
local variables of its run:

| Code | Action |
|---|---|
| `_run_full_sync`, `sync_now` with "full" | `BeginFull` |
| `_run_incremental_sync_with_fallback`, `sync_now` with "incremental" | `BeginIncremental`, `AfterError` |
| the list/batch loops of `run_full_sync` | `ListPage`, `Fetch`, `StoreBatch` |
| its steps 3 to 6 | `SyncRegistry`, `SelectLabels`, `RebuildJunction`, `GetProfile`, `SaveState`, `WriteSnapshot` |
| `run_incremental_sync` | `HistoryPage`, `Fetch`, `StoreBatch`, `SaveState`, `WriteSnapshot` |
| a deleted message, an expired watermark, any other error, a crash | `FetchGone`, `HistoryExpired`, `StepFails`, `Crash` |
| the commit at teardown after a failed run of the route | `HalfBatchCommitted`, `HalfRegistryCommitted`, `HalfJunctionCommitted` |
| `create_label` route | `CreateLabel` in Gmail, then `RegisterLabel` |

Every API call and every commit is a step, so that everything else can happen
between any two of them; the statements of one transaction are one step, since
nobody sees them before the commit. A transaction begins at its first write, so
the query of the label ids that precedes the DELETE of the junction rebuild is a step of its own
(`SelectLabels`): a label that is registered in between is not in the junction that the
rebuild makes, and the rows with it wait for the next one (`LabelledSince`). The callers are the two jobs
and any number of POST /sync requests, and nothing keeps their runs apart. Three history variables record what a reader
of the database cannot see: `dirty` (in a run) and `missed` are the messages
that changed, or got an older answer from another run, after a full sync had passed
them, or since, and `unindexed` the rows whose junction entries are not made anew since they were
written, or were made without a label that is registered by now, or were deleted by a run that broke.

`SafetyGuard` has the checks of `guard.py` as operators and the three ways they
are combined. A refusal is all that matters of an exception: which check comes
first and what it says is left out.

`LabelOps` EXTENDS `Mailbox` and `SafetyGuard` with the two kinds of request that
change messages: a toggle (`apply_label`, `toggle_label_operation`) and a bulk
operation (`remove_to_archive`, `apply_bulk_label_operation`). Both expand into
`apply_label_operation` for one message after the other. `req[r]` is what request
`r` has in its local variables, `tx` the SQLite transaction of the request
that holds the write lock (`writer`):

| Code | Action |
|---|---|
| the route, the request's validation and the guard | `BeginToggle`, `BeginBulk` |
| `get_by_id`, the choice of add or remove, the guard once more | `Resolve`, `SkipUnknown`, `ToggleUnknown` |
| `modify_message_labels` | `Modify`, `ModifyGone` |
| `update_labels`, `sync_message_labels`, the audit entry | `Update`, `DatabaseLocked` |
| the teardown | `Commit`, `CommitFails`, `EndUnwritten`, `RaiseSummary` |
| any other error, a crash | `StepFails`, `Crash` |

Two details of the code decide what a reader of the database sees. Flask's
teardown commits the session when the exception was handled (a refusal by the
guard) and rolls it back when it was not. And the session does not flush before
queries: the DELETE of the junction is executed at once, the new entries wait
(`added`) for the commit. `open` (what a request has changed in
Gmail so far) and `settled` (rows nobody else changed since a request wrote them)
are history variables.

`SyncAndLabels` puts the two together: it EXTENDS `SyncEngine`, takes `LabelOps` as
an instance over the same mailbox, rows, junction, registry and failures, and has an
action for each way in which their steps meet:

| Code | Action |
|---|---|
| a run reads, or commits while nobody else writes | `RunAdvances` |
| a run waits at a commit for longer than `busy_timeout` | `RunLocked` |
| a request changes a message that a run may have passed by | `RequestModifies`, `RequestRefused` |
| the teardown of a request stores its answers | `RequestCommits` |
| everything else in a request or run; the end of the process | `BeginRun`, `RunFails`, `BeginRequest`, `RequestAdvances`, `RequestFails`, `ProcessDies` |
| what a broken manual sync leaves, POST /labels/create | `OtherWrites` |

`Overtaken` is what the composition adds: a request commits the answer it got before
it waited for the lock, so it can put an old row over a newer one. Such messages
count as `missed`, or as `dirty` in a full sync that has passed them by.

`DemoMode` is the same process on `MockGmailClient`: the account is in memory and starts
anew with the process (`MockRestarts`) while the database stays; history is one
answer cut at a limit (`MockHistory`); the mock takes any label and forgets and deletes
nothing.

`LabelPromise` is the abstract specification: Gmail receives permitted changes one
by one; the rows and the audit log receive all changes of a request in one step,
or nothing. It has no lock, no transaction, no session and no guard.

`Tables` has the upsert that all repositories use, as an operator on functions.
`MessageTable` has the read side as operators over one table of rows: the boolean
columns (`MadeFlags` of `make_message`, `UpdatedFlags` of `update_labels`, which
the code writes twice), the seven queries of a snapshot, the thread stubs, the
filters of the search with its dates, the requests of its form and of its page links
(`Forms`, `PageLink`), the pages, the merge of the archive page from lists that are each cut
at `ArchiveLimit` (200 in the code; which rows a cut list holds is left open) and
the age chart. `UpdatedFlags` is written out and not defined by `MadeFlags`, as in the code, so that
the two could differ. Time is counted in instants, `DayLength` of them a day and
`YearLength` days a year: all years are equally long, which the cuts do not depend on.
`FiguresOfLabels` is the reference: the same figures from the labels Gmail
reported.

`Dashboard` EXTENDS both with the tables `messages` (`rows`), `threads` and
`daily_snapshots`, the calendar and the start of a demo instance. It has every
commit and every query of `_write_snapshot` as a step; how a run comes by the
messages it stores is left open (any answer of Gmail), since `SyncEngine` has it:

| Code | Action |
|---|---|
| `create_app`, `_seed_demo_snapshots` | `StartApp`, `SkipSeeding`, `ClearSnapshots`, `SeedSnapshots` |
| a job or POST /sync starts; the loop of batches; the watermark | `BeginSync`, `StoreBatch`, `SaveState` |
| `_write_snapshot`: one query, and the upsert with its commit | `Count`, `WriteSnapshot` |
| the commit of a label operation | `LabelOperation` |
| the commit at teardown after a failed POST /sync; an error; a crash | `HalfBatchCommitted`, `StepFails`, `Crash` |
| midnight | `NextDay` |

`disturbed` is a history variable: another commit has changed the table since the
first query of a run. SQLite gives each query outside a transaction a state of its
own, and after the commit of the watermark no transaction is open.

`LabelRegistry` models labels alone, at the detail `SyncEngine` leaves out: ids
and names. `gmail` is the account, `registry` the table `labels`, `existing` and
`keyToId` the variables of `ensure_labels_exist`:

| Code | Action |
|---|---|
| `create_app` up to `ensure_labels_exist`; a new `MockGmailClient` in a demo | `StartApp` |
| `list_labels`, the loop over `labels.toml`, the server starts | `ListExisting`, `KeepLabel`, `CreateMissing`, `CreateRefused`, `Serve` |
| step 3 of a full sync | `ListLabels`, `WriteRegistry`, `SyncFails` |
| POST /labels/create | `CreateLabel`, `RegisterLabel`, `RegisterFails` |
| the owner, a crash | `OwnerCreates`, `OwnerRenames`, `OwnerDeletes`, `Crash` |

Gmail refuses a second label of one name, the mock answers with the one it
has: `demo` tells them apart, and both are initial states.

`Application` models the life of the application around all this: how it starts,
what runs its jobs, and how it ends. `phase[p]` is how far process `p` is in
`create_app`; `token` is the token file; `scheduler`, `until`, `due` and `active` are
the `SyncScheduler` of each process, the fire times and the running jobs of
APScheduler:

| Code | Action |
|---|---|
| `__main__`, the reloader of debug mode | `Boot` |
| `_seed_demo_snapshots`, whose writes are in `Dashboard` | `SeedHistory` |
| `get_credentials`: phase 1 | `LoadToken`, `TokenMalformed` |
| phase 2 | `RefreshToken`, `RefreshFails`, `TokenSaved` |
| phase 3 | `Consent`, `ConsentFails`, `TokenSaved` |
| `_validate_scopes` | `ScopesForbidden` |
| the label bootstrap, `should_start_scheduler`, `scheduler.start`, `app.run` | `EnsureLabels`, `EnsureLabelsFails` |
| the timer thread of APScheduler; a job function returns | `Fire`, `RunEnds` |
| atexit, `shutdown(wait=True)` | `Stop`, `Exit` |
| processes are killed; time passes; the computer sleeps | `Die`, `ParentDies`, `Tick`, `SleepsOrWakes` |
| Google, the user | `TokenExpires`, `GrantRevoked`, `UserRepairs` |

In debug mode the reloader's parent ends when its child does, so a child that is killed takes the
parent with it (`Die`). A parent that is killed alone leaves its child at work, with its scheduler and
its port (`ParentDies`): the child is then the `orphan`, and a new parent runs `create_app` but
does not get the port, so it starts no child (`PortFree`).

Saving a token is two steps, since the file is truncated before it is written.
`signedIn` and `nightly` are history variables: what the user has done, and what became
of the last daily fire time. The job functions log every exception, so that a job always ends
(`RunEnds`); what it does is in `SyncEngine`.

The `MC` modules hold the model values and the small tables.
The `Proofs` modules hold the theorems.

## What the runs check

| Run | Question | Result |
|---|---|---|
| `sync_overlap` | with a scheduled and a manual run that overlap, fail and crash: is the junction exact outside the rows waiting for a rebuild, is each row one answer of Gmail, is every change the watermark covers in the rows, is an expired watermark replaced, does a full sync repair every loss? | holds, the last two under fairness; rows that another run set back count as missed |
| `together` | with the sync runs of one caller beside a label request: is every change the watermark covers in the rows, is the junction exact, do full syncs settle rows, registry and junction, also when a request locks them out? | holds, but for changes that overtake a full sync or the answer of a request; the last under fairness |
| `demo` | do they on the mock, with its cut history and its restarts? does a request land whole beside a run? | holds, the first under fairness |
| `doc_high_water` | is the watermark a high-water mark of the rows? | no: a change between the fetch and `get_profile` |
| `doc_keeps_up` | do incremental syncs catch up again and again? | no: a deleted message stops them until a full sync |
| `labels` | with two requests in parallel: does the guard keep Gmail from forbidden changes, is it asked in time, do rows and audit log get all or nothing of a request (`LabelPromise`), are settled rows as Gmail has the messages, is the write lock given back? | holds, the last under fairness |
| `doc_audit` | is every change in Gmail in the audit log? | no: a rollback takes the entries with it |
| `dashboard` | are snapshots exact and do they settle, is a demo instance seeded, has every message its thread, does the archive page repeat a message or leave one out below its limit, is each message in the bar of its year? | holds, settling under fairness |
| `registry` | do the managed labels exist after any start, does the registry know them, does the start complete, does the registry catch up? | holds, the last two under fairness |
| `lifecycle` | do two schedulers ever run, is a run cut off by an orderly end, is anybody asked to sign in again, is a sleep within the grace time tolerated; does the scheduler come back, do both jobs keep starting? | holds, the last two under fairness |
| `doc_page_links` | do the page links of a search show what its form found? | no: they send empty flags, which select the messages without the flag |
| `doc_label_lookup` | is a label name looked up as one label or none? | no: a label that was deleted and created again has two rows |

Bounds. `MaxHistory` bounds the changes in the account, `MaxFailures` the errors
and crashes, `PageSize` and `BatchSize` the two loops, `MaxIds` the ids of a form.
In `sync_overlap` two messages and one change are enough for the change to overtake a
run and to be missed, and for the other run to set its row back; with pages of one the loops
go round more than once. A second change, which supersedes the first or follows an answer that
was overtaken, is in `together`.
One incremental job and one manual caller are enough for runs to overlap in each way: a run of
either kind, and the fallback, can commit an older batch or watermark after the other. The model takes any
number of manual callers, and the proofs hold for all of them; a third caller multiplies the states
beyond what a run of some minutes can visit.
One failure or crash at any step shows every partial state, since the state after it is again
an initial situation for the next run.

In `together` one message is named by a request, changed by others as well, and synced by
runs of either kind of one caller, with a label that is not registered yet: an answer that is
overtaken needs no second message, overlapping runs are in `sync_overlap`, and repeated ids in
`labels` and `demo`. A hidden label
(trash), by which a message leaves the list and comes back, is in `labels` only: with it `together`
takes longer than five minutes. The proofs hold for any hidden labels. `demo` has two messages and a limit of one, the least at
which a history answer drops a change for good; its forms name up to two, so that a run can store one while the
request holds its answer for the other, and two failures are a restart of the mock and an error. Deletions and expiry
happen in all of these but `demo`. Both use a manual caller: it starts runs of either kind, and
`DatabaseSettles` assumes that full syncs are started again, whoever does it. Runs and requests of larger instances take hours, which is why there are
several runs and not one; the proofs below cover any instance of `SyncEngine` and `SyncAndLabels`.

For label operations, up to three ids in a form over two messages give a repeated id, each order, and a
form beyond its limit of two; a hidden and protected label (trash) and a user label distinguish
what the guard tells apart, and a request with more labels than the limit of one is refused.
A label that may be added but not removed makes the instance too large for a run of some
minutes; `ToggleCoversBoth` and `RefusedInTime` cover it, as they hold for any labels.
One error at any step gives every partial request.
Two requests are enough for one that waits for the lock while the other still
calls Gmail, and for two answers that are written in the wrong order. Requests are
one-shot, so this model may stop (`CHECK_DEADLOCK FALSE`); `WriteLockReleased` is what
must not get stuck.

In `lifecycle` a day has four ticks and the incremental job is due every second one, so that
both are due together, and apart; the processes are all there are, in debug mode or not; the grace of one tick lets a late daily job run
and a later one be missed; two failures are enough for one that truncates or deletes the token and one
while that is repaired; one stop is a reload or an exit.

In `dashboard` two messages share a thread and their label sets put them in the
inbox, in the trash, among the archived and unlabelled, and among those that wait
for one or two workflow steps; with `ArchiveLimit` at one, the lists of the archive page hold all, or are
cut; one commit that changes the table and one failure
can fall between any two of the fourteen queries of two runs; a demo history of
two days can be missing, incomplete (one day, left by an older version) or complete; one
midnight can fall anywhere. The older message is of the last instants of a year and the newer one of the
first of the next: a day has two instants, a year two days, and the chart is read on every day
of the run (367,735 states). A batch holds one message: batches of two double the states and change rows
that the seven queries read all the same. The searches of `doc_page_links` are those of the form, with a date that a message is of or none. In `registry` two config keys share a name, as
`labels.toml` allows, the mock lacks one managed label, and two changes by the owner
are enough to delete and re-create, or to rename to and fro; one form request is
served at a time.

Fairness (`FairSpec`): a thread that can take its next step takes it (`Advance`
is weakly fair per caller), and APScheduler starts each of its jobs again and
again. Nothing is assumed of the manual caller, of the mailbox, or of failures.
The mailbox becomes quiet because `MaxHistory` bounds it.
`FullSyncsHeal` and `DatabaseSettles` say under which condition they hold: full syncs
begin again and again, which `JobsKeepStarting` shows of the daily job.
In `LabelOps` each request's thread is weakly fair; SQLite answers a request that
waits for the lock with an error after its timeout, so waiting is a step, too. `SyncAndLabels`
and `DemoMode` have both, with the same timeout for runs.
In `Application` the user starts the application when it does not run and does what its errors ask
for (weakly fair, and strongly for `UserRepairs`, since a start comes between); jobs end; time passes;
access tokens expire. That the computer stays awake is a premise of the two properties, and
nothing is assumed of failures, stops and revocations but their bounds.

In `Dashboard` only runs that have begun and the scheduler's jobs are fair; commits
end because `MaxChanges` bounds them. In `LabelRegistry` a process that is down is
started again by its operator: `StartCompletes` says that this is all it takes.

Left out. The reading of headers, dates, subjects and snippets, rendering, the sender and label charts, the
list of old threads, the search by label, and what the Google client library does when two threads
share a connection. Of the application's processes: a user who starts it a second time outside
debug mode has two schedulers until the second `app.run` finds the port taken, since
`create_app` starts the scheduler before (`app.py:241`, `:463`); and nobody changes the
setting of debug mode while an orphan is there.

Findings. Each `doc_` run quotes a sentence of the repository that the code does
not keep; `PROJECT.json` has the lines. More observations have no run.
After a full sync that failed between a batch and the junction rebuild,
`message_labels` stays behind `raw_label_ids` until the next full sync
(`unindexed` is this set). And an id that is twice in one toggle request is
toggled twice, while its second junction update cannot see the pending rows
of the first (`label_repository.py:157-177` with `autoflush=False`,
`database.py:117`): `HandledTwice` adds such messages to `unindexed`.
With requests in parallel the answer written last need not be Gmail's last one:
`SettledRowsMatch` is about messages that nobody changed after the request that wrote
them, and the others wait for a full sync. The manual route shows an expired
watermark as an error and runs no full sync (`main.py:209`), although the
application's README promises a fallback. A bulk request ends at the first message that
Gmail refuses (`label_service.py:215`). The coverage can exceed 100 % when a commit
comes between its two counts (`message_repository.py:717-725`), until the next
snapshot of the day. A thread's stub goes back to an older message when that is stored
last (`sync_service.py:339`). A label that the settings form registers between the two queries of a
junction rebuild stays out of the junction until the next rebuild (`label_repository.py:196-201`:
the SELECT of the ids precedes the transaction of the DELETE). When runs overlap, the one that
commits last may take the watermark back to an older one: the next incremental sync then
fetches some changes again, which is harmless. The rows it may set back are not: they wait for
a full sync (`missed`). The page links of the search also leave out `min_size_bytes` (`search.html:187-189`), so the
pages after the first are those of another search. The archive page shows the count of all
unlabelled messages beside a list of 200, and its comment calls the workflow messages always
included although their lists are cut, too (`main.py:330`, `:337`). `date_to` selects nothing after the first instant of
its day, although it is called inclusive (`main.py:493`, `:521`). The progress charts of 30 days
show 31 (`snapshot_repository.py:94-97`). The grace hour of the daily job is said to tolerate
a restart (`sync_scheduler.py:124`): the job store is in memory, so a process that is down at the hour
misses the job, and `SleepTolerated` is about sleep only. `revoke` of the OAuth handler is not called
from anywhere. And the
demo snapshots have the trends the wrong way round: the inbox grows and the coverage
falls towards today (`app.py:111`, `:116`).

## What is proved

`SyncEngineProofs` proves, for any sets of messages, labels and callers, any
page and batch size, runs that overlap in any way, and any number of failures:

* `TypeCorrect`: `Spec => []TypeOK`;
* `JunctionIsExact`: `Spec => []JunctionExact`. It is inductive with `TypeOK` and
  `IdsRegistered`: the label ids a rebuild has read are still registered when it inserts them, so
  that what its junction lacks are the labels registered since, whose rows are `LabelledSince`;
* `RowsAreAnswers`: `Spec => []RowsComeFromGmail`, through the invariant
  `Provenance`: the answers that wait in a batch must be answers of Gmail too,
  and no message may be newer than the mailbox (`Sources`), so that its next change
  gets a version nobody holds (`AnswersAge`).

`SyncWatermarkProofs` proves, of the same instances:

* `NothingIsLostSilently`: `Spec => []NoSilentLoss`.

It follows from `WatermarkInv` (with `TypeOK` and `Sources`): every run is `Sound`, whatever the
others do. Its variables are empty when they are not in use (`Shape`: a full sync that goes on to the
registry has nothing left to list, fetch or store); what it has read of the historyId is not ahead of the
mailbox (`Known`); and it `Covers` each visible message: the message is still to be fetched, is dirty,
or changed after what the run has read (`Excused`), or the answer that waits in
its batch, or else the row, is as Gmail has it, or, in an incremental run, the message is missed
already. What `Covers` says when a run is at its last step is `NoSilentLoss` for the new
watermark, whichever run recorded the one before. What another run does to the rows in between is
the hard part (`OthersStaySound`): its commit either stores what Gmail has, or an older answer, and
then it notes the message as missed, and as dirty in every full sync that has passed it (`GoesOn`,
`PassedBy`).
TLC has checked `WatermarkInv`, `Sources` and `IdsRegistered` on the instance of `sync_overlap`.
That the watermark only grows is not an invariant and not claimed: see the observations.

`LabelOpsProofs` proves of the guard that an accepted toggle or bulk operation passes it
again at each of its messages (`ToggleCoversBoth`, `BulkCoversEach`), and that the check
against archiving adds nothing to the check of protected labels
(`ArchiveCheckIsImplied`): what the code relies on when it validates first and
calls `apply_label_operation`, which validates again, for each message. Of the requests it
proves, whether they run in parallel or not, with repeated ids or not, and
any messages, labels, limits and failures:

* `TypeCorrect`: `Spec => []TypeOK`, with `IdsLeft`: a request that works on a
  message has its id;
* `RefusedInTime`: `Spec => []RejectedBeforeAnyCall`, through `GuardInv`: a request
  that runs was accepted, so by the lemmas about the guard no later check of it
  refuses;
* `NothingForbiddenReachesGmail`: `Spec => OnlyPermittedChanges`, from the same
  invariant: whichever way a possibly stale row makes a toggle go, the change is
  permitted;
* `ImplementsPromise`: `Spec => KeepsPromise`. `PromiseInv` says what the working
  copy owes: what the writer has open is what it has written, but for the one
  answer that waits (`OpenIsWritten`); a waiting answer is newer than what the
  request wrote before (`AnswerIsNewest`); no version is ahead of the mailbox
  (`VersionsAreOld`); and the rows of the copy are the committed ones with the
  newest open change of each message (`RowsFollow`), so that a commit is
  `Publish` and any other end is `Forget`;
* `SettledRowsAreRight`: `Spec => []SettledRowsMatch`. On top of `PromiseInv` it needs
  `AsAnswered`: a change that a request has open and whose version is still the message's
  has the message's labels. The commit leaves the newest open change of each message in its
  row (`RowsFollow`), so the rows that become settled are right.

`SyncAndLabelsProofs` proves of runs and requests together, for any callers, requests,
pages, batches, limits and failures:

* `SystemTypeCorrect`: `SystemSpec => []SystemTypeOK`;
* `JunctionStaysExact`: `SystemSpec => []JunctionExact`;
* `WholeRequestsLand`: `SystemSpec => RequestsLandWhole`;
* `NothingIsLostBesideRequests`: `SystemSpec => []NoSilentLoss`.

The many actions come down to a few kinds of steps (`SystemKinds`): something beside the
requests, which does not write while one of them has the lock; a request that prepares,
calls Gmail, updates or ends unwritten; a commit; the end of all requests. The commit
is the hard one, since it writes rows that were computed before the lock was free, over rows that
runs have stored. `RequestInv` says what it will write: what a request
has changed in Gmail is in its transaction, but for one waiting answer (`OpenIsWritten`), which
is newer (`AnswerIsNewest`); an open change of the message's own version has its labels
(`AsAnswered`); and the rows and junction rows of the transaction are the committed ones
with the newest open change of each message (`TxFollows`), because nobody else writes
while the lock is held. So a commit writes the newest change of each message that the request
handled and nothing else (`CommitEffect`), and a row that it takes back is one that it has
`Overtaken`, which is noted as missed, or as dirty in every full sync that has
still to record (`WatermarkInvCommit`). `Sources` and `WatermarkInv` are those of the
runs alone, and the steps of the runs are cited from `SyncEngineProofs` and
`SyncWatermarkProofs`. The lemmas about requests are stated anew with `Ops!`,
since the prover does not see the theorems of an instance. TLC has checked
`RequestInv`, `Sources` and `WatermarkInv` on the instance of `together`.

`DashboardProofs` proves, for any messages, labels, sizes, callers and batches:

* `DashboardTypeCorrect`: `Spec => []TypeOK`. The figures of a snapshot are naturals: a
  thread has a newest message (`NewestExists`), a sum of sizes and a rounded coverage are no
  less than zero, and no demo day is further back than 90. A fold is
  a recursive function, and an induction over sets is out of reach as a rule with
  an operator for a parameter; but a set of counterexamples has a smallest member
  (`SmallestSet`), from which `SumsExist`, `SumsAgree` and `SizeSumNat` follow;
* `MessagesHaveThreads`: `Spec => []EveryRowHasItsThread`, which is inductive;
* `DemoHasHistory`: `Spec => []SeededWhenServing`, with the finiteness of the
  snapshots (`SeedInv`);
* `UndisturbedSnapshotExact`: `Spec => SnapshotIsExact`. `CountInv` says that the
  columns of every row are those its labels give, whichever of the two writers
  wrote it last (`RowsDerived`; `UpdatedAsMade` shows that the two derivations agree); that the answers of a run are those to the first
  queries, one each (`RunOk`); and that those of an undisturbed run agree with the
  table as it is (`Fresh`). When all seven are there, `AnswersGiveFigures` makes
  them the figures of the labels;
* `ArchiveHasEachOnce`: `Spec => []ArchiveListsOnce`, for any limit and any number of workflow labels:
  a message is added by the first answer that has it (`LeastOf`, `ListedOnce`) and by no
  other; an answer without it is to a query that does not select it, or it is cut at the limit;
* `AgeBarsAddUp`: `Spec => []AgeBarsPartition`, for years and days of any length:
  `YearBounds` turns the comparisons with the first instants of two years into a
  comparison of years.

`LabelRegistryProofs` proves, for any labels.toml and any account:

* `RegistryTypeCorrect`: `Spec => []TypeOK`;
* `ServesWithItsLabels`: `Spec => []ManagedLabelsExist`;
* `RegistryHasManagedLabels`: `Spec => []RegistryKnowsManaged`.

The last two follow from `IInv`. The id that Gmail gives next is nobody's
(`FreshId`), so a new label takes nothing away; then what a start has listed and
recorded stays true as long as the owner changes nothing (`StartInv`). No listing
and no form survives its process (`QuietUnlessUp`), so everything that waits to be
written is in Gmail, and a listing has all managed labels (`PendingAgrees`): written
in any order, and a failed one in any part, they leave the managed labels in the registry
(`RegistryInv`). TLC has checked `IInv` on the instance of `registry`.

`ApplicationProofs` proves, for any intervals, grace times and lengths of the day, and
any number of failures and stops:

* `TypeCorrect`: `Spec => []TypeOK`;
* `OnlyOneScheduler` and `NoRunOutlivesItsScheduler`, from `ProcessInv`: the child runs
  only while the parent watches it, and beside an orphan, which only a failure leaves, no new
  parent gets to serve (`Places`); a scheduler is only in a process
  that may start one and serves or stops (`SchedulerInPlace`);
* `AskedOnce`: `Spec => []OneSignIn`, through `TokenKept`: while nothing has failed, a user
  who has signed in has a good token or one that can be refreshed, and only the one
  process that starts can find it half-written (`OneStarts`);
* `SleepLosesNothingInTime`: `Spec => []SleepTolerated`, through `NightlyKept`: a daily fire
  time that is pending is due in some process, at the age that the clock shows, and that
  process is not running the job already. A child that is left alone keeps its timers
  (`NightlyLeftAlone`).

The assumptions are `MailboxAssumption`, `SyncAssumption`, `GuardAssumption`,
`LabelOpsAssumption`, `TableAssumption`, `DashboardAssumption`,
`SystemAssumption`, `RegistryAssumption` and `ApplicationAssumption`: bounds are naturals
(page and batch sizes, days and years positive), hidden labels are labels, `NoRequest` is no request, the archive trigger is
protected, what may not be added may not be removed either, the messages are finitely
many and no two of one date, an older database holds messages with labels Gmail may report and no more demo days
than are seeded, and those are 90 at most, as in the code (`app.py:107`): from
day 243 on the formulas of the synthetic figures would give a negative count. Config keys have names.

Every invariant and action property that a run checks is a theorem. What is model-checked only is
liveness, because fairness and ENABLED are out of the prover's reach:
`ExpiredHistoryRecovers`, `FullSyncsHeal`, `DatabaseSettles`, `WriteLockReleased`,
`SnapshotSettles`, `StartCompletes`, `RegistryCatchesUp`, `SchedulerComesBack` and
`JobsKeepStarting`.

## Plan

Done: `Mailbox`, `SyncEngine`, `SafetyGuard`, `LabelOps`, `LabelPromise`,
`SyncAndLabels`, `DemoMode`, `MessageTable`, `Dashboard`, `LabelRegistry`,
`Application` and their theorems. What could follow, in this order:

1. The join of the search with `message_labels`, and the list of old threads.
2. The sender and label charts of the dashboard.
3. `SyncAndLabels` as an implementation of `LabelPromise` with sync runs as further
   writers, in one abstract specification of the local copy.
