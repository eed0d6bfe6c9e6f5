----------------------------- MODULE Application -----------------------------
(***************************************************************************)
(* The life of the application: create_app with the OAuth token it needs,  *)
(* the SyncScheduler it starts, and the two processes of debug mode, under *)
(* crashes, failing calls, a computer that sleeps and a user who revokes   *)
(* the grant.  What the jobs and the routes do once the application serves *)
(* is in SyncEngine and LabelOps.                                          *)
(*                                                                         *)
(* Time is counted in ticks; the daily job is due when the clock is 0.     *)
(* The timer is APScheduler's: job store in memory, max_instances 1,       *)
(* coalesce.  It is modelled from the way the code configures it.          *)
(***************************************************************************)
EXTENDS Integers

CONSTANTS
    DayLength,             \* ticks of a day
    IncrementalInterval,   \* incremental_interval_minutes
    FullGrace,             \* misfire_grace_time of the daily job
    IncrementalGrace,      \* misfire_grace_time of the incremental job
    MaxFailures,           \* bound on crashes, failing calls and revocations
    MaxStops               \* bound on the times a process is stopped

ASSUME ApplicationAssumption ==
    /\ DayLength \in Nat \ {0}
    /\ IncrementalInterval \in Nat \ {0}
    /\ FullGrace \in Nat
    /\ IncrementalGrace \in Nat
    /\ MaxFailures \in Nat
    /\ MaxStops \in Nat

VARIABLES
    debug, demo,   \* settings: debug, is_demo
    client,        \* does credentials.json exist?
    token,         \* the token file
    grant,         \* the user's grant is in force
    phase,         \* phase[p]: how far process p is
    scheduler,     \* scheduler[p]: its SyncScheduler
    clock,         \* time of day
    asleep,        \* the computer sleeps
    until,         \* until[p]: ticks to the next incremental fire time
    due,           \* due[p][j]: age of the latest fire time not yet handled
    active,        \* active[p]: the jobs that are running
    failures, stops,
    signedIn,      \* history: a token was saved, and the grant not revoked since
    nightly        \* history: what became of the latest daily fire time

settings == <<debug, demo>>
tokenVars == <<client, token, grant, signedIn>>
timerVars == <<until, due, active, nightly>>
timeVars == <<clock, asleep>>
vars == <<settings, tokenVars, phase, scheduler, timeVars, timerVars,
          failures, stops>>

\* In debug mode the process that was started only watches the source files
\* and runs the application in a second one, which is left alone when the first
\* is killed.
Processes == {"parent", "child", "orphan"}

Jobs == {"full_sync_daily", "incremental_sync"}

\* Saving the token of a refresh, or of a consent; the file is truncated then.
Saving == {"saveRefreshed", "saveConsented"}

Starting == {"seed", "token", "refresh", "consent", "labels"} \cup Saving

\* "forbidden": a token that is found to hold one of FORBIDDEN_SCOPES.
Tokens == {"absent", "valid", "expired", "malformed", "forbidden"}

NotDue == -1

TypeOK ==
    /\ debug \in BOOLEAN /\ demo \in BOOLEAN
    /\ client \in BOOLEAN /\ grant \in BOOLEAN /\ signedIn \in BOOLEAN
    /\ token \in Tokens
    /\ phase \in [Processes -> Starting \cup {"off", "serving", "stopping"}]
    /\ scheduler \in [Processes -> {"off", "running", "stopping"}]
    /\ clock \in 0..DayLength - 1
    /\ asleep \in BOOLEAN
    /\ until \in [Processes -> 1..IncrementalInterval]
    /\ due \in [Processes -> [Jobs -> NotDue..FullGrace + IncrementalGrace + 1]]
    /\ active \in [Processes -> SUBSET Jobs]
    /\ failures \in Nat /\ stops \in Nat
    /\ nightly \in {"served", "pending", "excused"}

Idle == [j \in Jobs |-> NotDue]

\* Nothing runs, and nobody has signed in.
Init ==
    /\ debug \in BOOLEAN /\ demo \in BOOLEAN
    /\ client \in BOOLEAN
    /\ token = "absent"
    /\ grant = FALSE
    /\ phase = [p \in Processes |-> "off"]
    /\ scheduler = [p \in Processes |-> "off"]
    /\ clock \in 0..DayLength - 1
    /\ asleep = FALSE
    /\ until = [p \in Processes |-> IncrementalInterval]
    /\ due = [p \in Processes |-> Idle]
    /\ active = [p \in Processes |-> {}]
    /\ failures = 0 /\ stops = 0
    /\ signedIn = FALSE
    /\ nightly = "excused"

-----------------------------------------------------------------------------
(* The end of processes.                                                   *)

\* With a scheduler go its timers: the job store is in memory.
Forget(ps) ==
    /\ scheduler' = [p \in Processes |-> IF p \in ps THEN "off" ELSE scheduler[p]]
    /\ until' = [p \in Processes |-> IF p \in ps THEN IncrementalInterval ELSE until[p]]
    /\ due' = [p \in Processes |-> IF p \in ps THEN Idle ELSE due[p]]
    /\ nightly' = IF \E p \in ps : scheduler[p] # "off" /\ nightly = "pending"
                  THEN "excused" ELSE nightly

Gone(ps) ==
    /\ phase' = [p \in Processes |-> IF p \in ps THEN "off" ELSE phase[p]]
    /\ active' = [p \in Processes |-> IF p \in ps THEN {} ELSE active[p]]
    /\ Forget(ps)

\* create_app raises.  The watching process ends with its child.
StartFails(p) ==
    /\ IF p = "child" THEN Gone({"parent", "child"}) ELSE Gone({p})
    /\ UNCHANGED <<settings, client, signedIn, timeVars, stops>>

Fault == failures < MaxFailures /\ failures' = failures + 1

\* Power loss; the terminal is closed, or a child is killed and the watching
\* process ends with it; an orphan is killed.
Die ==
    /\ Fault
    /\ \E ps \in {Processes, {"parent", "child"}, {"orphan"}} :
          (\E p \in ps : phase[p] # "off") /\ Gone(ps)
    /\ UNCHANGED <<settings, tokenVars, timeVars, stops>>

\* The child and what it has become the orphan's.
LeftAlone(f, none) == [f EXCEPT !["orphan"] = f["child"], !["child"] = none]

\* The watching process is killed alone.
ParentDies ==
    /\ Fault
    /\ phase["child"] # "off"
    /\ phase' = [LeftAlone(phase, "off") EXCEPT !["parent"] = "off"]
    /\ scheduler' = LeftAlone(scheduler, "off")
    /\ active' = LeftAlone(active, {})
    /\ until' = LeftAlone(until, IncrementalInterval)
    /\ due' = LeftAlone(due, Idle)
    /\ UNCHANGED <<settings, tokenVars, timeVars, nightly, stops>>

-----------------------------------------------------------------------------
(* create_app, in its order.                                               *)

Boot(p) ==
    /\ phase[p] = "off"
    /\ ~asleep
    /\ p # "orphan"
    /\ p = "child" => debug /\ phase["parent"] = "serving"
    /\ phase' = [phase EXCEPT ![p] = IF demo THEN "seed" ELSE "token"]
    /\ UNCHANGED <<settings, tokenVars, scheduler, timeVars, timerVars,
                   failures, stops>>

\* The history that _seed_demo_snapshots writes is in Dashboard.
SeedHistory(p) ==
    /\ phase[p] = "seed"
    /\ phase' = [phase EXCEPT ![p] = "labels"]
    /\ UNCHANGED <<settings, tokenVars, scheduler, timeVars, timerVars, failures, stops>>

\* Mutant: an expired token is not refreshed.
AfterLoadNoRefresh == IF token = "valid" THEN "labels" ELSE "consent"

\* get_credentials, phase 1.
AfterLoad ==
    CASE token = "valid" -> "labels"
      [] token = "expired" -> "refresh"
      [] OTHER -> "consent"

LoadToken(p) ==
    /\ phase[p] = "token"
    /\ token \notin {"malformed", "forbidden"}
    /\ phase' = [phase EXCEPT ![p] = AfterLoad]
    /\ UNCHANGED <<settings, tokenVars, scheduler, timeVars, timerVars,
                   failures, stops>>

\* "Delete it and re-authorise."
TokenMalformed(p) ==
    /\ phase[p] = "token"
    /\ token = "malformed"
    /\ StartFails(p)
    /\ UNCHANGED <<token, grant, failures>>

\* Phase 2, as far as the truncation of the file.
RefreshToken(p) ==
    /\ phase[p] = "refresh"
    /\ grant
    /\ token' = "malformed"
    /\ phase' = [phase EXCEPT ![p] = "saveRefreshed"]
    /\ UNCHANGED <<settings, client, grant, signedIn, scheduler, timeVars,
                   timerVars, failures, stops>>

\* Whatever fails in phase 2: the token file is deleted.
RefreshFails(p) ==
    /\ \/ phase[p] = "refresh" /\ ~grant /\ UNCHANGED failures
       \/ phase[p] \in {"refresh", "saveRefreshed"} /\ Fault
    /\ token' = "absent"
    /\ phase' = [phase EXCEPT ![p] = "consent"]
    /\ UNCHANGED <<settings, client, grant, signedIn, scheduler, timeVars,
                   timerVars, stops>>

\* Phase 3: the user consents in the browser.
Consent(p) ==
    /\ phase[p] = "consent"
    /\ client
    /\ grant' = TRUE
    /\ token' = "malformed"
    /\ phase' = [phase EXCEPT ![p] = "saveConsented"]
    /\ UNCHANGED <<settings, client, signedIn, scheduler, timeVars, timerVars,
                   failures, stops>>

\* No credentials.json, no consent, or the token cannot be written: what is in
\* the file by then stays there.
ConsentFails(p) ==
    /\ \/ phase[p] = "consent" /\ ~client /\ UNCHANGED failures
       \/ phase[p] \in {"consent", "saveConsented"} /\ Fault
    /\ StartFails(p)
    /\ UNCHANGED <<token, grant>>

SaveToken(p) == token' = "valid"

TokenSaved(p) ==
    /\ phase[p] \in Saving
    /\ SaveToken(p)
    /\ signedIn' = grant
    /\ phase' = [phase EXCEPT ![p] = "labels"]
    /\ UNCHANGED <<settings, client, grant, scheduler, timeVars, timerVars,
                   failures, stops>>

\* _validate_scopes: the token stays, and each start is refused until the user
\* has deleted it.  The scopes of a consent are the library's to report.
ScopesForbidden(p) ==
    /\ \/ phase[p] = "token" /\ token = "forbidden" /\ UNCHANGED <<token, failures>>
       \/ phase[p] = "saveConsented" /\ token' = "forbidden" /\ Fault
    /\ StartFails(p)
    /\ UNCHANGED grant

\* Mutant: also in the process that only watches.
StartsSchedulerAlways(p) == TRUE

\* Mutant: WERKZEUG_RUN_MAIN alone decides.
StartsSchedulerInChild(p) == p = "child"

\* should_start_scheduler.
StartsScheduler(p) == ~debug \/ p # "parent"

\* Mutant: the port can be shared.
PortFreeAlways(p) == TRUE

\* The child has the port of its parent, and an orphan keeps it.
PortFree(p) == p = "parent" => phase["orphan"] = "off"

\* The label bootstrap, then SyncScheduler.start, then the routes and app.run.
EnsureLabels(p) ==
    /\ phase[p] = "labels"
    /\ demo \/ grant
    /\ PortFree(p)
    /\ phase' = [phase EXCEPT ![p] = "serving"]
    /\ scheduler' = [scheduler EXCEPT ![p] = IF StartsScheduler(p) THEN "running" ELSE "off"]
    /\ UNCHANGED <<settings, tokenVars, timeVars, timerVars, failures, stops>>

\* Gmail refuses the token, or cannot be reached; or app.run finds the port taken.
EnsureLabelsFails(p) ==
    /\ phase[p] = "labels"
    /\ \/ ~demo /\ ~grant /\ UNCHANGED failures
       \/ ~PortFree(p) /\ UNCHANGED failures
       \/ Fault
    /\ StartFails(p)
    /\ UNCHANGED <<token, grant>>

-----------------------------------------------------------------------------
(* The scheduler.                                                          *)

\* Mutant: an hour that no day has.
FiresAtNeverDaily(p, j, now) ==
    IF j = "full_sync_daily" THEN now = DayLength ELSE until[p] = 1

FiresAt(p, j, now) ==
    IF j = "full_sync_daily" THEN now = 0 ELSE until[p] = 1

\* Fire times that pass while nobody handles them are coalesced; ages are
\* counted as far as they matter.
Aged(age) ==
    IF age = NotDue \/ age > FullGrace + IncrementalGrace THEN age ELSE age + 1

\* Mutant: the interval is not started again.
NextFireNoReset(n) == n - 1

NextFire(n) == IF n = 1 THEN IncrementalInterval ELSE n - 1

\* Awake, the timer thread handles a fire time at once.
Tick ==
    LET now == (clock + 1) % DayLength
        running == {p \in Processes : scheduler[p] = "running"}
    IN  /\ asleep \/ \A p \in running : due[p] = Idle
        /\ clock' = now
        /\ due' = [p \in Processes |->
              IF p \in running
              THEN [j \in Jobs |-> IF FiresAt(p, j, now) THEN 0 ELSE Aged(due[p][j])]
              ELSE due[p]]
        /\ until' = [p \in Processes |->
              IF p \in running THEN NextFire(until[p]) ELSE until[p]]
        /\ nightly' = IF now # 0 THEN nightly
                      ELSE IF \E p \in running : "full_sync_daily" \notin active[p]
                      THEN "pending" ELSE "excused"
        /\ UNCHANGED <<settings, tokenVars, phase, scheduler, asleep, active,
                       failures, stops>>

\* Mutant: APScheduler's default of one second for both jobs.
GraceDefault(j) == 0

Grace(j) == IF j = "full_sync_daily" THEN FullGrace ELSE IncrementalGrace

\* A job that still runs is skipped, one that is too late is missed.
Fire(p, j) ==
    /\ scheduler[p] = "running"
    /\ ~asleep
    /\ due[p][j] # NotDue
    /\ due' = [due EXCEPT ![p] = [@ EXCEPT ![j] = NotDue]]
    /\ IF j \notin active[p] /\ due[p][j] <= Grace(j)
       THEN /\ active' = [active EXCEPT ![p] = @ \cup {j}]
            /\ nightly' = IF j = "full_sync_daily" THEN "served" ELSE nightly
       ELSE UNCHANGED <<active, nightly>>
    /\ UNCHANGED <<settings, tokenVars, phase, scheduler, timeVars, until,
                   failures, stops>>

\* The handlers log every exception, so a job ends in any case.
RunEnds(p, j) ==
    /\ j \in active[p]
    /\ ~asleep
    /\ active' = [active EXCEPT ![p] = @ \ {j}]
    /\ UNCHANGED <<settings, tokenVars, phase, scheduler, timeVars, until, due,
                   nightly, failures, stops>>

\* The interpreter exits, or the source files changed: atexit calls
\* SyncScheduler.shutdown, which waits.
Stop(p) ==
    /\ phase[p] = "serving"
    /\ p = "parent" => phase["child"] = "off"
    /\ stops < MaxStops
    /\ stops' = stops + 1
    /\ phase' = [phase EXCEPT ![p] = "stopping"]
    /\ scheduler' = [scheduler EXCEPT ![p] = IF @ = "running" THEN "stopping" ELSE @]
    /\ UNCHANGED <<settings, tokenVars, timeVars, timerVars, failures>>

\* Mutant: shutdown(wait=False).
MayExitAtOnce(p) == TRUE

MayExit(p) == active[p] = {}

Exit(p) ==
    /\ phase[p] = "stopping"
    /\ MayExit(p)
    /\ phase' = [phase EXCEPT ![p] = "off"]
    /\ Forget({p})
    /\ UNCHANGED <<settings, tokenVars, timeVars, active, failures, stops>>

-----------------------------------------------------------------------------
(* What the user, Google and the computer do.                              *)

TokenExpires ==
    /\ token = "valid"
    /\ token' = "expired"
    /\ UNCHANGED <<settings, client, grant, signedIn, phase, scheduler,
                   timeVars, timerVars, failures, stops>>

GrantRevoked ==
    /\ grant
    /\ Fault
    /\ grant' = FALSE
    /\ signedIn' = FALSE
    /\ UNCHANGED <<settings, client, token, phase, scheduler, timeVars,
                   timerVars, stops>>

\* The user does what the error messages say, with no process running.
UserRepairs ==
    /\ \A p \in Processes : phase[p] = "off"
    /\ \/ token \in {"malformed", "forbidden"} /\ token' = "absent" /\ UNCHANGED client
       \/ ~client /\ client' = TRUE /\ UNCHANGED token
    /\ UNCHANGED <<settings, grant, signedIn, phase, scheduler, timeVars,
                   timerVars, failures, stops>>

SleepsOrWakes ==
    /\ asleep' = ~asleep
    /\ UNCHANGED <<settings, tokenVars, phase, scheduler, clock, timerVars,
                   failures, stops>>

-----------------------------------------------------------------------------
StartStep(p) ==
    \/ SeedHistory(p)
    \/ LoadToken(p) \/ TokenMalformed(p)
    \/ RefreshToken(p) \/ RefreshFails(p)
    \/ Consent(p) \/ ConsentFails(p) \/ TokenSaved(p) \/ ScopesForbidden(p)
    \/ EnsureLabels(p) \/ EnsureLabelsFails(p)

Next ==
    \/ \E p \in Processes : Boot(p) \/ (~asleep /\ StartStep(p)) \/ Stop(p) \/ Exit(p)
    \/ \E p \in Processes, j \in Jobs : Fire(p, j) \/ RunEnds(p, j)
    \/ Die \/ ParentDies \/ Tick \/ SleepsOrWakes
    \/ TokenExpires \/ GrantRevoked \/ UserRepairs

Spec == Init /\ [][Next]_vars

\* The user starts the application when it does not run and does what its
\* errors ask for; time passes, access tokens expire, jobs end.
Fairness ==
    /\ \A p \in Processes :
          WF_vars(Boot(p)) /\ WF_vars(~asleep /\ StartStep(p)) /\ WF_vars(Exit(p))
    /\ \A p \in Processes, j \in Jobs : WF_vars(Fire(p, j)) /\ WF_vars(RunEnds(p, j))
    /\ WF_vars(Tick) /\ WF_vars(TokenExpires) /\ SF_vars(UserRepairs)

FairSpec == Spec /\ Fairness

-----------------------------------------------------------------------------
(* Properties.                                                             *)

\* The two processes of debug mode, and a child whose parent was killed, never
\* run two schedulers on the one database, through reloads, crashes and new
\* starts (app.py, should_start_scheduler).
OneScheduler == \A p, q \in Processes : scheduler[p] # "off" /\ scheduler[q] # "off" => p = q

\* No sync run outlives the scheduler that started it, so none is cut off by
\* an orderly end of the process (app.py, _shutdown_scheduler;
\* sync_scheduler.py, shutdown).
NoOrphanedRun == \A p \in Processes : active[p] # {} => scheduler[p] # "off"

\* After the first consent the user is asked again only for a revoked grant or
\* after a failure, however often tokens expire and processes restart
\* (oauth.py, get_credentials).
OneSignIn ==
    \A p \in Processes : phase[p] = "consent" /\ failures = 0 => ~signedIn

\* A computer that slept over the hour of the daily sync and wakes within the
\* grace time runs it; one that wakes later misses it (sync_scheduler.py,
\* misfire_grace_time).
SleepTolerated ==
    nightly = "pending" /\ (\A p \in Processes : due[p]["full_sync_daily"] = NotDue)
        => clock > FullGrace

\* The scheduler comes back after every stop, crash, failed start, expired or
\* revoked token and truncated token file (app.py, create_app).
SchedulerComesBack == <>[]~asleep => []<>(\E p \in Processes : scheduler[p] = "running")

\* On a computer that stays awake both jobs start again and again: what
\* SyncEngine assumes of the scheduler (sync_scheduler.py, start).
JobsKeepStarting ==
    <>[]~asleep => \A j \in Jobs : []<>(\E p \in Processes : j \in active[p])

=============================================================================
