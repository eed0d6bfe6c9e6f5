-------------------------- MODULE ApplicationProofs --------------------------
(***************************************************************************)
(* Machine-checked theorems about Application, for any day, interval,      *)
(* grace times and bounds.                                                 *)
(***************************************************************************)
EXTENDS Application, TLAPS

Daily == "full_sync_daily"

-----------------------------------------------------------------------------
(* Type correctness.                                                       *)

\* Ending processes keeps the types of all that it changes.
LEMMA ForgetType ==
    ASSUME TypeOK, NEW ps \in SUBSET Processes, Forget(ps)
    PROVE  /\ scheduler' \in [Processes -> {"off", "running", "stopping"}]
           /\ until' \in [Processes -> 1..IncrementalInterval]
           /\ due' \in [Processes -> [Jobs -> NotDue..FullGrace + IncrementalGrace + 1]]
           /\ nightly' \in {"served", "pending", "excused"}
<1>1. /\ IncrementalInterval \in 1..IncrementalInterval
      /\ Idle \in [Jobs -> NotDue..FullGrace + IncrementalGrace + 1]
  BY ApplicationAssumption DEF Idle, NotDue
<1> QED
  BY <1>1 DEF TypeOK, Forget

\* So it does with the phases and the running jobs.
LEMMA GoneType ==
    ASSUME TypeOK, NEW ps \in SUBSET Processes, Gone(ps)
    PROVE  /\ phase' \in [Processes -> Starting \cup {"off", "serving", "stopping"}]
           /\ active' \in [Processes -> SUBSET Jobs]
           /\ scheduler' \in [Processes -> {"off", "running", "stopping"}]
           /\ until' \in [Processes -> 1..IncrementalInterval]
           /\ due' \in [Processes -> [Jobs -> NotDue..FullGrace + IncrementalGrace + 1]]
           /\ nightly' \in {"served", "pending", "excused"}
<1>1. Forget(ps)
  BY DEF Gone
<1> QED
  BY <1>1, ForgetType DEF TypeOK, Gone

\* A failed start ends one process or both.
LEMMA FailedStart ==
    ASSUME NEW p \in Processes, StartFails(p)
    PROVE  /\ \E ps \in SUBSET Processes : p \in ps /\ Gone(ps)
           /\ UNCHANGED <<settings, client, signedIn, timeVars, stops>>
<1>1. {p} \in SUBSET Processes /\ {"parent", "child"} \in SUBSET Processes
  BY DEF Processes
<1>2. p \in {p} /\ (p = "child" => p \in {"parent", "child"})
  OBVIOUS
<1> QED
  BY <1>1, <1>2 DEF StartFails

\* The first state is well typed.
LEMMA TypeInit == Init => TypeOK
<1>1. /\ IncrementalInterval \in 1..IncrementalInterval
      /\ Idle \in [Jobs -> NotDue..FullGrace + IncrementalGrace + 1]
  BY ApplicationAssumption DEF Idle, NotDue
<1> SUFFICES ASSUME Init PROVE TypeOK
  OBVIOUS
<1>2. /\ phase \in [Processes -> Starting \cup {"off", "serving", "stopping"}]
      /\ scheduler \in [Processes -> {"off", "running", "stopping"}]
      /\ active \in [Processes -> SUBSET Jobs]
  BY DEF Init
<1>3. /\ until \in [Processes -> 1..IncrementalInterval]
      /\ due \in [Processes -> [Jobs -> NotDue..FullGrace + IncrementalGrace + 1]]
  BY <1>1 DEF Init
<1>4. /\ token \in Tokens
      /\ nightly \in {"served", "pending", "excused"}
  BY DEF Init, Tokens
<1> QED
  BY <1>2, <1>3, <1>4 DEF Init, TypeOK

\* A process that goes one step further in create_app.
LEMMA PhaseType ==
    ASSUME TypeOK, NEW p \in Processes, NEW x \in Starting \cup {"off", "serving", "stopping"},
           phase' = [phase EXCEPT ![p] = x]
    PROVE  phase' \in [Processes -> Starting \cup {"off", "serving", "stopping"}]
BY DEF TypeOK

\* A failing call is counted.
LEMMA FaultType == TypeOK /\ Fault => failures' \in Nat /\ failures' # 0
BY DEF TypeOK, Fault

\* Every step keeps the types.
LEMMA TypeNext == TypeOK /\ [Next]_vars => TypeOK'
<1> SUFFICES ASSUME TypeOK, [Next]_vars PROVE TypeOK'
  OBVIOUS
<1> USE DEF settings, tokenVars, timeVars, timerVars
<1>1. ASSUME NEW p \in Processes,
             SeedHistory(p) \/ LoadToken(p) \/ RefreshToken(p)
               \/ RefreshFails(p) \/ Consent(p) \/ TokenSaved(p)
      PROVE  TypeOK'
  <2>1. PICK x \in Starting : phase' = phase \/ phase' = [phase EXCEPT ![p] = x]
    BY <1>1 DEF SeedHistory, LoadToken, AfterLoad, RefreshToken, RefreshFails,
       Consent, TokenSaved, Starting, Saving
  <2>2. phase' \in [Processes -> Starting \cup {"off", "serving", "stopping"}]
    BY <2>1, PhaseType DEF TypeOK
  <2>3. /\ token' \in Tokens /\ grant' \in BOOLEAN /\ signedIn' \in BOOLEAN
        /\ failures' \in Nat
    <3>1. CASE SeedHistory(p)
      BY <3>1 DEF SeedHistory, TypeOK
    <3>2. CASE LoadToken(p)
      BY <3>2 DEF LoadToken, TypeOK
    <3>3. CASE RefreshToken(p)
      BY <3>3 DEF RefreshToken, TypeOK, Tokens
    <3>4. CASE RefreshFails(p)
      BY <3>4, FaultType DEF RefreshFails, TypeOK, Tokens
    <3>5. CASE Consent(p)
      BY <3>5 DEF Consent, TypeOK, Tokens
    <3>6. CASE TokenSaved(p)
      BY <3>6 DEF TokenSaved, SaveToken, TypeOK, Tokens
    <3> QED
      BY <1>1, <3>1, <3>2, <3>3, <3>4, <3>5, <3>6
  <2>4. UNCHANGED <<settings, client, scheduler, timeVars, timerVars, stops>>
    BY <1>1 DEF SeedHistory, LoadToken, RefreshToken, RefreshFails, Consent, TokenSaved
  <2> QED
    BY <2>2, <2>3, <2>4 DEF TypeOK
<1>2. ASSUME NEW p \in Processes,
             TokenMalformed(p) \/ ConsentFails(p) \/ ScopesForbidden(p)
               \/ EnsureLabelsFails(p)
      PROVE  TypeOK'
  <2>1. StartFails(p) /\ token' \in Tokens /\ UNCHANGED grant /\ failures' \in Nat
    BY <1>2 DEF TokenMalformed, ConsentFails, ScopesForbidden, EnsureLabelsFails, Fault,
       TypeOK, Tokens
  <2> QED
    BY <2>1, FailedStart, GoneType DEF TypeOK
<1>3. ASSUME NEW p \in Processes, EnsureLabels(p) PROVE TypeOK'
  BY <1>3 DEF EnsureLabels, TypeOK
<1>4. ASSUME NEW p \in Processes, Boot(p) \/ Stop(p) PROVE TypeOK'
  <2>1. CASE Boot(p)
    <3>1. PICK x \in {"seed", "token"} : phase' = [phase EXCEPT ![p] = x]
      BY <2>1 DEF Boot
    <3>2. phase' \in [Processes -> Starting \cup {"off", "serving", "stopping"}]
      BY <3>1, PhaseType DEF Starting
    <3> QED
      BY <2>1, <3>2 DEF Boot, TypeOK
  <2>2. CASE Stop(p)
    <3>1. phase' \in [Processes -> Starting \cup {"off", "serving", "stopping"}]
      BY <2>2, PhaseType DEF Stop
    <3>2. scheduler' \in [Processes -> {"off", "running", "stopping"}]
      BY <2>2 DEF Stop, TypeOK
    <3>3. stops' \in Nat
      BY <2>2 DEF Stop, TypeOK
    <3> QED
      BY <2>2, <3>1, <3>2, <3>3 DEF Stop, TypeOK
  <2> QED
    BY <1>4, <2>1, <2>2
<1>5. ASSUME NEW p \in Processes, Exit(p) PROVE TypeOK'
  <2>1. Forget({p}) /\ phase' = [phase EXCEPT ![p] = "off"]
    BY <1>5 DEF Exit
  <2> QED
    BY <1>5, <2>1, ForgetType DEF Exit, TypeOK
<1>6. ASSUME NEW p \in Processes, NEW j \in Jobs, Fire(p, j) PROVE TypeOK'
  <2>1. NotDue \in NotDue..FullGrace + IncrementalGrace + 1
    BY ApplicationAssumption DEF NotDue
  <2> QED
    BY <1>6, <2>1 DEF Fire, TypeOK
<1>7. ASSUME NEW p \in Processes, NEW j \in Jobs, RunEnds(p, j) PROVE TypeOK'
  BY <1>7 DEF RunEnds, TypeOK
<1>8. CASE Tick
  <2>1. clock' \in 0..DayLength - 1
    BY <1>8, ApplicationAssumption DEF Tick, TypeOK
  <2>2. \A n \in 1..IncrementalInterval : NextFire(n) \in 1..IncrementalInterval
    BY ApplicationAssumption DEF NextFire
  <2>3. \A n \in NotDue..FullGrace + IncrementalGrace + 1 :
           Aged(n) \in NotDue..FullGrace + IncrementalGrace + 1
    BY ApplicationAssumption DEF Aged, NotDue
  <2>4. 0 \in NotDue..FullGrace + IncrementalGrace + 1
    BY ApplicationAssumption DEF NotDue
  <2>5. until' \in [Processes -> 1..IncrementalInterval]
    BY <1>8, <2>2 DEF Tick, TypeOK
  <2>6. due' \in [Processes -> [Jobs -> NotDue..FullGrace + IncrementalGrace + 1]]
    BY <1>8, <2>3, <2>4 DEF Tick, TypeOK
  <2>7. nightly' \in {"served", "pending", "excused"}
    BY <1>8 DEF Tick, TypeOK
  <2> QED
    BY <1>8, <2>1, <2>5, <2>6, <2>7 DEF Tick, TypeOK
<1>9. CASE Die
  <2>1. PICK ps \in SUBSET Processes : Gone(ps)
    BY <1>9 DEF Die, Processes
  <2> QED
    BY <1>9, <2>1, GoneType, FaultType DEF Die, TypeOK
<1>12. CASE ParentDies
  <2>1. /\ phase' \in [Processes -> Starting \cup {"off", "serving", "stopping"}]
        /\ scheduler' \in [Processes -> {"off", "running", "stopping"}]
        /\ active' \in [Processes -> SUBSET Jobs]
    BY <1>12 DEF ParentDies, LeftAlone, Processes, TypeOK
  <2>2. /\ IncrementalInterval \in 1..IncrementalInterval
        /\ Idle \in [Jobs -> NotDue..FullGrace + IncrementalGrace + 1]
    BY ApplicationAssumption DEF Idle, NotDue
  <2>3. /\ until' \in [Processes -> 1..IncrementalInterval]
        /\ due' \in [Processes -> [Jobs -> NotDue..FullGrace + IncrementalGrace + 1]]
    BY <1>12, <2>2 DEF ParentDies, LeftAlone, Processes, TypeOK
  <2> QED
    BY <1>12, <2>1, <2>3, FaultType DEF ParentDies, TypeOK
<1>10. CASE SleepsOrWakes \/ TokenExpires \/ GrantRevoked \/ UserRepairs
  <2>1. CASE SleepsOrWakes
    BY <2>1 DEF SleepsOrWakes, TypeOK
  <2>2. CASE TokenExpires
    BY <2>2 DEF TokenExpires, TypeOK, Tokens
  <2>3. CASE GrantRevoked
    BY <2>3, FaultType DEF GrantRevoked, TypeOK
  <2>4. CASE UserRepairs
    BY <2>4 DEF UserRepairs, TypeOK, Tokens
  <2> QED
    BY <1>10, <2>1, <2>2, <2>3, <2>4
<1>11. CASE UNCHANGED vars
  BY <1>11 DEF vars, TypeOK
<1> QED
  BY <1>1, <1>2, <1>3, <1>4, <1>5, <1>6, <1>7, <1>8, <1>9, <1>10, <1>11, <1>12
  DEF Next, StartStep

\* Every reachable state of processes, token file and timers is well typed
\* (app.py, oauth.py, sync_scheduler.py; Application!TypeOK).
THEOREM TypeCorrect == Spec => []TypeOK
BY TypeInit, TypeNext, PTL DEF Spec

-----------------------------------------------------------------------------
(* Which processes exist, and which of them have a scheduler.              *)

\* The child lives only in debug mode, while its parent serves; an orphan, which
\* a failure has left, keeps a new parent from getting there.
Places ==
    /\ phase["child"] # "off" => debug /\ phase["parent"] = "serving"
    /\ phase["orphan"] # "off" =>
          debug /\ failures # 0 /\ phase["parent"] \notin {"serving", "stopping"}

\* Only the process that is meant to has a scheduler, once create_app is done.
SchedulerInPlace ==
    \A p \in Processes : scheduler[p] # "off" =>
        StartsScheduler(p) /\ phase[p] \in {"serving", "stopping"}

ProcessInv == Places /\ SchedulerInPlace /\ NoOrphanedRun

\* Failures are only counted upwards.
LEMMA FailuresStay == TypeOK /\ Next /\ failures # 0 => failures' # 0
<1>1. TypeOK /\ Fault => failures' # 0
  BY FaultType
<1> QED
  BY <1>1 DEF Next, Boot, StartStep, SeedHistory, LoadToken, TokenMalformed, RefreshToken,
     RefreshFails, Consent, ConsentFails, TokenSaved, ScopesForbidden, EnsureLabels,
     EnsureLabelsFails, Stop, Exit, Fire, RunEnds, Die, ParentDies, Tick, SleepsOrWakes,
     TokenExpires, GrantRevoked, UserRepairs

\* A step of a process in create_app that is not its end.
LEMMA StartingGoesOn ==
    ASSUME TypeOK, ProcessInv, NEW p \in Processes, NEW x \in Starting,
           phase[p] \in Starting, phase' = phase \/ phase' = [phase EXCEPT ![p] = x],
           UNCHANGED <<debug, scheduler, active>>, failures # 0 => failures' # 0
    PROVE  ProcessInv'
<1>1. \A q \in Processes : \/ phase'[q] = phase[q]
                         \/ (q = p /\ phase'[q] \in Starting /\ phase[q] \in Starting)
  BY DEF TypeOK
<1>2. Starting \cap {"off", "serving", "stopping"} = {}
  BY DEF Starting, Saving
<1>3. Places'
  BY <1>1, <1>2 DEF ProcessInv, Places, Processes
<1>4. SchedulerInPlace'
  BY <1>1, <1>2 DEF ProcessInv, SchedulerInPlace, StartsScheduler
<1> QED
  BY <1>3, <1>4 DEF ProcessInv, NoOrphanedRun

\* The end of processes, with the child if the parent is one of them.
LEMMA GoneProcesses ==
    ASSUME TypeOK, ProcessInv, NEW ps \in SUBSET Processes, Gone(ps), UNCHANGED debug,
           "parent" \in ps => "child" \in ps \/ phase["child"] = "off",
           failures # 0 => failures' # 0
    PROVE  ProcessInv'
<1>1. \A q \in Processes :
         IF q \in ps THEN phase'[q] = "off" /\ scheduler'[q] = "off" /\ active'[q] = {}
         ELSE phase'[q] = phase[q] /\ scheduler'[q] = scheduler[q] /\ active'[q] = active[q]
  BY DEF Gone, Forget
<1>2. Places'
  BY <1>1 DEF ProcessInv, Places, Processes
<1>3. SchedulerInPlace'
  BY <1>1 DEF ProcessInv, SchedulerInPlace, StartsScheduler
<1>4. NoOrphanedRun'
  BY <1>1 DEF ProcessInv, NoOrphanedRun
<1> QED
  BY <1>2, <1>3, <1>4 DEF ProcessInv

\* A child that is left alone is where it was, and its parent is gone.
LEMMA LeftAloneProcesses ==
    ASSUME TypeOK, ProcessInv, ParentDies
    PROVE  ProcessInv'
<1>1. /\ phase'["parent"] = "off" /\ phase'["child"] = "off" /\ phase'["orphan"] = phase["child"]
      /\ scheduler'["parent"] = scheduler["parent"]
      /\ scheduler'["child"] = "off" /\ scheduler'["orphan"] = scheduler["child"]
      /\ active'["parent"] = active["parent"]
      /\ active'["child"] = {} /\ active'["orphan"] = active["child"]
  BY DEF ParentDies, LeftAlone, TypeOK, Processes
<1>2. debug /\ debug' = debug /\ failures' # 0
  BY FaultType DEF ParentDies, ProcessInv, Places, settings
<1>3. Places'
  BY <1>1, <1>2 DEF Places
<1>4. scheduler["parent"] = "off"
  BY <1>2 DEF ProcessInv, SchedulerInPlace, StartsScheduler, Processes
<1>5. SchedulerInPlace'
  <2>1. scheduler["child"] # "off" => phase["child"] \in {"serving", "stopping"}
    BY DEF ProcessInv, SchedulerInPlace, Processes
  <2> QED
    BY <1>1, <1>2, <1>4, <2>1 DEF SchedulerInPlace, StartsScheduler, Processes
<1>6. NoOrphanedRun'
  BY <1>1 DEF ProcessInv, NoOrphanedRun, Processes
<1> QED
  BY <1>3, <1>5, <1>6 DEF ProcessInv

\* One process takes the phase x; its scheduler and runs are as they may be.
LEMMA PhaseProcesses ==
    ASSUME TypeOK, ProcessInv, NEW p \in Processes,
           NEW x \in {"seed", "token", "serving", "stopping", "off"},
           phase' = [phase EXCEPT ![p] = x], UNCHANGED <<debug, active>>,
           failures # 0 => failures' # 0,
           p = "child" => phase["child"] # "off" \/ (debug /\ phase["parent"] = "serving"),
           p = "parent" => x \in {"serving", "stopping"} \/ phase["child"] = "off",
           p = "parent" /\ x = "serving" => phase["orphan"] = "off",
           p = "parent" /\ phase["child"] # "off" => x = "serving",
           p = "parent" /\ x = "stopping" => phase["parent"] = "serving",
           p = "orphan" => phase["orphan"] # "off",
           \A q \in Processes : q # p => scheduler'[q] = scheduler[q],
           scheduler'[p] # "off" => StartsScheduler(p) /\ x \in {"serving", "stopping"},
           active[p] # {} => scheduler'[p] # "off"
    PROVE  ProcessInv'
<1>1. phase'[p] = x /\ \A q \in Processes : q # p => phase'[q] = phase[q]
  BY DEF TypeOK
<1>2. Places'
  <2>1. CASE p = "parent"
    BY <1>1, <2>1 DEF ProcessInv, Places, Processes
  <2>2. CASE p = "child"
    BY <1>1, <2>2 DEF ProcessInv, Places, Processes
  <2>3. CASE p = "orphan"
    BY <1>1, <2>3 DEF ProcessInv, Places, Processes
  <2> QED
    BY <2>1, <2>2, <2>3 DEF Processes
<1>3. SchedulerInPlace'
  BY <1>1 DEF ProcessInv, SchedulerInPlace, StartsScheduler
<1>4. NoOrphanedRun'
  BY DEF ProcessInv, NoOrphanedRun
<1> QED
  BY <1>2, <1>3, <1>4 DEF ProcessInv

\* Every step keeps ProcessInv.
LEMMA ProcessNext == TypeOK /\ ProcessInv /\ [Next]_vars => ProcessInv'
<1> SUFFICES ASSUME TypeOK, ProcessInv, [Next]_vars PROVE ProcessInv'
  OBVIOUS
<1> USE DEF settings, timerVars, timeVars
<1>0. failures # 0 => failures' # 0
  BY FailuresStay DEF vars
<1>1. ASSUME NEW p \in Processes,
             SeedHistory(p) \/ LoadToken(p) \/ RefreshToken(p)
               \/ RefreshFails(p) \/ Consent(p) \/ TokenSaved(p)
      PROVE  ProcessInv'
  <2>1. phase[p] \in Starting
    BY <1>1 DEF SeedHistory, LoadToken, RefreshToken, RefreshFails, Consent,
       TokenSaved, Starting, Saving
  <2>2. PICK x \in Starting : phase' = phase \/ phase' = [phase EXCEPT ![p] = x]
    BY <1>1 DEF SeedHistory, LoadToken, AfterLoad, RefreshToken, RefreshFails,
       Consent, TokenSaved, Starting, Saving
  <2>3. UNCHANGED <<debug, scheduler, active>>
    BY <1>1 DEF SeedHistory, LoadToken, RefreshToken, RefreshFails, Consent, TokenSaved
  <2> QED
    BY <1>0, <2>1, <2>2, <2>3, StartingGoesOn
<1>2. ASSUME NEW p \in Processes,
             TokenMalformed(p) \/ ConsentFails(p) \/ ScopesForbidden(p)
               \/ EnsureLabelsFails(p)
      PROVE  ProcessInv'
  <2>1. StartFails(p) /\ phase[p] \notin {"off", "serving"}
    BY <1>2 DEF TokenMalformed, ConsentFails, ScopesForbidden, EnsureLabelsFails, Saving
  <2>2. CASE p = "child"
    <3>1. Gone({"parent", "child"}) /\ {"parent", "child"} \in SUBSET Processes
      BY <2>1, <2>2 DEF StartFails, Processes
    <3> QED
      BY <1>0, <2>1, <3>1, GoneProcesses DEF StartFails
  <2>3. CASE p # "child"
    <3>1. p = "parent" => phase["child"] = "off"
      BY <2>1 DEF ProcessInv, Places
    <3>2. Gone({p}) /\ {p} \in SUBSET Processes
      BY <2>1, <2>3 DEF StartFails
    <3> QED
      BY <1>0, <2>1, <3>1, <3>2, GoneProcesses DEF StartFails
  <2> QED
    BY <2>2, <2>3
<1>3. ASSUME NEW p \in Processes, EnsureLabels(p) PROVE ProcessInv'
  <2>1. phase[p] = "labels" /\ scheduler[p] = "off" /\ active[p] = {}
    BY <1>3 DEF EnsureLabels, ProcessInv, SchedulerInPlace, NoOrphanedRun
  <2>2. /\ scheduler'[p] # "off" => StartsScheduler(p)
        /\ \A q \in Processes : q # p => scheduler'[q] = scheduler[q]
    BY <1>3 DEF EnsureLabels, TypeOK
  <2>3. p = "child" => phase["child"] # "off"
    BY <2>1
  <2>4. p = "parent" => phase["orphan"] = "off" /\ phase["child"] = "off"
    BY <1>3, <2>1 DEF EnsureLabels, PortFree, ProcessInv, Places
  <2>5. p = "orphan" => phase["orphan"] # "off"
    BY <2>1
  <2> QED
    BY <1>0, <1>3, <2>1, <2>2, <2>3, <2>4, <2>5, PhaseProcesses DEF EnsureLabels
<1>4. ASSUME NEW p \in Processes, Boot(p) PROVE ProcessInv'
  <2>1. phase[p] = "off" /\ scheduler[p] = "off" /\ active[p] = {} /\ p # "orphan"
    BY <1>4 DEF Boot, ProcessInv, SchedulerInPlace, NoOrphanedRun
  <2>2. /\ p = "child" => debug /\ phase["parent"] = "serving"
        /\ p = "parent" => phase["child"] = "off"
    BY <1>4, <2>1 DEF Boot, ProcessInv, Places
  <2>3. PICK x \in {"seed", "token"} : phase' = [phase EXCEPT ![p] = x]
    BY <1>4 DEF Boot
  <2> QED
    BY <1>0, <1>4, <2>1, <2>2, <2>3, PhaseProcesses DEF Boot
<1>5. ASSUME NEW p \in Processes, Stop(p) PROVE ProcessInv'
  <2>1. /\ phase[p] = "serving"
        /\ p = "parent" => phase["child"] = "off"
        /\ phase' = [phase EXCEPT ![p] = "stopping"]
    BY <1>5 DEF Stop
  <2>2. /\ scheduler'[p] # "off" <=> scheduler[p] # "off"
        /\ \A q \in Processes : q # p => scheduler'[q] = scheduler[q]
    BY <1>5 DEF Stop, TypeOK
  <2>3. /\ scheduler'[p] # "off" => StartsScheduler(p)
        /\ active[p] # {} => scheduler'[p] # "off"
    BY <2>2 DEF ProcessInv, SchedulerInPlace, NoOrphanedRun
  <2> QED
    BY <1>0, <1>5, <2>1, <2>2, <2>3, PhaseProcesses DEF Stop
<1>6. ASSUME NEW p \in Processes, Exit(p) PROVE ProcessInv'
  <2>1. /\ phase[p] = "stopping" /\ active[p] = {}
        /\ phase' = [phase EXCEPT ![p] = "off"]
    BY <1>6 DEF Exit, MayExit
  <2>2. scheduler'[p] = "off" /\ \A q \in Processes : q # p => scheduler'[q] = scheduler[q]
    BY <1>6 DEF Exit, Forget
  <2>3. p = "parent" => phase["child"] = "off"
    BY <2>1 DEF ProcessInv, Places
  <2> QED
    BY <1>0, <1>6, <2>1, <2>2, <2>3, PhaseProcesses DEF Exit
<1>7. ASSUME NEW p \in Processes, NEW j \in Jobs, Fire(p, j) \/ RunEnds(p, j)
      PROVE  ProcessInv'
  <2>1. UNCHANGED <<debug, phase, scheduler, failures>>
    BY <1>7 DEF Fire, RunEnds
  <2>2. Places' /\ SchedulerInPlace'
    BY <2>1 DEF ProcessInv, Places, SchedulerInPlace, StartsScheduler
  <2>3. NoOrphanedRun'
    BY <1>7, <2>1 DEF Fire, RunEnds, TypeOK, ProcessInv, NoOrphanedRun
  <2> QED
    BY <2>2, <2>3 DEF ProcessInv
<1>8. CASE Die
  <2>1. PICK ps \in {Processes, {"parent", "child"}, {"orphan"}} : Gone(ps)
    BY <1>8 DEF Die
  <2>2. ps \in SUBSET Processes /\ ("parent" \in ps => "child" \in ps)
    BY DEF Processes
  <2> QED
    BY <1>0, <1>8, <2>1, <2>2, GoneProcesses DEF Die
<1>9. CASE Tick \/ SleepsOrWakes \/ TokenExpires \/ GrantRevoked \/ UserRepairs
             \/ UNCHANGED vars
  <2>1. UNCHANGED <<debug, phase, scheduler, active>>
    BY <1>9 DEF Tick, SleepsOrWakes, TokenExpires, GrantRevoked, UserRepairs, vars
  <2> QED
    BY <1>0, <2>1 DEF ProcessInv, Places, SchedulerInPlace, NoOrphanedRun,
       StartsScheduler
<1>10. CASE ParentDies
  BY <1>10, LeftAloneProcesses
<1> QED
  BY <1>1, <1>2, <1>3, <1>4, <1>5, <1>6, <1>7, <1>8, <1>9, <1>10 DEF Next, StartStep

\* Before the first start there is neither process nor scheduler.
LEMMA ProcessInit == Init => ProcessInv
BY DEF Init, ProcessInv, Places, SchedulerInPlace, NoOrphanedRun, Processes

\* So there is never more than one.
LEMMA AtMostOne == ProcessInv => OneScheduler
<1> SUFFICES ASSUME ProcessInv PROVE OneScheduler
  OBVIOUS
<1>1. \A p \in Processes : scheduler[p] # "off" =>
         StartsScheduler(p) /\ phase[p] \in {"serving", "stopping"}
  BY DEF ProcessInv, SchedulerInPlace
<1>2. CASE debug
  BY <1>1, <1>2 DEF ProcessInv, Places, StartsScheduler, OneScheduler, Processes
<1>3. CASE ~debug
  BY <1>1, <1>3 DEF ProcessInv, Places, OneScheduler, Processes
<1> QED
  BY <1>2, <1>3

\* However the processes of debug mode start, reload and crash, together or one
\* alone, they never run two schedulers on the one database (app.py,
\* should_start_scheduler).
THEOREM OnlyOneScheduler == Spec => []OneScheduler
BY TypeInit, TypeNext, ProcessInit, ProcessNext, AtMostOne, PTL DEF Spec

\* An orderly end of a process waits for its sync runs (sync_scheduler.py,
\* shutdown; app.py, _shutdown_scheduler).
THEOREM NoRunOutlivesItsScheduler == Spec => []NoOrphanedRun
<1>1. ProcessInv => NoOrphanedRun
  BY DEF ProcessInv
<1> QED
  BY <1>1, TypeInit, TypeNext, ProcessInit, ProcessNext, PTL DEF Spec

-----------------------------------------------------------------------------
(* The token file and the consent of the user.                             *)

\* Until something fails, a user who has signed in keeps a token that loads or
\* refreshes, but for the moment in which it is rewritten.
TokenKept ==
    failures = 0 /\ signedIn =>
        /\ grant
        /\ token \in {"valid", "expired", "malformed"}
        /\ token = "malformed" => \E p \in Processes : phase[p] \in Saving
        /\ \A p \in Processes : phase[p] # "consent"

\* Until something fails only one process at a time is in create_app.
LEMMA OneStarts ==
    ProcessInv /\ failures = 0 =>
        \A p, q \in Processes : phase[p] \in Starting /\ phase[q] \in Starting => p = q
BY DEF ProcessInv, Places, Processes, Starting, Saving

\* A failed start of a user who signed in: it was not the process that saves.
LEMMA TokenKeptGone ==
    ASSUME TypeOK, TokenKept, NEW ps \in SUBSET Processes, Gone(ps),
           UNCHANGED <<grant, token, signedIn>>, failures' = 0 => failures = 0,
           \A p \in ps : token = "malformed" => phase[p] \notin Saving
    PROVE  TokenKept'
BY DEF TypeOK, TokenKept, Gone, Saving

\* Every step keeps TokenKept.
LEMMA TokenNext == TypeOK /\ ProcessInv /\ TokenKept /\ [Next]_vars => TokenKept'
<1> SUFFICES ASSUME TypeOK, ProcessInv, TokenKept, [Next]_vars, failures' = 0, signedIn'
             PROVE  TokenKept'
  BY DEF TokenKept
<1> USE DEF settings, tokenVars, timerVars, timeVars
<1>0. ~Fault
  BY FaultType
<1>1. ASSUME NEW p \in Processes, SeedHistory(p) \/ LoadToken(p) PROVE TokenKept'
  <2>1. phase[p] \in {"seed", "token"} /\ phase[p] \notin Saving
    BY <1>1 DEF SeedHistory, LoadToken, Saving
  <2>2. /\ UNCHANGED <<grant, token, signedIn, failures>>
        /\ phase' = phase \/ \E x \in {"labels", "refresh", "consent"} :
              /\ phase' = [phase EXCEPT ![p] = x]
              /\ x = "consent" => token \notin {"valid", "expired", "malformed"}
    BY <1>1 DEF SeedHistory, LoadToken, AfterLoad, TypeOK, Tokens
  <2> QED
    BY <2>1, <2>2 DEF TypeOK, TokenKept
<1>2. ASSUME NEW p \in Processes, RefreshToken(p) PROVE TokenKept'
  BY <1>2 DEF RefreshToken, TypeOK, TokenKept, Saving
<1>3. ASSUME NEW p \in Processes, RefreshFails(p) PROVE TokenKept'
  BY <1>0, <1>3 DEF RefreshFails, TokenKept
<1>4. ASSUME NEW p \in Processes, Consent(p) PROVE TokenKept'
  BY <1>4 DEF Consent, TokenKept
<1>5. ASSUME NEW p \in Processes, TokenSaved(p) PROVE TokenKept'
  <2>1. phase[p] \in Starting /\ \A q \in Processes : phase[q] = "consent" => q = p
    BY <1>5, OneStarts DEF TokenSaved, Starting, Saving
  <2>2. \A q \in Processes : phase'[q] # "consent"
    BY <1>5, <2>1 DEF TokenSaved, TypeOK
  <2>3. grant' /\ token' = "valid"
    BY <1>5 DEF TokenSaved, SaveToken
  <2> QED
    BY <2>2, <2>3 DEF TokenKept
<1>6. ASSUME NEW p \in Processes,
             TokenMalformed(p) \/ ConsentFails(p) \/ ScopesForbidden(p)
               \/ EnsureLabelsFails(p)
      PROVE  TokenKept'
  <2>1. /\ StartFails(p)
        /\ UNCHANGED <<grant, token, failures, signedIn>>
        /\ phase[p] \in {"token", "consent", "labels"}
    BY <1>0, <1>6 DEF TokenMalformed, ConsentFails, ScopesForbidden, EnsureLabelsFails,
       StartFails
  <2>2. failures = 0
    BY <2>1
  <2>4. \A q \in Processes : phase[q] \notin Saving
    BY <2>1, <2>2, OneStarts DEF Starting, Saving
  <2>3. PICK ps \in SUBSET Processes : Gone(ps)
    BY <2>1, FailedStart
  <2> QED
    BY <2>1, <2>3, <2>4, TokenKeptGone
<1>7. ASSUME NEW p \in Processes, Boot(p) \/ EnsureLabels(p) \/ Stop(p) \/ Exit(p)
      PROVE  TokenKept'
  <2>1. /\ UNCHANGED <<grant, token, signedIn, failures>>
        /\ phase[p] \notin Saving
        /\ \E x \in {"seed", "token", "serving", "stopping", "off"} :
              phase' = [phase EXCEPT ![p] = x]
    BY <1>7 DEF Boot, EnsureLabels, Stop, Exit, Saving
  <2> QED
    BY <2>1 DEF TypeOK, TokenKept
<1>8. ASSUME NEW p \in Processes, NEW j \in Jobs, Fire(p, j) \/ RunEnds(p, j)
      PROVE  TokenKept'
  BY <1>8 DEF Fire, RunEnds, TokenKept
<1>9. CASE Die \/ ParentDies \/ GrantRevoked
  BY <1>0, <1>9 DEF Die, ParentDies, GrantRevoked
<1>10. CASE TokenExpires
  BY <1>10 DEF TokenExpires, TokenKept
<1>11. CASE UserRepairs
  BY <1>11 DEF UserRepairs, TokenKept, Saving
<1>12. CASE Tick \/ SleepsOrWakes \/ UNCHANGED vars
  BY <1>12 DEF Tick, SleepsOrWakes, vars, TokenKept
<1> QED
  BY <1>1, <1>2, <1>3, <1>4, <1>5, <1>6, <1>7, <1>8, <1>9, <1>10, <1>11, <1>12
  DEF Next, StartStep

\* As long as nothing fails and the grant stands, the browser opens for one
\* consent only, however often tokens expire and processes stop and start
\* (oauth.py, get_credentials).
THEOREM AskedOnce == Spec => []OneSignIn
<1>1. Init => TokenKept
  BY DEF Init, TokenKept
<1>2. TokenKept => OneSignIn
  BY DEF TokenKept, OneSignIn
<1> QED
  BY <1>1, <1>2, TypeInit, TypeNext, ProcessInit, ProcessNext, TokenNext, PTL DEF Spec

-----------------------------------------------------------------------------
(* The daily sync and a computer that sleeps.                              *)

\* A scheduler that is off has no timers, the age of a fire time is the time
\* of day as far as that matters, and a sync that is still to be run is waiting
\* in the one scheduler, free to start.
NightlyKept ==
    /\ \A p \in Processes : scheduler[p] = "off" => due[p][Daily] = NotDue
    /\ \A p \in Processes : scheduler[p] = "running" /\ due[p][Daily] # NotDue =>
          \/ due[p][Daily] = clock
          \/ due[p][Daily] > FullGrace /\ clock > FullGrace
    /\ nightly = "pending" =>
          \A p \in Processes : due[p][Daily] # NotDue => Daily \notin active[p]
    /\ nightly = "pending" /\ clock <= FullGrace =>
          \E p \in Processes : scheduler[p] # "off" /\ due[p][Daily] # NotDue

\* Ending processes keeps NightlyKept: what was to be run is given up.
LEMMA NightlyForget ==
    ASSUME TypeOK, NightlyKept, NEW ps \in SUBSET Processes, Forget(ps), UNCHANGED clock,
           \A p \in Processes : active'[p] \subseteq active[p]
    PROVE  NightlyKept'
<1>1. \A p \in ps : scheduler'[p] = "off" /\ due'[p][Daily] = NotDue
  BY DEF Forget, Idle, Daily, Jobs
<1>2. \A p \in Processes \ ps : scheduler'[p] = scheduler[p] /\ due'[p] = due[p]
  BY DEF Forget
<1>3. nightly' = "pending" => nightly = "pending" /\ \A p \in ps : scheduler[p] = "off"
  BY DEF Forget
<1> QED
  BY <1>1, <1>2, <1>3 DEF NightlyKept

\* Time that passes keeps NightlyKept.
LEMMA NightlyTick ==
    ASSUME TypeOK, OneScheduler, NightlyKept, Tick
    PROVE  NightlyKept'
<1> DEFINE now == (clock + 1) % DayLength
<1>1. /\ clock \in Nat /\ clock < DayLength
      /\ clock' = now
      /\ UNCHANGED <<scheduler, active>>
  BY ApplicationAssumption DEF Tick, TypeOK
<1>2. clock' = IF clock + 1 = DayLength THEN 0 ELSE clock + 1
  BY <1>1, ApplicationAssumption
<1>3. \A p \in Processes : due'[p][Daily] =
         IF scheduler[p] # "running" THEN due[p][Daily]
         ELSE IF clock' = 0 THEN 0 ELSE Aged(due[p][Daily])
  BY <1>1 DEF Tick, FiresAt, TypeOK, Daily, Jobs
<1>4. \A p \in Processes : due[p][Daily] \in NotDue..FullGrace + IncrementalGrace + 1
  BY DEF TypeOK, Daily, Jobs
<1>5. nightly' = IF clock' # 0 THEN nightly
                 ELSE IF \E p \in Processes : scheduler[p] = "running" /\ Daily \notin active[p]
                 THEN "pending" ELSE "excused"
  BY <1>1 DEF Tick, Daily
<1> HIDE DEF now
<1>6. ASSUME NEW p \in Processes
      PROVE  Aged(due[p][Daily]) = NotDue <=> due[p][Daily] = NotDue
  BY <1>4, ApplicationAssumption DEF Aged, NotDue
<1>7. \A p \in Processes : scheduler'[p] = "off" => due'[p][Daily] = NotDue
  BY <1>1, <1>3 DEF NightlyKept
<1>8. ASSUME NEW p \in Processes, scheduler'[p] = "running", due'[p][Daily] # NotDue
      PROVE  \/ due'[p][Daily] = clock'
             \/ due'[p][Daily] > FullGrace /\ clock' > FullGrace
  <2>1. CASE clock' = 0
    BY <1>1, <1>3, <1>8, <2>1
  <2>2. CASE clock' # 0
    <3>1. /\ clock' = clock + 1
          /\ due'[p][Daily] = Aged(due[p][Daily])
          /\ due[p][Daily] # NotDue
      BY <1>1, <1>2, <1>3, <1>6, <1>8, <2>2
    <3>2. \/ due[p][Daily] = clock
          \/ due[p][Daily] > FullGrace /\ clock > FullGrace
      BY <1>1, <1>8, <3>1 DEF NightlyKept
    <3>3. /\ due[p][Daily] \in Int /\ clock \in Int
          /\ FullGrace \in Nat /\ IncrementalGrace \in Nat
      BY <1>1, <1>4, ApplicationAssumption DEF NotDue
    <3>4. CASE due[p][Daily] > FullGrace + IncrementalGrace
      <4>1. due'[p][Daily] = due[p][Daily]
        BY <3>1, <3>4 DEF Aged
      <4> QED
        BY <3>1, <3>2, <3>3, <3>4, <4>1
    <3>5. CASE ~(due[p][Daily] > FullGrace + IncrementalGrace)
      <4>1. due'[p][Daily] = due[p][Daily] + 1
        BY <3>1, <3>5 DEF Aged
      <4> QED
        BY <3>1, <3>2, <3>3, <4>1
    <3> QED
      BY <3>4, <3>5
  <2> QED
    BY <2>1, <2>2
<1>9. CASE clock' = 0
  <2>1. ASSUME nightly' = "pending"
        PROVE  \E p \in Processes :
                  /\ scheduler[p] = "running" /\ Daily \notin active[p]
                  /\ due'[p][Daily] = 0
                  /\ \A q \in Processes : q # p => due'[q][Daily] = NotDue
    <3>1. PICK p \in Processes : scheduler[p] = "running" /\ Daily \notin active[p]
      BY <1>5, <1>9, <2>1
    <3>2. \A q \in Processes : q # p => scheduler[q] = "off"
      BY <3>1 DEF OneScheduler
    <3> QED
      BY <1>1, <1>3, <1>7, <1>9, <3>1, <3>2
  <2>2. NotDue # 0
    BY DEF NotDue
  <2> QED
    BY <1>1, <1>7, <1>8, <2>1, <2>2 DEF NightlyKept
<1>10. CASE clock' # 0
  <2>1. \A p \in Processes : due'[p][Daily] = NotDue <=> due[p][Daily] = NotDue
    BY <1>3, <1>6, <1>10
  <2>2. nightly' = nightly /\ clock' = clock + 1
    BY <1>2, <1>5, <1>10
  <2>3. clock' <= FullGrace => clock <= FullGrace
    BY <1>1, <2>2, ApplicationAssumption
  <2> QED
    BY <1>1, <1>7, <1>8, <2>1, <2>2, <2>3 DEF NightlyKept
<1> QED
  BY <1>9, <1>10

\* Handling a fire time keeps NightlyKept.
LEMMA NightlyFire ==
    ASSUME TypeOK, NightlyKept, NEW p \in Processes, NEW j \in Jobs, Fire(p, j)
    PROVE  NightlyKept'
<1>1. UNCHANGED <<clock, scheduler>> /\ scheduler[p] = "running"
  BY DEF Fire, timeVars
<1>2. CASE j # Daily
  <2>1. \A q \in Processes : due'[q][Daily] = due[q][Daily]
    BY <1>2 DEF Fire, TypeOK
  <2>2. \A q \in Processes : Daily \in active'[q] <=> Daily \in active[q]
    BY <1>2 DEF Fire, TypeOK
  <2>3. nightly' = nightly
    BY <1>2 DEF Fire, Daily
  <2> QED
    BY <1>1, <2>1, <2>2, <2>3 DEF NightlyKept
<1>3. CASE j = Daily
  <2>1. due[p][Daily] # NotDue /\ due'[p][Daily] = NotDue
    BY <1>3 DEF Fire, TypeOK
  <2>2. \A q \in Processes : q # p => due'[q] = due[q] /\ active'[q] = active[q]
    BY DEF Fire, TypeOK
  <2>3. \/ nightly' = "served"
        \/ /\ nightly' = nightly
           /\ Daily \in active[p] \/ ~(due[p][Daily] <= FullGrace)
    BY <1>3 DEF Fire, Grace, Daily
  <2>4. ASSUME nightly' = "pending", clock <= FullGrace PROVE FALSE
    BY <1>1, <2>1, <2>3, <2>4, ApplicationAssumption DEF NightlyKept, TypeOK
  <2> QED
    BY <1>1, <2>1, <2>2, <2>3, <2>4 DEF NightlyKept
<1> QED
  BY <1>2, <1>3

\* So does a child that is left alone: it keeps its timers.
LEMMA NightlyLeftAlone ==
    ASSUME TypeOK, ProcessInv, NightlyKept, ParentDies
    PROVE  NightlyKept'
<1>1. /\ scheduler'["child"] = "off" /\ due'["child"] = Idle /\ active'["child"] = {}
      /\ scheduler'["orphan"] = scheduler["child"] /\ due'["orphan"] = due["child"]
      /\ active'["orphan"] = active["child"]
      /\ scheduler'["parent"] = scheduler["parent"] /\ due'["parent"] = due["parent"]
      /\ active'["parent"] = active["parent"]
      /\ UNCHANGED <<clock, nightly>>
  BY DEF ParentDies, LeftAlone, TypeOK, Processes, timeVars
<1>2. due'["child"][Daily] = NotDue
  BY <1>1 DEF Idle, Daily, Jobs
<1>3. scheduler["orphan"] = "off" /\ due["orphan"][Daily] = NotDue
  BY DEF ParentDies, ProcessInv, Places, SchedulerInPlace, NightlyKept, Processes
<1>4. /\ \A p \in Processes : scheduler'[p] = "off" => due'[p][Daily] = NotDue
      /\ \A p \in Processes : scheduler'[p] = "running" /\ due'[p][Daily] # NotDue =>
            \/ due'[p][Daily] = clock'
            \/ due'[p][Daily] > FullGrace /\ clock' > FullGrace
  BY <1>1, <1>2 DEF NightlyKept, Processes
<1>5. nightly' = "pending" =>
         \A p \in Processes : due'[p][Daily] # NotDue => Daily \notin active'[p]
  BY <1>1, <1>2 DEF NightlyKept, Processes
<1>6. nightly' = "pending" /\ clock' <= FullGrace =>
         \E p \in Processes : scheduler'[p] # "off" /\ due'[p][Daily] # NotDue
  BY <1>1, <1>3 DEF NightlyKept, Processes
<1> QED
  BY <1>4, <1>5, <1>6 DEF NightlyKept

\* Every step keeps NightlyKept.
LEMMA NightlyNext ==
    TypeOK /\ ProcessInv /\ NightlyKept /\ [Next]_vars => NightlyKept'
<1> SUFFICES ASSUME TypeOK, ProcessInv, NightlyKept, [Next]_vars PROVE NightlyKept'
  OBVIOUS
<1> USE DEF timerVars, timeVars
<1>1. ASSUME UNCHANGED <<scheduler, due, active, nightly, clock>> PROVE NightlyKept'
  BY <1>1 DEF NightlyKept
<1>2. ASSUME NEW p \in Processes,
             SeedHistory(p) \/ LoadToken(p) \/ RefreshToken(p) \/ RefreshFails(p)
               \/ Consent(p) \/ TokenSaved(p) \/ Boot(p)
      PROVE  NightlyKept'
  BY <1>1, <1>2 DEF SeedHistory, LoadToken, RefreshToken, RefreshFails, Consent,
     TokenSaved, Boot
<1>3. ASSUME NEW ps \in SUBSET Processes, Gone(ps), UNCHANGED clock PROVE NightlyKept'
  <2>1. Forget(ps) /\ \A p \in Processes : active'[p] \subseteq active[p]
    BY <1>3 DEF Gone
  <2> QED
    BY <1>3, <2>1, NightlyForget
<1>4. ASSUME NEW p \in Processes,
             TokenMalformed(p) \/ ConsentFails(p) \/ ScopesForbidden(p)
               \/ EnsureLabelsFails(p)
      PROVE  NightlyKept'
  <2>1. StartFails(p)
    BY <1>4 DEF TokenMalformed, ConsentFails, ScopesForbidden, EnsureLabelsFails
  <2> QED
    BY <2>1, <1>3, FailedStart
<1>5. CASE Die
  <2>1. PICK ps \in SUBSET Processes : Gone(ps)
    BY <1>5 DEF Die, Processes
  <2> QED
    BY <1>3, <1>5, <2>1 DEF Die
<1>11. CASE ParentDies
  BY <1>11, NightlyLeftAlone
<1>6. ASSUME NEW p \in Processes, EnsureLabels(p) PROVE NightlyKept'
  <2>1. scheduler[p] = "off"
    BY <1>6 DEF EnsureLabels, ProcessInv, SchedulerInPlace, TypeOK
  <2>2. due[p][Daily] = NotDue
    BY <2>1 DEF NightlyKept
  <2> QED
    BY <1>6, <2>1, <2>2 DEF EnsureLabels, NightlyKept, TypeOK
<1>7. ASSUME NEW p \in Processes, Stop(p) PROVE NightlyKept'
  BY <1>7 DEF Stop, NightlyKept, TypeOK
<1>8. ASSUME NEW p \in Processes, Exit(p) PROVE NightlyKept'
  <2>1. Forget({p}) /\ UNCHANGED <<clock, active>>
    BY <1>8 DEF Exit
  <2> QED
    BY <2>1, NightlyForget DEF TypeOK
<1>9. ASSUME NEW p \in Processes, NEW j \in Jobs, RunEnds(p, j) PROVE NightlyKept'
  BY <1>9 DEF RunEnds, NightlyKept, TypeOK
<1>10. CASE SleepsOrWakes \/ TokenExpires \/ GrantRevoked \/ UserRepairs \/ UNCHANGED vars
  BY <1>1, <1>10 DEF SleepsOrWakes, TokenExpires, GrantRevoked, UserRepairs, vars
<1> QED
  BY <1>2, <1>4, <1>5, <1>6, <1>7, <1>8, <1>9, <1>10, <1>11, NightlyTick,
     NightlyFire, AtMostOne
  DEF Next, StartStep

\* A computer that sleeps over the hour of the daily sync and wakes within the
\* grace time runs it: none is lost while a scheduler holds it, but by coming
\* too late (sync_scheduler.py, start: misfire_grace_time).
THEOREM SleepLosesNothingInTime == Spec => []SleepTolerated
<1>1. Init => NightlyKept
  BY DEF Init, NightlyKept, Idle, Daily, Jobs
<1>2. TypeOK /\ NightlyKept => SleepTolerated
  <2> SUFFICES ASSUME TypeOK, NightlyKept, nightly = "pending",
                      \A p \in Processes : due[p]["full_sync_daily"] = NotDue
               PROVE  clock > FullGrace
    BY DEF SleepTolerated
  <2>1. ~(clock <= FullGrace)
    BY DEF NightlyKept, Daily
  <2> QED
    BY <2>1, ApplicationAssumption DEF TypeOK
<1> QED
  BY <1>1, <1>2, TypeInit, TypeNext, ProcessInit, ProcessNext, NightlyNext, PTL DEF Spec

=============================================================================
