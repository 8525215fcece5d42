------------------------ MODULE ServiceRestartProofs ------------------------
(***************************************************************************)
(* Theorems about ServiceRestart, for every set of process identifiers and *)
(* every set of faults.  The role only calls the script, so everything     *)
(* proved about the script holds of it while the role runs.                *)
(***************************************************************************)
EXTENDS ServiceRestart, ServiceScriptProofs

LEMMA RoleStepIsScriptStep == RoleNext => [Next]_vars
  BY DEF RoleNext, Role, Begin, StopTask, StopDone, StartTask, StartDone,
         OtherCall, HostStep, CallFor, Next, Script

\* Every behaviour of the role is one of the script.
THEOREM RoleUsesScript == RoleSpec => Spec
<1>1. RoleInit => Init
  BY DEF RoleInit
<1>2. [RoleNext]_roleVars => [Next]_vars
  BY RoleStepIsScriptStep DEF roleVars
<1> QED
  BY <1>1, <1>2, PTL DEF RoleSpec, Spec

\* The calls of the role end as every call of the script does.
THEOREM RoleCallsEnd == RoleSpec /\ GoesOn => EndsUnlessHung
  BY RoleUsesScript, CallsEnd, PTL

LEMMA RoleAlways == RoleSpec => []IInv
  BY RoleUsesScript, Always, PTL

-----------------------------------------------------------------------------
(* The old processes.                                                      *)

\* The old processes are processes of the service, and are gone once the stop is
\* behind the role; while it lasts the script is in its stop().
Gone ==
    /\ old \subseteq Services
    /\ task \in {"start", "starting", "done"} => old = {}
    /\ task = "stopping" =>
          /\ command = "stop"
          /\ pc \in {"idle", "stop", "read", "kill", "remove"}
          /\ pc = "idle" => old = {}
    /\ task \in {"stop", "start"} => pc = "idle"

LEMMA GoneInitially == RoleInit => Gone
  BY DEF RoleInit, Gone

\* Where the status is not "running" between executions, or during stop(), there
\* is no service.
LEMMA NotRunning ==
    ASSUME IInv, ~ Running, pc # "record"
    PROVE  Services = {}
  BY DEF IInv, Named, Running, Alive, Services, IsService

\* What is left of the old processes is a part of the service and of them.
LEMMA SurvivorsAreServices ==
    ASSUME IInv, Gone, HostStep
    PROVE  old' \subseteq Services' /\ old' \subseteq old
<1> USE DEF Gone, Services, IsService, Survivors, table
<1>t. TypeOK
  BY DEF IInv
<1>1. \A p \in old : p \in Pids /\ process[p] \in {"service", "deaf"}
  OBVIOUS
<1>2. \A p \in old : process'[p] \in {process[p], "free"}
  <2>1. CASE Spawn
    BY <1>t, <1>1, <2>1 DEF Spawn, TypeOK
  <2>2. CASE StartCheck \/ Record \/ StopCheck \/ ReadPid \/ Kill \/ KillFails
             \/ Remove
    BY <2>2 DEF StartCheck, Record, StopCheck, ReadPid, Kill, KillFails, Remove
  <2>3. ASSUME NEW p \in Pids, Obey(p) \/ Die(p) \/ Reuse(p)
        PROVE  \A q \in old : process'[q] \in {process[q], "free"}
    BY <1>t, <1>1, <2>3 DEF Obey, Die, Reuse, Free, TypeOK
  <2> QED
    BY <2>1, <2>2, <2>3 DEF HostStep
<1> QED
  BY <1>1, <1>2 DEF HostStep

\* Where the script goes on.
LEMMA ScriptInStop ==
    ASSUME IInv, Gone, HostStep, task = "stopping"
    PROVE  /\ command' = "stop"
           /\ pc' \in {"idle", "stop", "read", "kill", "remove"}
           /\ pc' = "idle" => old' = {}
<1> USE DEF Gone, IInv, TypeOK, table, marks, shell, Goto, Exit
<1>0. old' \subseteq Services' /\ old' \subseteq old
  BY SurvivorsAreServices
<1>1. CASE StopCheck
  BY <1>0, <1>1, NotRunning DEF StopCheck
<1>2. CASE ReadPid
  BY <1>2 DEF ReadPid
<1>3. CASE Kill
  <2>1. counter # RetryLimit
    BY ScriptAssumption
  <2> QED
    BY <1>3, <2>1 DEF Kill
<1>4. CASE KillFails
  BY <1>4 DEF KillFails
<1>5. CASE Remove
  BY <1>0, <1>5 DEF Remove, NoService, Services
<1>6. ASSUME NEW p \in Pids, Obey(p) \/ Die(p) \/ Reuse(p)
      PROVE  command' = command /\ pc' = pc
  BY <1>6 DEF Obey, Die, Reuse, Free
<1>7. CASE StartCheck \/ Spawn \/ Record
  BY <1>7 DEF StartCheck, Spawn, Record
<1> QED
  BY <1>0, <1>1, <1>2, <1>3, <1>4, <1>5, <1>6, <1>7 DEF HostStep

LEMMA GoneStep == IInv /\ Gone /\ [RoleNext]_roleVars => Gone'
<1> SUFFICES ASSUME IInv, Gone, [RoleNext]_roleVars PROVE Gone'
  OBVIOUS
<1> USE DEF Services, IsService, table, marks, shell
<1>1. CASE Begin
  BY <1>1 DEF Begin, Gone, vars
<1>2. CASE StopTask
  <2>1. CASE Running
    BY <1>2, <2>1 DEF StopTask, CallFor, Call, Gone, Survivors
  <2>2. CASE ~ Running
    BY <1>2, <2>2, NotRunning DEF StopTask, Gone, Survivors, vars
  <2> QED
    BY <2>1, <2>2
<1>3. CASE StopDone
  BY <1>3 DEF StopDone, Gone, vars
<1>4. CASE StartTask
  <2>1. old = {} /\ old' = {}
    BY <1>4 DEF StartTask, Gone, Survivors
  <2> QED
    BY <1>4, <2>1 DEF StartTask, Gone, CallFor, Call, vars
<1>5. CASE StartDone
  BY <1>5 DEF StartDone, Gone, vars
<1>6. CASE OtherCall
  BY <1>6 DEF OtherCall, Gone
<1>7. CASE HostStep
  <2>1. old' \subseteq Services' /\ old' \subseteq old /\ task' = task
    BY <1>7, SurvivorsAreServices DEF HostStep
  <2>2. CASE task = "stopping"
    BY <1>7, <2>1, <2>2, ScriptInStop DEF Gone
  <2>3. CASE task \in {"stop", "start"}
    <3>1. pc' = "idle"
      BY <1>7, <2>3 DEF HostStep, Gone, StartCheck, Spawn, Record, StopCheck,
         ReadPid, Kill, KillFails, Remove, Obey, Die, Reuse, Free
    <3> QED
      BY <2>1, <2>3, <3>1 DEF Gone
  <2>4. CASE task \notin {"stopping", "stop", "start"}
    BY <2>1, <2>4 DEF Gone
  <2> QED
    BY <2>2, <2>3, <2>4
<1>8. CASE UNCHANGED roleVars
  BY <1>8 DEF roleVars, vars, Gone
<1> QED
  BY <1>1, <1>2, <1>3, <1>4, <1>5, <1>6, <1>7, <1>8 DEF RoleNext, Role

\* After the role, no process of the service from before it is left.
THEOREM RoleRenews == RoleSpec => []RestartRenews
<1>1. Gone => RestartRenews
  BY DEF Gone, RestartRenews
<1> QED
  BY <1>1, GoneInitially, GoneStep, RoleAlways, PTL DEF RoleSpec

=============================================================================
