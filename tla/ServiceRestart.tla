--------------------------- MODULE ServiceRestart ---------------------------
(***************************************************************************)
(* roles/restart_linux_service_java_app_with_port on a host whose service  *)
(* has the init script of ServiceScript: a task that stops the service and *)
(* may fail, and a task that starts it.  The waits that follow change      *)
(* nothing and may fail too.                                               *)
(*                                                                         *)
(* The module ansible.builtin.service asks the script for the status first *)
(* and calls it only when the service is not in the state asked for.       *)
(* While the role runs nobody else calls the script; the service may end,  *)
(* and identifiers may change hands, at any moment.                        *)
(***************************************************************************)
EXTENDS ServiceScript

VARIABLES
    task,  \* the role: "none", "stop", "stopping", "start", "starting", "done"
    old    \* processes of the service from before the role, still there (history)

roleVars == <<vars, task, old>>

Services == {p \in Pids : IsService(p)}

\* The script is called with argument c.
CallFor(c) == Call /\ command' = c

\* A process that ended is none of the old ones, whoever has its identifier next.
Survivors == old' = {p \in old : process'[p] # "free"}

-----------------------------------------------------------------------------
(* The role.                                                               *)

Begin ==
    /\ pc = "idle" /\ task \in {"none", "done"}
    /\ task' = "stop" /\ old' = Services
    /\ UNCHANGED vars

\* Stop {{service_name}} service
StopTask ==
    /\ task = "stop"
    /\ IF Running THEN CallFor("stop") /\ task' = "stopping"
                  ELSE UNCHANGED vars /\ task' = "start"
    /\ Survivors

\* The script has ended; ignore_errors passes over its failure.
StopDone ==
    /\ task = "stopping" /\ pc = "idle"
    /\ task' = "start"
    /\ UNCHANGED <<vars, old>>

\* Start {{service_name}} service
StartTask ==
    /\ task = "start"
    /\ IF Running THEN UNCHANGED vars /\ task' = "done"
                  ELSE CallFor("start") /\ task' = "starting"
    /\ Survivors

StartDone ==
    /\ task = "starting" /\ pc = "idle" /\ status = "ok"
    /\ task' = "done"
    /\ UNCHANGED <<vars, old>>

Role == Begin \/ StopTask \/ StopDone \/ StartTask \/ StartDone

-----------------------------------------------------------------------------
(* The rest of the host.                                                   *)

\* Somebody else calls the script.
OtherCall ==
    /\ task \in {"none", "done"}
    /\ Call
    /\ task' = "none" /\ old' = {}

\* The script goes on, or a process does.
HostStep ==
    /\ \/ StartCheck \/ Spawn \/ Record
       \/ StopCheck \/ ReadPid
       \/ Kill \/ KillFails \/ Remove
       \/ \E p \in Pids : Obey(p) \/ Die(p) \/ Reuse(p)
    /\ Survivors
    /\ UNCHANGED task

RoleInit == Init /\ task = "none" /\ old = {}

RoleNext == Role \/ OtherCall \/ HostStep

RoleSpec == RoleInit /\ [][RoleNext]_roleVars

\* Script and processes are fair as they are without the role.
FairRoleSpec == RoleSpec /\ Fairness

-----------------------------------------------------------------------------
(* Properties.                                                             *)

\* When the role has ended, no process of the service from before it is there
\* any more, whatever the ignored failure of the stop was: a stop fails only
\* when the process is gone, and otherwise goes on until it is.
RestartRenews == task = "done" => old = {}

=============================================================================
