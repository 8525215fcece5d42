---------------------------- MODULE ServiceScript ----------------------------
(***************************************************************************)
(* The init script that roles/create_linux_service installs for a service  *)
(* (templates/service.sh), and the process it starts and stops.            *)
(*                                                                         *)
(* Each action is one statement that reads or changes what the script      *)
(* shares with the rest of the host: the pid file, the lock file and the   *)
(* process table.  Executions of the script follow one another.            *)
(***************************************************************************)
EXTENDS Naturals

CONSTANTS
    Pids,        \* process identifiers
    None,        \* no process identifier; also: not a number
    RetryLimit,  \* how often the loop of stop() may turn: 40
    Faults       \* "die": the service ends by itself; "reuse": an identifier
                 \* goes to a process of someone else; "deaf": the service does
                 \* not end on the signal of kill

ASSUME ScriptAssumption ==
    /\ None \notin Pids
    /\ RetryLimit \in Nat \ {0}
    /\ None # RetryLimit

VARIABLES
    process,   \* process[p]: "free", "service", "deaf" (a service) or "other"
    signalled, \* processes with a signal of kill they have not acted on
    pidFile,   \* PIDFILE
    lockFile,  \* LOCKFILE exists
    pc,        \* the statement the script is at; "idle" between executions
    command,   \* $1
    pid,       \* PID, or $! in start()
    counter,   \* KILL_RETRY_COUNTER
    status,    \* the exit of the last execution: "none", "ok" or "failed"
    ended      \* the service ended by itself since the call, or since that
               \* call spawned it (history)

table == <<process, signalled>>
marks == <<pidFile, lockFile>>
shell == <<command, pid, counter, status>>
vars == <<table, marks, pc, shell, ended>>

-----------------------------------------------------------------------------
(* Processes.                                                              *)

Alive(p) == p \in Pids /\ process[p] # "free"

IsService(p) == process[p] \in {"service", "deaf"}

\* status -p PIDFILE: the process the pid file names exists.
Running == Alive(pidFile)

-----------------------------------------------------------------------------
(* The script.                                                             *)

Call ==
    /\ pc = "idle"
    /\ command' \in {"start", "stop", "restart"}
    /\ pc' = IF command' = "start" THEN "start" ELSE "stop"
    /\ status' = "none" /\ pid' = None /\ counter' = 0 /\ ended' = FALSE
    /\ UNCHANGED <<table, marks>>

Goto(step) == pc' = step /\ UNCHANGED status
Exit(code) == pc' = "idle" /\ status' = code

\* start(): touch LOCKFILE; nothing else when the process appears to be running.
StartCheck ==
    /\ pc = "start"
    /\ lockFile' = TRUE
    /\ IF Running THEN Exit("ok") ELSE Goto("spawn")
    /\ UNCHANGED <<table, pidFile, command, pid, counter, ended>>

\* start(): the command in the background.
Spawn ==
    /\ pc = "spawn"
    /\ \E p \in Pids, kind \in {"service"} \cup (Faults \cap {"deaf"}) :
         /\ process[p] = "free"
         /\ process' = [process EXCEPT ![p] = kind]
         /\ pid' = p
    /\ Goto("record")
    /\ ended' = FALSE
    /\ UNCHANGED <<signalled, marks, command, counter>>

\* A fault for the checks: the wrong variable goes into the pid file.
RecordCounter ==
    /\ pc = "record"
    /\ pidFile' = counter
    /\ Exit("ok")
    /\ UNCHANGED <<table, lockFile, command, pid, counter, ended>>

\* start(): echo $! > PIDFILE.
Record ==
    /\ pc = "record"
    /\ pidFile' = pid
    /\ Exit("ok")
    /\ UNCHANGED <<table, lockFile, command, pid, counter, ended>>

\* stop(): exit 1 when the process appears to be dead, in a restart too.
StopCheck ==
    /\ pc = "stop"
    /\ IF Running THEN Goto("read") ELSE Exit("failed")
    /\ UNCHANGED <<table, marks, command, pid, counter, ended>>

\* stop(): PID=$(cat PIDFILE), after the log was moved.
ReadPid ==
    /\ pc = "read"
    /\ pid' = pidFile
    /\ Goto("kill")
    /\ UNCHANGED <<table, marks, command, counter, ended>>

\* `expr 0+1` has one operand, the word 0+1, and prints it; the next turn makes
\* it 0+1+1.  The test -eq fails for a word, as it does for another number.
Increment(n) == None

\* A fault for the checks: one signal is taken for the end of the process.
KillOnce ==
    /\ pc = "kill" /\ Alive(pid)
    /\ signalled' = signalled \cup {pid}
    /\ Goto("remove")
    /\ UNCHANGED <<process, marks, command, pid, counter, ended>>

\* A fault for the checks: the loop asks for the process and does not signal it.
KillProbe ==
    /\ pc = "kill" /\ Alive(pid)
    /\ IF counter = RetryLimit
       THEN Exit("failed") /\ UNCHANGED counter
       ELSE Goto("kill") /\ counter' = Increment(counter)
    /\ UNCHANGED <<table, marks, command, pid, ended>>

\* stop(): one turn of the loop "while kill $PID".
Kill ==
    /\ pc = "kill" /\ Alive(pid)
    /\ signalled' = signalled \cup {pid}
    /\ IF counter = RetryLimit
       THEN Exit("failed") /\ UNCHANGED counter
       ELSE Goto("kill") /\ counter' = Increment(counter)
    /\ UNCHANGED <<process, marks, command, pid, ended>>

\* kill fails: there is no such process.
KillFails ==
    /\ pc = "kill" /\ ~ Alive(pid)
    /\ Goto("remove")
    /\ UNCHANGED <<table, marks, command, pid, counter, ended>>

\* A fault for the checks: a restart ends with its stop().
RemoveLast ==
    /\ pc = "remove"
    /\ pidFile' = None /\ lockFile' = FALSE
    /\ Exit("ok")
    /\ UNCHANGED <<table, command, pid, counter, ended>>

\* stop(): rm PIDFILE, rm LOCKFILE; a restart goes on with start().
Remove ==
    /\ pc = "remove"
    /\ pidFile' = None /\ lockFile' = FALSE
    /\ IF command = "restart" THEN Goto("start") ELSE Exit("ok")
    /\ UNCHANGED <<table, command, pid, counter, ended>>

Script == \/ Call
          \/ StartCheck \/ Spawn \/ Record
          \/ StopCheck \/ ReadPid
          \/ Kill \/ KillFails \/ Remove

-----------------------------------------------------------------------------
(* The processes.                                                          *)

Free(p) ==
    /\ process' = [process EXCEPT ![p] = "free"]
    /\ signalled' = signalled \ {p}
    /\ UNCHANGED <<marks, pc, shell>>

\* A process acts on the signal.
Obey(p) ==
    /\ p \in signalled /\ process[p] # "deaf"
    /\ Free(p)
    /\ UNCHANGED ended

\* A process ends by itself.
Die(p) ==
    /\ "die" \in Faults
    /\ Alive(p)
    /\ Free(p)
    /\ ended' = (ended \/ IsService(p))

\* The kernel gives an identifier to a process of someone else.
Reuse(p) ==
    /\ "reuse" \in Faults
    /\ process[p] = "free"
    /\ process' = [process EXCEPT ![p] = "other"]
    /\ UNCHANGED <<signalled, marks, pc, shell, ended>>

-----------------------------------------------------------------------------
(* The specification.                                                      *)

\* Before the first start.
Init ==
    /\ process = [p \in Pids |-> "free"] /\ signalled = {}
    /\ pidFile = None /\ lockFile = FALSE
    /\ pc = "idle" /\ command = "none" /\ pid = None /\ counter = 0
    /\ status = "none" /\ ended = FALSE

Next == Script \/ \E p \in Pids : Obey(p) \/ Die(p) \/ Reuse(p)

Spec == Init /\ [][Next]_vars

\* The shell runs, and a process acts on its signal.  Nobody has to call.
Fairness == /\ WF_vars(pc # "idle" /\ Script)
            /\ \A p \in Pids : WF_vars(Obey(p))

FairSpec == Spec /\ Fairness

\* The script does nothing: between executions, when no identifier is left for
\* the service, and while kill repeats a signal that is on its way.
NoIdentifier == \A p \in Pids : process[p] # "free"
Waiting == \/ pc = "idle"
           \/ pc = "spawn" /\ NoIdentifier
           \/ pc = "kill" /\ pid \in signalled /\ Alive(pid) /\ counter = None

\* The process that stop() kills has the signal and ends on it.
Ending == pid \in signalled /\ process[pid] # "deaf"

-----------------------------------------------------------------------------
(* Properties.                                                             *)

\* Types of the variables.
TypeOK ==
    /\ process \in [Pids -> {"free", "service", "deaf", "other"}]
    /\ signalled \subseteq Pids
    /\ pidFile \in Pids \cup {None} /\ lockFile \in BOOLEAN
    /\ pc \in {"idle", "start", "spawn", "record", "stop", "read", "kill", "remove"}
    /\ command \in {"none", "start", "stop", "restart"}
    /\ pid \in Pids \cup {None} /\ counter \in {0, None}
    /\ status \in {"none", "ok", "failed"} /\ ended \in BOOLEAN

\* Between executions a service that runs is the one the pid file names, and
\* the lock file is there: the next stop finds it, the next start does not
\* start a second one, whatever ended meanwhile and whoever has its identifier.
RunningIsRecorded ==
    pc = "idle" => \A p \in Pids : IsService(p) => pidFile = p /\ lockFile

\* There are never two instances of the service, in the middle of a restart as
\* little as after a start that follows an unnoticed end.
OneService ==
    \A p, q \in Pids : IsService(p) /\ IsService(q) => p = q

\* A stop that reports success leaves no service and no file of one, also when
\* the process ended, or its identifier changed hands, while it was being killed.
StoppedMeansGone ==
    command = "stop" /\ status = "ok" =>
        /\ \A p \in Pids : ~ IsService(p)
        /\ pidFile = None /\ ~ lockFile

\* A start or a restart that reports success has brought the service up: it
\* runs unless it ended by itself.  With "reuse" a start can take the process
\* of someone else for it; a restart cannot.
SuccessBringsUp ==
    /\ command \in (IF "reuse" \in Faults THEN {"restart"} ELSE {"start", "restart"})
    /\ status = "ok" /\ ~ ended
    => \E p \in Pids : IsService(p)

\* What the fairness of shell and processes comes to, with the conditions under
\* which a step is possible written out: a script that is not waiting goes on,
\* and the process it kills does not keep the signal for ever.
GoesOn == /\ []<>Waiting \/ []<><<pc # "idle" /\ Script>>_vars
          /\ []<>(~ Ending) \/ []<><<Obey(pid)>>_vars

\* Where an execution may stay for ever: in the loop of stop(), on a process that
\* does not end or that is someone else's, and without an identifier to give.
Hung == \/ pc = "kill" /\ pid \in Pids /\ process[pid] \in {"deaf", "other"}
        \/ pc = "spawn" /\ NoIdentifier

\* Every execution ends, unless it hangs like that: a service that ends on the
\* signal, sooner or later, needs no retry limit.
EndsUnlessHung == pc # "idle" ~> pc = "idle" \/ Hung

\* templates/service.sh:69: "To prevent shutdown from hanging set a retry limit".
EveryCallEnds == pc # "idle" ~> pc = "idle"

=============================================================================
