------------------------- MODULE ServiceScriptProofs -------------------------
(***************************************************************************)
(* Theorems about ServiceScript, for every set of process identifiers and  *)
(* every set of faults.                                                    *)
(***************************************************************************)
EXTENDS ServiceScript, TLAPS

-----------------------------------------------------------------------------
(* Types.                                                                  *)

LEMMA TypeInit == Init => TypeOK
  BY DEF Init, TypeOK

LEMMA TypeNext == TypeOK /\ [Next]_vars => TypeOK'
<1> SUFFICES ASSUME TypeOK, [Next]_vars PROVE TypeOK'
  OBVIOUS
<1> USE DEF TypeOK, table, marks, shell, Goto, Exit
<1>1. CASE Call
  BY <1>1 DEF Call
<1>2. CASE StartCheck
  BY <1>2 DEF StartCheck
<1>3. CASE Spawn
  <2>1. PICK p \in Pids, kind \in {"service"} \cup (Faults \cap {"deaf"}) :
          process' = [process EXCEPT ![p] = kind] /\ pid' = p
    BY <1>3 DEF Spawn
  <2>2. kind \in {"service", "deaf", "free", "other"}
    OBVIOUS
  <2> QED
    BY <1>3, <2>1, <2>2 DEF Spawn
<1>4. CASE Record
  BY <1>4 DEF Record
<1>5. CASE StopCheck
  BY <1>5 DEF StopCheck
<1>6. CASE ReadPid
  BY <1>6 DEF ReadPid
<1>7. CASE Kill
  BY <1>7 DEF Kill, Alive, Increment
<1>8. CASE KillFails
  BY <1>8 DEF KillFails
<1>9. CASE Remove
  BY <1>9 DEF Remove
<1>10. ASSUME NEW p \in Pids, Obey(p) PROVE TypeOK'
  BY <1>10 DEF Obey, Free
<1>11. ASSUME NEW p \in Pids, Die(p) PROVE TypeOK'
  <2>1. ended' \in BOOLEAN
    BY <1>11 DEF Die, IsService
  <2> QED
    BY <1>11, <2>1 DEF Die, Free
<1>12. ASSUME NEW p \in Pids, Reuse(p) PROVE TypeOK'
  BY <1>12 DEF Reuse
<1>13. CASE UNCHANGED vars
  BY <1>13 DEF vars
<1> QED
  BY <1>1, <1>2, <1>3, <1>4, <1>5, <1>6, <1>7, <1>8, <1>9, <1>10, <1>11,
     <1>12, <1>13 DEF Next, Script

\* Every variable of the script keeps its type.
THEOREM Typing == Spec => []TypeOK
  BY TypeInit, TypeNext, PTL DEF Spec

-----------------------------------------------------------------------------
(* The service, its files and the place of the script.                     *)

\* A service is the one the pid file names, or the one about to be named.
Named == \A p \in Pids : IsService(p) =>
           /\ lockFile
           /\ IF pc = "record" THEN pid = p ELSE pidFile = p

\* There is no service where the script is about to start one or has seen the
\* last one end.
NoService == pc \in {"spawn", "remove"} => \A p \in Pids : ~ IsService(p)

\* The lock is there when a service comes; PID is what the pid file names.
Place == /\ pc \in {"spawn", "record"} => lockFile
         /\ pc = "kill" => pid = pidFile
         /\ status # "none" => pc = "idle"

\* Only a stop or a restart stops, and a restart that starts has no pid file.
Restarts ==
    /\ pc \in {"stop", "read", "kill", "remove"} => command # "start"
    /\ pc \in {"start", "spawn", "record"} => command # "stop"
    /\ pc = "start" /\ command = "restart" => pidFile = None

IInv == TypeOK /\ Named /\ NoService /\ Place /\ Restarts /\ StoppedMeansGone

LEMMA Initially == Init => IInv
  BY DEF Init, IInv, TypeOK, Named, NoService, Place, Restarts,
         StoppedMeansGone, IsService

LEMMA Step == IInv /\ [Next]_vars => IInv'
<1> SUFFICES ASSUME IInv, [Next]_vars PROVE IInv'
  OBVIOUS
<1>t. TypeOK'
  BY TypeNext DEF IInv
<1> USE DEF IInv, Named, NoService, Place, Restarts, StoppedMeansGone,
            IsService, table, marks, shell, Goto, Exit
<1>1. CASE Call
  BY <1>1, <1>t DEF Call
<1>2. CASE StartCheck
  <2>1. ~ Running => \A p \in Pids : ~ IsService(p)
    BY <1>2 DEF StartCheck, Running, Alive
  <2> QED
    BY <1>2, <1>t, <2>1, ScriptAssumption DEF StartCheck, TypeOK
<1>3. CASE Spawn
  <2>1. PICK p \in Pids, kind \in {"service"} \cup (Faults \cap {"deaf"}) :
          process' = [process EXCEPT ![p] = kind] /\ pid' = p
    BY <1>3 DEF Spawn
  <2>2. \A q \in Pids : process'[q] = IF q = p THEN kind ELSE process[q]
    BY <2>1 DEF TypeOK
  <2> QED
    BY <1>3, <1>t, <2>1, <2>2 DEF Spawn
<1>4. CASE Record
  BY <1>4, <1>t DEF Record, TypeOK
<1>5. CASE StopCheck
  BY <1>5, <1>t DEF StopCheck
<1>6. CASE ReadPid
  BY <1>6, <1>t DEF ReadPid
<1>7. CASE Kill
  BY <1>7, <1>t DEF Kill
<1>8. CASE KillFails
  <2>1. \A p \in Pids : ~ IsService(p)
    BY <1>8 DEF KillFails, Alive
  <2> QED
    BY <1>8, <1>t, <2>1 DEF KillFails
<1>9. CASE Remove
  BY <1>9, <1>t DEF Remove
<1>10. ASSUME NEW p \in Pids, Free(p) PROVE IInv'
  <2>1. \A q \in Pids : IsService(q)' => IsService(q)
    BY <1>10 DEF Free, TypeOK
  <2> QED
    BY <1>10, <1>t, <2>1 DEF Free
<1>11. ASSUME NEW p \in Pids, Reuse(p) PROVE IInv'
  <2>1. \A q \in Pids : IsService(q)' => IsService(q)
    BY <1>11 DEF Reuse, TypeOK
  <2> QED
    BY <1>11, <1>t, <2>1 DEF Reuse
<1>12. CASE UNCHANGED vars
  BY <1>12, <1>t DEF vars
<1> QED
  BY <1>1, <1>2, <1>3, <1>4, <1>5, <1>6, <1>7, <1>8, <1>9, <1>10, <1>11,
     <1>12 DEF Next, Script, Obey, Die

LEMMA Always == Spec => []IInv
  BY Initially, Step, PTL DEF Spec

\* Between executions the pid file names the service that runs, whatever ended,
\* ignored a signal or took over an identifier meanwhile.
THEOREM ServiceIsRecorded == Spec => []RunningIsRecorded
<1>1. IInv => RunningIsRecorded
  BY DEF IInv, Named, RunningIsRecorded
<1> QED
  BY <1>1, Always, PTL

\* There are never two instances of the service, whatever ended meanwhile.
THEOREM NeverTwo == Spec => []OneService
<1>1. IInv => OneService
  BY DEF IInv, Named, OneService
<1> QED
  BY <1>1, Always, PTL

\* A stop that reports success has left no service and no file of one.
THEOREM StopIsComplete == Spec => []StoppedMeansGone
<1>1. IInv => StoppedMeansGone
  BY DEF IInv
<1> QED
  BY <1>1, Always, PTL

-----------------------------------------------------------------------------
(* What a start promises.                                                  *)

\* No identifier is in the hands of someone else.
Ours == "reuse" \notin Faults => \A p \in Pids : process[p] # "other"

Spawned == pc = "record" /\ ~ ended => \E p \in Pids : IsService(p)

\* A signal is on its way to a service only in the loop that sends it.
Signals ==
    \A p \in signalled : /\ process[p] # "free"
                         /\ IsService(p) => pc = "kill"

SInv == Ours /\ Spawned /\ Signals /\ SuccessBringsUp

LEMMA StartInitially == Init => SInv
  BY DEF Init, SInv, Ours, Spawned, Signals, SuccessBringsUp

LEMMA StartStep == IInv /\ SInv /\ [Next]_vars => SInv'
<1> SUFFICES ASSUME IInv, SInv, [Next]_vars PROVE SInv'
  OBVIOUS
<1>t. TypeOK /\ Place /\ Restarts
  BY DEF IInv
<1> USE <1>t DEF SInv, Ours, Spawned, Signals, SuccessBringsUp, IsService,
                 Restarts, table, marks, shell, Goto, Exit
<1>1. CASE Call
  BY <1>1 DEF Call
<1>2. CASE StartCheck
  <2>1. Running /\ "reuse" \notin Faults => \E p \in Pids : IsService(p)
    BY DEF Running, Alive, TypeOK
  <2>2. Running => command # "restart"
    BY <1>2, ScriptAssumption DEF StartCheck, Running, Alive
  <2> QED
    BY <1>2, <2>1, <2>2 DEF StartCheck, TypeOK, Place
<1>3. CASE Spawn
  <2>1. PICK p \in Pids, kind \in {"service"} \cup (Faults \cap {"deaf"}) :
          /\ process[p] = "free"
          /\ process' = [process EXCEPT ![p] = kind] /\ pid' = p
    BY <1>3 DEF Spawn
  <2>2. \A q \in Pids : process'[q] = IF q = p THEN kind ELSE process[q]
    BY <2>1 DEF TypeOK
  <2>3. Ours' /\ Spawned'
    BY <1>3, <2>1, <2>2 DEF Spawn
  <2>4. Signals'
    <3>1. \A q \in signalled : q \in Pids /\ q # p
      BY <1>3, <2>1 DEF Spawn, TypeOK
    <3>2. \A q \in signalled : process'[q] = process[q] /\ ~ IsService(q)
      BY <1>3, <2>2, <3>1 DEF Spawn
    <3> QED
      BY <1>3, <3>2 DEF Spawn
  <2> QED
    BY <1>3, <2>1, <2>2, <2>3, <2>4 DEF Spawn, Place, TypeOK
<1>4. CASE Record
  BY <1>4 DEF Record
<1>5. CASE StopCheck
  BY <1>5 DEF StopCheck
<1>6. CASE ReadPid
  BY <1>6 DEF ReadPid
<1>7. CASE Kill
  <2>1. counter # RetryLimit
    BY ScriptAssumption DEF TypeOK
  <2> QED
    BY <1>7, <2>1 DEF Kill, Alive
<1>8. CASE KillFails
  <2>1. \A p \in Pids : ~ IsService(p)
    BY <1>8 DEF KillFails, Alive, IInv, Named, Place
  <2> QED
    BY <1>8, <2>1 DEF KillFails, TypeOK
<1>9. CASE Remove
  BY <1>9 DEF Remove
<1>10. ASSUME NEW p \in Pids, Obey(p) PROVE SInv'
  <2>1. \A q \in Pids : process'[q] = IF q = p THEN "free" ELSE process[q]
    BY <1>10 DEF Obey, Free, TypeOK
  <2>2. CASE pc = "kill"
    BY <1>10, <2>1, <2>2 DEF Obey, Free, TypeOK, Place
  <2>3. CASE pc # "kill"
    <3>1. \A q \in Pids : IsService(q)' <=> IsService(q)
      BY <1>10, <2>1, <2>3 DEF Obey
    <3> QED
      BY <1>10, <2>1, <2>3, <3>1 DEF Obey, Free, TypeOK
  <2> QED
    BY <2>2, <2>3
<1>11. ASSUME NEW p \in Pids, Die(p) PROVE SInv'
  BY <1>11 DEF Die, Free, TypeOK
<1>12. ASSUME NEW p \in Pids, Reuse(p) PROVE SInv'
  BY <1>12 DEF Reuse, TypeOK
<1>13. CASE UNCHANGED vars
  BY <1>13 DEF vars
<1> QED
  BY <1>1, <1>2, <1>3, <1>4, <1>5, <1>6, <1>7, <1>8, <1>9, <1>10, <1>11,
     <1>12, <1>13 DEF Next, Script

\* A start or a restart that reports success has brought the service up, for
\* any faults; where identifiers change hands, a restart.
THEOREM SuccessIsUp == Spec => []SuccessBringsUp
<1>1. IInv /\ SInv => SuccessBringsUp
  BY DEF SInv
<1> QED
  BY <1>1, Always, StartInitially, StartStep, PTL DEF Spec

-----------------------------------------------------------------------------
(* Every execution ends, unless it hangs.                                  *)

\* The process that stop() kills is gone, has not got the signal yet, or has.
Dead == pc = "kill" /\ ~ Alive(pid)
Untold == pc = "kill" /\ Alive(pid) /\ process[pid] = "service"
               /\ pid \notin signalled
Told == pc = "kill" /\ Alive(pid) /\ process[pid] = "service"
             /\ pid \in signalled

LEMMA KillStages == TypeOK /\ pc = "kill" => Dead \/ Untold \/ Told \/ Hung
BY DEF TypeOK, Alive, Dead, Untold, Told, Hung

At(step) == pc = step /\ ~ Hung

\* A step of the script at its statement, and what else may happen meanwhile.
LEMMA StartMoves ==
    ASSUME TypeOK, [Next]_vars
    PROVE  /\ At("start") => (At("start") \/ At("spawn") \/ pc = "idle" \/ Hung)'
           /\ At("spawn") => (At("spawn") \/ At("record") \/ Hung)'
           /\ At("record") => (At("record") \/ pc = "idle")'
           /\ At("stop") => (At("stop") \/ At("read") \/ pc = "idle")'
           /\ At("read") => (At("read") \/ pc = "kill")'
           /\ At("remove") => (At("remove") \/ At("start") \/ pc = "idle")'
<1>. USE DEF At, Hung, NoIdentifier, Goto, Exit
<1>1. CASE Script
  BY <1>1 DEF Script, Call, StartCheck, Spawn, Record, StopCheck, ReadPid, Kill,
     KillFails, Remove
<1>2. CASE UNCHANGED pc
  BY <1>2
<1>. QED  BY <1>1, <1>2 DEF Next, Obey, Die, Reuse, Free, vars

LEMMA ScriptMoves ==
    ASSUME TypeOK, Script
    PROVE  /\ At("start") => (At("spawn") \/ pc = "idle" \/ Hung)'
           /\ At("spawn") => At("record")'
           /\ At("record") => (pc = "idle")'
           /\ At("stop") => (At("read") \/ pc = "idle")'
           /\ At("read") => (pc = "kill")'
           /\ At("remove") => (At("start") \/ pc = "idle")'
           /\ Dead => At("remove")'
           /\ Untold => Told'
<1>. USE DEF At, Hung, Goto, Exit, Dead, Untold, Told
<1>1. CASE Call
  BY <1>1 DEF Call
<1>2. CASE StartCheck
  BY <1>2 DEF StartCheck, NoIdentifier
<1>3. CASE Spawn
  BY <1>3 DEF Spawn
<1>4. CASE Record
  BY <1>4 DEF Record
<1>5. CASE StopCheck
  BY <1>5 DEF StopCheck
<1>6. CASE ReadPid
  BY <1>6 DEF ReadPid
<1>7. CASE Kill
  <2>1. counter # RetryLimit
    BY ScriptAssumption DEF TypeOK
  <2>2. pc = "kill" /\ Alive(pid) /\ (Untold => Told')
    BY <1>7, <2>1 DEF Kill, Alive, TypeOK
  <2>. QED  BY <2>2
<1>8. CASE KillFails
  BY <1>8 DEF KillFails
<1>9. CASE Remove
  BY <1>9 DEF Remove
<1>. QED  BY <1>1, <1>2, <1>3, <1>4, <1>5, <1>6, <1>7, <1>8, <1>9 DEF Script

\* What kill finds changes only by the end of the process, which a process that
\* has the signal brings about, and by a new owner of its identifier.
LEMMA KillMoves ==
    ASSUME TypeOK, [Next]_vars
    PROVE  /\ Dead => (Dead \/ Hung \/ At("remove"))'
           /\ Untold => (Untold \/ Told \/ Dead)'
           /\ Told => (Told \/ Dead)'
           /\ Told /\ Obey(pid) => Dead'
<1>. DEFINE Moves == /\ Dead => (Dead \/ Hung \/ At("remove"))'
                     /\ Untold => (Untold \/ Told \/ Dead)'
                     /\ Told => (Told \/ Dead)'
<1>1. ASSUME Script PROVE Moves
  <2>1. CASE Kill
    <3>1. counter # RetryLimit
      BY ScriptAssumption DEF TypeOK
    <3>. QED  BY <2>1, <3>1 DEF Kill, Goto, Dead, Untold, Told, Alive, TypeOK
  <2>2. CASE KillFails
    BY <2>2 DEF KillFails, Goto, At, Hung, Dead, Untold, Told
  <2>3. CASE pc # "kill"
    BY <2>3 DEF Dead, Untold, Told
  <2>. QED
    BY <1>1, <2>1, <2>2, <2>3 DEF Script, Call, StartCheck, Spawn, Record,
       StopCheck, ReadPid, Remove
<1>2. ASSUME NEW p \in Pids, Free(p) PROVE Moves
  <2>1. \A q \in Pids : process'[q] = IF q = p THEN "free" ELSE process[q]
    BY <1>2 DEF Free, TypeOK
  <2>. QED  BY <1>2, <2>1 DEF Free, shell, Dead, Untold, Told, Alive, TypeOK
<1>3. ASSUME NEW p \in Pids, Reuse(p) PROVE Moves
  <2>1. process[p] = "free"
        /\ \A q \in Pids : process'[q] = IF q = p THEN "other" ELSE process[q]
    BY <1>3 DEF Reuse, TypeOK
  <2>. QED  BY <1>3, <2>1 DEF Reuse, shell, Dead, Untold, Told, Hung, Alive, TypeOK
<1>4. ASSUME UNCHANGED vars PROVE Moves
  BY <1>4 DEF vars, table, shell, Dead, Untold, Told, Alive
<1>5. Told /\ Obey(pid) => Dead'
  BY DEF Obey, Free, shell, Dead, Told, Alive, TypeOK
<1>. QED  BY <1>1, <1>2, <1>3, <1>4, <1>5 DEF Next, Obey, Die

LEMMA ScriptWaits ==
    /\ At("start") \/ At("spawn") \/ At("record") \/ At("stop") \/ At("read")
         \/ At("remove") \/ Dead \/ Untold => pc # "idle" /\ ~ Waiting
    /\ Told => Ending
BY DEF At, Hung, Dead, Untold, Told, Waiting, Ending

LEMMA Places ==
    TypeOK /\ pc # "idle" =>
        \/ At("start") \/ At("spawn") \/ At("record") \/ At("stop")
        \/ At("read") \/ At("remove") \/ Dead \/ Untold \/ Told \/ Hung
BY KillStages DEF TypeOK, At

\* Every execution of the script ends, for any identifiers and any faults,
\* unless the process to be killed stays or there is no identifier left.
THEOREM CallsEnd == Spec /\ GoesOn => EndsUnlessHung
<1>. DEFINE Done == pc = "idle" \/ Hung
            Go == pc # "idle" /\ Script
            Heed == Obey(pid)
            Starting == At("start")
            Spawning == At("spawn")
            Recording == At("record")
            Stopping == At("stop")
            Reading == At("read")
            Removing == At("remove")
            Killing == Dead \/ Untold \/ Told
\* What may happen at each place.
<1>1. /\ TypeOK /\ [Next]_vars /\ Stopping => (Stopping \/ Reading \/ Done)'
      /\ TypeOK /\ [Next]_vars /\ Reading => (Reading \/ Killing \/ Done)'
      /\ TypeOK /\ [Next]_vars /\ Untold => (Untold \/ Told \/ Dead)'
      /\ TypeOK /\ [Next]_vars /\ Told => (Told \/ Dead)'
      /\ TypeOK /\ [Next]_vars /\ Dead => (Dead \/ Removing \/ Done)'
      /\ TypeOK /\ [Next]_vars /\ Removing => (Removing \/ Starting \/ Done)'
      /\ TypeOK /\ [Next]_vars /\ Starting => (Starting \/ Spawning \/ Done)'
      /\ TypeOK /\ [Next]_vars /\ Spawning => (Spawning \/ Recording \/ Done)'
      /\ TypeOK /\ [Next]_vars /\ Recording => (Recording \/ Done)'
  <2>1. TypeOK /\ [Next]_vars => (pc = "kill" => Killing \/ Hung)'
    BY TypeNext, KillStages, PTL
  <2>. QED  BY <2>1, StartMoves, KillMoves
\* What the script does there.
<1>2. /\ TypeOK /\ <<Go>>_vars /\ Stopping => (Reading \/ Done)'
      /\ TypeOK /\ <<Go>>_vars /\ Reading => (Killing \/ Done)'
      /\ TypeOK /\ <<Go>>_vars /\ Untold => Told'
      /\ TypeOK /\ <<Heed>>_vars /\ Told /\ [Next]_vars => Dead'
      /\ TypeOK /\ <<Go>>_vars /\ Dead => Removing'
      /\ TypeOK /\ <<Go>>_vars /\ Removing => (Starting \/ Done)'
      /\ TypeOK /\ <<Go>>_vars /\ Starting => (Spawning \/ Done)'
      /\ TypeOK /\ <<Go>>_vars /\ Spawning => Recording'
      /\ TypeOK /\ <<Go>>_vars /\ Recording => Done'
  <2>1. Script => [Next]_vars
    BY DEF Next
  <2>2. TypeOK /\ [Next]_vars => (pc = "kill" => Killing \/ Hung)'
    BY TypeNext, KillStages, PTL
  <2>. QED  BY <2>1, <2>2, ScriptMoves, KillMoves
\* Neither waits for ever.
<1>3. /\ Stopping \/ Reading \/ Untold \/ Dead \/ Removing \/ Starting
           \/ Spawning \/ Recording => ~ Waiting
      /\ Told => Ending
  BY ScriptWaits
<1>4. TypeOK /\ pc # "idle" =>
        \/ Stopping \/ Reading \/ Killing \/ Removing
        \/ Starting \/ Spawning \/ Recording \/ Done
  BY Places
<1>. HIDE DEF Done, Go, Heed, Starting, Spawning, Recording, Stopping, Reading,
              Removing
<1>5. Spec => []TypeOK /\ [][Next]_vars
  BY Typing, PTL DEF Spec
<1>6. []TypeOK /\ [][Next]_vars /\ GoesOn => (pc # "idle" ~> Done)
  BY <1>1, <1>2, <1>3, <1>4, PTL DEF GoesOn, Go, Heed
<1>. QED  BY <1>5, <1>6, PTL DEF EndsUnlessHung, Done

=============================================================================
