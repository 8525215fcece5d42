--------------------------- MODULE WlstEditProofs ---------------------------
(***************************************************************************)
(* Proofs about WlstEdit, for every domain, every playbook and any faults. *)
(***************************************************************************)
EXTENDS WlstEdit, Integers, FiniteSetTheorems, TLAPS

-----------------------------------------------------------------------------
(* Typing.                                                                 *)

LEMMA CreatedTyped ==
    ASSUME NEW c \in Configuration, NEW bean
    PROVE  Created(c, bean) \in Configuration
BY SettingsAssumption DEF Created, Configuration

LEMMA AssignedTyped ==
    ASSUME NEW c \in Configuration, NEW S
    PROVE  Assigned(c, S) \in Configuration
BY SettingsAssumption DEF Assigned, Configuration

LEMMA GivenTyped ==
    ASSUME NEW c \in Configuration, NEW S
    PROVE  Given(c, S) \in Configuration
BY SettingsAssumption DEF Given, Configuration

LEMMA WithoutTyped ==
    ASSUME NEW c \in Configuration, NEW S
    PROVE  Without(c, S) \in Configuration
BY DEF Without, Configuration

\* The domain after a session of a script.
LEMMA SessionTyped ==
    ASSUME active \in Configuration, NEW c \in Configuration,
           Publish(c) \/ Abandon(c) \/ PublishFails(c)
    PROVE  /\ active' \in Configuration /\ edit' \in Configuration
           /\ lock' \in {"free", "script"}
           /\ lock # "console"
BY DEF Publish, Abandon, PublishFails, Refused

\* Where a script goes on.
LEMMA ControlTyped ==
    ASSUME TypeOK, NEW step \in Steps, NEW result \in {"ok", "failed"},
           Goto(step) \/ End(result)
    PROVE  /\ pc' \in Steps /\ plan' \in Seq(Scripts)
           /\ rc' \in {"none", "ok", "failed"}
<1>1. << >> \in Seq(Scripts) /\ "idle" \in Steps
  BY DEF Steps
<1>2. CASE Goto(step)
  BY <1>2 DEF TypeOK, Goto
<1>3. CASE End(result)
  BY <1>1, <1>3 DEF TypeOK, End
<1>. QED  BY <1>2, <1>3

LEMMA TypeInit == Init => TypeOK
<1>. SUFFICES ASSUME Init PROVE TypeOK
  OBVIOUS
<1>1. active \in Configuration /\ edit \in Configuration
  BY SettingsAssumption DEF Init
<1>2. plan \in Seq(Scripts)
  BY DEF Init
<1>. QED  BY <1>1, <1>2 DEF Init, TypeOK, Steps

\* A script changes the domain by a session of its own or not at all.
Sessions == \/ UNCHANGED domain
            \/ \E c \in Configuration : Publish(c) \/ Abandon(c) \/ PublishFails(c)

LEMMA ScriptsUseSessions == TypeOK /\ Script => Sessions
<1>. SUFFICES ASSUME TypeOK, Script PROVE Sessions
  OBVIOUS
<1>. edit \in Configuration
  BY DEF TypeOK
<1>1. CASE AddLockoutManager
  BY <1>1, AssignedTyped DEF AddLockoutManager, Sessions
<1>2. CASE LookupPasswordValidator
  BY <1>2 DEF LookupPasswordValidator, Sessions
<1>3. CASE CreatePasswordValidator
  BY <1>3, CreatedTyped DEF CreatePasswordValidator, Sessions
<1>4. CASE SetLimits
  BY <1>4 DEF SetLimits, Sessions
<1>5. CASE LookupAuditor
  BY <1>5 DEF LookupAuditor, Sessions
<1>6. CASE CreateAuditor
  BY <1>6, CreatedTyped DEF CreateAuditor, Sessions
<1>7. CASE CreateMailSession
  BY <1>7, CreatedTyped, AssignedTyped DEF CreateMailSession, Sessions
<1>8. CASE CheckRecord
  BY <1>8 DEF CheckRecord, Sessions
<1>9. CASE UpdateSetting
  <2>1. Updated \in Configuration
    BY AssignedTyped DEF Updated
  <2>. QED  BY <1>9, <2>1 DEF UpdateSetting, Sessions
<1>10. CASE FinishCheck
  BY <1>10 DEF FinishCheck, Sessions
<1>11. CASE WriteSettingsFile
  BY <1>11 DEF WriteSettingsFile, Sessions
<1>12. CASE SetAttributes
  BY <1>12, GivenTyped DEF SetAttributes, Sessions
<1>13. CASE ReplaceMailSession
  <2>1. Without(edit, Mail) \in Configuration
    BY WithoutTyped
  <2>2. Given(Without(edit, Mail), Mail) \in Configuration
    BY <2>1, GivenTyped
  <2>3. \A S : Given(Created(Without(edit, Mail), Mail), S) \in Configuration
    BY <2>1, CreatedTyped, GivenTyped
  <2>. QED  BY <1>13, <2>1, <2>2, <2>3 DEF ReplaceMailSession, Sessions
<1>. QED  BY <1>1, <1>2, <1>3, <1>4, <1>5, <1>6, <1>7, <1>8, <1>9, <1>10, <1>11,
         <1>12, <1>13 DEF Script, Security, Check

LEMMA SessionsTyped ==
    ASSUME TypeOK, Sessions
    PROVE  /\ active' \in Configuration /\ edit' \in Configuration
           /\ lock' \in {"free", "script", "console"}
<1>1. CASE UNCHANGED domain
  BY <1>1 DEF domain, TypeOK
<1>2. ASSUME NEW c \in Configuration, Publish(c) \/ Abandon(c) \/ PublishFails(c)
      PROVE  /\ active' \in Configuration /\ edit' \in Configuration
             /\ lock' \in {"free", "script", "console"}
  BY <1>2, SessionTyped DEF TypeOK
<1>. QED  BY <1>1, <1>2 DEF Sessions

LEMMA ScriptMoves ==
    TypeOK /\ Script =>
        /\ pc' \in Steps /\ plan' \in Seq(Scripts)
        /\ rc' \in {"none", "ok", "failed"}
<1>. SUFFICES ASSUME TypeOK, Script
              PROVE  /\ pc' \in Steps /\ plan' \in Seq(Scripts)
                     /\ rc' \in {"none", "ok", "failed"}
  OBVIOUS
<1>1. \E step \in Steps, result \in {"ok", "failed"} : Goto(step) \/ End(result)
  <2>1. CASE Security
    BY <2>1 DEF Security, AddLockoutManager, LookupPasswordValidator,
       CreatePasswordValidator, SetLimits, LookupAuditor, CreateAuditor,
       WriteSettingsFile, Steps
  <2>2. CASE CreateMailSession
    BY <2>2 DEF CreateMailSession, Steps
  <2>3. CASE Check
    BY <2>3 DEF Check, CheckRecord, UpdateSetting, FinishCheck, Steps
  <2>4. CASE SetAttributes \/ ReplaceMailSession
    BY <2>4 DEF SetAttributes, ReplaceMailSession, Steps
  <2>. QED  BY <2>1, <2>2, <2>3, <2>4 DEF Script
<1>. QED  BY <1>1, ControlTyped

\* The records the checker is given are attributes of the domain.
LEMMA ListedTyped == Listed \subseteq Settings /\ Correctable \subseteq Listed
BY SettingsAssumption DEF Listed, Correctable, FixedRecords, AdjustableRecords

LEMMA TypeStep == TypeOK /\ [Next]_vars => TypeOK'
<1>. SUFFICES ASSUME TypeOK, [Next]_vars PROVE TypeOK'
  OBVIOUS
<1>1. CASE Script
  <2>1. /\ active' \in Configuration /\ edit' \in Configuration
        /\ lock' \in {"free", "script", "console"}
    BY <1>1, ScriptsUseSessions, SessionsTyped
  <2>2. /\ pc' \in Steps /\ plan' \in Seq(Scripts)
        /\ rc' \in {"none", "ok", "failed"}
    BY <1>1, ScriptMoves
  <2>3. /\ todo' \subseteq Settings /\ findings' \subseteq Settings
        /\ current' \in Settings \cup {Absent}
        /\ last' = last /\ touched' = touched /\ calm' = calm
        /\ written' \in BOOLEAN /\ adopted' = adopted
    BY <1>1 DEF TypeOK, Script, Security, Check, AddLockoutManager,
       LookupPasswordValidator, CreatePasswordValidator, SetLimits,
       LookupAuditor, CreateAuditor, WriteSettingsFile, CreateMailSession,
       SetAttributes, ReplaceMailSession, CheckRecord, UpdateSetting,
       FinishCheck, securityRest, checker, listing
  <2>. QED  BY <2>1, <2>2, <2>3 DEF TypeOK
<1>2. CASE Play
  BY <1>2, SettingsAssumption DEF TypeOK, Play, domain, checker
<1>3. CASE Start
  <2>1. Head(plan) \in Scripts /\ Tail(plan) \in Seq(Scripts)
    BY <1>3 DEF TypeOK, Start
  <2>. QED  BY <1>3, <2>1, ListedTyped DEF TypeOK, Start, domain, listing,
            FirstStep, Steps, Scripts
<1>4. CASE Kill
  BY <1>4 DEF TypeOK, Kill, End, Steps, domain, checker, listing
<1>5. CASE Console
  <2>. USE DEF TypeOK, consoleRest, checker, listing, Configuration
  <2>1. CASE ConsoleLock
    BY <2>1 DEF ConsoleLock
  <2>2. CASE ConsoleSet
    BY <2>2 DEF ConsoleSet
  <2>3. CASE ConsoleDelete
    BY <2>3, SettingsAssumption DEF ConsoleDelete, Without
  <2>4. CASE ConsoleActivate
    BY <2>4 DEF ConsoleActivate
  <2>5. CASE ConsoleRelease
    BY <2>5 DEF ConsoleRelease
  <2>. QED  BY <1>5, <2>1, <2>2, <2>3, <2>4, <2>5 DEF Console
<1>6. CASE UNCHANGED vars
  BY <1>6 DEF TypeOK, vars, domain, checker, listing
<1>7. CASE CalmDown
  BY <1>7 DEF TypeOK, CalmDown, domain, checker, listing
<1>. QED  BY <1>1, <1>2, <1>3, <1>4, <1>5, <1>6, <1>7 DEF Next

\* Every variable keeps its type.
THEOREM Typing == Spec => []TypeOK
<1>. QED  BY TypeInit, TypeStep, PTL DEF Spec

-----------------------------------------------------------------------------
(* The edit session.                                                       *)

\* No step of a script disturbs a session of the console: a script changes the
\* domain by a session, and a session is refused then.
THEOREM ConsoleKeepsItsSession == Spec => ConsoleSessionKept
<1>1. TypeOK /\ [Next]_vars
        => [Script /\ lock = "console" => UNCHANGED domain]_vars
  <2>. SUFFICES ASSUME TypeOK, Script, lock = "console" PROVE UNCHANGED domain
    OBVIOUS
  <2>1. Sessions
    BY ScriptsUseSessions
  <2>. QED  BY <2>1 DEF Sessions, Publish, Abandon, PublishFails, Refused
<1>. QED  BY <1>1, Typing, PTL DEF Spec, ConsoleSessionKept

\* Pending changes stay behind the lock.
THEOREM PendingChangesAreLocked == Spec => []PendingIsLocked
<1>1. Init => PendingIsLocked
  BY DEF Init, PendingIsLocked
<1>2. TypeOK /\ PendingIsLocked /\ [Next]_vars => PendingIsLocked'
  <2>. SUFFICES ASSUME TypeOK, PendingIsLocked, [Next]_vars
                PROVE  PendingIsLocked'
    OBVIOUS
  <2>1. CASE Script
    BY <2>1, ScriptsUseSessions DEF Sessions, Publish, Abandon, PublishFails,
       PendingIsLocked, domain
  <2>2. CASE Play \/ Start \/ Kill \/ CalmDown \/ UNCHANGED vars
    BY <2>2 DEF Play, Start, Kill, CalmDown, vars, domain, PendingIsLocked
  <2>3. CASE Console
    BY <2>3 DEF Console, ConsoleLock, ConsoleSet, ConsoleDelete,
       ConsoleActivate, ConsoleRelease, PendingIsLocked
  <2>. QED  BY <2>1, <2>2, <2>3 DEF Next
<1>. QED  BY <1>1, <1>2, Typing, PTL DEF Spec

-----------------------------------------------------------------------------
(* The checker's report.                                                   *)

\* Which script is at which step.
StepOfScript ==
    /\ pc \in {"record", "update"} => last = "checker"
    /\ pc \notin {"idle", "record", "update"} => last # "checker"
    /\ findings \cap todo = {}
    /\ pc = "update" => current \in findings
    /\ ChecksEnded => todo = {}

Checking == last = "checker" /\ (pc \in {"record", "update"} \/ ChecksEnded)

\* What the checker knows of a record it has looked at: the edit tree agrees, or
\* the record is reported and, if it can be corrected, it was or is about to be.
Known(s) ==
    \/ edit[s] = Expected[s]
    \/ /\ s \in findings
       /\ s \in Correctable => \/ edit[s] = Absent
                               \/ pc = "update" /\ current = s

LookedAt == Checking => \A s \in Listed \ (todo \cup touched) : Known(s)

ReportInv == TypeOK /\ StepOfScript /\ LookedAt

\* What the checker is given changes only when a play begins.
LEMMA ListingKept ==
    ASSUME adopted' = adopted
    PROVE  /\ Listed' = Listed /\ Correctable' = Correctable
           /\ Listed \subseteq Settings
BY ListedTyped DEF Listed, Correctable

LEMMA ReportInit == Init => ReportInv
<1>. SUFFICES ASSUME Init PROVE ReportInv
  OBVIOUS
<1>1. StepOfScript /\ LookedAt
  BY DEF Init, StepOfScript, LookedAt, Checking, ChecksEnded
<1>. QED  BY <1>1, TypeInit DEF ReportInv

\* The scripts that are not the checker do not run while it does, and never end
\* as the checker.
LEMMA OthersAreNotChecker ==
    ASSUME ReportInv,
           Security \/ CreateMailSession \/ SetAttributes \/ ReplaceMailSession
    PROVE  StepOfScript' /\ LookedAt'
<1>1. /\ last # "checker" /\ last' = last /\ UNCHANGED checker
      /\ pc' \notin {"record", "update"}
  BY DEF ReportInv, StepOfScript, Security, AddLockoutManager,
     LookupPasswordValidator, CreatePasswordValidator, SetLimits,
     LookupAuditor, CreateAuditor, WriteSettingsFile, CreateMailSession,
     SetAttributes, ReplaceMailSession, Goto, End, securityRest, checker
<1>. QED  BY <1>1 DEF ReportInv, StepOfScript, LookedAt, Checking, ChecksEnded,
          checker

LEMMA RecordIsKnown ==
    ASSUME ReportInv, CheckRecord
    PROVE  StepOfScript' /\ LookedAt'
<1>. USE DEF ReportInv, TypeOK
<1>1. PICK s \in todo : CheckRecord!3!(s)
  BY DEF CheckRecord
<1>2. /\ pc = "record" /\ last = "checker" /\ UNCHANGED <<domain, last, touched, rc>>
      /\ UNCHANGED listing
      /\ pc' \in {"record", "update"}
  BY <1>1 DEF CheckRecord, StepOfScript, Goto
<1>3. findings \subseteq findings' /\ todo' = todo \ {s}
  BY <1>1
<1>4. Known(s)'
  BY <1>1, <1>2, ListingKept DEF Known, Goto, domain, listing
<1>5. ASSUME NEW r \in Listed \ (todo \cup touched) PROVE Known(r)'
  BY <1>2, <1>3, <1>5, ListingKept DEF LookedAt, Checking, Known, domain, listing
<1>6. LookedAt'
  BY <1>2, <1>3, <1>4, <1>5, ListingKept DEF LookedAt, listing
<1>7. StepOfScript'
  BY <1>1, <1>2 DEF StepOfScript, ChecksEnded, Goto
<1>. QED  BY <1>6, <1>7

LEMMA CorrectionIsKnown ==
    ASSUME ReportInv, UpdateSetting
    PROVE  StepOfScript' /\ LookedAt'
<1>. USE DEF ReportInv, TypeOK
<1>1. /\ pc = "update" /\ last = "checker" /\ current \in findings
      /\ last' = last /\ todo' = todo /\ findings' = findings
      /\ touched' = touched /\ UNCHANGED listing
  BY DEF UpdateSetting, StepOfScript
<1>2. CASE pc' = "idle" /\ rc' = "failed"
  BY <1>1, <1>2 DEF StepOfScript, LookedAt, Checking, ChecksEnded
<1>3. CASE Publish(Updated) /\ Goto("record")
  <2>1. pc' = "record" /\ edit' = Updated
    BY <1>3 DEF Publish, Goto
  <2>2. StepOfScript'
    BY <1>1, <2>1 DEF StepOfScript, ChecksEnded
  <2>3. ASSUME NEW r \in Listed \ (todo \cup touched) PROVE Known(r)'
    <3>1. Known(r)
      BY <1>1 DEF LookedAt, Checking
    <3>2. CASE r = current
      <4>1. Absent \notin Values /\ Expected[r] \in Values
        BY <2>3, SettingsAssumption, ListedTyped
      <4>2. CASE edit[current] = Absent
        BY <1>1, <2>1, <3>2, <4>2, ListingKept DEF Known, Updated, listing
      <4>3. CASE edit[current] # Absent
        BY <1>1, <2>1, <2>3, <3>2, <4>1, <4>3, ListedTyped
           DEF Known, Updated, Assigned
      <4>. QED  BY <4>2, <4>3
    <3>3. CASE r # current
      BY <1>1, <2>1, <2>3, <3>1, <3>3, ListedTyped, ListingKept
         DEF Known, Updated, Assigned, listing
    <3>. QED  BY <3>2, <3>3
  <2>. QED  BY <1>1, <2>2, <2>3, ListingKept DEF LookedAt, listing
<1>. QED  BY <1>2, <1>3 DEF UpdateSetting, End

LEMMA ReportStep == ReportInv /\ [Next]_vars => ReportInv'
<1>. SUFFICES ASSUME ReportInv, [Next]_vars PROVE StepOfScript' /\ LookedAt'
  BY TypeStep DEF ReportInv
<1>1. CASE Script
  <2>1. CASE FinishCheck
    BY <2>1, ListingKept DEF ReportInv, FinishCheck, End, StepOfScript,
       LookedAt, Checking, ChecksEnded, Known, domain, checker, listing
  <2>. QED  BY <1>1, <2>1, OthersAreNotChecker, RecordIsKnown, CorrectionIsKnown
            DEF Script, Check
<1>2. CASE Play
  BY <1>2 DEF ReportInv, Play, StepOfScript, LookedAt, Checking, ChecksEnded,
     Known, domain, checker
<1>3. CASE Start
  BY <1>3, ListingKept DEF ReportInv, Start, FirstStep, StepOfScript, LookedAt,
     Checking, ChecksEnded, TypeOK, Scripts, listing
<1>4. CASE Kill
  BY <1>4 DEF ReportInv, Kill, End, StepOfScript, LookedAt, Checking,
     ChecksEnded, checker
<1>5. CASE Console
  <2>1. /\ UNCHANGED consoleRest /\ touched \subseteq touched'
        /\ \A s \in Settings \ touched' : edit'[s] = edit[s]
        /\ Listed' = Listed /\ Correctable' = Correctable
        /\ Listed \subseteq Settings
    BY <1>5, ListingKept DEF ReportInv, TypeOK, Configuration, Console,
       ConsoleLock, ConsoleSet, ConsoleDelete, Without, ConsoleActivate,
       ConsoleRelease, consoleRest, listing
  <2>. QED  BY <2>1 DEF ReportInv, StepOfScript, LookedAt, Checking,
            ChecksEnded, Known, consoleRest, checker
<1>6. CASE UNCHANGED vars
  BY <1>6, ListingKept DEF ReportInv, StepOfScript, LookedAt, Checking,
     ChecksEnded, Known, vars, domain, checker, listing
<1>7. CASE CalmDown
  BY <1>7, ListingKept DEF ReportInv, CalmDown, StepOfScript, LookedAt, Checking,
     ChecksEnded, Known, domain, checker, listing
<1>. QED  BY <1>1, <1>2, <1>3, <1>4, <1>5, <1>6, <1>7 DEF Next

\* The report of the checker is true of the active configuration once no session
\* is open.
THEOREM ReportsHold == Spec => []ReportHolds
<1>1. ReportInv /\ PendingIsLocked => ReportHolds
  BY DEF ReportInv, TypeOK, StepOfScript, LookedAt, Checking, ChecksEnded,
     Known, PendingIsLocked, ReportHolds
<1>2. Spec => []ReportInv
  BY ReportInit, ReportStep, PTL DEF Spec
<1>. QED  BY <1>1, <1>2, PendingChangesAreLocked, PTL

-----------------------------------------------------------------------------
(* Every script ends.                                                      *)

\* What the checker has still to look at is a part of the records.
TodoListed == todo \subseteq AllRecords

LEMMA TodoStep ==
    ASSUME TodoListed, [Next]_vars
    PROVE  TodoListed'
<1>. USE DEF TodoListed
<1>1. CASE Script
  BY <1>1 DEF Script, Security, Check, AddLockoutManager, LookupPasswordValidator,
     CreatePasswordValidator, SetLimits, LookupAuditor, CreateAuditor,
     WriteSettingsFile, CreateMailSession, SetAttributes, ReplaceMailSession,
     CheckRecord, UpdateSetting, FinishCheck, securityRest, checker
<1>2. CASE Start
  BY <1>2 DEF Start, Listed, AllRecords
<1>3. CASE ~ Script /\ ~ Start
  BY <1>3 DEF Next, Play, Kill, Console, ConsoleLock, ConsoleSet, ConsoleDelete,
     ConsoleActivate, ConsoleRelease, CalmDown, consoleRest, checker, vars
<1>. QED  BY <1>1, <1>2, <1>3

\* At most so many statements a script has before it.
Left == CASE pc = "lockout" -> 7   [] pc = "validator" -> 6
          [] pc = "create" -> 5    [] pc = "limits" -> 4
          [] pc = "auditor" -> 3   [] pc = "audit" -> 2
          [] pc \in {"file", "mail", "plain", "email"} -> 1
          [] pc = "record" -> 2 * Cardinality(todo) + 1
          [] pc = "update" -> 2 * Cardinality(todo) + 2
          [] OTHER -> 0

LEMMA LeftBounded ==
    ASSUME FewRecords, TodoListed
    PROVE  /\ IsFiniteSet(todo) /\ Cardinality(todo) \in Nat
           /\ Left \in Nat /\ Left <= 2002
<1>1. AllRecords \subseteq Settings
  BY SettingsAssumption DEF AllRecords, FixedRecords, AdjustableRecords
<1>2. IsFiniteSet(AllRecords)
  BY <1>1, FS_Subset DEF FewRecords
<1>3. /\ IsFiniteSet(todo) /\ Cardinality(todo) \in Nat
      /\ Cardinality(AllRecords) \in Nat /\ Cardinality(todo) <= 1000
  BY <1>2, FS_Subset, FS_CardinalityType DEF FewRecords, TodoListed
<1>4. 2 * Cardinality(todo) + 1 \in Nat /\ 2 * Cardinality(todo) + 2 \in Nat
  BY <1>3
<1>5. /\ 2 * Cardinality(todo) + 1 <= 2002
      /\ 2 * Cardinality(todo) + 2 <= 2002
  BY <1>3
<1>6. Left \in Nat
  BY <1>4 DEF Left
<1>7. Left <= 2002
  BY <1>5 DEF Left
<1>. QED  BY <1>3, <1>6, <1>7

\* Each statement leaves less before the script.
LEMMA ScriptGetsOn ==
    ASSUME FewRecords, TodoListed, TypeOK, Script
    PROVE  pc' = "idle" \/ (pc # "idle" /\ Left' < Left)
<1>1. IsFiniteSet(todo) /\ Cardinality(todo) \in Nat
  BY LeftBounded
<1>. USE DEF Left, Goto, End
<1>2. CASE Security
  BY <1>2 DEF Security, AddLockoutManager, LookupPasswordValidator,
     CreatePasswordValidator, SetLimits, LookupAuditor, CreateAuditor,
     WriteSettingsFile
<1>3. CASE CreateMailSession \/ SetAttributes \/ ReplaceMailSession
  BY <1>3 DEF CreateMailSession, SetAttributes, ReplaceMailSession
<1>4. CASE CheckRecord
  <2>1. PICK r \in todo : CheckRecord!3!(r)
    BY <1>4 DEF CheckRecord
  <2>2. Cardinality(todo') = Cardinality(todo) - 1
    BY <1>1, <2>1, FS_RemoveElement
  <2>3. pc = "record" /\ pc' \in {"record", "update"}
    BY <1>4, <2>1 DEF CheckRecord
  <2>. QED  BY <1>1, <2>2, <2>3
<1>5. CASE UpdateSetting
  BY <1>1, <1>5 DEF UpdateSetting
<1>6. CASE FinishCheck
  BY <1>6 DEF FinishCheck
<1>. QED  BY <1>2, <1>3, <1>4, <1>5, <1>6 DEF Script, Check

\* What others do leaves a script where it is, or ends it.
LEMMA OthersWait ==
    ASSUME pc # "idle", [Next]_vars, ~ Script
    PROVE  pc' = "idle" \/ UNCHANGED <<pc, todo>>
BY DEF Next, Play, Start, Kill, End, Console, ConsoleLock, ConsoleSet,
   ConsoleDelete, ConsoleActivate, ConsoleRelease, CalmDown, consoleRest,
   checker, vars

\* A script that has executed k of the statements it may have before it.
Done(k) == pc # "idle" /\ Left <= 2002 - k

Idle == pc = "idle"

LEMMA GetsOn ==
    ASSUME FewRecords, NEW k \in Nat, NEW l \in Nat, l = k + 1
    PROVE  Spec /\ GoesOn => (Done(k) ~> Done(l) \/ Idle)
<1>. DEFINE Inv == TypeOK /\ TodoListed
            Work == Start \/ Script
            Rest == pc = "idle" /\ plan = << >>
            Here == Done(k)
            There == Done(l)
            Bounded == Left \in Nat /\ Left <= 2002
<1>1. Init => Inv
  BY TypeInit DEF Init, TodoListed
<1>2. Inv /\ [Next]_vars => Inv'
  BY TypeStep, TodoStep
<1>3. Inv => Bounded
  BY LeftBounded
<1>4. Inv /\ Bounded' /\ [Next]_vars /\ Here => Here' \/ Idle'
  <2>. SUFFICES ASSUME Inv, Bounded', [Next]_vars, Here
                PROVE  Here' \/ Idle'
    OBVIOUS
  <2>1. CASE Script
    BY <1>3, <2>1, ScriptGetsOn DEF Done, Idle
  <2>2. CASE UNCHANGED <<pc, todo>>
    <3>1. Left' = Left
      BY <2>2 DEF Left
    <3>. QED  BY <2>2, <3>1 DEF Done
  <2>. QED  BY <2>1, <2>2, OthersWait DEF Done, Idle
<1>5. Inv /\ Bounded' /\ <<Work>>_vars /\ Here => There' \/ Idle'
  <2>. SUFFICES ASSUME Inv, Bounded', Work, Here
                PROVE  There' \/ Idle'
    OBVIOUS
  <2>1. Script
    BY DEF Done, Start
  <2>. QED  BY <1>3, <2>1, ScriptGetsOn DEF Done, Idle
<1>6. Here => ~ Rest
  BY DEF Done
<1>. HIDE DEF Inv, Work, Rest, Here, There, Bounded
<1>7. Inv /\ [Next]_vars => Bounded'
  BY <1>2, <1>3, PTL
<1>8. Spec /\ ([]<>Rest \/ []<><<Work>>_vars) => (Here ~> There \/ Idle)
  BY <1>1, <1>2, <1>4, <1>5, <1>6, <1>7, PTL DEF Spec
<1>. QED  BY <1>8 DEF GoesOn, Work, Rest, Here, There

\* The number of statements that are certain doubles in every step of the proof.
LEMMA Idles ==
    ASSUME FewRecords
    PROVE  Spec /\ GoesOn => (Done(0) ~> Idle)
<1>. DEFINE To(k, l) == Spec /\ GoesOn => (Done(k) ~> Done(l) \/ Idle)
<1>1. \A k, l \in Nat : l = k + 1 => To(k, l)
  BY GetsOn
<1>2. \A k, l, m \in Nat : To(k, l) /\ To(l, m) => To(k, m)
  <2>. SUFFICES ASSUME NEW k \in Nat, NEW l \in Nat, NEW m \in Nat
                PROVE  To(k, l) /\ To(l, m) => To(k, m)
    OBVIOUS
  <2>. QED  BY PTL
<1>. HIDE DEF To
<1>3. \A k \in Nat : To(k, k + 1)
  BY <1>1
<1>4. \A k \in Nat : To(k, k + 2)
  BY <1>2, <1>3
<1>5. \A k \in Nat : To(k, k + 4)
  BY <1>2, <1>4
<1>6. \A k \in Nat : To(k, k + 8)
  BY <1>2, <1>5
<1>7. \A k \in Nat : To(k, k + 16)
  BY <1>2, <1>6
<1>8. \A k \in Nat : To(k, k + 32)
  BY <1>2, <1>7
<1>9. \A k \in Nat : To(k, k + 64)
  BY <1>2, <1>8
<1>10. \A k \in Nat : To(k, k + 128)
  BY <1>2, <1>9
<1>11. \A k \in Nat : To(k, k + 256)
  BY <1>2, <1>10
<1>12. \A k \in Nat : To(k, k + 512)
  BY <1>2, <1>11
<1>13. \A k \in Nat : To(k, k + 1024)
  BY <1>2, <1>12
<1>14. \A k \in Nat : To(k, k + 2048)
  BY <1>2, <1>13
<1>15. To(0, 2048)
  BY <1>14
<1>16. Init => TodoListed
  BY DEF Init, TodoListed
<1>17. TodoListed => ~ Done(2048)
  BY LeftBounded DEF Done
<1>. QED  BY <1>15, <1>16, <1>17, TodoStep, PTL DEF To, Spec

\* A script of a play that goes on ends, with whatever failures, consoles and
\* domains, if there are no more than a thousand records.
THEOREM ScriptsEnd ==
    ASSUME FewRecords
    PROVE  Spec /\ GoesOn => EveryScriptEnds
<1>1. TodoListed /\ ~ Idle => Done(0)
  BY LeftBounded DEF Done, Idle
<1>2. Init => TodoListed
  BY DEF Init, TodoListed
<1>. QED  BY <1>1, <1>2, Idles, TodoStep, PTL DEF Spec, EveryScriptEnds, Idle

-----------------------------------------------------------------------------
(* Undisturbed plays.                                                      *)

\* When nothing disturbs any more, nobody is at the console.
Quiet == calm => lock # "console"

LEMMA CalmStays == calm /\ [Next]_vars => calm'
BY DEF Next, Play, Start, Script, Security, Check, AddLockoutManager,
   LookupPasswordValidator, CreatePasswordValidator, SetLimits, LookupAuditor,
   CreateAuditor, WriteSettingsFile, CreateMailSession, SetAttributes,
   ReplaceMailSession, CheckRecord, UpdateSetting, FinishCheck, securityRest,
   Kill, Console, ConsoleLock, ConsoleSet, ConsoleDelete, ConsoleActivate,
   ConsoleRelease, consoleRest, CalmDown, vars

LEMMA ScriptsAreCalm == TypeOK /\ Script => UNCHANGED calm /\ (Quiet => Quiet')
<1>. SUFFICES ASSUME TypeOK, Script PROVE UNCHANGED calm /\ (Quiet => Quiet')
  OBVIOUS
<1>1. calm' = calm
  BY DEF Script, Security, Check, AddLockoutManager, LookupPasswordValidator,
     CreatePasswordValidator, SetLimits, LookupAuditor, CreateAuditor,
     WriteSettingsFile, CreateMailSession, SetAttributes, ReplaceMailSession,
     CheckRecord, UpdateSetting, FinishCheck, securityRest
<1>2. Sessions
  BY ScriptsUseSessions
<1>3. lock' = "console" => lock = "console"
  BY <1>2 DEF Sessions, domain, Publish, Abandon, PublishFails
<1>. QED  BY <1>1, <1>3 DEF Quiet

LEMMA QuietStep == TypeOK /\ Quiet /\ [Next]_vars => Quiet'
<1>. SUFFICES ASSUME TypeOK, Quiet, [Next]_vars PROVE Quiet'
  OBVIOUS
<1>1. CASE Script
  BY <1>1, ScriptsAreCalm
<1>2. CASE ~ Script
  BY <1>2 DEF Next, Play, Start, Kill, Console, ConsoleLock, ConsoleSet,
     ConsoleDelete, ConsoleActivate, ConsoleRelease, CalmDown, consoleRest,
     vars, domain, Quiet, May
<1>. QED  BY <1>1, <1>2

\* Then only plays and their scripts move.
LEMMA OnlyPlaysMove ==
    ASSUME calm, Quiet, [Next]_vars
    PROVE  Play \/ Start \/ Script \/ UNCHANGED vars
BY DEF Next, Quiet, Kill, Console, ConsoleLock, ConsoleSet, ConsoleDelete,
   ConsoleActivate, ConsoleRelease, CalmDown, May

\* A script that runs does so until it ends.
LEMMA Running ==
    ASSUME calm, Quiet, [Next]_vars, pc # "idle"
    PROVE  Script \/ UNCHANGED vars
BY OnlyPlaysMove DEF Play, Start

\* A script that is due stays due until it is started.
LEMMA Due ==
    ASSUME calm, Quiet, [Next]_vars, pc = "idle", plan # << >>
    PROVE  Start \/ UNCHANGED vars
BY OnlyPlaysMove DEF Play, Script, Security, Check, AddLockoutManager,
   LookupPasswordValidator, CreatePasswordValidator, SetLimits, LookupAuditor,
   CreateAuditor, WriteSettingsFile, CreateMailSession, SetAttributes,
   ReplaceMailSession, CheckRecord, UpdateSetting, FinishCheck

LEMMA MailRun ==
    ASSUME calm, Quiet, CreateMailSession
    PROVE  MailInForce'
<1>1. active' = Assigned(Created(edit, Mail), Mail)
  BY DEF Quiet, CreateMailSession, Refused, PublishFails, May, Publish
<1>. QED  BY <1>1, SettingsAssumption DEF Assigned, MailInForce

\* An undisturbed run of configure_mail_session.py ends with the mail session,
\* whatever lock and whatever half of a session it finds.
THEOREM MailIsSettled == Spec /\ GoesOn => MailSettles
<1>. DEFINE Inv == TypeOK /\ Quiet
            Work == Start \/ Script
            Rest == pc = "idle" /\ plan = << >>
            Waits == Begins("mail")
            Runs == calm /\ pc = "mail"
            Settled == MailInForce
<1>1. Init => Inv
  BY TypeInit DEF Init, Quiet
<1>2. Inv /\ [Next]_vars => Inv'
  BY TypeStep, QuietStep
<1>3. Inv /\ [Next]_vars /\ Waits => Waits' \/ Runs'
  <2>. SUFFICES ASSUME Inv, [Next]_vars, Waits PROVE Waits' \/ Runs'
    OBVIOUS
  <2>1. Start \/ UNCHANGED vars
    BY Due DEF Begins
  <2>. QED  BY <2>1, CalmStays DEF Begins, Start, FirstStep, vars
<1>4. Inv /\ <<Work>>_vars /\ Waits => Runs'
  <2>. SUFFICES ASSUME Inv, [Next]_vars, Work, Waits, vars' # vars PROVE Runs'
    BY DEF Next
  <2>1. Start
    BY Due DEF Begins
  <2>. QED  BY <2>1, CalmStays DEF Begins, Start, FirstStep
<1>5. Inv /\ [Next]_vars /\ Runs => Runs' \/ Settled'
  <2>. SUFFICES ASSUME Inv, [Next]_vars, Runs PROVE Runs' \/ Settled'
    OBVIOUS
  <2>1. CASE UNCHANGED vars
    BY <2>1 DEF vars
  <2>2. CASE Script
    <3>1. CreateMailSession
      BY <2>2 DEF Script, Security, Check, AddLockoutManager,
         LookupPasswordValidator, CreatePasswordValidator, SetLimits,
         LookupAuditor, CreateAuditor, WriteSettingsFile, SetAttributes,
         ReplaceMailSession, CheckRecord, UpdateSetting, FinishCheck
    <3>. QED  BY <3>1, MailRun
  <2>. QED  BY <2>1, <2>2, Running
<1>6. Inv /\ <<Work>>_vars /\ Runs => Settled'
  <2>. SUFFICES ASSUME Inv, Work, Runs PROVE Settled'
    OBVIOUS
  <2>1. CreateMailSession
    BY DEF Start, Script, Security, Check, AddLockoutManager,
       LookupPasswordValidator, CreatePasswordValidator, SetLimits,
       LookupAuditor, CreateAuditor, WriteSettingsFile, SetAttributes,
       ReplaceMailSession, CheckRecord, UpdateSetting, FinishCheck
  <2>. QED  BY <2>1, MailRun
<1>7. (Waits => ~ Rest) /\ (Runs => ~ Rest)
  BY DEF Begins
<1>. HIDE DEF Inv, Work, Rest, Waits, Runs, Settled
<1>8. Spec /\ ([]<>Rest \/ []<><<Work>>_vars) => (Waits ~> Settled)
  BY <1>1, <1>2, <1>3, <1>4, <1>5, <1>6, <1>7, PTL DEF Spec
<1>. QED  BY <1>8 DEF GoesOn, MailSettles, Work, Rest, Waits, Settled

-----------------------------------------------------------------------------
(* The undisturbed stack.                                                  *)

Agreed == calm /\ edit = active

StackWaits == Begins("security") /\ plan = Stack /\ edit = active

\* The security script: from its second session on the validator exists.
Secures ==
    /\ Agreed /\ plan = <<"checker">>
    /\ pc \in {"lockout", "validator", "create", "limits", "auditor", "audit", "file"}
    /\ pc \in {"limits", "auditor", "audit", "file"} => Exists(Limits)

CheckerWaits == Agreed /\ pc = "idle" /\ plan = <<"checker">> /\ Exists(Limits)

Checks ==
    /\ Agreed /\ plan = << >> /\ touched = {} /\ Exists(Limits)
    /\ pc \in {"record", "update"}

StackInv == ReportInv /\ Quiet

LEMMA StackInvariant == (Init => StackInv) /\ (StackInv /\ [Next]_vars => StackInv')
BY ReportInit, ReportStep, QuietStep DEF StackInv, ReportInv, Init, Quiet

LEMMA MadeExists ==
    ASSUME edit' = Created(edit, Limits)
    PROVE  Exists(Limits)'
BY SettingsAssumption DEF Created, Exists

LEMMA KeepsExists ==
    ASSUME Exists(Limits), edit \in Configuration, NEW S,
           edit' = edit \/ edit' = Created(edit, S) \/ edit' = Assigned(edit, S)
    PROVE  Exists(Limits)'
BY SettingsAssumption DEF Created, Assigned, Exists

LEMMA SecurityRun ==
    ASSUME StackInv, Secures, Script
    PROVE  Secures' \/ CheckerWaits'
<1>1. calm' /\ ~ Refused /\ (\A c : ~ PublishFails(c)) /\ edit \in Configuration
  BY ScriptsAreCalm
     DEF StackInv, ReportInv, TypeOK, Quiet, Secures, Agreed, Refused, PublishFails, May
<1>2. \A c : Publish(c) => edit' = c /\ active' = c
  BY DEF Publish
<1>3. \A c : Abandon(c) => edit' = c /\ active' = active
  BY DEF Abandon
<1>. USE <1>1 DEF Secures, CheckerWaits, Agreed, Goto, End
<1>4. CASE AddLockoutManager
  BY <1>2, <1>3, <1>4 DEF AddLockoutManager
<1>5. CASE LookupPasswordValidator
  <2>1. UNCHANGED <<edit, active>>
    BY <1>5 DEF LookupPasswordValidator, domain
  <2>2. Exists(Limits)' = Exists(Limits)
    BY <2>1 DEF Exists
  <2>. QED  BY <1>5, <2>1, <2>2 DEF LookupPasswordValidator
<1>6. CASE CreatePasswordValidator
  <2>1. CASE Exists(Limits) /\ Abandon(edit) /\ Goto("auditor")
    BY <1>3, <1>6, <2>1, KeepsExists DEF CreatePasswordValidator
  <2>2. CASE Publish(Created(edit, Limits)) /\ Goto("limits")
    BY <1>2, <1>6, <2>2, MadeExists DEF CreatePasswordValidator
  <2>. QED  BY <1>6, <2>1, <2>2 DEF CreatePasswordValidator
<1>7. CASE SetLimits
  BY <1>3, <1>7, KeepsExists DEF SetLimits
<1>8. CASE LookupAuditor
  <2>1. UNCHANGED <<edit, active>>
    BY <1>8 DEF LookupAuditor, domain
  <2>. QED  BY <1>8, <2>1, KeepsExists DEF LookupAuditor
<1>9. CASE CreateAuditor
  <2>1. CASE Exists(Auditor) /\ Abandon(edit) /\ Goto("file")
    BY <1>3, <1>9, <2>1, KeepsExists DEF CreateAuditor
  <2>2. CASE Publish(Created(edit, Auditor)) /\ Goto("file")
    BY <1>2, <1>9, <2>2, KeepsExists DEF CreateAuditor
  <2>. QED  BY <1>9, <2>1, <2>2 DEF CreateAuditor
<1>10. CASE WriteSettingsFile
  <2>1. UNCHANGED <<edit, active>>
    BY <1>10 DEF WriteSettingsFile, domain
  <2>. QED  BY <1>10, <2>1, KeepsExists DEF WriteSettingsFile
<1>. QED  BY <1>4, <1>5, <1>6, <1>7, <1>8, <1>9, <1>10
          DEF Script, Security, Check, CreateMailSession, SetAttributes,
          ReplaceMailSession, CheckRecord, UpdateSetting, FinishCheck

\* The checker has ended well.
Checked == ChecksEnded /\ LookedAt /\ todo = {} /\ touched = {}
           /\ edit = active /\ Exists(Limits)

LEMMA CheckedIsInForce ==
    ASSUME LimitsAreModifiable
    PROVE  Checked => SettingsInForce
<1>. SUFFICES ASSUME Checked PROVE SettingsInForce
  OBVIOUS
<1>1. ASSUME NEW s \in Listed
      PROVE  active[s] = Expected[s] \/ (s \in Correctable => active[s] = Absent)
  <2>1. pc = "idle" /\ edit = active
    BY DEF Checked, ChecksEnded
  <2>2. \A r \in Listed : Known(r)
    BY DEF Checked, LookedAt, Checking, ChecksEnded
  <2>. QED  BY <1>1, <2>1, <2>2 DEF Known
<1>2. Limits \subseteq Correctable /\ Correctable \subseteq Listed
  BY ListedTyped, SettingsAssumption
     DEF LimitsAreModifiable, Correctable, AdjustableRecords, FixedRecords
<1>3. \A s \in Limits : active[s] # Absent
  BY DEF Checked, Exists
<1>. QED  BY <1>1, <1>2, <1>3 DEF SettingsInForce

LEMMA CheckRun ==
    ASSUME StackInv, StackInv', Checks, Script
    PROVE  Checks' \/ Checked'
<1>1. calm' /\ ~ Refused /\ (\A c : ~ PublishFails(c)) /\ edit \in Configuration
  BY ScriptsAreCalm
     DEF StackInv, ReportInv, TypeOK, Quiet, Checks, Agreed, Refused, PublishFails, May
<1>. USE DEF Checks, Agreed, Goto
<1>2. CASE CheckRecord
  <2>1. /\ UNCHANGED <<edit, active, touched, plan>>
        /\ pc' \in {"record", "update"}
    BY <1>2 DEF CheckRecord, domain
  <2>. QED  BY <1>1, <2>1, KeepsExists
<1>3. CASE UpdateSetting
  <2>1. Publish(Updated) /\ Goto("record") /\ touched' = touched
    BY <1>1, <1>3 DEF UpdateSetting
  <2>2. edit' = Updated /\ active' = Updated
    BY <2>1 DEF Publish
  <2>3. Exists(Limits)'
    BY <1>1, <2>2, KeepsExists DEF Updated
  <2>. QED  BY <1>1, <2>1, <2>2, <2>3
<1>4. CASE FinishCheck
  <2>1. /\ UNCHANGED <<edit, active, touched, todo, last>>
        /\ pc' = "idle" /\ rc' = "ok" /\ todo = {}
    BY <1>4 DEF FinishCheck, End, domain, checker
  <2>2. last = "checker"
    BY DEF StackInv, ReportInv, StepOfScript
  <2>3. ChecksEnded' /\ LookedAt'
    BY <2>1, <2>2 DEF ChecksEnded, StackInv, ReportInv
  <2>4. Exists(Limits)'
    BY <1>1, <2>1, KeepsExists
  <2>. QED  BY <2>1, <2>3, <2>4 DEF Checked
<1>. QED  BY <1>2, <1>3, <1>4
          DEF Script, Security, Check, AddLockoutManager, LookupPasswordValidator,
          CreatePasswordValidator, SetLimits, LookupAuditor, CreateAuditor,
          WriteSettingsFile, CreateMailSession, SetAttributes, ReplaceMailSession

\* An undisturbed run of create_weblogic_stack.yml ends with the limits and every
\* modifiable setting in force, whatever domain, lock and variables it finds.
THEOREM StackIsSettled ==
    ASSUME FewRecords, LimitsAreModifiable
    PROVE  Spec /\ GoesOn => StackSettles
<1>. DEFINE Work == Start \/ Script
            Rest == pc = "idle" /\ plan = << >>
            Busy == pc # "idle"
<1>1. StackInv /\ [Next]_vars /\ StackWaits => StackWaits' \/ Secures'
  <2>. SUFFICES ASSUME StackInv, [Next]_vars, StackWaits
                PROVE  StackWaits' \/ Secures'
    OBVIOUS
  <2>1. CASE Start
    BY <2>1, CalmStays DEF StackWaits, Stack, Begins, Start, FirstStep, Secures,
       Agreed, domain
  <2>2. CASE UNCHANGED vars
    BY <2>2 DEF vars, domain, StackWaits, Begins
  <2>. QED  BY <2>1, <2>2, Due DEF StackInv, StackWaits, Begins
<1>2. StackInv /\ <<Work>>_vars /\ StackWaits => Secures'
  <2>. SUFFICES ASSUME StackInv, [Next]_vars, Work, StackWaits, vars' # vars
                PROVE  Secures'
    BY DEF Next
  <2>1. Start
    BY Due DEF StackInv, StackWaits, Begins
  <2>. QED  BY <2>1, CalmStays DEF StackWaits, Stack, Begins, Start, FirstStep,
            Secures, Agreed, domain
<1>3. StackInv /\ [Next]_vars /\ Secures => Secures' \/ CheckerWaits'
  <2>. SUFFICES ASSUME StackInv, [Next]_vars, Secures
                PROVE  Secures' \/ CheckerWaits'
    OBVIOUS
  <2>1. CASE UNCHANGED vars
    BY <2>1 DEF vars, domain, Secures, Agreed, Exists
  <2>. QED  BY <2>1, Running, SecurityRun DEF StackInv, Secures, Agreed
<1>4. StackInv /\ [Next]_vars /\ CheckerWaits => CheckerWaits' \/ Checks'
  <2>. SUFFICES ASSUME StackInv, [Next]_vars, CheckerWaits
                PROVE  CheckerWaits' \/ Checks'
    OBVIOUS
  <2>1. CASE Start
    BY <2>1, CalmStays DEF CheckerWaits, Start, FirstStep, Checks, Agreed, Exists,
       domain
  <2>2. CASE UNCHANGED vars
    BY <2>2 DEF vars, domain, CheckerWaits, Agreed, Exists
  <2>. QED  BY <2>1, <2>2, Due DEF StackInv, CheckerWaits, Agreed
<1>5. StackInv /\ <<Work>>_vars /\ CheckerWaits => Checks'
  <2>. SUFFICES ASSUME StackInv, [Next]_vars, Work, CheckerWaits, vars' # vars
                PROVE  Checks'
    BY DEF Next
  <2>1. Start
    BY Due DEF StackInv, CheckerWaits, Agreed
  <2>. QED  BY <2>1, CalmStays DEF CheckerWaits, Start, FirstStep, Checks, Agreed,
            Exists, domain
<1>6. StackInv /\ StackInv' /\ [Next]_vars /\ Checks => Checks' \/ Checked'
  <2>. SUFFICES ASSUME StackInv, StackInv', [Next]_vars, Checks
                PROVE  Checks' \/ Checked'
    OBVIOUS
  <2>1. CASE UNCHANGED vars
    BY <2>1 DEF vars, domain, Checks, Agreed, Exists
  <2>. QED  BY <2>1, Running, CheckRun DEF StackInv, Checks, Agreed
<1>7. Checked => SettingsInForce
  BY CheckedIsInForce
<1>8. /\ StackWaits => ~ Rest
      /\ CheckerWaits => ~ Rest
      /\ Secures => Busy /\ ~ Idle
      /\ Checks => Busy /\ ~ Idle
  BY DEF StackWaits, Stack, Begins, CheckerWaits, Secures, Checks, Idle
<1>9. Spec /\ GoesOn => (Busy ~> Idle)
  BY ScriptsEnd DEF EveryScriptEnds, Idle
<1>10. GoesOn <=> ([]<>Rest \/ []<><<Work>>_vars)
  BY DEF GoesOn
<1>. HIDE DEF Work, Rest, Busy
<1>11. Spec /\ ([]<>Rest \/ []<><<Work>>_vars) /\ (Busy ~> Idle)
          => (StackWaits ~> SettingsInForce)
  BY <1>1, <1>2, <1>3, <1>4, <1>5, <1>6, <1>7, <1>8, StackInvariant, PTL
     DEF Spec
<1>. QED  BY <1>9, <1>10, <1>11 DEF StackSettles, StackWaits

=============================================================================
