------------------------------ MODULE WlstEdit ------------------------------
(***************************************************************************)
(* The WLST scripts that change a running WebLogic domain, and the edit    *)
(* session of the administration server they all go through:               *)
(*                                                                         *)
(*   addSecuritySettings.py     roles/install_wl_domain_post               *)
(*   configure_mail_session.py  roles/configure_mail_session               *)
(*   wlsSettingsChecker.py      roles/config_wl_settings                   *)
(*   update_email_server.py     roles/update_email_server                  *)
(*   update_jta.py              roles/update_jta                           *)
(*   enable_ssl.py              roles/enable_domain_ssl                    *)
(*                                                                         *)
(* and addSecuritySettingsFile.py, which lists for the checker what the    *)
(* first of them is to set.                                                *)
(*                                                                         *)
(* A domain has one edit tree, one lock on it and one active               *)
(* configuration.  edit() shows the edit tree, startEdit() takes the lock, *)
(* activate() publishes the edit tree and gives the lock up.  The scripts  *)
(* log in as the same administrator, so a script enters the session that   *)
(* an earlier one left open; the console is used by somebody else.  A play *)
(* runs the scripts on the one host "adminserver", one after the other.    *)
(* A script's statements between startEdit() and activate() are one action *)
(* here: nobody else can write the edit tree while the lock is held.       *)
(***************************************************************************)
EXTENDS Naturals, Sequences, FiniteSets

CONSTANTS
    Settings,        \* the attributes of the domain's beans
    Records,         \* the records of wl_config_settings in defaults/main.yml
    Modifiable,      \* those with IsModifiable
    Values,          \* the values an attribute may have
    Absent,          \* the bean that has the attribute does not exist
    Expected,        \* the values the role variables give
    Default,         \* the values of a bean just created
    LockoutEnabled,  \* LockoutEnabled of the UserLockoutManager
    Lockout,         \* its threshold, duration and reset duration
    Limits,          \* the limits of the SystemPasswordValidator
    Auditor,         \* the attributes of the auditor
    Realm,           \* those of the realm, its authorizer and its role mapper
    Mail,            \* the attributes of the mail session
    Plain,           \* what a script sets that does nothing else: update_jta.py
                     \* or enable_ssl.py
    Hardcoded,       \* the values written in those two and in
                     \* update_email_server.py
    Playbooks,       \* the orders in which plays run the scripts
    Initial,         \* the configurations a domain may start with
    Faults           \* "failure": a WLST call fails or the script is killed;
                     \* "console": somebody works at the console

Scripts == {"security", "mail", "checker", "plain", "email"}
Configuration == [Settings -> Values \cup {Absent}]

ASSUME SettingsAssumption ==
    /\ Records \subseteq Settings
    /\ Modifiable \subseteq Records
    /\ LockoutEnabled \in Settings
    /\ Lockout \subseteq Settings
    /\ Limits \subseteq Settings
    /\ Auditor \subseteq Settings
    /\ Realm \subseteq Settings
    /\ Mail \subseteq Settings
    /\ Plain \subseteq Settings
    /\ Hardcoded \in [Settings -> Values]
    /\ Absent \notin Values \cup Settings
    /\ Expected \in [Settings -> Values]
    /\ Default \in [Settings -> Values]
    /\ Initial \subseteq Configuration
    /\ Playbooks \subseteq Seq(Scripts)

VARIABLES
    active,   \* the configuration the servers run with
    edit,     \* the edit tree
    lock,     \* who holds the lock on it: "free", "script" or "console"
    plan,     \* the scripts the play has still to run
    pc,       \* where the script that runs is; "idle" between scripts
    todo,     \* records the checker has not looked at yet
    current,  \* the record it is about to correct (Absent: none)
    findings, \* records it has reported
    last,     \* the last script that was started
    rc,       \* how it ended, for the play: "none", "ok" or "failed"
    written,  \* the settings file of the security realm has been written
    adopted,  \* its records have replaced those of wl_config_settings
    touched,  \* what the console changed since that start (history)
    calm      \* from now on nothing fails and nobody is at the console

domain == <<active, edit, lock>>
checker == <<todo, current, findings>>
listing == <<written, adopted>>
vars == <<domain, plan, pc, checker, last, rc, listing, touched, calm>>

May(fault) == fault \in Faults /\ ~ calm

-----------------------------------------------------------------------------
(* The edit session.                                                       *)

\* What createX() leaves in configuration c when bean, a set of attributes,
\* did not exist.
Created(c, bean) == [s \in Settings |->
                        IF s \in bean /\ c[s] = Absent THEN Default[s] ELSE c[s]]

\* The configuration c after the attributes in S were set as the variables say.
Assigned(c, S) == [s \in Settings |-> IF s \in S THEN Expected[s] ELSE c[s]]

\* The configuration c after the attributes in S were set to what is written in
\* a script.
Given(c, S) == [s \in Settings |-> IF s \in S THEN Hardcoded[s] ELSE c[s]]

\* The configuration c after a bean was destroyed.
Without(c, bean) == [s \in Settings |-> IF s \in bean THEN Absent ELSE c[s]]

Exists(bean) == \A s \in bean : edit[s] # Absent

\* startEdit() is refused while somebody else edits: an exception.
Refused == lock = "console"

\* A fault for the checks: a session that does not begin with startEdit().
PublishWithoutLock(c) == edit' = c /\ active' = c /\ lock' = "free"

\* startEdit(), changes that end in the edit tree c, save(), activate().
Publish(c) ==
    /\ ~ Refused
    /\ edit' = c
    /\ active' = c
    /\ lock' = "free"

\* Faults for the checks: the lock is given up without an undo; the lock is held
\* in the name of a script.
AbandonReleases(c) == ~ Refused /\ edit' = c /\ lock' = "free" /\ UNCHANGED active
AbandonByName(c) == ~ Refused /\ edit' = c /\ lock' = last /\ UNCHANGED active

\* An exception after startEdit(): what was set so far stays in the edit tree,
\* and no script undoes it or gives the lock back.
Abandon(c) ==
    /\ ~ Refused
    /\ edit' = c
    /\ lock' = "script"
    /\ UNCHANGED active

\* save() or activate() raises an exception, or the process is killed there.
PublishFails(c) == May("failure") /\ Abandon(c)

-----------------------------------------------------------------------------
(* What the checker is given.                                              *)

\* The sections of the settings file: Root, Auditor, Authorizer and RoleMapper
\* are not modifiable, LockoutManager and PasswordValidator are.  (Names and
\* versions of beans are left out: no script sets them.)
FixedRecords == Realm \cup Auditor

AdjustableRecords == Lockout \cup {LockoutEnabled} \cup Limits

\* A record of the file replaces the one of the same attribute.
Listed == Records \cup
          (IF adopted THEN FixedRecords \cup AdjustableRecords ELSE {})
Correctable == IF adopted THEN (Modifiable \ FixedRecords) \cup AdjustableRecords
               ELSE Modifiable

-----------------------------------------------------------------------------
(* A play starts its scripts, and a script ends.                           *)

FirstStep(script) == CASE script = "security" -> "lockout"
                       [] script = "mail"     -> "mail"
                       [] script = "checker"  -> "record"
                       [] script = "plain"    -> "plain"
                       [] script = "email"    -> "email"

Goto(step) == pc' = step /\ UNCHANGED <<plan, rc>>

\* A fault for the checks: the play stops after every script.
EndStops(result) == pc' = "idle" /\ rc' = result /\ plan' = << >>

\* The shell task of the play fails with the script, and the play stops there.
End(result) ==
    /\ pc' = "idle"
    /\ rc' = result
    /\ plan' = IF result = "ok" THEN plan ELSE << >>

\* An operator runs a playbook, for the first time or again, and may have put
\* the generated records into wl_config_settings before.
Play ==
    /\ pc = "idle" /\ plan = << >>
    /\ plan' \in Playbooks
    /\ adopted' \in {adopted, written}
    /\ last' = "none" /\ rc' = "none"
    /\ UNCHANGED <<domain, pc, checker, written, touched, calm>>

Start ==
    /\ pc = "idle" /\ plan # << >>
    /\ pc' = FirstStep(Head(plan))
    /\ plan' = Tail(plan)
    /\ last' = Head(plan)
    /\ todo' = IF Head(plan) = "checker" THEN Listed ELSE {}
    /\ current' = Absent
    /\ findings' = {}
    /\ rc' = "none"
    /\ touched' = {}
    /\ UNCHANGED <<domain, listing, calm>>

\* The script is killed between two statements.
Kill ==
    /\ May("failure")
    /\ pc # "idle"
    /\ End("failed")
    /\ UNCHANGED <<domain, checker, last, listing, touched, calm>>

-----------------------------------------------------------------------------
(* addSecuritySettings.py: lockout manager, password validator, auditor.    *)
(* After an exception in the first two the next function is called.        *)

securityRest == <<checker, last, listing, touched, calm>>

\* add_LockoutManager.  When lockout is enabled already the function returns
\* inside the session it opened.
AddLockoutManager ==
    /\ pc = "lockout"
    /\ Goto("validator")
    /\ UNCHANGED securityRest
    /\ \/ Refused /\ UNCHANGED domain
       \/ /\ edit[LockoutEnabled] = Expected[LockoutEnabled]
          /\ Abandon(edit)
       \/ /\ edit[LockoutEnabled] # Expected[LockoutEnabled]
          /\ \/ Publish(Assigned(edit, Lockout \cup {LockoutEnabled}))
             \/ PublishFails(Assigned(edit, Lockout \cup {LockoutEnabled}))

\* add_PasswordValidator, the lookup.
LookupPasswordValidator ==
    /\ pc = "validator"
    /\ Goto(IF Exists(Limits) THEN "auditor" ELSE "create")
    /\ UNCHANGED <<domain, securityRest>>

\* add_PasswordValidator, startEdit() to the first activate().  The bean may
\* have been created since the lookup: an exception.
CreatePasswordValidator ==
    /\ pc = "create"
    /\ UNCHANGED securityRest
    /\ \/ Refused /\ Goto("auditor") /\ UNCHANGED domain
       \/ Exists(Limits) /\ Abandon(edit) /\ Goto("auditor")
       \/ ~ Exists(Limits) /\ Publish(Created(edit, Limits)) /\ Goto("limits")
       \/ /\ ~ Exists(Limits)
          /\ PublishFails(Created(edit, Limits))
          /\ Goto("auditor")

\* add_PasswordValidator, the second session: the limits are set on
\* pwdvalidator, which the lookup left None, and not on the bean just created.
SetLimits ==
    /\ pc = "limits"
    /\ Goto("auditor")
    /\ UNCHANGED securityRest
    /\ \/ Refused /\ UNCHANGED domain
       \/ Abandon(edit)

\* add_Auditor, the lookup.
LookupAuditor ==
    /\ pc = "auditor"
    /\ Goto(IF Exists(Auditor) THEN "file" ELSE "audit")
    /\ UNCHANGED <<domain, securityRest>>

\* add_Auditor, the session.  Only exceptions of Java are passed over, like that
\* of a bean that exists by now; one of WLST itself ends the script.
CreateAuditor ==
    /\ pc = "audit"
    /\ UNCHANGED securityRest
    /\ \/ Refused /\ End("failed") /\ UNCHANGED domain
       \/ Exists(Auditor) /\ Abandon(edit) /\ Goto("file")
       \/ ~ Exists(Auditor) /\ Publish(Created(edit, Auditor)) /\ Goto("file")
       \/ /\ ~ Exists(Auditor)
          /\ PublishFails(Created(edit, Auditor))
          /\ End("failed")

\* addSecuritySettingsFile.py, run by the next task of the play: it writes what
\* the role's variables say, whatever the domain has.
WriteSettingsFile ==
    /\ pc = "file"
    /\ written' = TRUE
    /\ End("ok")
    /\ UNCHANGED <<domain, checker, last, adopted, touched, calm>>

-----------------------------------------------------------------------------
(* configure_mail_session.py                                               *)

\* A fault for the checks: the session is made and its attributes are not set.
CreateMailSessionBare ==
    /\ pc = "mail"
    /\ End("ok")
    /\ UNCHANGED <<checker, last, listing, touched, calm>>
    /\ \/ Refused /\ UNCHANGED domain
       \/ Publish(Created(edit, Mail))

\* createMailSession.  After an exception, at any of its statements, the script
\* calls exit(): the task of the play succeeds.
CreateMailSession ==
    /\ pc = "mail"
    /\ End("ok")
    /\ UNCHANGED <<checker, last, listing, touched, calm>>
    /\ \/ Refused /\ UNCHANGED domain
       \/ Publish(Assigned(Created(edit, Mail), Mail))
       \/ \E S \in SUBSET Mail : PublishFails(Assigned(Created(edit, Mail), S))

-----------------------------------------------------------------------------
(* The scripts that no play of the stack runs.  They catch nothing.        *)

\* update_jta.py; enable_ssl.py, whose machines and servers may be missing.
SetAttributes ==
    /\ pc = "plain"
    /\ UNCHANGED <<checker, last, listing, touched, calm>>
    /\ \/ Refused /\ End("failed") /\ UNCHANGED domain
       \/ Exists(Plain) /\ Publish(Given(edit, Plain)) /\ End("ok")
       \/ /\ ~ Exists(Plain) \/ May("failure")
          /\ \E S \in SUBSET Plain : Exists(S) /\ Abandon(Given(edit, S))
          /\ End("failed")

\* update_email_server.py: the mail session is destroyed and made again.
ReplaceMailSession ==
    /\ pc = "email"
    /\ UNCHANGED <<checker, last, listing, touched, calm>>
    /\ LET gone == Without(edit, Mail) IN
       \/ Refused /\ End("failed") /\ UNCHANGED domain
       \/ Publish(Given(gone, Mail)) /\ End("ok")
       \/ (PublishFails(edit) \/ PublishFails(gone)) /\ End("failed")
       \/ /\ \E S \in SUBSET Mail : PublishFails(Given(Created(gone, Mail), S))
          /\ End("failed")

-----------------------------------------------------------------------------
(* wlsSettingsChecker.py                                                   *)

\* A fault for the checks: the loop does not get on to the next record.
CheckRecordAgain ==
    /\ pc = "record"
    /\ UNCHANGED <<domain, todo, last, listing, touched, calm>>
    /\ \E s \in todo :
         /\ findings' = IF edit[s] = Expected[s] THEN findings
                                                 ELSE findings \cup {s}
         /\ IF edit[s] \notin {Expected[s], Absent} /\ s \in Correctable
            THEN current' = s /\ Goto("update")
            ELSE UNCHANGED current /\ Goto("record")

\* The loop of main() on one record: getSetting() reads the edit tree, without
\* the lock; the record is reported when it differs, and corrected only if it is
\* modifiable and was read.
CheckRecord ==
    /\ pc = "record"
    /\ UNCHANGED <<domain, last, listing, touched, calm>>
    /\ \E s \in todo :
         /\ todo' = todo \ {s}
         /\ findings' = IF edit[s] = Expected[s] THEN findings
                                                 ELSE findings \cup {s}
         /\ IF edit[s] \notin {Expected[s], Absent} /\ s \in Correctable
            THEN current' = s /\ Goto("update")
            ELSE UNCHANGED current /\ Goto("record")

\* A fault for the checks: set() is left out.
UpdatedNothing == edit

\* What updateSetting() leaves in the edit tree: nothing new when the bean is
\* gone by now.
Updated == IF edit[current] = Absent THEN edit ELSE Assigned(edit, {current})

\* updateSetting().  No exception is caught.
UpdateSetting ==
    /\ pc = "update"
    /\ current' = Absent
    /\ UNCHANGED <<todo, findings, last, listing, touched, calm>>
    /\ \/ Refused /\ End("failed") /\ UNCHANGED domain
       \/ Publish(Updated) /\ Goto("record")
       \/ PublishFails(edit) /\ End("failed")
       \/ PublishFails(Updated) /\ End("failed")

FinishCheck ==
    /\ pc = "record"
    /\ todo = {}
    /\ End("ok")
    /\ UNCHANGED <<domain, checker, last, listing, touched, calm>>

-----------------------------------------------------------------------------
(* The console: another administrator.                                     *)

consoleRest == <<plan, pc, checker, last, rc, listing, calm>>

ConsoleLock ==
    /\ May("console")
    /\ lock = "free"
    /\ lock' = "console"
    /\ UNCHANGED <<active, edit, touched, consoleRest>>

\* One attribute of a bean that exists is changed.
ConsoleSet ==
    /\ lock = "console"
    /\ \E s \in Settings, v \in Values :
         /\ edit[s] # Absent
         /\ edit' = [edit EXCEPT ![s] = v]
         /\ touched' = touched \cup {s}
    /\ UNCHANGED <<active, lock, consoleRest>>

\* A bean of the domain is deleted.
ConsoleDelete ==
    /\ lock = "console"
    /\ \E bean \in {Limits, Auditor, Mail} :
         /\ edit' = Without(edit, bean)
         /\ touched' = touched \cup bean
    /\ UNCHANGED <<active, lock, consoleRest>>

ConsoleActivate ==
    /\ lock = "console"
    /\ active' = edit
    /\ lock' = "free"
    /\ UNCHANGED <<edit, touched, consoleRest>>

\* Undo and release; between scripts the administrator can also sign in as the
\* user of the scripts and release the session one of them abandoned.
ConsoleRelease ==
    /\ May("console")
    /\ lock = "console" \/ (lock = "script" /\ pc = "idle")
    /\ edit' = active
    /\ lock' = "free"
    /\ touched' = touched \cup {s \in Settings : edit[s] # active[s]}
    /\ UNCHANGED <<active, consoleRest>>

\* Disturbances come to an end, when nobody is at the console.
CalmDown ==
    /\ ~ calm /\ lock # "console"
    /\ calm' = TRUE
    /\ UNCHANGED <<domain, plan, pc, checker, last, rc, listing, touched>>

-----------------------------------------------------------------------------
(* The specification.                                                      *)

Init ==
    /\ active \in Initial /\ edit = active /\ lock = "free"
    /\ plan = << >> /\ pc = "idle" /\ last = "none" /\ rc = "none"
    /\ todo = {} /\ findings = {} /\ touched = {}
    /\ current = Absent
    /\ written = FALSE /\ adopted = FALSE /\ calm = FALSE

Security == \/ AddLockoutManager
            \/ LookupPasswordValidator
            \/ CreatePasswordValidator
            \/ SetLimits
            \/ LookupAuditor
            \/ CreateAuditor
            \/ WriteSettingsFile

Check == CheckRecord \/ UpdateSetting \/ FinishCheck

Script == \/ Security
          \/ CreateMailSession
          \/ SetAttributes
          \/ ReplaceMailSession
          \/ Check

Console == \/ ConsoleLock
           \/ ConsoleSet
           \/ ConsoleDelete
           \/ ConsoleActivate
           \/ ConsoleRelease

Next == Play \/ Start \/ Script \/ Kill \/ Console \/ CalmDown

Spec == Init /\ [][Next]_vars

\* A play that was started goes on: Ansible starts the next script, and a script
\* executes its next statement.  Nobody has to start a play.
FairSpec == Spec /\ WF_vars(Start \/ Script)

-----------------------------------------------------------------------------
(* Properties.                                                             *)

Steps == {"idle", "lockout", "validator", "create", "limits", "auditor",
          "audit", "file", "mail", "plain", "email", "record", "update"}

\* Types of the variables.
TypeOK ==
    /\ active \in Configuration /\ edit \in Configuration
    /\ lock \in {"free", "script", "console"}
    /\ plan \in Seq(Scripts)
    /\ pc \in Steps
    /\ todo \subseteq Settings /\ findings \subseteq Settings
    /\ current \in Settings \cup {Absent}
    /\ last \in Scripts \cup {"none"}
    /\ rc \in {"none", "ok", "failed"}
    /\ touched \subseteq Settings
    /\ written \in BOOLEAN /\ adopted \in BOOLEAN /\ calm \in BOOLEAN

\* What waits in the edit tree is guarded by the lock: no script leaves changes
\* in the tree that anybody who takes the lock next would publish unknowingly.
PendingIsLocked == lock = "free" => edit = active

\* No step of a script changes the edit tree, publishes it or gives the lock
\* away while the console edits: every session of every script begins with a
\* startEdit() that is refused then.
ConsoleSessionKept == [][Script /\ lock = "console" => UNCHANGED domain]_vars

ChecksEnded == pc = "idle" /\ last = "checker" /\ rc = "ok"

\* When the checker has ended and no session is open, the servers run with the
\* expected value of every record it did not report, and of every modifiable one
\* it reported whose bean exists, except where the console interfered.  The
\* comparison reads the edit tree and the correction comes later, so this needs
\* that the two trees agree again.
ReportHolds ==
    ChecksEnded /\ lock = "free" =>
        \A s \in Listed \ touched :
            \/ active[s] = Expected[s]
            \/ s \in findings /\ (s \in Correctable => active[s] = Absent)

\* The docstring of wlsSettingsChecker.py: a record that does not match is
\* reported.
MismatchIsReported ==
    ChecksEnded => \A s \in Listed \ touched :
                       active[s] = Expected[s] \/ s \in findings

\* tasks/add_security_settings.yml: after addSecuritySettings.py the validator
\* has the limits of the role's variables.
LimitsEstablished ==
    pc = "idle" /\ last = "security" /\ rc = "ok"
        => \A s \in Limits : active[s] = Expected[s]

SettingsInForce ==
    /\ \A s \in Limits : active[s] = Expected[s]
    /\ \A s \in Correctable : active[s] \in {Expected[s], Absent}

MailInForce == \A s \in Mail : active[s] = Expected[s]

\* What the liveness of the scripts is proved from.  wl_config_settings of
\* roles/config_wl_settings has 83 records: the end of a loop of any length would
\* take an induction.
AllRecords == Records \cup FixedRecords \cup AdjustableRecords
FewRecords == IsFiniteSet(Settings) /\ Cardinality(AllRecords) <= 1000

\* wl_config_settings has the limits of the validator, as modifiable records.
LimitsAreModifiable == Limits \subseteq Modifiable

\* The play starts that script next, and nothing will disturb it.
Begins(script) == calm /\ pc = "idle" /\ plan # << >> /\ Head(plan) = script

\* What create_weblogic_stack.yml has to run.
Stack == <<"security", "checker">>

\* What the fairness comes to, with the condition under which a statement is
\* possible written out: a play that has not come to its end goes on.
GoesOn == \/ []<>(pc = "idle" /\ plan = << >>)
          \/ []<><<Start \/ Script>>_vars

\* Every script ends, whatever fails and whoever holds the lock: the loop of the
\* checker too, which comes back to a record for its correction.
EveryScriptEnds == pc # "idle" ~> pc = "idle"

\* Whatever failed, was left half done or was changed at the console before, an
\* undisturbed play of the stack ends with the limits and every modifiable
\* setting in force, although the first of its scripts leaves the limits at their
\* defaults and its session open.  That nothing is pending as it begins is
\* needed, since the checker takes the edit tree for the configuration.
StackSettles == Begins("security") /\ plan = Stack /\ edit = active
                    ~> SettingsInForce

\* An undisturbed deployment ends with the mail session, whatever another script
\* has left of it.
MailSettles == Begins("mail") ~> MailInForce

=============================================================================
