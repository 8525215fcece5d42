----------------------------- MODULE MCWlstEdit -----------------------------
(***************************************************************************)
(* Instances of WlstEdit for TLC: a domain with a lockout manager of two   *)
(* attributes, a validator of one limit, an auditor, a mail session and one*)
(* plain setting.                                                          *)
(***************************************************************************)
EXTENDS WlstEdit

MCSettings == {"lockoutEnabled", "threshold", "minLength", "auditor", "jndi",
               "jta"}
MCModifiable == {"threshold", "minLength", "jta"}
MCValues == {"expected", "default"}
MCExpected == [s \in MCSettings |-> IF s = "auditor" THEN "default"
                                                     ELSE "expected"]
MCDefault == [s \in MCSettings |-> "default"]

\* Lockout is on or off; the beans the scripts create exist or not.
MCInitial == {c \in [MCSettings -> MCValues \cup {"absent"}] :
                  /\ c["lockoutEnabled"] # "absent"
                  /\ c["threshold"] = "default"
                  /\ c["minLength"] # "expected"
                  /\ c["auditor"] # "expected"
                  /\ c["jndi"] = "absent"
                  /\ c["jta"] # "absent"}

\* create_weblogic_stack.yml.
StackAlone == {Stack}

\* The stack, and configure_wls_settings.yml alone.
StackOrSettings == StackAlone \cup {<<"checker">>}

\* Those, deploy_gapcie2.yml with the mail session, and each of the scripts that
\* no playbook runs.
AllPlays == StackOrSettings \cup {<<"mail">>, <<"plain">>, <<"email">>}

\* update_jta.py sets another timeout than the records of the checker have.
MCHardcoded == [s \in MCSettings |-> "default"]

\* A domain without the validator.
NewDomain == {c \in MCInitial : c["minLength"] = "absent"}

\* For the run of the stack: the lockout manager is its switch alone, and the
\* auditor is still to be made.
StackSettings == MCSettings \ {"threshold"}
StackExpected == [s \in StackSettings |-> MCExpected[s]]
StackDefault == [s \in StackSettings |-> MCDefault[s]]
StackModifiable == MCModifiable \ {"threshold"}
StackInitial == {[s \in StackSettings |-> c[s]] :
                    c \in {d \in MCInitial : d["auditor"] = "absent"}}

\* For the run with a console: one attribute for each bean the security script
\* creates; the other scripts open their sessions and set nothing.
SmallSettings == {"lockoutEnabled", "minLength", "auditor"}
SmallExpected == [s \in SmallSettings |-> IF s = "auditor" THEN "default"
                                                           ELSE "expected"]
SmallDefault == [s \in SmallSettings |-> "default"]
SmallModifiable == {"minLength"}
SmallInitial == {c \in [SmallSettings -> MCValues \cup {"absent"}] :
                     /\ c["lockoutEnabled"] # "absent"
                     /\ c["auditor"] = "absent"
                     /\ c["minLength"] # "expected"}

\* What the proofs about the end of a script and of the stack assume.
ASSUME MCAssumption == FewRecords /\ LimitsAreModifiable

=============================================================================
