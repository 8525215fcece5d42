---------------------------- MODULE MCIpaEnroll ----------------------------
(***************************************************************************)
(* Instances of IpaEnroll for TLC: which invocations the operator makes.   *)
(***************************************************************************)
EXTENDS IpaEnroll, TLC

\* Every combination of the choices an administrator's credentials allow, and
\* the two invocations that rely on a host keytab or on an OTP alone.
MostOptions ==
    [force : BOOLEAN, repair : BOOLEAN,
     otp : {"off", "generate", "predefined"}, cred : {"password"}]
    \cup [force : BOOLEAN, repair : {FALSE}, otp : {"generate"},
          cred : {"keytab"}]
    \cup [force : {FALSE}, repair : {FALSE}, otp : {"off"},
          cred : {"keytab", "hostkeytab"}]
    \cup [force : {FALSE}, repair : {FALSE}, otp : {"predefined"},
          cred : {"none"}]

\* Two processes that race on the server's host entry.
RaceOptions == {[force |-> FALSE, repair |-> FALSE, otp |-> "off",
                 cred |-> "password"],
                [force |-> TRUE, repair |-> FALSE, otp |-> "generate",
                 cred |-> "password"]}

\* The invocations of the shipped playbooks: a password, no OTP.
PlainOptions == [force : BOOLEAN, repair : {FALSE}, otp : {"off"},
                 cred : {"password"}]

RecoveryOptions ==
    [force : BOOLEAN, repair : {FALSE}, otp : {"off", "generate"},
     cred : {"password"}]
    \cup [force : {TRUE}, repair : {FALSE}, otp : {"generate"},
          cred : {"keytab"}]

RepairOptions ==
    [force : {FALSE}, repair : BOOLEAN, otp : {"off"}, cred : {"password"}]

Symmetry == Permutations(Keys) \cup Permutations(Otps)
RaceSymmetry == Symmetry \cup Permutations(Controllers)

=============================================================================
