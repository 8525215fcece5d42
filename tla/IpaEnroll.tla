------------------------------ MODULE IpaEnroll ------------------------------
(***************************************************************************)
(* Enrolment of one host into FreeIPA by the role roles/ipaclient.         *)
(*                                                                         *)
(* A controller is one ansible-playbook process that runs tasks/install.yml*)
(* (or tasks/uninstall.yml) against the host.  Each action is one task, or *)
(* one call a task makes on the IPA server when a failure or another       *)
(* controller may come between two calls.  Nothing in the role excludes two*)
(* processes that target the same host, so Controllers may have several    *)
(* members.  The role runs on clients only: ipaclient_on_master is FALSE.  *)
(***************************************************************************)

CONSTANTS
    Controllers,  \* the ansible-playbook processes
    Keys,         \* Kerberos keys of the host principal
    Otps,         \* one-time passwords the IPA server can issue
    Options,      \* the invocations an operator makes (see OptionType)
    Faults,       \* the disturbances that may happen (see FaultType)
    None,         \* absence of a key or of an OTP
    Garbled       \* an /etc/krb5.keytab that cannot be loaded

\* force, repair: ipaclient_force_join and ipaclient_allow_repair.
\* otp: "off", "generate" (ipaclient_use_otp) or "predefined" (ipaclient_otp).
\* cred: which of ipaadmin_password, ipaadmin_keytab and ipaclient_keytab the
\* inventory defines.
OptionType == [force : BOOLEAN, repair : BOOLEAN,
               otp : {"off", "generate", "predefined"},
               cred : {"password", "keytab", "hostkeytab", "none"}]

FaultType == {"fail", "crash", "kdc", "drift", "reimage", "admin"}

ASSUME ConstantsAssumption ==
    /\ Controllers # {}
    /\ Options \subseteq OptionType
    /\ Faults \subseteq FaultType
    /\ None \notin Keys \cup Otps
    /\ Garbled \notin Keys \cup {None}
    /\ Keys \cap Otps = {}
    /\ Otps \cap {"admin", "undefined", "unset"} = {}

VARIABLES
    \* the host
    keytab,       \* the host key in /etc/krb5.keytab
    files,        \* the configuration artefacts present on the host
    ccache,       \* /etc/ipa/.dns_ccache holds a ticket
    \* the IPA server
    srvEntry,     \* the host entry exists
    srvKey,       \* its current key (None: has_keytab is false)
    srvOtp,       \* its one-time password
    temp,         \* temp[c]: the admin keytab copied to the server by c
    \* one controller process: its program counter, options and Ansible facts
    pc, opt,
    useOtp,       \* ipaclient_use_otp
    password,     \* ipaadmin_password
    orig,         \* ipaadmin_orig_password
    tested,       \* result_ipaclient_test_keytab
    joined,       \* result_ipaclient_join
    hand,         \* a secret a command returned and that is not stored yet
    path,         \* how the run dealt with the configuration
    cause         \* the task whose failure is reported ("none": none failed)

host   == <<keytab, files, ccache>>
server == <<srvEntry, srvKey, srvOtp, temp>>
facts  == <<opt, useOtp, password, orig, tested, joined, hand, path>>
vars   == <<host, server, pc, facts, cause>>

-----------------------------------------------------------------------------
(* Artefacts, program counters and types.                                  *)

ConfigFiles == {"sysrestore.state", "ca.crt", "default.conf", "sssd.conf",
                "krb5.conf", "nssdb", "authselect", "ssh", "nisdomain"}

OtpStage  == {"otp_temp", "otp_show", "otp_add", "otp_disable", "otp_mod",
              "otp_store"}
JoinStage == {"join_ca", "join_server", "join_write", "join_tgt"}
ConfStage == {"ipa_conf", "sssd", "krb5", "api", "fix_ca", "nss", "nss_end",
              "ssh", "nis"}
\* The tasks inside the block that has the outer "always" section.
Block     == {"prepare", "keytest", "creds", "purge", "hostname", "gate"}
             \cup OtpStage \cup JoinStage \cup ConfStage
Ended     == {"idle", "ok", "failed", "crashed"}
PC        == Block \cup Ended
             \cup {"test", "otp_cleanup", "always", "uninstall"}

Passwords == {"admin", "undefined"} \cup Otps
TestResult == [keytabOk : BOOLEAN, confOk : BOOLEAN, ping : BOOLEAN,
               ca : BOOLEAN]
Untested == [keytabOk |-> FALSE, confOk |-> FALSE, ping |-> FALSE,
             ca |-> FALSE]
Causes == {"none", "task", "rm_keytab", "otp_creds", "get_otp",
           "no_credentials", "join_args", "join", "keytab_missing", "tgt",
           "gate", "api_no_ca", "api_no_ticket", "fix_ca", "nss_no_ticket"}

TypeOK ==
    /\ keytab \in Keys \cup {None, Garbled}
    /\ files \subseteq ConfigFiles
    /\ ccache \in BOOLEAN
    /\ srvEntry \in BOOLEAN
    /\ srvKey \in Keys \cup {None}
    /\ srvOtp \in Otps \cup {None}
    /\ temp \in [Controllers -> BOOLEAN]
    /\ pc \in [Controllers -> PC]
    /\ opt \in [Controllers -> OptionType]
    /\ useOtp \in [Controllers -> BOOLEAN]
    /\ password \in [Controllers -> Passwords]
    /\ orig \in [Controllers -> (Passwords \ {"undefined"}) \cup {"unset"}]
    /\ tested \in [Controllers -> TestResult]
    /\ joined \in [Controllers -> {"no", "changed", "already"}]
    /\ hand \in [Controllers -> Keys \cup Otps \cup {None}]
    /\ path \in [Controllers -> {"none", "skipped", "kept", "configured",
                                 "removed"}]
    /\ cause \in [Controllers -> Causes]

Init ==
    /\ keytab = None /\ files = {} /\ ccache = FALSE
    /\ srvEntry = FALSE /\ srvKey = None /\ srvOtp = None
    /\ temp = [c \in Controllers |-> FALSE]
    /\ pc = [c \in Controllers |-> "idle"]
    /\ opt = [c \in Controllers |-> [force |-> FALSE, repair |-> FALSE,
                                     otp |-> "off", cred |-> "none"]]
    /\ useOtp = [c \in Controllers |-> FALSE]
    /\ password = [c \in Controllers |-> "undefined"]
    /\ orig = [c \in Controllers |-> "unset"]
    /\ tested = [c \in Controllers |-> Untested]
    /\ joined = [c \in Controllers |-> "no"]
    /\ hand = [c \in Controllers |-> None]
    /\ path = [c \in Controllers |-> "none"]
    /\ cause = [c \in Controllers |-> "none"]

-----------------------------------------------------------------------------
(* Moving from task to task.                                               *)

Goto(c, l) == pc' = [pc EXCEPT ![c] = l]

\* The task at pc[c] succeeds and the next one is l.
Then(c, l) == Goto(c, l) /\ UNCHANGED cause

\* A fault for the checks: the OTP block has no "always" section of its own.
AfterFailureNoCleanup(l) ==
    IF l \in {"test", "uninstall"} THEN "failed" ELSE "always"

\* A failure in the OTP block runs that block's "always" section, a failure in
\* the outer block runs the outer one, a failure of "IPA client test" ends the
\* play for the host.
AfterFailure(l) ==
    IF l \in OtpStage THEN "otp_cleanup"
    ELSE IF l \in {"test", "uninstall"} THEN "failed" ELSE "always"

\* The task at pc[c] fails with the given cause.
Fail(c, why) ==
    /\ cause' = [cause EXCEPT ![c] = why]
    /\ Goto(c, AfterFailure(pc[c]))

Check(c, bad, why, l) == IF bad THEN Fail(c, why) ELSE Then(c, l)

FreshKey == {k \in Keys : k # keytab /\ k # srvKey
                          /\ \A c \in Controllers : k # hand[c]}
FreshOtp == {o \in Otps : o # srvOtp
                          /\ \A c \in Controllers : /\ o # hand[c]
                                                    /\ o # password[c]}

NoRun == \A c \in Controllers : pc[c] \in Ended

\* is_client_configured(): the marker files a finished enrolment leaves.
ClientConfigured == {"default.conf", "sysrestore.state"} \subseteq files

\* kinit with the host keytab succeeds at a KDC that answers.
KeytabWorks == keytab \in Keys /\ keytab = srvKey

-----------------------------------------------------------------------------
(* Starting a run, "IPA client test", and the keytab test.                 *)

InitialPassword(o) == IF o.cred = "password" THEN "admin" ELSE "undefined"

\* A new process: registered results and set_fact values are gone.
Start(c, l) ==
    /\ pc[c] \in Ended
    /\ Goto(c, l)
    /\ \E o \in Options :
         /\ opt' = [opt EXCEPT ![c] = o]
         /\ password' = [password EXCEPT ![c] = InitialPassword(o)]
    /\ useOtp' = [useOtp EXCEPT ![c] = FALSE]
    /\ orig' = [orig EXCEPT ![c] = "unset"]
    /\ tested' = [tested EXCEPT ![c] = Untested]
    /\ joined' = [joined EXCEPT ![c] = "no"]
    /\ hand' = [hand EXCEPT ![c] = None]
    /\ path' = [path EXCEPT ![c] = "none"]
    /\ cause' = [cause EXCEPT ![c] = "none"]
    /\ UNCHANGED <<host, server>>

StartInstall(c)   == Start(c, "test")
StartUninstall(c) == Start(c, "uninstall")

\* ipaclient_test removes a keytab it cannot load, then verifies the server,
\* then reports whether the client is already configured; if it is, and
\* neither repair nor force_join is set, the whole block is skipped, its
\* "always" section included.
RemoveInvalidKeytab == keytab' = IF keytab = Garbled THEN None ELSE keytab

SkipBlock(c) == ClientConfigured /\ ~opt[c].repair /\ ~opt[c].force

\* A fault for the checks: a configured client is skipped even by force.
ClientTestIgnoresForce(c) ==
    /\ pc[c] = "test"
    /\ RemoveInvalidKeytab
    /\ Then(c, IF ClientConfigured THEN "ok" ELSE "prepare")
    /\ UNCHANGED <<files, ccache, server, facts>>

ClientTest(c) ==
    /\ pc[c] = "test"
    /\ RemoveInvalidKeytab
    /\ Then(c, IF SkipBlock(c) THEN "ok" ELSE "prepare")
    /\ path' = [path EXCEPT ![c] = IF SkipBlock(c) THEN "skipped" ELSE @]
    /\ UNCHANGED <<files, ccache, server, opt, useOtp, password, orig,
                   tested, joined, hand>>

\* ipaclient_setup_ntp: configuring chrony may back up the state of another
\* time service, which creates sysrestore.state; a time server that does not
\* answer is no more than a warning.
AfterTimeSync == {files, files \cup {"sysrestore.state"}}

\* Remove a left-over ccache, set the clock, decide on the one-time password.
Prepare(c) ==
    /\ pc[c] = "prepare"
    /\ ccache' = FALSE
    /\ files' \in AfterTimeSync
    /\ useOtp' = [useOtp EXCEPT ![c] = (opt[c].otp # "off")]
    /\ Then(c, "keytest")
    /\ UNCHANGED <<keytab, server, opt, password, orig, tested, joined, hand,
                   path>>

\* A fault for the checks: the set_fact that drops the OTP is left out.
TestKeytabKeepsOtp(c, kdcUp) ==
    LET ok == kdcUp /\ KeytabWorks IN
    /\ pc[c] = "keytest"
    /\ ccache' = ok
    /\ tested' = [tested EXCEPT ![c] = [keytabOk |-> ok, confOk |-> ok,
                     ping |-> ok, ca |-> "ca.crt" \in files]]
    /\ Then(c, IF useOtp[c] /\ opt[c].otp = "generate"
               THEN "otp_temp" ELSE "creds")
    /\ UNCHANGED <<keytab, files, server, opt, useOtp, password, orig, joined,
                   hand, path>>

\* ipaclient_test_keytab, and the set_fact that drops the OTP for a client
\* whose keytab works.  A KDC that does not answer (kdcUp = FALSE) looks like
\* a keytab that does not work.  An unconfigured krb5.conf may still find the
\* KDC; the ping may fail although the ticket was obtained.
TestKeytab(c, kdcUp) ==
    LET ok == kdcUp /\ KeytabWorks IN
    /\ pc[c] = "keytest"
    /\ ccache' = ok
    /\ \E confOk, ping \in BOOLEAN :
         /\ (confOk \/ ping) => ok
         /\ (ok /\ "krb5.conf" \in files) => confOk
         /\ tested' = [tested EXCEPT ![c] =
                         [keytabOk |-> ok, confOk |-> confOk, ping |-> ping,
                          ca |-> "ca.crt" \in files]]
    /\ useOtp' = [useOtp EXCEPT ![c] = @ /\ (~ok \/ opt[c].force)]
    /\ Then(c, IF useOtp'[c] /\ opt[c].otp = "generate"
               THEN "otp_temp" ELSE "creds")
    /\ UNCHANGED <<keytab, files, server, opt, password, orig, joined, hand,
                   path>>

-----------------------------------------------------------------------------
(* The block that obtains a one-time password on the server.               *)

OtpTemp(c) ==
    /\ pc[c] = "otp_temp"
    /\ Check(c, opt[c].cred \in {"hostkeytab", "none"}, "otp_creds",
             "otp_show")
    /\ temp' = [temp EXCEPT ![c] = @ \/ opt[c].cred = "keytab"]
    /\ UNCHANGED <<host, srvEntry, srvKey, srvOtp, facts>>

\* host_show: the answer is acted on by the calls that follow.
OtpShow(c) ==
    /\ pc[c] = "otp_show"
    /\ Then(c, IF ~srvEntry THEN "otp_add"
               ELSE IF srvKey # None THEN "otp_disable" ELSE "otp_mod")
    /\ UNCHANGED <<host, server, facts>>

IssueOtp(c) ==
    \E o \in FreshOtp :
      /\ srvOtp' = o
      /\ hand' = [hand EXCEPT ![c] = o]

\* host_add --random --force; refused when the entry exists by now.
OtpAdd(c) ==
    /\ pc[c] = "otp_add"
    /\ Check(c, srvEntry, "get_otp", "otp_store")
    /\ IF srvEntry THEN UNCHANGED <<srvOtp, hand>> ELSE IssueOtp(c)
    /\ srvEntry' = TRUE
    /\ UNCHANGED <<host, srvKey, temp, opt, useOtp, password, orig, tested,
                   joined, path>>

\* host_disable revokes the host's key; refused when there is none by now.
OtpDisable(c) ==
    /\ pc[c] = "otp_disable"
    /\ Check(c, srvKey = None, "get_otp", "otp_mod")
    /\ srvKey' = None
    /\ UNCHANGED <<host, srvEntry, srvOtp, temp, facts>>

\* A fault for the checks: the password is set but never handed back.
OtpModUnderWrongName(c) ==
    /\ pc[c] = "otp_mod"
    /\ Check(c, srvKey # None, "get_otp", "otp_store")
    /\ IF srvKey # None THEN UNCHANGED srvOtp ELSE srvOtp' \in FreshOtp
    /\ UNCHANGED <<host, srvEntry, srvKey, temp, hand, opt, useOtp, password,
                   orig, tested, joined, path>>

\* host_mod --random; the server refuses it for a host that has a key.
OtpMod(c) ==
    /\ pc[c] = "otp_mod"
    /\ Check(c, srvKey # None, "get_otp", "otp_store")
    /\ IF srvKey # None THEN UNCHANGED <<srvOtp, hand>> ELSE IssueOtp(c)
    /\ UNCHANGED <<host, srvEntry, srvKey, temp, opt, useOtp, password, orig,
                   tested, joined, path>>

\* ipaadmin_orig_password is set from ipaadmin_password | default(omit): with
\* no original password it is not set at all.
SaveOriginal(c) ==
    orig' = [orig EXCEPT ![c] = IF password[c] = "undefined" THEN @
                                ELSE password[c]]

\* Faults for the checks: the password is overwritten before it is saved, and
\* it is saved but not overwritten.
OtpStoreSavesOtp(c) ==
    /\ pc[c] = "otp_store"
    /\ password' = [password EXCEPT ![c] = hand[c]]
    /\ orig' = [orig EXCEPT ![c] = password'[c]]
    /\ hand' = [hand EXCEPT ![c] = None]
    /\ Then(c, "otp_cleanup")
    /\ UNCHANGED <<host, server, opt, useOtp, tested, joined, path>>

OtpStoreForgotten(c) ==
    /\ pc[c] = "otp_store"
    /\ SaveOriginal(c)
    /\ hand' = [hand EXCEPT ![c] = None]
    /\ Then(c, "otp_cleanup")
    /\ UNCHANGED <<host, server, opt, useOtp, password, tested, joined, path>>

\* ipaadmin_password now holds the OTP, ipaadmin_orig_password the original.
OtpStore(c) ==
    /\ pc[c] = "otp_store"
    /\ SaveOriginal(c)
    /\ password' = [password EXCEPT ![c] = hand[c]]
    /\ hand' = [hand EXCEPT ![c] = None]
    /\ Then(c, "otp_cleanup")
    /\ UNCHANGED <<host, server, opt, useOtp, tested, joined, path>>

\* The OTP block's "always" section.
OtpCleanup(c) ==
    /\ pc[c] = "otp_cleanup"
    /\ temp' = [temp EXCEPT ![c] = FALSE]
    /\ Then(c, IF cause[c] = "none" THEN "creds" ELSE "always")
    /\ UNCHANGED <<host, srvEntry, srvKey, srvOtp, facts>>

-----------------------------------------------------------------------------
(* Credentials, purge, host name.                                          *)

\* A fault for the checks: a password of the inventory wins over its OTP.
CredsPrefersPassword(c) ==
    /\ pc[c] = "creds"
    /\ IF opt[c].otp = "predefined" /\ password[c] = "undefined"
       THEN /\ SaveOriginal(c)
            /\ \E o \in Otps : password' = [password EXCEPT ![c] = o]
       ELSE UNCHANGED <<orig, password>>
    /\ Then(c, "purge")
    /\ UNCHANGED <<host, server, opt, useOtp, tested, joined, hand, path>>

\* A predefined OTP replaces the password even when useOtp was switched off.
\* The operator may supply an OTP that is no longer valid.
Creds(c) ==
    /\ pc[c] = "creds"
    /\ IF opt[c].otp = "predefined"
       THEN /\ SaveOriginal(c)
            /\ \E o \in Otps : password' = [password EXCEPT ![c] = o]
       ELSE UNCHANGED <<orig, password>>
    /\ Check(c, /\ ~tested[c].keytabOk
                /\ password'[c] = "undefined"
                /\ opt[c].cred \notin {"keytab", "hostkeytab"},
             "no_credentials", "purge")
    /\ UNCHANGED <<host, server, opt, useOtp, tested, joined, hand, path>>

\* A fault for the checks: the keytab is purged before every enrolment.
PurgeAlways(c) ==
    /\ pc[c] = "purge"
    /\ keytab' = None
    /\ Then(c, "hostname")
    /\ UNCHANGED <<files, ccache, server, facts>>

\* ipa-rmkeytab -r REALM.
Purge(c) ==
    /\ pc[c] = "purge"
    /\ keytab' = IF useOtp[c] \/ opt[c].force THEN None ELSE keytab
    /\ Then(c, "hostname")
    /\ UNCHANGED <<files, ccache, server, facts>>

\* ipaclient_set_hostname: backup_hostname creates sysrestore.state.
SetHostname(c) ==
    /\ pc[c] = "hostname"
    /\ files' = files \cup {"sysrestore.state"}
    /\ Then(c, IF ~tested[c].keytabOk \/ opt[c].force
               THEN "join_ca" ELSE "gate")
    /\ UNCHANGED <<keytab, ccache, server, facts>>

-----------------------------------------------------------------------------
(* ipaclient_join.                                                         *)

AdminKeytab(c) == opt[c].cred = "keytab" /\ ~useOtp[c]
HostKeytab(c)  == opt[c].cred = "hostkeytab"
HasPassword(c) == password[c] # "undefined"

\* Argument checks, kinit of the administrator, CA certificates.
JoinCa(c) ==
    LET refused == IF HostKeytab(c) THEN HasPassword(c) \/ ~AdminKeytab(c)
                   ELSE ~HasPassword(c) /\ ~AdminKeytab(c)
    IN
    /\ pc[c] = "join_ca"
    /\ Check(c, refused, "join_args", "join_server")
    /\ files' = IF refused THEN files ELSE files \cup {"ca.crt"}
    /\ UNCHANGED <<keytab, ccache, server, facts>>

\* ipa-join at the server.  With an OTP the server binds the host with it;
\* with an administrator's ticket it answers "already joined" (rc 13) unless
\* -f was passed, which force_join and an admin keytab both do.
OtpAccepted(c)   == password[c] = srvOtp /\ srvKey = None
AlreadyJoined(c) == /\ ~useOtp[c] /\ srvKey # None
                    /\ ~opt[c].force /\ ~AdminKeytab(c)

JoinNewKey(c) ==
    /\ IF useOtp[c] THEN OtpAccepted(c) ELSE ~AlreadyJoined(c)
    /\ \E k \in FreshKey : srvKey' = k /\ hand' = [hand EXCEPT ![c] = k]
    /\ srvEntry' = TRUE
    /\ srvOtp' = None
    /\ Then(c, "join_write")
    /\ UNCHANGED joined

JoinRefused(c) ==
    /\ useOtp[c] /\ ~OtpAccepted(c)
    /\ Fail(c, "join")
    /\ UNCHANGED <<srvEntry, srvKey, srvOtp, hand, joined>>

\* A fault for the checks: "already joined" without a keytab has no branch.
JoinAlreadyUnhandled(c) ==
    /\ AlreadyJoined(c) /\ keytab # None
    /\ joined' = [joined EXCEPT ![c] = "already"]
    /\ Then(c, "join_tgt")
    /\ UNCHANGED <<srvEntry, srvKey, srvOtp, hand>>

JoinAlready(c) ==
    /\ AlreadyJoined(c)
    /\ joined' = [joined EXCEPT ![c] = "already"]
    /\ Check(c, keytab = None, "keytab_missing", "join_tgt")
    /\ UNCHANGED <<srvEntry, srvKey, srvOtp, hand>>

JoinServer(c) ==
    /\ pc[c] = "join_server"
    /\ JoinNewKey(c) \/ JoinRefused(c) \/ JoinAlready(c)
    /\ UNCHANGED <<host, temp, opt, useOtp, password, orig, tested, path>>

\* ipa-join writes the key it was given to /etc/krb5.keytab.
JoinWrite(c) ==
    /\ pc[c] = "join_write"
    /\ keytab' = hand[c]
    /\ hand' = [hand EXCEPT ![c] = None]
    /\ joined' = [joined EXCEPT ![c] = "changed"]
    /\ Then(c, "join_tgt")
    /\ UNCHANGED <<files, ccache, server, opt, useOtp, password, orig,
                   tested, path>>

\* A fault for the checks: a failed kinit of the host is not an error.
JoinTgtIgnored(c) ==
    /\ pc[c] = "join_tgt"
    /\ Then(c, "gate")
    /\ ccache' = (ccache \/ KeytabWorks)
    /\ UNCHANGED <<keytab, files, server, facts>>

\* The host's own ticket, obtained with the keytab.
JoinTgt(c) ==
    /\ pc[c] = "join_tgt"
    /\ Check(c, ~KeytabWorks, "tgt", "gate")
    /\ ccache' = (ccache \/ KeytabWorks)
    /\ UNCHANGED <<keytab, files, server, facts>>

-----------------------------------------------------------------------------
(* The decision to configure, and the configuration.                       *)

Keeps(c) == /\ joined[c] # "changed" /\ ~opt[c].repair
            /\ tested[c].keytabOk \/ joined[c] = "already"

Gate(c) ==
    /\ pc[c] = "gate"
    /\ IF Keeps(c)
       THEN /\ Check(c, ~(tested[c].confOk /\ tested[c].ping /\ tested[c].ca),
                     "gate", "always")
            /\ path' = [path EXCEPT ![c] = "kept"]
       ELSE /\ Then(c, "ipa_conf")
            /\ path' = [path EXCEPT ![c] = "configured"]
    /\ UNCHANGED <<host, server, opt, useOtp, password, orig, tested, joined,
                   hand>>

\* A task that writes one artefact and does nothing else.
Writes(c, l, f, next) ==
    /\ pc[c] = l
    /\ files' = files \cup {f}
    /\ Then(c, next)
    /\ UNCHANGED <<keytab, ccache, server, facts>>

IpaConf(c)   == Writes(c, "ipa_conf", "default.conf", "sssd")
SetupSssd(c) == Writes(c, "sssd", "sssd.conf", "krb5")
\* A fault for the checks: krb5.conf is left as it is.
SetupKrb5Skipped(c) ==
    /\ pc[c] = "krb5" /\ Then(c, "api")
    /\ UNCHANGED <<host, server, facts>>

SetupKrb5(c) == Writes(c, "krb5", "krb5.conf", "api")
SetupSsh(c)  == Writes(c, "ssh", "ssh", "nis")
SetupNis(c)  == Writes(c, "nis", "nisdomain", "always")

\* ipaclient_api loads ca.crt and connects with the ticket in the ccache.
IpaApi(c) ==
    /\ pc[c] = "api"
    /\ \/ "ca.crt" \notin files /\ Fail(c, "api_no_ca")
       \/ "ca.crt" \in files /\ Check(c, ~ccache, "api_no_ticket", "fix_ca")
    /\ UNCHANGED <<host, server, facts>>

FixCa(c) ==
    LET missing == /\ tested[c].keytabOk /\ ~tested[c].ca
                   /\ "ca.crt" \notin files
    IN
    /\ pc[c] = "fix_ca"
    /\ Check(c, missing /\ ~opt[c].repair, "fix_ca", "nss")
    /\ files' = IF missing /\ opt[c].repair THEN files \cup {"ca.crt"}
                ELSE files
    /\ UNCHANGED <<keytab, ccache, server, facts>>

\* ipaclient_setup_nss, up to the CA stores.
SetupNss(c) ==
    /\ pc[c] = "nss"
    /\ Check(c, ~ccache, "nss_no_ticket", "nss_end")
    /\ files' = IF ccache THEN files \cup {"nssdb"} ELSE files
    /\ UNCHANGED <<keytab, ccache, server, facts>>

\* ... and the rest: drop the ccache, switch nsswitch and PAM to SSSD.
SetupNssEnd(c) ==
    /\ pc[c] = "nss_end"
    /\ files' = files \cup {"authselect"}
    /\ ccache' = FALSE
    /\ Then(c, "ssh")
    /\ UNCHANGED <<keytab, server, facts>>

\* The outer "always" section.
Always(c) ==
    /\ pc[c] = "always"
    /\ password' = [password EXCEPT ![c] =
                      IF useOtp[c] /\ orig[c] # "unset" THEN orig[c] ELSE @]
    /\ ccache' = FALSE
    /\ Then(c, IF cause[c] = "none" THEN "ok" ELSE "failed")
    /\ UNCHANGED <<keytab, files, server, opt, useOtp, orig, tested, joined,
                   hand, path>>

\* tasks/uninstall.yml: ipa-client-install --uninstall answers 2, which the
\* task accepts, on a client that is not configured.  Revoking the key at the
\* server is best effort.
Uninstall(c) ==
    /\ pc[c] = "uninstall"
    /\ IF ClientConfigured
       THEN /\ files' = {} /\ keytab' = None
            /\ srvKey' = None \/ UNCHANGED srvKey
       ELSE UNCHANGED <<files, keytab, srvKey>>
    /\ path' = [path EXCEPT ![c] = "removed"]
    /\ Then(c, "ok")
    /\ UNCHANGED <<ccache, srvEntry, srvOtp, temp, opt, useOtp, password,
                   orig, tested, joined, hand>>

-----------------------------------------------------------------------------
(* What may go wrong, and what others do.                                  *)

\* The task at pc[c] fails before it changes anything that is modelled (its
\* arguments are refused, a service is down).  The ipaclient_test module may
\* have removed the keytab by then.
TaskFails(c) ==
    /\ "fail" \in Faults
    /\ pc[c] \notin Ended \cup {"always"}
    /\ Fail(c, IF pc[c] = "otp_cleanup" THEN "rm_keytab" ELSE "task")
    /\ UNCHANGED keytab \/ (pc[c] = "test" /\ RemoveInvalidKeytab)
    /\ UNCHANGED <<files, ccache, server, facts>>

\* The process is killed, or the host becomes unreachable: no "always"
\* section runs.  ipa-join may be interrupted while it writes the keytab.
Crash(c) ==
    /\ "crash" \in Faults
    /\ pc[c] \notin Ended
    /\ Goto(c, "crashed")
    /\ UNCHANGED keytab \/ (pc[c] = "join_write" /\ keytab' = Garbled)
    /\ UNCHANGED <<files, ccache, server, facts, cause>>

KdcSilent(c) == "kdc" \in Faults /\ TestKeytab(c, FALSE)

\* Between runs a file the role checks for is lost ...
Drift ==
    /\ "drift" \in Faults /\ NoRun
    /\ \/ /\ \E f \in {"ca.crt", "krb5.conf"} : files' = files \ {f}
          /\ UNCHANGED keytab
       \/ keytab' = None /\ UNCHANGED files
    /\ UNCHANGED <<ccache, server, pc, facts, cause>>

\* ... or the VM is built again from the template.
Reimage ==
    /\ "reimage" \in Faults /\ NoRun
    /\ keytab' = None /\ files' = {} /\ ccache' = FALSE
    /\ UNCHANGED <<server, pc, facts, cause>>

\* Between runs an administrator gives a host that has no key a one-time
\* password.  (That an OTP is superseded while a run uses it is the work of
\* another controller.)
AdminSetsOtp ==
    /\ "admin" \in Faults /\ NoRun /\ srvKey = None
    /\ srvEntry' = TRUE
    /\ \E o \in FreshOtp : srvOtp' = o
    /\ UNCHANGED <<host, srvKey, temp, pc, facts, cause>>

-----------------------------------------------------------------------------

OtpTask(c) == OtpTemp(c) \/ OtpShow(c) \/ OtpAdd(c) \/ OtpDisable(c)
              \/ OtpMod(c) \/ OtpStore(c) \/ OtpCleanup(c)

JoinTask(c) == JoinCa(c) \/ JoinServer(c) \/ JoinWrite(c) \/ JoinTgt(c)

ConfTask(c) == IpaConf(c) \/ SetupSssd(c) \/ SetupKrb5(c) \/ IpaApi(c)
               \/ FixCa(c) \/ SetupNss(c) \/ SetupNssEnd(c) \/ SetupSsh(c)
               \/ SetupNis(c)

\* The next task of a run in progress.
Task(c) == ClientTest(c) \/ Prepare(c) \/ TestKeytab(c, TRUE) \/ OtpTask(c)
           \/ Creds(c) \/ Purge(c) \/ SetHostname(c) \/ JoinTask(c)
           \/ Gate(c) \/ ConfTask(c) \/ Always(c) \/ Uninstall(c)

Controller(c) == StartInstall(c) \/ StartUninstall(c) \/ Task(c)
                 \/ TaskFails(c) \/ Crash(c) \/ KdcSilent(c)

Next == (\E c \in Controllers : Controller(c)) \/ Drift \/ Reimage
        \/ AdminSetsOtp

Spec == Init /\ [][Next]_vars

\* Ansible goes on to the next task of a run it has started.
FairSpec == Spec /\ \A c \in Controllers : WF_vars(Task(c))

-----------------------------------------------------------------------------
(* The identity of the host, as HostIdentity sees it.                      *)

\* The tasks up to the test of the keytab, with the uninstallation, are before
\* the claim; nothing in the "always" section is about the identity.
Phase(c) ==
    IF pc[c] \in Ended \cup {"always"} THEN "out"
    ELSE IF pc[c] \in {"test", "uninstall", "prepare", "keytest"} THEN "open"
    ELSE IF opt[c].force \/ ~tested[c].keytabOk THEN "claimed" ELSE "kept"

\* A key is on offer from the answer of the server to ipa-join's writing it.
Offer(c) == IF pc[c] = "join_write" THEN hand[c] ELSE None

Phases == [c \in Controllers |-> Phase(c)]
Forced == [c \in Controllers |-> opt[c].force]
Offers == [c \in Controllers |-> Offer(c)]

Identity == INSTANCE HostIdentity WITH
    Runs    <- Controllers,
    Outages <- "kdc" \in Faults,
    Losses  <- Faults \cap {"drift", "reimage"} # {},
    held    <- keytab,
    issued  <- srvKey,
    phase   <- Phases,
    forced  <- Forced,
    offer   <- Offers

\* Whatever the OTP, the credentials, the failures and the other processes: the
\* host's key is revoked, purged and replaced only by a run that claimed it by
\* force or because the key did not work, and what a run installs is the key
\* the server issued to that run.
IdentityPromised == Identity!Spec

-----------------------------------------------------------------------------
(* Properties.  Those named One... hold when a single process targets the  *)
(* host; the others hold for any number of them.                           *)

\* A run that found the keytab working, and was not told to join by force,
\* never gets to the tasks that revoke, purge or replace the host's key: the
\* guards of four tasks agree although each is written out separately.
WorkingKeyIsKept ==
    \A c \in Controllers :
      /\ tested[c].keytabOk /\ ~opt[c].force
      => /\ pc[c] \notin OtpStage \cup JoinStage
         /\ ~useOtp[c]

\* What is presented to ipa-join is what it is presented as: an OTP exactly
\* when the module is called without a principal, so no run sends a one-time
\* password to kinit as the administrator's.
OtpUsedAsOtp ==
    \A c \in Controllers :
      (pc[c] = "join_server" /\ ~HostKeytab(c))
        => (useOtp[c] <=> password[c] \in Otps)

\* The OTP the role generated does not outlive the run: whoever the play
\* calls next finds the original ipaadmin_password, if there was one, whether
\* the run succeeded or failed.
GeneratedOtpRestored ==
    \A c \in Controllers :
      (/\ pc[c] \in {"ok", "failed"}
       /\ opt[c].otp = "generate" /\ opt[c].cred = "password")
        => password[c] = "admin"

\* Leaving the OTP block takes the copy of the admin keytab off the server,
\* on the paths where a task of the block failed too, unless the process died
\* or the removal itself failed.
KeytabCopyRemoved ==
    [][\A c \in Controllers :
         (/\ pc[c] \in OtpStage \cup {"otp_cleanup"}
          /\ pc'[c] \notin OtpStage \cup {"otp_cleanup", "crashed"}
          /\ cause'[c] # "rm_keytab")
         => ~temp'[c]]_vars

\* The OTP a run generated is still the one the server accepts when ipa-join
\* presents it: obtaining it revoked an older key, and nothing the run does in
\* between invalidates it.
OneOtpAccepted ==
    \A c \in Controllers :
      (pc[c] = "join_server" /\ opt[c].otp = "generate" /\ useOtp[c])
        => OtpAccepted(c)

\* Two runs may overlap on one host, and each may overwrite the key the other
\* obtained; but if every run reports success the host is left with the key
\* the server holds: the run that lost the race has failed at "join_tgt".
RaceIsReported ==
    (\A c \in Controllers : pc[c] = "ok" /\ path[c] \in {"kept", "configured"})
        => KeytabWorks

\* A run that configured the client and reports success leaves a complete
\* configuration and a keytab the server accepts.
OneConfiguredIsHealthy ==
    \A c \in Controllers :
      (pc[c] = "always" /\ cause[c] = "none" /\ path[c] = "configured")
        => files = ConfigFiles /\ KeytabWorks

\* The tasks that talk to the server find the ticket an earlier task left in
\* /etc/ipa/.dns_ccache, on the joining and on the repairing path.
OneTicketAvailable ==
    \A c \in Controllers : pc[c] \in {"api", "fix_ca", "nss"} => ccache

\* "ipaclient: Joins the host to IPA" (docs/LINUX_VM.md:59): a run of the
\* role that reports success leaves the host with a keytab that works.
SuccessMeansJoined ==
    \A c \in Controllers :
      (pc[c] = "ok" /\ path[c] \in {"skipped", "kept", "configured"} /\ NoRun)
        => KeytabWorks

\* "The ca.crt file is missing, please enable allow_repair to fix this."
\* (install.yml:270): a run with allow_repair does not fail for want of ca.crt.
RepairRestoresCa ==
    \A c \in Controllers :
      opt[c].repair => cause[c] \notin {"api_no_ca", "fix_ca"}

\* What the fairness comes to, with the condition under which a task is possible
\* written out: a run that has started goes on.  A task that could block, such as
\* a join for which no disjunct covers the server's answer, would falsify it.
GoesOn ==
    \A c \in Controllers : []<>(pc[c] \in Ended) \/ []<><<Task(c)>>_vars

Recovering(c) == /\ pc[c] = "test" /\ opt[c].force
                 /\ opt[c].otp # "predefined"
                 /\ opt[c].cred \in {"password", "keytab"}
Recovered == files = ConfigFiles /\ KeytabWorks
Disturbed(c) == pc[c] = "crashed" \/ cause[c] \in {"task", "rm_keytab"}

\* From whatever earlier runs, crashes and rebuilds left behind, a run with
\* force_join and an administrator's credentials ends with the host joined
\* and configured, unless a task fails or the process dies during that run.
OneForceRecovers ==
    \A c \in Controllers : Recovering(c) ~> (Recovered \/ Disturbed(c))

=============================================================================
