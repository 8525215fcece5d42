--------------------------- MODULE IpaOneRunProofs ---------------------------
(***************************************************************************)
(* Theorems about IpaEnroll when a single process at a time targets the    *)
(* host: what one task leaves for a later one is there when it is needed.  *)
(***************************************************************************)
EXTENDS IpaEnrollProofs

OneController == \A c, d \in Controllers : c = d

-----------------------------------------------------------------------------
(* The ticket.                                                             *)

\* A key that works leaves a ticket in the ccache, or the join does; nothing
\* clears it before the last task that uses it.
TicketKept(c) ==
    /\ (/\ pc[c] \in OtpStage \cup {"otp_cleanup", "creds", "purge", "hostname"}
        /\ tested[c].keytabOk)
       => ccache
    /\ pc[c] \in {"gate", "ipa_conf", "sssd", "krb5", "api", "fix_ca", "nss"}
       => ccache

\* One process keeps its ticket.
LEMMA TicketKeptActor ==
    ASSUME TypeInv, NEW c \in Controllers, KeyDecided(c),
           TicketKept(c), Controller(c)
    PROVE  TicketKept(c)'
<1>. USE DEF TypeInv, TypeOK, KeyDecided, TicketKept, Then, Goto, Check,
   Fail, AfterFailure, OtpStage, JoinStage, ConfStage, host, server, facts
<1>1. CASE StartInstall(c) \/ StartUninstall(c)
  BY <1>1 DEF StartInstall, StartUninstall, Start, InitialPassword
<1>2. CASE ClientTest(c)
  BY <1>2 DEF ClientTest
<1>3. CASE Prepare(c)
  BY <1>3 DEF Prepare, AfterTimeSync
<1>4. ASSUME NEW up \in BOOLEAN, TestKeytab(c, up) PROVE TicketKept(c)'
  BY <1>4 DEF TestKeytab
<1>5. CASE OtpTemp(c)
  BY <1>5 DEF OtpTemp
<1>6. CASE OtpShow(c)
  BY <1>6 DEF OtpShow
<1>7. CASE OtpAdd(c)
  BY <1>7 DEF OtpAdd, IssueOtp
<1>8. CASE OtpDisable(c)
  BY <1>8 DEF OtpDisable
<1>9. CASE OtpMod(c)
  BY <1>9 DEF OtpMod, IssueOtp
<1>10. CASE OtpStore(c)
  BY <1>10 DEF OtpStore
<1>11. CASE OtpCleanup(c)
  BY <1>11 DEF OtpCleanup
<1>12. CASE Creds(c)
  BY <1>12 DEF Creds
<1>13. CASE Purge(c)
  BY <1>13 DEF Purge
<1>14. CASE SetHostname(c)
  BY <1>14 DEF SetHostname
<1>15. CASE JoinCa(c)
  BY <1>15 DEF JoinCa
<1>16. CASE JoinServer(c)
  BY <1>16 DEF JoinServer, JoinNewKey, JoinRefused, JoinAlready
<1>17. CASE JoinWrite(c)
  BY <1>17 DEF JoinWrite
<1>18. CASE JoinTgt(c)
  BY <1>18 DEF JoinTgt
<1>19. CASE Gate(c)
  BY <1>19 DEF Gate
<1>20. CASE IpaConf(c) \/ SetupSssd(c) \/ SetupKrb5(c)
  BY <1>20 DEF IpaConf, SetupSssd, SetupKrb5, Writes
<1>21. CASE IpaApi(c)
  BY <1>21 DEF IpaApi
<1>22. CASE FixCa(c)
  BY <1>22 DEF FixCa
<1>23. CASE SetupNss(c)
  BY <1>23 DEF SetupNss
<1>24. CASE SetupNssEnd(c)
  BY <1>24 DEF SetupNssEnd
<1>25. CASE SetupSsh(c) \/ SetupNis(c)
  BY <1>25 DEF SetupSsh, SetupNis, Writes
<1>26. CASE Always(c)
  BY <1>26 DEF Always
<1>27. CASE Uninstall(c)
  BY <1>27 DEF Uninstall
<1>28. CASE TaskFails(c)
  BY <1>28 DEF TaskFails
<1>29. CASE Crash(c)
  BY <1>29 DEF Crash
<1>. QED
  BY <1>1, <1>2, <1>3, <1>4, <1>5, <1>6, <1>7, <1>8, <1>9, <1>10, <1>11,
     <1>12, <1>13, <1>14, <1>15, <1>16, <1>17, <1>18, <1>19, <1>20, <1>21,
     <1>22, <1>23, <1>24, <1>25, <1>26, <1>27, <1>28, <1>29
  DEF Controller, Task, OtpTask, JoinTask, ConfTask, KdcSilent

-----------------------------------------------------------------------------
(* The one-time password.                                                  *)

\* From the answer of host_show to ipa-join: the entry and its key are as the
\* answer said, and the password that was issued is the one at hand.
OtpIssued(c) ==
    /\ srvKey # None => srvEntry
    /\ pc[c] = "otp_add" => ~srvEntry
    /\ pc[c] = "otp_disable" => srvKey # None
    /\ pc[c] = "otp_mod" => srvKey = None
    /\ pc[c] = "otp_store" => hand[c] = srvOtp /\ srvKey = None
    /\ (/\ \/ pc[c] \in {"creds", "purge", "hostname", "join_ca",
                         "join_server"}
           \/ pc[c] = "otp_cleanup" /\ cause[c] = "none"
        /\ opt[c].otp = "generate" /\ useOtp[c])
       => OtpAccepted(c)

\* The steps of the process that issued it.
LEMMA OtpIssuedActor ==
    ASSUME TypeInv, NEW c \in Controllers, KeyDecided(c),
           OtpIssued(c), Controller(c)
    PROVE  OtpIssued(c)'
<1>. USE DEF TypeInv, TypeOK, KeyDecided, OtpIssued, OtpAccepted, FreshKey,
   Then, Goto, Check, Fail, AfterFailure, OtpStage, JoinStage, ConfStage,
   host, server, facts
<1>1. CASE StartInstall(c) \/ StartUninstall(c)
  BY <1>1 DEF StartInstall, StartUninstall, Start, InitialPassword
<1>2. CASE ClientTest(c)
  BY <1>2 DEF ClientTest
<1>3. CASE Prepare(c)
  BY <1>3 DEF Prepare, AfterTimeSync
<1>4. ASSUME NEW up \in BOOLEAN, TestKeytab(c, up) PROVE OtpIssued(c)'
  BY <1>4 DEF TestKeytab
<1>5. CASE OtpTemp(c)
  BY <1>5 DEF OtpTemp
<1>6. CASE OtpShow(c)
  BY <1>6 DEF OtpShow
<1>7. CASE OtpAdd(c)
  BY <1>7 DEF OtpAdd, IssueOtp
<1>8. CASE OtpDisable(c)
  BY <1>8 DEF OtpDisable
<1>9. CASE OtpMod(c)
  BY <1>9 DEF OtpMod, IssueOtp
<1>10. CASE OtpStore(c)
  BY <1>10 DEF OtpStore
<1>11. CASE OtpCleanup(c)
  BY <1>11 DEF OtpCleanup
<1>12. CASE Creds(c)
  BY <1>12 DEF Creds
<1>13. CASE Purge(c)
  BY <1>13 DEF Purge
<1>14. CASE SetHostname(c)
  BY <1>14 DEF SetHostname
<1>15. CASE JoinCa(c)
  BY <1>15 DEF JoinCa
<1>16. CASE JoinServer(c)
  BY <1>16 DEF JoinServer, JoinNewKey, JoinRefused, JoinAlready
<1>17. CASE JoinWrite(c)
  BY <1>17 DEF JoinWrite
<1>18. CASE JoinTgt(c)
  BY <1>18 DEF JoinTgt
<1>19. CASE Gate(c)
  BY <1>19 DEF Gate
<1>20. CASE IpaConf(c) \/ SetupSssd(c) \/ SetupKrb5(c)
  BY <1>20 DEF IpaConf, SetupSssd, SetupKrb5, Writes
<1>21. CASE IpaApi(c)
  BY <1>21 DEF IpaApi
<1>22. CASE FixCa(c)
  BY <1>22 DEF FixCa
<1>23. CASE SetupNss(c)
  BY <1>23 DEF SetupNss
<1>24. CASE SetupNssEnd(c)
  BY <1>24 DEF SetupNssEnd
<1>25. CASE SetupSsh(c) \/ SetupNis(c)
  BY <1>25 DEF SetupSsh, SetupNis, Writes
<1>26. CASE Always(c)
  BY <1>26 DEF Always
<1>27. CASE Uninstall(c)
  BY <1>27 DEF Uninstall
<1>28. CASE TaskFails(c)
  BY <1>28 DEF TaskFails
<1>29. CASE Crash(c)
  BY <1>29 DEF Crash
<1>. QED
  BY <1>1, <1>2, <1>3, <1>4, <1>5, <1>6, <1>7, <1>8, <1>9, <1>10, <1>11,
     <1>12, <1>13, <1>14, <1>15, <1>16, <1>17, <1>18, <1>19, <1>20, <1>21,
     <1>22, <1>23, <1>24, <1>25, <1>26, <1>27, <1>28, <1>29
  DEF Controller, Task, OtpTask, JoinTask, ConfTask, KdcSilent

-----------------------------------------------------------------------------
(* The configuration.                                                      *)

\* A key the run keeps worked when it was tested, a key it obtained worked when
\* the host's ticket was obtained with it.
KeyGood(c) ==
    /\ (/\ pc[c] \in OtpStage \cup {"otp_cleanup", "creds", "purge", "hostname"}
        /\ tested[c].keytabOk /\ ~opt[c].force)
       => KeytabWorks
    /\ pc[c] \in {"gate"} \cup ConfStage => KeytabWorks

\* One process keeps its key good.
LEMMA KeyGoodActor ==
    ASSUME TypeInv, NEW c \in Controllers, KeyDecided(c),
           KeyGood(c), Controller(c)
    PROVE  KeyGood(c)'
<1>. USE DEF TypeInv, TypeOK, KeyDecided, KeyGood, KeytabWorks, Then, Goto,
   Check, Fail, AfterFailure, OtpStage, JoinStage, ConfStage, host, server,
   facts
<1>1. CASE StartInstall(c) \/ StartUninstall(c)
  BY <1>1 DEF StartInstall, StartUninstall, Start, InitialPassword
<1>2. CASE ClientTest(c)
  BY <1>2 DEF ClientTest
<1>3. CASE Prepare(c)
  BY <1>3 DEF Prepare, AfterTimeSync
<1>4. ASSUME NEW up \in BOOLEAN, TestKeytab(c, up) PROVE KeyGood(c)'
  BY <1>4 DEF TestKeytab
<1>5. CASE OtpTemp(c)
  BY <1>5 DEF OtpTemp
<1>6. CASE OtpShow(c)
  BY <1>6 DEF OtpShow
<1>7. CASE OtpAdd(c)
  BY <1>7 DEF OtpAdd, IssueOtp
<1>8. CASE OtpDisable(c)
  BY <1>8 DEF OtpDisable
<1>9. CASE OtpMod(c)
  BY <1>9 DEF OtpMod, IssueOtp
<1>10. CASE OtpStore(c)
  BY <1>10 DEF OtpStore
<1>11. CASE OtpCleanup(c)
  BY <1>11 DEF OtpCleanup
<1>12. CASE Creds(c)
  BY <1>12 DEF Creds
<1>13. CASE Purge(c)
  BY <1>13 DEF Purge
<1>14. CASE SetHostname(c)
  BY <1>14 DEF SetHostname
<1>15. CASE JoinCa(c)
  BY <1>15 DEF JoinCa
<1>16. CASE JoinServer(c)
  BY <1>16 DEF JoinServer, JoinNewKey, JoinRefused, JoinAlready
<1>17. CASE JoinWrite(c)
  BY <1>17 DEF JoinWrite
<1>18. CASE JoinTgt(c)
  BY <1>18 DEF JoinTgt
<1>19. CASE Gate(c)
  BY <1>19 DEF Gate
<1>20. CASE IpaConf(c) \/ SetupSssd(c) \/ SetupKrb5(c)
  BY <1>20 DEF IpaConf, SetupSssd, SetupKrb5, Writes
<1>21. CASE IpaApi(c)
  BY <1>21 DEF IpaApi
<1>22. CASE FixCa(c)
  BY <1>22 DEF FixCa
<1>23. CASE SetupNss(c)
  BY <1>23 DEF SetupNss
<1>24. CASE SetupNssEnd(c)
  BY <1>24 DEF SetupNssEnd
<1>25. CASE SetupSsh(c) \/ SetupNis(c)
  BY <1>25 DEF SetupSsh, SetupNis, Writes
<1>26. CASE Always(c)
  BY <1>26 DEF Always
<1>27. CASE Uninstall(c)
  BY <1>27 DEF Uninstall
<1>28. CASE TaskFails(c)
  BY <1>28 DEF TaskFails
<1>29. CASE Crash(c)
  BY <1>29 DEF Crash
<1>. QED
  BY <1>1, <1>2, <1>3, <1>4, <1>5, <1>6, <1>7, <1>8, <1>9, <1>10, <1>11,
     <1>12, <1>13, <1>14, <1>15, <1>16, <1>17, <1>18, <1>19, <1>20, <1>21,
     <1>22, <1>23, <1>24, <1>25, <1>26, <1>27, <1>28, <1>29
  DEF Controller, Task, OtpTask, JoinTask, ConfTask, KdcSilent

\* Each task finds what the tasks before it have written.
FilesWritten(c) ==
    /\ pc[c] \in JoinStage \cup {"gate"} \cup ConfStage
       => "sysrestore.state" \in files
    /\ pc[c] \in ConfStage \ {"ipa_conf"} => "default.conf" \in files
    /\ pc[c] \in ConfStage \ {"ipa_conf", "sssd"} => "sssd.conf" \in files
    /\ pc[c] \in {"api", "fix_ca", "nss", "nss_end", "ssh", "nis"}
       => "krb5.conf" \in files
    /\ pc[c] \in {"fix_ca", "nss", "nss_end", "ssh", "nis"}
       => "ca.crt" \in files
    /\ pc[c] \in {"nss_end", "ssh", "nis"} => "nssdb" \in files
    /\ pc[c] \in {"ssh", "nis"} => "authselect" \in files
    /\ pc[c] = "nis" => "ssh" \in files
    /\ (pc[c] = "always" /\ cause[c] = "none" /\ path[c] = "configured")
       => files = ConfigFiles /\ KeytabWorks

\* What one process has written stays.
LEMMA FilesWrittenActor ==
    ASSUME TypeInv, NEW c \in Controllers, KeyDecided(c),
           KeyGood(c), FilesWritten(c), Controller(c)
    PROVE  FilesWritten(c)'
<1>. USE DEF TypeInv, TypeOK, KeyDecided, KeyGood, KeytabWorks,
   FilesWritten, ConfigFiles, Then, Goto, Check, Fail, AfterFailure, OtpStage,
   JoinStage, ConfStage, host, server, facts
<1>1. CASE StartInstall(c) \/ StartUninstall(c)
  BY <1>1 DEF StartInstall, StartUninstall, Start, InitialPassword
<1>2. CASE ClientTest(c)
  BY <1>2 DEF ClientTest
<1>3. CASE Prepare(c)
  BY <1>3 DEF Prepare, AfterTimeSync
<1>4. ASSUME NEW up \in BOOLEAN, TestKeytab(c, up) PROVE FilesWritten(c)'
  BY <1>4 DEF TestKeytab
<1>5. CASE OtpTemp(c)
  BY <1>5 DEF OtpTemp
<1>6. CASE OtpShow(c)
  BY <1>6 DEF OtpShow
<1>7. CASE OtpAdd(c)
  BY <1>7 DEF OtpAdd, IssueOtp
<1>8. CASE OtpDisable(c)
  BY <1>8 DEF OtpDisable
<1>9. CASE OtpMod(c)
  BY <1>9 DEF OtpMod, IssueOtp
<1>10. CASE OtpStore(c)
  BY <1>10 DEF OtpStore
<1>11. CASE OtpCleanup(c)
  BY <1>11 DEF OtpCleanup
<1>12. CASE Creds(c)
  BY <1>12 DEF Creds
<1>13. CASE Purge(c)
  BY <1>13 DEF Purge
<1>14. CASE SetHostname(c)
  BY <1>14 DEF SetHostname
<1>15. CASE JoinCa(c)
  BY <1>15 DEF JoinCa
<1>16. CASE JoinServer(c)
  BY <1>16 DEF JoinServer, JoinNewKey, JoinRefused, JoinAlready
<1>17. CASE JoinWrite(c)
  BY <1>17 DEF JoinWrite
<1>18. CASE JoinTgt(c)
  BY <1>18 DEF JoinTgt
<1>19. CASE Gate(c)
  BY <1>19 DEF Gate
<1>20. CASE IpaConf(c) \/ SetupSssd(c) \/ SetupKrb5(c)
  BY <1>20 DEF IpaConf, SetupSssd, SetupKrb5, Writes
<1>21. CASE IpaApi(c)
  BY <1>21 DEF IpaApi
<1>22. CASE FixCa(c)
  BY <1>22 DEF FixCa
<1>23. CASE SetupNss(c)
  BY <1>23 DEF SetupNss
<1>24. CASE SetupNssEnd(c)
  BY <1>24 DEF SetupNssEnd
<1>25. CASE SetupSsh(c) \/ SetupNis(c)
  <2>1. CASE SetupSsh(c)
    BY <2>1 DEF SetupSsh, Writes
  <2>2. CASE SetupNis(c)
    <3>1. KeytabWorks'
      BY <2>2 DEF SetupNis, Writes
    <3>2. files' = ConfigFiles
      BY <2>2 DEF SetupNis, Writes
    <3>. QED  BY <2>2, <3>1, <3>2 DEF SetupNis, Writes
  <2>. QED  BY <1>25, <2>1, <2>2
<1>26. CASE Always(c)
  BY <1>26 DEF Always
<1>27. CASE Uninstall(c)
  BY <1>27 DEF Uninstall
<1>28. CASE TaskFails(c)
  BY <1>28 DEF TaskFails
<1>29. CASE Crash(c)
  BY <1>29 DEF Crash
<1>. QED
  BY <1>1, <1>2, <1>3, <1>4, <1>5, <1>6, <1>7, <1>8, <1>9, <1>10, <1>11,
     <1>12, <1>13, <1>14, <1>15, <1>16, <1>17, <1>18, <1>19, <1>20, <1>21,
     <1>22, <1>23, <1>24, <1>25, <1>26, <1>27, <1>28, <1>29
  DEF Controller, Task, OtpTask, JoinTask, ConfTask, KdcSilent

-----------------------------------------------------------------------------
(* The theorems.                                                           *)

RunInv == /\ TypeInv
          /\ \A c \in Controllers : /\ KeyDecided(c) /\ TicketKept(c)
                                    /\ OtpIssued(c) /\ KeyGood(c)
                                    /\ FilesWritten(c)

LEMMA RunInit == Init => RunInv
<1>. SUFFICES ASSUME Init, NEW c \in Controllers
              PROVE  TicketKept(c) /\ OtpIssued(c) /\ KeyGood(c)
                     /\ FilesWritten(c)
  BY TypeInit, KeyDecidedInit DEF RunInv
<1>1. pc[c] = "idle" /\ srvKey = None
  BY DEF Init
<1>. QED
  BY <1>1 DEF TicketKept, OtpIssued, KeyGood, FilesWritten, OtpStage, JoinStage,
     ConfStage

\* What happens between runs concerns no task in progress.
LEMMA BetweenRuns ==
    ASSUME TypeInv, NEW c \in Controllers,
           TicketKept(c), OtpIssued(c), KeyGood(c), FilesWritten(c),
           Drift \/ Reimage \/ AdminSetsOtp \/ UNCHANGED vars
    PROVE  (TicketKept(c) /\ OtpIssued(c) /\ KeyGood(c) /\ FilesWritten(c))'
<1>1. CASE UNCHANGED vars
  BY <1>1 DEF vars, host, server, facts, TicketKept, OtpIssued, KeyGood,
     FilesWritten, OtpAccepted, KeytabWorks
<1>2. CASE Drift \/ Reimage \/ AdminSetsOtp
  <2>1. pc[c] \in Ended /\ pc' = pc
    BY <1>2 DEF Drift, Reimage, AdminSetsOtp, NoRun
  <2>2. srvKey' = srvKey /\ (srvEntry => srvEntry')
    BY <1>2 DEF Drift, Reimage, AdminSetsOtp, server
  <2>. QED
    BY <2>1, <2>2 DEF Ended, TicketKept, OtpIssued, KeyGood, FilesWritten,
       OtpStage, JoinStage, ConfStage
<1>. QED  BY <1>1, <1>2

LEMMA RunStep ==
    ASSUME OneController, RunInv, [Next]_vars
    PROVE  RunInv'
<1>1. TypeInv' /\ \A c \in Controllers : KeyDecided(c)'
  BY TypeStep, KeyDecidedStep DEF RunInv
<1>2. ASSUME NEW c \in Controllers
      PROVE  (TicketKept(c) /\ OtpIssued(c) /\ KeyGood(c) /\ FilesWritten(c))'
  <2>1. CASE Controller(c)
    BY <2>1, TicketKeptActor, OtpIssuedActor, KeyGoodActor, FilesWrittenActor
    DEF RunInv
  <2>2. CASE Drift \/ Reimage \/ AdminSetsOtp \/ UNCHANGED vars
    BY <2>2, BetweenRuns DEF RunInv
  <2>. QED  BY <2>1, <2>2 DEF Next, OneController
<1>. QED  BY <1>1, <1>2 DEF RunInv

\* With one process at a time: the tasks that talk to the server find the ticket
\* that an earlier task left, on the joining and on the repairing path.
THEOREM TicketAvailable ==
    ASSUME OneController
    PROVE  Spec => []OneTicketAvailable
<1>1. RunInv => OneTicketAvailable
  BY DEF RunInv, TicketKept, OneTicketAvailable
<1>. QED  BY <1>1, RunInit, RunStep, PTL DEF Spec

\* With one process at a time: the OTP a run generated is the one the server
\* accepts when ipa-join presents it.
THEOREM OtpAcceptedAtJoin ==
    ASSUME OneController
    PROVE  Spec => []OneOtpAccepted
<1>1. RunInv => OneOtpAccepted
  BY DEF RunInv, OtpIssued, OneOtpAccepted
<1>. QED  BY <1>1, RunInit, RunStep, PTL DEF Spec

\* With one process at a time: a run that configured the client and reports
\* success leaves a complete configuration and a key the server accepts.
THEOREM ConfiguredIsHealthy ==
    ASSUME OneController
    PROVE  Spec => []OneConfiguredIsHealthy
<1>1. RunInv => OneConfiguredIsHealthy
  BY DEF RunInv, FilesWritten, OneConfiguredIsHealthy
<1>. QED  BY <1>1, RunInit, RunStep, PTL DEF Spec

=============================================================================
