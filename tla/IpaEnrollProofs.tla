--------------------------- MODULE IpaEnrollProofs ---------------------------
(***************************************************************************)
(* Theorems about IpaEnroll, for every number of controllers, every set of *)
(* keys and one-time passwords, every choice of invocations and of faults. *)
(***************************************************************************)
EXTENDS IpaEnroll, TLAPS

-----------------------------------------------------------------------------
(* Where a task may lead.                                                  *)

\* A failure is recorded and leads to one of the sections "always", or ends
\* the run; no other process moves.
LEMMA FailMoves ==
    ASSUME TypeOK, NEW c \in Controllers, NEW why \in Causes, Fail(c, why)
    PROVE  /\ pc' \in [Controllers -> PC]
           /\ cause' \in [Controllers -> Causes]
           /\ cause'[c] = why
           /\ pc'[c] = AfterFailure(pc[c])
           /\ pc'[c] \in {"otp_cleanup", "always", "failed"}
           /\ \A d \in Controllers \ {c} :
                 pc'[d] = pc[d] /\ cause'[d] = cause[d]
<1>1. AfterFailure(pc[c]) \in {"otp_cleanup", "always", "failed"}
  BY DEF AfterFailure
<1>2. AfterFailure(pc[c]) \in PC
  BY <1>1 DEF PC, Ended
<1>. QED  BY <1>1, <1>2 DEF TypeOK, Fail, Goto

\* A task that succeeds leads to the next one.
LEMMA ThenMoves ==
    ASSUME TypeOK, NEW c \in Controllers, NEW l \in PC, Then(c, l)
    PROVE  /\ pc' \in [Controllers -> PC]
           /\ cause' \in [Controllers -> Causes]
           /\ pc'[c] = l /\ cause' = cause
           /\ \A d \in Controllers \ {c} : pc'[d] = pc[d]
BY DEF TypeOK, Then, Goto

-----------------------------------------------------------------------------
(* Types.                                                                  *)

\* A secret in hand is of the kind that the next task stores.
HandTyped ==
    \A c \in Controllers : /\ pc[c] = "otp_store" => hand[c] \in Otps
                           /\ pc[c] = "join_write" => hand[c] \in Keys

TypeInv == TypeOK /\ HandTyped

\* The labels, one by one.
LEMMA Labels ==
    PC = {"prepare", "keytest", "creds", "purge", "hostname", "gate",
          "otp_temp", "otp_show", "otp_add", "otp_disable", "otp_mod",
          "otp_store", "join_ca", "join_server", "join_write", "join_tgt",
          "ipa_conf", "sssd", "krb5", "api", "fix_ca", "nss", "nss_end", "ssh",
          "nis", "idle", "ok", "failed", "crashed", "test", "otp_cleanup",
          "always", "uninstall"}
BY DEF PC, Block, Ended, OtpStage, JoinStage, ConfStage

LEMMA TypeInit == Init => TypeInv
<1>. SUFFICES ASSUME Init PROVE TypeInv
  OBVIOUS
<1>1. /\ keytab \in Keys \cup {None, Garbled} /\ files \subseteq ConfigFiles
      /\ ccache \in BOOLEAN /\ srvEntry \in BOOLEAN
      /\ srvKey \in Keys \cup {None} /\ srvOtp \in Otps \cup {None}
      /\ temp \in [Controllers -> BOOLEAN]
  BY DEF Init
<1>2. /\ pc \in [Controllers -> PC] /\ opt \in [Controllers -> OptionType]
      /\ tested \in [Controllers -> TestResult]
  BY DEF Init, PC, Ended, OptionType, Untested, TestResult
<1>3. /\ useOtp \in [Controllers -> BOOLEAN]
      /\ password \in [Controllers -> Passwords]
      /\ orig \in [Controllers -> (Passwords \ {"undefined"}) \cup {"unset"}]
      /\ joined \in [Controllers -> {"no", "changed", "already"}]
      /\ hand \in [Controllers -> Keys \cup Otps \cup {None}]
      /\ path \in [Controllers -> {"none", "skipped", "kept", "configured",
                                    "removed"}]
      /\ cause \in [Controllers -> Causes]
  BY DEF Init, Passwords, Causes
<1>4. HandTyped
  BY DEF Init, HandTyped
<1>. QED  BY <1>1, <1>2, <1>3, <1>4 DEF TypeInv, TypeOK

LEMMA TypeStep == TypeInv /\ [Next]_vars => TypeInv'
<1>. SUFFICES ASSUME TypeInv, [Next]_vars PROVE TypeInv'
  OBVIOUS
<1>. USE ConstantsAssumption, Labels, FailMoves, ThenMoves DEF TypeInv, host,
   server, facts
<1>1. ASSUME NEW c \in Controllers, StartInstall(c) PROVE TypeInv'
  BY <1>1 DEF TypeOK, HandTyped, StartInstall, Start, Goto, Untested,
     TestResult, InitialPassword, OptionType, Passwords, Causes
<1>2. ASSUME NEW c \in Controllers, StartUninstall(c) PROVE TypeInv'
  BY <1>2 DEF TypeOK, HandTyped, StartUninstall, Start, Goto, Untested,
     TestResult, InitialPassword, OptionType, Passwords, Causes
<1>3. ASSUME NEW c \in Controllers, ClientTest(c) PROVE TypeInv'
  BY <1>3 DEF TypeOK, HandTyped, ClientTest, RemoveInvalidKeytab
<1>4. ASSUME NEW c \in Controllers, Prepare(c) PROVE TypeInv'
  <2>1. useOtp' \in [Controllers -> BOOLEAN]
    BY <1>4, Zenon DEF Prepare, TypeOK
  <2>2. TypeOK'
    BY <1>4, <2>1 DEF TypeOK, Prepare, AfterTimeSync, ConfigFiles
  <2>3. HandTyped'
    BY <1>4 DEF TypeOK, HandTyped, Prepare
  <2>. QED  BY <2>2, <2>3
<1>5. ASSUME NEW c \in Controllers, NEW kdcUp \in BOOLEAN, TestKeytab(c, kdcUp)
       PROVE TypeInv'
  <2>. USE <1>5 DEF TestKeytab, KeytabWorks, TestResult
  <2>1. TypeOK'
    BY DEF TypeOK, HandTyped
  <2>2. HandTyped'
    BY DEF TypeOK, HandTyped
  <2>. QED  BY <2>1, <2>2
<1>6. ASSUME NEW c \in Controllers, OtpTemp(c) PROVE TypeInv'
  <2>. USE <1>6 DEF OtpTemp, Check, Causes
  <2>1. TypeOK'
    BY DEF TypeOK, HandTyped
  <2>2. HandTyped'
    BY DEF TypeOK, HandTyped
  <2>. QED  BY <2>1, <2>2
<1>7. ASSUME NEW c \in Controllers, OtpShow(c) PROVE TypeInv'
  BY <1>7 DEF TypeOK, HandTyped, OtpShow
<1>8. ASSUME NEW c \in Controllers, OtpAdd(c) PROVE TypeInv'
  <2>. USE <1>8 DEF OtpAdd, Check, IssueOtp, FreshOtp, Causes
  <2>1. TypeOK'
    BY DEF TypeOK, HandTyped
  <2>2. HandTyped'
    BY DEF TypeOK, HandTyped
  <2>. QED  BY <2>1, <2>2
<1>9. ASSUME NEW c \in Controllers, OtpDisable(c) PROVE TypeInv'
  <2>. USE <1>9 DEF OtpDisable, Check, Causes
  <2>1. TypeOK'
    BY DEF TypeOK, HandTyped
  <2>2. HandTyped'
    BY DEF TypeOK, HandTyped
  <2>. QED  BY <2>1, <2>2
<1>10. ASSUME NEW c \in Controllers, OtpMod(c) PROVE TypeInv'
  <2>. USE <1>10 DEF OtpMod, Check, IssueOtp, FreshOtp, Causes
  <2>1. TypeOK'
    BY DEF TypeOK, HandTyped
  <2>2. HandTyped'
    BY DEF TypeOK, HandTyped
  <2>. QED  BY <2>1, <2>2
<1>11. ASSUME NEW c \in Controllers, OtpStore(c) PROVE TypeInv'
  <2>. USE <1>11 DEF OtpStore, SaveOriginal, Passwords
  <2>1. TypeOK'
    BY DEF TypeOK, HandTyped
  <2>2. HandTyped'
    BY DEF TypeOK, HandTyped
  <2>. QED  BY <2>1, <2>2
<1>12. ASSUME NEW c \in Controllers, OtpCleanup(c) PROVE TypeInv'
  BY <1>12 DEF TypeOK, HandTyped, OtpCleanup
<1>13. ASSUME NEW c \in Controllers, Creds(c) PROVE TypeInv'
  <2>. USE <1>13 DEF Creds, Check, SaveOriginal, Passwords, Causes
  <2>1. TypeOK'
    BY DEF TypeOK, HandTyped
  <2>2. HandTyped'
    BY DEF TypeOK, HandTyped
  <2>. QED  BY <2>1, <2>2
<1>14. ASSUME NEW c \in Controllers, Purge(c) PROVE TypeInv'
  BY <1>14 DEF TypeOK, HandTyped, Purge
<1>15. ASSUME NEW c \in Controllers, SetHostname(c) PROVE TypeInv'
  BY <1>15 DEF TypeOK, HandTyped, SetHostname, ConfigFiles
<1>16. ASSUME NEW c \in Controllers, JoinCa(c) PROVE TypeInv'
  <2>. USE <1>16 DEF JoinCa, Check, ConfigFiles, Causes
  <2>1. TypeOK'
    BY DEF TypeOK, HandTyped
  <2>2. HandTyped'
    BY DEF TypeOK, HandTyped
  <2>. QED  BY <2>1, <2>2
<1>17. ASSUME NEW c \in Controllers, JoinServer(c) PROVE TypeInv'
  <2>. USE <1>17 DEF TypeOK, HandTyped, JoinServer, FreshKey, Causes
  <2>1. CASE JoinNewKey(c)
    BY <2>1 DEF JoinNewKey
  <2>2. CASE JoinRefused(c)
    BY <2>2 DEF JoinRefused
  <2>3. CASE JoinAlready(c)
    BY <2>3 DEF JoinAlready, Check
  <2>. QED  BY <2>1, <2>2, <2>3
<1>18. ASSUME NEW c \in Controllers, JoinWrite(c) PROVE TypeInv'
  <2>. USE <1>18 DEF JoinWrite
  <2>1. TypeOK'
    BY DEF TypeOK, HandTyped
  <2>2. HandTyped'
    BY DEF TypeOK, HandTyped
  <2>. QED  BY <2>1, <2>2
<1>19. ASSUME NEW c \in Controllers, JoinTgt(c) PROVE TypeInv'
  <2>. USE <1>19 DEF JoinTgt, Check, KeytabWorks, Causes
  <2>1. TypeOK'
    BY DEF TypeOK, HandTyped
  <2>2. HandTyped'
    BY DEF TypeOK, HandTyped
  <2>. QED  BY <2>1, <2>2
<1>20. ASSUME NEW c \in Controllers, Gate(c) PROVE TypeInv'
  <2>. USE <1>20 DEF Gate, Check, Causes
  <2>1. TypeOK'
    BY DEF TypeOK, HandTyped
  <2>2. HandTyped'
    BY DEF TypeOK, HandTyped
  <2>. QED  BY <2>1, <2>2
<1>21. ASSUME NEW c \in Controllers, IpaConf(c) PROVE TypeInv'
  <2>. USE <1>21 DEF IpaConf, Writes, ConfigFiles
  <2>1. TypeOK'
    BY DEF TypeOK, HandTyped
  <2>2. HandTyped'
    BY DEF TypeOK, HandTyped
  <2>. QED  BY <2>1, <2>2
<1>22. ASSUME NEW c \in Controllers, SetupSssd(c) PROVE TypeInv'
  <2>. USE <1>22 DEF SetupSssd, Writes, ConfigFiles
  <2>1. TypeOK'
    BY DEF TypeOK, HandTyped
  <2>2. HandTyped'
    BY DEF TypeOK, HandTyped
  <2>. QED  BY <2>1, <2>2
<1>23. ASSUME NEW c \in Controllers, SetupKrb5(c) PROVE TypeInv'
  <2>. USE <1>23 DEF SetupKrb5, Writes, ConfigFiles
  <2>1. TypeOK'
    BY DEF TypeOK, HandTyped
  <2>2. HandTyped'
    BY DEF TypeOK, HandTyped
  <2>. QED  BY <2>1, <2>2
<1>24. ASSUME NEW c \in Controllers, IpaApi(c) PROVE TypeInv'
  <2>. USE <1>24 DEF IpaApi, Check, Causes
  <2>1. TypeOK'
    BY DEF TypeOK, HandTyped
  <2>2. HandTyped'
    BY DEF TypeOK, HandTyped
  <2>. QED  BY <2>1, <2>2
<1>25. ASSUME NEW c \in Controllers, FixCa(c) PROVE TypeInv'
  <2>. USE <1>25 DEF FixCa, Check, ConfigFiles, Causes
  <2>1. TypeOK'
    BY DEF TypeOK, HandTyped
  <2>2. HandTyped'
    BY DEF TypeOK, HandTyped
  <2>. QED  BY <2>1, <2>2
<1>26. ASSUME NEW c \in Controllers, SetupNss(c) PROVE TypeInv'
  <2>. USE <1>26 DEF SetupNss, Check, ConfigFiles, Causes
  <2>1. TypeOK'
    BY DEF TypeOK, HandTyped
  <2>2. HandTyped'
    BY DEF TypeOK, HandTyped
  <2>. QED  BY <2>1, <2>2
<1>27. ASSUME NEW c \in Controllers, SetupNssEnd(c) PROVE TypeInv'
  <2>. USE <1>27 DEF SetupNssEnd, ConfigFiles
  <2>1. TypeOK'
    BY DEF TypeOK, HandTyped
  <2>2. HandTyped'
    BY DEF TypeOK, HandTyped
  <2>. QED  BY <2>1, <2>2
<1>28. ASSUME NEW c \in Controllers, SetupSsh(c) PROVE TypeInv'
  <2>. USE <1>28 DEF SetupSsh, Writes, ConfigFiles
  <2>1. TypeOK'
    BY DEF TypeOK, HandTyped
  <2>2. HandTyped'
    BY DEF TypeOK, HandTyped
  <2>. QED  BY <2>1, <2>2
<1>29. ASSUME NEW c \in Controllers, SetupNis(c) PROVE TypeInv'
  <2>. USE <1>29 DEF SetupNis, Writes, ConfigFiles
  <2>1. TypeOK'
    BY DEF TypeOK, HandTyped
  <2>2. HandTyped'
    BY DEF TypeOK, HandTyped
  <2>. QED  BY <2>1, <2>2
<1>30. ASSUME NEW c \in Controllers, Always(c) PROVE TypeInv'
  <2>. USE <1>30 DEF Always, Passwords
  <2>1. TypeOK'
    BY DEF TypeOK, HandTyped
  <2>2. HandTyped'
    BY DEF TypeOK, HandTyped
  <2>. QED  BY <2>1, <2>2
<1>31. ASSUME NEW c \in Controllers, Uninstall(c) PROVE TypeInv'
  BY <1>31 DEF TypeOK, HandTyped, Uninstall
<1>32. ASSUME NEW c \in Controllers, TaskFails(c) PROVE TypeInv'
  <2>. USE <1>32 DEF TaskFails, RemoveInvalidKeytab, Causes
  <2>1. TypeOK'
    BY DEF TypeOK, HandTyped
  <2>2. HandTyped'
    BY DEF TypeOK, HandTyped
  <2>. QED  BY <2>1, <2>2
<1>33. ASSUME NEW c \in Controllers, Crash(c) PROVE TypeInv'
  BY <1>33 DEF TypeOK, HandTyped, Crash, Goto
<1>34. CASE Drift
  BY <1>34 DEF TypeOK, HandTyped, Drift
<1>35. CASE Reimage
  BY <1>35 DEF TypeOK, HandTyped, Reimage
<1>36. CASE AdminSetsOtp
  BY <1>36 DEF TypeOK, HandTyped, AdminSetsOtp, FreshOtp
<1>37. CASE UNCHANGED vars
  BY <1>37 DEF TypeOK, HandTyped, vars
<1>. QED
  BY <1>1, <1>2, <1>3, <1>4, <1>5, <1>6, <1>7, <1>8, <1>9, <1>10, <1>11, <1>12,
     <1>13, <1>14, <1>15, <1>16, <1>17, <1>18, <1>19, <1>20, <1>21, <1>22,
     <1>23, <1>24, <1>25, <1>26, <1>27, <1>28, <1>29, <1>30, <1>31, <1>32,
     <1>33, <1>34, <1>35, <1>36, <1>37
  DEF Next, Controller, Task, OtpTask, JoinTask, ConfTask, KdcSilent

\* The type invariant of IpaEnroll: what each variable holds, and that what
\* ipa-join and the OTP task return is what the next task stores.
THEOREM TypeCorrect == Spec => []TypeOK
<1>1. TypeInv => TypeOK
  BY DEF TypeInv
<1>. QED  BY <1>1, TypeInit, TypeStep, PTL DEF Spec

-----------------------------------------------------------------------------
(* Facts and program counters belong to one process.                       *)

SameFor(d) ==
    /\ pc'[d] = pc[d] /\ cause'[d] = cause[d] /\ opt'[d] = opt[d]
    /\ useOtp'[d] = useOtp[d] /\ password'[d] = password[d]
    /\ orig'[d] = orig[d] /\ tested'[d] = tested[d] /\ path'[d] = path[d]
    /\ joined'[d] = joined[d] /\ hand'[d] = hand[d]

LEMMA OthersKeepTheirs ==
    ASSUME TypeOK, NEW c \in Controllers, Controller(c),
           NEW d \in Controllers, d # c
    PROVE  SameFor(d)
<1>. USE DEF TypeOK, SameFor, Then, Goto, Check, Fail, host, server, facts
<1>1. CASE StartInstall(c)
  BY <1>1 DEF StartInstall, Start
<1>2. CASE StartUninstall(c)
  BY <1>2 DEF StartUninstall, Start
<1>3. CASE ClientTest(c)
  BY <1>3 DEF ClientTest
<1>4. CASE Prepare(c)
  BY <1>4 DEF Prepare
<1>5. ASSUME NEW up \in BOOLEAN, TestKeytab(c, up) PROVE SameFor(d)
  BY <1>5 DEF TestKeytab
<1>6. CASE OtpTemp(c)
  BY <1>6 DEF OtpTemp
<1>7. CASE OtpShow(c)
  BY <1>7 DEF OtpShow
<1>8. CASE OtpAdd(c)
  BY <1>8 DEF OtpAdd, IssueOtp
<1>9. CASE OtpDisable(c)
  BY <1>9 DEF OtpDisable
<1>10. CASE OtpMod(c)
  BY <1>10 DEF OtpMod, IssueOtp
<1>11. CASE OtpStore(c)
  BY <1>11 DEF OtpStore, SaveOriginal
<1>12. CASE OtpCleanup(c)
  BY <1>12 DEF OtpCleanup
<1>13. CASE Creds(c)
  BY <1>13 DEF Creds, SaveOriginal
<1>14. CASE Purge(c)
  BY <1>14 DEF Purge
<1>15. CASE SetHostname(c)
  BY <1>15 DEF SetHostname
<1>16. CASE JoinCa(c)
  BY <1>16 DEF JoinCa
<1>17. CASE JoinServer(c)
  BY <1>17 DEF JoinServer, JoinNewKey, JoinRefused, JoinAlready
<1>18. CASE JoinWrite(c)
  BY <1>18 DEF JoinWrite
<1>19. CASE JoinTgt(c)
  BY <1>19 DEF JoinTgt
<1>20. CASE Gate(c)
  BY <1>20 DEF Gate
<1>21. CASE IpaConf(c) \/ SetupSssd(c) \/ SetupKrb5(c)
  BY <1>21 DEF IpaConf, SetupSssd, SetupKrb5, Writes
<1>22. CASE IpaApi(c) \/ FixCa(c)
  BY <1>22 DEF IpaApi, FixCa
<1>23. CASE SetupNss(c) \/ SetupNssEnd(c)
  BY <1>23 DEF SetupNss, SetupNssEnd
<1>24. CASE SetupSsh(c) \/ SetupNis(c)
  BY <1>24 DEF SetupSsh, SetupNis, Writes
<1>25. CASE Always(c)
  BY <1>25 DEF Always
<1>26. CASE Uninstall(c)
  BY <1>26 DEF Uninstall
<1>27. CASE TaskFails(c)
  BY <1>27 DEF TaskFails
<1>28. CASE Crash(c)
  BY <1>28 DEF Crash
<1>. QED
  BY <1>1, <1>2, <1>3, <1>4, <1>5, <1>6, <1>7, <1>8, <1>9, <1>10, <1>11,
     <1>12, <1>13, <1>14, <1>15, <1>16, <1>17, <1>18, <1>19, <1>20, <1>21,
     <1>22, <1>23, <1>24, <1>25, <1>26, <1>27, <1>28
  DEF Controller, Task, OtpTask, JoinTask, ConfTask, KdcSilent

LEMMA EnvironmentKeeps ==
    ASSUME Drift \/ Reimage \/ AdminSetsOtp \/ UNCHANGED vars,
           NEW d \in Controllers
    PROVE  SameFor(d)
BY DEF Drift, Reimage, AdminSetsOtp, SameFor, vars, host, server, facts

-----------------------------------------------------------------------------
(* A working key is kept.                                                  *)

\* The key test decides once and for all whether this run replaces the key:
\* what the later tasks look at does not change any more.
KeyDecided(c) ==
    /\ pc[c] \in {"test", "prepare", "keytest"} => ~tested[c].keytabOk
    /\ tested[c].keytabOk /\ ~opt[c].force
       => /\ pc[c] \notin OtpStage \cup JoinStage \cup {"otp_cleanup"}
          /\ ~useOtp[c]

LEMMA KeyDecidedActor ==
    ASSUME TypeInv, NEW c \in Controllers, KeyDecided(c), Controller(c)
    PROVE  KeyDecided(c)'
<1>. USE DEF TypeInv, TypeOK, KeyDecided, Then, Goto, Check, Fail,
   AfterFailure, OtpStage, JoinStage,
         ConfStage, facts
<1>1. CASE StartInstall(c)
  BY <1>1 DEF StartInstall, Start, Untested
<1>2. CASE StartUninstall(c)
  BY <1>2 DEF StartUninstall, Start, Untested
<1>3. CASE ClientTest(c)
  BY <1>3 DEF ClientTest
<1>4. CASE Prepare(c)
  BY <1>4 DEF Prepare
<1>5. ASSUME NEW up \in BOOLEAN, TestKeytab(c, up) PROVE KeyDecided(c)'
  <2>1. useOtp'[c] <=> useOtp[c] /\ (~(up /\ KeytabWorks) \/ opt[c].force)
    BY <1>5, Zenon DEF TestKeytab
  <2>2. tested'[c].keytabOk <=> (up /\ KeytabWorks)
    BY <1>5 DEF TestKeytab
  <2>3. /\ pc'[c] \in {"otp_temp", "creds"} /\ opt' = opt
        /\ pc'[c] = "otp_temp" => useOtp'[c]
    BY <1>5 DEF TestKeytab
  <2>. QED  BY <2>1, <2>2, <2>3
<1>6. CASE OtpTemp(c)
  BY <1>6 DEF OtpTemp
<1>7. CASE OtpShow(c)
  BY <1>7 DEF OtpShow
<1>8. CASE OtpAdd(c)
  BY <1>8 DEF OtpAdd, IssueOtp
<1>9. CASE OtpDisable(c)
  BY <1>9 DEF OtpDisable
<1>10. CASE OtpMod(c)
  BY <1>10 DEF OtpMod, IssueOtp
<1>11. CASE OtpStore(c)
  BY <1>11 DEF OtpStore
<1>12. CASE OtpCleanup(c)
  BY <1>12 DEF OtpCleanup
<1>13. CASE Creds(c)
  BY <1>13 DEF Creds
<1>14. CASE Purge(c)
  BY <1>14 DEF Purge
<1>15. CASE SetHostname(c)
  BY <1>15 DEF SetHostname
<1>16. CASE JoinCa(c)
  BY <1>16 DEF JoinCa
<1>17. CASE JoinServer(c)
  BY <1>17 DEF JoinServer, JoinNewKey, JoinRefused, JoinAlready
<1>18. CASE JoinWrite(c)
  BY <1>18 DEF JoinWrite
<1>19. CASE JoinTgt(c)
  BY <1>19 DEF JoinTgt
<1>20. CASE Gate(c)
  BY <1>20 DEF Gate
<1>21. CASE IpaConf(c) \/ SetupSssd(c) \/ SetupKrb5(c)
  BY <1>21 DEF IpaConf, SetupSssd, SetupKrb5, Writes
<1>22. CASE IpaApi(c) \/ FixCa(c)
  BY <1>22 DEF IpaApi, FixCa
<1>23. CASE SetupNss(c) \/ SetupNssEnd(c)
  BY <1>23 DEF SetupNss, SetupNssEnd
<1>24. CASE SetupSsh(c) \/ SetupNis(c)
  BY <1>24 DEF SetupSsh, SetupNis, Writes
<1>25. CASE Always(c)
  BY <1>25 DEF Always
<1>26. CASE Uninstall(c)
  BY <1>26 DEF Uninstall
<1>27. CASE TaskFails(c)
  BY <1>27 DEF TaskFails
<1>28. CASE Crash(c)
  BY <1>28 DEF Crash
<1>. QED
  BY <1>1, <1>2, <1>3, <1>4, <1>5, <1>6, <1>7, <1>8, <1>9, <1>10, <1>11,
     <1>12, <1>13, <1>14, <1>15, <1>16, <1>17, <1>18, <1>19, <1>20, <1>21,
     <1>22, <1>23, <1>24, <1>25, <1>26, <1>27, <1>28
  DEF Controller, Task, OtpTask, JoinTask, ConfTask, KdcSilent

LEMMA KeyDecidedStep ==
    ASSUME TypeInv, \A c \in Controllers : KeyDecided(c), [Next]_vars
    PROVE  \A d \in Controllers : KeyDecided(d)'
<1>. SUFFICES ASSUME NEW d \in Controllers PROVE KeyDecided(d)'
  OBVIOUS
<1>1. CASE Controller(d)
  BY <1>1, KeyDecidedActor
<1>2. ASSUME NEW c \in Controllers, c # d, Controller(c)
      PROVE  KeyDecided(d)'
  BY <1>2, OthersKeepTheirs DEF TypeInv, SameFor, KeyDecided
<1>3. CASE Drift \/ Reimage \/ AdminSetsOtp \/ UNCHANGED vars
  BY <1>3, EnvironmentKeeps DEF SameFor, KeyDecided
<1>. QED  BY <1>1, <1>2, <1>3 DEF Next

LEMMA KeyDecidedInit == Init => \A c \in Controllers : KeyDecided(c)
<1>. SUFFICES ASSUME Init, NEW c \in Controllers PROVE KeyDecided(c)
  OBVIOUS
<1>1. ~tested[c].keytabOk
  BY DEF Init, Untested
<1>. QED  BY <1>1 DEF KeyDecided

\* For any number of controllers: a run that found the keytab working, and was
\* not told to join by force, never gets to a task that revokes, purges or
\* replaces the key.
THEOREM KeyKept == Spec => []WorkingKeyIsKept
<1>. DEFINE Inv == \A c \in Controllers : KeyDecided(c)
<1>1. Inv => WorkingKeyIsKept
  BY DEF KeyDecided, WorkingKeyIsKept
<1>2. TypeInv /\ Inv /\ [Next]_vars => Inv'
  BY KeyDecidedStep
<1>3. Init => Inv
  BY KeyDecidedInit
<1>. QED
  <2>. HIDE DEF Inv
  <2>. QED  BY <1>1, <1>2, <1>3, TypeInit, TypeStep, PTL DEF Spec

-----------------------------------------------------------------------------
(* Runs that overlap.                                                      *)

\* A process that can report success without testing the key again.
Certified(c) ==
    \/ pc[c] = "ok" /\ path[c] \in {"kept", "configured"}
    \/ pc[c] \in ConfStage \cup {"gate", "always"} /\ cause[c] = "none"
    \/ /\ pc[c] \in {"creds", "purge", "hostname"}
       /\ tested[c].keytabOk /\ ~opt[c].force

\* While the key does not work, some process has a test of it still ahead.
SomeoneStillTests == KeytabWorks \/ \E c \in Controllers : ~Certified(c)

\* A process can count on its key only if it tested it in this step, or could
\* count on it before and left it alone.
KeyAccounted(c) ==
    Certified(c)' => \/ KeytabWorks'
                     \/ Certified(c) /\ keytab' = keytab /\ srvKey' = srvKey

LEMMA StepAccounted ==
    ASSUME TypeInv, NEW c \in Controllers, KeyDecided(c), Controller(c)
    PROVE  KeyAccounted(c)
<1>. USE DEF TypeInv, TypeOK, KeyDecided, KeyAccounted, Certified, Then, Goto,
   Check, Fail, AfterFailure, OtpStage, JoinStage, ConfStage, host, server,
   facts
<1>1. CASE StartInstall(c)
  BY <1>1 DEF StartInstall, Start
<1>2. CASE StartUninstall(c)
  BY <1>2 DEF StartUninstall, Start
<1>3. CASE ClientTest(c)
  BY <1>3 DEF ClientTest
<1>4. CASE Prepare(c)
  BY <1>4 DEF Prepare
<1>5. ASSUME NEW up \in BOOLEAN, TestKeytab(c, up) PROVE KeyAccounted(c)
  BY <1>5 DEF TestKeytab, KeytabWorks
<1>6. CASE OtpTemp(c)
  BY <1>6 DEF OtpTemp
<1>7. CASE OtpShow(c)
  BY <1>7 DEF OtpShow
<1>8. CASE OtpAdd(c)
  BY <1>8 DEF OtpAdd, IssueOtp
<1>9. CASE OtpDisable(c)
  BY <1>9 DEF OtpDisable
<1>10. CASE OtpMod(c)
  BY <1>10 DEF OtpMod, IssueOtp
<1>11. CASE OtpStore(c)
  BY <1>11 DEF OtpStore
<1>12. CASE OtpCleanup(c)
  BY <1>12 DEF OtpCleanup
<1>13. CASE Creds(c)
  BY <1>13 DEF Creds
<1>14. CASE Purge(c)
  BY <1>14 DEF Purge
<1>15. CASE SetHostname(c)
  BY <1>15 DEF SetHostname
<1>16. CASE JoinCa(c)
  BY <1>16 DEF JoinCa
<1>17. CASE JoinServer(c)
  BY <1>17 DEF JoinServer, JoinNewKey, JoinRefused, JoinAlready
<1>18. CASE JoinWrite(c)
  BY <1>18 DEF JoinWrite
<1>19. CASE JoinTgt(c)
  BY <1>19 DEF JoinTgt, KeytabWorks
<1>20. CASE Gate(c)
  BY <1>20 DEF Gate
<1>21. CASE IpaConf(c) \/ SetupSssd(c) \/ SetupKrb5(c)
  BY <1>21 DEF IpaConf, SetupSssd, SetupKrb5, Writes
<1>22. CASE IpaApi(c) \/ FixCa(c)
  BY <1>22 DEF IpaApi, FixCa
<1>23. CASE SetupNss(c) \/ SetupNssEnd(c)
  BY <1>23 DEF SetupNss, SetupNssEnd
<1>24. CASE SetupSsh(c) \/ SetupNis(c)
  BY <1>24 DEF SetupSsh, SetupNis, Writes
<1>25. CASE Always(c)
  BY <1>25 DEF Always
<1>26. CASE Uninstall(c)
  BY <1>26 DEF Uninstall
<1>27. CASE TaskFails(c)
  BY <1>27 DEF TaskFails
<1>28. CASE Crash(c)
  BY <1>28 DEF Crash
<1>. QED
  BY <1>1, <1>2, <1>3, <1>4, <1>5, <1>6, <1>7, <1>8, <1>9, <1>10, <1>11,
     <1>12, <1>13, <1>14, <1>15, <1>16, <1>17, <1>18, <1>19, <1>20, <1>21,
     <1>22, <1>23, <1>24, <1>25, <1>26, <1>27, <1>28
  DEF Controller, Task, OtpTask, JoinTask, ConfTask, KdcSilent

LEMMA SomeoneInit == Init => SomeoneStillTests
<1>. SUFFICES ASSUME Init PROVE SomeoneStillTests
  OBVIOUS
<1>1. PICK c \in Controllers : TRUE
  BY ConstantsAssumption
<1>2. pc[c] = "idle"
  BY DEF Init
<1>3. ~Certified(c)
  BY <1>2 DEF Certified, ConfStage
<1>. QED  BY <1>3 DEF SomeoneStillTests

LEMMA SomeoneStep ==
    ASSUME Faults \cap {"drift", "reimage"} = {}, TypeInv,
           \A c \in Controllers : KeyDecided(c),
           SomeoneStillTests, [Next]_vars
    PROVE  SomeoneStillTests'
<1>1. ASSUME NEW c \in Controllers, Controller(c) PROVE SomeoneStillTests'
  <2>1. KeyAccounted(c)
    BY <1>1, StepAccounted
  <2>2. CASE ~Certified(c)'
    BY <2>2 DEF SomeoneStillTests
  <2>3. CASE KeytabWorks'
    BY <2>3 DEF SomeoneStillTests
  <2>4. CASE Certified(c) /\ keytab' = keytab /\ srvKey' = srvKey
    <3>1. KeytabWorks => KeytabWorks'
      BY <2>4 DEF KeytabWorks
    <3>2. ASSUME NEW d \in Controllers, ~Certified(d) PROVE ~Certified(d)'
      <4>1. d # c
        BY <2>4, <3>2
      <4>. QED  BY <1>1, <3>2, <4>1, OthersKeepTheirs
                DEF TypeInv, SameFor, Certified
    <3>. QED  BY <3>1, <3>2 DEF SomeoneStillTests
  <2>. QED  BY <2>1, <2>2, <2>3, <2>4 DEF KeyAccounted
<1>2. ~Drift /\ ~Reimage
  BY DEF Drift, Reimage
<1>3. CASE AdminSetsOtp \/ UNCHANGED vars
  <2>1. KeytabWorks => KeytabWorks'
    BY <1>3 DEF AdminSetsOtp, vars, host, KeytabWorks, server
  <2>2. ASSUME NEW d \in Controllers, ~Certified(d) PROVE ~Certified(d)'
    BY <1>3, <2>2, EnvironmentKeeps DEF SameFor, Certified
  <2>. QED  BY <2>1, <2>2 DEF SomeoneStillTests
<1>. QED  BY <1>1, <1>2, <1>3 DEF Next

\* However many runs overlap, and whatever fails, crashes or goes unanswered:
\* when all of them end with success the host holds the key the server holds.
\* (Loss of the keytab or of the host itself between runs is excluded: no run
\* is there to notice it.)
THEOREM LostRaceIsReported ==
    ASSUME Faults \cap {"drift", "reimage"} = {}
    PROVE  Spec => []RaceIsReported
<1>. DEFINE Inv == \A c \in Controllers : KeyDecided(c)
<1>1. SomeoneStillTests => RaceIsReported
  BY DEF SomeoneStillTests, RaceIsReported, Certified
<1>2. TypeInv /\ Inv /\ [Next]_vars => Inv'
  BY KeyDecidedStep
<1>3. TypeInv /\ Inv /\ SomeoneStillTests /\ [Next]_vars => SomeoneStillTests'
  BY SomeoneStep
<1>4. Init => Inv /\ SomeoneStillTests
  BY KeyDecidedInit, SomeoneInit
<1>. QED
  <2>. HIDE DEF Inv
  <2>. QED  BY <1>1, <1>2, <1>3, <1>4, TypeInit, TypeStep, PTL DEF Spec

-----------------------------------------------------------------------------
(* The password and the one-time password.                                 *)

\* Where the original password is, when the OTP is one the run generates.
PasswordSaved(c) ==
    (opt[c].otp = "generate" /\ opt[c].cred = "password")
    => /\ pc[c] \in {"test", "uninstall", "prepare", "keytest"} \cup OtpStage
            => orig[c] = "unset"
       /\ pc[c] \in OtpStage => useOtp[c]
       /\ orig[c] = "unset" => password[c] = "admin"
       /\ orig[c] # "unset" => orig[c] = "admin" /\ useOtp[c]
       /\ pc[c] \in {"ok", "failed"} => password[c] = "admin"

LEMMA PasswordSavedActor ==
    ASSUME TypeInv, NEW c \in Controllers, PasswordSaved(c), Controller(c)
    PROVE  PasswordSaved(c)'
<1>. USE DEF TypeInv, TypeOK, PasswordSaved, Then, Goto, Check, Fail,
   AfterFailure, OtpStage, JoinStage, ConfStage, Passwords, facts
<1>1. CASE StartInstall(c)
  BY <1>1 DEF StartInstall, Start, InitialPassword
<1>2. CASE StartUninstall(c)
  BY <1>2 DEF StartUninstall, Start, InitialPassword
<1>3. CASE ClientTest(c)
  BY <1>3 DEF ClientTest
<1>4. CASE Prepare(c)
  BY <1>4 DEF Prepare
<1>5. ASSUME NEW up \in BOOLEAN, TestKeytab(c, up) PROVE PasswordSaved(c)'
  BY <1>5 DEF TestKeytab
<1>6. CASE OtpTemp(c)
  BY <1>6 DEF OtpTemp
<1>7. CASE OtpShow(c)
  BY <1>7 DEF OtpShow
<1>8. CASE OtpAdd(c)
  BY <1>8 DEF OtpAdd, IssueOtp
<1>9. CASE OtpDisable(c)
  BY <1>9 DEF OtpDisable
<1>10. CASE OtpMod(c)
  BY <1>10 DEF OtpMod, IssueOtp
<1>11. CASE OtpStore(c)
  BY <1>11 DEF OtpStore, SaveOriginal
<1>12. CASE OtpCleanup(c)
  BY <1>12 DEF OtpCleanup
<1>13. CASE Creds(c)
  BY <1>13 DEF Creds, SaveOriginal
<1>14. CASE Purge(c)
  BY <1>14 DEF Purge
<1>15. CASE SetHostname(c)
  BY <1>15 DEF SetHostname
<1>16. CASE JoinCa(c)
  BY <1>16 DEF JoinCa
<1>17. CASE JoinServer(c)
  BY <1>17 DEF JoinServer, JoinNewKey, JoinRefused, JoinAlready
<1>18. CASE JoinWrite(c)
  BY <1>18 DEF JoinWrite
<1>19. CASE JoinTgt(c)
  BY <1>19 DEF JoinTgt
<1>20. CASE Gate(c)
  BY <1>20 DEF Gate
<1>21. CASE IpaConf(c) \/ SetupSssd(c) \/ SetupKrb5(c)
  BY <1>21 DEF IpaConf, SetupSssd, SetupKrb5, Writes
<1>22. CASE IpaApi(c) \/ FixCa(c)
  BY <1>22 DEF IpaApi, FixCa
<1>23. CASE SetupNss(c) \/ SetupNssEnd(c)
  BY <1>23 DEF SetupNss, SetupNssEnd
<1>24. CASE SetupSsh(c) \/ SetupNis(c)
  BY <1>24 DEF SetupSsh, SetupNis, Writes
<1>25. CASE Always(c)
  BY <1>25 DEF Always
<1>26. CASE Uninstall(c)
  BY <1>26 DEF Uninstall
<1>27. CASE TaskFails(c)
  BY <1>27 DEF TaskFails
<1>28. CASE Crash(c)
  BY <1>28 DEF Crash
<1>. QED
  BY <1>1, <1>2, <1>3, <1>4, <1>5, <1>6, <1>7, <1>8, <1>9, <1>10, <1>11,
     <1>12, <1>13, <1>14, <1>15, <1>16, <1>17, <1>18, <1>19, <1>20, <1>21,
     <1>22, <1>23, <1>24, <1>25, <1>26, <1>27, <1>28
  DEF Controller, Task, OtpTask, JoinTask, ConfTask, KdcSilent

LEMMA PasswordSavedStep ==
    ASSUME TypeInv, \A c \in Controllers : PasswordSaved(c), [Next]_vars
    PROVE  \A d \in Controllers : PasswordSaved(d)'
<1>. SUFFICES ASSUME NEW d \in Controllers PROVE PasswordSaved(d)'
  OBVIOUS
<1>1. CASE Controller(d)
  BY <1>1, PasswordSavedActor
<1>2. ASSUME NEW c \in Controllers, c # d, Controller(c)
      PROVE  PasswordSaved(d)'
  BY <1>2, OthersKeepTheirs DEF TypeInv, SameFor, PasswordSaved
<1>3. CASE Drift \/ Reimage \/ AdminSetsOtp \/ UNCHANGED vars
  BY <1>3, EnvironmentKeeps DEF SameFor, PasswordSaved
<1>. QED  BY <1>1, <1>2, <1>3 DEF Next


\* A run that generated an OTP gives ipaadmin_password back, whether it ends
\* with success or with a failure, and wherever the failure was.
THEOREM OtpTakenBack == Spec => []GeneratedOtpRestored
<1>. DEFINE Inv == \A c \in Controllers : PasswordSaved(c)
<1>1. Inv => GeneratedOtpRestored
  BY DEF PasswordSaved, GeneratedOtpRestored
<1>2. TypeInv /\ Inv /\ [Next]_vars => Inv'
  BY PasswordSavedStep
<1>3. Init => Inv
  BY DEF Init, PasswordSaved
<1>. QED
  <2>. HIDE DEF Inv
  <2>. QED  BY <1>1, <1>2, <1>3, TypeInit, TypeStep, PTL DEF Spec

\* Which secret ipaadmin_password holds, from the start of a run to the join.
SecretKnown(c) ==
    /\ pc[c] \in {"test", "uninstall", "prepare", "keytest"} \cup OtpStage
         => password[c] \notin Otps
    /\ pc[c] = "keytest" => (useOtp[c] <=> opt[c].otp # "off")
    /\ pc[c] \in OtpStage \cup {"otp_cleanup"}
         => opt[c].otp = "generate" /\ useOtp[c]
    /\ pc[c] = "otp_cleanup" /\ cause[c] = "none" => password[c] \in Otps
    /\ pc[c] = "creds" /\ opt[c].otp # "predefined"
         => (useOtp[c] <=> password[c] \in Otps)
    /\ pc[c] = "creds" /\ opt[c].otp = "predefined"
         => useOtp[c] \/ (tested[c].keytabOk /\ ~opt[c].force)
    /\ pc[c] \in {"purge", "hostname", "join_ca", "join_server"}
         => \/ tested[c].keytabOk /\ ~opt[c].force
            \/ useOtp[c] <=> password[c] \in Otps

LEMMA SecretKnownActor ==
    ASSUME TypeInv, NEW c \in Controllers, KeyDecided(c), SecretKnown(c),
           Controller(c)
    PROVE  SecretKnown(c)'
<1>. USE ConstantsAssumption DEF TypeInv, TypeOK, HandTyped, KeyDecided,
   SecretKnown, Then, Goto, Check, Fail, AfterFailure, OtpStage, JoinStage,
   ConfStage, Causes, facts
<1>1. CASE StartInstall(c)
  BY <1>1 DEF StartInstall, Start, InitialPassword
<1>2. CASE StartUninstall(c)
  BY <1>2 DEF StartUninstall, Start, InitialPassword
<1>3. CASE ClientTest(c)
  BY <1>3 DEF ClientTest
<1>4. CASE Prepare(c)
  BY <1>4 DEF Prepare
<1>5. ASSUME NEW up \in BOOLEAN, TestKeytab(c, up) PROVE SecretKnown(c)'
  <2>1. useOtp'[c] <=> useOtp[c] /\ (~(up /\ KeytabWorks) \/ opt[c].force)
    BY <1>5, Zenon DEF TestKeytab
  <2>2. tested'[c].keytabOk <=> (up /\ KeytabWorks)
    BY <1>5 DEF TestKeytab
  <2>3. /\ pc[c] = "keytest" /\ opt' = opt /\ password' = password
        /\ pc'[c] = IF useOtp'[c] /\ opt[c].otp = "generate" THEN "otp_temp"
                    ELSE "creds"
    BY <1>5 DEF TestKeytab
  <2>4. opt[c].otp \in {"off", "generate", "predefined"}
    BY DEF OptionType
  <2>. HIDE DEF TypeOK, TypeInv, HandTyped
  <2>. QED  BY <2>1, <2>2, <2>3, <2>4
<1>6. CASE OtpTemp(c)
  BY <1>6 DEF OtpTemp
<1>7. CASE OtpShow(c)
  BY <1>7 DEF OtpShow
<1>8. CASE OtpAdd(c)
  BY <1>8 DEF OtpAdd, IssueOtp
<1>9. CASE OtpDisable(c)
  BY <1>9 DEF OtpDisable
<1>10. CASE OtpMod(c)
  BY <1>10 DEF OtpMod, IssueOtp
<1>11. CASE OtpStore(c)
  BY <1>11 DEF OtpStore, SaveOriginal
<1>12. CASE OtpCleanup(c)
  BY <1>12 DEF OtpCleanup
<1>13. CASE Creds(c)
  BY <1>13 DEF Creds, SaveOriginal
<1>14. CASE Purge(c)
  BY <1>14 DEF Purge
<1>15. CASE SetHostname(c)
  BY <1>15 DEF SetHostname
<1>16. CASE JoinCa(c)
  BY <1>16 DEF JoinCa
<1>17. CASE JoinServer(c)
  BY <1>17 DEF JoinServer, JoinNewKey, JoinRefused, JoinAlready
<1>18. CASE JoinWrite(c)
  BY <1>18 DEF JoinWrite
<1>19. CASE JoinTgt(c)
  BY <1>19 DEF JoinTgt
<1>20. CASE Gate(c)
  BY <1>20 DEF Gate
<1>21. CASE IpaConf(c) \/ SetupSssd(c) \/ SetupKrb5(c)
  BY <1>21 DEF IpaConf, SetupSssd, SetupKrb5, Writes
<1>22. CASE IpaApi(c) \/ FixCa(c)
  BY <1>22 DEF IpaApi, FixCa
<1>23. CASE SetupNss(c) \/ SetupNssEnd(c)
  BY <1>23 DEF SetupNss, SetupNssEnd
<1>24. CASE SetupSsh(c) \/ SetupNis(c)
  BY <1>24 DEF SetupSsh, SetupNis, Writes
<1>25. CASE Always(c)
  BY <1>25 DEF Always
<1>26. CASE Uninstall(c)
  BY <1>26 DEF Uninstall
<1>27. CASE TaskFails(c)
  BY <1>27 DEF TaskFails
<1>28. CASE Crash(c)
  BY <1>28 DEF Crash
<1>. QED
  BY <1>1, <1>2, <1>3, <1>4, <1>5, <1>6, <1>7, <1>8, <1>9, <1>10, <1>11,
     <1>12, <1>13, <1>14, <1>15, <1>16, <1>17, <1>18, <1>19, <1>20, <1>21,
     <1>22, <1>23, <1>24, <1>25, <1>26, <1>27, <1>28
  DEF Controller, Task, OtpTask, JoinTask, ConfTask, KdcSilent

LEMMA SecretKnownStep ==
    ASSUME TypeInv, \A c \in Controllers : KeyDecided(c),
           \A c \in Controllers : SecretKnown(c), [Next]_vars
    PROVE  \A d \in Controllers : SecretKnown(d)'
<1>. SUFFICES ASSUME NEW d \in Controllers PROVE SecretKnown(d)'
  OBVIOUS
<1>1. CASE Controller(d)
  BY <1>1, SecretKnownActor
<1>2. ASSUME NEW c \in Controllers, c # d, Controller(c)
      PROVE  SecretKnown(d)'
  BY <1>2, OthersKeepTheirs DEF TypeInv, SameFor, SecretKnown
<1>3. CASE Drift \/ Reimage \/ AdminSetsOtp \/ UNCHANGED vars
  BY <1>3, EnvironmentKeeps DEF SameFor, SecretKnown
<1>. QED  BY <1>1, <1>2, <1>3 DEF Next


\* What ipa-join is given as an OTP is one, and what it is given as the
\* administrator's password is not, for every kind of invocation.
THEOREM OtpIsUsedAsOtp == Spec => []OtpUsedAsOtp
<1>. DEFINE Key == \A c \in Controllers : KeyDecided(c)
            Secret == \A c \in Controllers : SecretKnown(c)
<1>1. Key /\ Secret => OtpUsedAsOtp
  BY DEF KeyDecided, SecretKnown, OtpUsedAsOtp, JoinStage
<1>2. TypeInv /\ Key /\ [Next]_vars => Key'
  BY KeyDecidedStep
<1>3. TypeInv /\ Key /\ Secret /\ [Next]_vars => Secret'
  BY SecretKnownStep
<1>4. Init => Key /\ Secret
  BY KeyDecidedInit, ConstantsAssumption DEF Init, SecretKnown, OtpStage
<1>. QED
  <2>. HIDE DEF Key, Secret
  <2>. QED  BY <1>1, <1>2, <1>3, <1>4, TypeInit, TypeStep, PTL DEF Spec

-----------------------------------------------------------------------------
(* The copy of the administrator's keytab.                                 *)

\* What one step owes the server: who leaves the OTP block leaves no copy.
CopyRemoved(c) ==
    (/\ pc[c] \in OtpStage \cup {"otp_cleanup"}
     /\ pc'[c] \notin OtpStage \cup {"otp_cleanup", "crashed"}
     /\ cause'[c] # "rm_keytab")
    => ~temp'[c]

LEMMA CopyRemovedActor ==
    ASSUME TypeOK, NEW c \in Controllers, Controller(c)
    PROVE  CopyRemoved(c)
<1>. USE DEF TypeOK, CopyRemoved, Then, Goto, Check, Fail, AfterFailure,
   OtpStage, Ended
<1>1. CASE StartInstall(c)
  BY <1>1 DEF StartInstall, Start
<1>2. CASE StartUninstall(c)
  BY <1>2 DEF StartUninstall, Start
<1>3. CASE ClientTest(c)
  BY <1>3 DEF ClientTest
<1>4. CASE Prepare(c)
  BY <1>4 DEF Prepare
<1>5. ASSUME NEW up \in BOOLEAN, TestKeytab(c, up) PROVE CopyRemoved(c)
  BY <1>5 DEF TestKeytab
<1>6. CASE OtpTemp(c)
  BY <1>6 DEF OtpTemp
<1>7. CASE OtpShow(c)
  BY <1>7 DEF OtpShow
<1>8. CASE OtpAdd(c)
  BY <1>8 DEF OtpAdd, IssueOtp
<1>9. CASE OtpDisable(c)
  BY <1>9 DEF OtpDisable
<1>10. CASE OtpMod(c)
  BY <1>10 DEF OtpMod, IssueOtp
<1>11. CASE OtpStore(c)
  BY <1>11 DEF OtpStore
<1>12. CASE OtpCleanup(c)
  BY <1>12 DEF OtpCleanup
<1>13. CASE Creds(c)
  BY <1>13 DEF Creds
<1>14. CASE Purge(c)
  BY <1>14 DEF Purge
<1>15. CASE SetHostname(c)
  BY <1>15 DEF SetHostname
<1>16. CASE JoinCa(c)
  BY <1>16 DEF JoinCa
<1>17. CASE JoinServer(c)
  BY <1>17 DEF JoinServer, JoinNewKey, JoinRefused, JoinAlready
<1>18. CASE JoinWrite(c)
  BY <1>18 DEF JoinWrite
<1>19. CASE JoinTgt(c)
  BY <1>19 DEF JoinTgt
<1>20. CASE Gate(c)
  BY <1>20 DEF Gate
<1>21. CASE IpaConf(c) \/ SetupSssd(c) \/ SetupKrb5(c)
  BY <1>21 DEF IpaConf, SetupSssd, SetupKrb5, Writes
<1>22. CASE IpaApi(c) \/ FixCa(c)
  BY <1>22 DEF IpaApi, FixCa
<1>23. CASE SetupNss(c) \/ SetupNssEnd(c)
  BY <1>23 DEF SetupNss, SetupNssEnd
<1>24. CASE SetupSsh(c) \/ SetupNis(c)
  BY <1>24 DEF SetupSsh, SetupNis, Writes
<1>25. CASE Always(c)
  BY <1>25 DEF Always
<1>26. CASE Uninstall(c)
  BY <1>26 DEF Uninstall
<1>27. CASE TaskFails(c)
  BY <1>27 DEF TaskFails
<1>28. CASE Crash(c)
  BY <1>28 DEF Crash
<1>. QED
  BY <1>1, <1>2, <1>3, <1>4, <1>5, <1>6, <1>7, <1>8, <1>9, <1>10, <1>11,
     <1>12, <1>13, <1>14, <1>15, <1>16, <1>17, <1>18, <1>19, <1>20, <1>21,
     <1>22, <1>23, <1>24, <1>25, <1>26, <1>27, <1>28
  DEF Controller, Task, OtpTask, JoinTask, ConfTask, KdcSilent

\* Whatever fails between the copy of the administrator's keytab to the server
\* and the end of the OTP block, the copy is gone when the block is left;
\* only the death of the process or a failing removal leaves it there.
THEOREM CopyIsRemoved == Spec => KeytabCopyRemoved
<1>1. TypeInv /\ [Next]_vars => [\A c \in Controllers : CopyRemoved(c)]_vars
  <2>. SUFFICES ASSUME TypeInv, Next, NEW d \in Controllers
                PROVE  CopyRemoved(d)
    OBVIOUS
  <2>1. CASE Controller(d)
    BY <2>1, CopyRemovedActor DEF TypeInv
  <2>2. ASSUME NEW c \in Controllers, c # d, Controller(c)
        PROVE  CopyRemoved(d)
    BY <2>2, OthersKeepTheirs DEF TypeInv, SameFor, CopyRemoved
  <2>3. CASE Drift \/ Reimage \/ AdminSetsOtp
    BY <2>3, EnvironmentKeeps DEF SameFor, CopyRemoved
  <2>. QED  BY <2>1, <2>2, <2>3 DEF Next
<1>. QED
  BY <1>1, TypeInit, TypeStep, PTL DEF Spec, KeytabCopyRemoved, CopyRemoved

=============================================================================
