-------------------------- MODULE IpaRecoveryProofs --------------------------
(***************************************************************************)
(* A run with force_join and an administrator's credentials ends with the  *)
(* host joined and configured, whatever earlier runs have left behind:     *)
(* the leads-to OneForceRecovers of IpaEnroll, when a single process at a  *)
(* time targets the host.                                                  *)
(*                                                                         *)
(* The tasks of such a run are numbered in the order of the role.  As long *)
(* as nothing disturbs the run, every task that is executed leads to one   *)
(* with a higher number, and no task of the role fails: what each of them  *)
(* needs is there.  The run goes on, so it gets past the last one.         *)
(***************************************************************************)
EXTENDS IpaOneRunProofs, Naturals

-----------------------------------------------------------------------------
(* The way of a run.                                                       *)

\* The place of a task in the order of the role; 27 is the end.
Rank(l) ==
    CASE l = "test"        -> 0  [] l = "prepare"     -> 1
      [] l = "keytest"     -> 2  [] l = "otp_temp"    -> 3
      [] l = "otp_show"    -> 4  [] l = "otp_add"     -> 5
      [] l = "otp_disable" -> 6  [] l = "otp_mod"     -> 7
      [] l = "otp_store"   -> 8  [] l = "otp_cleanup" -> 9
      [] l = "creds"       -> 10 [] l = "purge"       -> 11
      [] l = "hostname"    -> 12 [] l = "join_ca"     -> 13
      [] l = "join_server" -> 14 [] l = "join_write"  -> 15
      [] l = "join_tgt"    -> 16 [] l = "gate"        -> 17
      [] l = "ipa_conf"    -> 18 [] l = "sssd"        -> 19
      [] l = "krb5"        -> 20 [] l = "api"         -> 21
      [] l = "fix_ca"      -> 22 [] l = "nss"         -> 23
      [] l = "nss_end"     -> 24 [] l = "ssh"         -> 25
      [] l = "nis"         -> 26 [] OTHER             -> 27

LEMMA Ranks ==
    /\ Rank("test") = 0 /\ Rank("prepare") = 1 /\ Rank("keytest") = 2
    /\ Rank("otp_temp") = 3 /\ Rank("otp_show") = 4 /\ Rank("otp_add") = 5
    /\ Rank("otp_disable") = 6 /\ Rank("otp_mod") = 7 /\ Rank("otp_store") = 8
    /\ Rank("otp_cleanup") = 9 /\ Rank("creds") = 10 /\ Rank("purge") = 11
    /\ Rank("hostname") = 12 /\ Rank("join_ca") = 13
    /\ Rank("join_server") = 14 /\ Rank("join_write") = 15
    /\ Rank("join_tgt") = 16 /\ Rank("gate") = 17 /\ Rank("ipa_conf") = 18
    /\ Rank("sssd") = 19 /\ Rank("krb5") = 20 /\ Rank("api") = 21
    /\ Rank("fix_ca") = 22 /\ Rank("nss") = 23 /\ Rank("nss_end") = 24
    /\ Rank("ssh") = 25 /\ Rank("nis") = 26
BY DEF Rank

\* A run that is to recover the host, at one of its tasks, with what the tasks
\* that are still to come need and no invariant of the other modules states.
OnWay(c) ==
    /\ pc[c] \in Block \cup {"test", "otp_cleanup"} /\ cause[c] = "none"
    /\ opt[c].force /\ opt[c].otp # "predefined"
    /\ opt[c].cred \in {"password", "keytab"}
    /\ opt[c].cred = "password" => password[c] # "undefined"
    /\ useOtp[c] /\ pc[c] \notin {"test", "prepare"} => opt[c].otp = "generate"
    /\ pc[c] \in {"join_server", "join_write", "join_tgt", "gate"} \cup ConfStage
       => "ca.crt" \in files
    /\ pc[c] = "join_write" => hand[c] = srvKey
    /\ pc[c] = "join_tgt" => KeytabWorks
    /\ pc[c] \in {"join_tgt", "gate"} => joined[c] = "changed"
    /\ pc[c] \in ConfStage => path[c] = "configured"

Goal(c) == Recovered \/ Disturbed(c)

\* A run that has just started has its credentials.
Fresh(c) == pc[c] = "test" => /\ cause[c] = "none"
                              /\ password[c] = InitialPassword(opt[c])

WayInv == /\ RunInv
          /\ \A c \in Controllers : SecretKnown(c) /\ Fresh(c)

\* A task of the run leads to one that comes later, or the run is at its goal.
Ahead(c) == \/ OnWay(c)' /\ Rank(pc'[c]) > Rank(pc[c])
            \/ Recovered'

LEMMA TaskAdvances ==
    ASSUME WayInv, NEW c \in Controllers, OnWay(c), Task(c) \/ KdcSilent(c)
    PROVE  Ahead(c)
<1>1. /\ TypeInv /\ KeyDecided(c) /\ TicketKept(c) /\ OtpIssued(c)
      /\ KeyGood(c) /\ FilesWritten(c) /\ SecretKnown(c)
  BY DEF WayInv, RunInv
<1>. USE <1>1, Ranks DEF TypeInv, TypeOK, OnWay, Ahead, Then, Goto, Check,
   Fail, Block, OtpStage, JoinStage, ConfStage, host, server, facts, KeytabWorks
<1>2. CASE ClientTest(c)
  BY <1>2 DEF ClientTest, SkipBlock
<1>3. CASE Prepare(c)
  <2>1. useOtp'[c] <=> opt[c].otp # "off"
    BY <1>3, Zenon DEF Prepare
  <2>2. opt[c].otp \in {"off", "generate", "predefined"}
    BY DEF OptionType
  <2>. QED  BY <1>3, <2>1, <2>2 DEF Prepare
<1>4. ASSUME NEW up \in BOOLEAN, TestKeytab(c, up) PROVE Ahead(c)
  BY <1>4 DEF TestKeytab, SecretKnown, OptionType
<1>5. CASE OtpTemp(c)
  BY <1>5 DEF OtpTemp
<1>6. CASE OtpShow(c)
  BY <1>6 DEF OtpShow
<1>7. CASE OtpAdd(c)
  BY <1>7 DEF OtpAdd, IssueOtp, OtpIssued
<1>8. CASE OtpDisable(c)
  BY <1>8 DEF OtpDisable, OtpIssued
<1>9. CASE OtpMod(c)
  BY <1>9 DEF OtpMod, IssueOtp, OtpIssued
<1>10. CASE OtpStore(c)
  BY <1>10, ConstantsAssumption DEF OtpStore, HandTyped
<1>11. CASE OtpCleanup(c)
  BY <1>11 DEF OtpCleanup
<1>12. CASE Creds(c)
  BY <1>12 DEF Creds
<1>13. CASE Purge(c)
  BY <1>13 DEF Purge
<1>14. CASE SetHostname(c)
  BY <1>14 DEF SetHostname
<1>15. CASE JoinCa(c)
  BY <1>15, ConstantsAssumption DEF JoinCa, HostKeytab, AdminKeytab, HasPassword,
     SecretKnown
<1>16. CASE JoinServer(c)
  BY <1>16 DEF JoinServer, JoinNewKey, JoinRefused, JoinAlready, AlreadyJoined,
     OtpIssued
<1>17. CASE JoinWrite(c)
  BY <1>17 DEF JoinWrite, HandTyped
<1>18. CASE JoinTgt(c)
  BY <1>18 DEF JoinTgt
<1>19. CASE Gate(c)
  BY <1>19 DEF Gate, Keeps
<1>20. CASE IpaConf(c) \/ SetupSssd(c) \/ SetupKrb5(c) \/ SetupSsh(c)
  BY <1>20 DEF IpaConf, SetupSssd, SetupKrb5, SetupSsh, Writes
<1>21. CASE IpaApi(c)
  BY <1>21 DEF IpaApi, TicketKept
<1>22. CASE FixCa(c)
  BY <1>22 DEF FixCa
<1>23. CASE SetupNss(c)
  BY <1>23 DEF SetupNss, TicketKept
<1>24. CASE SetupNssEnd(c)
  BY <1>24 DEF SetupNssEnd
<1>25. CASE SetupNis(c)
  <2>1. FilesWritten(c)'
    BY <1>25, FilesWrittenActor DEF Controller, Task, ConfTask
  <2>. QED  BY <1>25, <2>1 DEF SetupNis, Writes, FilesWritten, Recovered
<1>26. CASE Always(c) \/ Uninstall(c)
  BY <1>26 DEF Always, Uninstall
<1>. QED
  BY <1>2, <1>3, <1>4, <1>5, <1>6, <1>7, <1>8, <1>9, <1>10, <1>11, <1>12,
     <1>13, <1>14, <1>15, <1>16, <1>17, <1>18, <1>19, <1>20, <1>21, <1>22,
     <1>23, <1>24, <1>25, <1>26
  DEF Task, OtpTask, JoinTask, ConfTask, KdcSilent

-----------------------------------------------------------------------------
(* The invariant.                                                          *)

LEMMA FreshStep ==
    ASSUME OneController, TypeInv, \A c \in Controllers : Fresh(c), [Next]_vars
    PROVE  \A c \in Controllers : Fresh(c)'
<1>. SUFFICES ASSUME NEW c \in Controllers PROVE Fresh(c)'
  OBVIOUS
<1>. USE DEF TypeInv, TypeOK, Fresh, Goto, Then, Check, Fail
<1>1. CASE StartInstall(c) \/ StartUninstall(c)
  BY <1>1 DEF StartInstall, StartUninstall, Start
<1>2. CASE Task(c) \/ KdcSilent(c)
  BY <1>2 DEF KdcSilent, Task, OtpTask, JoinTask, ConfTask, ClientTest, Prepare,
     TestKeytab, OtpTemp, OtpShow, OtpAdd, OtpDisable, OtpMod, OtpStore,
     OtpCleanup, Creds, Purge, SetHostname, JoinCa, JoinServer, JoinNewKey,
     JoinRefused, JoinAlready, JoinWrite, JoinTgt, Gate, IpaConf, SetupSssd,
     SetupKrb5, SetupSsh, SetupNis, Writes, IpaApi, FixCa, SetupNss, SetupNssEnd,
     Always, Uninstall, AfterFailure
<1>3. CASE TaskFails(c) \/ Crash(c)
  BY <1>3 DEF TaskFails, Crash, AfterFailure, facts
<1>4. CASE Drift \/ Reimage \/ AdminSetsOtp \/ UNCHANGED vars
  BY <1>4 DEF Drift, Reimage, AdminSetsOtp, vars, facts
<1>. QED  BY <1>1, <1>2, <1>3, <1>4 DEF Next, Controller, OneController

LEMMA WayInit == Init => WayInv
<1>. SUFFICES ASSUME Init, NEW c \in Controllers
              PROVE  SecretKnown(c) /\ Fresh(c)
  BY RunInit DEF WayInv
<1>1. pc[c] = "idle"
  BY DEF Init
<1>. QED  BY <1>1 DEF SecretKnown, Fresh, OtpStage

LEMMA WayStep ==
    ASSUME OneController, WayInv, [Next]_vars
    PROVE  WayInv'
<1>1. RunInv'
  BY RunStep DEF WayInv
<1>2. \A c \in Controllers : SecretKnown(c)'
  BY SecretKnownStep DEF WayInv, RunInv
<1>3. \A c \in Controllers : Fresh(c)'
  BY FreshStep DEF WayInv, RunInv
<1>. QED  BY <1>1, <1>2, <1>3 DEF WayInv

\* A run that is on its way stays on it, gets to its goal, or is disturbed: what
\* others do on host and server waits for the end of the run.
LEMMA WayKept ==
    ASSUME OneController, WayInv, NEW c \in Controllers, OnWay(c), [Next]_vars
    PROVE  \/ OnWay(c)' /\ Rank(pc'[c]) >= Rank(pc[c])
           \/ Goal(c)'
<1>1. pc[c] \notin Ended /\ Rank(pc[c]) \in Nat
  BY Ranks DEF OnWay, Ended, Block, OtpStage, JoinStage, ConfStage
<1>2. CASE Task(c) \/ KdcSilent(c)
  <2>1. Ahead(c)
    BY <1>2, TaskAdvances
  <2>2. OnWay(c)' => Rank(pc'[c]) \in Nat
    BY Ranks DEF OnWay, Block, OtpStage, JoinStage, ConfStage
  <2>. QED  BY <1>1, <2>1, <2>2 DEF Ahead, Goal
<1>3. CASE TaskFails(c) \/ Crash(c)
  BY <1>3 DEF TaskFails, Crash, Fail, Goto, Goal, Disturbed, WayInv, RunInv,
     TypeInv, TypeOK
<1>4. ~ (StartInstall(c) \/ StartUninstall(c))
  BY <1>1 DEF StartInstall, StartUninstall, Start
<1>5. ~ (Drift \/ Reimage \/ AdminSetsOtp)
  BY <1>1 DEF Drift, Reimage, AdminSetsOtp, NoRun
<1>6. CASE UNCHANGED vars
  BY <1>1, <1>6 DEF vars, host, server, facts, OnWay, KeytabWorks
<1>. QED
  BY <1>2, <1>3, <1>4, <1>5, <1>6 DEF Next, Controller, OneController

-----------------------------------------------------------------------------
(* The way to the end.                                                     *)

Reached(c, k) == OnWay(c) /\ Rank(pc[c]) >= k

\* A run gets from one task to the next.
LEMMA Climb ==
    ASSUME OneController, NEW c \in Controllers, NEW k \in Nat, NEW l \in Nat,
           l = k + 1
    PROVE  Spec /\ GoesOn => (Reached(c, k) ~> Reached(c, l) \/ Goal(c))
<1>. DEFINE Here == Reached(c, k)
            There == Reached(c, l)
            Runs == []<>(pc[c] \in Ended) \/ []<><<Task(c)>>_vars
<1>1. WayInv /\ [Next]_vars /\ Here => Here' \/ Goal(c)'
  <2>. SUFFICES ASSUME WayInv, [Next]_vars, Here PROVE Here' \/ Goal(c)'
    OBVIOUS
  <2>1. Rank(pc[c]) \in Nat /\ (OnWay(c)' => Rank(pc'[c]) \in Nat)
    BY Ranks DEF Reached, OnWay, Block, OtpStage, JoinStage, ConfStage
  <2>. QED  BY <2>1, WayKept DEF Reached
<1>2. WayInv /\ <<Task(c)>>_vars /\ Here => There' \/ Goal(c)'
  <2>. SUFFICES ASSUME WayInv, Task(c), Here PROVE There' \/ Goal(c)'
    OBVIOUS
  <2>1. Rank(pc[c]) \in Nat /\ (OnWay(c)' => Rank(pc'[c]) \in Nat)
    BY Ranks DEF Reached, OnWay, Block, OtpStage, JoinStage, ConfStage
  <2>. QED  BY <2>1, TaskAdvances DEF Reached, Ahead, Goal
<1>3. Here => ~ (pc[c] \in Ended)
  BY DEF Reached, OnWay, Ended, Block, OtpStage, JoinStage, ConfStage
<1>4. GoesOn => Runs
  BY DEF GoesOn
<1>. HIDE DEF Here, There
<1>5. Spec /\ Runs => (Here ~> There \/ Goal(c))
  BY <1>1, <1>2, <1>3, WayInit, WayStep, PTL DEF Spec
<1>. QED  BY <1>4, <1>5, PTL DEF Here, There

\* A task of the role follows every other one, so a run is past the last of them
\* after as many steps as there are.
LEMMA Arrives ==
    ASSUME OneController, NEW c \in Controllers
    PROVE  Spec /\ GoesOn => (Reached(c, 0) ~> Goal(c))
<1>. DEFINE At(k) == Reached(c, k)
            To(k, l) == Spec /\ GoesOn => (At(k) ~> At(l) \/ Goal(c))
<1>1. \A k, l \in Nat : l = k + 1 => To(k, l)
  BY Climb
<1>. HIDE DEF At, To
<1>2. To(0, 1) /\ To(1, 2) /\ To(2, 3) /\ To(3, 4) /\ To(4, 5) /\ To(5, 6)
      /\ To(6, 7) /\ To(7, 8) /\ To(8, 9)
  BY <1>1
<1>3. To(9, 10) /\ To(10, 11) /\ To(11, 12) /\ To(12, 13) /\ To(13, 14)
      /\ To(14, 15) /\ To(15, 16) /\ To(16, 17) /\ To(17, 18)
  BY <1>1
<1>4. To(18, 19) /\ To(19, 20) /\ To(20, 21) /\ To(21, 22) /\ To(22, 23)
      /\ To(23, 24) /\ To(24, 25) /\ To(25, 26) /\ To(26, 27)
  BY <1>1
<1>5. ~ At(27)
  BY Ranks DEF At, Reached, OnWay, Block, OtpStage, JoinStage, ConfStage
<1>6. To(0, 9)
  BY <1>2, PTL DEF To
<1>7. To(9, 18)
  BY <1>3, PTL DEF To
<1>8. To(18, 27)
  BY <1>4, PTL DEF To
<1>. QED  BY <1>5, <1>6, <1>7, <1>8, PTL DEF To, At

\* With one process at a time: whatever earlier runs, crashes and rebuilds left
\* behind, a run with force_join and an administrator's credentials, if it goes
\* on, ends with the host joined and configured, unless one of its tasks fails or
\* it dies.
THEOREM ForceRecovers ==
    ASSUME OneController
    PROVE  Spec /\ GoesOn => OneForceRecovers
<1>1. ASSUME NEW c \in Controllers
      PROVE  Spec /\ GoesOn => (Recovering(c) ~> Recovered \/ Disturbed(c))
  <2>1. WayInv /\ Recovering(c) => Reached(c, 0)
    BY Ranks DEF WayInv, Fresh, Recovering, InitialPassword, Reached, OnWay,
       Block, JoinStage, ConfStage
  <2>. QED
    BY <2>1, Arrives, WayInit, WayStep, PTL DEF Spec, Goal
<1>. QED  BY <1>1 DEF OneForceRecovers

=============================================================================
