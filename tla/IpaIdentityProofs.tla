-------------------------- MODULE IpaIdentityProofs --------------------------
(***************************************************************************)
(* IpaEnroll implements HostIdentity, for every number of controllers and  *)
(* every choice of keys, invocations and faults.                           *)
(***************************************************************************)
EXTENDS IpaEnrollProofs

-----------------------------------------------------------------------------
(* What a step of one process does to the abstract variables.              *)

LEMMA PhaseTyped ==
    ASSUME NEW c \in Controllers
    PROVE  Phase(c) \in {"out", "open", "claimed", "kept"}
BY DEF Phase

\* Each process has its own phase, force and offer.
LEMMA ActorMoves ==
    ASSUME TypeOK, NEW c \in Controllers, Controller(c)
    PROVE  /\ Phases' = [Phases EXCEPT ![c] = Phase(c)']
           /\ Forced' = [Forced EXCEPT ![c] = opt'[c].force]
           /\ Offers' = [Offers EXCEPT ![c] = Offer(c)']
<1>1. ASSUME NEW d \in Controllers, d # c
      PROVE  /\ Phase(d)' = Phase(d) /\ opt'[d] = opt[d]
             /\ Offer(d)' = Offer(d)
  BY <1>1, OthersKeepTheirs DEF SameFor, Phase, Offer
<1>. QED  BY <1>1 DEF Phases, Forced, Offers

\* A step that leaves its own process's part alone leaves all of them alone.
LEMMA PartKept ==
    ASSUME TypeOK, NEW c \in Controllers, Controller(c),
           Phase(c)' = Phase(c), opt'[c].force = opt[c].force,
           Offer(c)' = Offer(c)
    PROVE  Phases' = Phases /\ Forced' = Forced /\ Offers' = Offers
BY ActorMoves DEF Phases, Forced, Offers

\* If the two keys stay as well, it is a stutter.
LEMMA ActorStutters ==
    ASSUME TypeOK, NEW c \in Controllers, Controller(c),
           keytab' = keytab, srvKey' = srvKey, Phase(c)' = Phase(c),
           opt'[c].force = opt[c].force, Offer(c)' = Offer(c)
    PROVE  UNCHANGED Identity!vars
BY PartKept DEF Identity!vars

\* A step that changes nothing but the phase, to "out".
LEMMA ActorLeaves ==
    ASSUME TypeOK, NEW c \in Controllers, Controller(c),
           keytab' = keytab, srvKey' = srvKey, Phase(c) # "out",
           Phase(c)' = "out", opt'[c].force = opt[c].force,
           Offer(c)' = None
    PROVE  Identity!Leave(c)
<1>1. /\ Phases' = [Phases EXCEPT ![c] = "out"]
      /\ Forced' = Forced /\ Offers' = [Offers EXCEPT ![c] = None]
  BY ActorMoves DEF Forced, Offers
<1>. QED  BY <1>1 DEF Identity!Leave, Phases

-----------------------------------------------------------------------------
(* Tasks that have nothing to do with the identity.                        *)

\* Such a task leaves both keys alone, and its process stays in its phase or
\* ends its business with the identity.
QuietFor(c) ==
    /\ keytab' = keytab /\ srvKey' = srvKey /\ opt'[c] = opt[c]
    /\ Offer(c) = None /\ Offer(c)' = None
    /\ Phase(c)' = Phase(c) \/ (Phase(c) # "out" /\ Phase(c)' = "out")

LEMMA QuietSteps ==
    ASSUME TypeOK, NEW c \in Controllers, Controller(c), QuietFor(c)
    PROVE  UNCHANGED Identity!vars \/ Identity!Leave(c)
BY ActorStutters, ActorLeaves DEF QuietFor

LEMMA QuietTasks ==
    ASSUME TypeOK, NEW c \in Controllers,
           \/ Prepare(c) \/ OtpTemp(c) \/ OtpShow(c) \/ OtpAdd(c)
           \/ OtpMod(c) \/ OtpStore(c) \/ OtpCleanup(c) \/ Creds(c)
           \/ SetHostname(c) \/ JoinCa(c) \/ JoinTgt(c) \/ Gate(c)
           \/ ConfTask(c) \/ Always(c)
    PROVE  QuietFor(c)
<1>. USE DEF TypeOK, QuietFor, Phase, Offer, Then, Goto, Check, Fail,
   AfterFailure, OtpStage, Ended, host, server, facts
<1>1. CASE Prepare(c)
  BY <1>1 DEF Prepare
<1>2. CASE OtpTemp(c) \/ OtpShow(c) \/ OtpCleanup(c)
  BY <1>2 DEF OtpTemp, OtpShow, OtpCleanup
<1>3. CASE OtpAdd(c)
  BY <1>3 DEF OtpAdd
<1>4. CASE OtpMod(c)
  BY <1>4 DEF OtpMod
<1>5. CASE OtpStore(c)
  BY <1>5 DEF OtpStore
<1>6. CASE Creds(c)
  BY <1>6 DEF Creds
<1>7. CASE SetHostname(c)
  BY <1>7 DEF SetHostname
<1>8. CASE JoinCa(c) \/ JoinTgt(c)
  BY <1>8 DEF JoinCa, JoinTgt
<1>9. CASE Gate(c)
  BY <1>9 DEF Gate
<1>10. CASE IpaConf(c) \/ SetupSssd(c) \/ SetupKrb5(c) \/ SetupSsh(c)
            \/ SetupNis(c)
  BY <1>10 DEF IpaConf, SetupSssd, SetupKrb5, SetupSsh, SetupNis, Writes
<1>11. CASE IpaApi(c) \/ FixCa(c) \/ SetupNss(c) \/ SetupNssEnd(c)
  BY <1>11 DEF IpaApi, FixCa, SetupNss, SetupNssEnd
<1>12. CASE Always(c)
  BY <1>12 DEF Always
<1>. QED  BY <1>1, <1>2, <1>3, <1>4, <1>5, <1>6, <1>7, <1>8, <1>9, <1>10,
             <1>11, <1>12 DEF ConfTask

-----------------------------------------------------------------------------
(* The steps that are about the identity, one abstract action for each.    *)

\* What the abstract variables of one process are, before and after.
LEMMA AbstractPart ==
    ASSUME TypeOK, NEW c \in Controllers
    PROVE  /\ Phases[c] = Phase(c) /\ Forced[c] = opt[c].force
           /\ Offers[c] = Offer(c) /\ Forced[c] \in BOOLEAN
BY DEF Phases, Forced, Offers, TypeOK, OptionType

LEMMA StartEnters ==
    ASSUME TypeOK, NEW c \in Controllers, Controller(c),
           StartInstall(c) \/ StartUninstall(c), opt' \in [Controllers -> OptionType]
    PROVE  Identity!Enter(c)
<1>1. /\ Phase(c) = "out" /\ Phase(c)' = "open"
      /\ Offer(c) = None /\ Offer(c)' = None
      /\ keytab' = keytab /\ srvKey' = srvKey
  BY DEF TypeOK, StartInstall, StartUninstall, Start, Goto, Phase, Offer,
     Ended, host, server
<1>2. opt'[c].force \in BOOLEAN
  BY DEF OptionType
<1>3. Offers' = Offers
  BY <1>1, ActorMoves DEF Offers
<1>. QED
  BY <1>1, <1>2, <1>3, ActorMoves, AbstractPart DEF Identity!Enter, Identity!Move

LEMMA ClientTestMapped ==
    ASSUME TypeOK, NEW c \in Controllers, Controller(c), ClientTest(c)
    PROVE  \/ UNCHANGED Identity!vars \/ Identity!Leave(c)
           \/ Identity!DropUnreadable(c)
<1>1. /\ Phase(c) = "open" /\ Phase(c)' \in {"open", "out"}
      /\ Offer(c) = None /\ Offer(c)' = None
      /\ srvKey' = srvKey /\ opt'[c].force = opt[c].force
  BY DEF TypeOK, ClientTest, Then, Goto, Phase, Offer, Ended, server
<1>2. CASE keytab' = keytab
  BY <1>1, <1>2, ActorStutters, ActorLeaves
<1>3. CASE keytab = Garbled /\ keytab' = None
  <2>1. Offers' = Offers /\ Forced' = Forced
    BY <1>1, ActorMoves DEF Offers, Forced
  <2>2. Phases' = Phases \/ Phases' = [Phases EXCEPT ![c] = "out"]
    BY <1>1, ActorMoves DEF Phases
  <2>. QED
    BY <1>1, <1>3, <2>1, <2>2, AbstractPart
    DEF Identity!DropUnreadable, Identity!Move
<1>. QED  BY <1>2, <1>3 DEF ClientTest, RemoveInvalidKeytab

\* The test of the keytab is the claim, or the decision to keep the key.
LEMMA TestMapped ==
    ASSUME TypeOK, NEW c \in Controllers, Controller(c),
           NEW up \in BOOLEAN, TestKeytab(c, up), up \/ "kdc" \in Faults
    PROVE  Identity!Claim(c) \/ Identity!Keep(c)
<1>1. /\ Phase(c) = "open" /\ Offer(c) = None /\ Offer(c)' = None
      /\ keytab' = keytab /\ srvKey' = srvKey /\ opt' = opt
      /\ Phase(c)' = IF opt[c].force \/ ~(up /\ KeytabWorks)
                     THEN "claimed" ELSE "kept"
  BY DEF TypeOK, TestKeytab, Then, Goto, Phase, Offer, Ended, OtpStage, server
<1>2. Offers' = Offers /\ Forced' = Forced
  BY <1>1, ActorMoves DEF Offers, Forced
<1>3. CASE opt[c].force \/ ~(up /\ KeytabWorks)
  BY <1>1, <1>2, <1>3, ActorMoves, AbstractPart
  DEF Identity!Claim, Identity!Move, Identity!Works, KeytabWorks
<1>4. CASE ~opt[c].force /\ up /\ KeytabWorks
  BY <1>1, <1>2, <1>4, ActorMoves, AbstractPart
  DEF Identity!Keep, Identity!Move, Identity!Works, KeytabWorks
<1>. QED  BY <1>3, <1>4

\* The tasks that may change a key are reached by a run with a claim.
LEMMA ClaimHeld ==
    ASSUME TypeOK, NEW c \in Controllers, KeyDecided(c),
           \/ pc[c] \in OtpStage \cup JoinStage
           \/ pc[c] = "purge" /\ (useOtp[c] \/ opt[c].force)
    PROVE  Phase(c) = "claimed"
BY DEF TypeOK, TestResult, OptionType, KeyDecided, Phase, OtpStage, JoinStage,
   Ended

LEMMA DisableRevokes ==
    ASSUME TypeOK, NEW c \in Controllers, Controller(c), KeyDecided(c),
           OtpDisable(c)
    PROVE  Identity!Revoke(c)
<1>1. Phase(c) = "claimed" /\ Phase(c)' = "claimed"
  BY ClaimHeld DEF TypeOK, OtpDisable, Check, Then, Fail, Goto, AfterFailure,
     OtpStage, Phase, Ended, facts
<1>2. /\ Offer(c) = None /\ Offer(c)' = None /\ keytab' = keytab
      /\ srvKey' = None /\ opt' = opt
  BY DEF TypeOK, OtpDisable, Check, Then, Fail, Goto, AfterFailure,
     OtpStage, Offer, host, facts
<1>3. Phases' = Phases /\ Forced' = Forced /\ Offers' = Offers
  BY <1>1, <1>2, PartKept
<1>. QED  BY <1>1, <1>2, <1>3, AbstractPart DEF Identity!Revoke

LEMMA PurgeMapped ==
    ASSUME TypeOK, NEW c \in Controllers, Controller(c), KeyDecided(c), Purge(c)
    PROVE  UNCHANGED Identity!vars \/ Identity!Purge(c)
<1>1. /\ Phase(c)' = Phase(c) /\ Offer(c) = None /\ Offer(c)' = None
      /\ srvKey' = srvKey /\ opt' = opt
  BY DEF TypeOK, Purge, Then, Goto, Phase, Offer, Ended, server, facts
<1>2. CASE useOtp[c] \/ opt[c].force
  <2>1. Phase(c) = "claimed" /\ keytab' = None
    BY <1>2, ClaimHeld DEF Purge
  <2>2. Phases' = Phases /\ Forced' = Forced /\ Offers' = Offers
    BY <1>1, PartKept
  <2>. QED  BY <1>1, <2>1, <2>2, AbstractPart DEF Identity!Purge
<1>3. CASE ~(useOtp[c] \/ opt[c].force)
  BY <1>1, <1>3, ActorStutters DEF Purge
<1>. QED  BY <1>2, <1>3

\* ipa-join: a key is issued, or nothing is; then it is written.
LEMMA JoinServerMapped ==
    ASSUME TypeInv, NEW c \in Controllers, Controller(c), KeyDecided(c),
           JoinServer(c)
    PROVE  \/ UNCHANGED Identity!vars \/ Identity!Leave(c)
           \/ Identity!Issue(c)
<1>. USE DEF TypeInv, TypeOK
<1>1. /\ Phase(c) = "claimed" /\ Offer(c) = None
      /\ keytab' = keytab /\ opt' = opt /\ tested' = tested
  BY ClaimHeld DEF JoinServer, JoinStage, Offer, host
<1>2. CASE JoinNewKey(c)
  <2>1. /\ pc'[c] = "join_write" /\ hand'[c] = srvKey'
        /\ srvKey' \in Keys \ {keytab, srvKey}
    BY <1>2 DEF JoinNewKey, FreshKey, Then, Goto
  <2>2. Phase(c)' = Phase(c) /\ Offer(c)' = srvKey'
    BY <1>1, <2>1 DEF Phase, Offer, Ended
  <2>3. Phases' = Phases /\ Forced' = Forced
    <3>1. /\ Phases' = [Phases EXCEPT ![c] = Phase(c)]
          /\ Forced' = [Forced EXCEPT ![c] = opt[c].force]
      BY <1>1, <2>2, ActorMoves
    <3>. QED  BY <3>1 DEF Phases, Forced
  <2>4. Offers' = [Offers EXCEPT ![c] = srvKey']
    BY <2>2, ActorMoves
  <2>. QED  BY <1>1, <2>1, <2>3, <2>4, AbstractPart DEF Identity!Issue
<1>3. CASE JoinRefused(c) \/ JoinAlready(c)
  <2>1. pc'[c] \in {"always", "join_tgt"} /\ srvKey' = srvKey
    BY <1>3 DEF JoinServer, JoinRefused, JoinAlready, Check, Fail, Then, Goto,
       AfterFailure, OtpStage
  <2>2. Offer(c)' = None /\ (Phase(c)' = Phase(c) \/ Phase(c)' = "out")
    BY <1>1, <2>1 DEF Phase, Offer, Ended
  <2>. QED  BY <1>1, <2>1, <2>2, ActorStutters, ActorLeaves
<1>. QED  BY <1>2, <1>3 DEF JoinServer

LEMMA JoinWriteInstalls ==
    ASSUME TypeInv, NEW c \in Controllers, Controller(c), KeyDecided(c),
           JoinWrite(c)
    PROVE  Identity!Install(c)
<1>. USE DEF TypeInv, TypeOK
<1>1. /\ Phase(c) = "claimed" /\ Offer(c) = hand[c] /\ hand[c] # None
      /\ keytab' = Offer(c) /\ srvKey' = srvKey /\ opt' = opt
      /\ tested' = tested /\ pc'[c] = "join_tgt"
  BY ClaimHeld, ConstantsAssumption
  DEF JoinWrite, JoinStage, Offer, HandTyped, Then, Goto, server
<1>2. Phase(c)' = Phase(c) /\ Offer(c)' = None
  BY <1>1 DEF Phase, Offer, Ended
<1>3. /\ Phases' = Phases /\ Forced' = Forced
      /\ Offers' = [Offers EXCEPT ![c] = None]
  BY <1>1, <1>2, ActorMoves DEF Phases, Forced
<1>. QED  BY <1>1, <1>3, AbstractPart DEF Identity!Install

LEMMA UninstallMapped ==
    ASSUME TypeOK, NEW c \in Controllers, Controller(c), Uninstall(c)
    PROVE  Identity!Leave(c) \/ Identity!Withdraw(c)
<1>1. /\ Phase(c) = "open" /\ Phase(c)' = "out"
      /\ Offer(c) = None /\ Offer(c)' = None /\ opt' = opt
  BY DEF TypeOK, Uninstall, Then, Goto, Phase, Offer, Ended
<1>2. CASE keytab' = keytab /\ srvKey' = srvKey
  BY <1>1, <1>2, ActorLeaves
<1>3. CASE keytab' = None /\ srvKey' \in {srvKey, None}
  <2>1. Forced' = Forced /\ Offers' = Offers
    BY <1>1, ActorMoves DEF Forced, Offers
  <2>. QED
    BY <1>1, <1>3, <2>1, ActorMoves, AbstractPart
    DEF Identity!Withdraw, Identity!Move
<1>. QED  BY <1>2, <1>3 DEF Uninstall

LEMMA FailureMapped ==
    ASSUME TypeOK, NEW c \in Controllers, Controller(c), TaskFails(c)
    PROVE  \/ UNCHANGED Identity!vars \/ Identity!Leave(c)
           \/ Identity!DropUnreadable(c)
<1>1. /\ srvKey' = srvKey /\ opt' = opt /\ tested' = tested
      /\ pc'[c] = AfterFailure(pc[c]) /\ pc[c] \notin Ended \cup {"always"}
  BY DEF TypeOK, TaskFails, Fail, Goto, server, facts
<1>2. /\ Offer(c)' = None
      /\ \/ Phase(c) # "out" /\ Phase(c)' = "out"
         \/ Phase(c)' = Phase(c) /\ Offer(c) = None
  BY <1>1 DEF AfterFailure, Phase, Offer, Ended, OtpStage
<1>3. CASE keytab' = keytab
  BY <1>1, <1>2, <1>3, ActorStutters, ActorLeaves
<1>4. CASE pc[c] = "test" /\ keytab = Garbled /\ keytab' = None
  <2>1. /\ Phase(c) = "open" /\ Phase(c)' = "out" /\ Offer(c) = None
    BY <1>1, <1>4 DEF AfterFailure, Phase, Offer, Ended, OtpStage
  <2>2. Forced' = Forced /\ Offers' = Offers
    BY <1>1, <1>2, <2>1, ActorMoves DEF Forced, Offers
  <2>. QED
    BY <1>1, <1>4, <2>1, <2>2, ActorMoves, AbstractPart
    DEF Identity!DropUnreadable, Identity!Move
<1>. QED  BY <1>3, <1>4 DEF TaskFails, RemoveInvalidKeytab

LEMMA CrashMapped ==
    ASSUME TypeInv, NEW c \in Controllers, Controller(c), KeyDecided(c), Crash(c)
    PROVE  UNCHANGED Identity!vars \/ Identity!Leave(c)
<1>. USE DEF TypeInv, TypeOK
<1>1. /\ srvKey' = srvKey /\ opt' = opt /\ Phase(c)' = "out"
      /\ Offer(c)' = None
  BY DEF Crash, Goto, Phase, Offer, Ended, server, facts
<1>2. CASE pc[c] = "always"
  <2>1. Phase(c) = "out" /\ Offer(c) = None /\ keytab' = keytab
    BY <1>2 DEF Crash, Phase, Offer
  <2>. QED  BY <1>1, <2>1, ActorStutters
<1>3. CASE pc[c] # "always" /\ keytab' = keytab
  <2>1. Phase(c) # "out"
    BY <1>3 DEF Crash, Phase
  <2>. QED  BY <1>1, <1>3, <2>1, ActorLeaves
<1>4. CASE pc[c] = "join_write" /\ keytab' = Garbled
  <2>1. Phase(c) = "claimed" /\ Offer(c) # None
    BY <1>4, ClaimHeld, ConstantsAssumption DEF JoinStage, Offer, HandTyped
  <2>2. /\ Phases' = [Phases EXCEPT ![c] = "out"] /\ Forced' = Forced
        /\ Offers' = [Offers EXCEPT ![c] = None]
    BY <1>1, ActorMoves DEF Forced
  <2>. QED  BY <1>1, <1>4, <2>1, <2>2, AbstractPart DEF Identity!Leave
<1>. QED  BY <1>2, <1>3, <1>4 DEF Crash

-----------------------------------------------------------------------------
(* The refinement.                                                         *)

LEMMA ActorImplements ==
    ASSUME TypeInv, NEW c \in Controllers, KeyDecided(c), Controller(c)
    PROVE  UNCHANGED Identity!vars \/ Identity!Run(c)
<1>. USE DEF Identity!Run
<1>1. CASE StartInstall(c) \/ StartUninstall(c)
  BY <1>1, StartEnters, TypeStep DEF TypeInv, TypeOK, Next
<1>2. CASE ClientTest(c)
  BY <1>2, ClientTestMapped DEF TypeInv
<1>3. CASE TestKeytab(c, TRUE) \/ KdcSilent(c)
  BY <1>3, TestMapped DEF TypeInv, KdcSilent
<1>4. CASE OtpTask(c)
  BY <1>4, DisableRevokes, QuietTasks, QuietSteps DEF TypeInv, OtpTask
<1>5. CASE Purge(c)
  BY <1>5, PurgeMapped DEF TypeInv
<1>6. CASE JoinTask(c)
  BY <1>6, JoinServerMapped, JoinWriteInstalls, QuietTasks, QuietSteps
  DEF TypeInv, JoinTask
<1>7. CASE Prepare(c) \/ Creds(c) \/ SetHostname(c) \/ Gate(c) \/ ConfTask(c)
           \/ Always(c)
  BY <1>7, QuietTasks, QuietSteps DEF TypeInv
<1>8. CASE Uninstall(c)
  BY <1>8, UninstallMapped DEF TypeInv
<1>9. CASE TaskFails(c)
  BY <1>9, FailureMapped DEF TypeInv
<1>10. CASE Crash(c)
  BY <1>10, CrashMapped
<1>. QED
  BY <1>1, <1>2, <1>3, <1>4, <1>5, <1>6, <1>7, <1>8, <1>9, <1>10
  DEF Controller, Task

\* What happens between runs is the loss of the key, or nothing.
LEMMA EnvironmentImplements ==
    ASSUME TypeOK, Drift \/ Reimage \/ AdminSetsOtp \/ UNCHANGED vars
    PROVE  UNCHANGED Identity!vars \/ Identity!Lose
<1>1. /\ Phases' = Phases /\ Forced' = Forced /\ Offers' = Offers
      /\ srvKey' = srvKey
  <2>1. ASSUME NEW d \in Controllers
        PROVE  /\ Phase(d)' = Phase(d) /\ opt'[d] = opt[d]
               /\ Offer(d)' = Offer(d)
    BY <2>1, EnvironmentKeeps DEF SameFor, Phase, Offer
  <2>. QED
    BY <2>1 DEF Phases, Forced, Offers, Drift, Reimage, AdminSetsOtp, vars,
       server
<1>2. CASE keytab' = keytab
  BY <1>1, <1>2 DEF Identity!vars
<1>3. CASE keytab' = None /\ (Drift \/ Reimage)
  <2>1. \A d \in Controllers : Phases[d] = "out"
    BY <1>3 DEF Drift, Reimage, NoRun, Phases, Phase
  <2>2. Faults \cap {"drift", "reimage"} # {}
    BY <1>3 DEF Drift, Reimage
  <2>. QED  BY <1>1, <1>3, <2>1, <2>2 DEF Identity!Lose
<1>. QED
  BY <1>2, <1>3 DEF Drift, Reimage, AdminSetsOtp, vars, host

\* The enrolment role keeps the promise of HostIdentity: whatever the one-time
\* passwords, the credentials, the failures and the number of processes, the
\* host's key is revoked, purged and replaced only by a run that claimed it
\* because it was told to or because the key did not work.
THEOREM IdentityImplemented == Spec => IdentityPromised
<1>. DEFINE Inv == TypeInv /\ \A c \in Controllers : KeyDecided(c)
<1>1. Init => Identity!Init
  <2>. SUFFICES ASSUME Init PROVE Identity!Init
    OBVIOUS
  <2>1. \A c \in Controllers : /\ Phase(c) = "out" /\ Offer(c) = None
                              /\ opt[c].force = FALSE
    BY DEF Init, Phase, Offer, Ended
  <2>. QED  BY <2>1 DEF Init, Identity!Init, Phases, Forced, Offers
<1>2. Inv /\ [Next]_vars => [Identity!Next]_Identity!vars
  BY ActorImplements, EnvironmentImplements DEF Next, Identity!Next, TypeInv
<1>3. Inv /\ [Next]_vars => Inv'
  BY TypeStep, KeyDecidedStep
<1>4. Init => Inv
  BY TypeInit, KeyDecidedInit
<1>. QED
  <2>. HIDE DEF Inv
  <2>. QED  BY <1>1, <1>2, <1>3, <1>4, PTL DEF Spec, IdentityPromised, Identity!Spec

=============================================================================
