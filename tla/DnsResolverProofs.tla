-------------------------- MODULE DnsResolverProofs --------------------------
(***************************************************************************)
(* Proofs about DnsResolver: with any faults, what the file store holds;   *)
(* without them, what a successful run means.                              *)
(***************************************************************************)
EXTENDS DnsResolver, TLAPS

-----------------------------------------------------------------------------
(* Typing.                                                                 *)

LEMMA ReadTyped == \A f : Read(f) \in Servers \cup {None}
BY DEF Read

\* A run that configures was called with servers.
Called == pc \in {"backup", "write_rd", "reload_rd", "nm", "reload_nm"}
              => want \in Servers

TypeInv == TypeOK /\ Called

LEMMA TypeInit == Init => TypeInv
BY DEF Init, TypeInv, TypeOK, Called

LEMMA TypeStep == TypeInv /\ [Next]_vars => TypeInv'
<1>. SUFFICES ASSUME TypeInv, [Next]_vars PROVE TypeInv'
  OBVIOUS
<1>. USE ReadTyped DEF TypeInv, TypeOK, Called, files, daemons, run
<1>1. CASE Configure
  <2>1. CASE CallPresent
    BY <2>1 DEF CallPresent
  <2>2. CASE Backup
    BY <2>2 DEF Backup
  <2>3. CASE WriteRd
    BY <2>3 DEF WriteRd
  <2>4. CASE ReloadResolved
    BY <2>4 DEF ReloadResolved, ReloadRd
  <2>5. CASE WriteNm
    BY <2>5 DEF WriteNm, Goto, Success
  <2>6. CASE ReloadNetworkManager
    BY <2>6 DEF ReloadNetworkManager, ReloadNm, Generated, Success
  <2>7. CASE WriteResolvConf
    BY <2>7 DEF WriteResolvConf, Success
  <2>. QED  BY <1>1, <2>1, <2>2, <2>3, <2>4, <2>5, <2>6, <2>7 DEF Configure
<1>2. CASE Unconfigure
  <2>1. CASE Uninstall
    BY <2>1 DEF Uninstall, RestoreResolvConf
  <2>2. CASE Restore
    BY <2>2 DEF Restore, RestoreResolvConf, Goto
  <2>3. CASE UnlinkNm
    BY <2>3 DEF UnlinkNm, Goto
  <2>4. CASE ForgetNm
    BY <2>4 DEF ForgetNm, ReloadNm, Generated, Goto
  <2>5. CASE UnlinkRd
    BY <2>5 DEF UnlinkRd, Goto, Success
  <2>6. CASE ForgetRd
    BY <2>6 DEF ForgetRd, ReloadRd, Success
  <2>. QED  BY <1>2, <2>1, <2>2, <2>3, <2>4, <2>5, <2>6 DEF Unconfigure
<1>3. CASE Crash
  BY <1>3 DEF Crash
<1>4. CASE Refresh
  BY <1>4 DEF Refresh, Generated
<1>5. CASE Reboot
  BY <1>5 DEF Reboot, ReloadNm, ReloadRd, Generated
<1>6. CASE UNCHANGED vars
  BY <1>6 DEF vars
<1>. QED  BY <1>1, <1>2, <1>3, <1>4, <1>5, <1>6 DEF Next

\* Every variable keeps its type.
THEOREM Typing == Spec => []TypeOK
<1>1. TypeInv => TypeOK
  BY DEF TypeInv
<1>. QED  BY <1>1, TypeInit, TypeStep, PTL DEF Spec

-----------------------------------------------------------------------------
(* The file store.                                                         *)

\* Without NetworkManager: whenever nothing is saved /etc/resolv.conf is the
\* original, and it is written only after it was saved.
SavedFirst ==
    ~ env.nm => /\ backup \in {None, Original}
                /\ backup = None => resolvConf = Original
                /\ pc \in {"write_rd", "reload_rd", "nm"} => backup = Original
                /\ pc \notin {"reload_nm", "forget_nm"}

LEMMA SavedFirstStep == SavedFirst /\ [Next]_vars => SavedFirst'
<1>. SUFFICES ASSUME SavedFirst, [Next]_vars PROVE SavedFirst'
  OBVIOUS
<1>. USE ContentsAssumption DEF SavedFirst, files, daemons
<1>1. CASE CallPresent
  BY <1>1 DEF CallPresent
<1>2. CASE Backup
  BY <1>2 DEF Backup
<1>3. CASE WriteRd \/ ReloadResolved
  BY <1>3 DEF WriteRd, ReloadResolved
<1>4. CASE WriteNm \/ ReloadNetworkManager \/ WriteResolvConf
  BY <1>4 DEF WriteNm, ReloadNetworkManager, WriteResolvConf, ReloadNm, Goto,
     Success
<1>5. CASE Uninstall \/ Restore
  BY <1>5 DEF Uninstall, Restore, RestoreResolvConf, Goto
<1>6. CASE UnlinkNm \/ ForgetNm \/ UnlinkRd \/ ForgetRd
  BY <1>6 DEF UnlinkNm, ForgetNm, UnlinkRd, ForgetRd, ReloadNm, Goto, Success
<1>7. CASE Crash \/ Refresh \/ Reboot \/ UNCHANGED vars
  BY <1>7 DEF Crash, Refresh, Reboot, ReloadNm, vars
<1>. QED  BY <1>1, <1>2, <1>3, <1>4, <1>5, <1>6, <1>7
          DEF Next, Configure, Unconfigure

\* The file store holds only the original, whatever dies when.
THEOREM OriginalIsSaved == Spec => []BackupIsOriginal
<1>1. Init => SavedFirst
  BY DEF Init, SavedFirst
<1>2. SavedFirst /\ [Next]_vars => SavedFirst'
  BY SavedFirstStep
<1>3. SavedFirst => BackupIsOriginal
  BY DEF SavedFirst, BackupIsOriginal
<1>. QED  BY <1>1, <1>2, <1>3, PTL DEF Spec

-----------------------------------------------------------------------------
(* Runs that do not die.                                                   *)

\* A daemon knows its file, except between a write and the reload after it.
DaemonsFollow ==
    /\ ~ env.nm => nmConf = None
    /\ ~ env.link => rdConf = None
    /\ nmConf \in Servers \cup {None} /\ rdConf \in Servers \cup {None}
    /\ pc \notin {"reload_nm", "forget_nm"} => nmLoaded = nmConf
    /\ pc \notin {"reload_rd", "forget_rd"} =>
           rdLoaded = IF env.unit THEN rdConf ELSE None
    /\ pc \in {"reload_rd", "forget_rd"} => env.unit
    /\ pc \in {"reload_nm", "forget_nm"} => env.nm
    /\ pc = "reload_nm" => nmConf # None

\* Where NetworkManager writes /etc/resolv.conf: what is there without its file.
NetworkServers ==
    env.nm /\ ~ env.link /\ nmConf = None /\ pc # "forget_nm"
        => resolvConf = Original /\ backup \in {None, Original}

\* What a first configuration has written so far.
WrittenSoFar ==
    /\ pc \in {"backup", "write_rd", "reload_rd", "nm", "reload_nm"}
           => want \in Servers
    /\ ~ found /\ pc \in {"backup", "write_rd"} => nmConf = None /\ rdConf = None
    /\ ~ found /\ pc = "reload_rd" => nmConf = None /\ rdConf = want
    /\ ~ found /\ pc = "nm" => /\ nmConf = None
                               /\ env.link => rdConf = want
    /\ ~ found /\ pc = "reload_nm" => /\ nmConf = want
                                      /\ env.link => rdConf = want
    /\ ~ found /\ done = "present" =>
           /\ want \in Servers
           /\ env.nm => nmConf = want
           /\ env.link => rdConf = want
           /\ ~ env.link => resolvConf = want

\* What the cleanup has removed so far.
RemovedSoFar ==
    /\ pc \in {"unlink_nm", "forget_nm", "unlink_rd", "forget_rd"}
           => backup = None
    /\ pc \in {"forget_nm", "unlink_rd", "forget_rd"} => nmConf = None
    /\ pc = "forget_rd" => rdConf = None
    /\ done = "absent" => backup = None /\ nmConf = None /\ rdConf = None

Progress ==
    /\ SavedFirst
    /\ DaemonsFollow /\ NetworkServers /\ WrittenSoFar /\ RemovedSoFar
    /\ done # "none" => pc = "idle"
    /\ pc \in {"write_rd", "reload_rd"} => env.link

LEMMA ProgressInit == Init => Progress
BY DEF Init, Progress, TypeOK, SavedFirst, DaemonsFollow, NetworkServers,
   WrittenSoFar, RemovedSoFar, Environment

LEMMA ProgressStep == env.calm /\ Progress /\ [Next]_vars => Progress'
<1>. SUFFICES ASSUME env.calm, Progress, [Next]_vars PROVE Progress'
  OBVIOUS
<1>1. SavedFirst'
  BY SavedFirstStep DEF Progress
<1>. USE ContentsAssumption
     DEF Progress, SavedFirst, DaemonsFollow, NetworkServers, WrittenSoFar,
         RemovedSoFar, files, daemons, run
<1>2. CASE CallPresent
  BY <1>2 DEF CallPresent
<1>3. CASE Backup
  BY <1>3 DEF Backup
<1>4. CASE WriteRd
  BY <1>4 DEF WriteRd
<1>5. CASE ReloadResolved
  BY <1>5 DEF ReloadResolved, ReloadRd, Read
<1>6. CASE WriteNm
  BY <1>6 DEF WriteNm, Goto, Success
<1>7. CASE ReloadNetworkManager
  BY <1>7 DEF ReloadNetworkManager, ReloadNm, Read, Generated, Success
<1>8. CASE WriteResolvConf
  BY <1>8 DEF WriteResolvConf, Success
<1>9. CASE Uninstall
  BY <1>9 DEF Uninstall, RestoreResolvConf
<1>10. CASE Restore
  BY <1>10 DEF Restore, RestoreResolvConf, Goto
<1>11. CASE UnlinkNm
  BY <1>11 DEF UnlinkNm, Goto
<1>12. CASE ForgetNm
  BY <1>12 DEF ForgetNm, ReloadNm, Read, Generated, Goto
<1>13. CASE UnlinkRd
  BY <1>13 DEF UnlinkRd, Goto, Success
<1>14. CASE ForgetRd
  BY <1>14 DEF ForgetRd, ReloadRd, Read, Success
<1>15. CASE Refresh
  BY <1>15 DEF Refresh, Generated
<1>r. CASE Reboot
  BY <1>r DEF Reboot, ReloadNm, ReloadRd, Read, Generated
<1>16. CASE UNCHANGED vars
  BY <1>16 DEF vars
<1>. QED  BY <1>2, <1>3, <1>4, <1>5, <1>6, <1>7, <1>8, <1>9, <1>10, <1>11,
          <1>12, <1>13, <1>14, <1>15, <1>r, <1>16
          DEF Next, Configure, Unconfigure, Crash

LEMMA EnvironmentStays == [Next]_vars => UNCHANGED env
BY DEF Next, Configure, Unconfigure, CallPresent, Backup, WriteRd,
   ReloadResolved, WriteNm, ReloadNetworkManager, WriteResolvConf, Uninstall,
   Restore, UnlinkNm, ForgetNm, UnlinkRd, ForgetRd, Crash, Refresh, Reboot, vars

Undisturbed == env.calm => Progress

LEMMA AlwaysUndisturbed == Spec => []Undisturbed
<1>1. Init => Undisturbed
  BY ProgressInit DEF Undisturbed
<1>2. Undisturbed /\ [Next]_vars => Undisturbed'
  BY ProgressStep, EnvironmentStays DEF Undisturbed
<1>. QED  BY <1>1, <1>2, PTL DEF Spec

\* Where no run dies a first configuration takes effect.
THEOREM FirstRunConfigures == Spec => []FirstRunTakesEffect
<1>1. Undisturbed => FirstRunTakesEffect
  BY ContentsAssumption DEF Undisturbed, Progress, DaemonsFollow, WrittenSoFar,
     FirstRunTakesEffect, Effective
<1>. QED  BY <1>1, AlwaysUndisturbed, PTL

\* Where no run dies a successful cleanup leaves nothing of a configuration.
THEOREM CleanupIsComplete == Spec => []CleanupRestores
<1>1. Undisturbed => CleanupRestores
  BY ContentsAssumption DEF Undisturbed, Progress, SavedFirst, DaemonsFollow,
     NetworkServers, RemovedSoFar, CleanupRestores, Effective
<1>. QED  BY <1>1, AlwaysUndisturbed, PTL

=============================================================================
