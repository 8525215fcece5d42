----------------------------- MODULE DnsResolver -----------------------------
(***************************************************************************)
(* The module ipaclient_configure_dns_resolver of the role roles/ipaclient:*)
(* it points the resolver of a host at the name servers of IPA before the  *)
(* enrolment, and takes that back when the client is uninstalled.          *)
(*                                                                         *)
(* Each action is one file operation or one reload of a daemon; a run can  *)
(* die between any two of them (a lost connection, a daemon that does not  *)
(* reload).  A content stands for the name servers and domains a file      *)
(* names.  Calls that main() refuses (a missing or invalid argument) change*)
(* nothing and are left out.                                               *)
(***************************************************************************)

CONSTANTS
    Servers,    \* the configurations the inventory may give
    Original,   \* what the host resolves with before: its network's servers
    Empty,      \* a configuration file that was opened and not written
    None        \* no file, no setting

ASSUME ContentsAssumption ==
    /\ Original \notin Servers \cup {None}
    /\ Empty \notin Servers \cup {None, Original}
    /\ None \notin Servers

\* nm: NetworkManager is enabled; link: /etc/resolv.conf is a link to a file of
\* systemd-resolved (detect_resolve1_resolv_conf); unit: the unit of
\* systemd-resolved is enabled; calm: no run will die.
Environment == [nm : BOOLEAN, link : BOOLEAN, unit : BOOLEAN, calm : BOOLEAN]

VARIABLES
    env,         \* how the host manages its resolver
    resolvConf,  \* /etc/resolv.conf
    backup,      \* its copy in the file store of the IPA client
    nmConf,      \* NETWORK_MANAGER_IPA_CONF
    rdConf,      \* SYSTEMD_RESOLVED_IPA_CONF
    nmLoaded,    \* what NetworkManager last read from nmConf
    rdLoaded,    \* what systemd-resolved last read from rdConf
    pc,          \* where the run is; "idle" between runs
    want,        \* the configuration it was called with
    done,        \* what the last run ended as: "none", "present", "absent"
    found        \* that run met files of an earlier one (history)

files == <<resolvConf, backup, nmConf, rdConf>>
daemons == <<nmLoaded, rdLoaded>>
run == <<want, done, found>>
vars == <<env, files, daemons, pc, run>>

-----------------------------------------------------------------------------
(* The daemons.                                                            *)

\* The servers a daemon finds in a configuration file.
Read(file) == IF file \in Servers THEN file ELSE None

\* What NetworkManager writes to /etc/resolv.conf, unless it is the business of
\* systemd-resolved.
Generated(loaded) == IF loaded = None THEN Original ELSE loaded

\* reload_or_restart() of NetworkManager.
ReloadNm ==
    /\ nmLoaded' = Read(nmConf)
    /\ resolvConf' = IF env.link THEN resolvConf ELSE Generated(nmLoaded')

ReloadRd == rdLoaded' = Read(rdConf)

\* What the host resolves names with.
Effective ==
    LET given == ({IF env.nm THEN nmLoaded ELSE None} \cup {rdLoaded}) \ {None}
    IN IF env.link THEN IF given = {} THEN {Original} ELSE given
                   ELSE {resolvConf}

-----------------------------------------------------------------------------
(* configure_dns_resolver                                                  *)

CallPresent ==
    /\ pc = "idle"
    /\ want' \in Servers
    /\ pc' = "backup"
    /\ done' = "none"
    /\ found' = (nmConf # None \/ rdConf # None)
    /\ UNCHANGED <<env, files, daemons>>

\* A fault for the checks: the file store is not asked what it has.
BackupEveryTime ==
    /\ pc = "backup"
    /\ backup' = resolvConf
    /\ pc' = IF env.link THEN "write_rd" ELSE "nm"
    /\ UNCHANGED <<env, resolvConf, nmConf, rdConf, daemons, run>>

\* fstore.has_file, fstore.backup_file.
Backup ==
    /\ pc = "backup"
    /\ backup' = IF backup = None THEN resolvConf ELSE backup
    /\ pc' = IF env.link THEN "write_rd" ELSE "nm"
    /\ UNCHANGED <<env, resolvConf, nmConf, rdConf, daemons, run>>

\* A fault for the checks: systemd-resolved is not reloaded.
WriteRdOnly ==
    /\ pc = "write_rd"
    /\ rdConf' = IF rdConf = None THEN want ELSE rdConf
    /\ pc' = "nm"
    /\ UNCHANGED <<env, resolvConf, backup, nmConf, daemons, run>>

\* A file that exists is left as it is, and its daemon is not reloaded.
WriteRd ==
    /\ pc = "write_rd"
    /\ IF rdConf = None
       THEN rdConf' = want /\ pc' = IF env.unit THEN "reload_rd" ELSE "nm"
       ELSE UNCHANGED rdConf /\ pc' = "nm"
    /\ UNCHANGED <<env, resolvConf, backup, nmConf, daemons, run>>

ReloadResolved ==
    /\ pc = "reload_rd"
    /\ ReloadRd
    /\ pc' = "nm"
    /\ UNCHANGED <<env, files, nmLoaded, run>>

Success(state) == pc' = "idle" /\ done' = state /\ UNCHANGED <<want, found>>
Goto(step) == pc' = step /\ UNCHANGED run

WriteNm ==
    /\ pc = "nm" /\ env.nm
    /\ IF nmConf = None
       THEN nmConf' = want /\ Goto("reload_nm")
       ELSE UNCHANGED nmConf /\ Success("present")
    /\ UNCHANGED <<env, resolvConf, backup, rdConf, daemons>>

ReloadNetworkManager ==
    /\ pc = "reload_nm"
    /\ ReloadNm
    /\ Success("present")
    /\ UNCHANGED <<env, backup, nmConf, rdConf, rdLoaded>>

\* Without either daemon /etc/resolv.conf is written, every time.
WriteResolvConf ==
    /\ pc = "nm" /\ ~ env.nm
    /\ resolvConf' = IF env.link THEN resolvConf ELSE want
    /\ Success("present")
    /\ UNCHANGED <<env, backup, nmConf, rdConf, daemons>>

-----------------------------------------------------------------------------
(* unconfigure_dns_resolver, and the uninstallation before it              *)

\* A fault for the checks: the file store is not asked what it has.
RestoreAnyway == resolvConf' = backup /\ backup' = None

RestoreResolvConf ==
    IF backup = None
    THEN UNCHANGED <<resolvConf, backup>>
    ELSE resolvConf' = backup /\ backup' = None

\* ipa-client-install --uninstall puts back every file of the store, unless the
\* client was not configured (return code 2); the resolver is unconfigured only
\* with ipaclient_cleanup_dns_resolver.
Uninstall ==
    /\ pc = "idle"
    /\ RestoreResolvConf \/ UNCHANGED <<resolvConf, backup>>
    /\ pc' \in {"idle", "restore"}
    /\ done' = "none" /\ found' = FALSE /\ want' = None
    /\ UNCHANGED <<env, nmConf, rdConf, daemons>>

Restore ==
    /\ pc = "restore"
    /\ RestoreResolvConf
    /\ Goto("unlink_nm")
    /\ UNCHANGED <<env, nmConf, rdConf, daemons>>

\* A fault for the checks: NetworkManager is not reloaded.
UnlinkNmOnly ==
    /\ pc = "unlink_nm"
    /\ Goto("unlink_rd")
    /\ nmConf' = None
    /\ UNCHANGED <<env, resolvConf, backup, rdConf, daemons>>

UnlinkNm ==
    /\ pc = "unlink_nm"
    /\ Goto(IF nmConf # None /\ env.nm THEN "forget_nm" ELSE "unlink_rd")
    /\ nmConf' = None
    /\ UNCHANGED <<env, resolvConf, backup, rdConf, daemons>>

ForgetNm ==
    /\ pc = "forget_nm"
    /\ ReloadNm
    /\ Goto("unlink_rd")
    /\ UNCHANGED <<env, backup, nmConf, rdConf, rdLoaded>>

UnlinkRd ==
    /\ pc = "unlink_rd"
    /\ IF rdConf # None /\ env.unit THEN Goto("forget_rd") ELSE Success("absent")
    /\ rdConf' = None
    /\ UNCHANGED <<env, resolvConf, backup, nmConf, daemons>>

ForgetRd ==
    /\ pc = "forget_rd"
    /\ ReloadRd
    /\ Success("absent")
    /\ UNCHANGED <<env, files, nmLoaded>>

-----------------------------------------------------------------------------
(* The surroundings.                                                       *)

\* The run dies; a file it was writing may be left empty.
Crash ==
    /\ ~ env.calm
    /\ pc # "idle"
    /\ pc' = "idle"
    /\ \/ UNCHANGED files
       \/ pc = "write_rd" /\ rdConf = None /\ rdConf' = Empty
          /\ UNCHANGED <<resolvConf, backup, nmConf>>
       \/ pc = "nm" /\ env.nm /\ nmConf = None /\ nmConf' = Empty
          /\ UNCHANGED <<resolvConf, backup, rdConf>>
       \/ pc = "nm" /\ ~ env.nm /\ ~ env.link /\ resolvConf' = Empty
          /\ UNCHANGED <<backup, nmConf, rdConf>>
    /\ UNCHANGED <<env, daemons, run>>

\* NetworkManager writes /etc/resolv.conf again when a link comes up.
Refresh ==
    /\ env.nm /\ ~ env.link
    /\ resolvConf' = Generated(nmLoaded)
    /\ UNCHANGED <<env, backup, nmConf, rdConf, daemons, pc, run>>

\* The daemons start and read their files.
Reboot ==
    /\ pc = "idle"
    /\ IF env.nm THEN ReloadNm ELSE UNCHANGED <<nmLoaded, resolvConf>>
    /\ IF env.unit THEN ReloadRd ELSE UNCHANGED rdLoaded
    /\ UNCHANGED <<env, backup, nmConf, rdConf, pc, run>>

-----------------------------------------------------------------------------
(* The specification.                                                      *)

Init ==
    /\ env \in Environment
    /\ resolvConf = Original /\ backup = None
    /\ nmConf = None /\ rdConf = None
    /\ nmLoaded = None /\ rdLoaded = None
    /\ pc = "idle" /\ want = None /\ done = "none" /\ found = FALSE

Configure == \/ CallPresent \/ Backup
             \/ WriteRd \/ ReloadResolved
             \/ WriteNm \/ ReloadNetworkManager
             \/ WriteResolvConf

Unconfigure == \/ Uninstall \/ Restore
               \/ UnlinkNm \/ ForgetNm
               \/ UnlinkRd \/ ForgetRd

Next == Configure \/ Unconfigure \/ Crash \/ Refresh \/ Reboot

Spec == Init /\ [][Next]_vars

-----------------------------------------------------------------------------
(* Properties.                                                             *)

\* Types of the variables.
TypeOK ==
    /\ env \in Environment
    /\ resolvConf \in Servers \cup {Original, Empty}
    /\ backup \in Servers \cup {Original, Empty, None}
    /\ nmConf \in Servers \cup {Empty, None}
    /\ rdConf \in Servers \cup {Empty, None}
    /\ nmLoaded \in Servers \cup {None} /\ rdLoaded \in Servers \cup {None}
    /\ pc \in {"idle", "backup", "write_rd", "reload_rd", "nm", "reload_nm",
               "restore", "unlink_nm", "forget_nm", "unlink_rd", "forget_rd"}
    /\ want \in Servers \cup {None}
    /\ done \in {"none", "present", "absent"} /\ found \in BOOLEAN

\* Where NetworkManager does not own /etc/resolv.conf, the file store never
\* holds anything but the original: neither a second run over a configured
\* resolver nor one that follows a crash saves what an earlier run wrote.
BackupIsOriginal == ~ env.nm => backup \in {None, Original}

\* A run that found no file of an earlier one and succeeds, where none died,
\* leaves the host resolving with the servers it was called with, whichever of
\* the daemons are in use, and a reboot keeps that.  Without an enabled unit
\* nothing tells systemd-resolved.
FirstRunTakesEffect ==
    env.calm /\ done = "present" /\ ~ found /\ (env.nm \/ ~ env.link \/ env.unit)
        => Effective = {want}

\* The cleanup of the resolver, where no run died, leaves the host as it was:
\* no file, the original /etc/resolv.conf and no daemon that uses the servers.
CleanupRestores ==
    env.calm /\ done = "absent" =>
        /\ Effective = {Original}
        /\ nmConf = None /\ rdConf = None
        /\ backup = None

=============================================================================
