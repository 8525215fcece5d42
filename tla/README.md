# Formal models of ansible-automation

TLA+ models of the parts of this repository whose correctness depends on the
order of steps: what a run leaves behind when it dies, what the next run makes
of it, and who else is at work at the same time. TLC checks the models on small
instances; TLAPS proves what the passing runs check, safety and liveness, for every
instance.

Most of the repository is declarative: 350 roles that copy files and call
Ansible modules in sequence. There is nothing to model check in "copy a file,
then restart a service". The models are about the few components that keep state
of their own, decide from it, and change it in several steps.

## 1. Inventory

### 1.1 IPA enrolment (`roles/ipaclient`)

- **State.** On the host: `/etc/krb5.keytab`, the configuration files
  (`default.conf`, `sysrestore.state`, `ca.crt`, `krb5.conf`, ...), a ticket in
  `/etc/ipa/.dns_ccache`. On the IPA server: the host entry with its key and its
  one-time password (OTP), a temporary copy of the administrator's keytab. In the
  play: `ipaadmin_password`, `ipaadmin_orig_password`, `ipaclient_use_otp` and the
  registered results of the modules.
- **Operations.** `tasks/install.yml`: `ipaclient_test`, `ipaclient_test_keytab`,
  the OTP block with `ipaclient_get_otp`, the purge of the keytab,
  `ipaclient_set_hostname`, `ipaclient_join`, the gate between joining and
  configuring, `ipaclient_ipa_conf`, `ipaclient_setup_sssd`, `_setup_krb5`,
  `_api`, `_fix_ca`, `_setup_nss`, `_setup_ssh`, `_setup_nis`, the `always`
  section; `tasks/uninstall.yml`.
- **Interactions.** Each task decides from facts that earlier tasks registered and
  from files that earlier *runs* left. The server is shared by all controllers.
- **Hard.** A process that dies between two tasks; a KDC that does not answer; two
  controllers against one host; the same variable holding the administrator's
  password and, for a while, a one-time password; four guards that have to agree
  on whether the key is replaced.
- **Correct when** a working key is not replaced unless asked, a lost race is
  noticed, an OTP is used as an OTP and does not outlive the run, the copy of the
  administrator's keytab is removed on every path, and a forced run recovers from
  anything.

### 1.2 Resolver configuration (`ipaclient_configure_dns_resolver`)

- **State.** `/etc/resolv.conf`, its backup in the file store of the IPA client, a
  file for NetworkManager and one for systemd-resolved, and what the two daemons
  last read.
- **Operations.** `state: present` (backup, write, reload), `state: absent`
  (restore, unlink, reload); the uninstallation of the client, which restores the
  file store too.
- **Interactions.** NetworkManager rewrites `/etc/resolv.conf`; the daemons read
  their files at a reload or a reboot only.
- **Hard.** A run that dies between a file operation and the reload; a file of an
  earlier run; four combinations of daemons.
- **Correct when** the backup is the original, a configuration takes effect, and a
  cleanup restores the host.

### 1.3 WebLogic edit sessions (WLST scripts)

- **State.** The active configuration of a domain, its edit tree, the lock.
- **Operations.** `addSecuritySettings.py` (lockout manager, password validator,
  auditor), `configure_mail_session.py`, `wlsSettingsChecker.py` (compare, correct,
  report), in the order the playbooks run them; `update_email_server.py`,
  `update_jta.py` and `enable_ssl.py`, which no play of the stack runs.
  `addSecuritySettingsFile.py` writes the records of the security realm that an
  operator then puts into `wl_config_settings`, from which the checker reads.
- **Interactions.** All scripts share one edit tree and log in as one
  administrator; somebody else may work at the console.
- **Hard.** An exception between `startEdit` and `activate` leaves changes pending
  and the lock held; the next script of the same user enters that session and
  publishes them. Exceptions that are swallowed end in exit code 0.
- **Correct when** pending changes stay behind the lock, nobody publishes the work
  of the console, a report of the checker is true, every script ends, and an
  undisturbed play of the stack or of the mail session ends with what it is there for.
- `create_osb_domain.yml` runs `addSecuritySettings.py` without the checker, on the
  domain of another administration server: what the model says of a domain and its lock
  holds there too, what it says of the stack does not.

### 1.4 Init script (`create_linux_service`, `service.sh`)

- **State.** The pid file, the lock file, the processes of the host.
- **Operations.** `start`, `stop`, `restart`. `install_consul` has the same script
  under other names.
- **Hard.** The service ends by itself at any moment, its identifier is used
  again, or it does not end on the signal.
- **Correct when** the service that runs is the one the pid file names, a stop that
  succeeds has left none, a start that succeeds has left one, and every call ends.
- **Used by** `restart_linux_service_java_app_with_port`: a task that stops the
  service, with `ignore_errors`, one that starts it, and two waits whose failure is
  ignored too. `ansible.builtin.service` calls the script only when the service is not
  in the state asked for. Correct when no old process survives the role.

### 1.5 Not modelled, with behaviour of its own

- **Build pipeline** (`playbooks/`, `ansible.cfg`). State: the inventory, the hosts,
  the cached facts (kept for 7200 s). Hard: assertions read cached facts of a host
  that was rebuilt or just joined to a domain; `--limit` takes the plays on
  `localhost` away; `meta: end_play` in `db_enable_archive_log_mode` is decided for
  the first host and ends the play, the `post_tasks` included, for all. What happens
  is decided in ansible-core, of which this repository only has the configuration.
- **Discovery** (`ipaclient_test.py` 302-491, 498-933). A pure decision: domain,
  realm and servers from arguments, DNS records and LDAP answers.
- **Performance collector** (`collect_nmon.sh` 100-174). State: the running
  collectors. Hard: the count is taken before the start; one or two may run in the
  roll-over hour.
- **Neo4j dump and load**: stop and start with failures in between.
- **`install_wl_monitor`**, whose play is commented out: it rewrites `config.xml` on disk
  beneath a running administration server.

### 1.6 Not modelled

The host baseline (repositories, packages, volumes, firewall, SELinux, sudo,
certificates, SSSD), vSphere and VMware, Windows and WSUS, network switches,
database installation, data imports, monitoring, the Apache build, Docker swarm,
consul registration and the operator tools are sequences of calls whose state is
outside this repository; `docker-bench-security` is vendored. `PROJECT.json` lists
each with its reason.

A mechanical rename has damaged some task arguments in the repository
(`ansible.builtin.hostname:` as an argument of a module, for instance). The models
take the argument that was meant. A refusal of a damaged task would be a failure of
the task before it changes anything, which the model of enrolment has at every task
(`TaskFails`).

## 2. Modules

| Module | What it is | Source |
|---|---|---|
| `IpaEnroll` | enrolment of one host by any number of controllers | `roles/ipaclient/tasks`, `library/ipaclient_*.py` |
| `DnsResolver` | the resolver of one host | `library/ipaclient_configure_dns_resolver.py` |
| `HostIdentity` | what an enrolment promises about the host's key; abstract | the tasks of `install.yml` that change the key |
| `WlstEdit` | the edit session of one domain and its scripts | six WLST scripts and their tasks |
| `ServiceScript` | one service and its init script | `create_linux_service/templates/service.sh` |
| `ServiceRestart` | the role that restarts a service, over `ServiceScript` | `restart_linux_service_java_app_with_port/tasks` |
| `MCIpaEnroll`, ... | the instances for TLC | |
| `IpaEnrollProofs`, `IpaIdentityProofs`, `IpaOneRunProofs`, `IpaRecoveryProofs`, `DnsResolverProofs`, `WlstEditProofs`, `ServiceScriptProofs`, `ServiceRestartProofs` | theorems and proofs | |

The four components share no state, so no module composes all of them: the resolver is
configured before the enrolment and nothing of it is read there except through the
discovery, which is not modelled. `ServiceRestart`
composes a role with the init script it calls; the other composition happens inside the
modules: `IpaEnroll` composes controllers through host and server, `WlstEdit` composes
scripts and console through the domain.

### 2.1 `IpaEnroll`

`pc[c]` is the task controller `c` is at; each task is an action with the guard of
its `when` and the order of `install.yml`. A task that fails goes to the `always`
section of the block it is in: inside the OTP block first to the removal of the
temporary keytab (`otp_cleanup`), then to the outer one (`always`), then the run has
`failed`. `ipaclient_get_otp` is one action for each call it makes on the server
(show, add, disable, modify), and `ipaclient_join` one for each of CA, server, keytab
and ticket, because another controller or a crash may come between two of them.

Data: a key is a member of `Keys`, an OTP a member of `Otps`; a keytab file holds a
key, nothing, or is garbled. Configuration files are either there or not. The
password of the administrator is `"admin"`.

Disturbances (`Faults`): `fail` (any task fails), `crash` (the process dies at any
task, with no `always` section; a keytab being written may be garbled), `kdc` (no
answer to the keytab test), `drift` (a file is lost between runs), `reimage` (the host
is rebuilt, the server remembers), `admin` (an administrator sets an OTP).

`ipaclient_setup_ntp` is part of the action `Prepare`: what matters of it is that the
time service saves its state in `sysrestore.state` (`AfterTimeSync`), one of the two
files by which the next run takes the host for enrolled, long before the join.

`HostIdentity` says what a run may do to the host's key and nothing about how: a run is
`out`, `open` (it has not tested the key), and then `claimed` the identity or `kept` it;
it revokes, purges, is issued and installs a key only when it claimed it, which it does
by force or because the key did not work (or the server was silent), and it installs
only the key that the server issued to it. The mapping in `IpaEnroll` (`Identity`) takes
`held` and `issued` from the keytab and the host entry, the phase from the task a run is
at and the facts it registered, and the offer from the key in the hand of `ipa-join`.

### 2.2 `DnsResolver`

`env` is the host's way of resolving and does not change: NetworkManager enabled or
not, `/etc/resolv.conf` a link to a file of systemd-resolved or not, its unit enabled
or not, and whether runs may die (`calm`). All sixteen are initial states. `Effective`
is what the host resolves with: the content of `/etc/resolv.conf`, or where that is a
link the servers the two daemons know. `found` records that a run met the file of an
earlier one.

### 2.3 `WlstEdit`

`active`, `edit` and `lock` are the domain. A script's statements between `startEdit`
and `activate` are one action, since nobody else can write the edit tree while the
lock is held; its outcomes are `Publish` (all goes well), `Abandon` (an exception: what
was set so far stays, and so does the lock) and `PublishFails`. Reads that come before
`startEdit` are actions of their own: the lookups of the validator and the auditor, and
the comparison of the checker, which reads the edit tree. The administration server is
not restarted: what a restart keeps of an open session is not in this repository.
Whether a bean exists is an attribute with the value `Absent` or not.

`written` and `adopted` stand for the file of `addSecuritySettingsFile.py`: it is written
when the security script has ended, and an operator may put its records into
`wl_config_settings` before a play; from then on `Listed` and `Correctable`, what the
checker is given, have them. `SetAttributes` is a script that sets attributes in one
session and catches nothing (`update_jta.py`, `enable_ssl.py`); `ReplaceMailSession` is
`update_email_server.py`, which destroys the mail session first. Their values are written
in them (`Hardcoded`) and are not those of the records: `update_jta.py` sets 120 where
the record of the checker has 90.

A disturbance (`May`) is possible until `CalmDown`, which happens once or never. It lets
`StackSettles` and `MailSettles` speak of a play that is not disturbed after any number
that were.

### 2.4 `ServiceScript`

One action for each statement that reads or writes the pid file, the lock file or the
process table. `process[p]` tells what identifier `p` stands for; `Obey`, `Die` and
`Reuse` are the processes' own steps and may come between any two statements. The
counter of the loop is `0` or, after `expr $KILL_RETRY_COUNTER+1`, a word (`None`): a
word never equals the limit. Executions of the script follow one another; two at a time
(a play and the boot) are outside the model.

`ServiceRestart` adds the role: `task` is where it is, `old` the processes of the service
that were there when it began and still are. `StopTask` and `StartTask` ask for the
status and call the script or not; between the two, and inside, the service may end and
identifiers may change hands.

## 3. Runs

| Run | Instance | Properties |
|---|---|---|
| `ipa_one` | one controller, all invocations, all faults | `TypeOK`, `WorkingKeyIsKept`, `OtpUsedAsOtp`, `GeneratedOtpRestored`, `OneOtpAccepted`, `OneConfiguredIsHealthy`, `OneTicketAvailable`, `KeytabCopyRemoved`, `IdentityPromised` |
| `ipa_race` | two controllers, four keys, three OTPs, no faults | `RaceIsReported`, `IdentityPromised` |
| `ipa_recovery` | one controller, fairness, failures, crashes, rebuilds | `GoesOn`, `OneForceRecovers` |
| `ipa_success` | ordinary and forced runs with failures and crashes | `SuccessMeansJoined`, violated |
| `ipa_repair_ca` | runs with and without `allow_repair`, drift | `RepairRestoresCa`, violated |
| `wlst_stack` | the stack, the checker alone, the mail session, the scripts no play runs, failures that come to an end, fairness | `GoesOn`, `StackSettles`, `MailSettles` |
| `wlst_console` | the same plays, failures, a console, fairness | `TypeOK`, `PendingIsLocked`, `ConsoleSessionKept`, `ReportHolds`, `EveryScriptEnds` |
| `wlst_mismatch` | stack or checker, failures | `MismatchIsReported`, violated |
| `wlst_limits` | the stack on a domain without the validator | `LimitsEstablished`, violated |
| `dns_runs` | three configurations, sixteen environments, crashes, reboots | `TypeOK`, `BackupIsOriginal`, `FirstRunTakesEffect`, `CleanupRestores` |
| `service_files` | three identifiers, all faults, the restarting role and other callers, fairness | `TypeOK`, `RunningIsRecorded`, `OneService`, `StoppedMeansGone`, `SuccessBringsUp`, `RestartRenews`, `GoesOn`, `EndsUnlessHung` |
| `service_retry` | a service that does not end on the signal, fairness | `EveryCallEnds`, violated |

### 3.1 What the passing runs show

- **A working key is kept** (`WorkingKeyIsKept`), whatever the invocation: the guards of
  the OTP block, the purge, the join and the gate are written out separately and agree.
- **A lost race is reported** (`RaceIsReported`): two runs may each obtain a key and
  write the same keytab, but never do both end in success with the wrong one there; the
  test of the keytab after the join sees to it.
- **The promise about the key** (`IdentityPromised`): the role, with its OTPs, credentials
  and failures, implements `HostIdentity`, with one controller and all faults and with
  two that overlap.
- **Recovery** (`OneForceRecovers`): a run with `ipaclient_force_join`, not itself
  disturbed, ends with a joined and configured host from whatever was left behind.
- **Secrets**: an OTP reaches the join exactly when the join is told to expect one; a
  generated OTP is taken back out of `ipaadmin_password`; the copy of the keytab on the
  server is removed on the failing paths too. An OTP that the join presents is one the
  server accepts, and the tasks that need the ticket find it.
- **A play settles** (`StackSettles`, `MailSettles`): whatever earlier plays left half
  done (a mail session destroyed and not made again, a limit set and not activated),
  once nothing disturbs any more a play of `create_weblogic_stack.yml` ends with the
  limits and every modifiable setting in force, when no change is pending as it
  begins, and the play of `deploy_gapcie2.yml` ends with the mail session.
  `addSecuritySettings.py` alone never sets the password limits and leaves its session
  open; the checker, which runs later as the same user, sets them and publishes the
  rest. This is why the order matters.
- **The lock guards what is pending** (`PendingIsLocked`, `ConsoleSessionKept`), with
  failures at any call, and **a report is true** (`ReportHolds`) once no session is open.
- **Every script ends** (`EveryScriptEnds`), whatever fails and whoever holds the lock;
  so does every execution of the init script (`EndsUnlessHung`), except that `stop()`
  waits for as long as the process under the identifier of the pid file does not end on
  the signal (a service that is deaf, or somebody else's process), and a start for as long
  as the host has no identifier left.
- **The resolver**: the backup is the original where NetworkManager does not write the
  file, also after crashes and when an uninstallation without cleanup comes between two
  configurations; where no run dies a first configuration takes effect and a cleanup
  restores the host, in every combination of daemons.
- **The init script** keeps the pid file, the lock file and the service in step, and
  there are never two instances of the service (`OneService`), in the middle of a restart
  as little as after a start that follows an unnoticed end.
- **Fairness is what it is meant to be** (`GoesOn`, in three modules): no started run,
  script or play is at a point where it could not go on. See 3.4.
- **The restart renews** (`RestartRenews`): no process from before the role survives it,
  although the failure of the stop is ignored and the waits prove nothing. It rests on
  how a stop fails: only when the process is gone already. A retry limit that worked
  (see `EveryCallEnds`) would break it: the stop would fail with the old process alive,
  the start would find it running, and the role would report success.

### 3.2 What the violated ones show

- `SuccessMeansJoined`: a forced run that dies between the purge of the keytab and the
  join leaves `default.conf` and `sysrestore.state`; the next ordinary run takes these
  for an enrolled client, skips everything and reports success without a key.
- `RepairRestoresCa`: "The ca.crt file is missing, please enable allow_repair to fix
  this." With `allow_repair` the run fails in `ipaclient_api`, which loads `ca.crt`
  before the task that would restore it.
- `MismatchIsReported`: the checker compares with the edit tree. After a run whose
  activation failed, the next one finds the pending value, reports nothing and activates
  nothing; the servers keep the wrong value.
- `LimitsEstablished`: the password validator is created under one name and its limits
  set through another, which is `None`; the exception is swallowed.
- `EveryCallEnds`: the retry counter of `stop` is a word after the first turn, so the
  limit is never reached.

Seen while modelling and not kept as runs: an OTP that the inventory defines stays in
`ipaadmin_password` on a host whose keytab works (`install.yml:417` asks for
`ipaclient_use_otp`, which 113-119 has switched off); a run that relies on
`ipaclient_keytab` alone passes the check of credentials and is refused by
`ipaclient_join`; a resolver file that exists is never written again, so other name
servers have no effect; a cleanup that died between unlink and reload is not completed
by a repeated one.

### 3.3 Bounds

- One controller needs three keys: the one in the keytab, the one at the server, the one
  in hand; two controllers need one more. OTPs likewise: the one at the server and the
  one in hand, and one more for two. A fresh key or OTP is one that no place holds, so a
  larger set adds no behaviour with these controllers; the proofs cover any set.
- Any number of runs follow one another: nothing counts them.
- The domain of `wlst_stack` has the switch of the lockout manager, one limit, one
  auditor attribute, one of the mail session, one plain setting: one attribute for every
  way a script treats one; with failures and no console; the auditor is always still to
  be made. The two violated runs of `WlstEdit` also have a lockout attribute that is set
  when the switch is turned on.
  `wlst_console` leaves the mail session and the plain setting out, to keep the console's
  freedom: there the scripts that set them open and end their sessions and set nothing.
- `Realm` is empty in all runs: no script sets the realm's own attributes, so their
  records only add reports.
- Three resolver configurations: one in force, one in a file, one wanted. Three process
  identifiers: the service's, one of someone else, a free one. `RetryLimit` is 2 for 40.
- `MCWlstEdit` states as an assumption of every instance what the proofs about the end of
  a script and of the stack assume (`FewRecords`, `LimitsAreModifiable`).
- Symmetry is used for keys, OTPs, controllers and configurations, in runs of invariants
  and action properties only; the runs with liveness (`ipa_recovery`, `wlst_stack`,
  `wlst_console`, `service_files`, `service_retry`) use none.

No run switches the deadlock check off.

### 3.4 Fairness

- `IpaEnroll`: weak fairness of `Task(c)`: Ansible goes on with a run it has started.
  Starting a run, failures and the environment are not fair.
- `WlstEdit`: weak fairness of `Start \/ Script`: a play goes on to its next script, a
  script to its next statement. Nobody has to start a play.
- `ServiceScript`: weak fairness of the statements of a started script and of the
  default action of a signal. A service with its own handler that does not end (`deaf`)
  has no such step. `ServiceRestart` adds nothing: the role is not made to go on.

`WF` speaks of what is `ENABLED`, of which the prover knows nothing. Each of the three
modules therefore says in `GoesOn` what its fairness comes to, with the condition under
which a step is possible written out: a controller has ended again and again, or takes
tasks for ever; a play has come to its end again and again, or scripts start and run for
ever; the script of a service is waiting, for a call, an identifier or a signal, again
and again, or executes statements for ever. TLC checks that `FairSpec` implies `GoesOn`,
which is a check of the model too (a task that is neither executed nor refused in some
state violates it), and the theorems about liveness start from `Spec /\ GoesOn`.

## 4. Proofs

`tlapm` checks every proof to the last leaf. The assumptions are those the modules state
about their constants: distinctness of the special values, membership of options.

- **`IpaEnrollProofs`**, for any number of controllers and all faults. `TypeCorrect`
  needs that a secret in hand is of the kind the next task stores. `KeyKept`: once the
  test of the keytab succeeded and no force was given, every label from the purge on is
  reachable only through a guard that is false. `LostRaceIsReported`: while the keytab
  does not hold the server's key, some controller has not passed its test since; a step
  that breaks the key is a step of a controller with its test still ahead. It is the
  inductive form of "someone still tests", and the property alone is not inductive: a
  state where all have ended and one is about to write is ruled out only by it.
  `OtpTakenBack`, `OtpIsUsedAsOtp`: what `orig`, `password` and `useOtp` hold at each
  label. `CopyIsRemoved`: an action property, by cases of the steps.
- **`IpaIdentityProofs`**, for any number of controllers and all faults.
  `IdentityImplemented` is the refinement: initial states map to initial states, and each
  task to a step of `HostIdentity` or to a stutter. The strengthening is `KeyDecided`: the
  labels at which a key is touched are reached only in the phase `claimed`.
- **`IpaOneRunProofs`**, for one controller (`OneController`), any keys, OTPs,
  invocations and faults. `TicketAvailable`, `OtpAcceptedAtJoin` and `ConfiguredIsHealthy`
  from one invariant per label: the ticket is there from the join or the test on
  (`TicketKept`), the server's OTP is the one in `ipaadmin_password` and the host has no
  key (`OtpIssued`), the key in the keytab or in hand is the server's (`KeyGood`), and the
  files each task has written are there (`FilesWritten`). With two controllers they are
  false: each can invalidate what the other has.
- **`IpaRecoveryProofs`**, for one controller likewise. `ForceRecovers`: `Spec /\ GoesOn`
  implies `OneForceRecovers`, whatever is left behind. Every task has a place in the order
  of the role (`Rank`); a run that is to recover the host (`OnWay`, which says at each task
  what the later ones need) is at a later task after every task, or has recovered the host,
  or was disturbed (`TaskAdvances`, `WayKept`); and there are 27 places (`Arrives`).
- **`WlstEditProofs`**, for every set of attributes, every order of scripts, every
  initial domain. `ScriptsUseSessions` reduces each step of a script to one of four
  outcomes of a session; `PendingChangesAreLocked` and `ConsoleKeepsItsSession` follow.
  `ReportsHold` needs the records already looked at: each has the expected value, or is
  reported and corrected or about to be, or the console touched it (`LookedAt`). What the
  checker is given may change between plays, never during one (`ListingKept`).
  `ScriptsEnd`, from `GoesOn`: every statement leaves fewer before the script (`Left`, for
  the checker two for each record), so one that goes on has executed any number of them or
  ended. For a number that is not known this is an induction, which the provers cannot do;
  with at most a thousand records (`FewRecords`; `wl_config_settings` has 83) the number of
  statements that are certain is doubled eleven times (`Idles`).
  `MailIsSettled`: when nothing disturbs, nobody is at the console (`Quiet`), no call
  fails, and a script that is due starts and runs. `StackIsSettled`: from the security
  script to the checker the trees agree and, after the second session, the validator
  exists (`Secures`, `CheckerWaits`, `Checks`); that both scripts end is `ScriptsEnd`, and
  that the settings are then in force is the invariant of `ReportsHold`. It needs that the
  limits are among the modifiable records, as they are in `config_wl_settings`
  (`LimitsAreModifiable`): nothing else sets them.
- **`DnsResolverProofs`**, for any set of configurations. `OriginalIsSaved` from
  `SavedFirst`: without NetworkManager nothing is written before it is saved.
  `FirstRunConfigures` and `CleanupIsComplete` from `Progress`: the daemons know their
  files except between a write and its reload, and what each label has written or
  removed.
- **`ServiceScriptProofs`**, for any set of identifiers and any faults.
  `ServiceIsRecorded`, `StopIsComplete`: a service is the one in the pid file or the one
  about to be written there, and there is none where the script has seen the last one
  end. `SuccessIsUp` needs that a signal is on its way to a service only in the loop
  that sends it: otherwise a service could still die after a later start found it.
  `NeverTwo` is the first invariant again, in the middle of an execution. `CallsEnd`, from
  `GoesOn`: an execution goes from place to place, and the one loop, in `stop()`, is left
  by stages: the process has not got the signal, has got it and will end on it, or is gone
  (`KillStages`, `KillMoves`); where none of them holds the script hangs (`Hung`).
- **`ServiceRestartProofs`**, likewise. `RoleUsesScript`: every behaviour of the role is
  one of the script, so what is proved of the script holds while the role runs.
  `RoleRenews` from `Gone`: the old processes are processes of the service, and there is
  none where a stop has ended or the status says there is none. `RoleCallsEnd`: every
  execution ends in the role's behaviours too.

Only model-checked: that the fairness of a module implies its `GoesOn` (`ENABLED`), and
the five violated properties, which are false. Everything else that a passing run checks
is a theorem.

## 5. What is left

1. The discovery of `ipaclient_test` as a function of arguments, DNS and LDAP answers,
   checked against a reference definition over bounded inputs.
2. The collector of `collect_nmon.sh`: overlapping cron calls in the roll-over hour.
3. The pipeline: hosts, plays in the order of `site.yml`, the fact cache with its age,
   `--limit`, `end_play`, with ansible-core as an external part.
4. Restarts of the administration server in `WlstEdit`, once it is known what they keep
   of an edit session.
