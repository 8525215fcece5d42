---------------------------- MODULE HostIdentity ----------------------------
(***************************************************************************)
(* What the enrolment of a host promises about its identity, whatever the  *)
(* tasks, credentials and failures of a run are: the host's key is revoked,*)
(* purged or replaced only by a run that claimed it, a run claims it only  *)
(* when it was told to join by force or found that the key does not work,  *)
(* and what it installs is the key the server issued to it.  IpaEnroll     *)
(* implements this specification.                                          *)
(***************************************************************************)

CONSTANTS
    Runs,     \* the processes that may enrol the host
    Keys,     \* keys the server can issue
    None,     \* no key
    Garbled,  \* a key file that cannot be read
    Outages,  \* the server may be silent when a run tests the key
    Losses    \* the key may be lost between runs

VARIABLES
    held,     \* the key the host holds
    issued,   \* the key the server accepts
    phase,    \* phase[r]: "out" of business with the identity, "open" before
              \* the key is tested, then "claimed" or "kept"
    forced,   \* forced[r]: run r was told to join by force
    offer     \* offer[r]: the key issued to run r and not installed yet

vars == <<held, issued, phase, forced, offer>>

Init ==
    /\ held = None /\ issued = None
    /\ phase = [r \in Runs |-> "out"]
    /\ forced = [r \in Runs |-> FALSE]
    /\ offer = [r \in Runs |-> None]

Works == held \in Keys /\ held = issued

Move(r, from, to) == phase[r] = from /\ phase' = [phase EXCEPT ![r] = to]

Enter(r) ==
    /\ Move(r, "out", "open")
    /\ \E f \in BOOLEAN : forced' = [forced EXCEPT ![r] = f]
    /\ UNCHANGED <<held, issued, offer>>

\* A key file that cannot be read is removed by whoever comes across it.
DropUnreadable(r) ==
    /\ phase[r] = "open" /\ held = Garbled
    /\ held' = None
    /\ UNCHANGED phase \/ Move(r, "open", "out")
    /\ UNCHANGED <<issued, forced, offer>>

\* The test of the key, which a silent server fails.
Claim(r) ==
    /\ Move(r, "open", "claimed")
    /\ forced[r] \/ ~Works \/ Outages
    /\ UNCHANGED <<held, issued, forced, offer>>

Keep(r) ==
    /\ Move(r, "open", "kept")
    /\ Works /\ ~forced[r]
    /\ UNCHANGED <<held, issued, forced, offer>>

Revoke(r) ==
    /\ phase[r] = "claimed"
    /\ issued' = None
    /\ UNCHANGED <<held, phase, forced, offer>>

Purge(r) ==
    /\ phase[r] = "claimed"
    /\ held' = None
    /\ UNCHANGED <<issued, phase, forced, offer>>

Issue(r) ==
    /\ phase[r] = "claimed"
    /\ \E k \in Keys \ {held, issued} :
         issued' = k /\ offer' = [offer EXCEPT ![r] = k]
    /\ UNCHANGED <<held, phase, forced>>

Install(r) ==
    /\ phase[r] = "claimed" /\ offer[r] # None
    /\ held' = offer[r]
    /\ offer' = [offer EXCEPT ![r] = None]
    /\ UNCHANGED <<issued, phase, forced>>

\* The run ends, at any point: a key that was issued to it and that it did not
\* install is lost, and the file it was writing may be unreadable.
Leave(r) ==
    /\ phase[r] # "out" /\ phase' = [phase EXCEPT ![r] = "out"]
    /\ \/ UNCHANGED held
       \/ phase[r] = "claimed" /\ offer[r] # None /\ held' = Garbled
    /\ offer' = [offer EXCEPT ![r] = None]
    /\ UNCHANGED <<issued, forced>>

\* The enrolment is undone, on both sides if the server can be reached.
Withdraw(r) ==
    /\ Move(r, "open", "out")
    /\ held' = None
    /\ issued' \in {issued, None}
    /\ UNCHANGED <<forced, offer>>

\* Between runs the host loses its key.
Lose ==
    /\ Losses /\ \A r \in Runs : phase[r] = "out"
    /\ held' = None
    /\ UNCHANGED <<issued, phase, forced, offer>>

Run(r) == Enter(r) \/ DropUnreadable(r) \/ Claim(r) \/ Keep(r) \/ Revoke(r)
          \/ Purge(r) \/ Issue(r) \/ Install(r) \/ Leave(r) \/ Withdraw(r)

Next == (\E r \in Runs : Run(r)) \/ Lose

Spec == Init /\ [][Next]_vars

=============================================================================
