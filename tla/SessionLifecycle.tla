-------------------------- MODULE SessionLifecycle --------------------------
(***************************************************************************)
(* What a session handle of the wrapper promises the host, for keygen and  *)
(* sign sessions alike (spec sections 3, 4.1 and 4.2), with the protocol   *)
(* rounds collapsed into phases:                                           *)
(*                                                                         *)
(*   none   -- no session at this address;                                 *)
(*   init   -- created, no message produced yet;                           *)
(*   active -- the rounds of the protocol are running;                     *)
(*   done   -- the session holds its result (keyshare, partial signature)  *)
(*             and only waits to be consumed;                              *)
(*   failed -- absorbing until the handle is released.                     *)
(*                                                                         *)
(* A session is made for the host, which then holds it; only a session    *)
(* the host holds moves, and it moves forward; it ends only by being       *)
(* released, after which the address may be used again.                   *)
(***************************************************************************)
CONSTANT Addr   \* the addresses a session box may occupy

VARIABLES
    phase,  \* phase[a]: the phase of the session at address a
    held    \* the addresses the host holds a session pointer to

lcVars == <<phase, held>>

Phases == {"none", "init", "active", "done", "failed"}

LTypeOK ==
    /\ phase \in [Addr -> Phases]
    /\ held \subseteq Addr

LInit ==
    /\ phase = [a \in Addr |-> "none"]
    /\ held = {}

(* A new session at a free address, handed to the host. *)
Create(a) ==
    /\ phase[a] = "none"
    /\ phase' = [phase EXCEPT ![a] = "init"]
    /\ held' = held \cup {a}

(* The first message is produced. *)
Start(a) ==
    /\ a \in held
    /\ phase[a] = "init"
    /\ phase' = [phase EXCEPT ![a] = "active"]
    /\ UNCHANGED held

(* The last round before the result succeeds. *)
Complete(a) ==
    /\ a \in held
    /\ phase[a] = "active"
    /\ phase' = [phase EXCEPT ![a] = "done"]
    /\ UNCHANGED held

(* A running protocol fails. *)
Abort(a) ==
    /\ a \in held
    /\ phase[a] = "active"
    /\ phase' = [phase EXCEPT ![a] = "failed"]
    /\ UNCHANGED held

(* The session is destroyed, in whatever phase, and the host lets go of  *)
(* its pointer.                                                           *)
Release(a) ==
    /\ a \in held
    /\ phase[a] # "none"
    /\ phase' = [phase EXCEPT ![a] = "none"]
    /\ held' = held \ {a}

LNext == \E a \in Addr : Create(a) \/ Start(a) \/ Complete(a) \/ Abort(a) \/ Release(a)

LSpec == LInit /\ [][LNext]_lcVars

(* The host holds a pointer exactly to the addresses that hold a session. *)
HeldIsLive == held = {a \in Addr : phase[a] # "none"}

=============================================================================
