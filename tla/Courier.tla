------------------------------ MODULE Courier ------------------------------
(***************************************************************************)
(* What the link promises about the operator's messages, seen from         *)
(* outside: each is accepted at most once, goes on the air at most once,   *)
(* one at a time, and once it is settled nothing more happens to it.       *)
(***************************************************************************)
CONSTANT Msgs

VARIABLE phase

Phases == {"new", "accepted", "onair", "settled"}

CourierTypeOK == phase \in [Msgs -> Phases]

CourierInit == phase = [m \in Msgs |-> "new"]

Accept(m) == phase[m] = "new" /\ phase' = [phase EXCEPT ![m] = "accepted"]

Reject(m) == phase[m] = "new" /\ phase' = [phase EXCEPT ![m] = "settled"]

Air(m) ==
    /\ phase[m] = "accepted"
    /\ \A n \in Msgs : phase[n] # "onair"
    /\ phase' = [phase EXCEPT ![m] = "onair"]

\* Sent, failed, stopped, or lost together with the worker that held it.
Settle(S) ==
    /\ S # {} /\ \A m \in S : phase[m] \in {"accepted", "onair"}
    /\ phase' = [m \in Msgs |-> IF m \in S THEN "settled" ELSE phase[m]]

CourierNext ==
    \/ \E m \in Msgs : Accept(m) \/ Reject(m) \/ Air(m)
    \/ \E S \in SUBSET Msgs : Settle(S)

CourierSpec == CourierInit /\ [][CourierNext]_phase
=============================================================================
