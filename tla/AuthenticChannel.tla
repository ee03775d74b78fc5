-------------------------- MODULE AuthenticChannel --------------------------
(***************************************************************************)
(* What the envelope promises its callers, with no keys, ciphertexts or    *)
(* envelopes left: signers author messages, and a receiver is handed a     *)
(* message only if its signer authored it, in that scope, before.  A       *)
(* message may be delivered any number of times: the library leaves replay *)
(* to the application.                                                     *)
(***************************************************************************)
CONSTANTS Messages, Nothing

VARIABLES
    authored,   \* messages signed so far
    delivered   \* the plaintext held by a caller, with its claimed origin

cvars == <<authored, delivered>>

Init ==
    /\ authored = {}
    /\ delivered = Nothing

Author(m) ==
    /\ authored' = authored \cup {m}
    /\ UNCHANGED delivered

Deliver(m) ==
    /\ m \in authored
    /\ delivered' = m
    /\ UNCHANGED authored

Withhold ==
    /\ delivered' = Nothing
    /\ UNCHANGED authored

Next ==
    \/ \E m \in Messages : Author(m)
    \/ \E m \in Messages : Deliver(m)
    \/ Withhold

Spec == Init /\ [][Next]_cvars
=============================================================================
