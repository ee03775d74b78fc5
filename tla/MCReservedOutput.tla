-------------------------- MODULE MCReservedOutput --------------------------
(* Instances of ReservedOutput. *)
EXTENDS ReservedOutput

TwoArtifacts == <<"archive", "SHA256SUMS">>

\* Where the script checks again before it acts.
CheckedPoints == Commands \ Unchecked

AllPoints == Commands
=============================================================================
