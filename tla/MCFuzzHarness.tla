--------------------------- MODULE MCFuzzHarness ---------------------------
(* Every fuzz target, with a process that seals twice. *)
EXTENDS FuzzHarness

MCTokens ==
    {RequestFields[i] : i \in DOMAIN RequestFields}
    \cup {"cipher", "content-type", "unknown", "header", "other", "raw"}

MCConfig == [t \in ClientTargets |-> client_of(t)]
MCKeys == [t \in ClientTargets |-> key_material]
MCIdentity == [t \in ClientTargets |-> [remote_signing_certificate |-> EXPECTED_REMOTE_SIGNING_CERTIFICATE]]
MCAdapter == [t \in ClientTargets |-> "Header"]
MCSchema == [t \in ClientTargets |-> IF t = "context_envelope" THEN context_schema ELSE schema]
MCPayloads == DOMAIN PlaintextLen
MCPayloadLen == PlaintextLen

\* Shorter than any frame, of whole blocks, between the two limits, and beyond both.
MCRawLengths == {4, 88, 112, 132}
=============================================================================
