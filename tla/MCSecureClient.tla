--------------------------- MODULE MCSecureClient ---------------------------
(* One organisation with a context-bound client, its replacement that trusts the peer's *)
(* next signing key, a legacy CBC client, a client with a custom adapter, and a          *)
(* configuration that does not fit its schema.                                           *)
EXTENDS SecureClient

MCUsizeMax == 65535

Name(canonical, casing) == [canonical |-> canonical, casing |-> casing]
MCTokens == {RequestFields[i] : i \in DOMAIN RequestFields} \cup {"cipher", "static", "trace"}

BoundMode == [kind |-> "ContextBound", domain_separator |-> "d"]
LegacyMode == [kind |-> "LegacyPlaintext", domain_separator |-> ""]

MCCandidates == {"current", "next", "legacy", "custom", "misfit"}
MCPeer == [current |-> "p1", next |-> "p2", legacy |-> "p3", custom |-> "p3", misfit |-> "p1"]
MCParties == MCCandidates \cup {"p1", "p2", "p3"}

MCConfig ==
    [c \in MCParties |->
        LET cbc == c \in {"legacy", "custom", "p3"}
        IN  [envelope_mode |-> IF cbc THEN "LegacyCbc" ELSE "Sm4Gcm",
             authentication_mode |-> IF cbc \/ c = "misfit" THEN LegacyMode ELSE BoundMode,
             iv |-> "iv", max_plaintext_bytes |-> 16,
             local_signer_id |-> IF c \in MCCandidates THEN "a" ELSE "b",
             expected_remote_signer_id |-> IF c \in MCCandidates THEN "b" ELSE "a"]]

MCKeys ==
    [c \in MCParties |->
        IF c \in MCCandidates
          THEN [local_signing |-> "a", local_decryption |-> "a",
                remote_verification |-> MCPeer[c], remote_encryption |-> MCPeer[c]]
          ELSE [local_signing |-> c, local_decryption |-> c,
                remote_verification |-> "a", remote_encryption |-> "a"]]

MCIdentity ==
    [c \in MCCandidates |->
        [local_identity |-> Text("a"), api_version |-> Text("v"), local_certificate |-> Text("a"),
         remote_signing_certificate |-> Text(MCPeer[c]),
         remote_encryption_certificate |-> Text(MCPeer[c])]]

MCAdapter == [c \in MCCandidates |-> IF c = "custom" THEN "Custom" ELSE "Header"]

BoundSchema ==
    [static |-> <<<<Name("static", "lower"), Text("v")>>>>,
     request |-> [f \in DOMAIN EmptyBuilder.request |-> Name(f, "lower")],
     response |-> [f \in DOMAIN EmptyBuilder.response |-> Name(f, "lower")],
     request_cipher |-> Body, response_cipher |-> InHeader(Name("cipher", "lower")),
     legacy |-> FALSE, bound |-> TRUE]
LegacySchema ==
    [BoundSchema EXCEPT !.request_cipher = InHeader(Name("cipher", "lower")),
                        !.response_cipher = Body, !.legacy = TRUE, !.bound = FALSE]
MCSchema == [c \in MCCandidates |-> IF MCConfig[c].envelope_mode = "LegacyCbc" THEN LegacySchema ELSE BoundSchema]

MCPayloadLen == [empty |-> 0, doc |-> 16, over |-> 17]
MCPayloads == DOMAIN MCPayloadLen

Given(id) == <<[request_id |-> id, request_time |-> Text("then")]>>
Call(operation, metadata, additional, value) ==
    [operation |-> operation, metadata |-> metadata, additional |-> additional, value |-> value]
Trace == <<Name("trace", "lower"), Text("t")>>
MCCalls ==
    {Call(Text("pay"), Given(Text("r")), <<>>, "doc"),
     Call(Text("refund"), Given(Text("r")), <<>>, "empty"),
     Call(Text("pay"), <<>>, <<Trace>>, "doc"),
     Call(Text("pay"), Given(Padded(Text("r"))), <<>>, "doc"),
     Call(Text("pay"), Given(With(Text("r"), "other")), <<>>, "doc"),
     Call(Text("pay"), Given(Text("r")), <<<<Name("request_id", "upper"), Text("s")>>>>, "doc"),
     Call(Text("pay"), Given(Text("r")), <<Trace, Trace>>, "doc"),
     Call(EmptyText, Given(Text("r")), <<>>, "doc"),
     Call(Text("pay"), Given(Text("r")), <<>>, "over"),
     Call(Text("pay"), Given(Text("r")), <<>>, "unserializable")}

\* Beyond two seals only the context-bound client and its replacement go on, and only
\* while every seal is in flight: no request has failed.
BoundPair == {"current", "next"}
DeepForTheBoundPair ==
    drawn > 2 => /\ clients \subseteq BoundPair
                 /\ returned.op \in {"none", "open"}
                 /\ Cardinality(requests) + Cardinality(answers) = drawn
=============================================================================
