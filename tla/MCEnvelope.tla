----------------------------- MODULE MCEnvelope -----------------------------
(* Two organisations, A sealing and B opening, each with several clients that share *)
(* key material and differ in mode, domain, signer id, IV or limit.                 *)
EXTENDS Envelope

CONSTANTS aSign, aDecrypt, bSign, bDecrypt

MCUsizeMax == 65535

Legacy == [kind |-> "LegacyPlaintext", domain_separator |-> ""]
Bound(domain) == [kind |-> "ContextBound", domain_separator |-> domain]
BoundContext(bytes) == [kind |-> "Bound", bytes |-> bytes]

MCConfig(envelope_mode, authentication_mode, iv, limit, local_id, remote_id) ==
    [envelope_mode |-> envelope_mode, authentication_mode |-> authentication_mode, iv |-> iv,
     max_plaintext_bytes |-> limit, local_signer_id |-> local_id,
     expected_remote_signer_id |-> remote_id]

AKeys == [local_signing |-> aSign, local_decryption |-> aDecrypt,
          remote_verification |-> bSign, remote_encryption |-> bDecrypt]
BKeys == [local_signing |-> bSign, local_decryption |-> bDecrypt,
          remote_verification |-> aSign, remote_encryption |-> aDecrypt]

MCPayloadLen == [empty |-> 0, block |-> 16, over |-> 17]
MCPayloads == DOMAIN MCPayloadLen
MCContexts == {LegacyContext, BoundContext(<<"x">>), BoundContext(<<"y">>)}

\* CBC only: both authentication modes, a sealer with a larger limit, another signer id.
CbcConfig ==
    [a_legacy |-> MCConfig("LegacyCbc", Legacy, "iv", 16, "a", "b"),
     a_bound  |-> MCConfig("LegacyCbc", Bound("d"), "iv", 17, "a", "b"),
     b_legacy |-> MCConfig("LegacyCbc", Legacy, "iv", 16, "b", "a"),
     b_bound  |-> MCConfig("LegacyCbc", Bound("d"), "iv", 16, "b", "a")]
CbcSealers == {"a_legacy", "a_bound"}
CbcOpeners == {"b_legacy", "b_bound"}
CbcKeys == [c \in DOMAIN CbcConfig |-> IF c \in CbcSealers THEN AKeys ELSE BKeys]

\* Every envelope mode over the same keys, context-bound.
ModeConfig ==
    [a_cbc |-> MCConfig("LegacyCbc", Bound("d"), "iv", 17, "a", "b"),
     a_gcm |-> MCConfig("Sm4Gcm", Bound("d"), "0", 17, "a", "b"),
     a_ccm |-> MCConfig("Sm4Ccm", Bound("d"), "0", 17, "a", "b"),
     b_cbc |-> MCConfig("LegacyCbc", Bound("d"), "iv", 16, "b", "a"),
     b_gcm |-> MCConfig("Sm4Gcm", Bound("d"), "0", 17, "b", "a"),
     b_ccm |-> MCConfig("Sm4Ccm", Bound("d"), "0", 16, "b", "a")]
ModeSealers == {"a_cbc", "a_gcm", "a_ccm"}
ModeOpeners == {"b_cbc", "b_gcm", "b_ccm"}
ModeKeys == [c \in DOMAIN ModeConfig |-> IF c \in ModeSealers THEN AKeys ELSE BKeys]
ModePayloadLen == [empty |-> 0, over |-> 17]
ModePayloads == DOMAIN ModePayloadLen
=============================================================================
