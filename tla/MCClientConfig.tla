--------------------------- MODULE MCClientConfig ---------------------------
(* Builders with and without the aead feature; lengths and limits on both sides of *)
(* every bound the code states.                                                     *)
EXTENDS ClientConfig

MCBase ==
    {[aead |-> feature,
      local_identity_id |-> <<Text("id")>>, api_version |-> <<Text("id")>>,
      local_certificate_id |-> <<Text("id")>>,
      expected_remote_signing_certificate_id |-> <<Text("id")>>,
      remote_encryption_certificate_id |-> <<Text("id")>>,
      local_signer_id |-> <<1>>, expected_remote_signer_id |-> <<1>>,
      authentication_mode |-> m, iv |-> v, envelope_mode |-> <<>>, max_plaintext_bytes |-> <<>>] :
        feature \in BOOLEAN, v \in {<<>>, <<"iv">>},
        m \in {<<>>, <<[kind |-> "LegacyPlaintext", domain_separator |-> 0]>>}}
MCTexts == {Text("other"), Padded(Text("id")), EmptyText, With(Text("id"), "line"), With(Text("id"), "other")}
MCByteLens == {0, 1, 8191, 8192}
MCLimits == {0, 1, 16777215, 16777216}
=============================================================================
