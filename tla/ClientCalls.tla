---------------------------- MODULE ClientCalls ----------------------------
(***************************************************************************)
(* What one call of SecureClient::open_response computes: the adapter      *)
(* reads the response, the claimed certificate is compared, and the        *)
(* envelope is opened.  A Base64 text of the envelope is a header value or *)
(* a body like any other.                                                  *)
(***************************************************************************)
EXTENDS HeaderAdapter, EnvelopeCrypto

CONSTANTS
    Identity,       \* client -> ClientIdentity
    Adapter,        \* client -> "Header" or "Custom"
    Schema          \* client -> its HeaderSchema, the one its peer follows

as_text(base64) == [core |-> <<"base64", base64>>, pad |-> FALSE, control |-> "none"]
as_base64(text) == text.core[2]

received_envelope(cipher, wrapped, signature) ==
    [cipher |-> as_base64(cipher), wrapped_session_key |-> as_base64(wrapped),
     signature |-> as_base64(signature)]

\* Plausible slip: the claim is compared with the client's own certificate.
claim_expected_local(c, claim) == claim = Identity[c].local_certificate

claim_expected(c, claim) == claim = Identity[c].remote_signing_certificate

\* A custom adapter may fail where the header adapter does not.
Refused == [err |-> "InvalidField"]

parses(c, response) ==
    LET parsed == parse_response(Schema[c], response.headers, response.body)
    IN  IF Adapter[c] = "Header" THEN {parsed} ELSE {parsed, Refused}

open_response(c, response) ==
    UNION {IF parsed.err # "none" \/ ~claim_expected(c, parsed.remote_signing_certificate_id)
             THEN {[result |-> "ProtocolAdapter", plaintext |-> None]}
             ELSE {[result |-> outcome.result, plaintext |-> outcome.plaintext] :
                     outcome \in open(c, received_envelope(parsed.envelope.cipher,
                                                  parsed.envelope.wrapped_session_key,
                                                  parsed.envelope.signature), parsed.context)} :
           parsed \in parses(c, response)}
=============================================================================
