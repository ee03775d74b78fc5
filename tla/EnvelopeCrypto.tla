--------------------------- MODULE EnvelopeCrypto ---------------------------
(***************************************************************************)
(* What one call of SecureClient::seal or SecureClient::open computes, for *)
(* immutable clients of any envelope and authentication mode.              *)
(*                                                                         *)
(* Byte strings are symbolic: a record whose form says how the bytes were  *)
(* made.  SM2, SM4 and Base64 are external and modelled by what the code   *)
(* relies on: an SM2 ciphertext opens only under its key, a signature      *)
(* verifies only for its key, id and message, an AEAD frame decrypts only  *)
(* under its key, nonce, algorithm and AAD, and CBC decryption of anything *)
(* but its own ciphertext yields either a padding failure or other bytes.  *)
(***************************************************************************)
EXTENDS EnvelopeLimits

CONSTANTS
    Config,         \* client -> ClientConfig
    Keys,           \* client -> KeyMaterial
    Payloads,       \* application plaintexts
    EmptyPayload,   \* the zero-length one
    PayloadLen      \* plaintext -> byte length

\* Envelopes are made of allocated strings, so what they carry is small enough for that.
ASSUME PayloadAssumption ==
    /\ PayloadLen \in [Payloads -> Nat]
    /\ \A p \in Payloads : Fits(cbc_cipher_len(PayloadLen[p])) /\ Fits(frame_len(PayloadLen[p]))
    /\ EmptyPayload \in Payloads
    /\ PayloadLen[EmptyPayload] = 0

\* What ClientConfigBuilder::build guarantees: the limit is a nonzero usize, a legacy mode
\* has no domain separator and a context-bound one has a non-empty one.
Configured(c) ==
    /\ Config[c].envelope_mode \in {"LegacyCbc", "Sm4Gcm", "Sm4Ccm"}
    /\ Config[c].max_plaintext_bytes \in 1..UsizeMax
    /\ Config[c].authentication_mode.kind \in {"LegacyPlaintext", "ContextBound"}
    /\ Config[c].authentication_mode.kind = "LegacyPlaintext"
          <=> Config[c].authentication_mode.domain_separator = ""

-----------------------------------------------------------------------------
(* Bytes. *)

None == [form |-> "none"]       \* no bytes: Err, or a Base64 text that does not decode
Noise == [form |-> "noise"]     \* decodable bytes that are no cryptographic object
PayloadBytes(p) == [form |-> "payload", payload |-> p]
Scrambled(n) == [form |-> "scrambled", len |-> n]
Cbc(key, iv, p) == [form |-> "cbc", key |-> key, iv |-> iv, payload |-> p]
Wrap(to, key, n) == [form |-> "wrap", to |-> to, key |-> key, len |-> n]
Signature(by, id, msg) == [form |-> "signature", by |-> by, id |-> id, msg |-> msg]

WRAP_BYTES == 112
SIGNATURE_BYTES == 64

byte_len(b) ==
    CASE b.form = "payload"   -> PayloadLen[b.payload]
      [] b.form = "scrambled" -> b.len
      [] b.form = "cbc"       -> cbc_cipher_len(PayloadLen[b.payload])
      [] b.form = "frame"     -> frame_len(PayloadLen[b.payload])
      [] b.form = "wrap"      -> WRAP_BYTES
      [] OTHER                -> SIGNATURE_BYTES

\* A Base64 text: its length, and the bytes it decodes to.
encode(b) == [len |-> encoded_len(byte_len(b)), bytes |-> b]
Undecodable(n) == [len |-> n, bytes |-> None]

-----------------------------------------------------------------------------
(* Authentication (src/auth.rs). *)

LegacyContext == [kind |-> "Legacy", bytes |-> <<>>]

kinds_match(mode, context) ==
    \/ mode.kind = "LegacyPlaintext" /\ context.kind = "Legacy"
    \/ mode.kind = "ContextBound" /\ context.kind = "Bound"

\* Plausible slip: the protocol context is left out of the transcript.
authentication_input_no_context(mode, context, bytes) ==
    IF ~kinds_match(mode, context) THEN None
    ELSE IF mode.kind = "LegacyPlaintext" THEN bytes
    ELSE [form |-> "transcript", domain |-> mode.domain_separator, context |-> <<>>, body |-> bytes]

authentication_input(mode, context, bytes) ==
    IF ~kinds_match(mode, context) THEN None
    ELSE IF mode.kind = "LegacyPlaintext" THEN bytes
    ELSE [form |-> "transcript", domain |-> mode.domain_separator,
          context |-> context.bytes, body |-> bytes]

\* Under LegacyPlaintext the last two fields are empty; domain_separator and the
\* bytes of the Legacy marker are empty there.
aead_aad(mode, context, frame_header) ==
    IF ~kinds_match(mode, context) THEN None
    ELSE [form |-> "aad", header |-> frame_header, domain |-> mode.domain_separator,
          context |-> context.bytes]

verify_with_id(c, msg, signature) ==
    signature = Signature(Keys[c].remote_verification, Config[c].expected_remote_signer_id, msg)

-----------------------------------------------------------------------------
(* Seal (src/envelope_crypto). *)

is_aead(c) == Config[c].envelope_mode # "LegacyCbc"

aead_encrypt(c, draw, context, p) ==
    LET frame_header == [version |-> 1, algorithm |-> Config[c].envelope_mode, nonce |-> draw]
    IN  [form |-> "frame", header |-> frame_header, payload |-> p,
         body |-> [algorithm |-> Config[c].envelope_mode, key |-> draw, nonce |-> draw,
                   aad |-> aead_aad(Config[c].authentication_mode, context, frame_header)]]

encrypt(c, draw, context, p) ==
    IF is_aead(c) THEN aead_encrypt(c, draw, context, p) ELSE Cbc(draw, Config[c].iv, p)

\* The envelope of a successful call is a function of the call and what it drew.
envelope_of(s) ==
    [cipher |-> encode(encrypt(s.by, s.draw, s.context, s.payload)),
     wrapped_session_key |-> encode(Wrap(Keys[s.by].remote_encryption, s.draw, SESSION_KEY_BYTES)),
     signature |-> encode(Signature(Keys[s.by].local_signing, Config[s.by].local_signer_id,
                              authentication_input(Config[s.by].authentication_mode, s.context,
                                                   PayloadBytes(s.payload))))]

seal_error(c, p, context) ==
    IF PayloadLen[p] > Config[c].max_plaintext_bytes THEN "MessageTooLarge"
    ELSE IF ~kinds_match(Config[c].authentication_mode, context) THEN "AuthenticationContext"
    ELSE "none"

-----------------------------------------------------------------------------
(* Open (src/envelope_crypto): each operator is the set of outcomes a call may have. *)

\* An Err, after so many SM2 verifications.
failed(result, verifies, unwrapped) ==
    [result |-> result, plaintext |-> None, verifies |-> verifies, unwrapped |-> unwrapped]

released(plaintext) ==
    [result |-> "Ok", plaintext |-> plaintext, verifies |-> 1, unwrapped |-> TRUE]

unwraps(c, b) ==
    b.form = "wrap" /\ b.to = Keys[c].local_decryption /\ b.len = SESSION_KEY_BYTES

auxiliary_too_long(envelope) ==
    \/ envelope.wrapped_session_key.len > MAX_AUXILIARY_BASE64_BYTES
    \/ envelope.signature.len > MAX_AUXILIARY_BASE64_BYTES

undecodable(envelope) ==
    \/ envelope.cipher.bytes = None
    \/ envelope.wrapped_session_key.bytes = None
    \/ envelope.signature.bytes = None

cbc_decrypt(key, iv, b) ==
    LET n == byte_len(b)
    IN  IF n = 0 \/ n % SM4_BLOCK_BYTES # 0 THEN {None}
        ELSE IF b.form = "cbc" /\ b = Cbc(key, iv, b.payload) THEN {PayloadBytes(b.payload)}
        ELSE {None, Scrambled(n - SM4_BLOCK_BYTES), Scrambled(n - 1)}

\* What open establishes after unwrapping.  When decryption fails the raw ciphertext
\* stands in for the plaintext, and an empty transcript for a context that does not fit.
cbc_checks(c, cipher, decrypted, context, signature) ==
    LET plaintext == IF decrypted # None THEN decrypted ELSE cipher
        input == authentication_input(Config[c].authentication_mode, context, plaintext)
        transcript == IF input # None THEN input ELSE PayloadBytes(EmptyPayload)
    IN  [plaintext |-> plaintext,
         padding_ok |-> decrypted # None,
         length_ok |-> byte_len(plaintext) <= Config[c].max_plaintext_bytes,
         input_ok |-> input # None,
         verified |-> verify_with_id(c, transcript, signature)]

\* Plausible slips: one of the conjuncts is forgotten.
cbc_accepts_any_length(k) == k.padding_ok /\ k.input_ok /\ k.verified
cbc_accepts_unverified(k) == k.padding_ok /\ k.length_ok /\ k.input_ok

cbc_accepts(k) == k.padding_ok /\ k.length_ok /\ k.input_ok /\ k.verified

\* Plausible slip: a padding failure returns before the signature is verified.
cbc_finish_early_return(k) ==
    IF ~k.padding_ok THEN failed("InvalidEnvelope", 0, TRUE)
    ELSE IF cbc_accepts(k) THEN released(k.plaintext) ELSE failed("InvalidEnvelope", 1, TRUE)

cbc_finish(k) ==
    IF cbc_accepts(k) THEN released(k.plaintext) ELSE failed("InvalidEnvelope", 1, TRUE)

cbc_open(c, envelope, context) ==
    LET cipher == envelope.cipher.bytes
        wrapped == envelope.wrapped_session_key.bytes
        gate == CbcGate(Config[c].max_plaintext_bytes, envelope.cipher.len, byte_len(cipher))
    IN  IF gate = "MessageTooLarge" THEN {failed("MessageTooLarge", 0, FALSE)}
        ELSE IF \/ auxiliary_too_long(envelope) \/ undecodable(envelope)
                \/ gate # "decoded" \/ ~unwraps(c, wrapped)
          THEN {failed("InvalidEnvelope", 0, FALSE)}
        ELSE {cbc_finish(cbc_checks(c, cipher, decrypted, context, envelope.signature.bytes)) :
                  decrypted \in cbc_decrypt(wrapped.key, Config[c].iv, cipher)}

\* Plausible slip: the algorithm is taken from the frame instead of the configuration.
configured_algorithm_from_frame(c, frame) ==
    IF frame.form = "frame" THEN frame.header.algorithm ELSE Config[c].envelope_mode

\* The algorithm open works with: the one pinned by the configuration.
configured_algorithm(c, frame) == Config[c].envelope_mode

\* Whether the first two bytes are the expected version and algorithm.  Bytes that are
\* no frame may have any values there.
header_verdicts(c, frame) ==
    IF frame.form = "frame"
      THEN {frame.header.version = 1 /\ frame.header.algorithm = configured_algorithm(c, frame)}
      ELSE BOOLEAN

\* Plausible slip: the AAD is not handed to the cipher.
aead_decrypt_no_aad(algorithm, key, aad, frame) ==
    IF /\ frame.form = "frame"
       /\ frame.body = [algorithm |-> algorithm, key |-> key,
                        nonce |-> frame.header.nonce, aad |-> frame.body.aad]
      THEN PayloadBytes(frame.payload)
      ELSE None

aead_decrypt(algorithm, key, aad, frame) ==
    IF /\ frame.form = "frame"
       /\ frame.body = [algorithm |-> algorithm, key |-> key,
                        nonce |-> frame.header.nonce, aad |-> aad]
      THEN PayloadBytes(frame.payload)
      ELSE None

aead_finish(c, frame, key, context, signature) ==
    LET mode == Config[c].authentication_mode
        aad == IF frame.form = "frame" THEN aead_aad(mode, context, frame.header) ELSE None
        plaintext == aead_decrypt(configured_algorithm(c, frame), key, aad, frame)
        input == authentication_input(mode, context, plaintext)
    IN  IF ~kinds_match(mode, context) \/ plaintext = None
          THEN failed("InvalidEnvelope", 0, TRUE)
        ELSE IF verify_with_id(c, input, signature) THEN released(plaintext)
        ELSE failed("InvalidEnvelope", 1, TRUE)

aead_open(c, envelope, context) ==
    LET frame == envelope.cipher.bytes
        wrapped == envelope.wrapped_session_key.bytes
        gate == FrameGate(Config[c].max_plaintext_bytes, envelope.cipher.len, byte_len(frame))
    IN  IF gate = "MessageTooLarge" THEN {failed("MessageTooLarge", 0, FALSE)}
        ELSE IF auxiliary_too_long(envelope) \/ undecodable(envelope) \/ gate # "decoded"
          THEN {failed("InvalidEnvelope", 0, FALSE)}
        ELSE {IF header_ok /\ unwraps(c, wrapped)
                THEN aead_finish(c, frame, wrapped.key, context, envelope.signature.bytes)
                ELSE failed("InvalidEnvelope", 0, FALSE) : header_ok \in header_verdicts(c, frame)}

open(c, envelope, context) ==
    IF is_aead(c) THEN aead_open(c, envelope, context) ELSE cbc_open(c, envelope, context)

\* s was sealed for c: every pinned setting of the two clients agrees.
SealedFor(s, c) ==
    /\ Keys[s.by].remote_encryption = Keys[c].local_decryption
    /\ Keys[s.by].local_signing = Keys[c].remote_verification
    /\ Config[s.by].local_signer_id = Config[c].expected_remote_signer_id
    /\ Config[s.by].envelope_mode = Config[c].envelope_mode
    /\ Config[s.by].iv = Config[c].iv
    /\ Config[s.by].authentication_mode = Config[c].authentication_mode
    /\ PayloadLen[s.payload] <= Config[c].max_plaintext_bytes
=============================================================================
