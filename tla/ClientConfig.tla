---------------------------- MODULE ClientConfig ----------------------------
(***************************************************************************)
(* ClientConfigBuilder: setters in any order, then build.  An optional     *)
(* field is a sequence of at most one value; signer ids and domain         *)
(* separators are represented by their byte lengths.                       *)
(***************************************************************************)
EXTENDS HeaderCollection, EnvelopeLimits

CONSTANTS
    Base,           \* builders on which every setter the feature set needs has been called
    Texts,          \* texts callers pass as identifiers
    ByteLens,       \* byte lengths of the signer ids and domain separators they pass
    Limits,         \* plaintext limits they pass
    MaxSets         \* bound: further setter calls

IdentityFields ==
    {"local_identity_id", "api_version", "local_certificate_id",
     "expected_remote_signing_certificate_id", "remote_encryption_certificate_id"}
SignerFields == {"local_signer_id", "expected_remote_signer_id"}
Modes == {"LegacyCbc", "Sm4Gcm", "Sm4Ccm"}
BuilderFields ==
    IdentityFields \cup SignerFields
    \cup {"aead", "authentication_mode", "iv", "envelope_mode", "max_plaintext_bytes"}

ASSUME SetsBound == MaxSets \in Nat
ASSUME BaseAssumption ==
    \A b \in Base :
        /\ DOMAIN b = BuilderFields /\ b = [f \in BuilderFields |-> b[f]]
        /\ b["max_plaintext_bytes"] = <<>>
        /\ \A f \in SignerFields : b[f] = <<>> \/ \E n \in ByteLens : b[f] = <<n>>
ASSUME LimitsAssumption == Limits \subseteq 0..UsizeMax
ASSUME ByteLensAssumption == ByteLens \subseteq Nat

\* A 32-bit or larger target: the literals below are usize constants.
ASSUME ConstantsFitUsize == UsizeMax >= 16777216

DEFAULT_MAX_PLAINTEXT_BYTES == 16 * 1024 * 1024
SM4_CCM_MAX_PLAINTEXT_BYTES == 16777215
SM4_CCM_DEFAULT_MAX_PLAINTEXT_BYTES == 64 * 1024
MAX_SIGNER_ID_BYTES == 65535 \div 8

VARIABLES
    builder,
    sets,           \* setter calls made
    built           \* what build returned; its err is "pending" before it is called

cvars == <<builder, sets, built>>

-----------------------------------------------------------------------------
(* build. *)

Err(field) == [err |-> field]

required_header_value(value) == value # <<>> /\ validate_context_value(value[1])

\* Plausible slip: the limit on the length in bits is applied to the length in bytes.
required_signer_id_bits(value) == value # <<>> /\ value[1] > 0 /\ value[1] <= 65535

required_signer_id(value) == value # <<>> /\ value[1] > 0 /\ value[1] <= MAX_SIGNER_ID_BYTES

\* AuthenticationMode::validate.
validate(mode) == mode.kind = "ContextBound" => mode.domain_separator > 0

\* Without the aead feature there is no envelope mode, and the payload is CBC.
envelope_mode_of(b) ==
    IF ~b.aead THEN "LegacyCbc" ELSE IF b.envelope_mode = <<>> THEN "unset" ELSE b.envelope_mode[1]

default_limit(mode) ==
    IF mode = "Sm4Ccm" THEN SM4_CCM_DEFAULT_MAX_PLAINTEXT_BYTES ELSE DEFAULT_MAX_PLAINTEXT_BYTES

limit_of(b) ==
    IF b.max_plaintext_bytes = <<>> THEN default_limit(envelope_mode_of(b)) ELSE b.max_plaintext_bytes[1]

limit_ok(mode, limit) == limit # 0 /\ (mode = "Sm4Ccm" => limit <= SM4_CCM_MAX_PLAINTEXT_BYTES)

\* The fields in the order they are checked, with the verdict on each.
checks(b) ==
    <<<<"local_identity_id", required_header_value(b.local_identity_id)>>,
      <<"api_version", required_header_value(b.api_version)>>,
      <<"local_certificate_id", required_header_value(b.local_certificate_id)>>,
      <<"expected_remote_signing_certificate_id",
          required_header_value(b.expected_remote_signing_certificate_id)>>,
      <<"remote_encryption_certificate_id", required_header_value(b.remote_encryption_certificate_id)>>,
      <<"local_signer_id", required_signer_id(b.local_signer_id)>>,
      <<"expected_remote_signer_id", required_signer_id(b.expected_remote_signer_id)>>,
      <<"envelope_mode", envelope_mode_of(b) # "unset">>,
      <<"iv", IF envelope_mode_of(b) = "LegacyCbc" THEN b.iv # <<>> ELSE b.iv = <<>>>>,
      <<"authentication_mode", b.authentication_mode # <<>>>>,
      <<"domain_separator", b.authentication_mode # <<>> => validate(b.authentication_mode[1])>>,
      <<"max_plaintext_bytes", limit_ok(envelope_mode_of(b), limit_of(b))>>>>

build(b) ==
    LET failing == {i \in DOMAIN checks(b) : ~checks(b)[i][2]}
    IN  IF failing # {} THEN Err(checks(b)[Min(failing)][1])
        ELSE [err |-> "none",
              envelope_mode |-> envelope_mode_of(b),
              iv |-> b.iv,
              authentication_mode |-> b.authentication_mode[1],
              max_plaintext_bytes |-> limit_of(b)]

-----------------------------------------------------------------------------

ConfigInit ==
    /\ builder \in Base
    /\ sets = 0
    /\ built = Err("pending")

Setter == sets < MaxSets /\ built = Err("pending") /\ sets' = sets + 1 /\ UNCHANGED built

SetIdentity(f, text) == Setter /\ builder' = [builder EXCEPT ![f] = <<text>>]

SetSignerId(f, len) == Setter /\ builder' = [builder EXCEPT ![f] = <<len>>]

authentication_mode(mode) == Setter /\ builder' = [builder EXCEPT !.authentication_mode = <<mode>>]

iv == Setter /\ builder' = [builder EXCEPT !.iv = <<"iv">>]

envelope_mode(mode) ==
    Setter /\ builder.aead /\ builder' = [builder EXCEPT !.envelope_mode = <<mode>>]

max_plaintext_bytes(limit) ==
    Setter /\ builder' = [builder EXCEPT !.max_plaintext_bytes = <<limit>>]

Build ==
    /\ built = Err("pending")
    /\ built' = build(builder)
    /\ UNCHANGED <<builder, sets>>

\* The variants are public, so a context-bound mode may hold an empty separator.
AuthenticationModes ==
    {[kind |-> "LegacyPlaintext", domain_separator |-> 0]}
    \cup {[kind |-> "ContextBound", domain_separator |-> n] : n \in ByteLens}

ConfigNext ==
    \/ \E f \in IdentityFields, text \in Texts : SetIdentity(f, text)
    \/ \E f \in SignerFields, len \in ByteLens : SetSignerId(f, len)
    \/ \E mode \in AuthenticationModes : authentication_mode(mode)
    \/ iv
    \/ \E mode \in Modes : envelope_mode(mode)
    \/ \E limit \in Limits : max_plaintext_bytes(limit)
    \/ Build

ConfigSpec == ConfigInit /\ [][ConfigNext]_cvars

-----------------------------------------------------------------------------
(* Properties. *)

\* The plaintext limit, defaulted or explicit, is a nonzero usize that the three-byte length
\* field of SM4-CCM can express when that is the algorithm, an IV exists exactly for the
\* mode that reads it, and a context-bound mode has a domain separator.
ModesHaveWhatTheyRead ==
    built.err = "none" =>
        /\ built.max_plaintext_bytes \in 1..UsizeMax
        /\ built.envelope_mode = "Sm4Ccm" => built.max_plaintext_bytes < 256 * 256 * 256
        /\ (built.iv # <<>>) <=> (built.envelope_mode = "LegacyCbc")
        /\ built.authentication_mode.kind = "ContextBound" => built.authentication_mode.domain_separator > 0

\* SM2 hashes the length of the signer id in bits as a 16-bit number: for no configuration
\* build returns does that length overflow, nor is an id empty.
SignerIdsFitTheirLengthField ==
    built.err = "none" =>
        \A f \in SignerFields : builder[f][1] > 0 /\ builder[f][1] * 8 < 65536

\* Whatever was set in whatever order, a configuration build returns is one the envelope
\* code can run.
BuiltConfigsAreRunnable == ModesHaveWhatTheyRead /\ SignerIdsFitTheirLengthField

\* The identity holds values that may be placed in transport headers, as ClientIdentity says.
IdentityFitsHeaders ==
    built.err = "none" => \A f \in IdentityFields : HeaderValue_new(builder[f][1])
=============================================================================
