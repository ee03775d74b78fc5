---------------------------- MODULE FuzzHarness ----------------------------
(***************************************************************************)
(* The six fuzz targets (fuzz/fuzz_targets), driving the modelled adapter, *)
(* header collections and client with every choice their input selects.    *)
(*                                                                         *)
(* A target is a process of its own, with a fixed client and an envelope   *)
(* that is sealed on first use; the bytes of an input are the choices they *)
(* make.  Randomness and key set-up succeed, as the harness expects them   *)
(* to, and raw bytes never happen to be an envelope.  A header is named    *)
(* after its field: requests and responses are not mixed here.             *)
(***************************************************************************)
EXTENDS ClientCalls

CONSTANTS
    RawLengths,     \* lengths of the raw texts an input may bring for a field
    MaxSeals        \* bound: seals of one process

ASSUME RawLengthsAssumption == RawLengths \subseteq Nat \ {0}

VARIABLES
    binary,     \* the fuzz target this process runs
    sealed,     \* its seal calls
    drawn,
    returned    \* the last input and what came of it

fvars == <<binary, sealed, drawn, returned>>

MAX_PLAINTEXT_BYTES == 64
AUXILIARY_LIMIT == 16 * 1024
AEAD_FRAME_OVERHEAD_BYTES == 30
AEAD_CIPHER_LIMIT == ((MAX_PLAINTEXT_BYTES + AEAD_FRAME_OVERHEAD_BYTES + 2) \div 3) * 4
PADDED_CIPHER_BYTES == (MAX_PLAINTEXT_BYTES \div 16 + 1) * 16
CIPHER_LIMIT == ((PADDED_CIPHER_BYTES + 2) \div 3) * 4

-----------------------------------------------------------------------------
(* Declared scenarios. *)

TransportScenarios ==
    {"Success", "Duplicate", "Unknown", "Missing", "HeaderCipherSuccess", "HeaderCipherMissing",
     "HeaderCipherEmpty", "HeaderCipherDuplicate"}
TypedScenarios == {"Valid", "Duplicate"}
ContextScenarios == {"RoundTrip", "MismatchedContext", "LegacyMarker", "OversizePlaintext", "Generic"}

expected_outcome(scenario) ==
    IF scenario \in {"Success", "Unknown", "HeaderCipherSuccess", "Valid", "RoundTrip"}
      THEN "Accepted" ELSE "Rejected"

outcome_of(ok) == IF ok THEN "Accepted" ELSE "Rejected"

-----------------------------------------------------------------------------
(* Schemas and clients. *)

\* The names the targets write are header names.
ASSUME NamesAssumption ==
    {RequestFields[i] : i \in DOMAIN RequestFields} \cup {"cipher", "content-type", "header", "other"}
        \subseteq Tokens

Name(field, casing) == [canonical |-> field, casing |-> casing]

fuzz_schema(response_cipher, bound) ==
    [static |-> <<<<Name("content-type", "canonical"), Text("octets")>>>>,
     request |-> [f \in DOMAIN EmptyBuilder.request |-> Name(f, "canonical")],
     response |-> [f \in DOMAIN EmptyBuilder.response |-> Name(f, "canonical")],
     request_cipher |-> Body, response_cipher |-> response_cipher,
     legacy |-> ~bound, bound |-> bound]

schema == fuzz_schema(Body, FALSE)
header_cipher_schema == fuzz_schema(InHeader(Name("cipher", "canonical")), FALSE)
context_schema == fuzz_schema(Body, TRUE)

EnvelopeTargets == {"encoded_envelope", "aead_envelope", "aead_ccm_envelope"}
ClientTargets == EnvelopeTargets \cup {"context_envelope"}

client_config(envelope_mode, authentication_mode) ==
    [envelope_mode |-> envelope_mode, authentication_mode |-> authentication_mode,
     iv |-> "iv", max_plaintext_bytes |-> MAX_PLAINTEXT_BYTES,
     local_signer_id |-> "fuzz-signer", expected_remote_signer_id |-> "fuzz-signer"]

LegacyPlaintext == [kind |-> "LegacyPlaintext", domain_separator |-> ""]

client == client_config("LegacyCbc", LegacyPlaintext)
context_client == client_config("LegacyCbc", [kind |-> "ContextBound", domain_separator |-> "fuzz"])
aead_client_with(algorithm) == client_config(algorithm, LegacyPlaintext)

client_of(t) ==
    CASE t = "context_envelope" -> context_client
      [] t = "aead_envelope" -> aead_client_with("Sm4Gcm")
      [] t = "aead_ccm_envelope" -> aead_client_with("Sm4Ccm")
      [] OTHER -> client

\* One key serves both roles of both sides.
key_material ==
    [local_signing |-> "k", local_decryption |-> "k", remote_verification |-> "k", remote_encryption |-> "k"]

\* Plaintexts and their lengths; "valid" is VALID_PLAINTEXT.
PlaintextLen == [empty |-> 0, valid |-> 13, full |-> MAX_PLAINTEXT_BYTES, over |-> MAX_PLAINTEXT_BYTES + 1]

EXPECTED_REMOTE_SIGNING_CERTIFICATE == Text("fuzz-certificate")

\* A client is named after its target.
ASSUME ClientsAssumption ==
    /\ Config = [t \in ClientTargets |-> client_of(t)]
    /\ Keys = [t \in ClientTargets |-> key_material]
    /\ Identity = [t \in ClientTargets |->
                      [remote_signing_certificate |-> EXPECTED_REMOTE_SIGNING_CERTIFICATE]]
    /\ Adapter = [t \in ClientTargets |-> "Header"]
    /\ Schema = [t \in ClientTargets |-> IF t = "context_envelope" THEN context_schema ELSE schema]
    /\ Payloads = DOMAIN PlaintextLen /\ EmptyPayload = "empty" /\ PayloadLen = PlaintextLen

Idle == [kind |-> "none"]

Init ==
    /\ binary \in ClientTargets \cup {"transport_parts", "typed_headers"}
    /\ sealed = {} /\ drawn = 0
    /\ returned = Idle

-----------------------------------------------------------------------------
(* transport_parts. *)

pair_of(field, casing, token) == <<Name(field, casing), Text(token)>>

Complete ==
    <<pair_of("signature", "canonical", "signature"),
      pair_of("wrapped_session_key", "canonical", "wrapped"),
      <<Name("remote_signing_certificate", "canonical"), EXPECTED_REMOTE_SIGNING_CERTIFICATE>>>>

scenario_headers(scenario) ==
    CASE scenario = "Duplicate" ->
           <<pair_of("signature", "canonical", "first"), pair_of("signature", "lower", "second")>>
              \o Tail(Complete)
      [] scenario = "Unknown" -> <<pair_of("unknown", "canonical", "ignored")>> \o Complete
      [] scenario = "Missing" -> <<Complete[1]>>
      [] scenario = "HeaderCipherSuccess" -> Append(Complete, pair_of("cipher", "canonical", "cipher"))
      [] scenario = "HeaderCipherEmpty" -> Append(Complete, <<Name("cipher", "canonical"), EmptyText>>)
      [] scenario = "HeaderCipherDuplicate" ->
           Complete \o <<pair_of("cipher", "canonical", "first"), pair_of("cipher", "lower", "second")>>
      [] OTHER -> Complete

scenario_schema(scenario) ==
    IF scenario \in {"Success", "Duplicate", "Unknown", "Missing"} THEN schema ELSE header_cipher_schema

transport_outcome(scenario) ==
    outcome_of(parse_response(scenario_schema(scenario), scenario_headers(scenario), Text("body")).err
                   = "none")

\* The names a selector byte picks for a slot; a raw name is one of these or unknown.
transport_names(fields, slot) ==
    {Name(fields[slot], casing) : casing \in {"canonical", "lower", "mixed"}}
    \cup {Name(fields[k], "canonical") : k \in DOMAIN fields}
    \cup {Name("unknown", "canonical"), Name("", "canonical")}

\* A header per slot.
paired(n, names, values) == [i \in 1..n |-> <<names[i], values[i]>>]

arranged(headers, order) == [i \in DOMAIN order |-> headers[order[i]]]

\* The first header again: not at all, as it is, or with its name in lower case.
repeated(headers, selector) ==
    CASE selector % 3 = 0 -> headers
      [] selector % 3 = 1 -> Append(headers, headers[1])
      [] OTHER -> Append(headers, <<[headers[1][1] EXCEPT !.casing = "lower"], headers[1][2]>>)

TransportOrders == <<<<1, 2, 3>>, <<2, 1, 3>>, <<1, 3, 2>>, <<3, 2, 1>>, <<2, 3, 1>>, <<3, 1, 2>>>>
HeaderCipherOrders ==
    <<<<1, 2, 3, 4>>, <<4, 1, 2, 3>>, <<1, 2, 4, 3>>, <<4, 3, 2, 1>>, <<1, 4, 2, 3>>, <<2, 1, 3, 4>>>>

\* Bound: values are plain but for one, which is blank or has a line break in it.
FieldValues(slots_of) ==
    LET plain == [i \in slots_of |-> Text("value")]
    IN  {plain} \cup {[plain EXCEPT ![i] = odd] :
                          i \in slots_of, odd \in {Padded(EmptyText), With(Text("value"), "line")}}

HeaderCipherFields == Append(ResponseFields, "cipher")

generic_transport_parts ==
    {repeated(arranged(paired(3, names, values), TransportOrders[order]), repetition) :
        names \in transport_names(ResponseFields, 1) \X transport_names(ResponseFields, 2)
                    \X transport_names(ResponseFields, 3),
        values \in FieldValues(1..3), order \in 1..6, repetition \in 0..2}

\* One byte selects the order and the repetition.
generic_header_cipher_parts ==
    {repeated(arranged(paired(4, names, values), HeaderCipherOrders[packed + 1]), packed) :
        names \in transport_names(HeaderCipherFields, 1) \X transport_names(HeaderCipherFields, 2)
                    \X transport_names(HeaderCipherFields, 3) \X transport_names(HeaderCipherFields, 4),
        values \in FieldValues(1..4), packed \in 0..5}

\* What the adapter of this schema makes of any parts.
Parse(adapter_schema, all_headers) ==
    \E headers \in all_headers, body \in {Text("body"), EmptyText} :
        returned' = [kind |-> "parse", schema |-> adapter_schema, headers |-> headers, body |-> body,
                     outcome |-> outcome_of(parse_response(adapter_schema, headers, body).err = "none")]

Declared(scenario, outcome) == returned' = [kind |-> "declared", scenario |-> scenario, outcome |-> outcome]

TransportInput ==
    /\ binary = "transport_parts" /\ returned = Idle
    /\ \/ \E scenario \in TransportScenarios : Declared(scenario, transport_outcome(scenario))
       \/ Parse(header_cipher_schema, generic_header_cipher_parts)
       \/ Parse(schema, generic_transport_parts)
    /\ UNCHANGED <<binary, sealed, drawn>>

-----------------------------------------------------------------------------
(* typed_headers. *)

typed_outcome(scenario) ==
    LET first == pair_of("header", "canonical", "first")
        second == IF scenario = "Valid" THEN pair_of("other", "canonical", "second")
                                        ELSE pair_of("header", "lower", "second")
    IN  outcome_of(/\ HeaderName_new(first[1]) /\ HeaderValue_new(first[2])
                   /\ RequestParts_new(<<first, second>>).err = "none")

\* A raw name is one of these, another token or no token.
typed_names(slot) ==
    {Name(IF slot = 1 THEN "header" ELSE "other", casing) : casing \in {"canonical", "lower", "mixed"}}
    \cup {Name("header", "lower"), Name("other", "canonical"), Name("", "canonical"),
          Name("raw", "canonical"), Name("no token", "canonical")}

\* Swapping the names or the values changes their order only.
generic_typed_parts ==
    {repeated(paired(2, arranged(names, order), values), repetition) :
        names \in typed_names(1) \X typed_names(2), order \in {<<1, 2>>, <<2, 1>>},
        values \in FieldValues(1..2), repetition \in 0..2}

TypedInput ==
    /\ binary = "typed_headers" /\ returned = Idle
    /\ \/ \E scenario \in TypedScenarios : Declared(scenario, typed_outcome(scenario))
       \/ \E headers \in generic_typed_parts :
             returned' = [kind |-> "typed", headers |-> headers,
                          outcome |-> outcome_of(RequestParts_new(headers).err = "none")]
    /\ UNCHANGED <<binary, sealed, drawn>>

-----------------------------------------------------------------------------
(* context_envelope. *)

\* The protocol context of an input: the default one, or raw bytes that may extend it.
SealingBytes == {<<"operation=fuzz">>, <<"raw">>, <<"operation=fuzz", "!">>}

opening_context(scenario, sealing_bytes) ==
    CASE scenario = "LegacyMarker" -> Legacy
      [] scenario = "MismatchedContext" -> Bound(Append(sealing_bytes, "!"))
      [] OTHER -> Bound(sealing_bytes)

\* context_outcome: seal, then open.
ContextInput(scenario, plaintext, sealing_bytes) ==
    LET sealing == Bound(sealing_bytes)
        s == [by |-> binary, payload |-> plaintext, context |-> sealing, draw |-> drawn + 1]
        result(outcome, opened) == [kind |-> "context", scenario |-> scenario, outcome |-> outcome,
                                    plaintext |-> plaintext, opened |-> opened]
    IN  /\ binary = "context_envelope" /\ returned = Idle
        /\ scenario = "OversizePlaintext" <=> plaintext = "over"
        /\ IF seal_error(binary, plaintext, sealing) # "none"
             THEN /\ returned' = result("Rejected", None)
                  /\ UNCHANGED <<sealed, drawn>>
             ELSE /\ drawn < MaxSeals
                  /\ sealed' = sealed \cup {s} /\ drawn' = drawn + 1
                  /\ \E opened \in open(binary, envelope_of(s),
                                                     opening_context(scenario, sealing_bytes)) :
                       returned' = result(outcome_of(opened.result = "Ok"), opened.plaintext)
        /\ UNCHANGED binary

-----------------------------------------------------------------------------
(* encoded_envelope, aead_envelope and aead_ccm_envelope. *)

\* The memoised seal of VALID_PLAINTEXT.
valid_seal == [by |-> binary, payload |-> "valid", context |-> Legacy, draw |-> 1]

\* So many raw characters: no Base64, or that of some bytes.
raw_base64 ==
    {Undecodable(n) : n \in RawLengths}
    \cup UNION {{[len |-> n, bytes |-> Scrambled(k)] : k \in {k \in 0..n : encoded_len(k) = n}} : n \in RawLengths}

\* text(raw): blank, or of any length, with white space around it or a line break in it.
raw_texts ==
    {EmptyText, Padded(EmptyText)}
    \cup {as_text(base64) : base64 \in raw_base64}
    \cup {Padded(as_text(base64)) : base64 \in raw_base64}
    \cup {With(as_text(Undecodable(n)), "line") : n \in RawLengths}

\* A run of the letter A decodes, to zero bytes, when its length is a multiple of four.
boundary_text(n) ==
    as_text(IF n % 4 = 0 THEN [len |-> n, bytes |-> Scrambled((n \div 4) * 3)]
                         ELSE Undecodable(n))

\* A letter in place of another or of padding: other bytes, one more, or no Base64.
mutate(valid) ==
    LET n == byte_len(valid.bytes)
    IN  {as_text(Undecodable(valid.len))}
        \cup {as_text([len |-> valid.len, bytes |-> Scrambled(k)]) :
                  k \in IF n % 3 = 0 THEN {n} ELSE {n, n + 1}}

\* The texts a field may get, with the mode that selects each.
select_value(valid, limit) ==
    {[mode |-> "valid", text |-> as_text(valid)]}
    \cup {[mode |-> "raw", text |-> t] : t \in raw_texts}
    \cup {[mode |-> "boundary", text |-> boundary_text(n)] : n \in limit - 1..limit + 1}
    \cup {[mode |-> "mutated", text |-> t] : t \in mutate(valid)}

cipher_limit(t) == IF t = "encoded_envelope" THEN CIPHER_LIMIT ELSE AEAD_CIPHER_LIMIT

encoded_values ==
    LET envelope == envelope_of(valid_seal)
    IN  [signature : select_value(envelope.signature, AUXILIARY_LIMIT),
         wrapped : select_value(envelope.wrapped_session_key, AUXILIARY_LIMIT),
         cipher : select_value(envelope.cipher, cipher_limit(binary))]

\* The claim of an input: the expected one when there is none, or any text.
encoded_certificate_claims ==
    {EXPECTED_REMOTE_SIGNING_CERTIFICATE, Padded(EXPECTED_REMOTE_SIGNING_CERTIFICATE),
     Text("another"), Padded(EmptyText)}

envelope_response_parts(values, claim) ==
    [headers |-> <<<<Name("signature", "canonical"), values.signature.text>>,
                   <<Name("wrapped_session_key", "canonical"), values.wrapped.text>>,
                   <<Name("remote_signing_certificate", "canonical"), claim>>>>,
     body |-> values.cipher.text]

EnvelopeInput ==
    /\ binary \in EnvelopeTargets /\ returned = Idle
    /\ sealed' = {valid_seal} /\ drawn' = 1
    /\ \E values \in encoded_values, claim \in encoded_certificate_claims :
          \E opened \in open_response(binary, envelope_response_parts(values, claim)) :
             returned' = [kind |-> "envelope", values |-> values, claim |-> claim, opened |-> opened]
    /\ UNCHANGED binary

\* libFuzzer goes on to its next input.
NextInput ==
    /\ returned # Idle
    /\ returned' = Idle
    /\ UNCHANGED <<binary, sealed, drawn>>

Next ==
    \/ TransportInput
    \/ TypedInput
    \/ \E scenario \in ContextScenarios, plaintext \in DOMAIN PlaintextLen, bytes \in SealingBytes :
          ContextInput(scenario, plaintext, bytes)
    \/ EnvelopeInput
    \/ NextInput

Spec == Init /\ [][Next]_fvars

-----------------------------------------------------------------------------
(* Properties. *)

\* The assertions of transport_parts, typed_headers and context_envelope never fail: every
\* declared scenario has its declared outcome for whatever plaintext and context the input
\* brings, and a round trip returns exactly the plaintext that was sealed.
DeclaredOutcomes ==
    /\ \/ returned.kind = "declared"
       \/ returned.kind = "context" /\ returned.scenario # "Generic"
       => returned.outcome = expected_outcome(returned.scenario)
    /\ returned.kind = "context" /\ returned.outcome = "Accepted"
       => returned.opened = PayloadBytes(returned.plaintext)

Named(headers, field) == {i \in DOMAIN headers : headers[i][1].canonical = field}

Readable(text) == ~is_blank(text) /\ text.control = "none"

\* The generic inputs, for which the harness declares nothing: parse_response accepts a
\* response exactly when every mapped header comes once, in any casing, place and company,
\* with a readable value, and the body matters only where it carries the cipher text.
GenericAcceptance ==
    returned.kind = "parse" =>
        LET in_body == returned.schema.response_cipher = Body
            fields == {ResponseFields[i] : i \in DOMAIN ResponseFields}
                        \cup IF in_body THEN {} ELSE {"cipher"}
            acceptable == /\ \A f \in fields : \E i \in DOMAIN returned.headers :
                                /\ Named(returned.headers, f) = {i}
                                /\ Readable(returned.headers[i][2])
                          /\ in_body => ~is_blank(returned.body)
        IN  returned.outcome = outcome_of(acceptable)

\* RequestParts::new accepts the generic typed headers exactly when all names are tokens
\* that differ in more than casing and no value has a control character.
TypedAcceptance ==
    returned.kind = "typed" =>
        LET h == returned.headers
            acceptable == \A i \in DOMAIN h :
                             /\ h[i][1].canonical \in Tokens /\ h[i][2].control = "none"
                             /\ Named(h, h[i][1].canonical) = {i}
        IN  returned.outcome = outcome_of(acceptable)

\* Of the inputs the harness declares nothing about, the library accepts exactly the sound.
AcceptsExactlyTheSound == GenericAcceptance /\ TypedAcceptance

\* FULL_VALID, and more: open_response returns VALID_PLAINTEXT when signature, wrapped key
\* and cipher are all the sealed ones and the claim is the expected one, and nothing for
\* any other combination of sealed, raw, boundary and mutated values.
OpensExactlyTheValid ==
    returned.kind = "envelope" =>
        LET intact == /\ \A f \in DOMAIN returned.values : returned.values[f].mode = "valid"
                      /\ trim(returned.claim) = EXPECTED_REMOTE_SIGNING_CERTIFICATE
        IN  returned.opened.plaintext =
                IF intact THEN PayloadBytes("valid") ELSE None

\* The limits the harness computes for itself are those of the library: whatever an input
\* selects, open_response reports MessageTooLarge exactly when the cipher text, without the
\* white space around it, is longer than the harness's limit and the headers can be read.
BoundariesAreTight ==
    returned.kind = "envelope" =>
        LET v == returned.values
            beyond == ~is_blank(v.cipher.text) /\ as_base64(v.cipher.text).len > cipher_limit(binary)
            read == /\ Readable(v.signature.text) /\ Readable(v.wrapped.text)
                    /\ trim(returned.claim) = EXPECTED_REMOTE_SIGNING_CERTIFICATE
        IN  returned.opened.result = "MessageTooLarge" <=> beyond /\ read
=============================================================================
