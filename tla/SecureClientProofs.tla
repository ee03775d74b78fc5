------------------------- MODULE SecureClientProofs -------------------------
(***************************************************************************)
(* The client workflow, for every set of candidates, configurations,       *)
(* schemas, identities and calls: what a client hands out opens at its     *)
(* peer, an intact answer opens at the client, a pinned client never meets *)
(* the other kind of context, and the exchange is the one                  *)
(* AuthenticExchange describes.                                            *)
(***************************************************************************)
EXTENDS SecureClient, CallProofs

-----------------------------------------------------------------------------
(* A request on the wire. *)

LEMMA WiderSeq ==
    ASSUME NEW S, NEW T, S \subseteq T, NEW s \in Seq(S)
    PROVE  s \in Seq(T)
<1>1. PICK n \in Nat : s \in [1..n -> S]
  BY SeqDef
<1>2. s \in [1..n -> T]
  BY Zenon, <1>1
<1> QED BY Zenon, <1>2, SeqDef

\* Neither static nor additional headers hide or replace a mapped one: what the adapter
\* laid out is found under its name in the request that is handed out.
LEMMA FoundOnTheWire ==
    ASSUME NEW b, IsBuilder(b), build(b) = "none", NEW identity, NEW context, NEW envelope,
           NEW U, NEW more \in Seq(U)
    PROVE  LET parts == build_request(b, identity, context, envelope)
               r == finish(parts, more)
           IN  r.err = "none" =>
                 /\ \A f \in DOMAIN b.request :
                      /\ value_of(r.entries, b.request[f]) = field_value(f, identity, context, envelope)
                      /\ HeaderValue_new(field_value(f, identity, context, envelope))
                 /\ b.request_cipher # Body =>
                      value_of(r.entries, b.request_cipher.name) = envelope.cipher
                 /\ parts.body = IF b.request_cipher = Body THEN envelope.cipher ELSE EmptyText
<1> DEFINE parts == build_request(b, identity, context, envelope)
           r == finish(parts, more)
           pairs == request_pairs(b, identity, context, envelope)
           n == Len(b.static)
<1> SUFFICES ASSUME r.err = "none"
             PROVE  /\ \A f \in DOMAIN b.request :
                         /\ value_of(r.entries, b.request[f]) = field_value(f, identity, context, envelope)
                         /\ HeaderValue_new(field_value(f, identity, context, envelope))
                    /\ b.request_cipher # Body =>
                         value_of(r.entries, b.request_cipher.name) = envelope.cipher
                    /\ parts.body = IF b.request_cipher = Body THEN envelope.cipher ELSE EmptyText
  BY Zenon
<1>1. b.request_cipher # NoLocation
  BY BuildChecks, Zenon
<1>2. /\ parts.err = "none" => parts.headers = pairs
      /\ parts.err = "none" => Collectable(pairs)
      /\ parts.body = IF b.request_cipher = Body THEN envelope.cipher ELSE EmptyText
  BY <1>1, BuildRequest, Zenon
<1>3. PICK T : pairs \in Seq(T)
  BY <1>1, RequestLayout, Zenon
<1>4. /\ n \in Nat /\ DOMAIN pairs = 1..n + 10 + cipher_headers(b)
      /\ \A i \in DOMAIN RequestFields :
            pairs[n + i] = request_header(b, RequestFields[i], identity, context, envelope)
      /\ cipher_headers(b) = 1 => pairs[n + 10 + 1] = <<b.request_cipher.name, envelope.cipher>>
  BY <1>1, RequestLayout
<1>5. Collectable(pairs) => \A f \in DOMAIN b.request :
                               HeaderValue_new(field_value(f, identity, context, envelope))
  BY <1>1, RequestCollects, Zenon
<1> HIDE DEF pairs, n, parts
<1>6. parts.err = "none" /\ r = append_checked(pairs, more)
  BY Zenon, <1>2 DEF finish
<1>7. pairs \in Seq(T \cup U) /\ more \in Seq(T \cup U) /\ Collectable(pairs)
  BY <1>2, <1>3, <1>6, WiderSeq, Zenon
<1>8. r.entries = pairs \o more /\ Collectable(r.entries)
  <2> DEFINE a == append_checked(pairs, more)
  <2>1. Collectable(a.entries) /\ (a.err = "none" => a.entries = pairs \o more)
    BY <1>7, AppendChecked, Zenon
  <2> HIDE DEF a
  <2>2. r = a /\ r.err = "none"
    BY Zenon, <1>6 DEF a
  <2> HIDE DEF r
  <2> QED BY Zenon, <2>1, <2>2
<1> HIDE DEF r
<1>9. ASSUME NEW i \in DOMAIN pairs
      PROVE  i \in DOMAIN r.entries /\ i \in Nat /\ r.entries[i] = pairs[i]
  <2>1. DOMAIN pairs = 1..Len(pairs) /\ Len(pairs) \in Nat /\ Len(more) \in Nat
    BY Zenon, <1>7, LenProperties
  <2>2. i \in 1..Len(pairs) + Len(more) /\ i <= Len(pairs) /\ i \in Nat
    BY <2>1
  <2>3. DOMAIN r.entries = 1..Len(pairs) + Len(more)
    BY <1>7, <1>8, <2>1, ConcatProperties, LenProperties
  <2>4. (pairs \o more)[i] = pairs[i]
    BY Zenon, <1>7, <2>2, ConcatProperties
  <2> QED BY Zenon, <1>8, <2>2, <2>3, <2>4
<1>10. ASSUME NEW i \in DOMAIN pairs PROVE value_of(r.entries, pairs[i][1]) = pairs[i][2]
  <2>1. Min(get(r.entries, r.entries[i][1])) = i
    BY <1>8, <1>9, Lookup, Zenon
  <2> QED BY <1>9, <2>1, Zenon DEF value_of
<1>11. ASSUME NEW f \in DOMAIN b.request
       PROVE  value_of(r.entries, b.request[f]) = field_value(f, identity, context, envelope)
  <2>1. PICK k \in 1..10 : f = RequestFields[k]
    BY RequestFieldSet, Zenon
  <2>2. cipher_headers(b) \in {0, 1}
    BY Zenon DEF cipher_headers
  <2>3. n + k \in DOMAIN pairs
    BY <1>4, <2>2
  <2>4. pairs[n + k] = request_header(b, f, identity, context, envelope)
    BY <1>4, <2>1, FieldLists, Zenon
  <2>5. /\ pairs[n + k][1] = b.request[f]
        /\ pairs[n + k][2] = field_value(f, identity, context, envelope)
    BY <2>4 DEF request_header
  <2> QED BY <1>10, <2>3, <2>5, Zenon
<1>12. ASSUME b.request_cipher # Body
       PROVE  value_of(r.entries, b.request_cipher.name) = envelope.cipher
  <2>1. cipher_headers(b) = 1
    BY Zenon, <1>12 DEF cipher_headers
  <2>2. n + 10 + 1 \in DOMAIN pairs
    BY <1>4, <2>1
  <2>3. /\ pairs[n + 10 + 1][1] = b.request_cipher.name
        /\ pairs[n + 10 + 1][2] = envelope.cipher
    BY <1>4, <2>1
  <2> QED BY <1>10, <2>2, <2>3, Zenon
<1> QED BY <1>2, <1>5, <1>7, <1>11, <1>12, Zenon

\* A Base64 text survives being a header value or a body.
LEMMA Base64Texts ==
    ASSUME NEW x
    PROVE  /\ as_base64(as_text(x)) = x
           /\ trim(as_text(x)) = as_text(x)
           /\ Sendable(as_text(x))
<1>1. as_text(x).core = <<"base64", x>> /\ as_text(x).control = "none"
  BY Zenon DEF as_text
<1>2. IsText(as_text(x))
  BY Zenon DEF IsText, as_text
<1>3. trim(as_text(x)) = [core |-> as_text(x).core, pad |-> FALSE, control |-> as_text(x).control]
  BY <1>2, Trimmed, Zenon
<1>4. trim(as_text(x)) = as_text(x)
  BY <1>1, <1>3, Zenon DEF as_text
<1>5. as_base64(as_text(x)) = x
  BY <1>1 DEF as_base64
<1>6. Sendable(as_text(x))
  BY <1>1 DEF Sendable, HeaderValue_new, is_blank
<1> QED BY Zenon, <1>4, <1>5, <1>6

LEMMA TextsOf ==
    ASSUME NEW e
    PROVE  /\ texts_of(e).cipher = as_text(e.cipher)
           /\ texts_of(e).signature = as_text(e.signature)
           /\ texts_of(e).wrapped_session_key = as_text(e.wrapped_session_key)
BY Zenon DEF texts_of

\* The three texts of a sealed envelope, put together again, are that envelope.
LEMMA Reassembled ==
    ASSUME NEW s
    PROVE  LET t == texts_of(envelope_of(s))
           IN  received_envelope(t.cipher, t.wrapped_session_key, t.signature) = envelope_of(s)
<1> DEFINE e == envelope_of(s)
<1>1. e = [cipher |-> e.cipher, wrapped_session_key |-> e.wrapped_session_key, signature |-> e.signature]
  BY Zenon DEF envelope_of
<1> HIDE DEF e
<1>2. received_envelope(texts_of(e).cipher, texts_of(e).wrapped_session_key, texts_of(e).signature)
        = [cipher |-> e.cipher, wrapped_session_key |-> e.wrapped_session_key, signature |-> e.signature]
  BY TextsOf, Base64Texts, Zenon DEF received_envelope
<1> QED BY Zenon, <1>1, <1>2 DEF e

\* Where the fields of a request come from.
LEMMA FieldSources ==
    ASSUME NEW identity, DOMAIN identity = IdentityFields, NEW envelope,
           NEW context, DOMAIN context = {"operation", "request_id", "request_time"}
    PROVE  /\ field_value("operation", identity, context, envelope) = context.operation
           /\ field_value("request_id", identity, context, envelope) = context.request_id
           /\ field_value("signature", identity, context, envelope) = envelope.signature
           /\ field_value("wrapped_session_key", identity, context, envelope)
                = envelope.wrapped_session_key
BY Zenon DEF field_value, IdentityFields

LEMMA WireFields ==
    ASSUME NEW b, IsBuilder(b)
    PROVE  {"operation", "request_id", "signature", "wrapped_session_key"} \subseteq DOMAIN b.request
<1>1. DOMAIN RequestFields = 1..10 /\ DOMAIN b.request = {RequestFields[i] : i \in 1..10}
  BY Zenon, FieldLists, RequestFieldSet
<1>2. /\ RequestFields[2] = "operation" /\ RequestFields[3] = "request_id"
      /\ RequestFields[9] = "signature" /\ RequestFields[10] = "wrapped_session_key"
  BY Zenon DEF RequestFields
<1> QED BY <1>1, <1>2

-----------------------------------------------------------------------------
(* The invariant. *)

\* A client was refused unless its configuration is of the kind its adapter pins.
Pinned(c) ==
    Adapter[c] = "Header" => Config[c].authentication_mode.kind = pinned_authentication(Schema[c])

\* The peer finds on the wire what the envelope and its context are made of.
Carries(r) ==
    LET texts == texts_of(envelope_of(r.seal))
    IN  /\ received(r, "operation") = r.context.operation
        /\ received(r, "request_id") = r.context.request_id
        /\ received(r, "signature") = texts.signature
        /\ received(r, "wrapped_session_key") = texts.wrapped_session_key
        /\ received(r, "cipher") = texts.cipher

SignedContext(r) ==
    IF is_bound(r.seal.by)
      THEN encode_request_context(r.context.operation, r.context.request_id).context ELSE Legacy

\* An id that a response can echo.
Echoable(request_id) == HeaderValue_new(request_id) /\ require_exact_trim(request_id) = "none"

SoundRequest(r) ==
    /\ r.seal.by \in Candidates /\ Accepted(r.seal)
    /\ AskOf(r) \in PossibleAsks
    /\ Adapter[r.seal.by] = "Header" =>
          /\ Carries(r)
          /\ r.seal.context = SignedContext(r)
          /\ is_bound(r.seal.by) => Echoable(r.context.request_id)

SoundAnswer(a) ==
    /\ a.seal.by \in Peers /\ Accepted(a.seal)
    /\ a.seal.context = IF is_bound(a.seal.by) THEN encode_response_context(a.request_id).context
                        ELSE Legacy
    /\ is_bound(a.seal.by) => Echoable(a.request_id)

ClientInv ==
    /\ drawn \in 0..MaxSeals
    /\ clients \subseteq {c \in Candidates : Pinned(c)}
    /\ \A s \in sealed : kinds_match(Config[s.by].authentication_mode, s.context)
    /\ \A r \in requests : SoundRequest(r)
    /\ \A a \in answers : SoundAnswer(a)

-----------------------------------------------------------------------------
(* Requests. *)

SealCall(c, call, context) ==
    [by |-> c, payload |-> call.value, context |-> context, draw |-> drawn + 1]

HandedOut(s, context, parts, more) ==
    [seal |-> s, context |-> context, headers |-> finish(parts, more).entries, body |-> parts.body]

LEMMA PreparedValue ==
    ASSUME NEW call \in Calls, prepare_error(call, "none") = "none"
    PROVE  call.value \in Payloads
<1> DEFINE metadata == metadata_of(call)
           checks == <<
             IF validate_context_value(metadata.request_id) /\ validate_context_value(metadata.request_time)
               THEN "none" ELSE "InvalidHeader",
             from_pairs(call.additional), "none",
             IF validate_context_value(call.operation) THEN "none" ELSE "InvalidHeader",
             IF call.value = Unserializable THEN "Serialization" ELSE "none">>
<1>1. first_error(checks) = "none"
  BY Zenon DEF prepare_error
<1>2. DOMAIN checks = 1..5 /\ 5 \in Nat /\ 5 \in 1..5
  OBVIOUS
<1>3. checks[5] = IF call.value = Unserializable THEN "Serialization" ELSE "none"
  OBVIOUS
<1> HIDE DEF checks
<1>4. checks[5] = "none"
  BY <1>1, <1>2, FirstError, Zenon
<1>5. call.value # Unserializable
  BY Zenon, <1>3, <1>4
<1> QED BY <1>5, CallsAssumption, Zenon

LEMMA AskIsPossible ==
    ASSUME drawn \in 0..MaxSeals, drawn < MaxSeals, NEW c \in Candidates, NEW call \in Calls,
           call.value \in Payloads
    PROVE  [domain |-> Config[c].authentication_mode.domain_separator,
            operation |-> protocol_context(call).operation,
            request_id |-> protocol_context(call).request_id,
            payload |-> call.value] \in PossibleAsks
<1>1. /\ protocol_context(call).operation = call.operation
      /\ protocol_context(call).request_id = metadata_of(call).request_id
  BY Zenon DEF protocol_context
<1>2. \/ call.metadata = <<>> /\ metadata_of(call) = generate(drawn + 1)
      \/ call.metadata # <<>> /\ metadata_of(call) = call.metadata[1]
  BY Zenon DEF metadata_of
<1>3. drawn + 1 \in 1..MaxSeals
  BY SealBound
<1>4. metadata_of(call).request_id \in
          {k.metadata[1].request_id : k \in {k \in Calls : k.metadata # <<>>}}
            \cup {generate(n).request_id : n \in 1..MaxSeals}
  BY <1>2, <1>3, Zenon
<1> QED BY Zenon, <1>1, <1>4 DEF PossibleAsks

\* What an adapter pins is what the configuration says.
LEMMA PinnedKind ==
    ASSUME NEW c, Pinned(c), Adapter[c] = "Header"
    PROVE  is_bound(c) <=> Schema[c].bound
BY Zenon DEF Pinned, pinned_authentication, is_bound

\* The context of a pinned client's request.
LEMMA RequestContext ==
    ASSUME NEW c, Pinned(c), Adapter[c] = "Header", NEW context,
           NEW x \in authentication_contexts(c, context), x.err = "none"
    PROVE  /\ x.context = IF is_bound(c)
                            THEN encode_request_context(context.operation, context.request_id).context
                            ELSE Legacy
           /\ is_bound(c) => require_exact_trim(context.request_id) = "none"
<1>1. x = request_authentication_context(Schema[c], context)
  BY Zenon DEF authentication_contexts
<1>2. CASE is_bound(c)
  <2>1. x = encode_request_context(context.operation, context.request_id)
    BY <1>1, <1>2, PinnedKind, Zenon DEF request_authentication_context
  <2> DEFINE checks == <<require_exact_trim(context.operation), require_exact_trim(context.request_id)>>
  <2>2. first_error(checks) = "none"
    BY <2>1, Zenon DEF encode_request_context
  <2>3. DOMAIN checks = 1..2 /\ 2 \in Nat /\ 2 \in 1..2 /\ checks[2] = require_exact_trim(context.request_id)
    OBVIOUS
  <2> HIDE DEF checks
  <2>4. checks[2] = "none"
    BY <2>2, <2>3, FirstError, Zenon
  <2> QED BY <1>2, <2>1, <2>3, <2>4, Zenon
<1>3. CASE ~is_bound(c)
  <2>1. x = [err |-> "none", context |-> Legacy]
    BY <1>1, <1>3, PinnedKind, Zenon DEF request_authentication_context
  <2> QED BY <1>3, <2>1, Zenon
<1> QED BY Zenon, <1>2, <1>3

LEMMA RequestIsSound ==
    ASSUME drawn \in 0..MaxSeals, drawn < MaxSeals, NEW c \in Candidates, Pinned(c), NEW call \in Calls,
           prepare_error(call, "none") = "none",
           NEW x \in authentication_contexts(c, protocol_context(call)), x.err = "none",
           seal_error(c, call.value, x.context) = "none",
           NEW parts \in layouts(c, protocol_context(call), envelope_of(SealCall(c, call, x.context))),
           finish(parts, call.additional).err = "none"
    PROVE  SoundRequest(HandedOut(SealCall(c, call, x.context), protocol_context(call), parts,
                                  call.additional))
<1> DEFINE s == SealCall(c, call, x.context)
           context == protocol_context(call)
           r == HandedOut(s, context, parts, call.additional)
<1>1. s.by = c /\ s.payload = call.value /\ s.context = x.context
  BY Zenon DEF SealCall
<1>2. r.seal = s /\ r.context = context /\ r.headers = finish(parts, call.additional).entries
        /\ r.body = parts.body
  BY Zenon DEF HandedOut
<1>3. call.value \in Payloads
  BY Zenon, PreparedValue
<1>4. Accepted(s)
  BY Zenon, <1>1, <1>3 DEF Accepted
<1>5. AskOf(r) \in PossibleAsks
  <2> HIDE DEF s, context, r
  <2>1. AskOf(r) = [domain |-> Config[c].authentication_mode.domain_separator,
                    operation |-> context.operation, request_id |-> context.request_id,
                    payload |-> call.value]
    BY <1>1, <1>2, Zenon DEF AskOf
  <2> QED BY Zenon, <1>3, <2>1, AskIsPossible DEF context
<1>6. ASSUME Adapter[c] = "Header"
      PROVE  /\ Carries(r)
             /\ s.context = SignedContext(r)
             /\ is_bound(c) => Echoable(r.context.request_id)
  <2> DEFINE t == texts_of(envelope_of(s))
             b == Schema[c]
  <2>1. IsBuilder(b) /\ build(b) = "none" /\ DOMAIN Identity[c] = IdentityFields
    BY Zenon, PartiesAssumption
  <2>2. parts = build_request(b, Identity[c], context, t)
    BY <1>6, Zenon DEF layouts
  <2>3. PICK U : call.additional \in Seq(U)
    BY CallsAssumption, Zenon
  <2>4. /\ \A f \in DOMAIN b.request :
             /\ value_of(r.headers, b.request[f]) = field_value(f, Identity[c], context, t)
             /\ HeaderValue_new(field_value(f, Identity[c], context, t))
        /\ b.request_cipher # Body => value_of(r.headers, b.request_cipher.name) = t.cipher
        /\ r.body = IF b.request_cipher = Body THEN t.cipher ELSE EmptyText
    <3> HIDE DEF s, context, r, t, b
    <3> DEFINE p == build_request(b, Identity[c], context, t)
               q == finish(p, call.additional)
    <3>1. q.err = "none" =>
            /\ \A f \in DOMAIN b.request :
                 /\ value_of(q.entries, b.request[f]) = field_value(f, Identity[c], context, t)
                 /\ HeaderValue_new(field_value(f, Identity[c], context, t))
            /\ b.request_cipher # Body => value_of(q.entries, b.request_cipher.name) = t.cipher
            /\ p.body = IF b.request_cipher = Body THEN t.cipher ELSE EmptyText
      BY <2>1, <2>3, FoundOnTheWire
    <3>2. q.err = "none" /\ r.headers = q.entries /\ r.body = p.body
      BY <1>2, <2>2, Zenon
    <3> HIDE DEF p, q
    <3> QED BY <3>1, <3>2, Zenon
  <2>5. DOMAIN context = {"operation", "request_id", "request_time"}
    BY Zenon DEF protocol_context
  <2> HIDE DEF s, context, r, t, b
  <2>6. /\ field_value("operation", Identity[c], context, t) = context.operation
        /\ field_value("request_id", Identity[c], context, t) = context.request_id
        /\ field_value("signature", Identity[c], context, t) = t.signature
        /\ field_value("wrapped_session_key", Identity[c], context, t) = t.wrapped_session_key
    BY <2>1, <2>5, FieldSources, Zenon
  <2>7. {"operation", "request_id", "signature", "wrapped_session_key"} \subseteq DOMAIN b.request
    BY Zenon, <2>1, WireFields
  <2>8. ASSUME NEW f \in {"operation", "request_id", "signature", "wrapped_session_key"}
        PROVE  received(r, f) = field_value(f, Identity[c], context, t)
    <3>1. f # "cipher" /\ f \in DOMAIN b.request
      BY Zenon, <2>7
    <3> QED BY <1>1, <1>2, <2>4, <3>1, Zenon DEF received, b
  <2>9. received(r, "cipher") = t.cipher
    BY <1>1, <1>2, <2>4, Zenon DEF received, b
  <2>10. Carries(r)
    BY <1>2, <2>6, <2>8, <2>9, Zenon DEF Carries, t
  <2>11. /\ x.context = IF is_bound(c)
                          THEN encode_request_context(context.operation, context.request_id).context
                          ELSE Legacy
         /\ is_bound(c) => require_exact_trim(context.request_id) = "none"
    BY <1>6, RequestContext, Zenon DEF context
  <2>12. s.context = SignedContext(r)
    BY <1>1, <1>2, <2>11, Zenon DEF SignedContext
  <2>13. HeaderValue_new(context.request_id)
    BY Zenon, <2>4, <2>6, <2>7
  <2> QED BY <1>2, <2>10, <2>11, <2>12, <2>13, Zenon DEF Echoable
<1> HIDE DEF s, context, r
<1>7. SoundRequest(r)
  BY <1>1, <1>2, <1>4, <1>5, <1>6, Zenon DEF SoundRequest
<1> QED BY Zenon, <1>7 DEF s, context, r

-----------------------------------------------------------------------------
(* What opening an envelope says about the seal its signature comes from. *)

WellFormed(context) == context.kind = "Legacy" => context.bytes = <<>>

LEMMA WellFormedContexts ==
    /\ WellFormed(Legacy) /\ Legacy.kind = "Legacy"
    /\ \A bytes : WellFormed(Bound(bytes)) /\ Bound(bytes).bytes = bytes /\ Bound(bytes).kind = "Bound"
BY Zenon DEF WellFormed, Legacy, Bound

SignedBy(envelope, s) == envelope.signature = envelope_of(s).signature

LEMMA OpenedWasSealed ==
    ASSUME NEW c, Configured(c), NEW s, Configured(s.by), WellFormed(s.context),
           NEW envelope, SignedBy(envelope, s), NEW context, WellFormed(context),
           NEW o \in open(c, envelope, context), o.result = "Ok"
    PROVE  /\ o.plaintext = PayloadBytes(s.payload)
           /\ is_bound(s.by) <=> is_bound(c)
           /\ Config[s.by].authentication_mode.domain_separator
                = Config[c].authentication_mode.domain_separator
           /\ s.context.bytes = context.bytes
           /\ Keys[s.by].local_signing = Keys[c].remote_verification
<1> DEFINE m == Config[s.by].authentication_mode
           n == Config[c].authentication_mode
           sent == authentication_input(m, s.context, PayloadBytes(s.payload))
           input == authentication_input(n, context, o.plaintext)
<1>1. Established(c, envelope, context, o.plaintext)
  BY OpenEstablishes, Zenon
<1>2. /\ input # None /\ o.plaintext.form \in {"payload", "scrambled"}
      /\ envelope.signature.bytes
           = Signature(Keys[c].remote_verification, Config[c].expected_remote_signer_id, input)
  BY <1>1, Zenon DEF Established, verify_with_id
<1>3. envelope.signature.bytes = Signature(Keys[s.by].local_signing, Config[s.by].local_signer_id, sent)
  <2>1. envelope.signature
          = encode(Signature(Keys[s.by].local_signing, Config[s.by].local_signer_id, sent))
    BY Zenon DEF SignedBy, envelope_of
  <2>2. \A b : encode(b).bytes = b
    BY Zenon DEF encode
  <2> HIDE DEF sent
  <2> QED BY <2>1, <2>2, Zenon
<1>4. sent = input /\ Keys[s.by].local_signing = Keys[c].remote_verification
  <2> HIDE DEF sent, input
  <2> QED BY <1>2, <1>3 DEF Signature
<1>5. /\ m.kind = "LegacyPlaintext" => m.domain_separator = ""
      /\ n.kind = "LegacyPlaintext" => n.domain_separator = ""
  BY Zenon DEF Configured
<1>6. SameInput(m, s.context, s.payload, n, context, o.plaintext)
  BY <1>2, <1>4, <1>5, Zenon DEF SameInput, WellFormed
<1>7. /\ o.plaintext = PayloadBytes(s.payload) /\ m.kind = n.kind
      /\ m.domain_separator = n.domain_separator /\ s.context.bytes = context.bytes
  <2> HIDE DEF m, n
  <2> QED BY <1>6, InputDeterminesMessage
<1> QED BY <1>4, <1>7, Zenon DEF is_bound

LEMMA PartiesAreConfigured ==
    ASSUME NEW c \in Candidates
    PROVE  Configured(c) /\ Configured(Peer[c]) /\ Peer[c] \in Peers
<1>1. Peer[c] \in Peers
  BY Zenon DEF Peers
<1> QED BY <1>1, PartiesAssumption, Zenon

-----------------------------------------------------------------------------
(* Answers. *)

ReadContext(p, operation, request_id) ==
    IF is_bound(p) THEN encode_request_context(operation, request_id).context ELSE Legacy

LEMMA ReadContextIs ==
    ASSUME NEW p, NEW operation, NEW request_id
    PROVE  /\ WellFormed(ReadContext(p, operation, request_id))
           /\ is_bound(p) => ReadContext(p, operation, request_id).bytes
                = <<HEADER_CONTEXT_VERSION, HEADER_CONTEXT_REQUEST, operation, request_id>>
BY WellFormedContexts, Zenon DEF ReadContext, encode_request_context

\* What a peer takes for an operation was asked for, with that id and payload.
LEMMA OpenedWasAsked ==
    ASSUME NEW c \in Candidates, NEW g, SoundRequest(g), Adapter[g.seal.by] = "Header",
           NEW cipher, NEW wrapped, NEW operation, NEW request_id,
           NEW o \in open(Peer[c], received_envelope(cipher, wrapped, received(g, "signature")),
                          ReadContext(Peer[c], operation, request_id)),
           o.result = "Ok"
    PROVE  /\ o.plaintext = PayloadBytes(g.seal.payload)
           /\ is_bound(g.seal.by) <=> is_bound(Peer[c])
           /\ Config[g.seal.by].authentication_mode.domain_separator
                = Config[Peer[c]].authentication_mode.domain_separator
           /\ is_bound(Peer[c]) =>
                operation = g.context.operation /\ request_id = g.context.request_id
<1> DEFINE s == g.seal
           envelope == received_envelope(cipher, wrapped, received(g, "signature"))
           context == ReadContext(Peer[c], operation, request_id)
           signed == ReadContext(s.by, g.context.operation, g.context.request_id)
<1>1. s.by \in Candidates /\ Carries(g) /\ s.context = signed
  BY Zenon DEF SoundRequest, SignedContext, ReadContext
<1>2. Configured(Peer[c]) /\ Configured(s.by)
  BY <1>1, PartiesAreConfigured, Zenon
<1>3. SignedBy(envelope, s)
  <2>1. envelope.signature = as_base64(received(g, "signature"))
    BY Zenon DEF received_envelope
  <2>2. received(g, "signature") = as_text(envelope_of(s).signature)
    BY <1>1, TextsOf, Zenon DEF Carries
  <2> QED BY <2>1, <2>2, Base64Texts, Zenon DEF SignedBy
<1>4. WellFormed(context) /\ WellFormed(signed)
  BY ReadContextIs, Zenon
<1>5. is_bound(s.by) => signed.bytes = <<HEADER_CONTEXT_VERSION, HEADER_CONTEXT_REQUEST,
                                         g.context.operation, g.context.request_id>>
  <2> HIDE DEF s
  <2> QED BY ReadContextIs
<1> HIDE DEF s, envelope, context, signed
<1>6. /\ o.plaintext = PayloadBytes(s.payload)
      /\ is_bound(s.by) <=> is_bound(Peer[c])
      /\ Config[s.by].authentication_mode.domain_separator
           = Config[Peer[c]].authentication_mode.domain_separator
      /\ s.context.bytes = context.bytes
  <2>1. o \in open(Peer[c], envelope, context)
    BY Zenon DEF envelope, context
  <2>2. WellFormed(s.context)
    BY Zenon, <1>1, <1>4
  <2> QED BY <1>2, <1>3, <1>4, <2>1, <2>2, OpenedWasSealed
<1>7. ASSUME is_bound(Peer[c])
      PROVE  operation = g.context.operation /\ request_id = g.context.request_id
  <2> DEFINE read(x, i) == <<HEADER_CONTEXT_VERSION, HEADER_CONTEXT_REQUEST, x, i>>
  <2>1. context.bytes = read(operation, request_id)
    BY <1>7, ReadContextIs, Zenon DEF context
  <2>2. s.context.bytes = read(g.context.operation, g.context.request_id)
    BY <1>1, <1>5, <1>6, <1>7, Zenon
  <2>3. read(operation, request_id) = read(g.context.operation, g.context.request_id)
    BY Zenon, <1>6, <2>1, <2>2
  <2> QED BY Zenon, <2>3
<1> QED BY Zenon, <1>6, <1>7 DEF s

LEMMA SealKinds ==
    ASSUME NEW c, NEW p, NEW context, seal_error(c, p, context) = "none"
    PROVE  kinds_match(Config[c].authentication_mode, context)
BY Zenon DEF seal_error

\* What an answer does: its ask was asked, by a client of the kind of the peer.
GivenTo(a, g) ==
    /\ AnswerOf(a).answerer \in {Keys[p].local_signing : p \in Peers}
    /\ AnswerOf(a).payload \in Payloads
    /\ is_bound(a.seal.by) => BoundHeader(g.seal.by) /\ AnswerOf(a).ask = AskOf(g)

LEMMA AnswerStep ==
    ASSUME ClientInv, NEW c \in Candidates, NEW reply \in Payloads, Answer(c, reply)
    PROVE  \E a : /\ SoundAnswer(a)
                  /\ kinds_match(Config[a.seal.by].authentication_mode, a.seal.context)
                  /\ sealed' = sealed \cup {a.seal} /\ answers' = answers \cup {a}
                  /\ \E g \in requests : GivenTo(a, g)
<1> DEFINE heard == {r \in requests : Adapter[r.seal.by] = "Header"}
           p == Peer[c]
           context(o, i) == ReadContext(p, received(o, "operation"), received(i, "request_id"))
           envelope(k, w, g) == received_envelope(received(k, "cipher"), received(w, "wrapped_session_key"),
                                                  received(g, "signature"))
           s(i) == [by |-> p, payload |-> reply, draw |-> drawn + 1,
                    context |-> IF is_bound(p)
                                  THEN encode_response_context(received(i, "request_id")).context ELSE Legacy]
           answer(o, i, x) == [seal |-> s(i), operation |-> received(o, "operation"),
                               request_id |-> received(i, "request_id"), payload |-> x.plaintext.payload]
<1>1. PICK o \in heard, i \in heard, k \in heard, w \in heard, g \in heard :
        \E x \in open(p, envelope(k, w, g), context(o, i)) :
           /\ x.result = "Ok"
           /\ seal_error(p, reply, s(i).context) = "none"
           /\ sealed' = sealed \cup {s(i)} /\ answers' = answers \cup {answer(o, i, x)}
  BY Zenon DEF Answer, ReadContext
<1>2. PICK x \in open(p, envelope(k, w, g), context(o, i)) :
           /\ x.result = "Ok"
           /\ seal_error(p, reply, s(i).context) = "none"
           /\ sealed' = sealed \cup {s(i)} /\ answers' = answers \cup {answer(o, i, x)}
  BY <1>1, Zenon
<1> DEFINE a == answer(o, i, x)
           t == s(i)
<1>3. g \in requests /\ SoundRequest(g) /\ Adapter[g.seal.by] = "Header"
  BY Zenon DEF ClientInv
<1>4. /\ x.plaintext = PayloadBytes(g.seal.payload)
      /\ is_bound(g.seal.by) <=> is_bound(p)
      /\ Config[g.seal.by].authentication_mode.domain_separator
           = Config[p].authentication_mode.domain_separator
      /\ is_bound(p) => /\ received(o, "operation") = g.context.operation
                        /\ received(i, "request_id") = g.context.request_id
  <2> DEFINE cipher == received(k, "cipher")
             wrapped == received(w, "wrapped_session_key")
             operation == received(o, "operation")
             request_id == received(i, "request_id")
  <2>1. x \in open(Peer[c], received_envelope(cipher, wrapped, received(g, "signature")),
                   ReadContext(Peer[c], operation, request_id))
    BY Zenon
  <2>2. x.result = "Ok"
    BY <1>2, Zenon
  <2> HIDE DEF cipher, wrapped, operation, request_id
  <2>3. /\ x.plaintext = PayloadBytes(g.seal.payload)
        /\ is_bound(g.seal.by) <=> is_bound(Peer[c])
        /\ Config[g.seal.by].authentication_mode.domain_separator
             = Config[Peer[c]].authentication_mode.domain_separator
        /\ is_bound(Peer[c]) => operation = g.context.operation /\ request_id = g.context.request_id
    BY <1>3, <2>1, <2>2, OpenedWasAsked
  <2> QED BY Zenon, <2>3 DEF operation, request_id
<1>5. /\ t.by = p /\ t.payload = reply
      /\ t.context = IF is_bound(p) THEN encode_response_context(received(i, "request_id")).context
                     ELSE Legacy
  BY Zenon
<1>6. /\ a.seal = t /\ a.operation = received(o, "operation")
      /\ a.request_id = received(i, "request_id") /\ a.payload = x.plaintext.payload
  BY Zenon
<1> HIDE DEF a, t, s, answer, context, envelope
<1>7. p \in Peers
  BY Zenon, PartiesAreConfigured
<1>8. seal_error(p, reply, t.context) = "none" /\ sealed' = sealed \cup {a.seal} /\ answers' = answers \cup {a}
  BY <1>2, <1>6, Zenon DEF a, t
<1>9. SoundAnswer(a)
  <2>1. Accepted(t)
    BY <1>5, <1>8, Zenon DEF Accepted
  <2>2. is_bound(p) => Echoable(received(i, "request_id"))
    BY <1>3, <1>4, Zenon DEF SoundRequest
  <2> QED BY <1>5, <1>6, <1>7, <2>1, <2>2, Zenon DEF SoundAnswer
<1>10. GivenTo(a, g)
  <2>1. /\ AnswerOf(a).answerer = Keys[p].local_signing /\ AnswerOf(a).payload = reply
        /\ AnswerOf(a).ask = [domain |-> Config[p].authentication_mode.domain_separator,
                              operation |-> a.operation, request_id |-> a.request_id, payload |-> a.payload]
    BY <1>5, <1>6, Zenon DEF AnswerOf
  <2>2. x.plaintext.payload = g.seal.payload
    BY <1>4 DEF PayloadBytes
  <2>3. is_bound(p) => BoundHeader(g.seal.by) /\ AnswerOf(a).ask = AskOf(g)
    BY <1>3, <1>4, <1>6, <2>1, <2>2, Zenon DEF BoundHeader, AskOf
  <2>4. AnswerOf(a).answerer \in {Keys[q].local_signing : q \in Peers}
    BY <1>7, <2>1, Zenon
  <2> QED BY <1>5, <1>6, <2>1, <2>3, <2>4, Zenon DEF GivenTo
<1>11. kinds_match(Config[a.seal.by].authentication_mode, a.seal.context)
  BY <1>5, <1>6, <1>8, SealKinds, Zenon
<1> QED BY <1>3, <1>8, <1>9, <1>10, <1>11, Zenon

\* A step of Request hands out a sound request or none, and seals under a fitting context.
LEMMA RequestStep ==
    ASSUME ClientInv, NEW c \in Candidates, NEW call \in Calls, Request(c, call)
    PROVE  /\ UNCHANGED <<clients, answers>>
           /\ \/ UNCHANGED <<sealed, drawn, requests>>
              \/ /\ drawn < MaxSeals /\ drawn' = drawn + 1
                 /\ \E s : /\ kinds_match(Config[s.by].authentication_mode, s.context)
                           /\ sealed' = sealed \cup {s}
                 /\ \/ UNCHANGED requests
                    \/ \E r : SoundRequest(r) /\ requests' = requests \cup {r} /\ UNCHANGED returned
<1>1. CASE FailUnsealed(c, call)
  BY <1>1, Zenon DEF FailUnsealed
<1>2. CASE SealAndLayOut(c, call)
  <2> DEFINE context == protocol_context(call)
  <2>1. /\ drawn < MaxSeals /\ drawn' = drawn + 1 /\ UNCHANGED <<clients, answers>>
        /\ prepare_error(call, "none") = "none"
    BY <1>2, Zenon DEF SealAndLayOut
  <2>2. PICK x \in authentication_contexts(c, context) :
          /\ x.err = "none"
          /\ seal_error(c, call.value, x.context) = "none"
          /\ \E parts \in layouts(c, context, envelope_of(SealCall(c, call, x.context))) :
                /\ sealed' = sealed \cup {SealCall(c, call, x.context)}
                /\ \/ UNCHANGED requests
                   \/ /\ finish(parts, call.additional).err = "none" /\ UNCHANGED returned
                      /\ requests' = requests \cup
                           {HandedOut(SealCall(c, call, x.context), context, parts, call.additional)}
    BY <1>2, Zenon DEF SealAndLayOut, SealCall, HandedOut
  <2> DEFINE s == SealCall(c, call, x.context)
  <2>3. PICK parts \in layouts(c, context, envelope_of(s)) :
          /\ sealed' = sealed \cup {s}
          /\ \/ UNCHANGED requests
             \/ /\ finish(parts, call.additional).err = "none" /\ UNCHANGED returned
                /\ requests' = requests \cup {HandedOut(s, context, parts, call.additional)}
    BY Zenon, <2>2
  <2>4. drawn \in 0..MaxSeals /\ Pinned(c)
    BY Zenon DEF ClientInv, Request
  <2>5. finish(parts, call.additional).err = "none"
          => SoundRequest(HandedOut(s, context, parts, call.additional))
    BY <2>1, <2>2, <2>3, <2>4, RequestIsSound, Zenon
  <2>6. s.by = c /\ s.context = x.context
    BY Zenon DEF SealCall
  <2>7. kinds_match(Config[s.by].authentication_mode, s.context)
    BY <2>2, <2>6, SealKinds, Zenon
  <2> HIDE DEF s, context
  <2> QED BY <2>1, <2>3, <2>5, <2>7, Zenon
<1> QED BY Zenon, <1>1, <1>2 DEF Request

LEMMA ClientInvariant == Spec => []ClientInv
<1>1. Init => ClientInv
  <2>1. 0 \in 0..MaxSeals
    BY SealBound
  <2> QED BY <2>1, Zenon DEF Init, ClientInv
<1>2. ClientInv /\ [Next]_vars => ClientInv'
  <2> SUFFICES ASSUME ClientInv, [Next]_vars PROVE ClientInv'
    OBVIOUS
  <2>1. ASSUME NEW c \in Candidates, New(c) PROVE ClientInv'
    <3>1. UNCHANGED <<sealed, drawn, requests, answers>>
      BY <2>1, Zenon DEF New
    <3>2. clients' = clients \/ (clients' = clients \cup {c} /\ Pinned(c))
      BY <2>1, Zenon DEF New, Pinned, authentication_matches_pin
    <3> QED BY Zenon, <3>1, <3>2 DEF ClientInv
  <2>2. ASSUME NEW c \in Candidates, NEW call \in Calls, Request(c, call) PROVE ClientInv'
    <3>1. UNCHANGED <<clients, answers>>
      BY <2>2, RequestStep, Zenon
    <3>2. CASE UNCHANGED <<sealed, drawn, requests>>
      BY Zenon, <3>1, <3>2 DEF ClientInv
    <3>3. CASE ~UNCHANGED <<sealed, drawn, requests>>
      <4>1. drawn < MaxSeals /\ drawn' = drawn + 1
        BY <2>2, <3>3, RequestStep, Zenon
      <4>2. drawn' \in 0..MaxSeals
        BY <4>1, SealBound DEF ClientInv
      <4>3. PICK s : /\ kinds_match(Config[s.by].authentication_mode, s.context)
                     /\ sealed' = sealed \cup {s}
        BY <2>2, <3>3, RequestStep, Zenon
      <4>4. requests' = requests \/ \E r : SoundRequest(r) /\ requests' = requests \cup {r}
        BY <2>2, <3>3, RequestStep, Zenon
      <4>5. \A r \in requests' : SoundRequest(r)
        BY Zenon, <4>4 DEF ClientInv
      <4>6. \A t \in sealed' : kinds_match(Config[t.by].authentication_mode, t.context)
        BY Zenon, <4>3 DEF ClientInv
      <4> QED BY Zenon, <3>1, <4>2, <4>5, <4>6 DEF ClientInv
    <3> QED BY Zenon, <3>2, <3>3
  <2>3. ASSUME NEW c \in Candidates, NEW reply \in Payloads, Answer(c, reply) PROVE ClientInv'
    <3>1. UNCHANGED <<clients, requests>> /\ drawn < MaxSeals /\ drawn' = drawn + 1
      BY <2>3, Zenon DEF Answer
    <3>2. drawn' \in 0..MaxSeals
      BY <3>1, SealBound DEF ClientInv
    <3>3. PICK a : /\ SoundAnswer(a)
                   /\ kinds_match(Config[a.seal.by].authentication_mode, a.seal.context)
                   /\ sealed' = sealed \cup {a.seal} /\ answers' = answers \cup {a}
      BY <2>3, AnswerStep, Zenon
    <3>4. \A t \in sealed' : kinds_match(Config[t.by].authentication_mode, t.context)
      BY Zenon, <3>3 DEF ClientInv
    <3>5. \A b \in answers' : SoundAnswer(b)
      BY Zenon, <3>3 DEF ClientInv
    <3> QED BY Zenon, <3>1, <3>2, <3>4, <3>5 DEF ClientInv
  <2>4. ASSUME NEW c \in Candidates, NEW json \in BOOLEAN, OpenResponse(c, json) PROVE ClientInv'
    BY Zenon, <2>4 DEF OpenResponse, ClientInv
  <2>5. CASE Collect
    BY Zenon, <2>5 DEF Collect, ClientInv
  <2>6. CASE UNCHANGED vars
    BY Zenon, <2>6 DEF vars, ClientInv
  <2> QED BY <2>1, <2>2, <2>3, <2>4, <2>5, <2>6, Zenon DEF Next
<1> QED BY <1>1, <1>2, PTL DEF Spec

-----------------------------------------------------------------------------
(* What build_request hands out opens at the peer. *)

\* An envelope opens at the client it was sealed for.
LEMMA RoundTrips ==
    ASSUME NEW s, NEW c, Accepted(s), Configured(c), SealedFor(s, c),
           NEW o \in open(c, envelope_of(s), s.context)
    PROVE  o.result = "Ok" /\ o.plaintext = PayloadBytes(s.payload)
BY Zenon, CbcRoundTrip, AeadRoundTrip DEF open

\* Every request that build_request hands out for a header adapter opens at the peer it was
\* sealed for, with the operation and the id that peer reads from its headers, whatever the
\* static, mapped and additional headers are.
THEOREM RequestsArrive == Spec => []RequestsOpenAtThePeer
<1>1. ClientInv => RequestsOpenAtThePeer
  <2> SUFFICES ASSUME ClientInv, NEW r \in requests, Adapter[r.seal.by] = "Header",
                      SealedFor(r.seal, Peer[r.seal.by])
               PROVE  LET read == encode_request_context(received(r, "operation"), received(r, "request_id"))
                          context == IF is_bound(r.seal.by) THEN read.context ELSE Legacy
                          envelope == received_envelope(received(r, "cipher"),
                                        received(r, "wrapped_session_key"), received(r, "signature"))
                      IN  \A outcome \in open(Peer[r.seal.by], envelope, context) :
                             outcome.result = "Ok" /\ outcome.plaintext = PayloadBytes(r.seal.payload)
    BY Zenon DEF RequestsOpenAtThePeer
  <2> DEFINE context == ReadContext(r.seal.by, received(r, "operation"), received(r, "request_id"))
             envelope == received_envelope(received(r, "cipher"),
                           received(r, "wrapped_session_key"), received(r, "signature"))
  <2>1. r.seal.by \in Candidates /\ Accepted(r.seal) /\ Carries(r) /\ r.seal.context = SignedContext(r)
    BY Zenon DEF ClientInv, SoundRequest
  <2>2. envelope = envelope_of(r.seal)
    BY <2>1, Reassembled, Zenon DEF Carries
  <2>3. context = r.seal.context
    BY <2>1, Zenon DEF Carries, SignedContext, ReadContext
  <2>4. Configured(Peer[r.seal.by])
    BY Zenon, <2>1, PartiesAreConfigured
  <2> HIDE DEF context, envelope
  <2>5. \A o \in open(Peer[r.seal.by], envelope, context) :
           o.result = "Ok" /\ o.plaintext = PayloadBytes(r.seal.payload)
    BY Zenon, <2>1, <2>2, <2>3, <2>4, RoundTrips
  <2> QED BY <2>5, Zenon DEF context, envelope, ReadContext
<1> QED BY <1>1, ClientInvariant, PTL

-----------------------------------------------------------------------------
(* Pinned clients. *)

LEMMA CollectionErrors ==
    ASSUME NEW pairs PROVE from_pairs(pairs) \in {"none", "InvalidHeader", "HeaderConflict"}
<1>1. \A i : insert_error(pairs, i) \in {"none", "InvalidHeader", "HeaderConflict"}
  BY Zenon DEF insert_error
<1> QED BY <1>1, Zenon DEF from_pairs

LEMMA FinishErrors ==
    ASSUME NEW parts, NEW more PROVE finish(parts, more).err # "AuthenticationContext"
<1>1. append_checked(parts.headers, more).err \in {"none", "InvalidHeader", "HeaderConflict"}
  BY Zenon, CollectionErrors DEF append_checked
<1>2. from_pairs(parts.headers) \in {"none", "InvalidHeader", "HeaderConflict"}
  BY Zenon, CollectionErrors
<1> HIDE DEF append_checked
<1>3. CASE parts.err # "none"
  <2>1. finish(parts, more) = [err |-> "ProtocolAdapter", entries |-> <<>>]
    BY <1>3, Zenon DEF finish
  <2> QED BY <2>1
<1>4. CASE parts.err = "none" /\ from_pairs(parts.headers) # "none"
  <2>1. finish(parts, more) = [err |-> from_pairs(parts.headers), entries |-> parts.headers]
    BY <1>4, Zenon DEF finish
  <2> QED BY <1>2, <2>1
<1>5. CASE parts.err = "none" /\ from_pairs(parts.headers) = "none"
  <2>1. finish(parts, more) = append_checked(parts.headers, more)
    BY <1>5, Zenon DEF finish
  <2> QED BY Zenon, <1>1, <2>1
<1> QED BY Zenon, <1>3, <1>4, <1>5

LEMMA PrepareErrors ==
    ASSUME NEW call, NEW generated \in generate_errors(call)
    PROVE  prepare_error(call, generated) # "AuthenticationContext"
<1> DEFINE metadata == metadata_of(call)
           errors == {"none", "InvalidHeader", "HeaderConflict", "Encryption", "Serialization"}
           checks == <<
             IF validate_context_value(metadata.request_id) /\ validate_context_value(metadata.request_time)
               THEN "none" ELSE "InvalidHeader",
             from_pairs(call.additional), generated,
             IF validate_context_value(call.operation) THEN "none" ELSE "InvalidHeader",
             IF call.value = Unserializable THEN "Serialization" ELSE "none">>
<1>1. prepare_error(call, generated) = first_error(checks)
  BY Zenon DEF prepare_error
<1>2. from_pairs(call.additional) \in errors /\ generated \in errors
  <2>1. generated \in {"none", "Encryption", "Serialization"}
    BY Zenon DEF generate_errors
  <2>2. from_pairs(call.additional) \in {"none", "InvalidHeader", "HeaderConflict"}
    BY Zenon, CollectionErrors
  <2> QED BY Zenon, <2>1, <2>2
<1>3. DOMAIN checks = 1..5 /\ 5 \in Nat
  OBVIOUS
<1>4. \A i \in 1..5 : checks[i] \in errors
  <2> SUFFICES ASSUME NEW i \in 1..5 PROVE checks[i] \in errors
    OBVIOUS
  <2>1. i \in {1, 2, 3, 4, 5}
    OBVIOUS
  <2> QED BY <1>2, <2>1
<1> HIDE DEF checks, errors
<1>5. first_error(checks) = "none" \/ first_error(checks) \in errors
  BY <1>3, <1>4, FirstError, Zenon
<1> QED BY Zenon, <1>1, <1>5 DEF errors

\* A pinned client's own context always fits its configuration.
LEMMA PinnedContextFits ==
    ASSUME NEW c \in Candidates, Pinned(c), Adapter[c] = "Header", NEW context,
           NEW x \in authentication_contexts(c, context), x.err = "none"
    PROVE  kinds_match(Config[c].authentication_mode, x.context)
<1>1. x.context = ReadContext(c, context.operation, context.request_id)
  BY RequestContext, Zenon DEF ReadContext
<1>2. Config[c].authentication_mode.kind \in {"LegacyPlaintext", "ContextBound"}
  BY PartiesAreConfigured, Zenon DEF Configured
<1>3. CASE is_bound(c)
  <2>1. x.context = Bound(<<HEADER_CONTEXT_VERSION, HEADER_CONTEXT_REQUEST,
                            context.operation, context.request_id>>)
    BY <1>1, <1>3, Zenon DEF ReadContext, encode_request_context
  <2>2. x.context.kind = "Bound"
    BY <2>1, WellFormedContexts, Zenon
  <2> QED BY Zenon, <1>3, <2>2 DEF kinds_match, is_bound
<1>4. CASE ~is_bound(c)
  <2>1. x.context.kind = "Legacy"
    BY <1>1, <1>4, WellFormedContexts, Zenon DEF ReadContext
  <2> QED BY Zenon, <1>2, <1>4, <2>1 DEF kinds_match, is_bound
<1> QED BY Zenon, <1>3, <1>4

\* The Result of a request that was not handed out.
LEMMA RequestFails ==
    ASSUME ClientInv, NEW c \in Candidates, NEW call \in Calls, Request(c, call), Adapter[c] = "Header"
    PROVE  \/ UNCHANGED returned
           \/ \E e : e # "AuthenticationContext" /\ returned' = Result("request", c, e)
<1>0. Pinned(c)
  BY Zenon DEF ClientInv, Request
<1>1. CASE FailUnsealed(c, call)
  <2> DEFINE context == protocol_context(call)
  <2>1. PICK generated \in generate_errors(call) :
          \/ returned' = Result("request", c, prepare_error(call, generated))
          \/ \E x \in authentication_contexts(c, context) :
                LET unsealed == IF x.err # "none" THEN "ProtocolAdapter"
                                ELSE seal_error(c, call.value, x.context)
                IN  returned' = Result("request", c, IF unsealed = "none" THEN "Encryption" ELSE unsealed)
    BY <1>1, Zenon DEF FailUnsealed
  <2>2. CASE returned' = Result("request", c, prepare_error(call, generated))
    BY <2>2, PrepareErrors, Zenon
  <2>3. ASSUME NEW x \in authentication_contexts(c, context), NEW unsealed,
               unsealed = IF x.err # "none" THEN "ProtocolAdapter"
                          ELSE seal_error(c, call.value, x.context)
        PROVE  (IF unsealed = "none" THEN "Encryption" ELSE unsealed) # "AuthenticationContext"
    <3>1. CASE x.err # "none"
      BY Zenon, <2>3, <3>1
    <3>2. CASE x.err = "none"
      <4>1. kinds_match(Config[c].authentication_mode, x.context)
        BY Zenon, <1>0, <3>2, PinnedContextFits
      <4>2. unsealed \in {"none", "MessageTooLarge"}
        BY Zenon, <2>3, <3>2, <4>1 DEF seal_error
      <4> QED BY Zenon, <4>2
    <3> QED BY Zenon, <3>1, <3>2
  <2> QED BY <2>1, <2>2, <2>3, Zenon
<1>2. CASE SealAndLayOut(c, call)
  <2>1. \/ UNCHANGED returned
        \/ \E parts : returned' = Result("request", c, finish(parts, call.additional).err)
    BY <1>2, Zenon DEF SealAndLayOut
  <2> QED BY <2>1, FinishErrors, Zenon
<1> QED BY Zenon, <1>1, <1>2 DEF Request

NeverReported ==
    returned.op = "request" /\ Adapter[returned.client] = "Header"
      => returned.result # "AuthenticationContext"

\* A client whose adapter pins an authentication kind neither reports a mismatch nor seals
\* under a context of the other kind: SecureClient::new refuses what could not fit.
THEOREM PinsHold == Spec => []PinnedClientsNeverMismatch
<1>1. Init => NeverReported
  BY DEF Init, Idle, NeverReported
<1>2. ClientInv /\ NeverReported /\ [Next]_vars => NeverReported'
  <2> SUFFICES ASSUME ClientInv, NeverReported, [Next]_vars PROVE NeverReported'
    OBVIOUS
  <2>1. ASSUME UNCHANGED returned PROVE NeverReported'
    BY Zenon, <2>1 DEF NeverReported
  <2>2. ASSUME returned'.op # "request" PROVE NeverReported'
    BY Zenon, <2>2 DEF NeverReported
  <2>3. ASSUME NEW c \in Candidates, New(c) PROVE NeverReported'
    <3>1. returned' = returned \/ returned' = Result("new", c, "AuthenticationContext")
      BY <2>3, Zenon DEF New
    <3>2. Result("new", c, "AuthenticationContext").op # "request"
      BY Zenon DEF Result
    <3> QED BY Zenon, <2>1, <2>2, <3>1, <3>2
  <2>4. ASSUME NEW c \in Candidates, NEW call \in Calls, Request(c, call) PROVE NeverReported'
    <3>1. CASE UNCHANGED returned
      BY Zenon, <2>1, <3>1
    <3>2. CASE ~UNCHANGED returned /\ Adapter[c] = "Header"
      <4>1. PICK e : e # "AuthenticationContext" /\ returned' = Result("request", c, e)
        BY Zenon, <2>4, <3>2, RequestFails
      <4>2. returned'.result = e
        BY Zenon, <4>1 DEF Result
      <4> QED BY Zenon, <4>1, <4>2 DEF NeverReported
    <3>3. CASE ~UNCHANGED returned /\ Adapter[c] # "Header"
      <4>1. \E e : returned' = Result("request", c, e)
        BY <2>4, <3>3, Zenon DEF Request, FailUnsealed, SealAndLayOut
      <4>2. returned'.client = c
        BY <4>1 DEF Result
      <4> QED BY Zenon, <3>3, <4>2 DEF NeverReported
    <3> QED BY Zenon, <3>1, <3>2, <3>3
  <2>5. ASSUME NEW c \in Candidates, NEW reply \in Payloads, Answer(c, reply) PROVE NeverReported'
    BY Zenon, <2>1, <2>5 DEF Answer
  <2>6. ASSUME NEW c \in Candidates, NEW json \in BOOLEAN, OpenResponse(c, json) PROVE NeverReported'
    <3>1. returned'.op = "open"
      BY <2>6 DEF OpenResponse
    <3> QED BY Zenon, <2>2, <3>1
  <2>7. CASE Collect
    BY Zenon, <2>2, <2>7 DEF Collect, Idle
  <2>8. CASE UNCHANGED vars
    BY Zenon, <2>1, <2>8 DEF vars
  <2> QED BY <2>3, <2>4, <2>5, <2>6, <2>7, <2>8, Zenon DEF Next
<1>3. ClientInv /\ NeverReported => PinnedClientsNeverMismatch
  BY Zenon DEF ClientInv, NeverReported, PinnedClientsNeverMismatch
<1> QED BY <1>1, <1>2, <1>3, ClientInvariant, PTL DEF Spec

-----------------------------------------------------------------------------
(* Responses. *)

\* An envelope whose fields come from these answers.
Mixed(k, w, g) ==
    [cipher |-> envelope_of(k.seal).cipher,
     wrapped_session_key |-> envelope_of(w.seal).wrapped_session_key,
     signature |-> envelope_of(g.seal).signature]

EchoedContext(c, request_id) ==
    IF is_bound(c) THEN encode_response_context(request_id).context ELSE Legacy

LEMMA EchoedContextIs ==
    ASSUME NEW c, NEW request_id
    PROVE  /\ WellFormed(EchoedContext(c, request_id))
           /\ is_bound(c) => EchoedContext(c, request_id).bytes
                = <<HEADER_CONTEXT_VERSION, HEADER_CONTEXT_RESPONSE, request_id>>
BY WellFormedContexts, Zenon DEF EchoedContext, encode_response_context

Claim(peer, pad) == [Text(peer) EXCEPT !.pad = pad]

LEMMA ClaimIsSendable ==
    ASSUME NEW peer, NEW pad
    PROVE  Sendable(Claim(peer, pad)) /\ validate_context_value(trim(Claim(peer, pad)))
<1> DEFINE claim == Claim(peer, pad)
<1>1. IsText(Text(peer)) /\ Text(peer).core = <<peer>> /\ Text(peer).control = "none"
  BY TextIsText, Zenon DEF Text
<1>2. claim = [core |-> Text(peer).core, pad |-> pad, control |-> Text(peer).control]
  BY <1>1, WithPad, Zenon DEF Claim
<1> HIDE DEF claim
<1>3. IsText(claim) /\ claim.core = <<peer>> /\ claim.control = "none"
  BY Zenon, <1>1, <1>2 DEF IsText
<1>4. PICK x : trim(claim) = [core |-> claim.core, pad |-> x, control |-> claim.control]
  BY <1>3, Trimmed, Zenon
<1>5. trim(claim).core = <<peer>> /\ trim(claim).control = "none"
  BY <1>3, <1>4
<1> QED BY <1>3, <1>5 DEF Sendable, HeaderValue_new, is_blank, validate_context_value, claim

LEMMA EchoableIsSendable ==
    ASSUME NEW id
    PROVE  Echoable(id) <=> Sendable(id) /\ require_exact_trim(id) = "none"
BY Zenon DEF Echoable, Sendable, require_exact_trim

\* What the adapter reads from such a response, p.
ReadAs(c, claim, k, w, g, i, p) ==
    /\ p.err = "none" <=> (is_bound(c) => Echoable(i.request_id))
    /\ p.err = "none" =>
         /\ p.remote_signing_certificate_id = trim(claim)
         /\ p.context = EchoedContext(c, i.request_id)
         /\ received_envelope(p.envelope.cipher, p.envelope.wrapped_session_key,
                              p.envelope.signature) = Mixed(k, w, g)

LEMMA ResponseIsRead ==
    ASSUME NEW c \in Candidates, Pinned(c), Adapter[c] = "Header", NEW claim,
           Sendable(claim), validate_context_value(trim(claim)), NEW k, NEW w, NEW g, NEW i
    PROVE  LET response == response_of(c, claim, k, w, g, i)
           IN  ReadAs(c, claim, k, w, g, i,
                      parse_response(Schema[c], response.headers, response.body))
<1> DEFINE b == Schema[c]
           cipher == as_text(envelope_of(k.seal).cipher)
           wrapped == as_text(envelope_of(w.seal).wrapped_session_key)
           signature == as_text(envelope_of(g.seal).signature)
           v == [signature |-> signature, wrapped_session_key |-> wrapped,
                 remote_signing_certificate |-> claim, request_id |-> i.request_id, cipher |-> cipher]
           content == IF b.response_cipher = Body THEN cipher ELSE EmptyText
           response == response_of(c, claim, k, w, g, i)
           p == parse_response(b, laid_out(b, v), content)
<1>1. response = [headers |-> laid_out(b, v), body |-> content]
  BY TextsOf, Zenon DEF response_of
<1>2. response.headers = laid_out(b, v) /\ response.body = content
  <2> HIDE DEF response, b, v, content
  <2> QED BY Zenon, <1>1
<1>3. IsBuilder(b) /\ Apart(b)
  BY PartiesAssumption, BuiltIsApart, Zenon
<1>4. /\ v["signature"] = signature /\ v["wrapped_session_key"] = wrapped /\ v["cipher"] = cipher
      /\ v["remote_signing_certificate"] = claim /\ v["request_id"] = i.request_id
  BY Zenon
<1>5. /\ Sendable(signature) /\ Sendable(wrapped) /\ Sendable(cipher) /\ ~is_blank(cipher)
      /\ trim(signature) = signature /\ trim(wrapped) = wrapped /\ trim(cipher) = cipher
  BY Base64Texts, Zenon DEF Sendable
<1>6. /\ as_base64(signature) = envelope_of(g.seal).signature
      /\ as_base64(wrapped) = envelope_of(w.seal).wrapped_session_key
      /\ as_base64(cipher) = envelope_of(k.seal).cipher
  BY Base64Texts, Zenon
<1>7. is_bound(c) <=> b.bound
  BY PinnedKind, Zenon
<1> HIDE DEF b, cipher, wrapped, signature, v
<1>8. /\ p.err = "none" <=>
           /\ Sendable(v["signature"]) /\ Sendable(v["wrapped_session_key"])
           /\ Sendable(v["remote_signing_certificate"])
           /\ b.response_cipher # Body => Sendable(v["cipher"])
           /\ b.response_cipher = Body => ~is_blank(content)
           /\ b.bound => Sendable(v["request_id"])
                           /\ require_exact_trim(v["request_id"]) = "none"
           /\ validate_context_value(trim(v["remote_signing_certificate"]))
      /\ p.err = "none" =>
           /\ p.envelope = [signature |-> trim(v["signature"]),
                            wrapped_session_key |-> trim(v["wrapped_session_key"]),
                            cipher |-> trim(IF b.response_cipher = Body THEN content
                                            ELSE v["cipher"])]
           /\ p.remote_signing_certificate_id = trim(v["remote_signing_certificate"])
           /\ p.context = IF b.bound THEN encode_response_context(v["request_id"]).context
                          ELSE Legacy
  BY <1>3, ParseLaidOut
<1> HIDE DEF p
<1>9. p.err = "none" <=> (is_bound(c) => Echoable(i.request_id))
  BY <1>4, <1>5, <1>7, <1>8, EchoableIsSendable, Zenon
<1>10. ASSUME p.err = "none"
       PROVE  /\ p.remote_signing_certificate_id = trim(claim)
              /\ p.context = EchoedContext(c, i.request_id)
              /\ received_envelope(p.envelope.cipher, p.envelope.wrapped_session_key,
                                   p.envelope.signature) = Mixed(k, w, g)
  <2>1. p.remote_signing_certificate_id = trim(claim)
    BY <1>4, <1>8, <1>10, Zenon
  <2>2. p.context = EchoedContext(c, i.request_id)
    BY <1>4, <1>7, <1>8, <1>10, Zenon DEF EchoedContext
  <2>3. (IF b.response_cipher = Body THEN content ELSE v["cipher"]) = cipher
    BY <1>4, Zenon
  <2>4. p.envelope = [signature |-> signature, wrapped_session_key |-> wrapped, cipher |-> cipher]
    BY <1>4, <1>5, <1>8, <1>10, <2>3, Zenon
  <2>5. received_envelope(p.envelope.cipher, p.envelope.wrapped_session_key, p.envelope.signature)
          = Mixed(k, w, g)
    BY <1>6, <2>4 DEF received_envelope, Mixed
  <2> QED BY <2>1, <2>2, <2>5, Zenon
<1>11. ReadAs(c, claim, k, w, g, i, p)
  BY <1>9, <1>10, Zenon DEF ReadAs
<1> QED BY <1>2, <1>11, Zenon DEF p, b

\* What open_response makes of a response whose fields come from these answers.
Reading(c, claim, k, w, g, i, out) ==
    \/ /\ ~(/\ trim(claim) = Identity[c].remote_signing_certificate
            /\ is_bound(c) => Echoable(i.request_id))
       /\ out = [result |-> "ProtocolAdapter", plaintext |-> None]
    \/ \E o \in open(c, Mixed(k, w, g), EchoedContext(c, i.request_id)) :
          out = [result |-> o.result, plaintext |-> o.plaintext]

LEMMA OpenResponseReads ==
    ASSUME NEW c \in Candidates, Pinned(c), Adapter[c] = "Header", NEW claim,
           Sendable(claim), validate_context_value(trim(claim)), NEW k, NEW w, NEW g, NEW i,
           NEW out \in open_response(c, response_of(c, claim, k, w, g, i))
    PROVE  Reading(c, claim, k, w, g, i, out)
<1> DEFINE response == response_of(c, claim, k, w, g, i)
           p == parse_response(Schema[c], response.headers, response.body)
           e == received_envelope(p.envelope.cipher, p.envelope.wrapped_session_key, p.envelope.signature)
<1>1. /\ p.err = "none" <=> (is_bound(c) => Echoable(i.request_id))
      /\ p.err = "none" => /\ p.remote_signing_certificate_id = trim(claim)
                           /\ p.context = EchoedContext(c, i.request_id)
                           /\ e = Mixed(k, w, g)
  <2>1. ReadAs(c, claim, k, w, g, i, p)
    BY ResponseIsRead, Zenon
  <2> HIDE DEF p
  <2> QED BY <2>1, Zenon DEF ReadAs
<1>2. parses(c, response) = {p}
  BY Zenon DEF parses
<1> HIDE DEF response
<1>3. out \in IF p.err # "none" \/ ~claim_expected(c, p.remote_signing_certificate_id)
                THEN {[result |-> "ProtocolAdapter", plaintext |-> None]}
                ELSE {[result |-> o.result, plaintext |-> o.plaintext] : o \in open(c, e, p.context)}
  <2> HIDE DEF p
  <2> QED BY <1>2, Zenon DEF open_response, response
<1> HIDE DEF p, e
<1>4. CASE p.err # "none" \/ ~claim_expected(c, p.remote_signing_certificate_id)
  BY <1>1, <1>3, <1>4, Zenon DEF Reading, claim_expected
<1>5. CASE ~(p.err # "none" \/ ~claim_expected(c, p.remote_signing_certificate_id))
  <2>1. \E o \in open(c, e, p.context) : out = [result |-> o.result, plaintext |-> o.plaintext]
    BY <1>3, <1>5, Zenon
  <2> QED BY <1>1, <1>5, <2>1, Zenon DEF Reading
<1> QED BY Zenon, <1>4, <1>5

\* The Result of opening a response, ret, from what open_response made of it.
Reports(c, claim, i, parts, out, ret) ==
    /\ ret.op = "open" /\ ret.client = c /\ ret.request_id = i.request_id
    /\ ret.claim = trim(claim) /\ ret.parts = parts
    /\ \/ ret.result = out.result /\ ret.plaintext = out.plaintext
       \/ /\ ret.json /\ out.result = "Ok" /\ ret.result = "Serialization"
          /\ out.plaintext \notin {PayloadBytes(p) : p \in Documents}

LEMMA OpenStep ==
    ASSUME ClientInv, NEW c \in Candidates, Adapter[c] = "Header", NEW json \in BOOLEAN,
           OpenResponse(c, json)
    PROVE  \E k, w, g, i \in answers : \E claim, out :
              Reading(c, claim, k, w, g, i, out) /\ Reports(c, claim, i, {k, w, g, i}, out, returned')
<1>0. Pinned(c)
  BY Zenon DEF ClientInv, OpenResponse
<1>1. PICK k \in answers, w \in answers, g \in answers, i \in answers, peer \in Peers, pad \in BOOLEAN :
        LET response == response_of(c, Claim(peer, pad), k, w, g, i)
        IN  \E x \in IF json THEN open_json_response(c, response) ELSE open_response(c, response) :
               returned' = [op |-> "open", client |-> c, result |-> x.result,
                            plaintext |-> x.plaintext, request_id |-> i.request_id,
                            json |-> json, claim |-> trim(Claim(peer, pad)), parts |-> {k, w, g, i}]
  BY Zenon DEF OpenResponse, Claim
<1> DEFINE claim == Claim(peer, pad)
           response == response_of(c, claim, k, w, g, i)
           parts == {k, w, g, i}
<1>2. PICK x \in IF json THEN open_json_response(c, response) ELSE open_response(c, response) :
        returned' = [op |-> "open", client |-> c, result |-> x.result,
                     plaintext |-> x.plaintext, request_id |-> i.request_id,
                     json |-> json, claim |-> trim(claim), parts |-> parts]
  BY <1>1, Zenon
<1>3. Sendable(claim) /\ validate_context_value(trim(claim))
  BY Zenon, ClaimIsSendable
<1> HIDE DEF claim, parts
<1>4. \A out \in open_response(c, response) : Reading(c, claim, k, w, g, i, out)
  BY <1>0, <1>3, OpenResponseReads, Zenon
<1> HIDE DEF response
<1>5. /\ returned'.op = "open" /\ returned'.client = c /\ returned'.request_id = i.request_id
      /\ returned'.claim = trim(claim) /\ returned'.parts = parts
      /\ returned'.result = x.result /\ returned'.plaintext = x.plaintext
      /\ returned'.json <=> json
  BY <1>2, Zenon
<1>6. CASE x \in open_response(c, response)
  BY <1>4, <1>5, <1>6, Zenon DEF Reports, parts
<1>7. CASE x \notin open_response(c, response)
  <2>1. json /\ x \in open_json_response(c, response)
    BY <1>2, <1>7, Zenon
  <2>2. PICK out \in open_response(c, response) :
          /\ out.result = "Ok" /\ out.plaintext \notin {PayloadBytes(p) : p \in Documents}
          /\ x = [result |-> "Serialization", plaintext |-> None]
    BY <1>7, <2>1, Zenon DEF open_json_response
  <2>3. x.result = "Serialization"
    BY <2>2, Zenon
  <2> QED BY <1>4, <1>5, <2>1, <2>2, <2>3, Zenon DEF Reports, parts
<1> QED BY <1>6, <1>7, Zenon

\* A response that arrives as its peer made it, with the certificate the client expects,
\* opens at every client that trusts that peer, whatever happened since: open_response
\* returns the peer's payload and open_json_response fails only to deserialize it.
THEOREM AnswersArrive == Spec => []IntactAnswersOpen
<1>1. Init => IntactAnswersOpen
  BY Zenon DEF Init, Idle, IntactAnswersOpen
<1>2. ClientInv /\ IntactAnswersOpen /\ [Next]_vars => IntactAnswersOpen'
  <2> SUFFICES ASSUME ClientInv, IntactAnswersOpen, [Next]_vars PROVE IntactAnswersOpen'
    OBVIOUS
  <2>1. ASSUME returned'.op # "open" PROVE IntactAnswersOpen'
    BY <2>1, Zenon DEF IntactAnswersOpen
  <2>2. ASSUME UNCHANGED returned, returned = Idle PROVE IntactAnswersOpen'
    BY Zenon, <2>1, <2>2 DEF Idle
  <2>3. ASSUME NEW c \in Candidates, New(c) PROVE IntactAnswersOpen'
    <3>1. returned = Idle
            /\ (returned' = returned \/ returned' = Result("new", c, "AuthenticationContext"))
      BY <2>3, Zenon DEF New
    <3>2. Result("new", c, "AuthenticationContext").op # "open"
      BY Zenon DEF Result
    <3> QED BY Zenon, <2>1, <2>2, <3>1, <3>2
  <2>4. ASSUME NEW c \in Candidates, NEW call \in Calls, Request(c, call) PROVE IntactAnswersOpen'
    <3>1. returned = Idle /\ (returned' = returned \/ \E e : returned' = Result("request", c, e))
      BY <2>4, Zenon DEF Request, FailUnsealed, SealAndLayOut
    <3>2. \A e : Result("request", c, e).op # "open"
      BY Zenon DEF Result
    <3> QED BY Zenon, <2>1, <2>2, <3>1, <3>2
  <2>5. ASSUME NEW c \in Candidates, NEW reply \in Payloads, Answer(c, reply) PROVE IntactAnswersOpen'
    BY Zenon, <2>2, <2>5 DEF Answer
  <2>6. ASSUME NEW c \in Candidates, NEW json \in BOOLEAN, OpenResponse(c, json) PROVE IntactAnswersOpen'
    <3>1. returned'.client = c /\ answers' = answers
      BY <2>6 DEF OpenResponse
    <3> SUFFICES ASSUME Adapter[c] = "Header", NEW a \in answers, returned'.parts = {a},
                        returned'.claim = Identity[c].remote_signing_certificate,
                        SealedFor(a.seal, c)
                 PROVE  \/ returned'.result = "Ok" /\ returned'.plaintext = PayloadBytes(a.seal.payload)
                        \/ /\ returned'.json /\ a.seal.payload \notin Documents
                           /\ returned'.result = "Serialization"
      BY <3>1, Zenon DEF IntactAnswersOpen
    <3>2. PICK k \in answers, w \in answers, g \in answers, i \in answers : \E claim, out :
              Reading(c, claim, k, w, g, i, out) /\ Reports(c, claim, i, {k, w, g, i}, out, returned')
      BY <2>6, OpenStep, Zenon
    <3>3. PICK claim, out :
              Reading(c, claim, k, w, g, i, out) /\ Reports(c, claim, i, {k, w, g, i}, out, returned')
      BY Zenon, <3>2
    <3>4. k = a /\ w = a /\ g = a /\ i = a
      <4>1. {k, w, g, i} = {a}
        BY <3>3, Zenon DEF Reports
      <4> QED BY Zenon, <4>1
    <3>5. SoundAnswer(a) /\ trim(claim) = Identity[c].remote_signing_certificate
      BY <3>3, Zenon DEF Reports, ClientInv
    <3>6. is_bound(a.seal.by) <=> is_bound(c)
      BY Zenon DEF SealedFor, is_bound
    <3>7. is_bound(c) => Echoable(a.request_id)
      BY <3>5, <3>6, Zenon DEF SoundAnswer
    <3>8. a.seal.context = EchoedContext(c, a.request_id) /\ Accepted(a.seal)
      BY <3>5, <3>6, Zenon DEF SoundAnswer, EchoedContext
    <3>9. Mixed(a, a, a) = envelope_of(a.seal)
      BY Zenon DEF Mixed, envelope_of
    <3>10. PICK o \in open(c, envelope_of(a.seal), a.seal.context) :
              out = [result |-> o.result, plaintext |-> o.plaintext]
      BY <3>3, <3>4, <3>5, <3>7, <3>8, <3>9, Zenon DEF Reading
    <3>11. o.result = "Ok" /\ o.plaintext = PayloadBytes(a.seal.payload)
      BY Zenon, <3>8, PartiesAreConfigured, RoundTrips
    <3>12. out.result = "Ok" /\ out.plaintext = PayloadBytes(a.seal.payload)
      BY Zenon, <3>10, <3>11
    <3> QED BY <3>3, <3>12, Zenon DEF Reports
  <2>7. CASE Collect
    BY <2>1, <2>7, Zenon DEF Collect, Idle
  <2>8. CASE UNCHANGED vars
    BY Zenon, <2>8 DEF vars, IntactAnswersOpen
  <2> QED BY <2>3, <2>4, <2>5, <2>6, <2>7, <2>8, Zenon DEF Next
<1> QED BY <1>1, <1>2, ClientInvariant, PTL DEF Spec

-----------------------------------------------------------------------------
(* The exchange. *)

Acted == Correlated /\ BoundHeader(returned.client)

AcceptedAnswer ==
    [answerer |-> Keys[returned.client].remote_verification,
     domain |-> Config[returned.client].authentication_mode.domain_separator,
     request_id |-> returned.request_id,
     payload |-> returned.plaintext.payload]

PossibleAnswers ==
    [ask : PossibleAsks, answerer : {Keys[p].local_signing : p \in Peers}, payload : Payloads]

\* The application acts only on what a peer answered: the payload it gets for an id is the
\* payload a trusted peer sealed in answer to a request of that id.
LEMMA AcceptedWasAnswered ==
    ASSUME ClientInv, NEW c \in Candidates, NEW json \in BOOLEAN, OpenResponse(c, json), Acted'
    PROVE  \E a \in BoundAnswers : AcceptedAnswer' = Exchange!Visible(a)
<1>1. returned'.client = c
  BY DEF OpenResponse
<1>2. Adapter[c] = "Header" /\ is_bound(c) /\ returned'.result = "Ok"
  BY Zenon, <1>1 DEF Acted, BoundHeader, Correlated, is_bound
<1>3. PICK k \in answers, w \in answers, g \in answers, i \in answers : \E claim, out :
          Reading(c, claim, k, w, g, i, out) /\ Reports(c, claim, i, {k, w, g, i}, out, returned')
  BY <1>2, OpenStep, Zenon
<1>4. PICK claim, out :
          Reading(c, claim, k, w, g, i, out) /\ Reports(c, claim, i, {k, w, g, i}, out, returned')
  BY <1>3, Zenon
<1>5. /\ returned'.request_id = i.request_id
      /\ out.result = "Ok" /\ returned'.plaintext = out.plaintext
  BY <1>2, <1>4, Zenon DEF Reports
<1>6. PICK o \in open(c, Mixed(k, w, g), EchoedContext(c, i.request_id)) :
          out = [result |-> o.result, plaintext |-> o.plaintext]
  BY <1>4, <1>5 DEF Reading
<1>7. o.result = "Ok" /\ returned'.plaintext = o.plaintext
  BY <1>5, <1>6, Zenon
<1>8. SoundAnswer(g)
  BY Zenon DEF ClientInv
<1>9. Configured(c) /\ Configured(g.seal.by)
  BY <1>8, PartiesAssumption, Zenon DEF SoundAnswer
<1>10. SignedBy(Mixed(k, w, g), g.seal)
  BY Zenon DEF SignedBy, Mixed
<1>11. g.seal.context = EchoedContext(g.seal.by, g.request_id)
  BY <1>8, Zenon DEF SoundAnswer, EchoedContext
<1>12. WellFormed(g.seal.context) /\ WellFormed(EchoedContext(c, i.request_id))
  BY <1>11, EchoedContextIs, Zenon
<1>13. /\ o.plaintext = PayloadBytes(g.seal.payload)
       /\ is_bound(g.seal.by) <=> is_bound(c)
       /\ Config[g.seal.by].authentication_mode.domain_separator
            = Config[c].authentication_mode.domain_separator
       /\ g.seal.context.bytes = EchoedContext(c, i.request_id).bytes
       /\ Keys[g.seal.by].local_signing = Keys[c].remote_verification
  BY Zenon, <1>6, <1>7, <1>9, <1>10, <1>12, OpenedWasSealed
<1>14. i.request_id = g.request_id
  <2> DEFINE echo(id) == <<HEADER_CONTEXT_VERSION, HEADER_CONTEXT_RESPONSE, id>>
  <2>1. EchoedContext(c, i.request_id).bytes = echo(i.request_id)
    BY <1>2, EchoedContextIs, Zenon
  <2>2. g.seal.context.bytes = echo(g.request_id)
    BY <1>2, <1>11, <1>13, EchoedContextIs
  <2>3. echo(i.request_id) = echo(g.request_id)
    BY <1>13, <2>1, <2>2, Zenon
  <2> QED BY <2>3, Zenon
<1>15. AnswerOf(g) \in BoundAnswers
  BY <1>2, <1>13, Zenon DEF BoundAnswers
<1>16. returned'.plaintext.payload = g.seal.payload
  BY <1>7, <1>13 DEF PayloadBytes
<1>17. Exchange!Visible(AnswerOf(g)) =
         [answerer |-> Keys[g.seal.by].local_signing,
          domain |-> Config[g.seal.by].authentication_mode.domain_separator,
          request_id |-> g.request_id, payload |-> g.seal.payload]
  BY Zenon DEF Exchange!Visible, AnswerOf
<1>18. AcceptedAnswer' = Exchange!Visible(AnswerOf(g))
  BY <1>1, <1>5, <1>13, <1>14, <1>16, <1>17, Zenon DEF AcceptedAnswer
<1> QED BY Zenon, <1>15, <1>18

Taken == IF Acted THEN AcceptedAnswer ELSE None

LEMMA OneMoreAsk ==
    ASSUME NEW r, requests' = requests \cup {r}
    PROVE  BoundAsks' = IF BoundHeader(r.seal.by) THEN BoundAsks \cup {AskOf(r)} ELSE BoundAsks
BY Zenon DEF BoundAsks, BoundHeader, AskOf, is_bound

LEMMA OneMoreAnswer ==
    ASSUME NEW a, answers' = answers \cup {a}
    PROVE  BoundAnswers' = IF is_bound(a.seal.by) THEN BoundAnswers \cup {AnswerOf(a)} ELSE BoundAnswers
BY Zenon DEF BoundAnswers, AnswerOf, is_bound

LEMMA SameExchange ==
    /\ UNCHANGED requests => BoundAsks' = BoundAsks
    /\ UNCHANGED answers => BoundAnswers' = BoundAnswers
    /\ UNCHANGED <<requests, returned>> => Taken' = Taken
    /\ returned = Idle => Taken = None
    /\ returned'.op # "open" => Taken' = None
<1>1. UNCHANGED requests => BoundAsks' = BoundAsks
  BY Zenon DEF BoundAsks, BoundHeader, AskOf, is_bound
<1>2. UNCHANGED answers => BoundAnswers' = BoundAnswers
  BY Zenon DEF BoundAnswers, AnswerOf, is_bound
<1>3. UNCHANGED <<requests, returned>> => Taken' = Taken
  BY Zenon DEF Taken, Acted, AcceptedAnswer, Correlated, BoundHeader, is_bound
<1>4. returned = Idle => Taken = None
  BY DEF Taken, Acted, Correlated, Idle
<1>5. returned'.op # "open" => Taken' = None
  BY Zenon DEF Taken, Acted, Correlated
<1> QED BY Zenon, <1>1, <1>2, <1>3, <1>4, <1>5

\* The workflow implements the authentic exchange: with the requests and answers of
\* context-bound header clients read as what was asked and answered, and the correlated
\* response the application holds as the accepted answer, every step is a step of the
\* abstract specification or leaves it unchanged.
THEOREM Exchanges == Spec => ImplementsExchange
<1>1. Init => Exchange!Init
  BY Zenon DEF Init, Idle, BoundAsks, BoundAnswers, Correlated, Exchange!Init
<1>2. ClientInv /\ [Next]_vars => [Exchange!Next]_(Exchange!xvars)
  <2> SUFFICES ASSUME ClientInv, [Next]_vars PROVE [Exchange!Next]_(Exchange!xvars)
    OBVIOUS
  <2>stutter. ASSUME UNCHANGED <<BoundAsks, BoundAnswers, Taken>>
              PROVE  [Exchange!Next]_(Exchange!xvars)
    BY <2>stutter, Zenon DEF Exchange!xvars, Taken, Acted, AcceptedAnswer
  <2>1. ASSUME NEW c \in Candidates, New(c) PROVE [Exchange!Next]_(Exchange!xvars)
    <3>1. /\ returned = Idle /\ UNCHANGED <<requests, answers>>
          /\ returned' = returned \/ returned' = Result("new", c, "AuthenticationContext")
      BY <2>1, Zenon DEF New
    <3>2. returned'.op # "open"
      BY <3>1 DEF Result, Idle
    <3> QED BY <2>stutter, <3>1, <3>2, SameExchange, Zenon
  <2>2. ASSUME NEW c \in Candidates, NEW call \in Calls, Request(c, call)
        PROVE  [Exchange!Next]_(Exchange!xvars)
    <3>1. /\ returned = Idle
          /\ returned' = returned \/ \E e : returned' = Result("request", c, e)
      BY <2>2, Zenon DEF Request, FailUnsealed, SealAndLayOut
    <3>2. returned'.op # "open"
      BY <3>1 DEF Result, Idle
    <3>3. UNCHANGED <<BoundAnswers, Taken>>
      BY <2>2, <3>1, <3>2, RequestStep, SameExchange, Zenon
    <3>4. CASE UNCHANGED requests
      BY <2>stutter, <3>3, <3>4, SameExchange, Zenon
    <3>5. CASE ~UNCHANGED requests
      <4>1. PICK r : SoundRequest(r) /\ requests' = requests \cup {r}
        BY <2>2, <3>5, RequestStep, Zenon
      <4>2. CASE ~BoundHeader(r.seal.by)
        BY <2>stutter, <3>3, <4>1, <4>2, OneMoreAsk, Zenon
      <4>3. CASE BoundHeader(r.seal.by)
        <5>1. BoundAsks' = BoundAsks \cup {AskOf(r)}
          BY <4>1, <4>3, OneMoreAsk, Zenon
        <5>2. AskOf(r) \in PossibleAsks
          BY Zenon, <4>1 DEF SoundRequest
        <5>3. Exchange!Ask(AskOf(r))
          BY <3>3, <5>1, Zenon DEF Exchange!Ask, Taken, Acted, AcceptedAnswer
        <5> QED BY <5>2, <5>3, Zenon DEF Exchange!Next
      <4> QED BY Zenon, <4>2, <4>3
    <3> QED BY Zenon, <3>4, <3>5
  <2>3. ASSUME NEW c \in Candidates, NEW reply \in Payloads, Answer(c, reply)
        PROVE  [Exchange!Next]_(Exchange!xvars)
    <3>1. UNCHANGED <<requests, returned>>
      BY Zenon, <2>3 DEF Answer
    <3>2. UNCHANGED <<BoundAsks, Taken>>
      BY <3>1, SameExchange, Zenon
    <3>3. PICK a : answers' = answers \cup {a} /\ \E g \in requests : GivenTo(a, g)
      BY <2>3, AnswerStep, Zenon
    <3>4. PICK g \in requests : GivenTo(a, g)
      BY Zenon, <3>3
    <3>5. CASE ~is_bound(a.seal.by)
      BY <2>stutter, <3>2, <3>3, <3>5, OneMoreAnswer, Zenon
    <3>6. CASE is_bound(a.seal.by)
      <4>1. BoundAnswers' = BoundAnswers \cup {AnswerOf(a)}
        BY <3>3, <3>6, OneMoreAnswer, Zenon
      <4>2. BoundHeader(g.seal.by) /\ AnswerOf(a).ask = AskOf(g)
        BY <3>4, <3>6, Zenon DEF GivenTo
      <4>3. AnswerOf(a).ask \in BoundAsks
        BY <4>2, Zenon DEF BoundAsks
      <4>4. AskOf(g) \in PossibleAsks
        BY Zenon DEF ClientInv, SoundRequest
      <4>5. AnswerOf(a) = [ask |-> AnswerOf(a).ask, answerer |-> AnswerOf(a).answerer,
                           payload |-> AnswerOf(a).payload]
        BY Zenon DEF AnswerOf
      <4>6. AnswerOf(a) \in PossibleAnswers
        BY Zenon, <3>4, <4>2, <4>4, <4>5 DEF GivenTo, PossibleAnswers
      <4>7. Exchange!Answer(AnswerOf(a))
        BY <3>2, <4>1, <4>3, Zenon DEF Exchange!Answer, Taken, Acted, AcceptedAnswer
      <4> QED BY <4>6, <4>7, Zenon DEF Exchange!Next, PossibleAnswers
    <3> QED BY Zenon, <3>5, <3>6
  <2>4. ASSUME NEW c \in Candidates, NEW json \in BOOLEAN, OpenResponse(c, json)
        PROVE  [Exchange!Next]_(Exchange!xvars)
    <3>1. returned = Idle /\ UNCHANGED <<requests, answers>>
      BY <2>4, Zenon DEF OpenResponse
    <3>2. UNCHANGED <<BoundAsks, BoundAnswers>> /\ Taken = None
      BY <3>1, SameExchange, Zenon
    <3>3. CASE ~Acted'
      BY <2>stutter, <3>2, <3>3, Zenon DEF Taken
    <3>4. CASE Acted'
      <4>1. PICK a \in BoundAnswers : AcceptedAnswer' = Exchange!Visible(a)
        BY <2>4, <3>4, AcceptedWasAnswered, Zenon
      <4>2. Taken' = Exchange!Visible(a)
        BY <3>4, <4>1, Zenon DEF Taken
      <4>3. Exchange!Accept(a)
        BY <3>2, <4>2, Zenon DEF Exchange!Accept, Taken, Acted, AcceptedAnswer
      <4> QED BY <4>3, Zenon DEF Exchange!Next
    <3> QED BY Zenon, <3>3, <3>4
  <2>5. CASE Collect
    <3>1. UNCHANGED <<requests, answers>> /\ returned'.op # "open"
      BY Zenon, <2>5 DEF Collect, Idle
    <3>2. UNCHANGED <<BoundAsks, BoundAnswers>> /\ Taken' = None
      BY <3>1, SameExchange, Zenon
    <3>3. Exchange!Dismiss
      BY <3>2, Zenon DEF Exchange!Dismiss, Taken, Acted, AcceptedAnswer
    <3> QED BY <3>3, Zenon DEF Exchange!Next
  <2>6. CASE UNCHANGED vars
    <3>1. UNCHANGED <<requests, answers, returned>>
      BY Zenon, <2>6 DEF vars
    <3> QED BY <2>stutter, <3>1, SameExchange, Zenon
  <2> QED BY <2>1, <2>2, <2>3, <2>4, <2>5, <2>6, Zenon DEF Next
<1> QED BY <1>1, <1>2, ClientInvariant, PTL DEF Spec, ImplementsExchange, Exchange!Spec
=============================================================================
