---------------------------- MODULE SecureClient ----------------------------
(***************************************************************************)
(* The client workflow, composed of the header adapter and the envelope:   *)
(* SecureClient::new, a request built by any of its four routes, the peer  *)
(* that reads it and answers, and open_response / open_json_response, over *)
(* a carrier that recombines the fields of requests and of responses.      *)
(*                                                                         *)
(* Every client here belongs to one organisation; the peers, the carrier   *)
(* and custom adapters are external.                                       *)
(***************************************************************************)
EXTENDS ClientCalls

CONSTANTS
    Candidates,     \* what an application may pass to SecureClient::new
    Peer,           \* candidate -> the party it talks to
    Documents,      \* the payloads that deserialize to what the application expects
    Calls,          \* requests: [operation, metadata, additional, value]
    Unserializable, \* a value that is none of Payloads: serde_json fails on it
    MaxSeals        \* bound: seals by clients and peers

Peers == {Peer[c] : c \in Candidates}

IdentityFields ==
    {"local_identity", "api_version", "local_certificate", "remote_signing_certificate",
     "remote_encryption_certificate"}

ASSUME SealBound == MaxSeals \in Nat

\* Configurations and schemas come from their builders.
ASSUME PartiesAssumption ==
    /\ \A c \in Candidates \cup Peers : Configured(c)
    /\ \A c \in Candidates :
          /\ IsBuilder(Schema[c]) /\ build(Schema[c]) = "none"
          /\ DOMAIN Identity[c] = IdentityFields

ASSUME CallsAssumption ==
    \A call \in Calls :
        /\ call.value \in Payloads \cup {Unserializable}
        /\ call.additional \in Seq({call.additional[i] : i \in DOMAIN call.additional})

VARIABLES
    clients,    \* candidates that became clients
    sealed, drawn,
    requests,   \* RequestParts handed to the application, with the call that made them
    answers,    \* what peers answered, to which request
    returned    \* the Result the application holds

vars == <<clients, sealed, drawn, requests, answers, returned>>

Idle == [op |-> "none"]
Result(op, c, result) == [op |-> op, client |-> c, result |-> result]

texts_of(envelope) ==
    [cipher |-> as_text(envelope.cipher), signature |-> as_text(envelope.signature),
     wrapped_session_key |-> as_text(envelope.wrapped_session_key)]

is_bound(c) == Config[c].authentication_mode.kind = "ContextBound"

-----------------------------------------------------------------------------

Init ==
    /\ clients = {}
    /\ sealed = {} /\ drawn = 0
    /\ requests = {} /\ answers = {}
    /\ returned = Idle

\* Plausible slip: an adapter's pin is not compared.
authentication_matches_pin_any(mode, pinned) == TRUE

authentication_matches_pin(mode, pinned) == mode.kind = pinned

\* SecureClient::new.  A custom adapter does not pin a kind.
New(c) ==
    /\ returned = Idle /\ c \notin clients
    /\ IF /\ Adapter[c] = "Header"
          /\ ~authentication_matches_pin(Config[c].authentication_mode,
                                         pinned_authentication(Schema[c]))
         THEN /\ returned' = Result("new", c, "AuthenticationContext")
              /\ UNCHANGED clients
         ELSE /\ clients' = clients \cup {c}
              /\ UNCHANGED returned
    /\ UNCHANGED <<sealed, drawn, requests, answers>>

-----------------------------------------------------------------------------
(* Requests. *)

generate(n) ==
    [request_id |-> [core |-> <<"generated", n>>, pad |-> FALSE, control |-> "none"],
     request_time |-> Text("now")]

\* getrandom may fail, and the clock may stand before the epoch.
generate_errors(call) ==
    IF call.metadata = <<>> THEN {"none", "Encryption", "Serialization"} ELSE {"none"}

metadata_of(call) == IF call.metadata = <<>> THEN generate(drawn + 1) ELSE call.metadata[1]

\* RequestMetadata::new, the builder's header, into_context, from_parts and serialize_json.
prepare_error(call, generated) ==
    LET metadata == metadata_of(call)
    IN  first_error(<<
          IF validate_context_value(metadata.request_id) /\ validate_context_value(metadata.request_time)
            THEN "none" ELSE "InvalidHeader",
          from_pairs(call.additional),
          generated,
          IF validate_context_value(call.operation) THEN "none" ELSE "InvalidHeader",
          IF call.value = Unserializable THEN "Serialization" ELSE "none">>)

protocol_context(call) ==
    [operation |-> call.operation, request_id |-> metadata_of(call).request_id,
     request_time |-> metadata_of(call).request_time]

\* The adapter's part.  A custom adapter may fail, answer either kind of context and
\* return headers that are no collection.
authentication_contexts(c, context) ==
    IF Adapter[c] = "Header" THEN {request_authentication_context(Schema[c], context)}
    ELSE {Refused, [err |-> "none", context |-> Legacy],
          [err |-> "none", context |-> Bound(<<"custom">>)]}

layouts(c, context, envelope) ==
    LET parts == build_request(Schema[c], Identity[c], context, texts_of(envelope))
    IN  IF Adapter[c] = "Header" THEN {parts}
        ELSE {parts, Refused, [parts EXCEPT !.headers = @ \o @]}

\* validate, then append_checked, on what the adapter laid out.
finish(parts, additional) ==
    IF parts.err # "none" THEN [err |-> "ProtocolAdapter", entries |-> <<>>]
    ELSE IF from_pairs(parts.headers) # "none"
      THEN [err |-> from_pairs(parts.headers), entries |-> parts.headers]
    ELSE append_checked(parts.headers, additional)

\* A call that fails before anything is sealed, or while sealing.
FailUnsealed(c, call) ==
    /\ \E generated \in generate_errors(call) :
          LET prepared == prepare_error(call, generated)
              context == protocol_context(call)
          IN  IF prepared # "none" THEN returned' = Result("request", c, prepared)
              ELSE \E authentication \in authentication_contexts(c, context) :
                     LET unsealed == IF authentication.err # "none" THEN "ProtocolAdapter"
                                     ELSE seal_error(c, call.value, authentication.context)
                     IN  returned' = Result("request", c,
                                            IF unsealed = "none" THEN "Encryption" ELSE unsealed)
    /\ UNCHANGED <<clients, sealed, drawn, requests, answers>>

\* A call that seals; it may still fail when the request is laid out.
SealAndLayOut(c, call) ==
    /\ drawn < MaxSeals
    /\ prepare_error(call, "none") = "none"
    /\ \E authentication \in authentication_contexts(c, protocol_context(call)) :
          /\ authentication.err = "none"
          /\ seal_error(c, call.value, authentication.context) = "none"
          /\ LET context == protocol_context(call)
                 s == [by |-> c, payload |-> call.value, context |-> authentication.context,
                       draw |-> drawn + 1]
             IN  \E parts \in layouts(c, context, envelope_of(s)) :
                   LET request == finish(parts, call.additional)
                   IN  /\ sealed' = sealed \cup {s}
                       /\ IF request.err # "none"
                            THEN /\ returned' = Result("request", c, request.err)
                                 /\ UNCHANGED requests
                            ELSE /\ requests' = requests \cup
                                      {[seal |-> s, context |-> context,
                                        headers |-> request.entries, body |-> parts.body]}
                                 /\ UNCHANGED returned
    /\ drawn' = drawn + 1
    /\ UNCHANGED <<clients, answers>>

\* build_request, build_json_request, and bytes and json of the request builder: the
\* routes differ in where the context is made, never in the order of these steps.
Request(c, call) ==
    /\ returned = Idle /\ c \in clients
    /\ FailUnsealed(c, call) \/ SealAndLayOut(c, call)

-----------------------------------------------------------------------------
(* The peer and the carrier (external). *)

value_of(headers, name) == headers[Min(get(headers, name))][2]

\* A field of a request as the peer finds it on the wire.
received(r, f) ==
    LET schema == Schema[r.seal.by]
    IN  IF f # "cipher" THEN value_of(r.headers, schema.request[f])
        ELSE IF schema.request_cipher = Body THEN r.body
        ELSE value_of(r.headers, schema.request_cipher.name)

\* The peer takes the operation and the id of one request and the envelope fields of any,
\* and, when they open, seals its reply for that id.
Answer(c, reply) ==
    /\ returned = Idle /\ drawn < MaxSeals
    /\ Adapter[c] = "Header"
    /\ \E o, i, k, w, g \in {r \in requests : Adapter[r.seal.by] = "Header"} :
          LET operation == received(o, "operation")
              request_id == received(i, "request_id")
              bound == is_bound(Peer[c])
              context == IF bound THEN encode_request_context(operation, request_id).context ELSE Legacy
              envelope == received_envelope(received(k, "cipher"), received(w, "wrapped_session_key"),
                                            received(g, "signature"))
              s == [by |-> Peer[c], payload |-> reply, draw |-> drawn + 1,
                    context |-> IF bound THEN encode_response_context(request_id).context ELSE Legacy]
          IN  \E outcome \in open(Peer[c], envelope, context) :
                 /\ outcome.result = "Ok"
                 /\ seal_error(Peer[c], reply, s.context) = "none"
                 /\ sealed' = sealed \cup {s}
                 /\ answers' = answers \cup
                       {[seal |-> s, operation |-> operation, request_id |-> request_id,
                         payload |-> outcome.plaintext.payload]}
    /\ drawn' = drawn + 1
    /\ UNCHANGED <<clients, requests, returned>>

\* A response whose fields come from these answers.
response_of(c, claim, k, w, g, i) ==
    LET cipher == texts_of(envelope_of(k.seal)).cipher
    IN  [headers |-> laid_out(Schema[c],
             [signature |-> texts_of(envelope_of(g.seal)).signature,
              wrapped_session_key |-> texts_of(envelope_of(w.seal)).wrapped_session_key,
              remote_signing_certificate |-> claim, request_id |-> i.request_id, cipher |-> cipher]),
         body |-> IF Schema[c].response_cipher = Body THEN cipher ELSE EmptyText]

-----------------------------------------------------------------------------
(* Responses. *)

open_json_response(c, response) ==
    {IF outcome.result = "Ok" /\ outcome.plaintext \notin {PayloadBytes(p) : p \in Documents}
       THEN [result |-> "Serialization", plaintext |-> None] ELSE outcome :
     outcome \in open_response(c, response)}

OpenResponse(c, json) ==
    /\ returned = Idle /\ c \in clients
    /\ \E k, w, g, i \in answers, peer \in Peers, pad \in BOOLEAN :
          LET claim == [Text(peer) EXCEPT !.pad = pad]
              response == response_of(c, claim, k, w, g, i)
          IN  \E outcome \in IF json THEN open_json_response(c, response) ELSE open_response(c, response) :
                 returned' = [op |-> "open", client |-> c, result |-> outcome.result,
                              plaintext |-> outcome.plaintext, request_id |-> i.request_id,
                              json |-> json, claim |-> trim(claim), parts |-> {k, w, g, i}]
    /\ UNCHANGED <<clients, sealed, drawn, requests, answers>>

\* The application takes the Result and goes on.
Collect ==
    /\ returned # Idle
    /\ returned' = Idle
    /\ UNCHANGED <<clients, sealed, drawn, requests, answers>>

Next ==
    \/ \E c \in Candidates : New(c)
    \/ \E c \in Candidates, call \in Calls : Request(c, call)
    \/ \E c \in Candidates, reply \in Payloads : Answer(c, reply)
    \/ \E c \in Candidates, json \in BOOLEAN : OpenResponse(c, json)
    \/ Collect

Spec == Init /\ [][Next]_vars

-----------------------------------------------------------------------------
(* Properties. *)

AskOf(r) ==
    [domain |-> Config[r.seal.by].authentication_mode.domain_separator,
     operation |-> r.context.operation, request_id |-> r.context.request_id,
     payload |-> r.seal.payload]

AnswerOf(a) ==
    [ask |-> [domain |-> Config[a.seal.by].authentication_mode.domain_separator,
              operation |-> a.operation, request_id |-> a.request_id, payload |-> a.payload],
     answerer |-> Keys[a.seal.by].local_signing, payload |-> a.seal.payload]

\* The application acts on a verified response whose id is that of a request it made with
\* that client.
Correlated ==
    /\ returned.op = "open" /\ returned.result = "Ok"
    /\ \E r \in requests : r.seal.by = returned.client /\ r.context.request_id = returned.request_id

BoundHeader(c) == Adapter[c] = "Header" /\ is_bound(c)

BoundAsks == {AskOf(r) : r \in {r \in requests : BoundHeader(r.seal.by)}}
BoundAnswers == {AnswerOf(a) : a \in {a \in answers : is_bound(a.seal.by)}}

PossibleAsks ==
    [domain : {Config[c].authentication_mode.domain_separator : c \in Candidates},
     operation : {call.operation : call \in Calls},
     request_id : {call.metadata[1].request_id : call \in {call \in Calls : call.metadata # <<>>}}
                    \cup {generate(n).request_id : n \in 1..MaxSeals},
     payload : Payloads]

Exchange == INSTANCE AuthenticExchange WITH
    Asks <- PossibleAsks,
    Answers <- [ask : PossibleAsks, answerer : {Keys[p].local_signing : p \in Peers}, payload : Payloads],
    Nothing <- None,
    asked <- BoundAsks,
    answered <- BoundAnswers,
    accepted <- IF Correlated /\ BoundHeader(returned.client)
                  THEN [answerer |-> Keys[returned.client].remote_verification,
                        domain |-> Config[returned.client].authentication_mode.domain_separator,
                        request_id |-> returned.request_id,
                        payload |-> returned.plaintext.payload]
                  ELSE None

\* End to end, for context-bound header clients: however the carrier recombines the fields
\* of requests and responses, and whichever ids repeat, the peer performs only operations
\* that build_request was asked for, with that id and payload, and what open_response
\* returns for a correlated id is what the trusted peer answered to a request of that id.
ImplementsExchange == Exchange!Spec

\* A request that build_request hands out opens at the peer it was sealed for, with the
\* operation and the id the peer reads from its headers: the static, mapped and additional
\* headers never hide or replace a field the signature covers.
RequestsOpenAtThePeer ==
    \A r \in requests :
        Adapter[r.seal.by] = "Header" /\ SealedFor(r.seal, Peer[r.seal.by]) =>
            LET read == encode_request_context(received(r, "operation"), received(r, "request_id"))
                context == IF is_bound(r.seal.by) THEN read.context ELSE Legacy
                envelope == received_envelope(received(r, "cipher"),
                                              received(r, "wrapped_session_key"), received(r, "signature"))
            IN  \A outcome \in open(Peer[r.seal.by], envelope, context) :
                   outcome.result = "Ok" /\ outcome.plaintext = PayloadBytes(r.seal.payload)

\* A response that arrives as its peer made it, with the certificate the client expects,
\* opens at every client that trusts that peer, whichever clients were created since and
\* whatever was exchanged in between: replacing a client does not disturb what is in flight.
IntactAnswersOpen ==
    returned.op = "open" /\ Adapter[returned.client] = "Header" =>
        \A a \in answers :
            /\ returned.parts = {a}
            /\ returned.claim = Identity[returned.client].remote_signing_certificate
            /\ SealedFor(a.seal, returned.client)
            => \/ returned.result = "Ok" /\ returned.plaintext = PayloadBytes(a.seal.payload)
               \/ returned.json /\ a.seal.payload \notin Documents /\ returned.result = "Serialization"

\* A client whose adapter pins an authentication kind never seals under, or reports, a
\* context of the other kind: the mismatch is refused when the client is constructed.
PinnedClientsNeverMismatch ==
    /\ returned.op = "request" /\ Adapter[returned.client] = "Header"
         => returned.result # "AuthenticationContext"
    /\ \A s \in sealed : kinds_match(Config[s.by].authentication_mode, s.context)
=============================================================================
