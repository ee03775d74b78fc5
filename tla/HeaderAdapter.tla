--------------------------- MODULE HeaderAdapter ---------------------------
(***************************************************************************)
(* HeaderSchema and HeaderProtocolAdapter: which header carries which      *)
(* field, how a request is laid out, how a response is read back, and the  *)
(* context bytes both directions sign.                                     *)
(*                                                                         *)
(* A schema is the contents of the builder that passed build.  Context     *)
(* bytes are the fields they are made of, in order; that the real          *)
(* length-prefixed bytes keep these apart is shown in Transcript.          *)
(***************************************************************************)
EXTENDS HeaderCollection

\* The mapped fields, in the order build checks them and build_request writes them.
RequestFields ==
    <<"local_identity", "operation", "request_id", "request_time", "api_version",
      "local_certificate", "remote_signing_certificate", "remote_encryption_certificate",
      "signature", "wrapped_session_key">>
ResponseFields == <<"signature", "wrapped_session_key", "remote_signing_certificate">>

Unset == [canonical |-> "", casing |-> "unset"]
Body == [at |-> "Body"]
InHeader(name) == [at |-> "Header", name |-> name]
NoLocation == [at |-> "unset"]

EmptyBuilder ==
    [static |-> <<>>,
     request |-> [f \in {RequestFields[i] : i \in DOMAIN RequestFields} |-> Unset],
     response |-> [f \in {ResponseFields[i] : i \in DOMAIN ResponseFields} |-> Unset],
     request_cipher |-> NoLocation, response_cipher |-> NoLocation,
     legacy |-> FALSE, bound |-> FALSE]

\* What setters can make of it.  A location names a header only through a valid HeaderName.
IsLocation(location) ==
    \/ location \in {NoLocation, Body}
    \/ location = InHeader(location.name) /\ HeaderName_new(location.name)

IsBuilder(b) ==
    /\ DOMAIN b = DOMAIN EmptyBuilder
    /\ b.static \in Seq({b.static[i] : i \in DOMAIN b.static})
    /\ DOMAIN b.request = DOMAIN EmptyBuilder.request
    /\ DOMAIN b.response = DOMAIN EmptyBuilder.response
    /\ IsLocation(b.request_cipher) /\ IsLocation(b.response_cipher)
    /\ b.legacy \in BOOLEAN /\ b.bound \in BOOLEAN

-----------------------------------------------------------------------------
(* HeaderSchemaBuilder::build. *)

\* The first error of a list of checks.
first_error(errors) ==
    LET failed_checks == {i \in DOMAIN errors : errors[i] # "none"}
    IN  IF failed_checks = {} THEN "none" ELSE errors[Min(failed_checks)]

request_names(b) == [i \in DOMAIN RequestFields |-> b.request[RequestFields[i]]]
response_names(b) == [i \in DOMAIN ResponseFields |-> b.response[ResponseFields[i]]]
static_names(b) == [i \in DOMAIN b.static |-> b.static[i][1]]
cipher_name(location) == IF location.at = "Header" THEN <<location.name>> ELSE <<>>

required_header(name) ==
    IF name = Unset THEN "MissingField"
    ELSE IF ~HeaderName_new(name) THEN "InvalidMapping" ELSE "none"

static_header(pair) ==
    IF is_blank(pair[2]) \/ ~HeaderName_new(pair[1]) \/ ~HeaderValue_new(pair[2])
      THEN "InvalidMapping" ELSE "none"

\* insert_mapping refuses a name that is already in the set.
distinct_mappings(names) ==
    \A i, j \in DOMAIN names : eq_ignore_ascii_case(names[i], names[j]) => i = j

\* Plausible slip: the request-id header is not reserved in responses.
validate_collisions_no_request_id(b) ==
    /\ distinct_mappings(static_names(b) \o request_names(b) \o cipher_name(b.request_cipher))
    /\ distinct_mappings(response_names(b) \o cipher_name(b.response_cipher))

validate_collisions(b) ==
    /\ distinct_mappings(static_names(b) \o request_names(b) \o cipher_name(b.request_cipher))
    /\ distinct_mappings(response_names(b) \o cipher_name(b.response_cipher)
                            \o IF b.bound THEN <<b.request["request_id"]>> ELSE <<>>)

build(b) ==
    first_error(<<
        IF b.static = <<>> \/ NoLocation \in {b.request_cipher, b.response_cipher}
          THEN "MissingField" ELSE "none",
        IF b.legacy /\ b.bound THEN "InvalidMapping"
        ELSE IF ~b.legacy /\ ~b.bound THEN "MissingField" ELSE "none",
        first_error([i \in DOMAIN b.static |-> static_header(b.static[i])]),
        LET names == request_names(b) \o response_names(b)
        IN  first_error([i \in DOMAIN names |-> required_header(names[i])]),
        IF validate_collisions(b) THEN "none" ELSE "InvalidMapping">>)

-----------------------------------------------------------------------------
(* HeaderProtocolAdapter. *)

HEADER_CONTEXT_VERSION == 1
HEADER_CONTEXT_REQUEST == 1
HEADER_CONTEXT_RESPONSE == 2

Legacy == [kind |-> "Legacy", bytes |-> <<>>]
Bound(bytes) == [kind |-> "Bound", bytes |-> bytes]

pinned_authentication(schema) == IF schema.bound THEN "ContextBound" ELSE "LegacyPlaintext"

require_exact_trim(text) ==
    IF is_blank(text) \/ text # trim(text) THEN "InvalidField" ELSE "none"

\* Plausible slip: the operation is left out.
encode_request_context_id_only(operation, request_id) ==
    [err |-> first_error(<<require_exact_trim(operation), require_exact_trim(request_id)>>),
     context |-> Bound(<<HEADER_CONTEXT_VERSION, HEADER_CONTEXT_REQUEST, request_id>>)]

encode_request_context(operation, request_id) ==
    [err |-> first_error(<<require_exact_trim(operation), require_exact_trim(request_id)>>),
     context |-> Bound(<<HEADER_CONTEXT_VERSION, HEADER_CONTEXT_REQUEST, operation, request_id>>)]

\* Plausible slip: the id is trimmed rather than refused.
encode_response_context_trimmed(request_id) ==
    [err |-> IF is_blank(request_id) THEN "InvalidField" ELSE "none",
     context |-> Bound(<<HEADER_CONTEXT_VERSION, HEADER_CONTEXT_RESPONSE, trim(request_id)>>)]

encode_response_context(request_id) ==
    [err |-> require_exact_trim(request_id),
     context |-> Bound(<<HEADER_CONTEXT_VERSION, HEADER_CONTEXT_RESPONSE, request_id>>)]

request_authentication_context(schema, context) ==
    IF schema.bound THEN encode_request_context(context.operation, context.request_id)
    ELSE [err |-> "none", context |-> Legacy]

\* Plausible slip: the request time is written where the id belongs.
field_value_time_as_id(f, identity, context, envelope) ==
    IF f \in DOMAIN identity THEN identity[f]
    ELSE IF f \in DOMAIN context
      THEN context[IF f = "request_id" THEN "request_time" ELSE f] ELSE envelope[f]

\* The value of a request field: from the identity, the request context or the envelope.
field_value(f, identity, context, envelope) ==
    IF f \in DOMAIN identity THEN identity[f]
    ELSE IF f \in DOMAIN context THEN context[f] ELSE envelope[f]

build_request(schema, identity, context, envelope) ==
    LET mapped == [i \in DOMAIN RequestFields |->
                      <<schema.request[RequestFields[i]],
                        field_value(RequestFields[i], identity, context, envelope)>>]
        carried == IF schema.request_cipher = Body THEN <<>>
                   ELSE <<<<schema.request_cipher.name, envelope.cipher>>>>
        parts == RequestParts_new(schema.static \o mapped \o carried)
    IN  [err |-> IF \/ is_blank(envelope.signature) \/ is_blank(envelope.wrapped_session_key)
                    \/ is_blank(envelope.cipher) \/ parts.err # "none"
                   THEN "InvalidField" ELSE "none",
         headers |-> parts.entries,
         body |-> IF schema.request_cipher = Body THEN envelope.cipher ELSE EmptyText]

\* What a response may carry in headers.
CarriedFields ==
    {"signature", "wrapped_session_key", "remote_signing_certificate", "request_id", "cipher"}

\* The response fields read from headers, with their headers' names, in the order tried.
slots(schema) ==
    [i \in DOMAIN ResponseFields |-> <<ResponseFields[i], schema.response[ResponseFields[i]]>>]
    \o (IF schema.bound THEN <<<<"request_id", schema.request["request_id"]>>>> ELSE <<>>)
    \o (IF schema.response_cipher = Body THEN <<>> ELSE <<<<"cipher", schema.response_cipher.name>>>>)

\* The headers of a response with these values, as a peer that follows the schema lays
\* them out.
laid_out(schema, values) ==
    LET read == slots(schema)
    IN  [k \in DOMAIN read |-> <<read[k][2], values[read[k][1]]>>]

\* Plausible slip: names are compared as written.
target_as_written(schema, name) ==
    LET tried == slots(schema)
        hits == {k \in DOMAIN tried : tried[k][2] = name}
    IN  IF hits = {} THEN "none" ELSE tried[Min(hits)][1]

target(schema, name) ==
    LET tried == slots(schema)
        hits == {k \in DOMAIN tried : eq_ignore_ascii_case(tried[k][2], name)}
    IN  IF hits = {} THEN "none" ELSE tried[Min(hits)][1]

\* The places at which each field occurs.
occurrences(schema, headers) ==
    LET targets == [i \in DOMAIN headers |-> target(schema, headers[i][1])]
    IN  [f \in CarriedFields |-> {i \in DOMAIN headers : targets[i] = f}]

\* Plausible slip: a field that occurs again replaces the earlier value.
duplicated_last_wins(places) == FALSE

duplicated(places) == \E f \in DOMAIN places : Cardinality(places[f]) > 1

required_response_header(headers, found) ==
    IF found = {} THEN "MissingField"
    ELSE LET value == headers[Max(found)][2]
         IN  IF ~HeaderValue_new(value) \/ is_blank(value) THEN "InvalidField" ELSE "none"

response_value(headers, found) == IF found = {} THEN EmptyText ELSE headers[Max(found)][2]

ParsedResponse_new(claim) == IF validate_context_value(claim) THEN "none" ELSE "InvalidField"

parse_response(schema, headers, body) ==
    LET places == occurrences(schema, headers)
        required(f) == required_response_header(headers, places[f])
        value(f) == trim(response_value(headers, places[f]))
        in_body == schema.response_cipher = Body
        echoed == encode_response_context(response_value(headers, places["request_id"]))
        err == first_error(<<
            IF duplicated(places) THEN "DuplicateField" ELSE "none",
            required("signature"), required("wrapped_session_key"),
            required("remote_signing_certificate"),
            IF ~in_body THEN required("cipher")
            ELSE IF is_blank(body) THEN "InvalidField" ELSE "none",
            IF schema.bound THEN first_error(<<required("request_id"), echoed.err>>) ELSE "none",
            ParsedResponse_new(value("remote_signing_certificate"))>>)
    IN  IF err # "none" THEN [err |-> err]
        ELSE [err |-> "none",
              envelope |-> [cipher |-> IF in_body THEN trim(body) ELSE value("cipher"),
                            wrapped_session_key |-> value("wrapped_session_key"),
                            signature |-> value("signature")],
              remote_signing_certificate_id |-> value("remote_signing_certificate"),
              context |-> IF schema.bound THEN echoed.context ELSE Legacy]
=============================================================================
