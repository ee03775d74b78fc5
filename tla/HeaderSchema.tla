--------------------------- MODULE HeaderSchema ---------------------------
(***************************************************************************)
(* A caller maps fields to headers with HeaderSchemaBuilder and builds the *)
(* schema.                                                                 *)
(***************************************************************************)
EXTENDS HeaderAdapter

CONSTANTS
    Base,           \* a builder on which every setter has been called once
    MappedNames,    \* names callers map fields to, tokens or not
    StaticValues,   \* texts callers give to static headers
    MaxSets         \* bound: further setter calls on a builder

ASSUME SetsBound == MaxSets \in Nat
ASSUME BaseAssumption == IsBuilder(Base)

VARIABLES
    builder,
    sets,       \* setter calls made
    result      \* what build returned; "pending" before it is called

svars == <<builder, sets, result>>

-----------------------------------------------------------------------------

SchemaInit ==
    /\ builder \in {EmptyBuilder, Base}
    /\ sets = 0
    /\ result = "pending"

Setter == sets < MaxSets /\ result = "pending" /\ sets' = sets + 1 /\ UNCHANGED result

static_request_header(name, value) ==
    Setter /\ builder' = [builder EXCEPT !.static = Append(@, <<name, value>>)]

MapRequestField(f, name) == Setter /\ builder' = [builder EXCEPT !.request[f] = name]

MapResponseField(f, name) == Setter /\ builder' = [builder EXCEPT !.response[f] = name]

MapRequestCipher(location) == Setter /\ builder' = [builder EXCEPT !.request_cipher = location]

MapResponseCipher(location) == Setter /\ builder' = [builder EXCEPT !.response_cipher = location]

legacy_authentication == Setter /\ builder' = [builder EXCEPT !.legacy = TRUE]

context_bound_authentication == Setter /\ builder' = [builder EXCEPT !.bound = TRUE]

Build ==
    /\ result = "pending"
    /\ result' = build(builder)
    /\ UNCHANGED <<builder, sets>>

\* A location names a header only through a valid HeaderName.
Locations == {Body} \cup {InHeader(name) : name \in {n \in MappedNames : HeaderName_new(n)}}

SchemaNext ==
    \/ \E name \in MappedNames, value \in StaticValues : static_request_header(name, value)
    \/ \E f \in DOMAIN builder.request, name \in MappedNames : MapRequestField(f, name)
    \/ \E f \in DOMAIN builder.response, name \in MappedNames : MapResponseField(f, name)
    \/ \E location \in Locations : MapRequestCipher(location) \/ MapResponseCipher(location)
    \/ legacy_authentication
    \/ context_bound_authentication
    \/ Build

SchemaSpec == SchemaInit /\ [][SchemaNext]_svars

-----------------------------------------------------------------------------
(* Properties. *)

\* A request with plain values and a response laid out as the schema says.
Plain(fields) == [f \in fields |-> Text(f)]
PlainRequest ==
    build_request(builder,
        Plain({"local_identity", "api_version", "local_certificate",
               "remote_signing_certificate", "remote_encryption_certificate"}),
        Plain({"operation", "request_id", "request_time"}),
        Plain({"signature", "wrapped_session_key", "cipher"}))
PlainResponse == parse_response(builder, laid_out(builder, Plain(CarriedFields)), Text("cipher"))

\* Every request with valid values can be written, and every response the schema describes
\* is read back field by field.
Usable ==
    /\ PlainRequest.err = "none"
    /\ PlainResponse.err = "none"
    /\ PlainResponse.envelope = Plain({"signature", "wrapped_session_key", "cipher"})

\* HeaderSchemaBuilder::build accepts exactly the mappings that work.  A schema it returns
\* never makes build_request fail with a header conflict nor parse_response read one
\* header as two fields, and a complete mapping with valid names and one authentication is
\* refused only if it would.
BuiltSchemasAreUsable ==
    /\ result = "none" => Usable
    /\ (/\ result = "InvalidMapping"
        /\ ~(builder.legacy /\ builder.bound)
        /\ \A i \in DOMAIN builder.static : static_header(builder.static[i]) = "none"
        /\ \A f \in DOMAIN builder.request : HeaderName_new(builder.request[f])
        /\ \A f \in DOMAIN builder.response : HeaderName_new(builder.response[f]))
       => ~Usable
=============================================================================
