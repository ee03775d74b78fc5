--------------------------- MODULE MCHeaderLayer ---------------------------
(***************************************************************************)
(* The header layer, one part at a time: collections of headers, the       *)
(* builder of a header schema, and the parsing of responses.  The parts    *)
(* share their operators and no state; the initial state says which moves. *)
(***************************************************************************)
EXTENDS Headers, HeaderSchema, ResponseWire

VARIABLE part

Name(canonical, casing) == [canonical |-> canonical, casing |-> casing]
Mapped == {RequestFields[i] : i \in DOMAIN RequestFields} \cup {"cipher", "static"}
MCTokens == Mapped \cup {"a", "b", "fresh", "foreign"}

\* Collections: two tokens in two casings and a name that is no token; a plain value, a
\* padded one, one with a line break and one with another control character.
MCHeaderNames == {Name(c, k) : c \in {"a", "b"}, k \in {"lower", "upper"}} \cup {Name("a b", "lower")}
MCHeaderValues == {Text("x"), Padded(Text("y")), With(Text("x"), "line"), With(Text("x"), "other")}

\* Schemas: every field has a header of its own name; further calls remap fields to any of
\* these names in another casing, to a fresh one or to one that is no token.
MCMappedNames == {Name(c, "upper") : c \in Mapped \cup {"fresh", "no token"}}
MCStaticValues == {Text("v"), With(Text("v"), "line"), EmptyText}
InCipherHeader ==
    [static |-> <<<<Name("static", "lower"), Text("v")>>>>,
     request |-> [f \in DOMAIN EmptyBuilder.request |-> Name(f, "lower")],
     response |-> [f \in DOMAIN EmptyBuilder.response |-> Name(f, "lower")],
     request_cipher |-> Body, response_cipher |-> InHeader(Name("cipher", "lower")),
     legacy |-> FALSE, bound |-> TRUE]

\* Responses: a context-bound schema with the cipher in a header, a legacy one with it in
\* the body.
InBody == [InCipherHeader EXCEPT !.response_cipher = Body, !.legacy = TRUE, !.bound = FALSE]
MCSchemas == {InCipherHeader, InBody}
MCForeign == Name("foreign", "lower")

-----------------------------------------------------------------------------

LayerInit ==
    /\ part \in {"headers", "schema", "wire"}
    /\ HeadersInit /\ SchemaInit /\ WireInit
    /\ part # "schema" => builder = InCipherHeader
    /\ part # "wire" => schema = InBody

LayerNext ==
    /\ \/ part = "headers" /\ HeadersNext /\ UNCHANGED <<svars, wvars>>
       \/ part = "schema" /\ SchemaNext /\ UNCHANGED <<hvars, wvars>>
       \/ part = "wire" /\ WireNext /\ UNCHANGED <<hvars, svars>>
    /\ UNCHANGED part

LayerSpec == LayerInit /\ [][LayerNext]_<<part, hvars, svars, wvars>>
=============================================================================
