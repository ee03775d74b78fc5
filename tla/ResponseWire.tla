---------------------------- MODULE ResponseWire ----------------------------
(***************************************************************************)
(* One response on its way to parse_response.  Intermediaries reorder its  *)
(* headers, change the casing of their names, add headers and surround     *)
(* values with whitespace; a faulty one also repeats, drops or damages     *)
(* them.  The peer and the intermediaries are outside the repository.      *)
(***************************************************************************)
EXTENDS HeaderAdapter

CONSTANTS
    Schemas,        \* schemas HeaderSchemaBuilder::build returned
    Casings,        \* casings a name may arrive in
    Foreign,        \* a name no schema maps
    MaxChanges      \* bound: changes on the way

ASSUME ChangesBound == MaxChanges \in Nat
ASSUME BuiltSchemas ==
    \A schema \in Schemas :
        /\ IsBuilder(schema) /\ build(schema) = "none"
        /\ \A k \in DOMAIN slots(schema) :
              IsName(slots(schema)[k][2]) /\ ~eq_ignore_ascii_case(slots(schema)[k][2], Foreign)
ASSUME ForeignIsName == IsName(Foreign)

VARIABLES
    schema,
    headers, body,
    changes,        \* changes made so far
    before          \* the response before the last one if that must not be noticed

wvars == <<schema, headers, body, changes, before>>

-----------------------------------------------------------------------------

WireInit ==
    /\ schema \in Schemas
    /\ headers = laid_out(schema, [f \in CarriedFields |-> Text(f)])
    /\ body = Text("cipher")
    /\ changes = 0
    /\ before = <<>>

Change == changes < MaxChanges /\ changes' = changes + 1 /\ UNCHANGED schema

Reorder(i) ==
    /\ Change
    /\ headers' = [headers EXCEPT ![i] = headers[i + 1], ![i + 1] = headers[i]]
    /\ UNCHANGED body

Recase(i, casing) ==
    /\ Change
    /\ headers' = [headers EXCEPT ![i][1].casing = casing]
    /\ UNCHANGED body

AddForeign(value) ==
    /\ Change
    /\ headers' = Append(headers, <<Foreign, value>>)
    /\ UNCHANGED body

PadBody == Change /\ body' = Padded(body) /\ UNCHANGED headers

PadValue(i) ==
    /\ Change
    /\ headers' = [headers EXCEPT ![i][2] = Padded(@)]
    /\ UNCHANGED body

\* The value is repeated as it is or replaced by another one.
Repeat(i, value) ==
    /\ Change
    /\ headers' = Append(headers, <<headers[i][1], value>>)
    /\ UNCHANGED body

Drop(i) ==
    /\ Change
    /\ headers' = SubSeq(headers, 1, i - 1) \o SubSeq(headers, i + 1, Len(headers))
    /\ UNCHANGED body

Damage(i, value) ==
    /\ Change
    /\ headers' = [headers EXCEPT ![i][2] = value]
    /\ UNCHANGED body

DropBody == Change /\ body' = EmptyText /\ UNCHANGED headers

Other == Text("other")
Damaged == {EmptyText, Other, With(Text("other"), "line"), With(Text("other"), "other")}

WireNext ==
    \/ /\ \/ \E i \in 1..Len(headers) - 1 : Reorder(i)
          \/ \E i \in DOMAIN headers, casing \in Casings : Recase(i, casing)
          \/ \E value \in {Other, With(Other, "line")} : AddForeign(value)
          \/ PadBody
       /\ before' = <<headers, body>>
    \/ /\ \/ \E i \in DOMAIN headers :
                \/ PadValue(i)
                \/ Repeat(i, headers[i][2]) \/ Repeat(i, Other)
                \/ Drop(i)
                \/ \E value \in Damaged : Damage(i, value)
          \/ DropBody
       /\ before' = <<>>

WireSpec == WireInit /\ [][WireNext]_wvars

-----------------------------------------------------------------------------
(* Properties. *)

Parsed == parse_response(schema, headers, body)

\* parse_response does not depend on the order of the headers, the casing of their names,
\* headers no field is mapped to, or whitespace around the body: such a change of any
\* response, intact or already damaged, leaves what the client reads unchanged.
HarmlessChangesAreInvisible ==
    before # <<>> => Parsed = parse_response(schema, before[1], before[2])

\* The header values that reached the fields of a parsed response, per field.
Received(f) ==
    {headers[i][2] : i \in {j \in DOMAIN headers :
        \E k \in DOMAIN slots(schema) :
            slots(schema)[k][1] = f /\ slots(schema)[k][2].canonical = headers[j][1].canonical}}

\* parse_response never chooses: when two headers reach one field, in whatever casing and
\* at whatever distance, with equal or different values, the response is refused.
RepeatedFieldsAreRefused ==
    (\E i, j \in DOMAIN headers :
        /\ i # j
        /\ headers[i][1].canonical = headers[j][1].canonical
        /\ \E k \in DOMAIN slots(schema) : slots(schema)[k][2].canonical = headers[i][1].canonical)
    => Parsed.err = "DuplicateField"

\* The context a response is verified under holds exactly the request id that was on the
\* wire.  An id with whitespace around it is refused, not trimmed into another one, while
\* the other fields are taken without such whitespace.
RequestIdIsVerbatim ==
    LET parsed == Parsed
    IN  parsed.err = "none" =>
          /\ schema.bound =>
               /\ Received("request_id") = {parsed.context.bytes[3]}
               /\ ~parsed.context.bytes[3].pad
          /\ \A f \in {"signature", "wrapped_session_key"} :
               {trim(v) : v \in Received(f)} = {parsed.envelope[f]}

\* What parse_response accepts stands once on the wire and is read as it stands there.
ResponsesAreReadExactly == RepeatedFieldsAreRefused /\ RequestIdIsVerbatim
=============================================================================
