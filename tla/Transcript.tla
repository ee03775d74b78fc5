----------------------------- MODULE Transcript -----------------------------
(***************************************************************************)
(* The exact bytes that are signed and the exact additional data of an     *)
(* AEAD frame: length-prefixed fields, built by AuthenticationMode from    *)
(* the context bytes the adapter encodes.  Every participant builds them   *)
(* afresh and compares nothing else, so what keeps two meanings apart is   *)
(* that their bytes differ.                                                *)
(***************************************************************************)
EXTENDS Integers, Sequences, FiniteSets

CONSTANTS
    Strings,            \* byte strings callers use as domain, context, plaintext, names
    FrameHeaders,       \* cipher frame headers, 14 bytes each
    AEAD_AAD_LABEL,     \* the fixed label of the additional data
    MaxMade             \* bound: contexts, inputs and additional data built

Byte == 0..255
TRANSCRIPT_VERSION == 1
HEADER_CONTEXT_VERSION == 1
HEADER_CONTEXT_REQUEST == 1
HEADER_CONTEXT_RESPONSE == 2

\* u64::to_be_bytes, the digits peeled off one byte at a time.
Shift(n) == n \div 256
Digit(n) == n % 256
Quotients(n) ==
    LET q1 == Shift(n) q2 == Shift(q1) q3 == Shift(q2) q4 == Shift(q3)
        q5 == Shift(q4) q6 == Shift(q5) q7 == Shift(q6)
    IN  <<q7, q6, q5, q4, q3, q2, q1, n>>
to_be_bytes(n) == [i \in 1..8 |-> Digit(Quotients(n)[i])]
fits_u64(n) == Quotients(n)[1] < 256

ASSUME StringsAssumption == \A s \in Strings : s \in Seq(Byte) /\ fits_u64(Len(s))
ASSUME FrameHeadersAssumption == FrameHeaders \subseteq [1..14 -> Byte]
ASSUME LabelAssumption == AEAD_AAD_LABEL \in Seq(Byte) /\ Len(AEAD_AAD_LABEL) = 34
ASSUME MadeBound == MaxMade \in Nat

-----------------------------------------------------------------------------
(* Layouts. *)

\* Plausible slip: the field is not preceded by its length.
push_field_bare(value) == value

push_field(value) == to_be_bytes(Len(value)) \o value

transcript(domain, context, plaintext) ==
    <<TRANSCRIPT_VERSION>> \o (push_field(domain) \o (push_field(context) \o push_field(plaintext)))

aad(header, domain, context) ==
    push_field(AEAD_AAD_LABEL)
        \o (push_field(header) \o (push_field(domain) \o push_field(context)))

request_context(operation, request_id) ==
    <<HEADER_CONTEXT_VERSION, HEADER_CONTEXT_REQUEST>>
        \o (push_field(operation) \o push_field(request_id))

response_context(request_id) ==
    <<HEADER_CONTEXT_VERSION, HEADER_CONTEXT_RESPONSE>> \o push_field(request_id)

-----------------------------------------------------------------------------

VARIABLES
    contexts,   \* context bytes the adapters encoded, with the fields they encode
    inputs,     \* context-bound transcripts, with theirs
    aads        \* additional data, with theirs

tvars == <<contexts, inputs, aads>>

TranscriptInit == contexts = {} /\ inputs = {} /\ aads = {}

Room == Cardinality(contexts) + Cardinality(inputs) + Cardinality(aads) < MaxMade

encode_request_context(operation, request_id) ==
    LET bytes == request_context(operation, request_id)
    IN  /\ Room /\ operation # <<>> /\ request_id # <<>> /\ fits_u64(Len(bytes))
        /\ contexts' = contexts \cup {[of |-> <<operation, request_id>>, bytes |-> bytes]}
        /\ UNCHANGED <<inputs, aads>>

encode_response_context(request_id) ==
    LET bytes == response_context(request_id)
    IN  /\ Room /\ request_id # <<>> /\ fits_u64(Len(bytes))
        /\ contexts' = contexts \cup {[of |-> <<request_id>>, bytes |-> bytes]}
        /\ UNCHANGED <<inputs, aads>>

\* Contexts come from an adapter or, context_bound being public, from the caller.
ContextBytes == {c.bytes : c \in contexts} \cup (Strings \ {<<>>})

authentication_input(domain, context, plaintext) ==
    /\ Room /\ domain # <<>>
    /\ inputs' = inputs \cup {[of |-> <<domain, context, plaintext>>,
                               bytes |-> transcript(domain, context, plaintext)]}
    /\ UNCHANGED <<contexts, aads>>

\* Under LegacyPlaintext domain and context are empty, under ContextBound neither is.
aead_aad(header, domain, context) ==
    /\ Room /\ (domain = <<>> <=> context = <<>>)
    /\ aads' = aads \cup {[of |-> <<header, domain, context>>, bytes |-> aad(header, domain, context)]}
    /\ UNCHANGED <<contexts, inputs>>

TranscriptNext ==
    \/ \E operation, request_id \in Strings : encode_request_context(operation, request_id)
    \/ \E request_id \in Strings : encode_response_context(request_id)
    \/ \E domain, plaintext \in Strings, context \in ContextBytes :
          authentication_input(domain, context, plaintext)
    \/ \E header \in FrameHeaders, domain \in Strings, context \in ContextBytes \cup {<<>>} :
          aead_aad(header, domain, context)

TranscriptSpec == TranscriptInit /\ [][TranscriptNext]_tvars

-----------------------------------------------------------------------------
(* Properties. *)

\* No two builders of the same bytes meant different fields.
ReadOneWay(made) == \A a, b \in made : a.bytes = b.bytes => a.of = b.of

\* authentication_input: a signature over a transcript names one domain, one context and
\* one plaintext, wherever the boundaries of the fields fall and whatever they contain.
TranscriptsReadOneWay == ReadOneWay(inputs)

\* aead_aad: a frame's additional data names one frame header, one mode, one domain and one
\* context.
AadReadsOneWay == ReadOneWay(aads)

\* encode_request_context and encode_response_context: context bytes name one direction
\* and, in it, one operation and one request id.
ContextsReadOneWay == ReadOneWay(contexts)

\* What a signature covers is never what a tag covers: no transcript is also the additional
\* data of a frame.
TranscriptIsNoAad == \A t \in inputs, a \in aads : t.bytes # a.bytes

\* What is signed, tagged or bound as a context can be read in one way only.
EncodingsReadOneWay ==
    TranscriptsReadOneWay /\ AadReadsOneWay /\ ContextsReadOneWay /\ TranscriptIsNoAad
=============================================================================
