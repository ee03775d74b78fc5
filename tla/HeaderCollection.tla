-------------------------- MODULE HeaderCollection --------------------------
(***************************************************************************)
(* Texts, header names, header values and collections of headers.          *)
(*                                                                         *)
(* A name is its lower-case form and its casing.  A text is what lies      *)
(* between its first and last visible character (one token, or none when   *)
(* it is blank), whether whitespace surrounds that, and whether a line     *)
(* break or another control character stands between visible ones.         *)
(***************************************************************************)
EXTENDS Integers, FiniteSets, FiniteSetsExt, Sequences

CONSTANT Tokens     \* the lower-case names that are nonempty RFC tokens

-----------------------------------------------------------------------------
(* Texts. *)

Text(token) == [core |-> <<token>>, pad |-> FALSE, control |-> "none"]
Padded(text) == [text EXCEPT !.pad = TRUE]
With(text, control) == [text EXCEPT !.control = control]
EmptyText == [core |-> <<>>, pad |-> FALSE, control |-> "none"]

trim(text) == [text EXCEPT !.pad = FALSE]
is_blank(text) == text.core = <<>>

\* validate_context_value, and validate_header_value of the configuration.
validate_context_value(text) == ~is_blank(text) /\ text.control # "line"

-----------------------------------------------------------------------------
(* Names, values and collections (src/header.rs). *)

IsName(name) == name = [canonical |-> name.canonical, casing |-> name.casing]

HeaderName_new(name) == name.canonical \in Tokens

HeaderValue_new(value) == value.control = "none"

eq_ignore_ascii_case(m, n) == m.canonical = n.canonical

\* Plausible slip: names are compared as written.
insert_error_as_written(pairs, i) ==
    IF ~HeaderName_new(pairs[i][1]) \/ ~HeaderValue_new(pairs[i][2]) THEN "InvalidHeader"
    ELSE IF \E j \in 1..i - 1 : pairs[j][1] = pairs[i][1] THEN "HeaderConflict"
    ELSE "none"

\* What insert reports for the i-th of these pairs, the earlier ones being collected.
insert_error(pairs, i) ==
    IF ~HeaderName_new(pairs[i][1]) \/ ~HeaderValue_new(pairs[i][2]) THEN "InvalidHeader"
    ELSE IF \E j \in 1..i - 1 : eq_ignore_ascii_case(pairs[j][1], pairs[i][1]) THEN "HeaderConflict"
    ELSE "none"

insert(entries, name, value) ==
    LET pairs == Append(entries, <<name, value>>)
    IN  [err |-> insert_error(pairs, Len(pairs)), entries |-> pairs]

\* from_pairs, and revalidate, stop at the first pair that cannot be inserted.
from_pairs(pairs) ==
    LET faulty == {i \in DOMAIN pairs : insert_error(pairs, i) # "none"}
    IN  IF faulty = {} THEN "none" ELSE insert_error(pairs, Min(faulty))

get(entries, name) == {i \in DOMAIN entries : eq_ignore_ascii_case(entries[i][1], name)}

\* Plausible slip: names are compared as written.
conflicts_as_written(self, other) ==
    \E i \in DOMAIN other, j \in DOMAIN self : self[j][1] = other[i][1]

conflicts(self, other) ==
    \E i \in DOMAIN other, j \in DOMAIN self : eq_ignore_ascii_case(self[j][1], other[i][1])

\* Plausible slip: the headers are added before they are compared.
append_checked_eager(self, other) ==
    IF from_pairs(self) # "none" THEN [err |-> from_pairs(self), entries |-> self]
    ELSE IF from_pairs(other) # "none" THEN [err |-> from_pairs(other), entries |-> self]
    ELSE [err |-> IF conflicts(self, other) THEN "HeaderConflict" ELSE "none",
          entries |-> self \o other]

append_checked(self, other) ==
    IF from_pairs(self) # "none" THEN [err |-> from_pairs(self), entries |-> self]
    ELSE IF from_pairs(other) # "none" THEN [err |-> from_pairs(other), entries |-> self]
    ELSE IF conflicts(self, other) THEN [err |-> "HeaderConflict", entries |-> self]
    ELSE [err |-> "none", entries |-> self \o other]

\* RequestParts::new collects the pairs, appends them to no headers and validates the sum.
RequestParts_new(pairs) ==
    LET parts == append_checked(<<>>, pairs)
    IN  IF from_pairs(pairs) # "none" THEN [err |-> from_pairs(pairs), entries |-> <<>>]
        ELSE IF parts.err # "none" THEN parts
        ELSE [err |-> from_pairs(parts.entries), entries |-> parts.entries]
=============================================================================
