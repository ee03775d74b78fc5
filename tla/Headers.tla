------------------------------ MODULE Headers ------------------------------
(***************************************************************************)
(* How one request gets its headers: the adapter emits some, the caller    *)
(* collects others, and the caller's are appended to the emitted ones.     *)
(***************************************************************************)
EXTENDS HeaderCollection

CONSTANTS
    HeaderNames,    \* names callers and adapters write, tokens or not
    HeaderValues,   \* texts they write as values
    MaxHeaders      \* bound: headers emitted, and headers collected

ASSUME HeaderBound == MaxHeaders \in Nat

VARIABLES
    emitted,        \* headers of the request
    additional,     \* headers the caller's builder holds
    outcome         \* the last call and what it returned

hvars == <<emitted, additional, outcome>>

-----------------------------------------------------------------------------

HeadersInit ==
    /\ emitted = <<>>
    /\ additional = <<>>
    /\ outcome = [op |-> "none", err |-> "none"]

\* The caller's builder takes another header.  It is consumed by a failing call.
Header(name, value) ==
    /\ Len(additional) < MaxHeaders
    /\ LET r == insert(additional, name, value)
       IN  /\ additional' = IF r.err = "none" THEN r.entries ELSE <<>>
           /\ outcome' = [op |-> "header", err |-> r.err]
    /\ UNCHANGED emitted

\* The adapter creates the request.
Emit(pairs) ==
    /\ emitted = <<>>
    /\ LET r == RequestParts_new(pairs)
       IN  /\ emitted' = r.entries
           /\ outcome' = [op |-> "emit", err |-> r.err]
    /\ UNCHANGED additional

\* The client appends the caller's headers to it.
AppendAdditional ==
    /\ Len(emitted) <= MaxHeaders
    /\ LET r == append_checked(emitted, additional)
       IN  /\ emitted' = r.entries
           /\ outcome' = [op |-> "append", err |-> r.err]
    /\ UNCHANGED additional

Pairs == HeaderNames \X HeaderValues

HeadersNext ==
    \/ \E name \in HeaderNames, value \in HeaderValues : Header(name, value)
    \/ \E n \in 0..MaxHeaders : \E pairs \in [1..n -> Pairs] : Emit(pairs)
    \/ AppendAdditional

HeadersSpec == HeadersInit /\ [][HeadersNext]_hvars

-----------------------------------------------------------------------------
(* Properties. *)

\* Each header is valid and a lookup of its name under any casing finds it alone.
Sound(entries) ==
    \A i \in DOMAIN entries :
        /\ HeaderName_new(entries[i][1])
        /\ HeaderValue_new(entries[i][2])
        /\ get(entries, entries[i][1]) = {i}

\* Whichever way headers reached a collection, by insert, from_pairs or append_checked,
\* each is a valid header and no two have names that differ only in case.
CollectionsSound == Sound(emitted) /\ Sound(additional)

\* Appending is additive and all or nothing: every header the adapter emitted keeps its
\* place and value, and a refused append leaves the request exactly as it was.
AppendIsAtomic ==
    [][/\ \A i \in DOMAIN emitted : i \in DOMAIN emitted' /\ emitted'[i] = emitted[i]
       /\ outcome'.op = "append" /\ outcome'.err # "none" => emitted' = emitted]_hvars
=============================================================================
