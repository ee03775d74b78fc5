------------------------- MODULE AuthenticExchange -------------------------
(***************************************************************************)
(* What a context-bound client workflow promises an application that       *)
(* compares the request id of a verified response with its own: operations *)
(* are performed only if they were asked for, with that id and that        *)
(* payload, and an answer is accepted only if the peer gave it to a        *)
(* request of that id.  Either may happen any number of times.             *)
(***************************************************************************)
CONSTANTS
    Asks,           \* [domain, operation, request_id, payload]
    Answers,        \* [ask, answerer, payload]
    Nothing

VARIABLES
    asked,
    answered,
    accepted        \* the answer the application acts on

xvars == <<asked, answered, accepted>>

\* The part of an answer that the application sees.
Visible(a) ==
    [answerer |-> a.answerer, domain |-> a.ask.domain, request_id |-> a.ask.request_id,
     payload |-> a.payload]

Init ==
    /\ asked = {}
    /\ answered = {}
    /\ accepted = Nothing

Ask(m) ==
    /\ asked' = asked \cup {m}
    /\ UNCHANGED <<answered, accepted>>

Answer(a) ==
    /\ a.ask \in asked
    /\ answered' = answered \cup {a}
    /\ UNCHANGED <<asked, accepted>>

Accept(a) ==
    /\ accepted' = Visible(a)
    /\ UNCHANGED <<asked, answered>>

Dismiss ==
    /\ accepted' = Nothing
    /\ UNCHANGED <<asked, answered>>

Next ==
    \/ Dismiss
    \/ \E a \in answered : Accept(a)
    \/ \E m \in Asks : Ask(m)
    \/ \E a \in Answers : Answer(a)

Spec == Init /\ [][Next]_xvars
=============================================================================
