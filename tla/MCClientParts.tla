--------------------------- MODULE MCClientParts ---------------------------
(***************************************************************************)
(* What a client is made from, one part at a time: its configuration, its  *)
(* key files, the bytes it signs and binds, and its timestamps.  The parts *)
(* share no state; the initial state says which moves.                     *)
(***************************************************************************)
EXTENDS MCClientConfig, KeyMaterial, Transcript, RequestTime

VARIABLE part

\* One path a side, holding keys in every container, with text before the PEM, with a
\* malformed container beside a good one, or nothing of use.
PrivateFile(pem, leading, pkcs8) == [pem |-> pem, leading |-> leading, pkcs8 |-> pkcs8]
PeerFile(pem, leading, spki, certificate) ==
    [pem |-> pem, leading |-> leading, spki |-> spki, certificate |-> certificate]
MCPrivateFiles ==
    {PrivateFile(TRUE, FALSE, <<"k", "pw">>), PrivateFile(FALSE, FALSE, <<"l", "pw">>),
     PrivateFile(TRUE, TRUE, <<"l", "pw">>), PrivateFile(FALSE, FALSE, <<"malformed">>)}
MCPeerFiles ==
    {PeerFile(TRUE, FALSE, <<"a">>, <<"b">>), PeerFile(FALSE, FALSE, <<>>, <<"a">>),
     PeerFile(FALSE, FALSE, <<"b">>, <<>>), PeerFile(TRUE, FALSE, <<"malformed">>, <<"a">>),
     PeerFile(TRUE, TRUE, <<"b">>, <<>>)}

\* Strings that contain what a length prefix looks like, so that fields could run together.
Eight(last) == <<0, 0, 0, 0, 0, 0, 0, last>>
MCStrings == {<<>>, <<0>>, <<1>>, <<1, 1>>, Eight(0), Eight(1), Eight(1) \o <<1>>, Eight(0) \o Eight(1),
              [i \in 1..14 |-> 0]}
MCFrameHeaders == {[i \in 1..14 |-> 0], [i \in 1..14 |-> IF i = 14 THEN 1 ELSE 0]}
MCLabel == [i \in 1..34 |-> 97]

\* Times of a day; the clock runs a whole cycle of the Gregorian calendar, 400 years or
\* 146097 days, and a year more.
MCMoments == <<<<0, 0>>, <<9, 999999>>, <<3600, 0>>, <<86399, 999999>>>>

-----------------------------------------------------------------------------

PartsInit ==
    /\ part \in {"config", "keys", "transcript", "time"}
    /\ ConfigInit /\ KeysInit /\ TranscriptInit /\ TimeInit
    /\ part # "config" => builder = CHOOSE b \in Base : TRUE
    /\ part # "keys" => files = <<[p \in Private |-> Absent], [p \in Peer |-> Absent]>>

PartsNext ==
    /\ \/ part = "config" /\ ConfigNext /\ UNCHANGED <<kvars, tvars, rvars>>
       \/ part = "keys" /\ KeysNext /\ UNCHANGED <<cvars, tvars, rvars>>
       \/ part = "transcript" /\ TranscriptNext /\ UNCHANGED <<cvars, kvars, rvars>>
       \/ part = "time" /\ TimeNext /\ UNCHANGED <<cvars, kvars, tvars>>
    /\ UNCHANGED part

PartsSpec == PartsInit /\ [][PartsNext]_<<part, cvars, kvars, tvars, rvars>>
=============================================================================
