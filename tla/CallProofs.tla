----------------------------- MODULE CallProofs -----------------------------
(***************************************************************************)
(* What one call of the library computes, whatever it is handed.  For      *)
(* every set of names, schema and list of headers: collecting and looking  *)
(* up headers, what build checks, how a request is laid out and how a      *)
(* response is read.  For every configuration and width of usize: the      *)
(* length arithmetic, what an accepting open has established, and that an  *)
(* intact envelope opens.                                                  *)
(***************************************************************************)
EXTENDS HeaderAdapter, EnvelopeCrypto, SequenceTheorems, FiniteSetTheorems, WellFoundedInduction, TLAPS

-----------------------------------------------------------------------------
(* Collections. *)

\* A nonempty set of natural numbers has a least element, which Min picks.
LEMMA MinOfNaturals ==
    ASSUME NEW S, S \subseteq Nat, S # {}
    PROVE  Min(S) \in S
<1> DEFINE R == {p \in Nat \X Nat : p[1] < p[2]}
<1>1. IsWellFoundedOn(R, Nat)
  BY NatLessThanWellFounded DEF OpToRel
<1> HIDE DEF R
<1>2. \E x \in S : \A y \in S : ~(<<y, x>> \in R)
  BY <1>1, WFMin, Zenon
<1>3. PICK x \in S : \A y \in S : ~(<<y, x>> \in R)
  BY <1>2
<1>4. \A y \in S : x =< y
  <2> SUFFICES ASSUME NEW y \in S PROVE x =< y
    OBVIOUS
  <2>1. x \in Nat /\ y \in Nat
    OBVIOUS
  <2>2. <<y, x>> \in R <=> y < x
    BY <2>1 DEF R
  <2> QED BY <2>1, <2>2, <1>3
<1> QED BY <1>4, Zenon DEF Min

\* Pairs that can be collected: every one is valid and no two names differ only in case.
Collectable(pairs) ==
    \A i \in DOMAIN pairs :
        /\ HeaderName_new(pairs[i][1])
        /\ HeaderValue_new(pairs[i][2])
        /\ \A j \in DOMAIN pairs : eq_ignore_ascii_case(pairs[j][1], pairs[i][1]) => j = i

\* HeaderCollection::from_pairs accepts exactly these.
LEMMA FromPairs ==
    ASSUME NEW T, NEW pairs \in Seq(T)
    PROVE  from_pairs(pairs) = "none" <=> Collectable(pairs)
<1> DEFINE faulty == {i \in DOMAIN pairs : insert_error(pairs, i) # "none"}
<1>1. DOMAIN pairs = 1..Len(pairs) /\ Len(pairs) \in Nat
  BY LenProperties
<1>2. from_pairs(pairs) = "none" <=> faulty = {}
  <2>1. faulty \subseteq Nat
    BY <1>1
  <2>2. \A i \in faulty : insert_error(pairs, i) # "none"
    OBVIOUS
  <2>3. from_pairs(pairs) = IF faulty = {} THEN "none" ELSE insert_error(pairs, Min(faulty))
    BY DEF from_pairs
  <2> HIDE DEF faulty
  <2>4. faulty # {} => Min(faulty) \in faulty
    BY <2>1, MinOfNaturals, Zenon
  <2> QED BY <2>2, <2>3, <2>4
<1>3. faulty = {} <=> \A i \in 1..Len(pairs) : insert_error(pairs, i) = "none"
  BY <1>1
<1> HIDE DEF faulty
<1>4. ASSUME \A i \in 1..Len(pairs) : insert_error(pairs, i) = "none"
      PROVE  Collectable(pairs)
  <2>1. \A i \in 1..Len(pairs) :
            /\ HeaderName_new(pairs[i][1]) /\ HeaderValue_new(pairs[i][2])
            /\ \A j \in 1..i - 1 : ~eq_ignore_ascii_case(pairs[j][1], pairs[i][1])
    BY <1>4 DEF insert_error
  <2>2. ASSUME NEW i \in 1..Len(pairs), NEW j \in 1..Len(pairs),
               eq_ignore_ascii_case(pairs[j][1], pairs[i][1]), j # i
        PROVE  FALSE
    <3>1. CASE j < i
      <4>1. j \in 1..i - 1
        BY <3>1, <1>1
      <4> QED BY <4>1, <2>1, <2>2
    <3>2. CASE i < j
      <4>1. i \in 1..j - 1
        BY <3>2, <1>1
      <4>2. eq_ignore_ascii_case(pairs[i][1], pairs[j][1])
        BY <2>2 DEF eq_ignore_ascii_case
      <4> QED BY <4>1, <4>2, <2>1
    <3> QED BY <3>1, <3>2, <2>2, <1>1
  <2> QED BY <2>1, <2>2, <1>1 DEF Collectable
<1>5. ASSUME Collectable(pairs), NEW i \in 1..Len(pairs)
      PROVE  insert_error(pairs, i) = "none"
  <2>1. \A j \in 1..i - 1 : j \in DOMAIN pairs /\ j # i
    BY <1>1
  <2> QED BY <1>1, <1>5, <2>1 DEF Collectable, insert_error
<1> QED BY <1>2, <1>3, <1>4, <1>5

\* Two collections without a common name make one together.
LEMMA CollectableUnion ==
    ASSUME NEW T, NEW s \in Seq(T), NEW t \in Seq(T),
           Collectable(s), Collectable(t), ~conflicts(s, t)
    PROVE  Collectable(s \o t)
<1>1. /\ s \o t \in Seq(T) /\ Len(s) \in Nat /\ Len(t) \in Nat
      /\ DOMAIN s = 1..Len(s) /\ DOMAIN t = 1..Len(t) /\ DOMAIN (s \o t) = 1..Len(s) + Len(t)
  BY ConcatProperties, LenProperties
<1>2. \A i \in 1..Len(s) + Len(t) :
        \/ i \in DOMAIN s /\ (s \o t)[i] = s[i]
        \/ i - Len(s) \in DOMAIN t /\ (s \o t)[i] = t[i - Len(s)]
  BY <1>1, ConcatProperties
<1> DEFINE u == s \o t
<1>6. DOMAIN u = 1..Len(s) + Len(t)
  BY <1>1
<1>7. \A i \in 1..Len(s) + Len(t) : \/ i \in DOMAIN s /\ u[i] = s[i]
                                    \/ i - Len(s) \in DOMAIN t /\ u[i] = t[i - Len(s)]
  BY <1>2
<1> HIDE DEF u
<1>3. \A i \in DOMAIN u : \/ i \in DOMAIN s /\ u[i] = s[i]
                          \/ i - Len(s) \in DOMAIN t /\ u[i] = t[i - Len(s)]
  BY <1>6, <1>7
<1>4. \A i \in DOMAIN u : HeaderName_new(u[i][1]) /\ HeaderValue_new(u[i][2])
  BY <1>3 DEF Collectable
<1>5. ASSUME NEW i \in DOMAIN u, NEW j \in DOMAIN u, eq_ignore_ascii_case(u[j][1], u[i][1])
      PROVE  j = i
  <2>0. \A k \in DOMAIN s, l \in DOMAIN t : s[k][1].canonical # t[l][1].canonical
    BY DEF conflicts, eq_ignore_ascii_case
  <2>1. u[j][1].canonical = u[i][1].canonical
    BY <1>5 DEF eq_ignore_ascii_case
  <2>2. CASE i \in DOMAIN s /\ u[i] = s[i] /\ j \in DOMAIN s /\ u[j] = s[j]
    BY <2>1, <2>2 DEF Collectable, eq_ignore_ascii_case
  <2>3. CASE i - Len(s) \in DOMAIN t /\ u[i] = t[i - Len(s)] /\ j - Len(s) \in DOMAIN t /\ u[j] = t[j - Len(s)]
    <3>1. i - Len(s) = j - Len(s)
      BY <2>1, <2>3 DEF Collectable, eq_ignore_ascii_case
    <3> QED BY <3>1, <1>1, <1>6
  <2> QED BY <1>3, <2>0, <2>1, <2>2, <2>3
<1> QED BY <1>4, <1>5 DEF Collectable, u

LEMMA EmptyCollection ==
    ASSUME NEW T
    PROVE  <<>> \in Seq(T) /\ Collectable(<<>>) /\ from_pairs(<<>>) = "none"
<1>1. <<>> \in Seq(T)
  BY EmptySeq
<1>2. Collectable(<<>>)
  BY DEF Collectable
<1> QED BY <1>1, <1>2, FromPairs, Zenon

\* What append_checked returns for two collections of pairs.
LEMMA AppendChecked ==
    ASSUME NEW T, NEW self \in Seq(T), NEW other \in Seq(T), Collectable(self)
    PROVE  LET r == append_checked(self, other)
           IN  /\ r.entries \in Seq(T) /\ Collectable(r.entries)
               /\ r.err # "none" => r.entries = self
               /\ r.err = "none" => r.entries = self \o other
<1> DEFINE r == append_checked(self, other)
<1>1. from_pairs(self) = "none"
  BY FromPairs
<1>2. CASE from_pairs(other) # "none" \/ conflicts(self, other)
  <2>1. r.err # "none" /\ r.entries = self
    BY <1>1, <1>2 DEF append_checked
  <2> QED BY <2>1
<1>3. CASE from_pairs(other) = "none" /\ ~conflicts(self, other)
  <2>1. r.err = "none" /\ r.entries = self \o other
    BY <1>1, <1>3 DEF append_checked
  <2>2. Collectable(other)
    BY <1>3, FromPairs
  <2>3. Collectable(self \o other) /\ self \o other \in Seq(T)
    BY <1>3, <2>2, CollectableUnion, ConcatProperties
  <2> QED BY <2>1, <2>3
<1> QED BY <1>2, <1>3

\* RequestParts::new accepts exactly the pairs that can be collected, and keeps them.
LEMMA RequestPartsNew ==
    ASSUME NEW T, NEW pairs \in Seq(T)
    PROVE  LET r == RequestParts_new(pairs)
           IN  /\ r.entries \in Seq(T) /\ Collectable(r.entries)
               /\ r.err = "none" <=> Collectable(pairs)
               /\ r.err = "none" => r.entries = pairs
<1> DEFINE r == RequestParts_new(pairs)
           parts == append_checked(<<>>, pairs)
<1>1. /\ parts.entries \in Seq(T) /\ Collectable(parts.entries)
      /\ parts.err = "none" => parts.entries = <<>> \o pairs
  <2>1. <<>> \in Seq(T) /\ Collectable(<<>>)
    BY EmptyCollection
  <2> QED BY <2>1, AppendChecked, Zenon
<1>2. <<>> \o pairs = pairs
  BY ConcatEmptySeq
<1>3. from_pairs(pairs) = "none" => parts.err = "none"
  BY EmptyCollection DEF append_checked, conflicts
<1>4. r = IF from_pairs(pairs) # "none" THEN [err |-> from_pairs(pairs), entries |-> <<>>]
          ELSE IF parts.err # "none" THEN parts
          ELSE [err |-> from_pairs(parts.entries), entries |-> parts.entries]
  BY DEF RequestParts_new
<1> HIDE DEF parts, r
<1>5. CASE from_pairs(pairs) # "none"
  <2>1. r.err = from_pairs(pairs) /\ r.entries = <<>>
    BY <1>4, <1>5
  <2> QED BY <1>5, <2>1, FromPairs, EmptyCollection DEF r
<1>6. CASE from_pairs(pairs) = "none"
  <2>1. r.err = from_pairs(parts.entries) /\ r.entries = parts.entries /\ parts.entries = pairs
    BY <1>1, <1>2, <1>3, <1>4, <1>6
  <2> QED BY <1>6, <2>1, FromPairs DEF r
<1> QED BY <1>5, <1>6 DEF r

-----------------------------------------------------------------------------
(* Schemas that build accepted. *)

\* A header of a collection is what a lookup of its name finds.
LEMMA Lookup ==
    ASSUME NEW pairs, Collectable(pairs), NEW i \in DOMAIN pairs, i \in Nat
    PROVE  get(pairs, pairs[i][1]) = {i} /\ Min(get(pairs, pairs[i][1])) = i
<1>1. get(pairs, pairs[i][1]) = {i}
  BY DEF Collectable, get, eq_ignore_ascii_case
<1>2. Min({i}) \in {i}
  BY MinOfNaturals
<1> QED BY <1>1, <1>2

\* A list of checks passes if every one does; otherwise it reports one that did not.
LEMMA FirstError ==
    ASSUME NEW n \in Nat, NEW errors, DOMAIN errors = 1..n
    PROVE  /\ first_error(errors) = "none" <=> \A i \in 1..n : errors[i] = "none"
           /\ first_error(errors) # "none" => \E i \in 1..n : first_error(errors) = errors[i]
<1> DEFINE failing == {i \in DOMAIN errors : errors[i] # "none"}
<1>1. failing \subseteq Nat /\ (failing = {} <=> \A i \in 1..n : errors[i] = "none")
  OBVIOUS
<1>2. \A i \in failing : i \in 1..n /\ errors[i] # "none"
  OBVIOUS
<1>3. first_error(errors) = IF failing = {} THEN "none" ELSE errors[Min(failing)]
  BY DEF first_error
<1> HIDE DEF failing
<1>4. failing # {} => Min(failing) \in failing
  BY <1>1, MinOfNaturals, Zenon
<1> QED BY <1>1, <1>2, <1>3, <1>4, Zenon

\* A function on 1..n is a sequence of length n.
LEMMA ListOf ==
    ASSUME NEW T, NEW n \in Nat, NEW s \in [1..n -> T]
    PROVE  s \in Seq(T) /\ Len(s) = n
<1>1. s \in Seq(T)
  BY SeqDef
<1> QED BY <1>1, LenProperties

\* The elements of a concatenation.
LEMMA Joined ==
    ASSUME NEW T, NEW s \in Seq(T), NEW t \in Seq(T)
    PROVE  /\ s \o t \in Seq(T) /\ Len(s \o t) = Len(s) + Len(t)
           /\ DOMAIN (s \o t) = 1..Len(s) + Len(t)
           /\ \A i \in 1..Len(s) : (s \o t)[i] = s[i]
           /\ \A i \in 1..Len(t) : (s \o t)[Len(s) + i] = t[i]
<1>1. Len(s) \in Nat /\ Len(t) \in Nat
  BY LenProperties
<1>2. /\ s \o t \in Seq(T) /\ Len(s \o t) = Len(s) + Len(t)
      /\ \A i \in 1..Len(s) + Len(t) :
            (s \o t)[i] = IF i <= Len(s) THEN s[i] ELSE t[i - Len(s)]
  BY ConcatProperties
<1>3. \A i \in 1..Len(s) : (s \o t)[i] = s[i]
  BY <1>1, <1>2
<1>4. ASSUME NEW i \in 1..Len(t) PROVE (s \o t)[Len(s) + i] = t[i]
  <2>1. /\ Len(s) + i \in 1..Len(s) + Len(t) /\ ~(Len(s) + i <= Len(s))
        /\ (Len(s) + i) - Len(s) = i
    BY <1>1
  <2> QED BY <1>2, <2>1
<1> QED BY <1>1, <1>2, <1>3, <1>4, LenProperties

\* Every field stands once in the list of its kind.
LEMMA FieldLists ==
    /\ DOMAIN RequestFields = 1..10 /\ DOMAIN ResponseFields = 1..3
    /\ \A i, j \in 1..10 : RequestFields[i] = RequestFields[j] => i = j
    /\ \A i, j \in 1..3 : ResponseFields[i] = ResponseFields[j] => i = j
<1>1. DOMAIN RequestFields = 1..10 /\ DOMAIN ResponseFields = 1..3
  BY DEF RequestFields, ResponseFields
<1>2. ASSUME NEW i \in 1..10, NEW j \in 1..10, RequestFields[i] = RequestFields[j] PROVE i = j
  <2>1. i \in {1, 2, 3, 4, 5, 6, 7, 8, 9, 10} /\ j \in {1, 2, 3, 4, 5, 6, 7, 8, 9, 10}
    OBVIOUS
  <2> QED BY <1>2, <2>1 DEF RequestFields
<1>3. ASSUME NEW i \in 1..3, NEW j \in 1..3, ResponseFields[i] = ResponseFields[j] PROVE i = j
  <2>1. i \in {1, 2, 3} /\ j \in {1, 2, 3}
    OBVIOUS
  <2> QED BY <1>3, <2>1 DEF ResponseFields
<1> QED BY <1>1, <1>2, <1>3

\* The names of the mapped fields, as lists.
LEMMA NameLists ==
    ASSUME NEW b
    PROVE  LET T == {b.request[RequestFields[i]] : i \in 1..10}
                    \cup {b.response[ResponseFields[i]] : i \in 1..3}
           IN  /\ request_names(b) \in Seq(T) /\ Len(request_names(b)) = 10
               /\ \A i \in 1..10 : request_names(b)[i] = b.request[RequestFields[i]]
               /\ response_names(b) \in Seq(T) /\ Len(response_names(b)) = 3
               /\ \A i \in 1..3 : response_names(b)[i] = b.response[ResponseFields[i]]
<1> DEFINE T == {b.request[RequestFields[i]] : i \in 1..10}
                  \cup {b.response[ResponseFields[i]] : i \in 1..3}
<1>1. /\ request_names(b) \in [1..10 -> T] /\ response_names(b) \in [1..3 -> T]
      /\ \A i \in 1..10 : request_names(b)[i] = b.request[RequestFields[i]]
      /\ \A i \in 1..3 : response_names(b)[i] = b.response[ResponseFields[i]]
  BY FieldLists DEF request_names, response_names
<1> HIDE DEF T
<1>0. ASSUME NEW n \in Nat, NEW s \in [1..n -> T] PROVE s \in Seq(T) /\ Len(s) = n
  BY ListOf
<1>2. request_names(b) \in Seq(T) /\ Len(request_names(b)) = 10
  BY <1>0, <1>1, Zenon
<1>3. response_names(b) \in Seq(T) /\ Len(response_names(b)) = 3
  BY <1>0, <1>1, Zenon
<1> QED BY <1>1, <1>2, <1>3, Zenon DEF T

\* All names that build requires.
LEMMA AllNames ==
    ASSUME NEW b
    PROVE  LET names == request_names(b) \o response_names(b)
           IN  /\ DOMAIN names = 1..13
               /\ \A i \in 1..10 : names[i] = b.request[RequestFields[i]]
               /\ \A i \in 1..3 : names[10 + i] = b.response[ResponseFields[i]]
<1> DEFINE r == request_names(b)
           p == response_names(b)
<1>1. /\ \A i \in 1..10 : r[i] = b.request[RequestFields[i]]
      /\ \A i \in 1..3 : p[i] = b.response[ResponseFields[i]]
  BY NameLists, Zenon
<1>2. \E T : r \in Seq(T) /\ Len(r) = 10 /\ p \in Seq(T) /\ Len(p) = 3
  BY NameLists, Zenon
<1> HIDE DEF r, p
<1>3. PICK T : r \in Seq(T) /\ Len(r) = 10 /\ p \in Seq(T) /\ Len(p) = 3
  BY <1>2
<1> DEFINE u == r \o p
<1>in. r \in Seq(T) /\ p \in Seq(T)
  BY <1>3
<1>4. DOMAIN u = 1..Len(r) + Len(p)
  BY <1>in, Joined
<1>5. \A i \in 1..Len(r) : u[i] = r[i]
  BY <1>in, Joined
<1>6. \A i \in 1..Len(p) : u[Len(r) + i] = p[i]
  BY <1>in, Joined
<1> HIDE DEF u
<1>7. /\ DOMAIN u = 1..13
      /\ \A i \in 1..10 : u[i] = r[i]
      /\ \A i \in 1..3 : u[10 + i] = p[i]
  BY <1>3, <1>4, <1>5, <1>6
<1> QED BY <1>1, <1>7, Zenon DEF r, p, u

\* What a successful build has checked.
LEMMA BuildChecks ==
    ASSUME NEW b, IsBuilder(b)
    PROVE  build(b) = "none" =>
              /\ b.request_cipher # NoLocation /\ b.response_cipher # NoLocation
              /\ \A i \in DOMAIN b.static : static_header(b.static[i]) = "none"
              /\ \A f \in DOMAIN b.request : HeaderName_new(b.request[f])
              /\ \A f \in DOMAIN b.response : HeaderName_new(b.response[f])
              /\ validate_collisions(b)
<1> DEFINE names == request_names(b) \o response_names(b)
           statics == [i \in DOMAIN b.static |-> static_header(b.static[i])]
           mapped == [i \in DOMAIN names |-> required_header(names[i])]
           checks == <<IF b.static = <<>> \/ NoLocation \in {b.request_cipher, b.response_cipher}
                         THEN "MissingField" ELSE "none",
                       IF b.legacy /\ b.bound THEN "InvalidMapping"
                       ELSE IF ~b.legacy /\ ~b.bound THEN "MissingField" ELSE "none",
                       first_error(statics), first_error(mapped),
                       IF validate_collisions(b) THEN "none" ELSE "InvalidMapping">>
<1>1. build(b) = first_error(checks) /\ DOMAIN checks = 1..5
  BY DEF build
<1>2. SUFFICES ASSUME build(b) = "none" PROVE build(b) = "none" =>
              /\ b.request_cipher # NoLocation /\ b.response_cipher # NoLocation
              /\ \A i \in DOMAIN b.static : static_header(b.static[i]) = "none"
              /\ \A f \in DOMAIN b.request : HeaderName_new(b.request[f])
              /\ \A f \in DOMAIN b.response : HeaderName_new(b.response[f])
              /\ validate_collisions(b)
  OBVIOUS
<1>3. \A i \in 1..5 : checks[i] = "none"
  <2> HIDE DEF checks
  <2> QED BY <1>1, <1>2, FirstError, Zenon
<1>4. /\ checks[1] = "none" /\ checks[3] = "none" /\ checks[4] = "none" /\ checks[5] = "none"
  <2> HIDE DEF checks
  <2> QED BY <1>3
<1>5. /\ b.request_cipher # NoLocation /\ b.response_cipher # NoLocation
      /\ first_error(statics) = "none" /\ first_error(mapped) = "none" /\ validate_collisions(b)
  <2> HIDE DEF statics, mapped
  <2> QED BY <1>4
<1>6. \A i \in DOMAIN b.static : static_header(b.static[i]) = "none"
  <2>1. DOMAIN statics = 1..Len(b.static) /\ Len(b.static) \in Nat
    BY LenProperties DEF IsBuilder
  <2>2. \A i \in 1..Len(b.static) : statics[i] = "none"
    <3> HIDE DEF statics
    <3> QED BY <1>5, <2>1, FirstError
  <2> QED BY <2>1, <2>2, Zenon
<1>7. /\ DOMAIN names = 1..13
      /\ \A i \in 1..10 : names[i] = b.request[RequestFields[i]]
      /\ \A i \in 1..3 : names[10 + i] = b.response[ResponseFields[i]]
  BY AllNames, Zenon
<1>n. \A i \in 1..13 : HeaderName_new(names[i])
  <2>2. DOMAIN mapped = 1..13
    BY <1>7
  <2>3. \A i \in 1..13 : mapped[i] = "none"
    <3> HIDE DEF mapped
    <3> QED BY <1>5, <2>2, FirstError, Zenon
  <2>4. \A i \in 1..13 : required_header(names[i]) = "none"
    BY <1>7, <2>3, Zenon
  <2> HIDE DEF names
  <2> QED BY <2>4 DEF required_header
<1> HIDE DEF names
<1>8. \A f \in DOMAIN b.request : HeaderName_new(b.request[f])
  <2> SUFFICES ASSUME NEW i \in 1..10 PROVE HeaderName_new(b.request[RequestFields[i]])
    BY FieldLists DEF IsBuilder, EmptyBuilder
  <2>1. i \in 1..13
    OBVIOUS
  <2> QED BY <1>7, <1>n, <2>1
<1>9. \A f \in DOMAIN b.response : HeaderName_new(b.response[f])
  <2> SUFFICES ASSUME NEW i \in 1..3 PROVE HeaderName_new(b.response[ResponseFields[i]])
    BY FieldLists DEF IsBuilder, EmptyBuilder
  <2>1. 10 + i \in 1..13
    OBVIOUS
  <2> QED BY <1>7, <1>n, <2>1
<1> QED BY <1>5, <1>6, <1>8, <1>9

-----------------------------------------------------------------------------
(* The headers a response is read from. *)

Fields(b) ==
    {"signature", "wrapped_session_key", "remote_signing_certificate"}
    \cup (IF b.bound THEN {"request_id"} ELSE {})
    \cup (IF b.response_cipher = Body THEN {} ELSE {"cipher"})

slot_name(b, f) ==
    IF f = "request_id" THEN b.request["request_id"]
    ELSE IF f = "cipher" THEN b.response_cipher.name ELSE b.response[f]

\* One more element.
LEMMA JoinedOne ==
    ASSUME NEW T, NEW u \in Seq(T), NEW x \in T
    PROVE  /\ u \o <<x>> \in Seq(T) /\ Len(u \o <<x>>) = Len(u) + 1
           /\ \A i \in 1..Len(u) : (u \o <<x>>)[i] = u[i]
           /\ (u \o <<x>>)[Len(u) + 1] = x
<1>1. <<x>> \in Seq(T) /\ Len(<<x>>) = 1
  OBVIOUS
<1>2. u \o <<x>> \in Seq(T) /\ Len(u \o <<x>>) = Len(u) + Len(<<x>>)
  BY <1>1, Joined
<1>3. \A i \in 1..Len(u) : (u \o <<x>>)[i] = u[i]
  BY <1>1, Joined
<1>4. \A i \in 1..Len(<<x>>) : (u \o <<x>>)[Len(u) + i] = <<x>>[i]
  BY <1>1, Joined
<1> QED BY <1>1, <1>2, <1>3, <1>4

\* Three elements and two that may be missing.
LEMMA ThreeAndOptions ==
    ASSUME NEW s, NEW w, NEW r, NEW x, NEW y, NEW P \in BOOLEAN, NEW Q \in BOOLEAN, NEW t,
           t = (<<s, w, r>> \o (IF P THEN <<x>> ELSE <<>>)) \o (IF Q THEN <<y>> ELSE <<>>)
    PROVE  /\ Len(t) = IF P THEN IF Q THEN 5 ELSE 4 ELSE IF Q THEN 4 ELSE 3
           /\ DOMAIN t = 1..Len(t)
           /\ t[1] = s /\ t[2] = w /\ t[3] = r
           /\ P => t[4] = x
           /\ Q => t[Len(t)] = y
<1> DEFINE T == {s, w, r, x, y}
           u == <<s, w, r>>
<1>1. u \in Seq(T) /\ Len(u) = 3 /\ u[1] = s /\ u[2] = w /\ u[3] = r
  OBVIOUS
<1>2. x \in T /\ y \in T
  OBVIOUS
<1> HIDE DEF T, u
<1>u. u \in Seq(T)
  BY <1>1
<1> DEFINE v == u \o (IF P THEN <<x>> ELSE <<>>)
<1>3. /\ v \in Seq(T) /\ Len(v) = IF P THEN 4 ELSE 3
      /\ v[1] = s /\ v[2] = w /\ v[3] = r /\ (P => v[4] = x)
  <2>1. CASE ~P
    BY <1>1, <2>1, ConcatEmptySeq, Zenon
  <2>2. CASE P
    <3>1. v = u \o <<x>>
      BY <2>2
    <3>2. v \in Seq(T) /\ Len(v) = Len(u) + 1
      BY <1>u, <1>2, <3>1, JoinedOne
    <3>3. \A k \in 1..Len(u) : v[k] = u[k]
      BY <1>u, <1>2, <3>1, JoinedOne
    <3>4. v[Len(u) + 1] = x
      BY <1>u, <1>2, <3>1, JoinedOne
    <3> HIDE DEF v
    <3> QED BY <1>1, <2>2, <3>2, <3>3, <3>4
  <2> QED BY <2>1, <2>2, Zenon
<1>4. t = v \o (IF Q THEN <<y>> ELSE <<>>)
  BY DEF u
<1> HIDE DEF v
<1>5. CASE ~Q
  <2>1. t = v
    BY <1>3, <1>4, <1>5, ConcatEmptySeq
  <2> QED BY <1>3, <1>5, <2>1, LenProperties
<1>6. CASE Q
  <2>0. v \in Seq(T)
    BY <1>3
  <2>1. t = v \o <<y>>
    BY <1>4, <1>6
  <2>2. t \in Seq(T) /\ Len(t) = Len(v) + 1
    BY <1>2, <2>0, <2>1, JoinedOne
  <2>3. \A k \in 1..Len(v) : t[k] = v[k]
    BY <1>2, <2>0, <2>1, JoinedOne
  <2>4. t[Len(v) + 1] = y
    BY <1>2, <2>0, <2>1, JoinedOne
  <2>5. Len(t) = IF P THEN 5 ELSE 4
    BY <1>3, <2>2
  <2>6. t[1] = s /\ t[2] = w /\ t[3] = r /\ (P => t[4] = x)
    BY <1>3, <2>3
  <2> QED BY <1>3, <1>6, <2>2, <2>4, <2>5, <2>6, LenProperties
<1> QED BY <1>5, <1>6

\* Each field has one slot, with the header it is mapped to.
LEMMA Slots ==
    ASSUME NEW b, b.bound \in BOOLEAN
    PROVE  LET t == slots(b)
           IN  /\ Len(t) \in 3..5 /\ DOMAIN t = 1..Len(t)
               /\ \A k \in DOMAIN t : t[k][1] \in Fields(b) /\ t[k][2] = slot_name(b, t[k][1])
               /\ \A f \in Fields(b) : \E k \in DOMAIN t : t[k][1] = f
               /\ \A k, l \in DOMAIN t : t[k][1] = t[l][1] => k = l
<1> DEFINE t == slots(b)
           slot(f) == <<f, slot_name(b, f)>>
           s == slot("signature")
           w == slot("wrapped_session_key")
           r == slot("remote_signing_certificate")
           i == slot("request_id")
           c == slot("cipher")
           in_header == b.response_cipher # Body
<1>1. [k \in DOMAIN ResponseFields |-> <<ResponseFields[k], b.response[ResponseFields[k]]>>] = <<s, w, r>>
  <2>1. DOMAIN ResponseFields = 1..3 /\ \A k \in 1..3 : k \in {1, 2, 3}
    BY FieldLists
  <2>2. /\ ResponseFields[1] = "signature" /\ ResponseFields[2] = "wrapped_session_key"
        /\ ResponseFields[3] = "remote_signing_certificate"
    BY DEF ResponseFields
  <2> QED BY <2>1, <2>2 DEF slot_name
<1>2. t = (<<s, w, r>> \o (IF b.bound THEN <<i>> ELSE <<>>)) \o (IF in_header THEN <<c>> ELSE <<>>)
  BY <1>1, Zenon DEF slots, slot_name
<1>3. /\ s[1] = "signature" /\ s[2] = slot_name(b, "signature")
      /\ w[1] = "wrapped_session_key" /\ w[2] = slot_name(b, "wrapped_session_key")
      /\ r[1] = "remote_signing_certificate" /\ r[2] = slot_name(b, "remote_signing_certificate")
      /\ i[1] = "request_id" /\ i[2] = slot_name(b, "request_id")
      /\ c[1] = "cipher" /\ c[2] = slot_name(b, "cipher")
  OBVIOUS
<1>4. in_header \in BOOLEAN /\ (in_header <=> b.response_cipher # Body)
  OBVIOUS
<1> HIDE DEF t, s, w, r, i, c, in_header
<1>5. /\ Len(t) = IF b.bound THEN IF in_header THEN 5 ELSE 4 ELSE IF in_header THEN 4 ELSE 3
      /\ DOMAIN t = 1..Len(t)
      /\ t[1] = s /\ t[2] = w /\ t[3] = r
      /\ b.bound => t[4] = i
      /\ in_header => t[Len(t)] = c
  BY <1>2, <1>4, ThreeAndOptions
<1>6. CASE b.bound /\ in_header
  BY <1>3, <1>4, <1>5, <1>6 DEF Fields, t
<1>7. CASE b.bound /\ ~in_header
  BY <1>3, <1>4, <1>5, <1>7 DEF Fields, t
<1>8. CASE ~b.bound /\ in_header
  BY <1>3, <1>4, <1>5, <1>8 DEF Fields, t
<1>9. CASE ~b.bound /\ ~in_header
  BY <1>3, <1>4, <1>5, <1>9 DEF Fields, t
<1> QED BY <1>4, <1>6, <1>7, <1>8, <1>9

\* The names build keeps apart in responses are those of the slots.
LEMMA ResponseMappings ==
    ASSUME NEW b, IsBuilder(b), b.response_cipher # NoLocation
    PROVE  distinct_mappings(response_names(b) \o cipher_name(b.response_cipher)
                               \o IF b.bound THEN <<b.request["request_id"]>> ELSE <<>>)
           <=> \A f, g \in Fields(b) : slot_name(b, f).canonical = slot_name(b, g).canonical => f = g
<1> DEFINE s == slot_name(b, "signature")
           w == slot_name(b, "wrapped_session_key")
           r == slot_name(b, "remote_signing_certificate")
           i == slot_name(b, "request_id")
           c == slot_name(b, "cipher")
           in_header == b.response_cipher # Body
           u == response_names(b) \o cipher_name(b.response_cipher)
                    \o IF b.bound THEN <<b.request["request_id"]>> ELSE <<>>
<1>1. response_names(b) = <<s, w, r>>
  <2>1. DOMAIN ResponseFields = 1..3 /\ \A k \in 1..3 : k \in {1, 2, 3}
    BY FieldLists
  <2>2. /\ ResponseFields[1] = "signature" /\ ResponseFields[2] = "wrapped_session_key"
        /\ ResponseFields[3] = "remote_signing_certificate"
    BY DEF ResponseFields
  <2> QED BY <2>1, <2>2 DEF slot_name, response_names
<1>2. cipher_name(b.response_cipher) = IF in_header THEN <<c>> ELSE <<>>
  <2>1. CASE b.response_cipher = Body
    BY <2>1 DEF Body, cipher_name
  <2>2. CASE b.response_cipher = InHeader(b.response_cipher.name)
    <3>1. b.response_cipher.at = "Header"
      BY <2>2 DEF InHeader
    <3>2. b.response_cipher # Body
      BY <3>1 DEF Body
    <3> QED BY <3>1, <3>2 DEF cipher_name, slot_name
  <2> QED BY <2>1, <2>2 DEF IsBuilder, IsLocation
<1>3. u = (<<s, w, r>> \o (IF in_header THEN <<c>> ELSE <<>>)) \o (IF b.bound THEN <<i>> ELSE <<>>)
  <2>1. i = b.request["request_id"]
    BY DEF slot_name
  <2> HIDE DEF s, w, r, c, i, in_header
  <2> QED BY <1>1, <1>2, <2>1
<1>4. in_header \in BOOLEAN /\ (in_header <=> b.response_cipher # Body) /\ b.bound \in BOOLEAN
  BY DEF IsBuilder
<1> HIDE DEF s, w, r, i, c, in_header, u
<1> DEFINE bound == b.bound
           apart == \A f, g \in Fields(b) : slot_name(b, f).canonical = slot_name(b, g).canonical => f = g
<1>b. bound \in BOOLEAN /\ bound = b.bound
  BY <1>4
<1>u. u = (<<s, w, r>> \o (IF in_header THEN <<c>> ELSE <<>>)) \o (IF bound THEN <<i>> ELSE <<>>)
  BY <1>3
<1> HIDE DEF bound
<1>5. /\ Len(u) = IF in_header THEN IF bound THEN 5 ELSE 4 ELSE IF bound THEN 4 ELSE 3
      /\ DOMAIN u = 1..Len(u)
      /\ u[1] = s /\ u[2] = w /\ u[3] = r
      /\ in_header => u[4] = c
      /\ bound => u[Len(u)] = i
  <2>1. in_header \in BOOLEAN /\ bound \in BOOLEAN
    BY <1>4, <1>b
  <2> QED BY <2>1, <1>u, ThreeAndOptions, SMTT(60)
<1> DEFINE field == [k \in 1..Len(u) |->
                       CASE k = 1 -> "signature" [] k = 2 -> "wrapped_session_key"
                         [] k = 3 -> "remote_signing_certificate"
                         [] k = 4 /\ in_header -> "cipher"
                         [] OTHER -> "request_id"]
<1>6. ASSUME in_header /\ bound PROVE distinct_mappings(u) <=> apart
  <2>1. Len(u) = 5
    BY <1>5, <1>6
  <2>2. /\ DOMAIN field = {1, 2, 3, 4, 5} /\ field[1] = "signature" /\ field[2] = "wrapped_session_key"
        /\ field[3] = "remote_signing_certificate" /\ field[4] = "cipher" /\ field[5] = "request_id"
    BY <1>6, <2>1
  <2>3. Fields(b) = {"signature", "wrapped_session_key", "remote_signing_certificate", "cipher", "request_id"}
    BY <1>4, <1>6, <1>b, Zenon DEF Fields
  <2> HIDE DEF field
  <2>4. \A k \in DOMAIN field : field[k] \in Fields(b) /\ u[k] = slot_name(b, field[k])
    BY <1>5, <1>6, <2>1, <2>2, <2>3 DEF s, w, r, i, c
  <2>5. /\ \A f \in Fields(b) : \E k \in DOMAIN field : field[k] = f
        /\ \A k, l \in DOMAIN field : field[k] = field[l] => k = l
    BY <2>2, <2>3
  <2>6. DOMAIN u = DOMAIN field
    BY <1>5 DEF field
  <2>7. distinct_mappings(u) <=>
          \A k, l \in DOMAIN field : u[k].canonical = u[l].canonical => k = l
    BY <2>6 DEF distinct_mappings, eq_ignore_ascii_case
  <2>8. distinct_mappings(u) <=> apart
    BY <2>4, <2>5, <2>7
  <2> QED BY <2>8
<1>7. ASSUME in_header /\ ~bound PROVE distinct_mappings(u) <=> apart
  <2>1. Len(u) = 4
    BY <1>5, <1>7
  <2>2. /\ DOMAIN field = {1, 2, 3, 4} /\ field[1] = "signature" /\ field[2] = "wrapped_session_key"
        /\ field[3] = "remote_signing_certificate" /\ field[4] = "cipher"
    BY <1>7, <2>1
  <2>3. Fields(b) = {"signature", "wrapped_session_key", "remote_signing_certificate", "cipher"}
    BY <1>4, <1>7, <1>b DEF Fields
  <2> HIDE DEF field
  <2>4. \A k \in DOMAIN field : field[k] \in Fields(b) /\ u[k] = slot_name(b, field[k])
    BY <1>5, <1>7, <2>1, <2>2, <2>3 DEF s, w, r, i, c
  <2>5. /\ \A f \in Fields(b) : \E k \in DOMAIN field : field[k] = f
        /\ \A k, l \in DOMAIN field : field[k] = field[l] => k = l
    BY <2>2, <2>3
  <2>6. DOMAIN u = DOMAIN field
    BY <1>5 DEF field
  <2>7. distinct_mappings(u) <=>
          \A k, l \in DOMAIN field : u[k].canonical = u[l].canonical => k = l
    BY <2>6 DEF distinct_mappings, eq_ignore_ascii_case
  <2>8. distinct_mappings(u) <=> apart
    BY <2>4, <2>5, <2>7
  <2> QED BY <2>8
<1>8. ASSUME ~in_header /\ bound PROVE distinct_mappings(u) <=> apart
  <2>1. Len(u) = 4
    BY <1>5, <1>8
  <2>2. /\ DOMAIN field = {1, 2, 3, 4} /\ field[1] = "signature" /\ field[2] = "wrapped_session_key"
        /\ field[3] = "remote_signing_certificate" /\ field[4] = "request_id"
    BY <1>8, <2>1
  <2>3. Fields(b) = {"signature", "wrapped_session_key", "remote_signing_certificate", "request_id"}
    BY <1>4, <1>8, <1>b, Zenon DEF Fields
  <2> HIDE DEF field
  <2>4. \A k \in DOMAIN field : field[k] \in Fields(b) /\ u[k] = slot_name(b, field[k])
    BY <1>5, <1>8, <2>1, <2>2, <2>3 DEF s, w, r, i, c
  <2>5. /\ \A f \in Fields(b) : \E k \in DOMAIN field : field[k] = f
        /\ \A k, l \in DOMAIN field : field[k] = field[l] => k = l
    BY <2>2, <2>3
  <2>6. DOMAIN u = DOMAIN field
    BY <1>5 DEF field
  <2>7. distinct_mappings(u) <=>
          \A k, l \in DOMAIN field : u[k].canonical = u[l].canonical => k = l
    BY <2>6 DEF distinct_mappings, eq_ignore_ascii_case
  <2>8. distinct_mappings(u) <=> apart
    BY <2>4, <2>5, <2>7
  <2> QED BY <2>8
<1>9. ASSUME ~in_header /\ ~bound PROVE distinct_mappings(u) <=> apart
  <2>1. Len(u) = 3
    BY <1>5, <1>9
  <2>2. /\ DOMAIN field = {1, 2, 3} /\ field[1] = "signature" /\ field[2] = "wrapped_session_key"
        /\ field[3] = "remote_signing_certificate"
    BY <1>9, <2>1
  <2>3. Fields(b) = {"signature", "wrapped_session_key", "remote_signing_certificate"}
    BY <1>4, <1>9, <1>b DEF Fields
  <2> HIDE DEF field
  <2>4. \A k \in DOMAIN field : field[k] \in Fields(b) /\ u[k] = slot_name(b, field[k])
    BY <1>5, <1>9, <2>1, <2>2, <2>3 DEF s, w, r, i, c
  <2>5. /\ \A f \in Fields(b) : \E k \in DOMAIN field : field[k] = f
        /\ \A k, l \in DOMAIN field : field[k] = field[l] => k = l
    BY <2>2, <2>3
  <2>6. DOMAIN u = DOMAIN field
    BY <1>5 DEF field
  <2>7. distinct_mappings(u) <=>
          \A k, l \in DOMAIN field : u[k].canonical = u[l].canonical => k = l
    BY <2>6 DEF distinct_mappings, eq_ignore_ascii_case
  <2>8. distinct_mappings(u) <=> apart
    BY <2>4, <2>5, <2>7
  <2> QED BY <2>8
<1>10. distinct_mappings(u) <=> apart
  BY <1>4, <1>b, <1>6, <1>7, <1>8, <1>9, Zenon
<1> QED BY <1>10 DEF u

\* No header name is shared by two fields of a response.
Apart(b) == \A f, g \in Fields(b) : slot_name(b, f).canonical = slot_name(b, g).canonical => f = g

LEMMA BuiltIsApart ==
    ASSUME NEW b, IsBuilder(b), build(b) = "none"
    PROVE  Apart(b)
BY BuildChecks, ResponseMappings, Zenon DEF validate_collisions, Apart

-----------------------------------------------------------------------------
(* Responses. *)

\* The check that fails first is the one reported.
LEMMA FirstFailure ==
    ASSUME NEW n \in Nat, NEW errors, DOMAIN errors = 1..n, NEW k \in 1..n,
           errors[k] # "none", \A j \in 1..k - 1 : errors[j] = "none"
    PROVE  first_error(errors) = errors[k]
<1> DEFINE failing == {i \in DOMAIN errors : errors[i] # "none"}
<1>1. failing \subseteq Nat /\ k \in failing
  OBVIOUS
<1>2. \A i \in failing : k <= i
  OBVIOUS
<1>3. first_error(errors) = IF failing = {} THEN "none" ELSE errors[Min(failing)]
  BY DEF first_error
<1> HIDE DEF failing
<1>4. Min(failing) \in failing /\ Min(failing) <= k
  BY <1>1, <1>2, Zenon DEF Min
<1>5. Min(failing) = k
  <2>1. Min(failing) \in Nat /\ k \in Nat /\ k <= Min(failing) /\ Min(failing) <= k
    BY <1>1, <1>2, <1>4, Zenon
  <2> QED BY <2>1
<1> QED BY <1>1, <1>3, <1>5

\* More than one element.
LEMMA Several ==
    ASSUME NEW S, IsFiniteSet(S)
    PROVE  Cardinality(S) > 1 <=> \E i, j \in S : i # j
<1>1. ASSUME NEW i \in S, NEW j \in S, i # j PROVE Cardinality(S) > 1
  <2>1. IsFiniteSet({i}) /\ Cardinality({i}) = 1
    BY FS_Singleton, Zenon
  <2>2. IsFiniteSet({i} \cup {j}) /\ Cardinality({i} \cup {j}) = 2
    <3>1. j \notin {i}
      BY <1>1
    <3>2. IsFiniteSet({i} \cup {j}) /\ Cardinality({i} \cup {j}) = Cardinality({i}) + 1
      BY <2>1, <3>1, FS_AddElement, Zenon
    <3> QED BY <2>1, <3>2
  <2>3. Cardinality({i} \cup {j}) <= Cardinality(S)
    BY FS_Subset
  <2>4. Cardinality(S) \in Nat
    BY FS_CardinalityType
  <2> QED BY <2>2, <2>3, <2>4
<1>2. ASSUME ~ \E i, j \in S : i # j PROVE ~(Cardinality(S) > 1)
  <2>1. CASE S = {}
    BY <2>1, FS_EmptySet
  <2>2. ASSUME NEW i \in S PROVE ~(Cardinality(S) > 1)
    <3>1. S = {i}
      BY <1>2
    <3> QED BY <3>1, FS_Singleton
  <2> QED BY <2>1, <2>2
<1> QED BY <1>1, <1>2

\* target finds the field whose header has that name, whatever its casing.
LEMMA TargetOf ==
    ASSUME NEW b, IsBuilder(b), NEW name
    PROVE  /\ target(b, name) \in Fields(b) \cup {"none"}
           /\ target(b, name) # "none" => slot_name(b, target(b, name)).canonical = name.canonical
           /\ \A f \in Fields(b) : slot_name(b, f).canonical = name.canonical => target(b, name) # "none"
<1> DEFINE t == slots(b)
           hits == {k \in DOMAIN t : eq_ignore_ascii_case(t[k][2], name)}
<1>1. /\ DOMAIN t = 1..Len(t) /\ Len(t) \in Nat
      /\ \A k \in DOMAIN t : t[k][1] \in Fields(b) /\ t[k][2] = slot_name(b, t[k][1])
      /\ \A f \in Fields(b) : \E k \in DOMAIN t : t[k][1] = f
  <2>1. b.bound \in BOOLEAN
    BY DEF IsBuilder
  <2>2. \A n \in 3..5 : n \in Nat
    OBVIOUS
  <2> HIDE DEF t
  <2> QED BY <2>1, <2>2, Slots DEF t
<1>2. target(b, name) = IF hits = {} THEN "none" ELSE t[Min(hits)][1]
  BY DEF target
<1>3. "none" \notin Fields(b)
  BY DEF Fields
<1> HIDE DEF t
<1>4. hits \subseteq Nat
  BY <1>1
<1>5. \A k \in hits : t[k][1] \in Fields(b) /\ slot_name(b, t[k][1]).canonical = name.canonical
  BY <1>1 DEF eq_ignore_ascii_case
<1>6. \A f \in Fields(b) : slot_name(b, f).canonical = name.canonical => hits # {}
  BY <1>1 DEF eq_ignore_ascii_case
<1> HIDE DEF hits
<1>7. hits # {} => Min(hits) \in hits
  BY <1>4, MinOfNaturals, Zenon
<1>8. CASE hits = {}
  BY <1>2, <1>6, <1>8
<1>9. CASE hits # {}
  BY <1>2, <1>3, <1>5, <1>7, <1>9
<1> QED BY <1>8, <1>9

LEMMA SameTarget ==
    ASSUME NEW b, NEW m, NEW n, m.canonical = n.canonical
    PROVE  target(b, m) = target(b, n)
BY DEF target, eq_ignore_ascii_case

\* The places of a field are those of its header.
LEMMA Places ==
    ASSUME NEW b, IsBuilder(b), Apart(b), NEW h, NEW f \in CarriedFields
    PROVE  occurrences(b, h)[f] =
              {i \in DOMAIN h : f \in Fields(b) /\ slot_name(b, f).canonical = h[i][1].canonical}
<1>1. occurrences(b, h)[f] = {i \in DOMAIN h : target(b, h[i][1]) = f}
  BY DEF occurrences
<1>2. f # "none"
  BY DEF CarriedFields
<1>3. \A i \in DOMAIN h : target(b, h[i][1]) = f <=>
                            f \in Fields(b) /\ slot_name(b, f).canonical = h[i][1].canonical
  <2> SUFFICES ASSUME NEW i \in DOMAIN h
               PROVE  target(b, h[i][1]) = f <=>
                        f \in Fields(b) /\ slot_name(b, f).canonical = h[i][1].canonical
    OBVIOUS
  <2> DEFINE g == target(b, h[i][1])
  <2>1. /\ g \in Fields(b) \cup {"none"}
        /\ g # "none" => slot_name(b, g).canonical = h[i][1].canonical
        /\ \A e \in Fields(b) : slot_name(b, e).canonical = h[i][1].canonical => g # "none"
    BY TargetOf
  <2> HIDE DEF g
  <2>2. g = f <=> f \in Fields(b) /\ slot_name(b, f).canonical = h[i][1].canonical
    BY <1>2, <2>1, Zenon DEF Apart
  <2> QED BY <2>2 DEF g
<1> QED BY <1>1, <1>3

\* The checks of parse_response, and what it returns when they pass.
ResponseChecks(b, h, content) ==
    LET places == occurrences(b, h)
        required(f) == required_response_header(h, places[f])
    IN  <<IF duplicated(places) THEN "DuplicateField" ELSE "none",
          required("signature"), required("wrapped_session_key"),
          required("remote_signing_certificate"),
          IF b.response_cipher # Body THEN required("cipher")
          ELSE IF is_blank(content) THEN "InvalidField" ELSE "none",
          IF b.bound
            THEN first_error(<<required("request_id"),
                   require_exact_trim(response_value(h, places["request_id"]))>>) ELSE "none",
          ParsedResponse_new(trim(response_value(h, places["remote_signing_certificate"])))>>

ResponseRead(b, h, content) ==
    LET places == occurrences(b, h)
        value(f) == trim(response_value(h, places[f]))
    IN  [err |-> "none",
         envelope |-> [cipher |-> IF b.response_cipher = Body THEN trim(content) ELSE value("cipher"),
                       wrapped_session_key |-> value("wrapped_session_key"),
                       signature |-> value("signature")],
         remote_signing_certificate_id |-> value("remote_signing_certificate"),
         context |-> IF b.bound
                       THEN encode_response_context(response_value(h, places["request_id"])).context
                       ELSE Legacy]

LEMMA Parsing ==
    ASSUME NEW b, NEW h, NEW content
    PROVE  parse_response(b, h, content) =
              IF first_error(ResponseChecks(b, h, content)) # "none"
                THEN [err |-> first_error(ResponseChecks(b, h, content))]
                ELSE ResponseRead(b, h, content)
BY Zenon DEF parse_response, ResponseChecks, ResponseRead, encode_response_context

\* A response in which a field occurs twice.
LEMMA DuplicatesAreRefused ==
    ASSUME NEW b, NEW h, NEW content, duplicated(occurrences(b, h))
    PROVE  parse_response(b, h, content) = [err |-> "DuplicateField"]
<1> DEFINE checks == ResponseChecks(b, h, content)
<1>1. DOMAIN checks = 1..7 /\ checks[1] = "DuplicateField"
  BY DEF ResponseChecks
<1> HIDE DEF checks
<1>2. first_error(checks) = "DuplicateField"
  <2>1. \A j \in 1..1 - 1 : checks[j] = "none"
    OBVIOUS
  <2>2. 7 \in Nat /\ 1 \in 1..7
    OBVIOUS
  <2> QED BY <1>1, <2>1, <2>2, FirstFailure, Zenon
<1> QED BY <1>2, Parsing DEF checks

\* The fields of a response that is accepted.
LEMMA AcceptedResponse ==
    ASSUME NEW b, NEW h, NEW content
    PROVE  LET places == occurrences(b, h)
               required(f) == required_response_header(h, places[f])
               value(f) == response_value(h, places[f])
           IN  parse_response(b, h, content).err = "none" <=>
                 /\ ~duplicated(places)
                 /\ required("signature") = "none" /\ required("wrapped_session_key") = "none"
                 /\ required("remote_signing_certificate") = "none"
                 /\ b.response_cipher # Body => required("cipher") = "none"
                 /\ b.response_cipher = Body => ~is_blank(content)
                 /\ b.bound => required("request_id") = "none"
                                 /\ require_exact_trim(value("request_id")) = "none"
                 /\ validate_context_value(trim(value("remote_signing_certificate")))
<1> DEFINE places == occurrences(b, h)
           required(f) == required_response_header(h, places[f])
           value(f) == response_value(h, places[f])
           id_checks == <<required("request_id"), require_exact_trim(value("request_id"))>>
           checks == ResponseChecks(b, h, content)
           read == ResponseRead(b, h, content)
<1>0. read.err = "none"
  BY DEF ResponseRead
<1>1. parse_response(b, h, content).err = first_error(checks)
  <2>1. parse_response(b, h, content) =
          IF first_error(checks) # "none" THEN [err |-> first_error(checks)] ELSE read
    BY Parsing
  <2> HIDE DEF checks, read
  <2> QED BY <1>0, <2>1
<1>2. DOMAIN checks = 1..7
  BY DEF ResponseChecks
<1>3. /\ checks[1] = (IF duplicated(places) THEN "DuplicateField" ELSE "none")
      /\ checks[2] = required("signature") /\ checks[3] = required("wrapped_session_key")
      /\ checks[4] = required("remote_signing_certificate")
      /\ checks[5] = (IF b.response_cipher # Body THEN required("cipher")
                      ELSE IF is_blank(content) THEN "InvalidField" ELSE "none")
      /\ checks[6] = (IF b.bound THEN first_error(id_checks) ELSE "none")
      /\ checks[7] = ParsedResponse_new(trim(value("remote_signing_certificate")))
  BY DEF ResponseChecks
<1>4. first_error(id_checks) = "none" <=>
        required("request_id") = "none" /\ require_exact_trim(value("request_id")) = "none"
  <2>1. /\ DOMAIN id_checks = 1..2 /\ id_checks[1] = required("request_id")
        /\ id_checks[2] = require_exact_trim(value("request_id"))
    OBVIOUS
  <2> HIDE DEF id_checks, required, value
  <2>2. first_error(id_checks) = "none" <=> \A i \in 1..2 : id_checks[i] = "none"
    BY <2>1, FirstError, Zenon
  <2>3. 1..2 = {1, 2}
    OBVIOUS
  <2> QED BY <2>1, <2>2, <2>3
<1> HIDE DEF checks, id_checks, required, value, places
<1>5. first_error(checks) = "none" <=> \A i \in 1..7 : checks[i] = "none"
  BY <1>2, FirstError, Zenon
<1>6. 1..7 = {1, 2, 3, 4, 5, 6, 7}
  OBVIOUS
<1>7. first_error(checks) = "none" <=>
        /\ checks[1] = "none" /\ checks[2] = "none" /\ checks[3] = "none" /\ checks[4] = "none"
        /\ checks[5] = "none" /\ checks[6] = "none" /\ checks[7] = "none"
  BY <1>5, <1>6
<1>8. checks[7] = "none" <=> validate_context_value(trim(value("remote_signing_certificate")))
  BY <1>3 DEF ParsedResponse_new
<1>9. parse_response(b, h, content).err = "none" <=>
                 /\ ~duplicated(places)
                 /\ required("signature") = "none" /\ required("wrapped_session_key") = "none"
                 /\ required("remote_signing_certificate") = "none"
                 /\ b.response_cipher # Body => required("cipher") = "none"
                 /\ b.response_cipher = Body => ~is_blank(content)
                 /\ b.bound => required("request_id") = "none"
                                 /\ require_exact_trim(value("request_id")) = "none"
                 /\ validate_context_value(trim(value("remote_signing_certificate")))
  BY <1>1, <1>3, <1>4, <1>7, <1>8
<1> QED BY <1>9 DEF required, value, places

\* The largest of one.
LEMMA MaxOfOne ==
    ASSUME NEW k \in Nat
    PROVE  Max({k}) = k
<1>1. \E x \in {k} : \A y \in {k} : x >= y
  OBVIOUS
<1>2. Max({k}) \in {k}
  BY <1>1, Zenon DEF Max
<1> QED BY <1>2

\* A text a header can carry.
Sendable(text) == HeaderValue_new(text) /\ ~is_blank(text)

\* What a peer that follows the schema lays out is found where it was put, once.
LEMMA LaidOut ==
    ASSUME NEW b, IsBuilder(b), Apart(b), NEW v
    PROVE  LET h == laid_out(b, v)
               places == occurrences(b, h)
           IN  /\ ~duplicated(places)
               /\ \A f \in CarriedFields \cap Fields(b) :
                    /\ required_response_header(h, places[f]) = "none" <=> Sendable(v[f])
                    /\ response_value(h, places[f]) = v[f]
<1> DEFINE h == laid_out(b, v)
           places == occurrences(b, h)
           t == slots(b)
<1>1. /\ DOMAIN t = 1..Len(t) /\ Len(t) \in Nat
      /\ \A k \in DOMAIN t : t[k][1] \in Fields(b) /\ t[k][2] = slot_name(b, t[k][1])
      /\ \A f \in Fields(b) : \E k \in DOMAIN t : t[k][1] = f
      /\ \A k, l \in DOMAIN t : t[k][1] = t[l][1] => k = l
  <2>1. b.bound \in BOOLEAN
    BY DEF IsBuilder
  <2>2. \A n \in 3..5 : n \in Nat
    OBVIOUS
  <2> HIDE DEF t
  <2> QED BY <2>1, <2>2, Slots DEF t
<1>2. /\ DOMAIN h = DOMAIN t
      /\ \A k \in DOMAIN t : h[k][1] = t[k][2] /\ h[k][2] = v[t[k][1]]
  BY DEF laid_out
<1>3. DOMAIN places = CarriedFields
  BY Zenon DEF occurrences
<1>4. \A f \in CarriedFields :
        places[f] = {i \in DOMAIN h : f \in Fields(b) /\ slot_name(b, f).canonical = h[i][1].canonical}
  <2> HIDE DEF h
  <2> QED BY Places
<1> HIDE DEF h, places, t
<1>5. ASSUME NEW f \in CarriedFields, f \notin Fields(b) PROVE places[f] = {}
  BY <1>4, <1>5, Zenon
<1>6. ASSUME NEW f \in CarriedFields, f \in Fields(b)
      PROVE  \E k \in DOMAIN t : places[f] = {k} /\ h[k][2] = v[f]
  <2>1. PICK k \in DOMAIN t : t[k][1] = f
    BY <1>1, <1>6, Zenon
  <2>2. h[k][1] = slot_name(b, f) /\ h[k][2] = v[f]
    BY <1>1, <1>2, <2>1, Zenon
  <2>3. ASSUME NEW i \in DOMAIN t, slot_name(b, f).canonical = h[i][1].canonical PROVE i = k
    <3>1. h[i][1] = slot_name(b, t[i][1]) /\ t[i][1] \in Fields(b)
      BY <1>1, <1>2, Zenon
    <3>2. t[i][1] = f
      BY <1>6, <2>3, <3>1, Zenon DEF Apart
    <3> QED BY <1>1, <2>1, <3>2, Zenon
  <2>4. \A i \in DOMAIN h : i \in places[f] <=> i = k
    BY <1>2, <1>4, <1>6, <2>2, <2>3
  <2>5. places[f] \subseteq DOMAIN h /\ k \in DOMAIN h
    BY <1>2, <1>4, Zenon
  <2>6. places[f] = {k}
    BY <2>4, <2>5
  <2> QED BY <2>2, <2>6, Zenon
<1>7. ~duplicated(places)
  <2> SUFFICES ASSUME NEW f \in CarriedFields PROVE ~(Cardinality(places[f]) > 1)
    BY <1>3 DEF duplicated
  <2>1. CASE f \notin Fields(b)
    BY <1>5, <2>1, FS_EmptySet
  <2>2. CASE f \in Fields(b)
    <3>1. PICK k \in DOMAIN t : places[f] = {k}
      BY <1>6, <2>2, Zenon
    <3> QED BY <3>1, FS_Singleton
  <2> QED BY <2>1, <2>2
<1>8. ASSUME NEW f \in CarriedFields \cap Fields(b)
      PROVE  /\ required_response_header(h, places[f]) = "none" <=> Sendable(v[f])
             /\ response_value(h, places[f]) = v[f]
  <2>1. PICK k \in DOMAIN t : places[f] = {k} /\ h[k][2] = v[f]
    BY <1>6
  <2>2. k \in Nat
    BY <1>1
  <2>3. h[Max(places[f])][2] = v[f] /\ places[f] # {}
    BY <2>1, <2>2, MaxOfOne, Zenon
  <2> QED BY <2>3 DEF required_response_header, response_value, Sendable
<1> QED BY <1>7, <1>8 DEF h, places

\* When such a response is accepted, and what is read from it.
LEMMA ParseLaidOut ==
    ASSUME NEW b, IsBuilder(b), Apart(b), NEW v, NEW content
    PROVE  LET r == parse_response(b, laid_out(b, v), content)
           IN  /\ r.err = "none" <=>
                    /\ Sendable(v["signature"]) /\ Sendable(v["wrapped_session_key"])
                    /\ Sendable(v["remote_signing_certificate"])
                    /\ b.response_cipher # Body => Sendable(v["cipher"])
                    /\ b.response_cipher = Body => ~is_blank(content)
                    /\ b.bound => Sendable(v["request_id"])
                                    /\ require_exact_trim(v["request_id"]) = "none"
                    /\ validate_context_value(trim(v["remote_signing_certificate"]))
               /\ r.err = "none" =>
                    /\ r.envelope = [signature |-> trim(v["signature"]),
                                     wrapped_session_key |-> trim(v["wrapped_session_key"]),
                                     cipher |-> trim(IF b.response_cipher = Body THEN content
                                                     ELSE v["cipher"])]
                    /\ r.remote_signing_certificate_id = trim(v["remote_signing_certificate"])
                    /\ r.context = IF b.bound THEN encode_response_context(v["request_id"]).context
                                   ELSE Legacy
<1> DEFINE h == laid_out(b, v)
           places == occurrences(b, h)
           r == parse_response(b, h, content)
<1>1. /\ ~duplicated(places)
      /\ \A f \in CarriedFields \cap Fields(b) :
           /\ required_response_header(h, places[f]) = "none" <=> Sendable(v[f])
           /\ response_value(h, places[f]) = v[f]
  BY LaidOut
<1>2. /\ {"signature", "wrapped_session_key", "remote_signing_certificate"} \subseteq CarriedFields \cap Fields(b)
      /\ b.bound => "request_id" \in CarriedFields \cap Fields(b)
      /\ b.response_cipher # Body => "cipher" \in CarriedFields \cap Fields(b)
  BY DEF CarriedFields, Fields
<1> HIDE DEF h
<1>3. r.err = "none" <=>
        /\ ~duplicated(places)
        /\ required_response_header(h, places["signature"]) = "none"
        /\ required_response_header(h, places["wrapped_session_key"]) = "none"
        /\ required_response_header(h, places["remote_signing_certificate"]) = "none"
        /\ b.response_cipher # Body => required_response_header(h, places["cipher"]) = "none"
        /\ b.response_cipher = Body => ~is_blank(content)
        /\ b.bound => /\ required_response_header(h, places["request_id"]) = "none"
                      /\ require_exact_trim(response_value(h, places["request_id"])) = "none"
        /\ validate_context_value(trim(response_value(h, places["remote_signing_certificate"])))
  BY AcceptedResponse
<1>4. r.err = "none" => r = ResponseRead(b, h, content)
  BY Parsing
<1>5. ResponseRead(b, h, content) =
        [err |-> "none",
         envelope |-> [cipher |-> IF b.response_cipher = Body THEN trim(content)
                                  ELSE trim(response_value(h, places["cipher"])),
                       wrapped_session_key |-> trim(response_value(h, places["wrapped_session_key"])),
                       signature |-> trim(response_value(h, places["signature"]))],
         remote_signing_certificate_id |-> trim(response_value(h, places["remote_signing_certificate"])),
         context |-> IF b.bound
                       THEN encode_response_context(response_value(h, places["request_id"])).context
                       ELSE Legacy]
  BY DEF ResponseRead
<1> HIDE DEF places, r
<1>6. /\ response_value(h, places["signature"]) = v["signature"]
      /\ response_value(h, places["wrapped_session_key"]) = v["wrapped_session_key"]
      /\ response_value(h, places["remote_signing_certificate"]) = v["remote_signing_certificate"]
      /\ b.bound => response_value(h, places["request_id"]) = v["request_id"]
      /\ b.response_cipher # Body => response_value(h, places["cipher"]) = v["cipher"]
  BY <1>1, <1>2
<1>7. /\ required_response_header(h, places["signature"]) = "none" <=> Sendable(v["signature"])
      /\ required_response_header(h, places["wrapped_session_key"]) = "none"
           <=> Sendable(v["wrapped_session_key"])
      /\ required_response_header(h, places["remote_signing_certificate"]) = "none"
           <=> Sendable(v["remote_signing_certificate"])
      /\ b.bound => (required_response_header(h, places["request_id"]) = "none"
                       <=> Sendable(v["request_id"]))
      /\ b.response_cipher # Body => (required_response_header(h, places["cipher"]) = "none"
                                        <=> Sendable(v["cipher"]))
  BY <1>1, <1>2
<1>8. r.err = "none" <=>
         /\ Sendable(v["signature"]) /\ Sendable(v["wrapped_session_key"])
         /\ Sendable(v["remote_signing_certificate"])
         /\ b.response_cipher # Body => Sendable(v["cipher"])
         /\ b.response_cipher = Body => ~is_blank(content)
         /\ b.bound => Sendable(v["request_id"])
                         /\ require_exact_trim(v["request_id"]) = "none"
         /\ validate_context_value(trim(v["remote_signing_certificate"]))
  BY <1>1, <1>3, <1>6, <1>7, Zenon
<1>9. r.err = "none" =>
         /\ r.envelope = [signature |-> trim(v["signature"]),
                          wrapped_session_key |-> trim(v["wrapped_session_key"]),
                          cipher |-> trim(IF b.response_cipher = Body THEN content
                                          ELSE v["cipher"])]
         /\ r.remote_signing_certificate_id = trim(v["remote_signing_certificate"])
         /\ r.context = IF b.bound THEN encode_response_context(v["request_id"]).context
                        ELSE Legacy
  BY <1>4, <1>5, <1>6
<1> QED BY <1>8, <1>9, Zenon DEF r, h

\* What parse_response returns for headers laid out by a schema without the echoed id that
\* takes the cipher text from the body.
LegacyReading(r, v, content) ==
    /\ r.err = "none" <=> /\ Sendable(v["signature"]) /\ Sendable(v["wrapped_session_key"])
                          /\ Sendable(v["remote_signing_certificate"])
                          /\ ~is_blank(content)
                          /\ validate_context_value(trim(v["remote_signing_certificate"]))
    /\ r.err = "none" =>
         /\ r.envelope = [signature |-> trim(v["signature"]),
                          wrapped_session_key |-> trim(v["wrapped_session_key"]),
                          cipher |-> trim(content)]
         /\ r.remote_signing_certificate_id = trim(v["remote_signing_certificate"])
         /\ r.context = Legacy

LEMMA ParseLegacy ==
    ASSUME NEW b, IsBuilder(b), Apart(b), b.bound = FALSE, b.response_cipher = Body, NEW v, NEW content
    PROVE  LegacyReading(parse_response(b, laid_out(b, v), content), v, content)
<1> DEFINE r == parse_response(b, laid_out(b, v), content)
<1>1. /\ r.err = "none" <=>
           /\ Sendable(v["signature"]) /\ Sendable(v["wrapped_session_key"])
           /\ Sendable(v["remote_signing_certificate"])
           /\ b.response_cipher # Body => Sendable(v["cipher"])
           /\ b.response_cipher = Body => ~is_blank(content)
           /\ b.bound => Sendable(v["request_id"]) /\ require_exact_trim(v["request_id"]) = "none"
           /\ validate_context_value(trim(v["remote_signing_certificate"]))
      /\ r.err = "none" =>
           /\ r.envelope = [signature |-> trim(v["signature"]),
                            wrapped_session_key |-> trim(v["wrapped_session_key"]),
                            cipher |-> trim(IF b.response_cipher = Body THEN content ELSE v["cipher"])]
           /\ r.remote_signing_certificate_id = trim(v["remote_signing_certificate"])
           /\ r.context = IF b.bound THEN encode_response_context(v["request_id"]).context ELSE Legacy
  BY ParseLaidOut
<1> HIDE DEF r
<1>2. LegacyReading(r, v, content)
  BY <1>1, Zenon DEF LegacyReading
<1> QED BY <1>2, Zenon DEF r

-----------------------------------------------------------------------------
(* Requests. *)

\* The elements of a concatenation of three.
LEMMA JoinedThree ==
    ASSUME NEW T, NEW s \in Seq(T), NEW t \in Seq(T), NEW w \in Seq(T)
    PROVE  LET u == s \o t \o w
           IN  /\ u \in Seq(T)
               /\ DOMAIN u = 1..Len(s) + Len(t) + Len(w)
               /\ \A i \in 1..Len(s) : u[i] = s[i]
               /\ \A i \in 1..Len(t) : u[Len(s) + i] = t[i]
               /\ \A i \in 1..Len(w) : u[Len(s) + Len(t) + i] = w[i]
<1> DEFINE p == s \o t
           u == p \o w
<1>1. p \in Seq(T) /\ Len(p) = Len(s) + Len(t)
  BY Joined
<1>2. \A i \in 1..Len(s) : p[i] = s[i]
  BY Joined
<1>3. \A i \in 1..Len(t) : p[Len(s) + i] = t[i]
  BY Joined
<1>n. Len(s) \in Nat /\ Len(t) \in Nat /\ Len(w) \in Nat
  BY LenProperties
<1> HIDE DEF p
<1>p. p \in Seq(T)
  BY <1>1
<1>4. u \in Seq(T) /\ DOMAIN u = 1..Len(p) + Len(w)
  BY <1>p, Joined
<1>5. \A i \in 1..Len(p) : u[i] = p[i]
  BY <1>p, Joined
<1>6. \A i \in 1..Len(w) : u[Len(p) + i] = w[i]
  BY <1>p, Joined
<1> HIDE DEF u
<1>7. \A i \in 1..Len(s) : u[i] = s[i]
  BY <1>1, <1>2, <1>5, <1>n
<1>8. ASSUME NEW i \in 1..Len(t) PROVE u[Len(s) + i] = t[i]
  <2>1. Len(s) + i \in 1..Len(p)
    BY <1>1, <1>n
  <2> QED BY <1>3, <1>5, <2>1
<1>9. \A i \in 1..Len(w) : u[Len(s) + Len(t) + i] = w[i]
  BY <1>1, <1>6, Zenon
<1> QED BY <1>1, <1>4, <1>7, <1>8, <1>9 DEF u, p

\* The headers of a request, and their names.
request_pairs(b, identity, context, envelope) ==
    b.static
    \o [i \in DOMAIN RequestFields |->
          <<b.request[RequestFields[i]], field_value(RequestFields[i], identity, context, envelope)>>]
    \o (IF b.request_cipher = Body THEN <<>> ELSE <<<<b.request_cipher.name, envelope.cipher>>>>)

names_of(b) == static_names(b) \o request_names(b) \o cipher_name(b.request_cipher)

request_header(b, f, identity, context, envelope) ==
    <<b.request[f], field_value(f, identity, context, envelope)>>

cipher_headers(b) == IF b.request_cipher = Body THEN 0 ELSE 1

LEMMA RequestLayout ==
    ASSUME NEW b, IsBuilder(b), b.request_cipher # NoLocation,
           NEW identity, NEW context, NEW envelope
    PROVE  LET pairs == request_pairs(b, identity, context, envelope)
               n == Len(b.static)
               extra == cipher_headers(b)
           IN  /\ \E T : pairs \in Seq(T)
               /\ n \in Nat /\ DOMAIN b.static = 1..n
               /\ DOMAIN pairs = 1..n + 10 + extra
               /\ \A i \in 1..n : pairs[i] = b.static[i]
               /\ \A i \in DOMAIN RequestFields :
                      pairs[n + i] = request_header(b, RequestFields[i], identity, context, envelope)
               /\ extra = 1 => pairs[n + 10 + 1] = <<b.request_cipher.name, envelope.cipher>>
               /\ DOMAIN names_of(b) = 1..n + 10 + extra
               /\ \A i \in 1..n : names_of(b)[i] = b.static[i][1]
               /\ \A i \in 1..10 : names_of(b)[n + i] = b.request[RequestFields[i]]
               /\ extra = 1 => names_of(b)[n + 10 + 1] = b.request_cipher.name
<1> DEFINE value(i) == field_value(RequestFields[i], identity, context, envelope)
           mapped == [i \in DOMAIN RequestFields |-> <<b.request[RequestFields[i]], value(i)>>]
           in_header == b.request_cipher # Body
           extra == IF in_header THEN 1 ELSE 0
           carried == IF in_header THEN <<<<b.request_cipher.name, envelope.cipher>>>> ELSE <<>>
           pairs == b.static \o mapped \o carried
           n == Len(b.static)
           statics == {b.static[i] : i \in DOMAIN b.static}
           T == statics \cup {mapped[i] : i \in 1..10} \cup {<<b.request_cipher.name, envelope.cipher>>}
<1>1. pairs = request_pairs(b, identity, context, envelope)
  BY Zenon DEF request_pairs
<1>2. /\ DOMAIN mapped = 1..10
      /\ \A i \in 1..10 : mapped[i] = <<b.request[RequestFields[i]], value(i)>>
  BY FieldLists
<1>3. n \in Nat /\ DOMAIN b.static = 1..n
  <2>1. b.static \in Seq(statics)
    BY DEF IsBuilder
  <2> HIDE DEF statics
  <2> QED BY <2>1, LenProperties
<1>4. mapped \in [1..10 -> T] /\ b.static \in [1..n -> T]
  <2>1. b.static = [i \in DOMAIN b.static |-> b.static[i]]
    <3>1. b.static \in Seq(statics)
      BY DEF IsBuilder
    <3> HIDE DEF statics
    <3> QED BY <3>1, LenProperties
  <2> QED BY <1>2, <1>3, <2>1, Zenon
<1>5. cipher_name(b.request_cipher) = IF in_header THEN <<b.request_cipher.name>> ELSE <<>>
  <2>1. CASE b.request_cipher = Body
    BY <2>1 DEF Body, cipher_name
  <2>2. CASE b.request_cipher = InHeader(b.request_cipher.name)
    <3>1. b.request_cipher.at = "Header"
      BY <2>2 DEF InHeader
    <3>2. b.request_cipher # Body
      BY <3>1 DEF Body
    <3> QED BY <3>1, <3>2 DEF cipher_name
  <2> QED BY <2>1, <2>2 DEF IsBuilder, IsLocation
<1>6. <<b.request_cipher.name, envelope.cipher>> \in T
  BY SMTT(30)
<1>7. carried \in [1..extra -> T] /\ (in_header => carried[1] = <<b.request_cipher.name, envelope.cipher>>)
  BY <1>6
<1>x. extra \in {0, 1} /\ (extra = 1 <=> in_header) /\ (b.request_cipher = Body <=> ~in_header)
  OBVIOUS
<1> HIDE DEF mapped, carried, T, statics, value, extra, in_header, n
<1>8. ASSUME NEW U, NEW m \in Nat, NEW s \in [1..m -> U] PROVE s \in Seq(U) /\ Len(s) = m
  BY ListOf
<1>9. /\ mapped \in Seq(T) /\ b.static \in Seq(T) /\ carried \in Seq(T)
  BY <1>3, <1>4, <1>7, <1>8, <1>x, Zenon
<1>10. Len(mapped) = 10 /\ Len(b.static) = n /\ Len(carried) = extra
  BY <1>3, <1>4, <1>7, <1>8, <1>x
<1>11. pairs \in Seq(T) /\ DOMAIN pairs = 1..Len(b.static) + Len(mapped) + Len(carried)
  BY <1>9, JoinedThree
<1>12. \A i \in 1..Len(b.static) : pairs[i] = b.static[i]
  BY <1>9, JoinedThree
<1>13. \A i \in 1..Len(mapped) : pairs[Len(b.static) + i] = mapped[i]
  BY <1>9, JoinedThree
<1>14. \A i \in 1..Len(carried) : pairs[Len(b.static) + Len(mapped) + i] = carried[i]
  BY <1>9, JoinedThree
<1> HIDE DEF pairs
<1>15. /\ DOMAIN pairs = 1..n + 10 + extra
       /\ \A i \in 1..n : pairs[i] = b.static[i]
       /\ \A i \in 1..10 : pairs[n + i] = mapped[i]
       /\ extra = 1 => pairs[n + 10 + 1] = carried[1]
  BY <1>10, <1>11, <1>12, <1>13, <1>14, <1>x
<1>16. /\ \A i \in 1..10 : pairs[n + i] = <<b.request[RequestFields[i]], value(i)>>
       /\ extra = 1 => pairs[n + 10 + 1] = <<b.request_cipher.name, envelope.cipher>>
  BY <1>2, <1>7, <1>15, <1>x, Zenon
<1> DEFINE N == {b.static[i][1] : i \in 1..n} \cup {b.request[RequestFields[i]] : i \in 1..10}
                  \cup {b.request_cipher.name}
           last == IF in_header THEN <<b.request_cipher.name>> ELSE <<>>
<1>17. /\ static_names(b) \in [1..n -> N] /\ (\A i \in 1..n : static_names(b)[i] = b.static[i][1])
       /\ request_names(b) \in [1..10 -> N]
       /\ (\A i \in 1..10 : request_names(b)[i] = b.request[RequestFields[i]])
       /\ last \in [1..extra -> N] /\ (in_header => last[1] = b.request_cipher.name)
  BY <1>3, <1>x, FieldLists DEF static_names, request_names
<1>18. names_of(b) = static_names(b) \o request_names(b) \o last
  BY <1>5 DEF names_of
<1> HIDE DEF N, last
<1>19. static_names(b) \in Seq(N) /\ request_names(b) \in Seq(N) /\ last \in Seq(N)
  BY <1>3, <1>17, <1>8, <1>x, Zenon
<1>20. Len(static_names(b)) = n /\ Len(request_names(b)) = 10 /\ Len(last) = extra
  BY <1>3, <1>17, <1>8, <1>x
<1> DEFINE names == static_names(b) \o request_names(b) \o last
<1>21. DOMAIN names = 1..Len(static_names(b)) + Len(request_names(b)) + Len(last)
  BY <1>19, JoinedThree
<1>22. \A i \in 1..Len(static_names(b)) : names[i] = static_names(b)[i]
  BY <1>19, JoinedThree
<1>23. \A i \in 1..Len(request_names(b)) : names[Len(static_names(b)) + i] = request_names(b)[i]
  BY <1>19, JoinedThree
<1>24. \A i \in 1..Len(last) : names[Len(static_names(b)) + Len(request_names(b)) + i] = last[i]
  BY <1>19, JoinedThree
<1> HIDE DEF names
<1>25. /\ DOMAIN names = 1..n + 10 + extra
       /\ \A i \in 1..n : names[i] = b.static[i][1]
       /\ \A i \in 1..10 : names[n + i] = b.request[RequestFields[i]]
       /\ extra = 1 => names[n + 10 + 1] = b.request_cipher.name
  <2>1. /\ DOMAIN names = 1..n + 10 + extra
        /\ \A i \in 1..n : names[i] = static_names(b)[i]
        /\ \A i \in 1..10 : names[n + i] = request_names(b)[i]
        /\ extra = 1 => names[n + 10 + 1] = last[1]
    BY <1>20, <1>21, <1>22, <1>23, <1>24, <1>x
  <2> QED BY <1>17, <1>x, <2>1, Zenon
<1>26. names_of(b) = names
  BY <1>18 DEF names
<1>27. extra = cipher_headers(b)
  BY <1>x DEF cipher_headers
<1>29. \A i \in DOMAIN RequestFields :
         pairs[n + i] = request_header(b, RequestFields[i], identity, context, envelope)
  BY <1>16, FieldLists DEF request_header, value
<1>28. \E U : pairs \in Seq(U)
  BY <1>11, Zenon
<1> QED BY <1>1, <1>3, <1>15, <1>16, <1>25, <1>26, <1>27, <1>28, <1>29, Zenon DEF n

\* The fields build_request writes.
LEMMA RequestFieldSet ==
    ASSUME NEW b, IsBuilder(b)
    PROVE  DOMAIN b.request = {RequestFields[i] : i \in 1..10}
BY FieldLists, Zenon DEF IsBuilder, EmptyBuilder

\* The headers of a request can be collected when its names are apart and its names and
\* values are valid.
LEMMA RequestCollects ==
    ASSUME NEW b, IsBuilder(b), b.request_cipher # NoLocation,
           NEW identity, NEW context, NEW envelope
    PROVE  LET pairs == request_pairs(b, identity, context, envelope)
           IN  /\ Collectable(pairs) => distinct_mappings(names_of(b))
               /\ Collectable(pairs) => \A f \in DOMAIN b.request :
                                           HeaderValue_new(field_value(f, identity, context, envelope))
               /\ (/\ distinct_mappings(names_of(b))
                   /\ \A i \in DOMAIN b.static : static_header(b.static[i]) = "none"
                   /\ \A f \in DOMAIN b.request :
                        /\ HeaderName_new(b.request[f])
                        /\ HeaderValue_new(field_value(f, identity, context, envelope))
                   /\ b.request_cipher # Body => HeaderValue_new(envelope.cipher))
                  => Collectable(pairs)
<1> DEFINE pairs == request_pairs(b, identity, context, envelope)
           n == Len(b.static)
           extra == cipher_headers(b)
           names == names_of(b)
           value(f) == field_value(f, identity, context, envelope)
<1>1. /\ n \in Nat /\ DOMAIN b.static = 1..n
      /\ DOMAIN pairs = 1..n + 10 + extra
      /\ \A i \in 1..n : pairs[i] = b.static[i]
      /\ \A i \in 1..10 : pairs[n + i] = <<b.request[RequestFields[i]], value(RequestFields[i])>>
      /\ extra = 1 => pairs[n + 10 + 1] = <<b.request_cipher.name, envelope.cipher>>
  <2>1. n \in Nat /\ DOMAIN b.static = 1..n
    BY RequestLayout
  <2>2. DOMAIN pairs = 1..n + 10 + extra
    BY RequestLayout
  <2>3. \A i \in 1..n : pairs[i] = b.static[i]
    BY RequestLayout
  <2>4. \A i \in DOMAIN RequestFields :
           pairs[n + i] = request_header(b, RequestFields[i], identity, context, envelope)
    BY RequestLayout
  <2>6. \A i \in 1..10 : request_header(b, RequestFields[i], identity, context, envelope) =
                             <<b.request[RequestFields[i]], value(RequestFields[i])>>
    BY Zenon DEF request_header
  <2>5. extra = 1 => pairs[n + 10 + 1] = <<b.request_cipher.name, envelope.cipher>>
    BY RequestLayout
  <2> HIDE DEF pairs, n, extra, names, value
  <2> QED BY <2>1, <2>2, <2>3, <2>4, <2>5, <2>6, FieldLists, Zenon
<1>2. /\ DOMAIN names = 1..n + 10 + extra
      /\ \A i \in 1..n : names[i] = b.static[i][1]
      /\ \A i \in 1..10 : names[n + i] = b.request[RequestFields[i]]
      /\ extra = 1 => names[n + 10 + 1] = b.request_cipher.name
  BY RequestLayout
<1>x. extra \in {0, 1} /\ (extra = 1 <=> b.request_cipher # Body)
  BY DEF cipher_headers
<1>f. DOMAIN b.request = {RequestFields[i] : i \in 1..10}
  BY RequestFieldSet
<1> HIDE DEF pairs, n, extra, names, value
<1>3. ASSUME NEW i \in DOMAIN pairs
      PROVE  \/ i \in 1..n
             \/ \E k \in 1..10 : i = n + k
             \/ extra = 1 /\ i = n + 10 + 1
  <2>1. i \in 1..n + 10 + extra /\ n \in Nat
    BY <1>1
  <2>2. i \in 1..n \/ i - n \in 1..10 \/ (extra = 1 /\ i = n + 10 + 1)
    <3>1. CASE extra = 0
      BY <2>1, <3>1
    <3>2. CASE extra = 1
      BY <2>1, <3>2
    <3> QED BY <1>x, <3>1, <3>2
  <2>3. i = n + (i - n)
    BY <2>1
  <2> QED BY <2>2, <2>3, Zenon
<1>4. \A i \in DOMAIN pairs : pairs[i][1] = names[i]
  <2> SUFFICES ASSUME NEW i \in DOMAIN pairs PROVE pairs[i][1] = names[i]
    BY Zenon
  <2>1. CASE i \in 1..n
    BY <1>1, <1>2, <2>1, Zenon
  <2>2. ASSUME NEW k \in 1..10, i = n + k PROVE pairs[i][1] = names[i]
    <3>1. names[i] = b.request[RequestFields[k]]
      BY <1>2, <2>2, Zenon
    <3>2. pairs[i] = <<b.request[RequestFields[k]], value(RequestFields[k])>>
      BY <1>1, <2>2, Zenon
    <3> QED BY <3>1, <3>2
  <2>3. CASE extra = 1 /\ i = n + 10 + 1
    BY <1>1, <1>2, <2>3
  <2> QED BY <1>3, <2>1, <2>2, <2>3, Zenon
<1>5. distinct_mappings(names) <=>
        \A i, j \in DOMAIN pairs : eq_ignore_ascii_case(pairs[i][1], pairs[j][1]) => i = j
  <2>1. DOMAIN names = DOMAIN pairs
    BY <1>1, <1>2
  <2> QED BY <1>4, <2>1 DEF distinct_mappings
<1>6. Collectable(pairs) => distinct_mappings(names)
  <2>1. Collectable(pairs) => \A i, j \in DOMAIN pairs :
                                eq_ignore_ascii_case(pairs[i][1], pairs[j][1]) => i = j
    BY Zenon DEF Collectable
  <2> QED BY <1>5, <2>1, Zenon
<1>7. ASSUME Collectable(pairs), NEW f \in DOMAIN b.request PROVE HeaderValue_new(value(f))
  <2>1. PICK i \in 1..10 : f = RequestFields[i]
    BY <1>f, Zenon
  <2>2. n + i \in DOMAIN pairs
    BY SMTT(30), <1>1, <1>x
  <2>3. pairs[n + i] = <<b.request[f], value(f)>>
    BY <1>1, <2>1, Zenon
  <2>4. pairs[n + i][2] = value(f)
    BY <2>3
  <2> QED BY <1>7, <2>2, <2>4 DEF Collectable
<1>8. ASSUME distinct_mappings(names),
             \A i \in DOMAIN b.static : static_header(b.static[i]) = "none",
             \A f \in DOMAIN b.request : HeaderName_new(b.request[f]) /\ HeaderValue_new(value(f)),
             b.request_cipher # Body => HeaderValue_new(envelope.cipher)
      PROVE  Collectable(pairs)
  <2>1. ASSUME NEW i \in DOMAIN pairs
        PROVE  HeaderName_new(pairs[i][1]) /\ HeaderValue_new(pairs[i][2])
    <3>1. CASE i \in 1..n
      BY <1>1, <1>8, <3>1, Zenon DEF static_header
    <3>2. ASSUME NEW k \in 1..10, i = n + k
          PROVE  HeaderName_new(pairs[i][1]) /\ HeaderValue_new(pairs[i][2])
      <4>1. RequestFields[k] \in DOMAIN b.request
        BY <1>f, <3>2
      <4>2. pairs[i] = <<b.request[RequestFields[k]], value(RequestFields[k])>>
        BY <1>1, <3>2, Zenon
      <4> QED BY <1>8, <4>1, <4>2
    <3>3. CASE extra = 1 /\ i = n + 10 + 1
      <4>1. HeaderName_new(b.request_cipher.name)
        BY <1>x, <3>3, Zenon DEF IsBuilder, IsLocation
      <4>2. pairs[i] = <<b.request_cipher.name, envelope.cipher>>
        BY <1>1, <3>3, Zenon
      <4> QED BY <1>8, <1>x, <3>3, <4>1, <4>2
    <3> QED BY <1>3, <3>1, <3>2, <3>3
  <2>2. \A i, j \in DOMAIN pairs : eq_ignore_ascii_case(pairs[i][1], pairs[j][1]) => i = j
    BY <1>5, <1>8, Zenon
  <2> QED BY <2>1, <2>2 DEF Collectable
<1> QED BY <1>6, <1>7, <1>8, Zenon DEF pairs, names, value

\* build_request succeeds when the envelope's fields are not blank and the headers can be
\* collected.
LEMMA BuildRequest ==
    ASSUME NEW b, IsBuilder(b), b.request_cipher # NoLocation,
           NEW identity, NEW context, NEW envelope
    PROVE  LET pairs == request_pairs(b, identity, context, envelope)
               r == build_request(b, identity, context, envelope)
           IN  /\ r.err = "none" <=>
                    /\ ~is_blank(envelope.signature) /\ ~is_blank(envelope.wrapped_session_key)
                    /\ ~is_blank(envelope.cipher) /\ Collectable(pairs)
               /\ r.err = "none" => r.headers = pairs
               /\ r.body = IF b.request_cipher = Body THEN envelope.cipher ELSE EmptyText
<1> DEFINE pairs == request_pairs(b, identity, context, envelope)
           parts == RequestParts_new(pairs)
           r == build_request(b, identity, context, envelope)
           blank == \/ is_blank(envelope.signature) \/ is_blank(envelope.wrapped_session_key)
                    \/ is_blank(envelope.cipher)
<1>1. PICK T : pairs \in Seq(T)
  BY RequestLayout, Zenon
<1>2. r = [err |-> IF blank \/ parts.err # "none" THEN "InvalidField" ELSE "none",
           headers |-> parts.entries,
           body |-> IF b.request_cipher = Body THEN envelope.cipher ELSE EmptyText]
  BY DEF build_request, request_pairs
<1> HIDE DEF pairs, r, blank
<1>3. (parts.err = "none" <=> Collectable(pairs)) /\ (parts.err = "none" => parts.entries = pairs)
  BY <1>1, RequestPartsNew
<1> HIDE DEF parts
<1>4. /\ r.err = "none" <=> ~blank /\ Collectable(pairs)
      /\ r.err = "none" => r.headers = pairs
      /\ r.body = IF b.request_cipher = Body THEN envelope.cipher ELSE EmptyText
  BY <1>2, <1>3
<1> QED BY <1>4, Zenon DEF blank, pairs, r

-----------------------------------------------------------------------------
(* Texts. *)

IsText(t) == t = [core |-> t.core, pad |-> t.pad, control |-> t.control]

LEMMA WithPad ==
    ASSUME NEW t, IsText(t), NEW x
    PROVE  [t EXCEPT !.pad = x] = [core |-> t.core, pad |-> x, control |-> t.control]
BY DEF IsText

LEMMA Trimmed ==
    ASSUME NEW t, IsText(t)
    PROVE  trim(t) = [core |-> t.core, pad |-> FALSE, control |-> t.control]
BY WithPad, Zenon DEF trim

LEMMA TextIsText ==
    ASSUME NEW token PROVE IsText(Text(token))
BY Zenon DEF IsText, Text

\* parse_response of a schema without the echoed id accepts exactly the responses in which
\* every mapped header comes once, in any casing, place and company, with a value a header
\* can carry, and whose body, where it is the cipher text, is not blank.
LEMMA AcceptedExactly ==
    ASSUME NEW b, IsBuilder(b), Apart(b), ~b.bound, NEW n \in Nat, NEW h, DOMAIN h = 1..n,
           \A i \in 1..n : IsText(h[i][2]), NEW content
    PROVE  parse_response(b, h, content).err = "none" <=>
              /\ \A f \in Fields(b) : \E i \in DOMAIN h :
                    /\ {j \in DOMAIN h : h[j][1].canonical = slot_name(b, f).canonical} = {i}
                    /\ Sendable(h[i][2])
              /\ b.response_cipher = Body => ~is_blank(content)
<1> DEFINE places == occurrences(b, h)
           at(f) == {j \in DOMAIN h : h[j][1].canonical = slot_name(b, f).canonical}
           required(f) == required_response_header(h, places[f])
           once(f) == \E i \in DOMAIN h : at(f) = {i} /\ Sendable(h[i][2])
<1>1. DOMAIN places = CarriedFields
  BY Zenon DEF occurrences
<1>2. \A f \in CarriedFields :
        places[f] = {i \in DOMAIN h : f \in Fields(b) /\ slot_name(b, f).canonical = h[i][1].canonical}
  BY Places
<1>3. /\ Fields(b) \subseteq CarriedFields
      /\ {"signature", "wrapped_session_key", "remote_signing_certificate"} \subseteq Fields(b)
      /\ \A f \in Fields(b) : \/ f \in {"signature", "wrapped_session_key", "remote_signing_certificate"}
                              \/ f = "cipher" /\ b.response_cipher # Body
      /\ b.response_cipher # Body => "cipher" \in Fields(b)
  BY Zenon DEF Fields, CarriedFields
<1> HIDE DEF places
<1>4. \A f \in CarriedFields : places[f] = IF f \in Fields(b) THEN at(f) ELSE {}
  <2>1. ASSUME NEW f \in CarriedFields, f \in Fields(b) PROVE places[f] = at(f)
    BY <1>2, <2>1, Zenon
  <2>2. ASSUME NEW f \in CarriedFields, f \notin Fields(b) PROVE places[f] = {}
    BY <1>2, <2>2, Zenon
  <2> QED BY <2>1, <2>2, Zenon
<1>5. \A f \in CarriedFields : IsFiniteSet(places[f]) /\ places[f] \subseteq 1..n
  <2> SUFFICES ASSUME NEW f \in CarriedFields PROVE IsFiniteSet(places[f]) /\ places[f] \subseteq 1..n
    OBVIOUS
  <2>1. places[f] \subseteq 1..n
    BY <1>4, Zenon
  <2>2. IsFiniteSet(1..n)
    BY FS_Interval
  <2> QED BY <2>1, <2>2, FS_Subset, Zenon
<1>6. duplicated(places) <=> \E f \in CarriedFields : \E i, j \in places[f] : i # j
  BY <1>1, <1>5, Several, Zenon DEF duplicated
<1>7. ASSUME NEW f \in CarriedFields, NEW i \in 1..n, places[f] = {i}
      PROVE  /\ required(f) = "none" <=> Sendable(h[i][2])
             /\ response_value(h, places[f]) = h[i][2]
  <2>1. Max(places[f]) = i /\ places[f] # {}
    <3>1. i \in Nat
      OBVIOUS
    <3> QED BY <1>7, <3>1, MaxOfOne, Zenon
  <2> QED BY <2>1, Zenon DEF required_response_header, response_value, Sendable
<1> HIDE DEF at
<1>8. ASSUME ~duplicated(places), NEW f \in Fields(b), required(f) = "none" PROVE once(f)
  <2>1. f \in CarriedFields /\ places[f] = at(f)
    BY <1>3, <1>4, Zenon
  <2>2. places[f] # {}
    BY <1>8, Zenon DEF required_response_header
  <2>3. PICK i \in places[f] : TRUE
    BY <2>2, Zenon
  <2>4. i \in 1..n
    BY <1>5, <2>1, Zenon
  <2>5. places[f] = {i}
    BY <1>6, <1>8, <2>1, <2>3, Zenon
  <2> QED BY <1>7, <1>8, <2>1, <2>4, <2>5, Zenon
<1>9. ASSUME \A f \in Fields(b) : once(f)
      PROVE  /\ ~duplicated(places)
             /\ \A f \in Fields(b) : required(f) = "none"
             /\ validate_context_value(trim(response_value(h, places["remote_signing_certificate"])))
  <2>1. \A f \in Fields(b) : \E i \in 1..n : places[f] = {i} /\ Sendable(h[i][2])
    BY <1>3, <1>4, <1>9, Zenon
  <2>2. ~duplicated(places)
    BY <1>4, <1>6, <2>1, Zenon
  <2>3. \A f \in Fields(b) : required(f) = "none"
    BY <1>3, <1>7, <2>1, Zenon
  <2>4. PICK i \in 1..n : places["remote_signing_certificate"] = {i} /\ Sendable(h[i][2])
    BY <1>3, <2>1, Zenon
  <2>5. response_value(h, places["remote_signing_certificate"]) = h[i][2]
    BY <1>3, <1>7, <2>4, Zenon
  <2>6. trim(h[i][2]).core = h[i][2].core /\ trim(h[i][2]).control = h[i][2].control
    <3>1. trim(h[i][2]) = [core |-> h[i][2].core, pad |-> FALSE, control |-> h[i][2].control]
      BY Trimmed, Zenon
    <3> QED BY <3>1
  <2>7. validate_context_value(trim(h[i][2]))
    BY <2>4, <2>6 DEF validate_context_value, Sendable, HeaderValue_new, is_blank
  <2> QED BY <2>2, <2>3, <2>5, <2>7, Zenon
<1>10. parse_response(b, h, content).err = "none" <=>
         /\ ~duplicated(places)
         /\ required("signature") = "none" /\ required("wrapped_session_key") = "none"
         /\ required("remote_signing_certificate") = "none"
         /\ b.response_cipher # Body => required("cipher") = "none"
         /\ b.response_cipher = Body => ~is_blank(content)
         /\ validate_context_value(trim(response_value(h, places["remote_signing_certificate"])))
  BY AcceptedResponse, Zenon DEF places
<1> HIDE DEF required, once
<1>11. parse_response(b, h, content).err = "none" <=>
         (\A f \in Fields(b) : once(f)) /\ (b.response_cipher = Body => ~is_blank(content))
  BY <1>3, <1>8, <1>9, <1>10, Zenon
<1> QED BY <1>11, Zenon DEF once, at

-----------------------------------------------------------------------------
(* Lengths. *)

\* Rounding up to blocks or to Base64 groups keeps the order of lengths.
LEMMA Monotone ==
    ASSUME NEW m \in Nat, NEW n \in Nat, m <= n
    PROVE  cbc_cipher_len(m) <= cbc_cipher_len(n) /\ encoded_len(m) <= encoded_len(n)
<1>1. m \div 16 <= n \div 16 /\ (m + 2) \div 3 <= (n + 2) \div 3
  OBVIOUS
<1> QED
  BY <1>1 DEF cbc_cipher_len, encoded_len, SM4_BLOCK_BYTES

\* A text that fits an allocation is no shorter than its bytes, and both stay below the
\* values at which the receiver's bounds saturate.
LEMMA EncodedFits ==
    ASSUME NEW n \in Nat, Fits(n)
    PROVE  n <= encoded_len(n) /\ encoded_len(n) <= UsizeMax
BY UsizeMaxAssumption DEF U16_MAX, Fits, encoded_len, IsizeMax

\* The Base64 bound admits the text of anything the byte bound admits.
LEMMA Base64Bound ==
    ASSUME NEW n \in Nat, NEW max \in Nat, n <= max, max <= UsizeMax, Fits(n)
    PROVE  encoded_len(n) <= base64_len(max)
<1>1. encoded_len(n) <= encoded_len(max) /\ encoded_len(n) <= UsizeMax
  BY Monotone, EncodedFits
<1> QED
  BY <1>1, UsizeMaxAssumption DEF U16_MAX, base64_len, encoded_len

\* A CBC ciphertext of a plaintext within the limit passes both size checks.
LEMMA CbcAdmits ==
    ASSUME NEW l \in 1..UsizeMax, NEW n \in Nat, n <= l, Fits(cbc_cipher_len(n))
    PROVE  CbcGate(l, encoded_len(cbc_cipher_len(n)), cbc_cipher_len(n)) = "decoded"
<1> DEFINE bytes == cbc_cipher_len(n)
           max == padded_cipher_len(l)
<1>1. l \in Nat /\ l <= UsizeMax /\ UsizeMax \in Nat
  BY UsizeMaxAssumption DEF U16_MAX
<1>2. bytes \in Nat /\ cbc_cipher_len(l) \in Nat
  BY <1>1 DEF cbc_cipher_len, SM4_BLOCK_BYTES
<1>3. bytes <= cbc_cipher_len(l) /\ bytes <= UsizeMax
  BY <1>1, <1>2, Monotone, EncodedFits DEF encoded_len
<1>4. max \in Nat /\ max <= UsizeMax /\ bytes <= max
  BY <1>1, <1>2, <1>3 DEF padded_cipher_len, cbc_cipher_len
<1>5. encoded_len(bytes) <= base64_len(max)
  BY <1>2, <1>4, Base64Bound
<1>6. encoded_len(bytes) \in Nat /\ base64_len(max) \in Nat
  BY <1>1, <1>2, <1>4 DEF encoded_len, base64_len
<1> HIDE DEF bytes, max
<1> QED
  BY <1>2, <1>4, <1>5, <1>6 DEF CbcGate, bytes, max

\* So does an AEAD frame.
LEMMA FrameAdmits ==
    ASSUME NEW l \in 1..UsizeMax, NEW n \in Nat, n <= l, Fits(frame_len(n))
    PROVE  FrameGate(l, encoded_len(frame_len(n)), frame_len(n)) = "decoded"
<1> DEFINE bytes == frame_len(n)
           max == max_frame_bytes(l)
<1>1. l \in Nat /\ l <= UsizeMax /\ UsizeMax \in Nat
  BY UsizeMaxAssumption DEF U16_MAX
<1>2. bytes \in Nat /\ bytes = n + FRAME_OVERHEAD_BYTES
  BY <1>1 DEF frame_len, FRAME_OVERHEAD_BYTES
<1>3. bytes <= UsizeMax
  BY <1>1, <1>2, EncodedFits DEF encoded_len
<1>4. max \in Nat /\ max <= UsizeMax /\ bytes <= max
  BY <1>1, <1>2, <1>3 DEF max_frame_bytes, FRAME_OVERHEAD_BYTES
<1>5. encoded_len(bytes) <= base64_len(max)
  BY <1>2, <1>4, Base64Bound
<1>6. encoded_len(bytes) \in Nat /\ base64_len(max) \in Nat
  BY <1>1, <1>2, <1>4 DEF encoded_len, base64_len
<1>7. ~(encoded_len(bytes) > base64_len(max))
  BY <1>5, <1>6
<1>8. ~(bytes < FRAME_OVERHEAD_BYTES) /\ ~(bytes - FRAME_OVERHEAD_BYTES > l)
  BY <1>1, <1>2 DEF FRAME_OVERHEAD_BYTES
<1> QED
  BY <1>7, <1>8 DEF FrameGate

-----------------------------------------------------------------------------

\* What passes the CBC checks is at most one block longer than the limit, and what the
\* first one calls too large is longer than the padded limit.
LEMMA CbcBounds ==
    ASSUME NEW l \in 1..UsizeMax, NEW n \in Nat, Fits(n)
    PROVE  LET gate == CbcGate(l, encoded_len(n), n)
           IN  /\ gate = "decoded" => n <= l + SM4_BLOCK_BYTES
               /\ gate = "MessageTooLarge" => n > cbc_cipher_len(l)
<1> DEFINE max == padded_cipher_len(l)
<1>1. l \in Nat /\ l <= UsizeMax /\ UsizeMax \in Nat
  BY UsizeMaxAssumption DEF U16_MAX
<1>2. /\ max \in Nat /\ max <= UsizeMax /\ max >= l /\ max <= l + SM4_BLOCK_BYTES
      /\ max = UsizeMax \/ max = cbc_cipher_len(l)
  BY <1>1 DEF padded_cipher_len, cbc_cipher_len, SM4_BLOCK_BYTES
<1>3. n <= max => encoded_len(n) <= base64_len(max)
  BY <1>2, Base64Bound
<1>4. encoded_len(n) \in Nat /\ base64_len(max) \in Nat
  BY <1>1, <1>2 DEF encoded_len, base64_len
<1> HIDE DEF max
<1>5. CbcGate(l, encoded_len(n), n) =
        IF encoded_len(n) > base64_len(max) THEN "MessageTooLarge"
        ELSE IF n > max THEN "InvalidEnvelope" ELSE "decoded"
  BY DEF CbcGate, max
<1>6. n <= UsizeMax
  BY <1>1 DEF Fits, encoded_len, IsizeMax
<1> QED
  BY <1>1, <1>2, <1>3, <1>4, <1>5, <1>6 DEF SM4_BLOCK_BYTES

\* What passes the frame checks carries at most the limit, and what the first one calls
\* too large is longer than a frame of that many bytes.
LEMMA FrameBounds ==
    ASSUME NEW l \in 1..UsizeMax, NEW n \in Nat, Fits(n)
    PROVE  LET gate == FrameGate(l, encoded_len(n), n)
           IN  /\ gate = "decoded" => n <= l + FRAME_OVERHEAD_BYTES
               /\ gate = "MessageTooLarge" => n > frame_len(l)
<1> DEFINE max == max_frame_bytes(l)
<1>1. l \in Nat /\ l <= UsizeMax /\ UsizeMax \in Nat
  BY UsizeMaxAssumption DEF U16_MAX
<1>2. /\ max \in Nat /\ max <= UsizeMax
      /\ max = UsizeMax \/ max = frame_len(l)
  BY <1>1 DEF max_frame_bytes, frame_len, FRAME_OVERHEAD_BYTES
<1>3. n <= max => encoded_len(n) <= base64_len(max)
  BY <1>2, Base64Bound
<1>4. encoded_len(n) \in Nat /\ base64_len(max) \in Nat
  BY <1>1, <1>2 DEF encoded_len, base64_len
<1>5. n <= UsizeMax
  BY <1>1 DEF Fits, encoded_len, IsizeMax
<1> HIDE DEF max
<1> QED
  BY <1>1, <1>2, <1>3, <1>4, <1>5 DEF FrameGate, FRAME_OVERHEAD_BYTES, max

-----------------------------------------------------------------------------
(* What a call of open that returns Ok has established. *)

Established(c, envelope, context, plaintext) ==
    LET input == authentication_input(Config[c].authentication_mode, context, plaintext)
    IN  /\ input # None
        /\ verify_with_id(c, input, envelope.signature.bytes)
        /\ plaintext.form \in {"payload", "scrambled"}

\* Whatever CBC decryption yields is a padding failure, the payload, or other bytes.
LEMMA CbcDecryptForms ==
    ASSUME NEW key, NEW iv, NEW b, NEW d \in cbc_decrypt(key, iv, b)
    PROVE  d = None \/ d.form \in {"payload", "scrambled"}
BY DEF cbc_decrypt, None, PayloadBytes, Scrambled

\* cbc::open reports Ok only past all four checks, and never another error than the two.
LEMMA CbcOpen ==
    ASSUME NEW c, NEW envelope, NEW context, NEW o \in cbc_open(c, envelope, context)
    PROVE  /\ o.result \in {"Ok", "MessageTooLarge", "InvalidEnvelope"}
           /\ o.result = "Ok" => Established(c, envelope, context, o.plaintext)
<1> DEFINE cipher == envelope.cipher.bytes
           wrapped == envelope.wrapped_session_key.bytes
           checks(d) == cbc_checks(c, cipher, d, context, envelope.signature.bytes)
<1>1. CASE \E r \in {"MessageTooLarge", "InvalidEnvelope"} : o = failed(r, 0, FALSE)
  BY <1>1 DEF failed
<1>2. CASE \E d \in cbc_decrypt(wrapped.key, Config[c].iv, cipher) : o = cbc_finish(checks(d))
  <2>1. PICK d \in cbc_decrypt(wrapped.key, Config[c].iv, cipher) : o = cbc_finish(checks(d))
    BY <1>2
  <2>2. CASE cbc_accepts(checks(d))
    <3>1. o.result = "Ok" /\ o.plaintext = checks(d).plaintext
      BY <2>1, <2>2 DEF cbc_finish, released
    <3>2. /\ d # None
          /\ checks(d).plaintext = d
          /\ authentication_input(Config[c].authentication_mode, context, d) # None
          /\ verify_with_id(c, authentication_input(Config[c].authentication_mode, context, d),
                            envelope.signature.bytes)
      BY <2>2, Zenon DEF cbc_accepts, cbc_checks
    <3>3. d.form \in {"payload", "scrambled"}
      BY <2>1, <3>2, CbcDecryptForms
    <3> QED
      BY <3>1, <3>2, <3>3 DEF Established
  <2>3. CASE ~cbc_accepts(checks(d))
    BY <2>1, <2>3 DEF cbc_finish, failed
  <2> QED
    BY <2>2, <2>3
<1> QED
  BY <1>1, <1>2, Zenon DEF cbc_open

\* aead::open reports Ok only for a frame whose tag and signature both verify.
LEMMA AeadOpen ==
    ASSUME NEW c, NEW envelope, NEW context, NEW o \in aead_open(c, envelope, context)
    PROVE  /\ o.result \in {"Ok", "MessageTooLarge", "InvalidEnvelope"}
           /\ o.result = "Ok" => Established(c, envelope, context, o.plaintext)
<1> DEFINE frame == envelope.cipher.bytes
           key == envelope.wrapped_session_key.bytes.key
           finish == aead_finish(c, frame, key, context, envelope.signature.bytes)
<1>1. CASE \E r \in {"MessageTooLarge", "InvalidEnvelope"} : o = failed(r, 0, FALSE)
  BY <1>1 DEF failed
<1>2. CASE o = finish
  <2> DEFINE mode == Config[c].authentication_mode
             aad == IF frame.form = "frame" THEN aead_aad(mode, context, frame.header) ELSE None
             plaintext == aead_decrypt(configured_algorithm(c, frame), key, aad, frame)
             input == authentication_input(mode, context, plaintext)
  <2>1. CASE ~kinds_match(mode, context) \/ plaintext = None
    BY <1>2, <2>1 DEF aead_finish, failed
  <2>2. CASE /\ kinds_match(mode, context) /\ plaintext # None
             /\ ~verify_with_id(c, input, envelope.signature.bytes)
    BY <1>2, <2>2 DEF aead_finish, failed
  <2>3. CASE /\ kinds_match(mode, context) /\ plaintext # None
             /\ verify_with_id(c, input, envelope.signature.bytes)
    <3>1. o.result = "Ok" /\ o.plaintext = plaintext
      BY <1>2, <2>3 DEF aead_finish, released
    <3>2. plaintext.form = "payload"
      BY <2>3 DEF aead_decrypt, PayloadBytes
    <3>3. input # None
      BY <2>3, <3>2 DEF authentication_input, None
    <3> QED
      BY <2>3, <3>1, <3>2, <3>3 DEF Established
  <2> QED
    BY <2>1, <2>2, <2>3
<1> QED
  BY <1>1, <1>2, Zenon DEF aead_open

\* The same for the dispatching open.
LEMMA OpenEstablishes ==
    ASSUME NEW c, NEW envelope, NEW context, NEW o \in open(c, envelope, context)
    PROVE  /\ o.result \in {"Ok", "MessageTooLarge", "InvalidEnvelope"}
           /\ o.result = "Ok" => Established(c, envelope, context, o.plaintext)
BY CbcOpen, AeadOpen DEF open

\* The longest cipher text open looks at.
TextLimit(c) ==
    LET limit == Config[c].max_plaintext_bytes
    IN  IF is_aead(c) THEN base64_len(max_frame_bytes(limit)) ELSE base64_len(padded_cipher_len(limit))

\* An Err of open carries no bytes, MessageTooLarge is about the length of the cipher text
\* alone, and Ok takes an unwrapped session key.
Verdict(c, envelope, o) ==
    /\ o.result = "Ok" \/ o.plaintext = None
    /\ o.result = "Ok" => unwraps(c, envelope.wrapped_session_key.bytes)
    /\ o.result = "MessageTooLarge" <=> envelope.cipher.len > TextLimit(c)

LEMMA OpenVerdict ==
    ASSUME NEW c, NEW envelope, NEW context, NEW o \in open(c, envelope, context)
    PROVE  Verdict(c, envelope, o)
<1> DEFINE limit == Config[c].max_plaintext_bytes
           cipher == envelope.cipher.bytes
           wrapped == envelope.wrapped_session_key.bytes
           large == failed("MessageTooLarge", 0, FALSE)
           invalid == failed("InvalidEnvelope", 0, FALSE)
           beyond == envelope.cipher.len > TextLimit(c)
<1>1. \A r, n, u : failed(r, n, u).result = r /\ failed(r, n, u).plaintext = None
  BY DEF failed
<1>2. \A p : released(p).result = "Ok"
  BY DEF released
<1>3. \A r, n, u : o = failed(r, n, u) /\ r # "Ok" /\ (r = "MessageTooLarge" <=> beyond)
                   => Verdict(c, envelope, o)
  BY <1>1 DEF Verdict
<1>4. \A p : o = released(p) /\ ~beyond /\ unwraps(c, wrapped) => Verdict(c, envelope, o)
  BY <1>2 DEF Verdict
<1>5. "MessageTooLarge" # "Ok" /\ "InvalidEnvelope" # "Ok" /\ "InvalidEnvelope" # "MessageTooLarge"
  OBVIOUS
<1>6. CASE ~is_aead(c)
  <2> DEFINE gate == CbcGate(limit, envelope.cipher.len, byte_len(cipher))
  <2>1. gate = "MessageTooLarge" <=> beyond
    BY <1>6 DEF CbcGate, TextLimit
  <2> HIDE DEF gate, beyond, limit, cipher, wrapped, large, invalid
  <2>2. o \in IF gate = "MessageTooLarge" THEN {large}
              ELSE IF auxiliary_too_long(envelope) \/ undecodable(envelope) \/ gate # "decoded"
                      \/ ~unwraps(c, wrapped)
                THEN {invalid}
              ELSE {cbc_finish(cbc_checks(c, cipher, decrypted, context, envelope.signature.bytes)) :
                        decrypted \in cbc_decrypt(wrapped.key, Config[c].iv, cipher)}
    BY <1>6, Zenon DEF open, cbc_open, gate, limit, cipher, wrapped, large, invalid
  <2>3. CASE beyond
    BY <1>3, <1>5, <2>1, <2>2, <2>3, Zenon DEF large
  <2>4. CASE ~beyond /\ o = invalid
    BY <1>3, <1>5, <2>4, Zenon DEF invalid
  <2>5. CASE ~beyond /\ o # invalid
    <3>1. unwraps(c, wrapped) /\ \E k : o = cbc_finish(k)
      BY <2>1, <2>2, <2>5, Zenon
    <3>2. \E k : o = IF cbc_accepts(k) THEN released(k.plaintext) ELSE failed("InvalidEnvelope", 1, TRUE)
      BY <3>1, Zenon DEF cbc_finish
    <3> QED BY <1>3, <1>4, <1>5, <2>5, <3>1, <3>2, Zenon
  <2> QED BY <2>3, <2>4, <2>5, Zenon
<1>7. CASE is_aead(c)
  <2> DEFINE gate == FrameGate(limit, envelope.cipher.len, byte_len(cipher))
  <2>1. gate = "MessageTooLarge" <=> beyond
    BY <1>7 DEF FrameGate, TextLimit
  <2> HIDE DEF gate, beyond, limit, cipher, wrapped, large, invalid
  <2>2. o \in IF gate = "MessageTooLarge" THEN {large}
              ELSE IF auxiliary_too_long(envelope) \/ undecodable(envelope) \/ gate # "decoded"
                THEN {invalid}
              ELSE {IF header_ok /\ unwraps(c, wrapped)
                      THEN aead_finish(c, cipher, wrapped.key, context, envelope.signature.bytes)
                      ELSE invalid : header_ok \in header_verdicts(c, cipher)}
    BY <1>7, Zenon DEF open, aead_open, gate, limit, cipher, wrapped, large, invalid
  <2>3. CASE beyond
    BY <1>3, <1>5, <2>1, <2>2, <2>3, Zenon DEF large
  <2>4. CASE ~beyond /\ o = invalid
    BY <1>3, <1>5, <2>4, Zenon DEF invalid
  <2>5. CASE ~beyond /\ o # invalid
    <3>1. unwraps(c, wrapped) /\ o = aead_finish(c, cipher, wrapped.key, context, envelope.signature.bytes)
      BY <2>1, <2>2, <2>5, Zenon
    <3>2. \/ \E n : o = failed("InvalidEnvelope", n, TRUE)
          \/ \E p : o = released(p)
      BY <3>1, Zenon DEF aead_finish
    <3> QED BY <1>3, <1>4, <1>5, <2>5, <3>1, <3>2, Zenon
  <2> QED BY <2>3, <2>4, <2>5, Zenon
<1> QED BY <1>6, <1>7, Zenon

\* A payload and the bytes open recovered have the same authentication input.
SameInput(m, x, p, n, y, b) ==
    /\ m.kind = "LegacyPlaintext" => m.domain_separator = ""
    /\ n.kind = "LegacyPlaintext" => n.domain_separator = ""
    /\ x.kind = "Legacy" => x.bytes = <<>>
    /\ y.kind = "Legacy" => y.bytes = <<>>
    /\ b.form \in {"payload", "scrambled"}
    /\ authentication_input(n, y, b) # None
    /\ authentication_input(m, x, PayloadBytes(p)) = authentication_input(n, y, b)

\* Equal authentication inputs mean equal plaintexts in equal scopes.
LEMMA InputDeterminesMessage ==
    ASSUME NEW m, NEW x, NEW p, NEW n, NEW y, NEW b, SameInput(m, x, p, n, y, b)
    PROVE  /\ b = PayloadBytes(p)
           /\ m.kind = n.kind /\ m.domain_separator = n.domain_separator /\ x.bytes = y.bytes
<1> USE DEF SameInput
<1>1. kinds_match(m, x) /\ kinds_match(n, y)
  BY Zenon DEF authentication_input
<1> DEFINE pb == PayloadBytes(p)
           tm == [form |-> "transcript", domain |-> m.domain_separator, context |-> x.bytes, body |-> pb]
           tn == [form |-> "transcript", domain |-> n.domain_separator, context |-> y.bytes, body |-> b]
<1>2. /\ tm.form = "transcript" /\ tm.domain = m.domain_separator /\ tm.context = x.bytes /\ tm.body = pb
      /\ tn.form = "transcript" /\ tn.domain = n.domain_separator /\ tn.context = y.bytes /\ tn.body = b
  BY Zenon
<1>3. pb.form = "payload"
  BY Zenon DEF PayloadBytes
<1>4. authentication_input(m, x, pb) = IF m.kind = "LegacyPlaintext" THEN pb ELSE tm
  BY <1>1, Zenon DEF authentication_input
<1>5. authentication_input(n, y, b) = IF n.kind = "LegacyPlaintext" THEN b ELSE tn
  BY <1>1, Zenon DEF authentication_input
<1>eq. authentication_input(m, x, pb) = authentication_input(n, y, b)
  BY Zenon
<1> HIDE DEF tm, tn, pb
<1>6. m.kind = "LegacyPlaintext" <=> n.kind = "LegacyPlaintext"
  BY <1>2, <1>3, <1>4, <1>5, <1>eq, Zenon
<1>7. CASE m.kind = "LegacyPlaintext"
  BY <1>1, <1>4, <1>5, <1>6, <1>7, <1>eq, Zenon DEF kinds_match, pb
<1>8. CASE m.kind # "LegacyPlaintext"
  <2>1. tm = tn
    BY <1>4, <1>5, <1>6, <1>8, <1>eq, Zenon
  <2>2. m.domain_separator = n.domain_separator /\ x.bytes = y.bytes /\ b = pb
    BY <1>2, <2>1, Zenon
  <2>3. m.kind = "ContextBound" /\ n.kind = "ContextBound"
    BY <1>1, <1>6, <1>8, Zenon DEF kinds_match
  <2> QED
    BY <2>2, <2>3, Zenon DEF pb
<1> QED
  BY <1>7, <1>8, Zenon

-----------------------------------------------------------------------------
(* What is released fits the limit and was encrypted in the receiver's mode. *)

\* The decryption of the inbound ciphertext under the receiver's own settings.
Decrypted(c, envelope, context, plaintext) ==
    LET b == envelope.cipher.bytes
    IN  IF is_aead(c)
          THEN /\ b.form = "frame"
               /\ plaintext = PayloadBytes(b.payload)
               /\ b.header.algorithm = Config[c].envelope_mode
               /\ b.body.algorithm = Config[c].envelope_mode
               /\ b.body.aad = aead_aad(Config[c].authentication_mode, context, b.header)
          ELSE \/ plaintext.form = "scrambled"
               \/ b.form = "cbc" /\ b.iv = Config[c].iv /\ plaintext = PayloadBytes(b.payload)

\* A configured limit is a usize.
LEMMA LimitsAreNat ==
    ASSUME NEW c, Configured(c)
    PROVE  Config[c].max_plaintext_bytes \in Nat
<1>1. Config[c].max_plaintext_bytes \in 1..UsizeMax
  BY Zenon DEF Configured
<1> QED
  BY <1>1, UsizeMaxAssumption

\* cbc::open releases the PKCS#7-checked decryption, within the limit.
LEMMA CbcDecrypts ==
    ASSUME NEW c, NEW envelope, NEW context, NEW o \in cbc_open(c, envelope, context),
           ~is_aead(c), o.result = "Ok"
    PROVE  /\ byte_len(o.plaintext) <= Config[c].max_plaintext_bytes
           /\ Decrypted(c, envelope, context, o.plaintext)
<1> DEFINE cipher == envelope.cipher.bytes
           key == envelope.wrapped_session_key.bytes.key
           checks(d) == cbc_checks(c, cipher, d, context, envelope.signature.bytes)
<1>1. o # failed("MessageTooLarge", 0, FALSE) /\ o # failed("InvalidEnvelope", 0, FALSE)
  BY DEF failed
<1>2. PICK d \in cbc_decrypt(key, Config[c].iv, cipher) : o = cbc_finish(checks(d))
  BY <1>1, Zenon DEF cbc_open
<1>3. cbc_accepts(checks(d)) /\ o.plaintext = checks(d).plaintext
  BY <1>2 DEF cbc_finish, failed, released
<1>4. d # None /\ o.plaintext = d /\ byte_len(d) <= Config[c].max_plaintext_bytes
  BY <1>3, Zenon DEF cbc_accepts, cbc_checks
<1>5. \/ d.form = "scrambled"
      \/ cipher.form = "cbc" /\ cipher = Cbc(key, Config[c].iv, cipher.payload)
         /\ d = PayloadBytes(cipher.payload)
  BY <1>2, <1>4 DEF cbc_decrypt, Scrambled
<1>6. cipher = Cbc(key, Config[c].iv, cipher.payload) => cipher.iv = Config[c].iv
  BY DEF Cbc
<1> QED
  BY <1>4, <1>5, <1>6 DEF Decrypted

\* aead::open releases the decryption of a frame of the pinned algorithm, within the limit.
LEMMA AeadDecrypts ==
    ASSUME NEW c, Configured(c), NEW envelope, NEW context, NEW o \in aead_open(c, envelope, context),
           is_aead(c), o.result = "Ok", envelope.cipher.bytes.form = "frame" =>
               PayloadLen[envelope.cipher.bytes.payload] \in Nat
    PROVE  /\ byte_len(o.plaintext) <= Config[c].max_plaintext_bytes
           /\ Decrypted(c, envelope, context, o.plaintext)
<1> DEFINE frame == envelope.cipher.bytes
           key == envelope.wrapped_session_key.bytes.key
           limit == Config[c].max_plaintext_bytes
           mode == Config[c].authentication_mode
           aad == IF frame.form = "frame" THEN aead_aad(mode, context, frame.header) ELSE None
           plaintext == aead_decrypt(configured_algorithm(c, frame), key, aad, frame)
<1>1. o # failed("MessageTooLarge", 0, FALSE) /\ o # failed("InvalidEnvelope", 0, FALSE)
  BY DEF failed
<1>2. /\ FrameGate(limit, envelope.cipher.len, byte_len(frame)) = "decoded"
      /\ \E header_ok \in header_verdicts(c, frame) : header_ok
      /\ o = aead_finish(c, frame, key, context, envelope.signature.bytes)
  BY <1>1, Zenon DEF aead_open
<1>3. plaintext # None /\ o.plaintext = plaintext
  BY <1>2 DEF aead_finish, failed, released
<1>4. /\ frame.form = "frame"
      /\ frame.body = [algorithm |-> configured_algorithm(c, frame), key |-> key,
                       nonce |-> frame.header.nonce, aad |-> aad]
      /\ plaintext = PayloadBytes(frame.payload)
  BY <1>3 DEF aead_decrypt
<1>5. frame.body.algorithm = Config[c].envelope_mode /\ frame.body.aad = aad
  BY <1>4 DEF configured_algorithm
<1>6. frame.header.algorithm = Config[c].envelope_mode
  BY <1>2, <1>4, Zenon DEF header_verdicts, configured_algorithm
<1>7. byte_len(frame) - FRAME_OVERHEAD_BYTES <= limit
  <2>1. limit \in Nat /\ byte_len(frame) \in Nat
    <3>1. byte_len(frame) = frame_len(PayloadLen[frame.payload])
      BY <1>4 DEF byte_len
    <3>2. PayloadLen[frame.payload] \in Nat
      BY <1>4
    <3>3. limit \in Nat
      BY LimitsAreNat
    <3> QED
      BY <3>1, <3>2, <3>3 DEF frame_len, FRAME_OVERHEAD_BYTES
  <2> QED
    BY <1>2, <2>1 DEF FrameGate, FRAME_OVERHEAD_BYTES
<1>8. byte_len(plaintext) <= limit
  <2>1. byte_len(frame) = frame_len(PayloadLen[frame.payload])
    BY <1>4 DEF byte_len
  <2>2. byte_len(plaintext) = PayloadLen[frame.payload]
    BY <1>4 DEF byte_len, PayloadBytes
  <2>3. PayloadLen[frame.payload] \in Nat
    BY <1>4
  <2>4. limit \in Nat
    BY LimitsAreNat
  <2> QED
    BY <1>7, <2>1, <2>2, <2>3, <2>4 DEF frame_len, FRAME_OVERHEAD_BYTES
<1> QED
  BY <1>3, <1>4, <1>5, <1>6, <1>8 DEF Decrypted

\* cbc::open runs the one verification on every path that has unwrapped a session key.
LEMMA CbcVerifiesOnce ==
    ASSUME NEW c, NEW envelope, NEW context, NEW o \in cbc_open(c, envelope, context), o.unwrapped
    PROVE  o.verifies = 1 /\ o.result \in {"Ok", "InvalidEnvelope"}
<1> DEFINE cipher == envelope.cipher.bytes
           wrapped == envelope.wrapped_session_key.bytes
           checks(d) == cbc_checks(c, cipher, d, context, envelope.signature.bytes)
<1>1. CASE \E r \in {"MessageTooLarge", "InvalidEnvelope"} : o = failed(r, 0, FALSE)
  BY <1>1 DEF failed
<1>2. CASE \E d \in cbc_decrypt(wrapped.key, Config[c].iv, cipher) : o = cbc_finish(checks(d))
  <2> HIDE DEF checks
  <2> QED
    BY <1>2 DEF cbc_finish, released, failed
<1> QED
  BY <1>1, <1>2, Zenon DEF cbc_open

-----------------------------------------------------------------------------
(* Round trip. *)

\* A seal call that passed seal's checks.
Accepted(s) == s.payload \in Payloads /\ seal_error(s.by, s.payload, s.context) = "none"

\* The parts of a sealed envelope that every mode shares pass open's first checks.
LEMMA IntactParts ==
    ASSUME NEW s, NEW c, Accepted(s), Configured(c), SealedFor(s, c)
    PROVE  LET e == envelope_of(s)
               mode == Config[c].authentication_mode
           IN  /\ e.cipher.bytes = encrypt(s.by, s.draw, s.context, s.payload)
               /\ e.cipher.len = encoded_len(byte_len(e.cipher.bytes))
               /\ e.wrapped_session_key.bytes.key = s.draw
               /\ unwraps(c, e.wrapped_session_key.bytes)
               /\ ~auxiliary_too_long(e)
               /\ ~undecodable(e)
               /\ kinds_match(mode, s.context)
               /\ verify_with_id(c, authentication_input(mode, s.context, PayloadBytes(s.payload)),
                                 e.signature.bytes)
<1> DEFINE e == envelope_of(s)
           mode == Config[c].authentication_mode
           cipher == encrypt(s.by, s.draw, s.context, s.payload)
           wrap == Wrap(Keys[c].local_decryption, s.draw, SESSION_KEY_BYTES)
           sig == Signature(Keys[c].remote_verification, Config[c].expected_remote_signer_id,
                            authentication_input(mode, s.context, PayloadBytes(s.payload)))
<1>1. e.cipher = encode(cipher) /\ e.wrapped_session_key = encode(wrap) /\ e.signature = encode(sig)
  BY DEF envelope_of, SealedFor
<1>2. /\ cipher.form \in {"cbc", "frame"}
      /\ wrap.form = "wrap" /\ wrap.to = Keys[c].local_decryption /\ wrap.key = s.draw
      /\ wrap.len = SESSION_KEY_BYTES
      /\ sig.form = "signature"
  BY DEF encrypt, aead_encrypt, Cbc, Wrap, Signature
<1>3. byte_len(wrap) = WRAP_BYTES /\ byte_len(sig) = SIGNATURE_BYTES
  <2> HIDE DEF wrap, sig
  <2> QED
    BY <1>2 DEF byte_len
<1>4. kinds_match(mode, s.context)
  BY DEF Accepted, seal_error, SealedFor
<1>5. verify_with_id(c, authentication_input(mode, s.context, PayloadBytes(s.payload)), sig)
  BY DEF verify_with_id
<1> HIDE DEF e, cipher, wrap, sig
<1>6. /\ e.cipher.bytes = cipher /\ e.cipher.len = encoded_len(byte_len(cipher))
      /\ e.wrapped_session_key.bytes = wrap /\ e.wrapped_session_key.len = encoded_len(WRAP_BYTES)
      /\ e.signature.bytes = sig /\ e.signature.len = encoded_len(SIGNATURE_BYTES)
  BY <1>1, <1>3 DEF encode
<1>7. ~auxiliary_too_long(e)
  BY <1>6 DEF auxiliary_too_long, encoded_len, WRAP_BYTES, SIGNATURE_BYTES, MAX_AUXILIARY_BASE64_BYTES
<1>8. ~undecodable(e)
  BY <1>2, <1>6 DEF undecodable, None
<1>9. unwraps(c, wrap)
  BY <1>2 DEF unwraps
<1> QED
  BY <1>2, <1>4, <1>5, <1>6, <1>7, <1>8, <1>9 DEF e, cipher

\* An intact CBC envelope has a single outcome: its plaintext.
LEMMA CbcRoundTrip ==
    ASSUME NEW s, NEW c, Accepted(s), Configured(c), SealedFor(s, c), ~is_aead(c),
           NEW o \in cbc_open(c, envelope_of(s), s.context)
    PROVE  o.result = "Ok" /\ o.plaintext = PayloadBytes(s.payload)
<1> DEFINE e == envelope_of(s)
           cipher == e.cipher.bytes
           limit == Config[c].max_plaintext_bytes
           n == PayloadLen[s.payload]
           pb == PayloadBytes(s.payload)
           checks == cbc_checks(c, cipher, pb, s.context, e.signature.bytes)
<1>1. n \in Nat /\ Fits(cbc_cipher_len(n))
  BY PayloadAssumption DEF Accepted
<1>2. limit \in 1..UsizeMax /\ n <= limit
  BY ZenonT(60) DEF SealedFor, Configured
<1>3. cipher = Cbc(s.draw, Config[c].iv, s.payload)
  BY IntactParts DEF encrypt, is_aead, SealedFor
<1>4. cipher.form = "cbc" /\ cipher.payload = s.payload
  BY <1>3 DEF Cbc
<1>5. byte_len(cipher) = cbc_cipher_len(n)
  <2> HIDE DEF cipher
  <2> QED
    BY <1>4 DEF byte_len
<1>6. CbcGate(limit, e.cipher.len, byte_len(cipher)) = "decoded"
  <2>1. e.cipher.len = encoded_len(cbc_cipher_len(n))
    BY <1>5, IntactParts
  <2> QED
    BY <1>1, <1>2, <1>5, <2>1, CbcAdmits
<1>7. cbc_decrypt(s.draw, Config[c].iv, cipher) = {pb}
  <2>1. cbc_cipher_len(n) # 0 /\ cbc_cipher_len(n) % SM4_BLOCK_BYTES = 0
    <3>1. PICK q \in Nat : q = n \div 16 + 1
      BY <1>1
    <3>2. cbc_cipher_len(n) = q * 16 /\ q > 0
      BY <1>1, <3>1 DEF cbc_cipher_len, SM4_BLOCK_BYTES
    <3> QED
      BY <3>1, <3>2 DEF SM4_BLOCK_BYTES
  <2> HIDE DEF cipher, n
  <2> QED
    BY <1>3, <1>4, <1>5, <2>1 DEF cbc_decrypt
<1>8. o = cbc_finish(checks)
  <2>1. \E d \in cbc_decrypt(e.wrapped_session_key.bytes.key, Config[c].iv, cipher) :
           o = cbc_finish(cbc_checks(c, cipher, d, s.context, e.signature.bytes))
    BY <1>6, IntactParts, Zenon DEF cbc_open
  <2>2. e.wrapped_session_key.bytes.key = s.draw
    BY IntactParts
  <2> HIDE DEF e, cipher
  <2> QED
    BY <1>7, <2>1, <2>2
<1>9. pb # None /\ pb.form = "payload" /\ pb.payload = s.payload
  BY DEF PayloadBytes, None
<1>10. byte_len(pb) = n
  <2> HIDE DEF pb
  <2> QED
    BY <1>9 DEF byte_len
<1>11. LET input == authentication_input(Config[c].authentication_mode, s.context, pb)
       IN  input # None /\ verify_with_id(c, input, e.signature.bytes)
  BY <1>9, IntactParts DEF authentication_input, None
<1>12. cbc_accepts(checks) /\ checks.plaintext = pb
  <2> HIDE DEF pb, n
  <2> QED
    BY <1>2, <1>9, <1>10, <1>11, Zenon DEF cbc_accepts, cbc_checks
<1> QED
  BY <1>8, <1>12 DEF cbc_finish, released

\* An intact AEAD envelope has a single outcome: its plaintext.
LEMMA AeadRoundTrip ==
    ASSUME NEW s, NEW c, Accepted(s), Configured(c), SealedFor(s, c), is_aead(c),
           NEW o \in aead_open(c, envelope_of(s), s.context)
    PROVE  o.result = "Ok" /\ o.plaintext = PayloadBytes(s.payload)
<1> DEFINE e == envelope_of(s)
           frame == e.cipher.bytes
           algorithm == Config[c].envelope_mode
           mode == Config[c].authentication_mode
           limit == Config[c].max_plaintext_bytes
           n == PayloadLen[s.payload]
           pb == PayloadBytes(s.payload)
           header == [version |-> 1, algorithm |-> algorithm, nonce |-> s.draw]
           aad == aead_aad(mode, s.context, header)
<1>1. n \in Nat /\ Fits(frame_len(n))
  BY PayloadAssumption DEF Accepted
<1>2. limit \in 1..UsizeMax /\ n <= limit
  BY ZenonT(60) DEF SealedFor, Configured
<1>3. frame = [form |-> "frame", header |-> header, payload |-> s.payload,
               body |-> [algorithm |-> algorithm, key |-> s.draw, nonce |-> s.draw, aad |-> aad]]
  BY IntactParts, ZenonT(60) DEF encrypt, aead_encrypt, is_aead, SealedFor
<1>4. /\ frame.form = "frame" /\ frame.payload = s.payload /\ frame.header = header
      /\ frame.body = [algorithm |-> algorithm, key |-> s.draw, nonce |-> s.draw, aad |-> aad]
      /\ header.version = 1 /\ header.algorithm = algorithm /\ header.nonce = s.draw
  <2>1. header.version = 1 /\ header.algorithm = algorithm /\ header.nonce = s.draw
    <3> HIDE DEF algorithm
    <3> QED
      OBVIOUS
  <2>2. /\ frame.form = "frame" /\ frame.payload = s.payload /\ frame.header = header
        /\ frame.body = [algorithm |-> algorithm, key |-> s.draw, nonce |-> s.draw, aad |-> aad]
    <3> HIDE DEF frame, header, aad, algorithm
    <3> QED
      BY <1>3
  <2> QED
    BY <2>1, <2>2
<1>5. byte_len(frame) = frame_len(n)
  <2> HIDE DEF frame
  <2> QED
    BY <1>4 DEF byte_len
<1>6. FrameGate(limit, e.cipher.len, byte_len(frame)) = "decoded"
  <2>1. e.cipher.len = encoded_len(frame_len(n))
    BY <1>5, IntactParts
  <2> QED
    BY <1>1, <1>2, <1>5, <2>1, FrameAdmits
<1>7. header_verdicts(c, frame) = {TRUE}
  <2> HIDE DEF frame, header
  <2> QED
    BY <1>4, Zenon DEF header_verdicts, configured_algorithm
<1>8. o = aead_finish(c, frame, s.draw, s.context, e.signature.bytes)
  BY <1>6, <1>7, IntactParts, ZenonT(60) DEF aead_open
<1>9. pb # None /\ pb.form = "payload"
  BY DEF PayloadBytes, None
<1>10. aead_decrypt(configured_algorithm(c, frame), s.draw, aad, frame) = pb
  <2> HIDE DEF frame, header, aad
  <2> QED
    BY <1>4 DEF aead_decrypt, configured_algorithm
<1>11. kinds_match(mode, s.context)
       /\ verify_with_id(c, authentication_input(mode, s.context, pb), e.signature.bytes)
  BY IntactParts
<1>12. (IF frame.form = "frame" THEN aead_aad(mode, s.context, frame.header) ELSE None) = aad
  BY <1>4
<1> HIDE DEF frame, pb, aad, e, header
<1>13. o = released(pb)
  BY <1>8, <1>9, <1>10, <1>11, <1>12, Zenon DEF aead_finish
<1> QED
  BY <1>13 DEF released, pb
=============================================================================
