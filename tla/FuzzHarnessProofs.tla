------------------------- MODULE FuzzHarnessProofs -------------------------
(***************************************************************************)
(* The fuzz targets, for every set of names that has the targets' own,     *)
(* every width of usize and any number of seals.                           *)
(***************************************************************************)
EXTENDS FuzzHarness, CallProofs

-----------------------------------------------------------------------------
(* The schemas of the targets. *)

\* The fields a schema of the targets names.
LEMMA FieldNames ==
    /\ {ResponseFields[i] : i \in DOMAIN ResponseFields}
         = {"signature", "wrapped_session_key", "remote_signing_certificate"}
    /\ "request_id" \in {RequestFields[i] : i \in DOMAIN RequestFields}
<1>1. /\ DOMAIN ResponseFields = 1..3 /\ ResponseFields[1] = "signature"
      /\ ResponseFields[2] = "wrapped_session_key" /\ ResponseFields[3] = "remote_signing_certificate"
  BY DEF ResponseFields
<1>2. 1..3 = {1, 2, 3}
  OBVIOUS
<1>3. 3 \in DOMAIN RequestFields /\ RequestFields[3] = "request_id"
  BY DEF RequestFields
<1> QED BY <1>1, <1>2, <1>3, Zenon

\* A builder whose fields are named after themselves.
LEMMA Schemas ==
    ASSUME NEW location \in {Body, InHeader(Name("cipher", "canonical"))}, NEW bound \in BOOLEAN
    PROVE  LET s == fuzz_schema(location, bound)
           IN  /\ IsBuilder(s) /\ Apart(s)
               /\ s.bound = bound /\ s.response_cipher = location
               /\ Fields(s) = {ResponseFields[i] : i \in DOMAIN ResponseFields}
                                        \cup (IF bound THEN {"request_id"} ELSE {})
                                        \cup (IF location = Body THEN {} ELSE {"cipher"})
               /\ \A f \in Fields(s) : slot_name(s, f) = Name(f, "canonical")
<1> DEFINE s == fuzz_schema(location, bound)
           names == [f \in DOMAIN EmptyBuilder.request |-> Name(f, "canonical")]
           answers == [f \in DOMAIN EmptyBuilder.response |-> Name(f, "canonical")]
           static == <<<<Name("content-type", "canonical"), Text("octets")>>>>
<1>1. /\ s.static = static /\ s.request = names /\ s.response = answers
      /\ s.request_cipher = Body /\ s.response_cipher = location
      /\ s.legacy = ~bound /\ s.bound = bound
      /\ DOMAIN s = {"static", "request", "response", "request_cipher", "response_cipher", "legacy", "bound"}
  BY DEF fuzz_schema
<1>2. /\ DOMAIN EmptyBuilder =
           {"static", "request", "response", "request_cipher", "response_cipher", "legacy", "bound"}
      /\ DOMAIN EmptyBuilder.request = {RequestFields[i] : i \in DOMAIN RequestFields}
      /\ DOMAIN EmptyBuilder.response = {ResponseFields[i] : i \in DOMAIN ResponseFields}
  BY DEF EmptyBuilder
<1>3. IsLocation(Body) /\ IsLocation(location)
  <2>1. IsLocation(Body)
    BY Zenon DEF IsLocation
  <2>2. CASE location = InHeader(Name("cipher", "canonical"))
    <3>1. location.name = Name("cipher", "canonical") /\ location.name.canonical = "cipher"
      BY <2>2 DEF InHeader, Name
    <3>2. "cipher" \in Tokens
      BY NamesAssumption, Zenon
    <3> QED BY <2>1, <2>2, <3>1, <3>2, Zenon DEF IsLocation, InHeader, HeaderName_new
  <2> QED BY <2>1, <2>2, Zenon
<1>4. s.static \in Seq({s.static[i] : i \in DOMAIN s.static})
  <2>1. static[1] \in {static[i] : i \in DOMAIN static} /\ static = <<static[1]>>
    OBVIOUS
  <2> HIDE DEF static, s
  <2>2. \A x : \A S : x \in S => <<x>> \in Seq(S)
    OBVIOUS
  <2>3. \A x : x = static => x \in Seq({x[i] : i \in DOMAIN x})
    BY <2>1, <2>2, Zenon
  <2>4. s.static = static
    BY <1>1, Zenon
  <2> QED BY <2>3, <2>4, Zenon
<1> HIDE DEF s
<1>5. IsBuilder(s)
  <2>1. s.legacy \in BOOLEAN /\ s.bound \in BOOLEAN
    BY <1>1
  <2>2. DOMAIN s.request = DOMAIN EmptyBuilder.request /\ DOMAIN s.response = DOMAIN EmptyBuilder.response
    BY <1>1, Zenon
  <2> QED BY <1>1, <1>2, <1>3, <1>4, <2>1, <2>2, Zenon DEF IsBuilder
<1>6. Fields(s) = {ResponseFields[i] : i \in DOMAIN ResponseFields}
                            \cup (IF bound THEN {"request_id"} ELSE {})
                            \cup (IF location = Body THEN {} ELSE {"cipher"})
  BY <1>1, FieldNames, Zenon DEF Fields
<1>7. ASSUME NEW f \in Fields(s) PROVE slot_name(s, f) = Name(f, "canonical")
  <2>1. CASE f = "request_id"
    BY <1>1, <1>2, <2>1, FieldNames, Zenon DEF slot_name
  <2>2. CASE f = "cipher"
    <3>1. location = InHeader(Name("cipher", "canonical"))
      BY <1>6, <2>2, FieldNames
    <3>2. InHeader(Name("cipher", "canonical")).name = Name("cipher", "canonical")
      BY DEF InHeader
    <3>3. f # "request_id"
      BY <2>2
    <3> QED BY <1>1, <2>2, <3>1, <3>2, <3>3, Zenon DEF slot_name
  <2>3. CASE f \notin {"request_id", "cipher"}
    <3>1. f \in DOMAIN EmptyBuilder.response
      BY <1>2, <1>6, <2>3, Zenon
    <3> QED BY <1>1, <2>3, <3>1, Zenon DEF slot_name
  <2> QED BY <2>1, <2>2, <2>3, Zenon
<1>8. Apart(s)
  <2> SUFFICES ASSUME NEW f \in Fields(s), NEW g \in Fields(s),
                      slot_name(s, f).canonical = slot_name(s, g).canonical
               PROVE  f = g
    BY Zenon DEF Apart
  <2>1. Name(f, "canonical").canonical = f /\ Name(g, "canonical").canonical = g
    BY DEF Name
  <2> QED BY <1>7, <2>1
<1> QED BY <1>1, <1>5, <1>6, <1>7, <1>8, Zenon DEF s

-----------------------------------------------------------------------------
(* Headers of the generic inputs. *)

\* A list of headers whose values are texts.
Listed(headers) == \E T : headers \in Seq(T) /\ \A x \in T : IsText(x[2])

\* The texts of the header adapter, and the edits the targets make to them.
LEMMA TextsAreTexts ==
    /\ \A token : IsText(Text(token))
    /\ IsText(EmptyText)
    /\ \A t : IsText(t) => /\ Padded(t) = [core |-> t.core, pad |-> TRUE, control |-> t.control]
                           /\ IsText(Padded(t))
                           /\ \A x : IsText(With(t, x))
<1>1. \A c, p, x : IsText([core |-> c, pad |-> p, control |-> x])
  BY DEF IsText
<1>2. (\A token : IsText(Text(token))) /\ IsText(EmptyText)
  BY <1>1, Zenon DEF Text, EmptyText
<1>3. ASSUME NEW t, IsText(t), NEW x
      PROVE  /\ [t EXCEPT !.pad = x] = [core |-> t.core, pad |-> x, control |-> t.control]
             /\ [t EXCEPT !.control = x] = [core |-> t.core, pad |-> t.pad, control |-> x]
  BY <1>3 DEF IsText
<1>4. ASSUME NEW t, IsText(t), NEW x
      PROVE  /\ Padded(t) = [core |-> t.core, pad |-> TRUE, control |-> t.control]
             /\ With(t, x) = [core |-> t.core, pad |-> t.pad, control |-> x]
  BY <1>3, <1>4, Zenon DEF Padded, With
<1>5. ASSUME NEW t, IsText(t), NEW x
      PROVE  IsText(Padded(t)) /\ IsText(With(t, x))
  <2>1. /\ IsText([core |-> t.core, pad |-> TRUE, control |-> t.control])
        /\ IsText([core |-> t.core, pad |-> t.pad, control |-> x])
    BY <1>1, Zenon
  <2>2. /\ Padded(t) = [core |-> t.core, pad |-> TRUE, control |-> t.control]
        /\ With(t, x) = [core |-> t.core, pad |-> t.pad, control |-> x]
    BY <1>4, <1>5, Zenon
  <2> QED BY <2>1, <2>2, Zenon
<1> QED BY <1>2, <1>4, <1>5, Zenon

\* Every value of a generic header is a text.
LEMMA ValuesAreTexts ==
    ASSUME NEW S, NEW values \in FieldValues(S), NEW i \in S
    PROVE  IsText(values[i])
<1> DEFINE plain == [k \in S |-> Text("value")]
           Odd == {Padded(EmptyText), With(Text("value"), "line")}
<1>1. \A odd \in Odd : IsText(odd)
  <2>1. IsText(Padded(EmptyText))
    BY TextsAreTexts, Zenon
  <2>2. IsText(With(Text("value"), "line"))
    BY TextsAreTexts, Zenon
  <2> QED BY <2>1, <2>2, Zenon
<1>2. values = plain \/ \E k \in S, odd \in Odd : values = [plain EXCEPT ![k] = odd]
  <2>1. values \in {plain} \cup {[plain EXCEPT ![k] = odd] : k \in S, odd \in Odd}
    BY DEF FieldValues
  <2> HIDE DEF plain, Odd
  <2> QED BY <2>1
<1> HIDE DEF Odd
<1>3. values[i] = Text("value") \/ values[i] \in Odd
  BY <1>2
<1> QED BY <1>1, <1>3, TextsAreTexts, Zenon

Orderings(n) == [1..n -> 1..n]

\* Reordering headers keeps their number, and only uses what was there.
LEMMA Arranged ==
    ASSUME NEW T, NEW headers \in Seq(T), NEW order \in Orderings(Len(headers))
    PROVE  arranged(headers, order) \in Seq(T) /\ Len(arranged(headers, order)) = Len(headers)
<1> DEFINE n == Len(headers)
<1>1. n \in Nat /\ order \in [1..n -> 1..n] /\ \A i \in 1..n : headers[i] \in T
  BY DEF Orderings
<1> HIDE DEF n
<1>2. arranged(headers, order) \in [1..n -> T]
  BY <1>1 DEF arranged
<1>3. arranged(headers, order) \in Seq(T) /\ Len(arranged(headers, order)) = n
  BY <1>1, <1>2, ListOf, Zenon
<1> QED BY <1>3, Zenon DEF n

\* Headers stay a list of texts when the first is repeated under either casing.
LEMMA Repeated ==
    ASSUME NEW T, \A x \in T : IsText(x[2]), NEW headers \in Seq(T), Len(headers) > 0,
           NEW selector
    PROVE  Listed(repeated(headers, selector))
<1> DEFINE lower == <<[headers[1][1] EXCEPT !.casing = "lower"], headers[1][2]>>
           U == T \cup {lower}
<1>1. headers[1] \in T
  OBVIOUS
<1>2. \A x \in U : IsText(x[2])
  <2>1. lower[2] = headers[1][2]
    OBVIOUS
  <2> QED BY <1>1, <2>1, Zenon
<1>3. repeated(headers, selector) \in {headers, Append(headers, headers[1]), Append(headers, lower)}
  BY Zenon DEF repeated
<1> HIDE DEF lower
<1>4. headers \in Seq(U) /\ headers[1] \in U /\ lower \in U
  BY <1>1
<1> HIDE DEF U
<1>5. repeated(headers, selector) \in Seq(U)
  BY <1>3, <1>4
<1> QED BY <1>2, <1>5, Zenon DEF Listed

\* The orders the targets send headers in only name headers that are there.
LEMMA Orders ==
    /\ \A k \in 1..6 : TransportOrders[k] \in Orderings(3)
    /\ \A k \in 1..6 : HeaderCipherOrders[k] \in Orderings(4)
<1> DEFINE Three == Orderings(3)
           Four == Orderings(4)
<1>1. \A k \in 1..6 : k = 1 \/ k = 2 \/ k = 3 \/ k = 4 \/ k = 5 \/ k = 6
  OBVIOUS
<1>2. /\ <<1, 2, 3>> \in Three /\ <<2, 1, 3>> \in Three /\ <<1, 3, 2>> \in Three
      /\ <<3, 2, 1>> \in Three /\ <<2, 3, 1>> \in Three /\ <<3, 1, 2>> \in Three
  BY DEF Orderings
<1>3. /\ <<1, 2, 3, 4>> \in Four /\ <<4, 1, 2, 3>> \in Four /\ <<1, 2, 4, 3>> \in Four
      /\ <<4, 3, 2, 1>> \in Four /\ <<1, 4, 2, 3>> \in Four /\ <<2, 1, 3, 4>> \in Four
  BY DEF Orderings
<1>4. /\ TransportOrders[1] = <<1, 2, 3>> /\ TransportOrders[2] = <<2, 1, 3>>
      /\ TransportOrders[3] = <<1, 3, 2>> /\ TransportOrders[4] = <<3, 2, 1>>
      /\ TransportOrders[5] = <<2, 3, 1>> /\ TransportOrders[6] = <<3, 1, 2>>
  BY DEF TransportOrders
<1>5. /\ HeaderCipherOrders[1] = <<1, 2, 3, 4>> /\ HeaderCipherOrders[2] = <<4, 1, 2, 3>>
      /\ HeaderCipherOrders[3] = <<1, 2, 4, 3>> /\ HeaderCipherOrders[4] = <<4, 3, 2, 1>>
      /\ HeaderCipherOrders[5] = <<1, 4, 2, 3>> /\ HeaderCipherOrders[6] = <<2, 1, 3, 4>>
  BY DEF HeaderCipherOrders
<1> HIDE DEF Three, Four
<1>6. \A k \in 1..6 : TransportOrders[k] \in Three
  BY <1>1, <1>2, <1>4
<1>7. \A k \in 1..6 : HeaderCipherOrders[k] \in Four
  BY <1>1, <1>3, <1>5
<1> QED BY <1>6, <1>7, Zenon DEF Three, Four

\* Names and values put together are a list of texts.
LEMMA Paired ==
    ASSUME NEW n \in Nat, NEW names, NEW values \in FieldValues(1..n)
    PROVE  \E T : /\ paired(n, names, values) \in Seq(T) /\ Len(paired(n, names, values)) = n
                  /\ \A x \in T : IsText(x[2])
<1> DEFINE h == paired(n, names, values)
           T == {h[i] : i \in 1..n}
<1>1. \A i \in 1..n : h[i][2] = values[i]
  BY DEF paired
<1>2. h \in [1..n -> T]
  BY DEF paired
<1>3. \A i \in 1..n : IsText(values[i])
  BY ValuesAreTexts, Zenon
<1> HIDE DEF h
<1>4. \A x \in T : IsText(x[2])
  BY <1>1, <1>3, Zenon
<1> HIDE DEF T
<1>5. h \in Seq(T) /\ Len(h) = n
  BY <1>2, ListOf, Zenon
<1> QED BY <1>4, <1>5, Zenon DEF h

\* Every generic input is such a list.
LEMMA GenericParts ==
    ASSUME NEW headers, \/ headers \in generic_transport_parts
                        \/ headers \in generic_header_cipher_parts
                        \/ headers \in generic_typed_parts
    PROVE  Listed(headers)
<1>1. ASSUME NEW n \in Nat, n > 0, NEW order \in Orderings(n), NEW selector,
             NEW names, NEW values \in FieldValues(1..n)
      PROVE  Listed(repeated(arranged(paired(n, names, values), order), selector))
  <2> DEFINE h == paired(n, names, values)
  <2>1. PICK T : h \in Seq(T) /\ Len(h) = n /\ (\A x \in T : IsText(x[2]))
    BY Paired, Zenon
  <2> HIDE DEF h
  <2>2. h \in Seq(T) /\ Len(h) = n /\ order \in Orderings(Len(h))
    BY <2>1, Zenon
  <2>3. arranged(h, order) \in Seq(T) /\ Len(arranged(h, order)) = n
    BY <2>2, Arranged, Zenon
  <2>4. Len(arranged(h, order)) > 0
    BY <1>1, <2>3
  <2> QED BY <2>1, <2>3, <2>4, Repeated, Zenon DEF h
<1>2. CASE headers \in generic_transport_parts
  <2>1. \E names : \E values \in FieldValues(1..3), order \in 1..6 : \E repetition :
           headers = repeated(arranged(paired(3, names, values), TransportOrders[order]), repetition)
    BY <1>2 DEF generic_transport_parts
  <2>2. 3 \in Nat /\ 3 > 0
    OBVIOUS
  <2> QED BY <1>1, <2>1, <2>2, Orders, Zenon
<1>3. CASE headers \in generic_header_cipher_parts
  <2>1. \E names : \E values \in FieldValues(1..4), packed \in 0..5 :
           headers = repeated(arranged(paired(4, names, values), HeaderCipherOrders[packed + 1]), packed)
    BY <1>3 DEF generic_header_cipher_parts
  <2>2. 4 \in Nat /\ 4 > 0 /\ \A packed \in 0..5 : packed + 1 \in 1..6
    OBVIOUS
  <2> QED BY <1>1, <2>1, <2>2, Orders, Zenon
<1>4. CASE headers \in generic_typed_parts
  <2>1. \E names : \E values \in FieldValues(1..2) : \E repetition :
           headers = repeated(paired(2, names, values), repetition)
    BY <1>4 DEF generic_typed_parts
  <2>2. 2 \in Nat /\ 2 > 0
    OBVIOUS
  <2>3. ASSUME NEW names, NEW values \in FieldValues(1..2), NEW repetition
        PROVE  Listed(repeated(paired(2, names, values), repetition))
    BY <2>2, Paired, Repeated, Zenon
  <2> QED BY <2>1, <2>3, Zenon
<1> QED BY <1>2, <1>3, <1>4, Zenon

-----------------------------------------------------------------------------
(* The library accepts exactly the sound. *)

\* parse_response of the targets' schemas.
LEMMA ParseAccepts ==
    ASSUME NEW location \in {Body, InHeader(Name("cipher", "canonical"))}, NEW headers, Listed(headers),
           NEW content
    PROVE  parse_response(fuzz_schema(location, FALSE), headers, content).err = "none" <=>
              /\ \A f \in {ResponseFields[i] : i \in DOMAIN ResponseFields}
                            \cup (IF location = Body THEN {} ELSE {"cipher"}) :
                    \E i \in DOMAIN headers : /\ Named(headers, f) = {i}
                                              /\ Readable(headers[i][2])
              /\ location = Body => ~is_blank(content)
<1> DEFINE s == fuzz_schema(location, FALSE)
           n == Len(headers)
<1>1. /\ IsBuilder(s) /\ Apart(s) /\ s.bound = FALSE /\ s.response_cipher = location
      /\ Fields(s) = {ResponseFields[i] : i \in DOMAIN ResponseFields}
                               \cup (IF location = Body THEN {} ELSE {"cipher"})
      /\ \A f \in Fields(s) : slot_name(s, f) = Name(f, "canonical")
  <2>1. FALSE \in BOOLEAN /\ \A S : S \cup {} = S
    OBVIOUS
  <2> HIDE DEF s
  <2> QED BY <2>1, Schemas, Zenon DEF s
<1>2. n \in Nat /\ DOMAIN headers = 1..n /\ \A i \in 1..n : IsText(headers[i][2])
  <2>1. PICK T : headers \in Seq(T) /\ \A x \in T : IsText(x[2])
    BY Zenon DEF Listed
  <2>2. n \in Nat /\ DOMAIN headers = 1..n /\ \A i \in 1..n : headers[i] \in T
    BY <2>1
  <2> QED BY <2>1, <2>2, Zenon
<1> HIDE DEF s, n
<1>3. parse_response(s, headers, content).err = "none" <=>
        /\ \A f \in Fields(s) : \E i \in DOMAIN headers :
              /\ {j \in DOMAIN headers :
                    headers[j][1].canonical = slot_name(s, f).canonical} = {i}
              /\ Sendable(headers[i][2])
        /\ s.response_cipher = Body => ~is_blank(content)
  <2>1. ~s.bound
    BY <1>1
  <2> QED BY <1>1, <1>2, <2>1, AcceptedExactly, Zenon
<1>4. \A f \in Fields(s) :
        {j \in DOMAIN headers : headers[j][1].canonical = slot_name(s, f).canonical}
          = Named(headers, f)
  <2> SUFFICES ASSUME NEW f \in Fields(s)
               PROVE  {j \in DOMAIN headers :
                         headers[j][1].canonical = slot_name(s, f).canonical}
                        = Named(headers, f)
    BY Zenon
  <2>1. slot_name(s, f).canonical = f
    <3>1. Name(f, "canonical").canonical = f
      BY DEF Name
    <3> QED BY <1>1, <3>1, Zenon
  <2> QED BY <2>1, Zenon DEF Named
<1>5. \A text : Sendable(text) <=> Readable(text)
  BY Zenon DEF Sendable, HeaderValue_new, is_blank, Readable
<1>6. parse_response(s, headers, content).err = "none" <=>
        /\ \A f \in Fields(s) : \E i \in DOMAIN headers :
              Named(headers, f) = {i} /\ Readable(headers[i][2])
        /\ location = Body => ~is_blank(content)
  BY <1>1, <1>3, <1>4, <1>5, Zenon
<1> QED BY <1>1, <1>6, Zenon DEF s

\* RequestParts::new of listed headers.
LEMMA TypedAccepts ==
    ASSUME NEW headers, Listed(headers)
    PROVE  RequestParts_new(headers).err = "none" <=>
              \A i \in DOMAIN headers :
                 /\ headers[i][1].canonical \in Tokens /\ headers[i][2].control = "none"
                 /\ Named(headers, headers[i][1].canonical) = {i}
<1>1. PICK T : headers \in Seq(T)
  BY Zenon DEF Listed
<1>2. RequestParts_new(headers).err = "none" <=> Collectable(headers)
  BY <1>1, RequestPartsNew, Zenon
<1>3. Collectable(headers) <=>
        \A i \in DOMAIN headers :
           /\ headers[i][1].canonical \in Tokens /\ headers[i][2].control = "none"
           /\ \A j \in DOMAIN headers : headers[j][1].canonical = headers[i][1].canonical => j = i
  BY Zenon DEF Collectable, HeaderName_new, HeaderValue_new, eq_ignore_ascii_case
<1>4. \A i \in DOMAIN headers :
        Named(headers, headers[i][1].canonical) = {i} <=>
          \A j \in DOMAIN headers : headers[j][1].canonical = headers[i][1].canonical => j = i
  <2> SUFFICES ASSUME NEW i \in DOMAIN headers
               PROVE  Named(headers, headers[i][1].canonical) = {i} <=>
                        \A j \in DOMAIN headers : headers[j][1].canonical = headers[i][1].canonical => j = i
    BY Zenon
  <2> DEFINE name == headers[i][1].canonical
  <2>1. \A j : j \in Named(headers, name) <=> j \in DOMAIN headers /\ headers[j][1].canonical = name
    BY Zenon DEF Named
  <2>2. i \in Named(headers, name)
    BY <2>1, Zenon
  <2> QED BY <2>1, <2>2, Zenon
<1> QED BY <1>2, <1>3, <1>4, Zenon

\* What TransportInput reports of generic parts.
LEMMA ParseIsSound ==
    ASSUME NEW location \in {Body, InHeader(Name("cipher", "canonical"))}, NEW parts,
           \A headers \in parts : Listed(headers), Parse(fuzz_schema(location, FALSE), parts)
    PROVE  AcceptsExactlyTheSound'
<1> DEFINE s == fuzz_schema(location, FALSE)
<1>1. PICK headers \in parts, content \in {Text("body"), EmptyText} :
         returned' = [kind |-> "parse", schema |-> s, headers |-> headers, body |-> content,
                      outcome |-> outcome_of(parse_response(s, headers, content).err = "none")]
  BY Zenon DEF Parse
<1>2. s.response_cipher = location
  BY DEF fuzz_schema
<1> HIDE DEF s
<1> DEFINE accepted == parse_response(s, headers, content).err = "none"
           fields == {ResponseFields[i] : i \in DOMAIN ResponseFields}
                       \cup (IF location = Body THEN {} ELSE {"cipher"})
           acceptable == /\ \A f \in fields : \E i \in DOMAIN headers :
                               Named(headers, f) = {i} /\ Readable(headers[i][2])
                         /\ location = Body => ~is_blank(content)
<1>3. accepted <=> acceptable
  BY ParseAccepts, Zenon DEF s
<1>4. /\ returned'.kind = "parse" /\ returned'.schema = s /\ returned'.headers = headers
      /\ returned'.body = content /\ returned'.outcome = outcome_of(accepted)
  BY <1>1
<1>5. outcome_of(accepted) = outcome_of(acceptable)
  BY <1>3, Zenon DEF outcome_of
<1>6. GenericAcceptance'
  BY <1>2, <1>4, <1>5, Zenon DEF GenericAcceptance
<1>7. TypedAcceptance'
  BY <1>4 DEF TypedAcceptance
<1> QED BY <1>6, <1>7, Zenon DEF AcceptsExactlyTheSound

\* Results of another kind are not concerned.
LEMMA OtherKinds ==
    ASSUME returned'.kind \notin {"parse", "typed"}
    PROVE  AcceptsExactlyTheSound'
BY Zenon DEF AcceptsExactlyTheSound, GenericAcceptance, TypedAcceptance

\* Of the inputs the fuzz targets declare nothing about, parse_response accepts exactly
\* those in which every mapped header comes once, in any casing, place and company, with a
\* readable value, and RequestParts::new exactly those whose names are distinct tokens and
\* whose values have no control character.
THEOREM LibraryAcceptsExactlyTheSound == Spec => []AcceptsExactlyTheSound
<1>1. ASSUME Init PROVE AcceptsExactlyTheSound
  <2>1. returned.kind = "none"
    BY <1>1 DEF Init, Idle
  <2> QED BY <2>1 DEF AcceptsExactlyTheSound, GenericAcceptance, TypedAcceptance
<1>2. ASSUME AcceptsExactlyTheSound, [Next]_fvars PROVE AcceptsExactlyTheSound'
  <2>1. CASE TransportInput
    <3>1. ASSUME NEW scenario, NEW outcome, Declared(scenario, outcome) PROVE AcceptsExactlyTheSound'
      <4>1. returned'.kind = "declared"
        BY <3>1 DEF Declared
      <4> QED BY <4>1, OtherKinds
    <3>2. ASSUME Parse(header_cipher_schema, generic_header_cipher_parts) PROVE AcceptsExactlyTheSound'
      BY <3>2, ParseIsSound, GenericParts, Zenon DEF header_cipher_schema
    <3>3. ASSUME Parse(schema, generic_transport_parts) PROVE AcceptsExactlyTheSound'
      BY <3>3, ParseIsSound, GenericParts, Zenon DEF schema
    <3> QED BY <2>1, <3>1, <3>2, <3>3, Zenon DEF TransportInput
  <2>2. CASE TypedInput
    <3>1. ASSUME NEW scenario, NEW outcome, Declared(scenario, outcome) PROVE AcceptsExactlyTheSound'
      <4>1. returned'.kind = "declared"
        BY <3>1 DEF Declared
      <4> QED BY <4>1, OtherKinds
    <3>2. ASSUME NEW headers \in generic_typed_parts,
                 returned' = [kind |-> "typed", headers |-> headers,
                              outcome |-> outcome_of(RequestParts_new(headers).err = "none")]
          PROVE  AcceptsExactlyTheSound'
      <4> DEFINE accepted == RequestParts_new(headers).err = "none"
                 acceptable == \A i \in DOMAIN headers :
                                 /\ headers[i][1].canonical \in Tokens /\ headers[i][2].control = "none"
                                 /\ Named(headers, headers[i][1].canonical) = {i}
      <4>1. /\ returned'.kind = "typed" /\ returned'.headers = headers
            /\ returned'.outcome = outcome_of(accepted)
        BY <3>2
      <4>2. accepted <=> acceptable
        BY GenericParts, TypedAccepts, Zenon
      <4>3. outcome_of(accepted) = outcome_of(acceptable)
        BY <4>2, Zenon DEF outcome_of
      <4>4. TypedAcceptance'
        BY <4>1, <4>3, Zenon DEF TypedAcceptance
      <4>5. GenericAcceptance'
        BY <4>1 DEF GenericAcceptance
      <4> QED BY <4>4, <4>5, Zenon DEF AcceptsExactlyTheSound
    <3> QED BY <2>2, <3>1, <3>2, Zenon DEF TypedInput
  <2>3. ASSUME NEW scenario, NEW plaintext, NEW bytes, ContextInput(scenario, plaintext, bytes)
        PROVE  AcceptsExactlyTheSound'
    <3>1. returned'.kind = "context"
      BY <2>3 DEF ContextInput
    <3> QED BY <3>1, OtherKinds
  <2>4. CASE EnvelopeInput
    <3>1. returned'.kind = "envelope"
      BY <2>4 DEF EnvelopeInput
    <3> QED BY <3>1, OtherKinds
  <2>5. CASE NextInput
    <3>1. returned'.kind = "none"
      BY <2>5 DEF NextInput, Idle
    <3> QED BY <3>1, OtherKinds
  <2>6. CASE UNCHANGED fvars
    BY <1>2, <2>6, Zenon DEF fvars, AcceptsExactlyTheSound, GenericAcceptance, TypedAcceptance
  <2> QED BY <1>2, <2>1, <2>2, <2>3, <2>4, <2>5, <2>6, Zenon DEF Next
<1> QED BY <1>1, <1>2, PTL DEF Spec

-----------------------------------------------------------------------------
(* The clients of the targets. *)

\* The payloads of the clients are the plaintexts of the targets.
LEMMA Plaintexts == Payloads = DOMAIN PlaintextLen /\ PayloadLen = PlaintextLen
BY ClientsAssumption, Zenon

\* The envelope targets share one schema and expect one certificate.
LEMMA Adapters ==
    ASSUME NEW t \in EnvelopeTargets
    PROVE  /\ Schema[t] = schema /\ Adapter[t] = "Header"
           /\ Identity[t].remote_signing_certificate = EXPECTED_REMOTE_SIGNING_CERTIFICATE
<1>1. t \in ClientTargets /\ t # "context_envelope"
  BY DEF ClientTargets, EnvelopeTargets
<1>2. Schema = [u \in ClientTargets |-> IF u = "context_envelope" THEN context_schema ELSE schema]
  BY ClientsAssumption, Zenon
<1>3. Adapter = [u \in ClientTargets |-> "Header"]
  BY ClientsAssumption, Zenon
<1>4. Identity = [u \in ClientTargets |->
                    [remote_signing_certificate |-> EXPECTED_REMOTE_SIGNING_CERTIFICATE]]
  BY ClientsAssumption, Zenon
<1> QED BY <1>1, <1>2, <1>3, <1>4

\* How the targets configure their clients.
LEMMA Clients ==
    ASSUME NEW t \in ClientTargets
    PROVE  LET config == Config[t]
               keys == Keys[t]
           IN  /\ config.max_plaintext_bytes = 64 /\ config.iv = "iv"
               /\ config.local_signer_id = "fuzz-signer" /\ config.expected_remote_signer_id = "fuzz-signer"
               /\ config.envelope_mode \in {"LegacyCbc", "Sm4Gcm", "Sm4Ccm"}
               /\ config.envelope_mode = "LegacyCbc" <=> t \in {"encoded_envelope", "context_envelope"}
               /\ config.authentication_mode =
                    IF t = "context_envelope" THEN [kind |-> "ContextBound", domain_separator |-> "fuzz"]
                    ELSE LegacyPlaintext
               /\ keys.local_signing = "k" /\ keys.local_decryption = "k"
               /\ keys.remote_verification = "k" /\ keys.remote_encryption = "k"
<1> DEFINE config == Config[t]
           keys == Keys[t]
<1>1. config = client_of(t) /\ keys = key_material
  <2>1. Config = [u \in ClientTargets |-> client_of(u)]
    BY ClientsAssumption, Zenon
  <2>2. Keys = [u \in ClientTargets |-> key_material]
    BY ClientsAssumption, Zenon
  <2> QED BY <2>1, <2>2
<1> HIDE DEF config, keys
<1>2. /\ keys.local_signing = "k" /\ keys.local_decryption = "k"
      /\ keys.remote_verification = "k" /\ keys.remote_encryption = "k"
  BY <1>1 DEF key_material
<1>3. \A e, a : LET c == client_config(e, a)
                IN  /\ c.max_plaintext_bytes = 64 /\ c.iv = "iv"
                    /\ c.local_signer_id = "fuzz-signer" /\ c.expected_remote_signer_id = "fuzz-signer"
                    /\ c.envelope_mode = e /\ c.authentication_mode = a
  BY DEF client_config, MAX_PLAINTEXT_BYTES
<1>4. \E e, a : /\ config = client_config(e, a)
                /\ e \in {"LegacyCbc", "Sm4Gcm", "Sm4Ccm"}
                /\ e = "LegacyCbc" <=> t \in {"encoded_envelope", "context_envelope"}
                /\ a = IF t = "context_envelope" THEN [kind |-> "ContextBound", domain_separator |-> "fuzz"]
                       ELSE LegacyPlaintext
  <2>1. CASE t = "context_envelope"
    BY <1>1, <2>1, Zenon DEF client_of, context_client
  <2>2. CASE t = "encoded_envelope"
    <3>1. client_of(t) = client /\ t # "context_envelope"
      BY <2>2 DEF client_of
    <3> QED BY <1>1, <2>2, <3>1, Zenon DEF client
  <2>3. CASE t \in {"aead_envelope", "aead_ccm_envelope"}
    <3>1. /\ client_of(t) = aead_client_with("Sm4Gcm") \/ client_of(t) = aead_client_with("Sm4Ccm")
          /\ t # "context_envelope" /\ t # "encoded_envelope"
          /\ "Sm4Gcm" # "LegacyCbc" /\ "Sm4Ccm" # "LegacyCbc"
      BY <2>3 DEF client_of
    <3> QED BY <1>1, <3>1, Zenon DEF aead_client_with
  <2> QED BY <2>1, <2>2, <2>3, Zenon DEF ClientTargets, EnvelopeTargets
<1>5. /\ config.max_plaintext_bytes = 64 /\ config.iv = "iv"
      /\ config.local_signer_id = "fuzz-signer" /\ config.expected_remote_signer_id = "fuzz-signer"
      /\ config.envelope_mode \in {"LegacyCbc", "Sm4Gcm", "Sm4Ccm"}
      /\ config.envelope_mode = "LegacyCbc" <=> t \in {"encoded_envelope", "context_envelope"}
      /\ config.authentication_mode =
           IF t = "context_envelope" THEN [kind |-> "ContextBound", domain_separator |-> "fuzz"]
           ELSE LegacyPlaintext
  BY <1>3, <1>4
<1> QED BY <1>2, <1>5, Zenon DEF config, keys

\* Each passed ClientConfigBuilder::build.
LEMMA ClientsAreConfigured ==
    ASSUME NEW t \in ClientTargets
    PROVE  /\ Configured(t)
           /\ is_aead(t) <=> t \in {"aead_envelope", "aead_ccm_envelope"}
<1> DEFINE config == Config[t]
<1>1. 64 \in 1..UsizeMax
  BY UsizeMaxAssumption DEF U16_MAX
<1>2. /\ config.authentication_mode.kind \in {"LegacyPlaintext", "ContextBound"}
      /\ config.authentication_mode.kind = "LegacyPlaintext"
            <=> config.authentication_mode.domain_separator = ""
  <2>1. \/ config.authentication_mode = [kind |-> "ContextBound", domain_separator |-> "fuzz"]
        \/ config.authentication_mode = [kind |-> "LegacyPlaintext", domain_separator |-> ""]
    BY Clients, Zenon DEF LegacyPlaintext
  <2>0. \A c, k, d : c = [kind |-> k, domain_separator |-> d] => c.kind = k /\ c.domain_separator = d
    OBVIOUS
  <2> HIDE DEF config
  <2>2. CASE config.authentication_mode = [kind |-> "ContextBound", domain_separator |-> "fuzz"]
    <3>1. config.authentication_mode.kind = "ContextBound" /\ config.authentication_mode.domain_separator = "fuzz"
      BY <2>0, <2>2, Zenon
    <3> QED BY <3>1, Zenon
  <2>3. CASE config.authentication_mode = [kind |-> "LegacyPlaintext", domain_separator |-> ""]
    <3>1. config.authentication_mode.kind = "LegacyPlaintext" /\ config.authentication_mode.domain_separator = ""
      BY <2>0, <2>3, Zenon
    <3> QED BY <3>1, Zenon
  <2> QED BY <2>1, <2>2, <2>3, Zenon
<1>3. Configured(t)
  BY <1>1, <1>2, Clients, Zenon DEF Configured
<1>4. is_aead(t) <=> t \notin {"encoded_envelope", "context_envelope"}
  BY Clients, Zenon DEF is_aead
<1>5. t \notin {"encoded_envelope", "context_envelope"} <=> t \in {"aead_envelope", "aead_ccm_envelope"}
  BY DEF ClientTargets, EnvelopeTargets
<1> QED BY <1>3, <1>4, <1>5, Zenon

-----------------------------------------------------------------------------
(* open_response of the envelope targets. *)

\* What the headers of an envelope response carry.
carried(values, claim) ==
    [signature |-> values.signature.text, wrapped_session_key |-> values.wrapped.text,
     remote_signing_certificate |-> claim]

\* The headers an envelope target sends are those its schema lays out.
LEMMA EnvelopeHeaders ==
    ASSUME NEW values, NEW claim
    PROVE  envelope_response_parts(values, claim).headers =
              laid_out(schema, carried(values, claim))
<1> DEFINE v == carried(values, claim)
           s == <<"signature", Name("signature", "canonical")>>
           w == <<"wrapped_session_key", Name("wrapped_session_key", "canonical")>>
           r == <<"remote_signing_certificate", Name("remote_signing_certificate", "canonical")>>
           read == slots(schema)
<1>1. /\ schema.bound = FALSE /\ schema.response_cipher = Body
      /\ \A f \in {"signature", "wrapped_session_key", "remote_signing_certificate"} :
            schema.response[f] = Name(f, "canonical")
  <2>1. /\ schema.bound = FALSE /\ schema.response_cipher = Body
        /\ schema.response = [f \in DOMAIN EmptyBuilder.response |-> Name(f, "canonical")]
    BY DEF schema, fuzz_schema
  <2>2. DOMAIN EmptyBuilder.response = {ResponseFields[i] : i \in DOMAIN ResponseFields}
    BY DEF EmptyBuilder
  <2> QED BY <2>1, <2>2, FieldNames, Zenon
<1>2. [k \in DOMAIN ResponseFields |->
         <<ResponseFields[k], schema.response[ResponseFields[k]]>>] = <<s, w, r>>
  <2>1. /\ DOMAIN ResponseFields = 1..3
        /\ ResponseFields[1] = "signature" /\ ResponseFields[2] = "wrapped_session_key"
        /\ ResponseFields[3] = "remote_signing_certificate"
    BY DEF ResponseFields
  <2>2. \A k \in 1..3 : k = 1 \/ k = 2 \/ k = 3
    OBVIOUS
  <2> QED BY <1>1, <2>1, <2>2
<1>3. read = <<s, w, r>>
  <2>1. read = (<<s, w, r>> \o <<>>) \o <<>>
    BY <1>1, <1>2, Zenon DEF slots
  <2>2. (<<s, w, r>> \o <<>>) \o <<>> = <<s, w, r>>
    OBVIOUS
  <2> QED BY <2>1, <2>2, Zenon
<1>4. v["signature"] = values.signature.text /\ v["wrapped_session_key"] = values.wrapped.text
      /\ v["remote_signing_certificate"] = claim
  BY DEF carried
<1> HIDE DEF v, read
<1>5. laid_out(schema, v) = [k \in DOMAIN read |-> <<read[k][2], v[read[k][1]]>>]
  BY Zenon DEF laid_out, read
<1>6. [k \in DOMAIN <<s, w, r>> |-> <<<<s, w, r>>[k][2], v[<<s, w, r>>[k][1]]>>] =
        <<<<s[2], v[s[1]]>>, <<w[2], v[w[1]]>>, <<r[2], v[r[1]]>>>>
  <2> HIDE DEF s, w, r
  <2> QED OBVIOUS
<1>7. /\ s[1] = "signature" /\ s[2] = Name("signature", "canonical")
      /\ w[1] = "wrapped_session_key" /\ w[2] = Name("wrapped_session_key", "canonical")
      /\ r[1] = "remote_signing_certificate" /\ r[2] = Name("remote_signing_certificate", "canonical")
  OBVIOUS
<1>8. envelope_response_parts(values, claim).headers =
        <<<<Name("signature", "canonical"), values.signature.text>>,
          <<Name("wrapped_session_key", "canonical"), values.wrapped.text>>,
          <<Name("remote_signing_certificate", "canonical"), claim>>>>
  BY DEF envelope_response_parts
<1> HIDE DEF s, w, r
<1> QED BY <1>3, <1>4, <1>5, <1>6, <1>7, <1>8, Zenon DEF v

\* The envelope the client makes of these texts.
received(values) ==
    [cipher |-> values.cipher.text.core[2], wrapped_session_key |-> values.wrapped.text.core[2],
     signature |-> values.signature.text.core[2]]

\* What it takes to get as far as open.
Reads(values, claim) ==
    /\ Readable(values.signature.text) /\ Readable(values.wrapped.text) /\ Readable(claim)
    /\ ~is_blank(values.cipher.text)
    /\ trim(claim) = EXPECTED_REMOTE_SIGNING_CERTIFICATE

\* open_response refuses what does not read, and opens what does.
LEMMA OpenResponse ==
    ASSUME NEW t \in EnvelopeTargets, NEW values, NEW claim,
           IsText(values.signature.text), IsText(values.wrapped.text),
           IsText(values.cipher.text), IsText(claim),
           NEW o \in open_response(t, envelope_response_parts(values, claim))
    PROVE  /\ ~Reads(values, claim) => o = [result |-> "ProtocolAdapter", plaintext |-> None]
           /\ Reads(values, claim) => \E outcome \in open(t, received(values), Legacy) :
                                         o = [result |-> outcome.result, plaintext |-> outcome.plaintext]
<1> DEFINE v == carried(values, claim)
           content == values.cipher.text
           parsed == parse_response(schema, laid_out(schema, v), content)
<1>1. v["signature"] = values.signature.text /\ v["wrapped_session_key"] = values.wrapped.text
      /\ v["remote_signing_certificate"] = claim
  BY DEF carried
<1>2. /\ IsBuilder(schema) /\ Apart(schema)
      /\ schema.bound = FALSE /\ schema.response_cipher = Body
  BY Schemas, Zenon DEF schema
<1>3. \A text : IsText(text) => trim(text).core = text.core /\ trim(text).control = text.control
  <2> SUFFICES ASSUME NEW text, IsText(text)
               PROVE  trim(text).core = text.core /\ trim(text).control = text.control
    BY Zenon
  <2>1. trim(text) = [core |-> text.core, pad |-> FALSE, control |-> text.control]
    BY Trimmed, Zenon
  <2>2. [core |-> text.core, pad |-> FALSE, control |-> text.control].core = text.core
        /\ [core |-> text.core, pad |-> FALSE, control |-> text.control].control = text.control
    OBVIOUS
  <2> QED BY <2>1, <2>2, Zenon
<1> HIDE DEF v
<1>4. /\ parsed.err = "none" <=>
           /\ Sendable(v["signature"]) /\ Sendable(v["wrapped_session_key"])
           /\ Sendable(v["remote_signing_certificate"])
           /\ ~is_blank(content)
           /\ validate_context_value(trim(v["remote_signing_certificate"]))
      /\ parsed.err = "none" =>
           /\ parsed.envelope = [signature |-> trim(v["signature"]),
                                 wrapped_session_key |-> trim(v["wrapped_session_key"]),
                                 cipher |-> trim(content)]
           /\ parsed.remote_signing_certificate_id = trim(v["remote_signing_certificate"])
           /\ parsed.context = Legacy
  <2>1. LegacyReading(parsed, v, content)
    BY <1>2, ParseLegacy, Zenon
  <2> HIDE DEF parsed
  <2> QED BY <2>1, Zenon DEF LegacyReading
<1>5. \A text : Sendable(text) <=> Readable(text)
  BY Zenon DEF Sendable, HeaderValue_new, is_blank, Readable
<1>6. Readable(claim) => validate_context_value(trim(claim))
  BY <1>3 DEF validate_context_value, Readable, is_blank
<1>7. parsed.err = "none" <=> /\ Readable(values.signature.text) /\ Readable(values.wrapped.text)
                              /\ Readable(claim) /\ ~is_blank(content)
  BY <1>1, <1>4, <1>5, <1>6, Zenon
<1>8. parsed.err = "none" =>
        /\ parsed.remote_signing_certificate_id = trim(claim) /\ parsed.context = Legacy
        /\ received_envelope(parsed.envelope.cipher, parsed.envelope.wrapped_session_key,
                                    parsed.envelope.signature) = received(values)
  <2> SUFFICES ASSUME parsed.err = "none"
               PROVE  /\ parsed.remote_signing_certificate_id = trim(claim) /\ parsed.context = Legacy
                      /\ received_envelope(parsed.envelope.cipher,
                            parsed.envelope.wrapped_session_key, parsed.envelope.signature)
                           = received(values)
    BY Zenon
  <2>1. /\ parsed.envelope.signature = trim(values.signature.text)
        /\ parsed.envelope.wrapped_session_key = trim(values.wrapped.text)
        /\ parsed.envelope.cipher = trim(values.cipher.text)
    <3>1. parsed.envelope = [signature |-> trim(v["signature"]),
                             wrapped_session_key |-> trim(v["wrapped_session_key"]),
                             cipher |-> trim(content)]
      BY <1>4, Zenon
    <3> HIDE DEF parsed
    <3> QED BY <1>1, <3>1
  <2> HIDE DEF parsed
  <2>2. /\ as_base64(parsed.envelope.signature) = values.signature.text.core[2]
        /\ as_base64(parsed.envelope.wrapped_session_key) = values.wrapped.text.core[2]
        /\ as_base64(parsed.envelope.cipher) = values.cipher.text.core[2]
    BY <1>3, <2>1, Zenon DEF as_base64
  <2> QED BY <1>1, <1>3, <1>4, <2>2, Zenon DEF received_envelope, received, parsed
<1>9. o \in IF parsed.err # "none" \/ ~claim_expected(t, parsed.remote_signing_certificate_id)
                THEN {[result |-> "ProtocolAdapter", plaintext |-> None]}
                ELSE {[result |-> outcome.result, plaintext |-> outcome.plaintext] :
                         outcome \in open(t, received_envelope(parsed.envelope.cipher,
                                                    parsed.envelope.wrapped_session_key,
                                                    parsed.envelope.signature), parsed.context)}
  <2>1. envelope_response_parts(values, claim).body = content
    BY DEF envelope_response_parts
  <2>2. parse_response(schema, envelope_response_parts(values, claim).headers,
                       envelope_response_parts(values, claim).body) = parsed
    BY <2>1, EnvelopeHeaders, Zenon DEF v
  <2> HIDE DEF parsed
  <2>3. parses(t, envelope_response_parts(values, claim)) = {parsed}
    BY <2>2, Adapters, Zenon DEF parses
  <2> QED BY <2>3, Zenon DEF open_response
<1>10. \A id : claim_expected(t, id) <=> id = EXPECTED_REMOTE_SIGNING_CERTIFICATE
  BY Adapters, Zenon DEF claim_expected
<1> HIDE DEF parsed
<1>11. CASE Reads(values, claim)
  <2>1. parsed.err = "none" /\ claim_expected(t, parsed.remote_signing_certificate_id)
    BY <1>7, <1>8, <1>10, <1>11, Zenon DEF Reads
  <2>2. o \in {[result |-> outcome.result, plaintext |-> outcome.plaintext] :
                   outcome \in open(t, received(values), Legacy)}
    BY <1>8, <1>9, <2>1, Zenon
  <2> QED BY <1>11, <2>2, Zenon
<1>12. CASE ~Reads(values, claim)
  <2>1. parsed.err # "none" \/ ~claim_expected(t, parsed.remote_signing_certificate_id)
    BY <1>7, <1>8, <1>10, <1>12, Zenon DEF Reads
  <2>2. o = [result |-> "ProtocolAdapter", plaintext |-> None]
    BY <1>9, <2>1, Zenon
  <2> QED BY <1>12, <2>2, Zenon
<1> QED BY <1>11, <1>12, Zenon

-----------------------------------------------------------------------------
(* The texts the envelope targets send. *)

\* A base64 text is not blank and carries no control character.
LEMMA TextOf ==
    ASSUME NEW base64
    PROVE  /\ IsText(as_text(base64)) /\ ~is_blank(as_text(base64))
           /\ as_text(base64).core[2] = base64 /\ as_text(base64).control = "none"
<1>1. as_text(base64) = [core |-> <<"base64", base64>>, pad |-> FALSE, control |-> "none"]
  BY Zenon DEF as_text
<1> QED BY <1>1 DEF IsText, is_blank

\* What select_value chooses, and how.
Selected(valid, limit, e) ==
    \/ e.mode = "valid" /\ e.text = as_text(valid)
    \/ e.mode = "raw" /\ e.text \in raw_texts
    \/ e.mode = "boundary" /\ \E n \in limit - 1..limit + 1 : e.text = boundary_text(n)
    \/ e.mode = "mutated" /\ e.text \in mutate(valid)

\* select_value has these four modes and no other.
LEMMA SelectValue ==
    ASSUME NEW valid, NEW limit, NEW e \in select_value(valid, limit)
    PROVE  Selected(valid, limit, e)
<1>0. \A m, x : [mode |-> m, text |-> x].mode = m /\ [mode |-> m, text |-> x].text = x
  OBVIOUS
<1>1. CASE e = [mode |-> "valid", text |-> as_text(valid)]
  BY <1>0, <1>1, Zenon DEF Selected
<1>2. CASE \E x \in raw_texts : e = [mode |-> "raw", text |-> x]
  BY <1>0, <1>2, Zenon DEF Selected
<1>3. CASE \E n \in limit - 1..limit + 1 : e = [mode |-> "boundary", text |-> boundary_text(n)]
  BY <1>0, <1>3, Zenon DEF Selected
<1>4. CASE \E x \in mutate(valid) : e = [mode |-> "mutated", text |-> x]
  BY <1>0, <1>4, Zenon DEF Selected
<1> QED BY <1>1, <1>2, <1>3, <1>4, Zenon DEF select_value

\* A text that is not the sealed one: its bytes are no cryptographic object.
Foreign(base64) == base64.bytes.form \in {"none", "noise", "scrambled"}

\* Characters that do not decode, or decode to other bytes.
LEMMA ForeignBytes ==
    ASSUME NEW n
    PROVE  Foreign(Undecodable(n)) /\ \A k : Foreign([len |-> n, bytes |-> Scrambled(k)])
<1>1. Undecodable(n) = [len |-> n, bytes |-> [form |-> "none"]]
  BY Zenon DEF Undecodable, None
<1>2. \A k : Scrambled(k).form = "scrambled"
  BY DEF Scrambled
<1>3. \A k : Foreign([len |-> n, bytes |-> Scrambled(k)])
  BY <1>2 DEF Foreign
<1>4. Foreign(Undecodable(n))
  BY <1>1 DEF Foreign
<1> QED BY <1>3, <1>4, Zenon

\* White space around a text and a control character in it leave its characters alone.
LEMMA EditedTexts ==
    ASSUME NEW base64, NEW x, x \in {Padded(as_text(base64)), With(as_text(base64), "line")}
    PROVE  IsText(x) /\ x.core[2] = base64
<1> DEFINE y == as_text(base64)
<1>1. IsText(y) /\ y.core[2] = base64
  BY TextOf, Zenon
<1> HIDE DEF y
<1>2. IsText(Padded(y)) /\ IsText(With(y, "line"))
  BY <1>1, TextsAreTexts, Zenon
<1>3. Padded(y).core = y.core /\ With(y, "line").core = y.core
  <2>1. y = [core |-> y.core, pad |-> y.pad, control |-> y.control]
    BY <1>1, Zenon DEF IsText
  <2>2. \A v : [y EXCEPT !.pad = v].core = y.core /\ [y EXCEPT !.control = v].core = y.core
    BY <2>1
  <2> QED BY <2>2, Zenon DEF Padded, With
<1>4. x = Padded(y) \/ x = With(y, "line")
  BY Zenon DEF y
<1> QED BY <1>1, <1>2, <1>3, <1>4, Zenon

\* A raw text is blank, or one that no seal produced, whatever its length.
LEMMA RawTexts ==
    ASSUME NEW x \in raw_texts
    PROVE  IsText(x) /\ (is_blank(x) \/ Foreign(x.core[2]))
<1>1. CASE x \in {EmptyText, Padded(EmptyText)}
  <2>1. IsText(x)
    BY <1>1, TextsAreTexts, Zenon
  <2>2. EmptyText.core = <<>>
    BY DEF EmptyText
  <2>3. Padded(EmptyText).core = EmptyText.core
    <3>1. Padded(EmptyText) = [core |-> EmptyText.core, pad |-> TRUE, control |-> EmptyText.control]
      BY TextsAreTexts, Zenon
    <3>2. \A c, v, w : [core |-> c, pad |-> v, control |-> w].core = c
      OBVIOUS
    <3> QED BY <3>1, <3>2, Zenon
  <2> QED BY <1>1, <2>1, <2>2, <2>3, Zenon DEF is_blank
<1>2. ASSUME NEW base64 \in raw_base64, x = as_text(base64) \/ x = Padded(as_text(base64))
      PROVE  IsText(x) /\ Foreign(x.core[2])
  <2>1. Foreign(base64)
    BY ForeignBytes, Zenon DEF raw_base64
  <2> QED BY <1>2, <2>1, TextOf, EditedTexts, Zenon
<1>3. ASSUME NEW n, x = With(as_text(Undecodable(n)), "line")
      PROVE  IsText(x) /\ Foreign(x.core[2])
  BY <1>3, ForeignBytes, EditedTexts, Zenon
<1> QED BY <1>1, <1>2, <1>3, Zenon DEF raw_texts

\* No seal produced a boundary text.
LEMMA BoundaryTexts ==
    ASSUME NEW n
    PROVE  /\ IsText(boundary_text(n)) /\ ~is_blank(boundary_text(n))
           /\ Foreign(boundary_text(n).core[2])
<1>1. \E base64 : boundary_text(n) = as_text(base64) /\ Foreign(base64)
  BY ForeignBytes, Zenon DEF boundary_text
<1> QED BY <1>1, TextOf, Zenon

\* Nor a mutated one.
LEMMA MutatedTexts ==
    ASSUME NEW valid, NEW x \in mutate(valid)
    PROVE  IsText(x) /\ ~is_blank(x) /\ Foreign(x.core[2])
<1>1. \E base64 : x = as_text(base64) /\ Foreign(base64)
  BY ForeignBytes, Zenon DEF mutate
<1> QED BY <1>1, TextOf, Zenon

\* A value of select_value is the sealed text, or nothing that open accepts in its place.
LEMMA SelectedTexts ==
    ASSUME NEW valid, NEW limit, NEW e, Selected(valid, limit, e)
    PROVE  /\ IsText(e.text)
           /\ e.mode = "valid" => ~is_blank(e.text) /\ e.text.control = "none" /\ e.text.core[2] = valid
           /\ e.mode # "valid" => is_blank(e.text) \/ Foreign(e.text.core[2])
<1>1. CASE e.mode = "valid" /\ e.text = as_text(valid)
  BY <1>1, TextOf
<1>2. CASE e.mode = "raw" /\ e.text \in raw_texts
  BY <1>2, RawTexts
<1>3. CASE e.mode = "boundary" /\ \E n \in limit - 1..limit + 1 : e.text = boundary_text(n)
  BY <1>3, BoundaryTexts
<1>4. CASE e.mode = "mutated" /\ e.text \in mutate(valid)
  BY <1>4, MutatedTexts
<1> QED BY <1>1, <1>2, <1>3, <1>4, Zenon DEF Selected

\* A claim that names the expected certificate once trimmed can be read.
LEMMA Claims ==
    ASSUME NEW claim \in encoded_certificate_claims
    PROVE  /\ IsText(claim)
           /\ trim(claim) = EXPECTED_REMOTE_SIGNING_CERTIFICATE => Readable(claim)
<1>1. \A text : IsText(text) => IsText(Padded(text))
  <2> SUFFICES ASSUME NEW text, IsText(text) PROVE IsText(Padded(text))
    BY Zenon
  <2>1. \A x : [text EXCEPT !.pad = x] = [core |-> text.core, pad |-> x, control |-> text.control]
    BY WithPad, Zenon
  <2>2. Padded(text) = [core |-> text.core, pad |-> TRUE, control |-> text.control]
    BY <2>1, Zenon DEF Padded
  <2> QED BY <2>2, Zenon DEF IsText
<1>2. IsText(EmptyText) /\ \A token : IsText(Text(token))
  BY Zenon DEF EmptyText, Text, IsText
<1>3. IsText(claim)
  BY <1>1, <1>2, Zenon DEF encoded_certificate_claims, EXPECTED_REMOTE_SIGNING_CERTIFICATE
<1>4. ASSUME trim(claim) = EXPECTED_REMOTE_SIGNING_CERTIFICATE PROVE Readable(claim)
  <2>1. trim(claim) = [core |-> claim.core, pad |-> FALSE, control |-> claim.control]
    <3>1. \A x : [claim EXCEPT !.pad = x] = [core |-> claim.core, pad |-> x, control |-> claim.control]
      BY <1>3, WithPad, Zenon
    <3> QED BY <3>1, Zenon DEF trim
  <2>2. EXPECTED_REMOTE_SIGNING_CERTIFICATE =
          [core |-> <<"fuzz-certificate">>, pad |-> FALSE, control |-> "none"]
    BY Zenon DEF EXPECTED_REMOTE_SIGNING_CERTIFICATE, Text
  <2>3. claim.core = <<"fuzz-certificate">> /\ claim.control = "none"
    <3>1. \A k, l, x, m, n : [core |-> k, pad |-> x, control |-> l] = [core |-> m, pad |-> x, control |-> n]
                              => k = m /\ l = n
      OBVIOUS
    <3>2. [core |-> claim.core, pad |-> FALSE, control |-> claim.control] =
            [core |-> <<"fuzz-certificate">>, pad |-> FALSE, control |-> "none"]
      BY <1>4, <2>1, <2>2, Zenon
    <3> QED BY <3>1, <3>2, Zenon
  <2>4. <<"fuzz-certificate">> # <<>>
    OBVIOUS
  <2> QED BY <2>3, <2>4, Zenon DEF Readable, is_blank
<1> QED BY <1>3, <1>4, Zenon

-----------------------------------------------------------------------------
(* The sealed envelope of an envelope target, and its own limits. *)

\* The limit the harness computes is the library's.
LEMMA TextLimits ==
    ASSUME NEW t \in EnvelopeTargets
    PROVE  /\ TextLimit(t) = cipher_limit(t)
           /\ t = "encoded_envelope" => cipher_limit(t) = 108
           /\ t # "encoded_envelope" => cipher_limit(t) = 128
<1>1. t \in ClientTargets /\ (t \in {"aead_envelope", "aead_ccm_envelope"} <=> t # "encoded_envelope")
  BY DEF ClientTargets, EnvelopeTargets
<1>2. Config[t].max_plaintext_bytes = 64
  BY <1>1, Clients
<1>3. is_aead(t) <=> t # "encoded_envelope"
  BY <1>1, ClientsAreConfigured, Zenon
<1>4. TextLimit(t) = IF t # "encoded_envelope" THEN base64_len(max_frame_bytes(64))
                             ELSE base64_len(padded_cipher_len(64))
  BY <1>2, <1>3 DEF TextLimit
<1>5. base64_len(max_frame_bytes(64)) = 128
  BY UsizeMaxAssumption DEF U16_MAX, base64_len, max_frame_bytes, FRAME_OVERHEAD_BYTES
<1>6. base64_len(padded_cipher_len(64)) = 108
  BY UsizeMaxAssumption DEF U16_MAX, base64_len, padded_cipher_len, SM4_BLOCK_BYTES
<1>7. CIPHER_LIMIT = 108 /\ AEAD_CIPHER_LIMIT = 128
  BY DEF CIPHER_LIMIT, AEAD_CIPHER_LIMIT, PADDED_CIPHER_BYTES, MAX_PLAINTEXT_BYTES, AEAD_FRAME_OVERHEAD_BYTES
<1> QED BY <1>4, <1>5, <1>6, <1>7 DEF cipher_limit

\* The seal of a target, as a function of the target.
seal_of(t) == [by |-> t, payload |-> "valid", context |-> Legacy, draw |-> 1]

\* Its fields.
LEMMA SealOf ==
    ASSUME NEW t
    PROVE  /\ seal_of(t).by = t /\ seal_of(t).payload = "valid"
           /\ seal_of(t).context = Legacy /\ seal_of(t).draw = 1
BY DEF seal_of

\* seal accepts it, and the target itself is the one it is for.
LEMMA ValidSeal ==
    ASSUME NEW t \in EnvelopeTargets
    PROVE  /\ Accepted(seal_of(t)) /\ SealedFor(seal_of(t), t)
           /\ PlaintextLen["valid"] = 13 /\ "valid" \in DOMAIN PlaintextLen
<1>1. t \in ClientTargets /\ t # "context_envelope"
  BY DEF ClientTargets, EnvelopeTargets
<1>2. PlaintextLen["valid"] = 13 /\ "valid" \in DOMAIN PlaintextLen
  BY DEF PlaintextLen
<1> DEFINE config == Config[t]
<1>3. ~(PlaintextLen["valid"] > config.max_plaintext_bytes) /\ PlaintextLen["valid"] <= config.max_plaintext_bytes
  <2>1. config.max_plaintext_bytes = 64
    BY <1>1, Clients
  <2> HIDE DEF config
  <2> QED BY <1>2, <2>1
<1>4. kinds_match(config.authentication_mode, Legacy)
  <2>1. config.authentication_mode = LegacyPlaintext
    BY <1>1, Clients, Zenon
  <2>2. \A d : [kind |-> "LegacyPlaintext", domain_separator |-> d].kind = "LegacyPlaintext"
    OBVIOUS
  <2>3. LegacyPlaintext.kind = "LegacyPlaintext"
    BY <2>2, Zenon DEF LegacyPlaintext
  <2>4. Legacy.kind = "Legacy"
    BY DEF Legacy
  <2> QED BY <2>1, <2>3, <2>4, Zenon DEF kinds_match
<1>5. seal_error(t, "valid", Legacy) = "none"
  BY <1>3, <1>4, Plaintexts, Zenon DEF seal_error
<1>6. Accepted(seal_of(t))
  BY <1>2, <1>5, Plaintexts, SealOf, Zenon DEF Accepted
<1>7. SealedFor(seal_of(t), t)
  <2>1. /\ Keys[t].remote_encryption = Keys[t].local_decryption
        /\ Keys[t].local_signing = Keys[t].remote_verification
        /\ config.local_signer_id = config.expected_remote_signer_id
    BY <1>1, Clients, Zenon
  <2> QED BY <1>3, <2>1, Plaintexts, SealOf, Zenon DEF SealedFor
<1> QED BY <1>2, <1>6, <1>7, Zenon

\* The bytes of its three fields are the only ones of their kind, and its cipher text is
\* within the limit.
LEMMA ValidEnvelope ==
    ASSUME NEW t \in EnvelopeTargets
    PROVE  LET e == envelope_of(seal_of(t))
           IN  /\ e.cipher.len \in Nat /\ e.cipher.len <= 60
               /\ e.signature.bytes.msg = PayloadBytes("valid")
<1> DEFINE e == envelope_of(seal_of(t))
           config == Config[t]
           cipher == encrypt(t, 1, Legacy, "valid")
<1>1. t \in ClientTargets /\ t # "context_envelope"
  BY DEF ClientTargets, EnvelopeTargets
<1>2. e.cipher = encode(cipher)
  BY SealOf DEF envelope_of
<1>3. byte_len(cipher) \in {16, 43}
  <2>1. CASE is_aead(t)
    <3>1. cipher.form = "frame" /\ cipher.payload = "valid"
      BY <2>1 DEF encrypt, aead_encrypt
    <3>2. byte_len(cipher) = frame_len(PlaintextLen["valid"])
      BY <3>1, Plaintexts DEF byte_len
    <3> QED BY <3>2, ValidSeal DEF frame_len, FRAME_OVERHEAD_BYTES
  <2>2. CASE ~is_aead(t)
    <3>1. cipher.form = "cbc" /\ cipher.payload = "valid"
      BY <2>2 DEF encrypt, Cbc
    <3>2. byte_len(cipher) = cbc_cipher_len(PlaintextLen["valid"])
      BY <3>1, Plaintexts DEF byte_len
    <3> QED BY <3>2, ValidSeal DEF cbc_cipher_len, SM4_BLOCK_BYTES
  <2> QED BY <2>1, <2>2, Zenon
<1>4. e.cipher.len = encoded_len(byte_len(cipher))
  <2> HIDE DEF cipher, e
  <2> QED BY <1>2 DEF encode
<1>5. e.cipher.len \in Nat /\ e.cipher.len <= 60
  <2> HIDE DEF cipher, e
  <2> QED BY <1>3, <1>4 DEF encoded_len
<1>6. authentication_input(config.authentication_mode, Legacy, PayloadBytes("valid"))
        = PayloadBytes("valid")
  <2>1. config.authentication_mode = LegacyPlaintext
    BY <1>1, Clients, Zenon
  <2>2. \A d : [kind |-> "LegacyPlaintext", domain_separator |-> d].kind = "LegacyPlaintext"
    OBVIOUS
  <2>3. LegacyPlaintext.kind = "LegacyPlaintext"
    BY <2>2, Zenon DEF LegacyPlaintext
  <2>4. Legacy.kind = "Legacy"
    BY DEF Legacy
  <2> QED BY <2>1, <2>3, <2>4, Zenon DEF authentication_input, kinds_match
<1>7. e.signature.bytes.msg = PayloadBytes("valid")
  <2> DEFINE m == authentication_input(config.authentication_mode, Legacy, PayloadBytes("valid"))
             by == Keys[t].local_signing
             id == config.local_signer_id
  <2>1. e.signature = encode(Signature(by, id, m))
    BY SealOf DEF envelope_of
  <2> HIDE DEF e, m, by, id
  <2>2. e.signature.bytes = Signature(by, id, m)
    BY <2>1 DEF encode
  <2>3. e.signature.bytes.msg = m
    BY <2>2 DEF Signature
  <2> QED BY <1>6, <2>3, Zenon DEF m
<1> QED BY <1>5, <1>7, Zenon

-----------------------------------------------------------------------------
(* What open_response makes of them. *)

\* Values chosen for the fields of this target's envelope.
Chosen(t, values) ==
    LET e == envelope_of(seal_of(t))
    IN  /\ DOMAIN values = {"signature", "wrapped", "cipher"}
        /\ Selected(e.signature, AUXILIARY_LIMIT, values.signature)
        /\ Selected(e.wrapped_session_key, AUXILIARY_LIMIT, values.wrapped)
        /\ Selected(e.cipher, cipher_limit(t), values.cipher)

\* The values EnvelopeInput chooses from are of this kind.
LEMMA EncodedValues ==
    ASSUME NEW values \in encoded_values
    PROVE  Chosen(binary, values)
<1> DEFINE e == envelope_of(valid_seal)
<1>1. e = envelope_of(seal_of(binary))
  BY Zenon DEF valid_seal, seal_of
<1> HIDE DEF e
<1>2. /\ DOMAIN values = {"signature", "wrapped", "cipher"}
      /\ values.signature \in select_value(e.signature, AUXILIARY_LIMIT)
      /\ values.wrapped \in select_value(e.wrapped_session_key, AUXILIARY_LIMIT)
      /\ values.cipher \in select_value(e.cipher, cipher_limit(binary))
  BY DEF encoded_values, e
<1> QED BY <1>1, <1>2, SelectValue, Zenon DEF Chosen

\* BoundariesAreTight and OpensExactlyTheValid, of one call.
Tight(t, values, claim, o) ==
    o.result = "MessageTooLarge" <=>
        /\ ~is_blank(values.cipher.text) /\ as_base64(values.cipher.text).len > cipher_limit(t)
        /\ Readable(values.signature.text) /\ Readable(values.wrapped.text)
        /\ trim(claim) = EXPECTED_REMOTE_SIGNING_CERTIFICATE

Exact(values, claim, o) ==
    LET intact == /\ \A f \in DOMAIN values : values[f].mode = "valid"
                  /\ trim(claim) = EXPECTED_REMOTE_SIGNING_CERTIFICATE
    IN  o.plaintext = IF intact THEN PayloadBytes("valid") ELSE None

\* Every call of an envelope target is tight: only a cipher beyond the limit is too large.
LEMMA CallIsTight ==
    ASSUME NEW t \in EnvelopeTargets, NEW values, Chosen(t, values),
           NEW claim \in encoded_certificate_claims,
           NEW o \in open_response(t, envelope_response_parts(values, claim))
    PROVE  Tight(t, values, claim, o)
<1>1. /\ IsText(values.signature.text) /\ IsText(values.wrapped.text)
      /\ IsText(values.cipher.text) /\ IsText(claim)
  BY SelectedTexts, Claims, Zenon DEF Chosen
<1>2. trim(claim) = EXPECTED_REMOTE_SIGNING_CERTIFICATE => Readable(claim)
  BY Claims, Zenon
<1>3. CASE Reads(values, claim)
  <2>1. PICK outcome \in open(t, received(values), Legacy) :
                o = [result |-> outcome.result, plaintext |-> outcome.plaintext]
    BY <1>1, <1>3, OpenResponse
  <2>2. outcome.result = "MessageTooLarge" <=> received(values).cipher.len > TextLimit(t)
    BY OpenVerdict, Zenon DEF Verdict
  <2>3. o.result = outcome.result
    BY <2>1
  <2>4. received(values).cipher = as_base64(values.cipher.text)
    BY DEF received, as_base64
  <2>5. TextLimit(t) = cipher_limit(t)
    BY TextLimits, Zenon
  <2> QED BY <1>3, <2>2, <2>3, <2>4, <2>5, Zenon DEF Tight, Reads
<1>4. CASE ~Reads(values, claim)
  <2>1. o = [result |-> "ProtocolAdapter", plaintext |-> None]
    BY <1>1, <1>4, OpenResponse, Zenon
  <2>2. o.result # "MessageTooLarge"
    BY <2>1
  <2> QED BY <1>2, <1>4, <2>2, Zenon DEF Tight, Reads
<1> QED BY <1>3, <1>4, Zenon

\* The sealed envelope opens to VALID_PLAINTEXT.
LEMMA ValidOpens ==
    ASSUME NEW t \in EnvelopeTargets,
           NEW o \in open(t, envelope_of(seal_of(t)), Legacy)
    PROVE  o.result = "Ok" /\ o.plaintext = PayloadBytes("valid")
<1> DEFINE s == seal_of(t)
<1>1. t \in ClientTargets
  BY DEF ClientTargets, EnvelopeTargets
<1>2. Configured(t)
  BY <1>1, ClientsAreConfigured, Zenon
<1>3. Accepted(s) /\ SealedFor(s, t)
  BY ValidSeal, Zenon
<1>4. s.context = Legacy /\ s.payload = "valid"
  BY SealOf, Zenon
<1> HIDE DEF s
<1>5. o \in open(t, envelope_of(s), s.context)
  BY <1>4, Zenon DEF s
<1>6. CASE is_aead(t)
  <2>1. o \in aead_open(t, envelope_of(s), s.context)
    BY <1>5, <1>6, Zenon DEF open
  <2> QED BY <1>2, <1>3, <1>4, <1>6, <2>1, AeadRoundTrip, Zenon
<1>7. CASE ~is_aead(t)
  <2>1. o \in cbc_open(t, envelope_of(s), s.context)
    BY <1>5, <1>7, Zenon DEF open
  <2> QED BY <1>2, <1>3, <1>4, <1>7, <2>1, CbcRoundTrip, Zenon
<1> QED BY <1>6, <1>7, Zenon

\* With a foreign field in it, it does not open.
LEMMA ForeignRefused ==
    ASSUME NEW t \in EnvelopeTargets, NEW envelope,
           envelope.signature = envelope_of(seal_of(t)).signature \/ Foreign(envelope.signature),
           \/ Foreign(envelope.signature)
           \/ Foreign(envelope.wrapped_session_key)
           \/ Foreign(envelope.cipher),
           NEW o \in open(t, envelope, Legacy)
    PROVE  o.plaintext = None
<1>1. Verdict(t, envelope, o)
  BY OpenVerdict, Zenon
<1> SUFFICES ASSUME o.result = "Ok" PROVE FALSE
  BY <1>1, Zenon DEF Verdict
<1> DEFINE mode == Config[t].authentication_mode
           input == authentication_input(mode, Legacy, o.plaintext)
<1>2. t \in ClientTargets /\ t # "context_envelope"
  BY DEF ClientTargets, EnvelopeTargets
<1>3. ~Foreign(envelope.wrapped_session_key)
  <2>1. envelope.wrapped_session_key.bytes.form = "wrap"
    BY <1>1, Zenon DEF Verdict, unwraps
  <2> QED BY <2>1 DEF Foreign
<1>4. /\ verify_with_id(t, input, envelope.signature.bytes)
      /\ o.plaintext.form \in {"payload", "scrambled"}
  <2>1. Established(t, envelope, Legacy, o.plaintext)
    BY OpenEstablishes, Zenon
  <2> QED BY <2>1, Zenon DEF Established
<1>5. input = o.plaintext
  <2>1. mode = LegacyPlaintext
    BY <1>2, Clients, Zenon
  <2>2. \A d : [kind |-> "LegacyPlaintext", domain_separator |-> d].kind = "LegacyPlaintext"
    OBVIOUS
  <2>3. LegacyPlaintext.kind = "LegacyPlaintext"
    BY <2>2, Zenon DEF LegacyPlaintext
  <2>4. Legacy.kind = "Legacy"
    BY DEF Legacy
  <2> HIDE DEF mode
  <2> QED BY <2>1, <2>3, <2>4, Zenon DEF authentication_input, kinds_match
<1>6. envelope.signature.bytes.form = "signature" /\ envelope.signature.bytes.msg = o.plaintext
  <2> HIDE DEF input
  <2>1. \E k, id : envelope.signature.bytes = Signature(k, id, o.plaintext)
    BY <1>4, <1>5, Zenon DEF verify_with_id
  <2> QED BY <2>1 DEF Signature
<1>7. ~Foreign(envelope.signature)
  BY <1>6 DEF Foreign
<1>8. o.plaintext = PayloadBytes("valid")
  BY <1>6, <1>7, ValidEnvelope, Zenon
<1>9. o.plaintext.form # "scrambled"
  BY <1>8 DEF PayloadBytes
<1>10. envelope.cipher.bytes.form \in {"none", "noise", "scrambled"}
  BY <1>3, <1>7, Zenon DEF Foreign
<1>11. envelope.cipher.bytes.form # "frame" /\ envelope.cipher.bytes.form # "cbc"
  BY <1>10
<1>12. Decrypted(t, envelope, Legacy, o.plaintext)
  <2>1. Configured(t)
    BY <1>2, ClientsAreConfigured, Zenon
  <2>2. CASE is_aead(t)
    <3>1. o \in aead_open(t, envelope, Legacy)
      BY <2>2, Zenon DEF open
    <3> QED BY <1>11, <2>1, <2>2, <3>1, AeadDecrypts, Zenon
  <2>3. CASE ~is_aead(t)
    <3>1. o \in cbc_open(t, envelope, Legacy)
      BY <2>3, Zenon DEF open
    <3> QED BY <2>3, <3>1, CbcDecrypts, Zenon
  <2> QED BY <2>2, <2>3, Zenon
<1> QED BY <1>9, <1>11, <1>12, Zenon DEF Decrypted

\* And exact: it opens when all three values are the sealed ones, and only then.
LEMMA CallIsExact ==
    ASSUME NEW t \in EnvelopeTargets, NEW values, Chosen(t, values),
           NEW claim \in encoded_certificate_claims,
           NEW o \in open_response(t, envelope_response_parts(values, claim))
    PROVE  Exact(values, claim, o)
<1> DEFINE e == envelope_of(seal_of(t))
           expected == trim(claim) = EXPECTED_REMOTE_SIGNING_CERTIFICATE
           all_valid == /\ values.signature.mode = "valid" /\ values.wrapped.mode = "valid"
                        /\ values.cipher.mode = "valid"
<1>1. /\ Selected(e.signature, AUXILIARY_LIMIT, values.signature)
      /\ Selected(e.wrapped_session_key, AUXILIARY_LIMIT, values.wrapped)
      /\ Selected(e.cipher, cipher_limit(t), values.cipher)
  BY Zenon DEF Chosen
<1>2. (\A f \in DOMAIN values : values[f].mode = "valid") <=> all_valid
  <2>1. DOMAIN values = {"signature", "wrapped", "cipher"}
    BY Zenon DEF Chosen
  <2> QED BY <2>1, Zenon
<1>3. /\ IsText(values.signature.text) /\ IsText(values.wrapped.text)
      /\ IsText(values.cipher.text) /\ IsText(claim)
  BY <1>1, SelectedTexts, Claims, Zenon
<1>4. \A valid, limit, v : Selected(valid, limit, v) =>
        /\ v.mode = "valid" => ~is_blank(v.text) /\ v.text.control = "none" /\ v.text.core[2] = valid
        /\ v.mode # "valid" => is_blank(v.text) \/ Foreign(v.text.core[2])
  BY SelectedTexts, Zenon
<1> HIDE DEF e, all_valid, expected
<1>5. ASSUME all_valid, expected
      PROVE  Reads(values, claim) /\ received(values) = e
  <2>1. Readable(claim)
    BY <1>5, Claims, Zenon DEF expected
  <2>2. Reads(values, claim)
    BY <1>1, <1>4, <1>5, <2>1 DEF Reads, Readable, all_valid, expected
  <2>3. received(values) = [cipher |-> e.cipher, wrapped_session_key |-> e.wrapped_session_key,
                            signature |-> e.signature]
    BY <1>1, <1>4, <1>5, Zenon DEF received, all_valid
  <2>4. e = [cipher |-> e.cipher, wrapped_session_key |-> e.wrapped_session_key, signature |-> e.signature]
    <3>1. \A x, y, z : LET r == [cipher |-> x, wrapped_session_key |-> y, signature |-> z]
                       IN  r = [cipher |-> r.cipher, wrapped_session_key |-> r.wrapped_session_key,
                                signature |-> r.signature]
      OBVIOUS
    <3>2. \E x, y, z : e = [cipher |-> x, wrapped_session_key |-> y, signature |-> z]
      BY Zenon DEF e, envelope_of
    <3> QED BY <3>1, <3>2, Zenon
  <2> QED BY <2>2, <2>3, <2>4, Zenon
<1>6. CASE all_valid /\ expected
  <2>1. PICK outcome \in open(t, e, Legacy) :
                o = [result |-> outcome.result, plaintext |-> outcome.plaintext]
    BY <1>3, <1>5, <1>6, OpenResponse
  <2>2. outcome.plaintext = PayloadBytes("valid")
    BY ValidOpens, <2>1, Zenon DEF e
  <2>3. o.plaintext = outcome.plaintext
    BY <2>1
  <2> QED BY <1>2, <1>6, <2>2, <2>3, Zenon DEF Exact, expected
<1>7. CASE ~(all_valid /\ expected)
  <2>1. o.plaintext = None
    <3>1. CASE Reads(values, claim)
      <4>1. PICK outcome \in open(t, received(values), Legacy) :
                    o = [result |-> outcome.result, plaintext |-> outcome.plaintext]
        BY <1>3, <3>1, OpenResponse
      <4>2. expected
        BY <3>1, Zenon DEF Reads, expected
      <4>3. /\ received(values).cipher = values.cipher.text.core[2]
            /\ received(values).wrapped_session_key = values.wrapped.text.core[2]
            /\ received(values).signature = values.signature.text.core[2]
        BY DEF received
      <4>4. /\ ~is_blank(values.signature.text) /\ ~is_blank(values.wrapped.text)
            /\ ~is_blank(values.cipher.text)
        BY <3>1, Zenon DEF Reads, Readable
      <4>5. /\ received(values).signature = e.signature \/ Foreign(received(values).signature)
            /\ \/ Foreign(received(values).signature)
               \/ Foreign(received(values).wrapped_session_key)
               \/ Foreign(received(values).cipher)
        BY <1>1, <1>4, <1>7, <4>2, <4>3, <4>4 DEF all_valid
      <4>6. outcome.plaintext = None
        BY <4>5, ForeignRefused, Zenon DEF e
      <4>7. o.plaintext = outcome.plaintext
        BY <4>1
      <4> QED BY <4>6, <4>7, Zenon
    <3>2. CASE ~Reads(values, claim)
      <4>1. o = [result |-> "ProtocolAdapter", plaintext |-> None]
        BY <1>3, <3>2, OpenResponse
      <4> QED BY <4>1
    <3> QED BY <3>1, <3>2, Zenon
  <2> QED BY <1>2, <1>7, <2>1, Zenon DEF Exact, expected
<1> QED BY <1>6, <1>7, Zenon

-----------------------------------------------------------------------------
(* The envelope targets. *)

\* Only EnvelopeInput reports on an envelope, and a process runs one target.
LEMMA EnvelopeSteps ==
    ASSUME [Next]_fvars
    PROVE  /\ binary' = binary
           /\ EnvelopeInput \/ UNCHANGED returned \/ returned'.kind # "envelope"
<1>1. CASE TransportInput
  <2>1. returned'.kind \in {"declared", "parse"}
    BY <1>1 DEF TransportInput, Declared, Parse
  <2> QED BY <1>1, <2>1 DEF TransportInput
<1>2. CASE TypedInput
  <2>1. returned'.kind \in {"declared", "typed"}
    BY <1>2 DEF TypedInput, Declared
  <2> QED BY <1>2, <2>1 DEF TypedInput
<1>3. ASSUME NEW scenario, NEW plaintext, NEW bytes, ContextInput(scenario, plaintext, bytes)
      PROVE  binary' = binary /\ returned'.kind # "envelope"
  <2>1. returned'.kind = "context"
    BY <1>3 DEF ContextInput
  <2> QED BY <1>3, <2>1 DEF ContextInput
<1>4. CASE EnvelopeInput
  BY <1>4, Zenon DEF EnvelopeInput
<1>5. CASE NextInput
  <2>1. returned'.kind = "none"
    BY <1>5 DEF NextInput, Idle
  <2> QED BY <1>5, <2>1 DEF NextInput
<1>6. CASE UNCHANGED fvars
  BY <1>6, Zenon DEF fvars
<1> QED BY <1>1, <1>2, <1>3, <1>4, <1>5, <1>6, Zenon DEF Next

\* What it reports is tight and exact.
LEMMA EnvelopeReports ==
    ASSUME EnvelopeInput
    PROVE  BoundariesAreTight' /\ OpensExactlyTheValid'
<1>1. binary \in EnvelopeTargets /\ binary' = binary
  BY Zenon DEF EnvelopeInput
<1>2. PICK values \in encoded_values, claim \in encoded_certificate_claims :
         \E opened \in open_response(binary, envelope_response_parts(values, claim)) :
            returned' = [kind |-> "envelope", values |-> values, claim |-> claim, opened |-> opened]
  BY Zenon DEF EnvelopeInput
<1>3. PICK opened \in open_response(binary, envelope_response_parts(values, claim)) :
         returned' = [kind |-> "envelope", values |-> values, claim |-> claim, opened |-> opened]
  BY <1>2, Zenon
<1>4. /\ returned'.kind = "envelope" /\ returned'.values = values /\ returned'.claim = claim
      /\ returned'.opened = opened
  BY <1>3
<1>5. Tight(binary, values, claim, opened) /\ Exact(values, claim, opened)
  BY <1>1, EncodedValues, CallIsTight, CallIsExact, Zenon
<1>6. BoundariesAreTight'
  <2>1. /\ (returned'.opened).result = opened.result /\ (returned'.values).cipher = values.cipher
        /\ (returned'.values).signature = values.signature /\ (returned'.values).wrapped = values.wrapped
    BY <1>4, Zenon
  <2> QED BY <1>1, <1>4, <1>5, <2>1 DEF BoundariesAreTight, Tight
<1>7. OpensExactlyTheValid'
  BY <1>4, <1>5, Zenon DEF OpensExactlyTheValid, Exact
<1> QED BY <1>6, <1>7, Zenon

\* The limits the fuzz harness computes for itself are those of the library on every width
\* of usize: for raw texts of any length too, open_response reports MessageTooLarge exactly
\* when the cipher text is longer than the harness's limit and the headers can be read.
THEOREM HarnessBoundariesAreTight == Spec => []BoundariesAreTight
<1>1. ASSUME Init PROVE BoundariesAreTight
  <2>1. returned.kind = "none"
    BY <1>1 DEF Init, Idle
  <2> QED BY <2>1 DEF BoundariesAreTight
<1>2. ASSUME BoundariesAreTight, [Next]_fvars PROVE BoundariesAreTight'
  <2>1. CASE EnvelopeInput
    BY <2>1, EnvelopeReports, Zenon
  <2>2. CASE UNCHANGED returned
    BY <1>2, <2>2, EnvelopeSteps, Zenon DEF BoundariesAreTight
  <2>3. CASE returned'.kind # "envelope"
    BY <2>3, Zenon DEF BoundariesAreTight
  <2> QED BY <1>2, <2>1, <2>2, <2>3, EnvelopeSteps, Zenon
<1> QED BY <1>1, <1>2, PTL DEF Spec

\* open_response of the three envelope targets returns VALID_PLAINTEXT when signature,
\* wrapped key and cipher are all the sealed ones and the claim is the expected one, and no
\* bytes for any other combination of sealed, raw, boundary and mutated values.
THEOREM HarnessOpensExactlyTheValid == Spec => []OpensExactlyTheValid
<1>1. ASSUME Init PROVE OpensExactlyTheValid
  <2>1. returned.kind = "none"
    BY <1>1 DEF Init, Idle
  <2> QED BY <2>1 DEF OpensExactlyTheValid
<1>2. ASSUME OpensExactlyTheValid, [Next]_fvars PROVE OpensExactlyTheValid'
  <2>1. CASE EnvelopeInput
    BY <2>1, EnvelopeReports, Zenon
  <2>2. CASE UNCHANGED returned
    BY <1>2, <2>2, Zenon DEF OpensExactlyTheValid
  <2>3. CASE returned'.kind # "envelope"
    BY <2>3, Zenon DEF OpensExactlyTheValid
  <2> QED BY <1>2, <2>1, <2>2, <2>3, EnvelopeSteps, Zenon
<1> QED BY <1>1, <1>2, PTL DEF Spec

-----------------------------------------------------------------------------
(* The declared scenarios of transport_parts and typed_headers. *)

\* Short lists, and what the scenarios make of them.
IsList(h, n, x) == DOMAIN h = 1..n /\ (\A i \in 1..n : h[i] = x[i]) /\ Listed(h)

\* The lists the declared scenarios build.
LEMMA ShortLists ==
    ASSUME NEW k, NEW l, NEW m, NEW n, NEW o, IsText(k[2]), IsText(l[2]),
           IsText(m[2]), IsText(n[2]), IsText(o[2])
    PROVE  /\ IsList(<<k>>, 1, <<k>>)
           /\ IsList(<<k, l>>, 2, <<k, l>>)
           /\ IsList(<<k, l, m>>, 3, <<k, l, m>>)
           /\ IsList(<<n, o>> \o Tail(<<k, l, m>>), 4, <<n, o, l, m>>)
           /\ IsList(<<n>> \o <<k, l, m>>, 4, <<n, k, l, m>>)
           /\ IsList(Append(<<k, l, m>>, n), 4, <<k, l, m, n>>)
           /\ IsList(<<k, l, m>> \o <<n, o>>, 5, <<k, l, m, n, o>>)
<1> DEFINE T == {k, l, m, n, o}
<1>1. \A x \in T : IsText(x[2])
  BY Zenon
<1>2. k \in T /\ l \in T /\ m \in T /\ n \in T /\ o \in T
  BY Zenon
<1> HIDE DEF T
<1>3. \A h, c, x : h \in Seq(T) /\ DOMAIN h = 1..c /\ (\A i \in 1..c : h[i] = x[i]) => IsList(h, c, x)
  BY <1>1, Zenon DEF IsList, Listed
<1>4. /\ <<k>> \in Seq(T) /\ <<k, l>> \in Seq(T) /\ <<k, l, m>> \in Seq(T)
      /\ DOMAIN <<k>> = 1..1 /\ DOMAIN <<k, l>> = 1..2 /\ DOMAIN <<k, l, m>> = 1..3
  BY <1>2
<1>5. Tail(<<k, l, m>>) = <<l, m>>
  OBVIOUS
<1>6. LET h == <<n, o>> \o <<l, m>>
      IN  h \in Seq(T) /\ DOMAIN h = 1..4 /\ \A i \in 1..4 : h[i] = <<n, o, l, m>>[i]
  BY <1>2
<1>7. LET h == <<n>> \o <<k, l, m>>
      IN  h \in Seq(T) /\ DOMAIN h = 1..4 /\ \A i \in 1..4 : h[i] = <<n, k, l, m>>[i]
  BY <1>2
<1>8. LET h == Append(<<k, l, m>>, n)
      IN  h \in Seq(T) /\ DOMAIN h = 1..4 /\ \A i \in 1..4 : h[i] = <<k, l, m, n>>[i]
  BY <1>2
<1>9. LET h == <<k, l, m>> \o <<n, o>>
      IN  h \in Seq(T) /\ DOMAIN h = 1..5 /\ \A i \in 1..5 : h[i] = <<k, l, m, n, o>>[i]
  BY <1>2
<1> QED BY <1>3, <1>4, <1>5, <1>6, <1>7, <1>8, <1>9, Zenon

\* A header of a declared scenario can be read.
LEMMA PairOf ==
    ASSUME NEW field, NEW casing, NEW token
    PROVE  LET pair == pair_of(field, casing, token)
           IN  /\ pair[1].canonical = field /\ pair[2] = Text(token)
               /\ Readable(pair[2]) /\ IsText(pair[2])
<1> DEFINE pair == pair_of(field, casing, token)
<1>1. pair = <<[canonical |-> field, casing |-> casing], Text(token)>>
  BY Zenon DEF pair_of, Name
<1>2. pair[1].canonical = field /\ pair[2] = Text(token)
  BY <1>1
<1>3. Text(token) = [core |-> <<token>>, pad |-> FALSE, control |-> "none"]
  BY Zenon DEF Text
<1>4. Text(token).core = <<token>> /\ Text(token).control = "none" /\ <<token>> # <<>>
  BY <1>3
<1>5. Readable(Text(token))
  BY <1>4, Zenon DEF Readable, is_blank
<1> QED BY <1>2, <1>5, TextsAreTexts, Zenon

\* A header that comes once, and one that does not.
Once(headers, f) == \E i \in DOMAIN headers : Named(headers, f) = {i} /\ Readable(headers[i][2])

\* One occurrence that can be read is enough.
LEMMA ComesOnce ==
    ASSUME NEW headers, NEW f, NEW i \in DOMAIN headers, headers[i][1].canonical = f,
           Readable(headers[i][2]), \A j \in DOMAIN headers : headers[j][1].canonical = f => j = i
    PROVE  Once(headers, f)
<1>1. Named(headers, f) = {i}
  BY Zenon DEF Named
<1> QED BY <1>1, Zenon DEF Once

\* Two occurrences are one too many, whatever their casing.
LEMMA ComesTwice ==
    ASSUME NEW headers, NEW f, NEW i \in DOMAIN headers, NEW j \in DOMAIN headers, i # j,
           headers[i][1].canonical = f, headers[j][1].canonical = f
    PROVE  ~Once(headers, f)
<1>1. i \in Named(headers, f) /\ j \in Named(headers, f)
  BY Zenon DEF Named
<1> QED BY <1>1 DEF Once

\* A header that never comes, or only blank, is missing.
LEMMA NeverComes ==
    ASSUME NEW headers, NEW f,
           \A j \in DOMAIN headers : headers[j][1].canonical = f => ~Readable(headers[j][2])
    PROVE  ~Once(headers, f)
<1>1. ASSUME NEW i \in DOMAIN headers, Named(headers, f) = {i} PROVE headers[i][1].canonical = f
  BY <1>1, Zenon DEF Named
<1> QED BY <1>1, Zenon DEF Once

\* What the two schemas of transport_parts accept.
LEMMA SchemaAccepts ==
    ASSUME NEW headers, Listed(headers)
    PROVE  /\ parse_response(schema, headers, Text("body")).err = "none" <=>
                /\ Once(headers, "signature") /\ Once(headers, "wrapped_session_key")
                /\ Once(headers, "remote_signing_certificate")
           /\ parse_response(header_cipher_schema, headers, Text("body")).err = "none" <=>
                /\ Once(headers, "signature") /\ Once(headers, "wrapped_session_key")
                /\ Once(headers, "remote_signing_certificate") /\ Once(headers, "cipher")
<1> DEFINE fields == {"signature", "wrapped_session_key", "remote_signing_certificate"}
           location == InHeader(Name("cipher", "canonical"))
<1>1. fields = {ResponseFields[i] : i \in DOMAIN ResponseFields}
  BY FieldNames, Zenon
<1>2. ~is_blank(Text("body"))
  BY PairOf, Zenon DEF Readable
<1>3. location # Body
  BY DEF InHeader, Body
<1>4. parse_response(fuzz_schema(Body, FALSE), headers, Text("body")).err = "none" <=>
        \A f \in fields \cup {} : Once(headers, f)
  <2> HIDE DEF fields
  <2>1. parse_response(fuzz_schema(Body, FALSE), headers, Text("body")).err = "none" <=>
          /\ \A f \in {ResponseFields[i] : i \in DOMAIN ResponseFields}
                        \cup (IF Body = Body THEN {} ELSE {"cipher"}) :
                \E i \in DOMAIN headers : Named(headers, f) = {i} /\ Readable(headers[i][2])
          /\ Body = Body => ~is_blank(Text("body"))
    BY ParseAccepts, Zenon
  <2> QED BY <1>1, <1>2, <2>1, Zenon DEF Once
<1>5. parse_response(fuzz_schema(location, FALSE), headers, Text("body")).err = "none" <=>
        \A f \in fields \cup {"cipher"} : Once(headers, f)
  <2>1. location \in {Body, InHeader(Name("cipher", "canonical"))}
    BY Zenon
  <2> HIDE DEF fields, location
  <2>2. parse_response(fuzz_schema(location, FALSE), headers, Text("body")).err = "none" <=>
          /\ \A f \in {ResponseFields[i] : i \in DOMAIN ResponseFields}
                        \cup (IF location = Body THEN {} ELSE {"cipher"}) :
                \E i \in DOMAIN headers : Named(headers, f) = {i} /\ Readable(headers[i][2])
          /\ location = Body => ~is_blank(Text("body"))
    BY <2>1, ParseAccepts, Zenon
  <2> QED BY <1>1, <1>3, <2>2, Zenon DEF Once
<1> QED BY <1>4, <1>5, Zenon DEF schema, header_cipher_schema

\* Every transport scenario has its declared outcome.
LEMMA TransportOutcomes ==
    ASSUME NEW scenario \in TransportScenarios
    PROVE  transport_outcome(scenario) = expected_outcome(scenario)
<1> DEFINE h == scenario_headers(scenario)
           S == pair_of("signature", "canonical", "signature")
           W == pair_of("wrapped_session_key", "canonical", "wrapped")
           R == pair_of("remote_signing_certificate", "canonical", "fuzz-certificate")
           C == pair_of("cipher", "canonical", "cipher")
           U == pair_of("unknown", "canonical", "ignored")
           S1 == pair_of("signature", "canonical", "first")
           S2 == pair_of("signature", "lower", "second")
           C1 == pair_of("cipher", "canonical", "first")
           C2 == pair_of("cipher", "lower", "second")
           E == <<Name("cipher", "canonical"), EmptyText>>
           three == Once(h, "signature") /\ Once(h, "wrapped_session_key")
                      /\ Once(h, "remote_signing_certificate")
<1>1. /\ S[1].canonical = "signature" /\ S1[1].canonical = "signature" /\ S2[1].canonical = "signature"
      /\ W[1].canonical = "wrapped_session_key" /\ R[1].canonical = "remote_signing_certificate"
      /\ C[1].canonical = "cipher" /\ C1[1].canonical = "cipher" /\ C2[1].canonical = "cipher"
      /\ U[1].canonical = "unknown"
  BY PairOf, Zenon
<1>2. Readable(S[2]) /\ Readable(W[2]) /\ Readable(R[2]) /\ Readable(C[2])
  BY PairOf, Zenon
<1>3. /\ IsText(S[2]) /\ IsText(W[2]) /\ IsText(R[2]) /\ IsText(C[2])
      /\ IsText(U[2]) /\ IsText(S1[2]) /\ IsText(S2[2])
      /\ IsText(C1[2]) /\ IsText(C2[2])
  BY PairOf, Zenon
<1>4. E[1].canonical = "cipher" /\ ~Readable(E[2]) /\ IsText(E[2])
  <2>1. E[1].canonical = "cipher" /\ E[2] = EmptyText
    BY DEF Name
  <2>2. EmptyText.core = <<>>
    <3>1. EmptyText = [core |-> <<>>, pad |-> FALSE, control |-> "none"]
      BY Zenon DEF EmptyText
    <3> QED BY <3>1
  <2> QED BY <2>1, <2>2, TextsAreTexts, Zenon DEF Readable, is_blank
<1>5. Complete = <<S, W, R>>
  BY Zenon DEF Complete, pair_of, EXPECTED_REMOTE_SIGNING_CERTIFICATE
<1>6. /\ scenario \in {"Success", "HeaderCipherMissing"} => h = <<S, W, R>>
      /\ scenario = "Duplicate" => h = <<S1, S2>> \o Tail(<<S, W, R>>)
      /\ scenario = "Unknown" => h = <<U>> \o <<S, W, R>>
      /\ scenario = "Missing" => h = <<S>>
      /\ scenario = "HeaderCipherSuccess" => h = Append(<<S, W, R>>, C)
      /\ scenario = "HeaderCipherEmpty" => h = Append(<<S, W, R>>, E)
      /\ scenario = "HeaderCipherDuplicate" => h = <<S, W, R>> \o <<C1, C2>>
  <2> HIDE DEF S, W, R, C, U, S1, S2, C1, C2, E
  <2>1. <<S, W, R>>[1] = S
    OBVIOUS
  <2>2. /\ scenario_headers("Success") = Complete /\ scenario_headers("HeaderCipherMissing") = Complete
        /\ scenario_headers("Duplicate") = <<S1, S2>> \o Tail(Complete)
        /\ scenario_headers("Unknown") = <<U>> \o Complete
        /\ scenario_headers("Missing") = <<Complete[1]>>
        /\ scenario_headers("HeaderCipherSuccess") = Append(Complete, C)
        /\ scenario_headers("HeaderCipherEmpty") = Append(Complete, E)
        /\ scenario_headers("HeaderCipherDuplicate") = Complete \o <<C1, C2>>
    BY DEF scenario_headers, C, U, S1, S2, C1, C2, E
  <2> QED BY <1>5, <2>1, <2>2, Zenon
<1> HIDE DEF h, S, W, R, C, U, S1, S2, C1, C2, E
<1>7. /\ scenario \in {"Success", "HeaderCipherMissing"} => IsList(h, 3, <<S, W, R>>)
      /\ scenario = "Duplicate" => IsList(h, 4, <<S1, S2, W, R>>)
      /\ scenario = "Unknown" => IsList(h, 4, <<U, S, W, R>>)
      /\ scenario = "Missing" => IsList(h, 1, <<S>>)
      /\ scenario = "HeaderCipherSuccess" => IsList(h, 4, <<S, W, R, C>>)
      /\ scenario = "HeaderCipherEmpty" => IsList(h, 4, <<S, W, R, E>>)
      /\ scenario = "HeaderCipherDuplicate" => IsList(h, 5, <<S, W, R, C1, C2>>)
  BY <1>3, <1>4, <1>6, ShortLists, Zenon
<1>8. Listed(h)
  BY <1>7, Zenon DEF IsList, TransportScenarios
<1>9. /\ parse_response(schema, h, Text("body")).err = "none" <=> three
      /\ parse_response(header_cipher_schema, h, Text("body")).err = "none" <=> three /\ Once(h, "cipher")
  BY <1>8, SchemaAccepts, Zenon
<1>10. ASSUME scenario \in {"Success", "Duplicate", "Unknown", "Missing"}
       PROVE  transport_outcome(scenario) = outcome_of(three)
  BY <1>9, <1>10, Zenon DEF transport_outcome, scenario_schema, h, outcome_of
<1>11. ASSUME scenario \notin {"Success", "Duplicate", "Unknown", "Missing"}
       PROVE  transport_outcome(scenario) = outcome_of(three /\ Once(h, "cipher"))
  BY <1>9, <1>11, Zenon DEF transport_outcome, scenario_schema, h, outcome_of
<1>12. CASE scenario = "Success"
  <2>1. DOMAIN h = 1..3 /\ h[1] = S /\ h[2] = W /\ h[3] = R
    BY <1>7, <1>12 DEF IsList
  <2>2. /\ 1 \in DOMAIN h /\ h[1][1].canonical = "signature" /\ Readable(h[1][2])
        /\ 2 \in DOMAIN h /\ h[2][1].canonical = "wrapped_session_key" /\ Readable(h[2][2])
        /\ 3 \in DOMAIN h /\ h[3][1].canonical = "remote_signing_certificate" /\ Readable(h[3][2])
    BY <1>1, <1>2, <2>1
  <2>3. \A j \in DOMAIN h : /\ h[j][1].canonical = "signature" => j = 1
                            /\ h[j][1].canonical = "wrapped_session_key" => j = 2
                            /\ h[j][1].canonical = "remote_signing_certificate" => j = 3
    BY <1>1, <2>1
  <2>4. three
    BY <2>2, <2>3, ComesOnce, Zenon
  <2> QED BY <1>10, <1>12, <2>4, Zenon DEF outcome_of, expected_outcome
<1>13. CASE scenario = "Unknown"
  <2>1. DOMAIN h = 1..4 /\ h[1] = U /\ h[2] = S /\ h[3] = W /\ h[4] = R
    BY <1>7, <1>13 DEF IsList
  <2>2. /\ 2 \in DOMAIN h /\ h[2][1].canonical = "signature" /\ Readable(h[2][2])
        /\ 3 \in DOMAIN h /\ h[3][1].canonical = "wrapped_session_key" /\ Readable(h[3][2])
        /\ 4 \in DOMAIN h /\ h[4][1].canonical = "remote_signing_certificate" /\ Readable(h[4][2])
    BY <1>1, <1>2, <2>1
  <2>3. \A j \in DOMAIN h : /\ h[j][1].canonical = "signature" => j = 2
                            /\ h[j][1].canonical = "wrapped_session_key" => j = 3
                            /\ h[j][1].canonical = "remote_signing_certificate" => j = 4
    BY <1>1, <2>1
  <2>4. three
    BY <2>2, <2>3, ComesOnce, Zenon
  <2> QED BY <1>10, <1>13, <2>4, Zenon DEF outcome_of, expected_outcome
<1>14. CASE scenario = "HeaderCipherSuccess"
  <2>1. DOMAIN h = 1..4 /\ h[1] = S /\ h[2] = W /\ h[3] = R /\ h[4] = C
    BY <1>7, <1>14 DEF IsList
  <2>2. /\ 1 \in DOMAIN h /\ h[1][1].canonical = "signature" /\ Readable(h[1][2])
        /\ 2 \in DOMAIN h /\ h[2][1].canonical = "wrapped_session_key" /\ Readable(h[2][2])
        /\ 3 \in DOMAIN h /\ h[3][1].canonical = "remote_signing_certificate" /\ Readable(h[3][2])
        /\ 4 \in DOMAIN h /\ h[4][1].canonical = "cipher" /\ Readable(h[4][2])
    BY <1>1, <1>2, <2>1
  <2>3. \A j \in DOMAIN h : /\ h[j][1].canonical = "signature" => j = 1
                            /\ h[j][1].canonical = "wrapped_session_key" => j = 2
                            /\ h[j][1].canonical = "remote_signing_certificate" => j = 3
                            /\ h[j][1].canonical = "cipher" => j = 4
    BY <1>1, <2>1
  <2>4. three /\ Once(h, "cipher")
    BY <2>2, <2>3, ComesOnce, Zenon
  <2> QED BY <1>11, <1>14, <2>4, Zenon DEF outcome_of, expected_outcome
<1>15. CASE scenario = "Duplicate"
  <2>1. DOMAIN h = 1..4 /\ h[1] = S1 /\ h[2] = S2
    BY <1>7, <1>15 DEF IsList
  <2>2. 1 \in DOMAIN h /\ 2 \in DOMAIN h /\ 1 # 2
    BY <2>1
  <2>3. ~Once(h, "signature")
    BY <1>1, <2>1, <2>2, ComesTwice, Zenon
  <2> QED BY <1>10, <1>15, <2>3, Zenon DEF outcome_of, expected_outcome
<1>16. CASE scenario = "Missing"
  <2>1. DOMAIN h = 1..1 /\ h[1] = S
    BY <1>7, <1>16 DEF IsList
  <2>2. \A j \in DOMAIN h : h[j][1].canonical = "wrapped_session_key" => ~Readable(h[j][2])
    BY <1>1, <1>4, <2>1
  <2>3. ~Once(h, "wrapped_session_key")
    BY <2>2, NeverComes, Zenon
  <2> QED BY <1>10, <1>16, <2>3, Zenon DEF outcome_of, expected_outcome
<1>17. CASE scenario = "HeaderCipherMissing"
  <2>1. DOMAIN h = 1..3 /\ h[1] = S /\ h[2] = W /\ h[3] = R
    BY <1>7, <1>17 DEF IsList
  <2>2. \A j \in DOMAIN h : h[j][1].canonical = "cipher" => ~Readable(h[j][2])
    BY <1>1, <1>4, <2>1
  <2>3. ~Once(h, "cipher")
    BY <2>2, NeverComes, Zenon
  <2> QED BY <1>11, <1>17, <2>3, Zenon DEF outcome_of, expected_outcome
<1>18. CASE scenario = "HeaderCipherEmpty"
  <2>1. DOMAIN h = 1..4 /\ h[1] = S /\ h[2] = W /\ h[3] = R /\ h[4] = E
    BY <1>7, <1>18 DEF IsList
  <2>2. \A j \in DOMAIN h : h[j][1].canonical = "cipher" => ~Readable(h[j][2])
    BY <1>1, <1>4, <2>1
  <2>3. ~Once(h, "cipher")
    BY <2>2, NeverComes, Zenon
  <2> QED BY <1>11, <1>18, <2>3, Zenon DEF outcome_of, expected_outcome
<1>19. CASE scenario = "HeaderCipherDuplicate"
  <2>1. DOMAIN h = 1..5 /\ h[4] = C1 /\ h[5] = C2
    BY <1>7, <1>19 DEF IsList
  <2>2. 4 \in DOMAIN h /\ 5 \in DOMAIN h /\ 4 # 5
    BY <2>1
  <2>3. ~Once(h, "cipher")
    BY <1>1, <2>1, <2>2, ComesTwice, Zenon
  <2> QED BY <1>11, <1>19, <2>3, Zenon DEF outcome_of, expected_outcome
<1> QED BY <1>12, <1>13, <1>14, <1>15, <1>16, <1>17, <1>18, <1>19, Zenon DEF TransportScenarios

\* Both typed scenarios have theirs.
LEMMA TypedOutcomes ==
    ASSUME NEW scenario \in TypedScenarios
    PROVE  typed_outcome(scenario) = expected_outcome(scenario)
<1> DEFINE first == pair_of("header", "canonical", "first")
           second == IF scenario = "Valid" THEN pair_of("other", "canonical", "second")
                                           ELSE pair_of("header", "lower", "second")
           h == <<first, second>>
           accepted == RequestParts_new(h).err = "none"
<1>1. /\ first[1].canonical = "header" /\ Readable(first[2]) /\ IsText(first[2])
      /\ second[1].canonical = (IF scenario = "Valid" THEN "other" ELSE "header")
      /\ Readable(second[2]) /\ IsText(second[2])
  BY PairOf, Zenon
<1>2. typed_outcome(scenario) = outcome_of(HeaderName_new(first[1]) /\ HeaderValue_new(first[2]) /\ accepted)
  BY Zenon DEF typed_outcome
<1> HIDE DEF first, second
<1>3. DOMAIN h = 1..2 /\ h[1] = first /\ h[2] = second
  OBVIOUS
<1>4. Listed(h)
  BY <1>1, ShortLists, Zenon DEF IsList
<1> HIDE DEF h
<1>5. accepted <=> \A i \in DOMAIN h : /\ h[i][1].canonical \in Tokens /\ h[i][2].control = "none"
                                       /\ Named(h, h[i][1].canonical) = {i}
  BY <1>4, TypedAccepts, Zenon
<1>6. "header" \in Tokens /\ "other" \in Tokens
  BY NamesAssumption, Zenon
<1>7. CASE scenario = "Valid"
  <2>1. /\ \A i \in DOMAIN h : h[i][1].canonical \in Tokens
        /\ \A i, j \in DOMAIN h : h[j][1].canonical = h[i][1].canonical => j = i
    BY <1>1, <1>3, <1>6, <1>7
  <2>2. \A i \in DOMAIN h : h[i][2].control = "none"
    <3>1. \A i \in DOMAIN h : Readable(h[i][2])
      BY <1>1, <1>3
    <3> QED BY <3>1, Zenon DEF Readable
  <2>3. ASSUME NEW i \in DOMAIN h PROVE Named(h, h[i][1].canonical) = {i}
    BY <2>1, Zenon DEF Named
  <2>4. HeaderName_new(first[1]) /\ HeaderValue_new(first[2])
    BY <1>1, <1>6, Zenon DEF HeaderName_new, HeaderValue_new, Readable
  <2> QED BY <1>2, <1>5, <1>7, <2>1, <2>2, <2>3, <2>4, Zenon DEF outcome_of, expected_outcome
<1>8. CASE scenario # "Valid"
  <2>1. /\ 1 \in DOMAIN h /\ 2 \in DOMAIN h /\ 2 # 1
        /\ h[1][1].canonical = "header" /\ h[2][1].canonical = "header"
    BY <1>1, <1>3, <1>8
  <2>2. 2 \in Named(h, h[1][1].canonical)
    BY <2>1, Zenon DEF Named
  <2>3. ~accepted
    BY <1>5, <2>1, <2>2, Zenon
  <2>4. scenario = "Duplicate"
    BY <1>8, Zenon DEF TypedScenarios
  <2> QED BY <1>2, <2>3, <2>4, Zenon DEF outcome_of, expected_outcome
<1> QED BY <1>7, <1>8, Zenon

-----------------------------------------------------------------------------
(* The scenarios of context_envelope. *)

\* The extended context differs from the one sealed with.
LEMMA ContextBytes ==
    ASSUME NEW bytes \in SealingBytes
    PROVE  Append(bytes, "!") # bytes
<1> DEFINE T == {"operation=fuzz", "raw", "!"}
<1>0. "operation=fuzz" \in T /\ "raw" \in T /\ "!" \in T
  BY Zenon
<1> HIDE DEF T
<1>1. bytes \in Seq(T)
  <2>1. \A x, y \in T : <<x>> \in Seq(T) /\ <<x, y>> \in Seq(T)
    OBVIOUS
  <2> QED BY <1>0, <2>1, Zenon DEF SealingBytes
<1>2. Len(Append(bytes, "!")) = Len(bytes) + 1 /\ Len(bytes) \in Nat
  BY <1>0, <1>1
<1> QED BY <1>2

\* seal refuses the oversize plaintext and no other.
LEMMA ContextSeals ==
    ASSUME NEW p \in DOMAIN PlaintextLen, NEW bytes
    PROVE  /\ seal_error("context_envelope", p, Bound(bytes)) = "none" <=> p # "over"
           /\ p # "over" => PlaintextLen[p] <= 64
<1> DEFINE config == Config["context_envelope"]
<1>1. "context_envelope" \in ClientTargets
  BY DEF ClientTargets
<1>2. config.max_plaintext_bytes = 64
  BY <1>1, Clients
<1>3. config.authentication_mode.kind = "ContextBound"
  <2>1. config.authentication_mode = [kind |-> "ContextBound", domain_separator |-> "fuzz"]
    BY <1>1, Clients, Zenon
  <2> HIDE DEF config
  <2> QED BY <2>1
<1>4. Bound(bytes).kind = "Bound"
  BY DEF Bound
<1>5. kinds_match(config.authentication_mode, Bound(bytes))
  BY <1>3, <1>4, Zenon DEF kinds_match
<1>6. PlaintextLen[p] > 64 <=> p = "over"
  BY DEF PlaintextLen, MAX_PLAINTEXT_BYTES
<1>7. p # "over" => PlaintextLen[p] <= 64
  BY DEF PlaintextLen, MAX_PLAINTEXT_BYTES
<1>8. PlaintextLen[p] > config.max_plaintext_bytes <=> p = "over"
  <2> HIDE DEF config
  <2> QED BY <1>2, <1>6
<1>9. seal_error("context_envelope", p, Bound(bytes)) =
        IF PlaintextLen[p] > config.max_plaintext_bytes THEN "MessageTooLarge"
        ELSE IF ~kinds_match(config.authentication_mode, Bound(bytes)) THEN "AuthenticationContext"
        ELSE "none"
  BY Plaintexts, Zenon DEF seal_error
<1> HIDE DEF config
<1> QED BY <1>5, <1>7, <1>8, <1>9, Zenon

\* The envelope of a context-bound call.
context_seal(p, bytes, draw) ==
    [by |-> "context_envelope", payload |-> p, context |-> Bound(bytes), draw |-> draw]

\* It opens in its own context.
LEMMA ContextOpens ==
    ASSUME NEW p \in DOMAIN PlaintextLen, p # "over", NEW bytes, NEW draw,
           NEW o \in open("context_envelope", envelope_of(context_seal(p, bytes, draw)),
                                  Bound(bytes))
    PROVE  o.result = "Ok" /\ o.plaintext = PayloadBytes(p)
<1> DEFINE s == context_seal(p, bytes, draw)
           t == "context_envelope"
           config == Config[t]
<1>1. t \in ClientTargets
  BY DEF ClientTargets
<1>2. s.by = t /\ s.payload = p /\ s.context = Bound(bytes) /\ s.draw = draw
  BY DEF context_seal
<1> HIDE DEF s
<1>3. Accepted(s)
  BY <1>2, ContextSeals, Plaintexts, Zenon DEF Accepted
<1>4. PlaintextLen[p] <= config.max_plaintext_bytes
  <2>1. config.max_plaintext_bytes = 64
    BY <1>1, Clients
  <2> HIDE DEF config
  <2> QED BY <2>1, ContextSeals
<1>5. SealedFor(s, t)
  <2>1. /\ Keys[t].remote_encryption = Keys[t].local_decryption
        /\ Keys[t].local_signing = Keys[t].remote_verification
        /\ config.local_signer_id = config.expected_remote_signer_id
    BY <1>1, Clients, Zenon
  <2> QED BY <1>2, <1>4, <2>1, Plaintexts, Zenon DEF SealedFor
<1>6. Configured(t) /\ ~is_aead(t)
  BY <1>1, ClientsAreConfigured, Zenon
<1>7. o \in cbc_open(t, envelope_of(s), s.context)
  BY <1>2, <1>6, Zenon DEF open, s
<1> QED BY <1>2, <1>3, <1>5, <1>6, <1>7, CbcRoundTrip, Zenon

\* It does not open in another.
LEMMA ContextRefuses ==
    ASSUME NEW p, NEW bytes, NEW draw, NEW opening,
           opening = Legacy \/ \E other : opening = Bound(other) /\ other # bytes,
           NEW o \in open("context_envelope", envelope_of(context_seal(p, bytes, draw)),
                                  opening)
    PROVE  o.result # "Ok"
<1> DEFINE s == context_seal(p, bytes, draw)
           e == envelope_of(s)
           t == "context_envelope"
           config == Config[t]
           keys == Keys[t]
           mode == config.authentication_mode
           input == authentication_input(mode, opening, o.plaintext)
           sent == authentication_input(mode, Bound(bytes), PayloadBytes(p))
<1> SUFFICES ASSUME o.result = "Ok" PROVE FALSE
  BY Zenon
<1>1. t \in ClientTargets
  BY DEF ClientTargets
<1>2. s.by = t /\ s.payload = p /\ s.context = Bound(bytes)
  BY DEF context_seal
<1>3. mode.kind = "ContextBound"
  <2>1. mode = [kind |-> "ContextBound", domain_separator |-> "fuzz"]
    BY <1>1, Clients, Zenon
  <2> HIDE DEF mode
  <2> QED BY <2>1
<1>4. \A x : Bound(x).kind = "Bound" /\ Bound(x).bytes = x
  BY DEF Bound
<1>5. Legacy.kind = "Legacy" /\ Legacy.bytes = <<>>
  BY DEF Legacy
<1>6. /\ input # None
      /\ verify_with_id(t, input, e.signature.bytes)
      /\ o.plaintext.form \in {"payload", "scrambled"}
  <2>1. Established(t, e, opening, o.plaintext)
    BY OpenEstablishes, Zenon
  <2> QED BY <2>1, Zenon DEF Established
<1>7. e.signature = encode(Signature(keys.local_signing, config.local_signer_id, sent))
  <2> HIDE DEF s
  <2>1. envelope_of(s).signature =
          encode(Signature(Keys[s.by].local_signing, Config[s.by].local_signer_id,
                           authentication_input(Config[s.by].authentication_mode, s.context,
                                                PayloadBytes(s.payload))))
    BY DEF envelope_of
  <2> QED BY <1>2, <2>1, Zenon
<1> HIDE DEF e, keys, config, s, input, sent
<1>8. e.signature.bytes = Signature(keys.local_signing, config.local_signer_id, sent)
  BY <1>7 DEF encode
<1>9. input = sent
  <2>1. e.signature.bytes = Signature(keys.remote_verification, config.expected_remote_signer_id, input)
    BY <1>6, Zenon DEF verify_with_id, keys, config
  <2>2. e.signature.bytes.msg = input
    BY <2>1 DEF Signature
  <2>3. e.signature.bytes.msg = sent
    BY <1>8 DEF Signature
  <2> QED BY <2>2, <2>3, Zenon
<1> HIDE DEF mode
<1>10. CASE opening = Legacy
  <2>1. ~kinds_match(mode, opening)
    BY <1>3, <1>5, <1>10, Zenon DEF kinds_match
  <2> QED BY <1>6, <2>1, Zenon DEF authentication_input, input
<1>11. ASSUME NEW other, opening = Bound(other), other # bytes PROVE FALSE
  <2>1. SameInput(mode, Bound(bytes), p, mode, opening, o.plaintext)
    BY <1>3, <1>4, <1>6, <1>9, <1>11, Zenon DEF SameInput, input, sent
  <2>2. \A m, x, q, n, y, b : SameInput(m, x, q, n, y, b) => x.bytes = y.bytes
    BY InputDeterminesMessage
  <2>3. Bound(bytes).bytes = opening.bytes
    BY <2>1, <2>2, Zenon
  <2> QED BY <1>4, <1>11, <2>3, Zenon
<1> QED BY <1>10, <1>11, Zenon

\* What ContextInput reports.
LEMMA ContextReports ==
    ASSUME NEW scenario \in ContextScenarios, NEW plaintext \in DOMAIN PlaintextLen,
           NEW bytes \in SealingBytes, ContextInput(scenario, plaintext, bytes)
    PROVE  DeclaredOutcomes'
<1> DEFINE result(outcome, opened) == [kind |-> "context", scenario |-> scenario, outcome |-> outcome,
                                       plaintext |-> plaintext, opened |-> opened]
           opening == opening_context(scenario, bytes)
           s == context_seal(plaintext, bytes, drawn + 1)
<1>1. ASSUME NEW outcome, NEW opened, returned' = result(outcome, opened),
             scenario # "Generic" => outcome = expected_outcome(scenario),
             outcome = "Accepted" => opened = PayloadBytes(plaintext)
      PROVE  DeclaredOutcomes'
  <2>1. /\ returned'.kind = "context" /\ returned'.scenario = scenario /\ returned'.outcome = outcome
        /\ returned'.plaintext = plaintext /\ returned'.opened = opened
    BY <1>1
  <2>2. returned'.kind # "declared"
    BY <2>1
  <2> QED BY <1>1, <2>1, <2>2, Zenon DEF DeclaredOutcomes
<1>2. binary = "context_envelope" /\ (scenario = "OversizePlaintext" <=> plaintext = "over")
  BY Zenon DEF ContextInput
<1>3. seal_error(binary, plaintext, Bound(bytes)) # "none" <=> plaintext = "over"
  BY <1>2, ContextSeals, Zenon
<1>4. CASE plaintext = "over"
  <2>1. returned' = result("Rejected", None)
    BY <1>3, <1>4, Zenon DEF ContextInput
  <2>2. expected_outcome(scenario) = "Rejected"
    BY <1>2, <1>4 DEF expected_outcome
  <2> HIDE DEF result
  <2> QED BY <1>1, <2>1, <2>2, Zenon
<1>5. CASE plaintext # "over"
  <2>1. PICK opened \in open(binary, envelope_of([by |-> binary, payload |-> plaintext,
                                       context |-> Bound(bytes), draw |-> drawn + 1]), opening) :
               returned' = result(outcome_of(opened.result = "Ok"), opened.plaintext)
    BY <1>3, <1>5, Zenon DEF ContextInput
  <2>2. opened \in open("context_envelope", envelope_of(s), opening)
    BY <1>2, <2>1, Zenon DEF context_seal
  <2>3. CASE scenario \in {"RoundTrip", "Generic"}
    <3>1. opening = Bound(bytes)
      BY <2>3 DEF opening_context
    <3>2. opened.result = "Ok" /\ opened.plaintext = PayloadBytes(plaintext)
      BY <1>5, <2>2, <3>1, ContextOpens, Zenon
    <3>3. outcome_of(opened.result = "Ok") = "Accepted"
      BY <3>2, Zenon DEF outcome_of
    <3>4. scenario # "Generic" => expected_outcome(scenario) = "Accepted"
      BY <2>3, Zenon DEF expected_outcome
    <3> HIDE DEF result
    <3> QED BY <1>1, <2>1, <3>2, <3>3, <3>4, Zenon
  <2>4. CASE scenario \in {"MismatchedContext", "LegacyMarker"}
    <3>1. opening = Legacy \/ opening = Bound(Append(bytes, "!"))
      BY <2>4, Zenon DEF opening_context
    <3>2. opened.result # "Ok"
      BY <2>2, <3>1, ContextBytes, ContextRefuses, Zenon
    <3>3. outcome_of(opened.result = "Ok") = "Rejected"
      BY <3>2, Zenon DEF outcome_of
    <3>4. expected_outcome(scenario) = "Rejected" /\ "Rejected" # "Accepted"
      BY <2>4 DEF expected_outcome
    <3> HIDE DEF result
    <3> QED BY <1>1, <2>1, <3>3, <3>4, Zenon
  <2> QED BY <1>2, <1>5, <2>3, <2>4, Zenon DEF ContextScenarios
<1> QED BY <1>4, <1>5, Zenon

\* The assertions of transport_parts, typed_headers and context_envelope never fail: every
\* declared scenario has its declared outcome for whatever plaintext and context the input
\* brings, and a round trip returns exactly the plaintext that was sealed.
THEOREM HarnessAssertionsHold == Spec => []DeclaredOutcomes
<1>0. ASSUME returned'.kind \notin {"declared", "context"} PROVE DeclaredOutcomes'
  BY <1>0, Zenon DEF DeclaredOutcomes
<1>1. ASSUME Init PROVE DeclaredOutcomes
  <2>1. returned.kind = "none"
    BY <1>1 DEF Init, Idle
  <2> QED BY <2>1 DEF DeclaredOutcomes
<1>2. ASSUME DeclaredOutcomes, [Next]_fvars PROVE DeclaredOutcomes'
  <2>1. ASSUME NEW scenario, NEW outcome, Declared(scenario, outcome), outcome = expected_outcome(scenario)
        PROVE  DeclaredOutcomes'
    <3>1. /\ returned'.kind = "declared" /\ returned'.scenario = scenario
          /\ returned'.outcome = outcome
      BY <2>1 DEF Declared
    <3>2. returned'.kind # "context"
      BY <3>1
    <3> QED BY <2>1, <3>1, <3>2, Zenon DEF DeclaredOutcomes
  <2>2. CASE TransportInput
    <3>1. ASSUME NEW adapter_schema, NEW parts, Parse(adapter_schema, parts) PROVE DeclaredOutcomes'
      <4>1. returned'.kind = "parse"
        BY <3>1 DEF Parse
      <4> QED BY <1>0, <4>1
    <3> QED BY <2>1, <2>2, <3>1, TransportOutcomes, Zenon DEF TransportInput
  <2>3. CASE TypedInput
    <3>1. ASSUME NEW headers \in generic_typed_parts,
                 returned' = [kind |-> "typed", headers |-> headers,
                              outcome |-> outcome_of(RequestParts_new(headers).err = "none")]
          PROVE  DeclaredOutcomes'
      <4>1. returned'.kind = "typed"
        BY <3>1
      <4> QED BY <1>0, <4>1
    <3> QED BY <2>1, <2>3, <3>1, TypedOutcomes, Zenon DEF TypedInput
  <2>4. ASSUME NEW scenario \in ContextScenarios, NEW plaintext \in DOMAIN PlaintextLen,
               NEW bytes \in SealingBytes, ContextInput(scenario, plaintext, bytes)
        PROVE  DeclaredOutcomes'
    BY <2>4, ContextReports, Zenon
  <2>5. CASE EnvelopeInput
    <3>1. returned'.kind = "envelope"
      BY <2>5 DEF EnvelopeInput
    <3> QED BY <1>0, <3>1
  <2>6. CASE NextInput
    <3>1. returned'.kind = "none"
      BY <2>6 DEF NextInput, Idle
    <3> QED BY <1>0, <3>1
  <2>7. CASE UNCHANGED fvars
    BY <1>2, <2>7, Zenon DEF fvars, DeclaredOutcomes
  <2> QED BY <1>2, <2>2, <2>3, <2>4, <2>5, <2>6, <2>7, Zenon DEF Next
<1> QED BY <1>1, <1>2, PTL DEF Spec
=============================================================================
