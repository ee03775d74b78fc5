------------------------- MODULE HeaderLayerProofs -------------------------
(***************************************************************************)
(* The header layer, for every set of names and values, every schema and   *)
(* every response: collections stay sound and appending to one is all or   *)
(* nothing; build accepts exactly the mappings that work; responses are    *)
(* read exactly, whatever harmless changes they went through.              *)
(***************************************************************************)
EXTENDS Headers, HeaderSchema, ResponseWire, CallProofs

-----------------------------------------------------------------------------
(* One request and its headers. *)

HeadersInv ==
    /\ emitted \in Seq(Pairs) /\ Collectable(emitted)
    /\ additional \in Seq(Pairs) /\ Collectable(additional)

LEMMA CollectableIsSound ==
    ASSUME NEW entries PROVE Collectable(entries) <=> Sound(entries)
BY DEF Collectable, Sound, get, eq_ignore_ascii_case

LEMMA InsertOne ==
    ASSUME NEW entries \in Seq(Pairs), Collectable(entries), NEW name \in HeaderNames,
           NEW value \in HeaderValues, insert(entries, name, value).err = "none"
    PROVE  /\ insert(entries, name, value).entries \in Seq(Pairs)
           /\ Collectable(insert(entries, name, value).entries)
<1> DEFINE pairs == Append(entries, <<name, value>>)
           n == Len(entries) + 1
<1>1. /\ pairs \in Seq(Pairs) /\ Len(entries) \in Nat /\ Len(pairs) = n
      /\ DOMAIN pairs = 1..n /\ DOMAIN entries = 1..Len(entries)
      /\ pairs[n] = <<name, value>> /\ \A i \in 1..Len(entries) : pairs[i] = entries[i]
  <2>1. <<name, value>> \in Pairs
    BY DEF Pairs
  <2> QED BY <2>1, AppendProperties, LenProperties
<1>2. insert_error(pairs, n) = "none" /\ insert(entries, name, value).entries = pairs
  BY <1>1 DEF insert
<1> HIDE DEF pairs
<1>3. /\ HeaderName_new(pairs[n][1]) /\ HeaderValue_new(pairs[n][2])
      /\ \A j \in 1..n - 1 : ~eq_ignore_ascii_case(pairs[j][1], pairs[n][1])
  BY <1>2 DEF insert_error
<1>4. \A i \in 1..Len(entries) : i \in 1..n - 1 /\ ~(pairs[i][1].canonical = pairs[n][1].canonical)
  BY <1>1, <1>3 DEF eq_ignore_ascii_case
<1>5. \A i \in 1..n : i = n \/ i \in 1..Len(entries)
  BY <1>1
<1>6. Collectable(pairs)
  BY <1>1, <1>3, <1>4, <1>5 DEF Collectable, eq_ignore_ascii_case
<1> QED BY <1>1, <1>2, <1>6

LEMMA HeadersInvariant == HeadersSpec => []HeadersInv
<1>1. HeadersInit => HeadersInv
  BY EmptyCollection DEF HeadersInit, HeadersInv
<1>2. ASSUME HeadersInv, [HeadersNext]_hvars PROVE HeadersInv'
  <2>1. CASE \E name \in HeaderNames, value \in HeaderValues : Header(name, value)
    <3> PICK name \in HeaderNames, value \in HeaderValues : Header(name, value)
      BY <2>1
    <3>1. /\ emitted' = emitted
          /\ additional' = IF insert(additional, name, value).err = "none"
                             THEN insert(additional, name, value).entries ELSE <<>>
      BY DEF Header
    <3> QED BY <1>2, <3>1, InsertOne, EmptyCollection DEF HeadersInv
  <2>2. CASE \E n \in 0..MaxHeaders : \E pairs \in [1..n -> Pairs] : Emit(pairs)
    <3> PICK n \in 0..MaxHeaders : \E pairs \in [1..n -> Pairs] : Emit(pairs)
      BY <2>2
    <3> PICK pairs \in [1..n -> Pairs] : Emit(pairs)
      OBVIOUS
    <3>1. pairs \in Seq(Pairs)
      BY HeaderBound, SeqDef
    <3>2. emitted' = RequestParts_new(pairs).entries /\ additional' = additional
      BY DEF Emit
    <3> QED BY <1>2, <3>1, <3>2, RequestPartsNew DEF HeadersInv
  <2>3. CASE AppendAdditional
    <3>1. emitted' = append_checked(emitted, additional).entries /\ additional' = additional
      BY <2>3 DEF AppendAdditional
    <3> QED BY <1>2, <3>1, AppendChecked DEF HeadersInv
  <2>4. CASE UNCHANGED hvars
    BY <1>2, <2>4 DEF hvars, HeadersInv
  <2> QED BY <1>2, <2>1, <2>2, <2>3, <2>4 DEF HeadersNext
<1> QED BY <1>1, <1>2, PTL DEF HeadersSpec

\* Collections hold valid headers, each found alone under any casing of its name.
THEOREM CollectionsStaySound == HeadersSpec => []CollectionsSound
<1>1. HeadersInv => CollectionsSound
  BY CollectableIsSound DEF HeadersInv, CollectionsSound
<1> QED BY <1>1, HeadersInvariant, PTL

\* Appending never changes a header that is there, and does nothing when it fails.
THEOREM AppendingIsAtomic == HeadersSpec => AppendIsAtomic
<1> DEFINE Keeps == \A i \in DOMAIN emitted : i \in DOMAIN emitted' /\ emitted'[i] = emitted[i]
           Atomic == outcome'.op = "append" /\ outcome'.err # "none" => emitted' = emitted
<1>1. ASSUME HeadersInv, [HeadersNext]_hvars PROVE [Keeps /\ Atomic]_hvars
  <2> SUFFICES ASSUME HeadersNext PROVE Keeps /\ Atomic
    BY <1>1
  <2>1. CASE \E name \in HeaderNames, value \in HeaderValues : Header(name, value)
    BY <2>1 DEF Header
  <2>2. CASE \E n \in 0..MaxHeaders : \E pairs \in [1..n -> Pairs] : Emit(pairs)
    <3>1. emitted = <<>> /\ outcome'.op = "emit"
      BY <2>2 DEF Emit
    <3> QED BY <3>1
  <2>3. CASE AppendAdditional
    <3> DEFINE r == append_checked(emitted, additional)
    <3>1. emitted' = r.entries /\ outcome'.err = r.err
      BY <2>3 DEF AppendAdditional
    <3>2. /\ r.err # "none" => r.entries = emitted
          /\ r.err = "none" => r.entries = emitted \o additional
      BY <1>1, AppendChecked DEF HeadersInv
    <3> HIDE DEF r
    <3>3. Atomic
      BY <3>1, <3>2
    <3>4. CASE r.err # "none"
      BY <3>1, <3>2, <3>3, <3>4
    <3>5. CASE r.err = "none"
      <4>1. emitted' = emitted \o additional
        BY <3>1, <3>2, <3>5
      <4>2. emitted \in Seq(Pairs) /\ additional \in Seq(Pairs)
        BY <1>1 DEF HeadersInv
      <4>3. Keeps
        BY <4>1, <4>2, ConcatProperties, LenProperties
      <4> QED BY <3>3, <4>3
    <3> QED BY <3>4, <3>5
  <2> QED BY <2>1, <2>2, <2>3 DEF HeadersNext
<1> QED BY <1>1, HeadersInvariant, PTL DEF HeadersSpec, AppendIsAtomic

-----------------------------------------------------------------------------
(* HeaderSchemaBuilder::build accepts exactly the mappings that work. *)

\* Two fields of one header make every response that follows the schema a duplicate.
LEMMA Clash ==
    ASSUME NEW b, IsBuilder(b), ~Apart(b), NEW v
    PROVE  duplicated(occurrences(b, laid_out(b, v)))
<1> DEFINE t == slots(b)
           h == laid_out(b, v)
<1>1. /\ DOMAIN t = 1..Len(t) /\ Len(t) \in Nat
      /\ \A k \in DOMAIN t : t[k][1] \in Fields(b) /\ t[k][2] = slot_name(b, t[k][1])
      /\ \A f \in Fields(b) : \E k \in DOMAIN t : t[k][1] = f
  <2>1. b.bound \in BOOLEAN
    BY DEF IsBuilder
  <2>2. \A n \in 3..5 : n \in Nat
    OBVIOUS
  <2> HIDE DEF t
  <2> QED BY <2>1, <2>2, Slots DEF t
<1>2. DOMAIN h = DOMAIN t /\ \A k \in DOMAIN t : h[k][1] = t[k][2]
  BY DEF laid_out
<1> HIDE DEF t, h
<1>3. PICK f \in Fields(b), g \in Fields(b) :
        slot_name(b, f).canonical = slot_name(b, g).canonical /\ f # g
  BY DEF Apart
<1>4. PICK k \in DOMAIN t : t[k][1] = f
  BY <1>1, Zenon
<1>5. PICK l \in DOMAIN t : t[l][1] = g
  BY <1>1, Zenon
<1> DEFINE e == target(b, h[k][1])
<1>6. h[k][1] = slot_name(b, f) /\ h[l][1] = slot_name(b, g) /\ k # l
  BY <1>1, <1>2, <1>3, <1>4, <1>5, Zenon
<1>7. target(b, h[l][1]) = e
  BY <1>3, <1>6, SameTarget, Zenon
<1>8. e \in Fields(b)
  BY <1>6, TargetOf
<1>9. Fields(b) \subseteq CarriedFields
  BY Zenon DEF Fields, CarriedFields
<1> DEFINE S == occurrences(b, h)[e]
<1>10. S = {i \in DOMAIN h : target(b, h[i][1]) = e} /\ DOMAIN occurrences(b, h) = CarriedFields
  BY <1>8, <1>9, Zenon DEF occurrences
<1>11. k \in S /\ l \in S
  BY <1>2, <1>7, <1>10, Zenon
<1>12. IsFiniteSet(S)
  <2>1. S \subseteq 1..Len(t)
    BY <1>1, <1>2, <1>10
  <2>2. IsFiniteSet(1..Len(t))
    <3>1. 1 \in Int /\ Len(t) \in Int
      BY <1>1
    <3> QED BY <3>1, FS_Interval, Zenon
  <2> QED BY <2>1, <2>2, FS_Subset, Zenon
<1> HIDE DEF S, e
<1>13. Cardinality(S) > 1
  BY <1>6, <1>11, <1>12, Several, Zenon
<1> QED BY <1>8, <1>9, <1>10, <1>13, Zenon DEF duplicated, S, h

\* A complete mapping with valid names and one authentication is refused for a collision.
LEMMA BuildRefuses ==
    ASSUME NEW b, IsBuilder(b), build(b) = "InvalidMapping", ~(b.legacy /\ b.bound),
           \A i \in DOMAIN b.static : static_header(b.static[i]) = "none",
           \A f \in DOMAIN b.request : HeaderName_new(b.request[f]),
           \A f \in DOMAIN b.response : HeaderName_new(b.response[f])
    PROVE  /\ b.request_cipher # NoLocation /\ b.response_cipher # NoLocation
           /\ ~validate_collisions(b)
<1> DEFINE names == request_names(b) \o response_names(b)
           statics == [i \in DOMAIN b.static |-> static_header(b.static[i])]
           mapped == [i \in DOMAIN names |-> required_header(names[i])]
           checks == <<IF b.static = <<>> \/ NoLocation \in {b.request_cipher, b.response_cipher}
                         THEN "MissingField" ELSE "none",
                       IF b.legacy /\ b.bound THEN "InvalidMapping"
                       ELSE IF ~b.legacy /\ ~b.bound THEN "MissingField" ELSE "none",
                       first_error(statics), first_error(mapped),
                       IF validate_collisions(b) THEN "none" ELSE "InvalidMapping">>
<1>1. build(b) = first_error(checks) /\ DOMAIN checks = 1..5
  BY DEF build
<1>2. /\ checks[1] = (IF b.static = <<>> \/ NoLocation \in {b.request_cipher, b.response_cipher}
                        THEN "MissingField" ELSE "none")
      /\ checks[2] = (IF b.legacy /\ b.bound THEN "InvalidMapping"
                      ELSE IF ~b.legacy /\ ~b.bound THEN "MissingField" ELSE "none")
      /\ checks[3] = first_error(statics) /\ checks[4] = first_error(mapped)
      /\ checks[5] = IF validate_collisions(b) THEN "none" ELSE "InvalidMapping"
  BY Zenon
<1>3. first_error(statics) # "InvalidMapping"
  <2>1. PICK n \in Nat : DOMAIN b.static = 1..n
    BY LenProperties, Zenon DEF IsBuilder
  <2>2. DOMAIN statics = 1..n /\ \A i \in 1..n : statics[i] = "none"
    BY <2>1, Zenon
  <2> HIDE DEF statics
  <2> QED BY <2>2, FirstError, Zenon
<1>4. first_error(mapped) # "InvalidMapping"
  <2>1. /\ DOMAIN names = 1..13
        /\ \A i \in 1..10 : names[i] = b.request[RequestFields[i]]
        /\ \A i \in 1..3 : names[10 + i] = b.response[ResponseFields[i]]
    BY AllNames, Zenon
  <2>2. DOMAIN mapped = 1..13 /\ \A i \in 1..13 : mapped[i] = required_header(names[i])
    BY <2>1, Zenon
  <2> HIDE DEF mapped, names
  <2>3. \A i \in 1..10 : RequestFields[i] \in DOMAIN b.request
    BY RequestFieldSet
  <2>4. \A i \in 1..3 : ResponseFields[i] \in DOMAIN b.response
    BY FieldLists, Zenon DEF IsBuilder, EmptyBuilder
  <2>5. ASSUME NEW i \in 1..13 PROVE HeaderName_new(names[i])
    <3>1. CASE i \in 1..10
      BY <2>1, <2>3, <3>1, Zenon
    <3>2. CASE i - 10 \in 1..3
      <4>1. names[10 + (i - 10)] = b.response[ResponseFields[i - 10]] /\ 10 + (i - 10) = i
        BY <2>1, <3>2
      <4> QED BY <2>4, <3>2, <4>1, Zenon
    <3> QED BY <3>1, <3>2
  <2>6. \A i \in 1..13 : mapped[i] # "InvalidMapping"
    BY <2>2, <2>5, Zenon DEF required_header
  <2> QED BY <2>2, <2>6, FirstError, Zenon
<1> HIDE DEF checks, names, statics, mapped
<1>5. checks[1] = "none"
  <2>1. ASSUME checks[1] # "none" PROVE FALSE
    <3>1. \A j \in 1..1 - 1 : checks[j] = "none"
      OBVIOUS
    <3>2. 5 \in Nat /\ 1 \in 1..5
      OBVIOUS
    <3>3. first_error(checks) = checks[1]
      BY <1>1, <2>1, <3>1, <3>2, FirstFailure, Zenon
    <3> QED BY <1>1, <1>2, <3>3
  <2> QED BY <2>1, Zenon
<1>6. PICK i \in 1..5 : checks[i] = "InvalidMapping"
  BY <1>1, FirstError, Zenon
<1>7. i = 5
  <2>1. i \in {1, 2, 3, 4, 5}
    OBVIOUS
  <2> QED BY <1>2, <1>3, <1>4, <1>5, <1>6, <2>1
<1> QED BY <1>2, <1>5, <1>6, <1>7, Zenon

\* Setters leave a builder that build can judge.
SchemaInv ==
    /\ IsBuilder(builder)
    /\ result = "pending" \/ result = build(builder)

LEMMA SchemaInvariant == SchemaSpec => []SchemaInv
<1>1. SchemaInit => SchemaInv
  <2>1. IsBuilder(EmptyBuilder)
    <3>1. <<>> \in Seq({EmptyBuilder.static[i] : i \in DOMAIN EmptyBuilder.static})
      BY EmptySeq
    <3> QED BY <3>1, Zenon DEF IsBuilder, EmptyBuilder, IsLocation
  <2> QED BY <2>1, BaseAssumption, Zenon DEF SchemaInit, SchemaInv
<1>2. ASSUME SchemaInv, [SchemaNext]_svars PROVE SchemaInv'
  <2>1. ASSUME NEW name \in MappedNames, NEW value \in StaticValues, static_request_header(name, value)
        PROVE  SchemaInv'
    <3> DEFINE s == Append(builder.static, <<name, value>>)
               T == {builder.static[i] : i \in DOMAIN builder.static} \cup {<<name, value>>}
    <3>0. builder.static \in Seq({builder.static[i] : i \in DOMAIN builder.static})
      BY <1>2 DEF SchemaInv, IsBuilder
    <3>1. builder.static \in Seq(T)
      BY <3>0, SeqDef
    <3>2. <<name, value>> \in T
      OBVIOUS
    <3> HIDE DEF T
    <3>3. s \in Seq(T)
      BY <3>1, <3>2, AppendProperties
    <3> HIDE DEF s
    <3>4. s \in Seq({s[i] : i \in DOMAIN s})
      BY <3>3, SeqDef
    <3>5. builder' = [builder EXCEPT !.static = s] /\ result' = "pending"
      BY <2>1 DEF static_request_header, Setter, s
    <3>6. IsBuilder(builder)
      BY <1>2 DEF SchemaInv
    <3>7. /\ DOMAIN builder' = DOMAIN builder /\ builder'.static = s
          /\ builder'.request = builder.request /\ builder'.response = builder.response
          /\ builder'.request_cipher = builder.request_cipher
          /\ builder'.response_cipher = builder.response_cipher
          /\ builder'.legacy = builder.legacy /\ builder'.bound = builder.bound
      BY <3>5, <3>6 DEF IsBuilder, EmptyBuilder
    <3> QED BY <3>4, <3>5, <3>6, <3>7 DEF SchemaInv, IsBuilder
  <2>2. ASSUME NEW f \in DOMAIN builder.request, NEW name \in MappedNames, MapRequestField(f, name)
        PROVE  SchemaInv'
    BY <1>2, <2>2 DEF MapRequestField, Setter, SchemaInv, IsBuilder, EmptyBuilder
  <2>3. ASSUME NEW f \in DOMAIN builder.response, NEW name \in MappedNames, MapResponseField(f, name)
        PROVE  SchemaInv'
    BY <1>2, <2>3 DEF MapResponseField, Setter, SchemaInv, IsBuilder, EmptyBuilder
  <2>4. ASSUME NEW location \in Locations, MapRequestCipher(location) \/ MapResponseCipher(location)
        PROVE  SchemaInv'
    <3>1. IsLocation(location)
      BY DEF Locations, IsLocation, InHeader, Body
    <3>2. CASE MapRequestCipher(location)
      BY <1>2, <3>1, <3>2 DEF MapRequestCipher, Setter, SchemaInv, IsBuilder, EmptyBuilder
    <3>3. CASE MapResponseCipher(location)
      BY <1>2, <3>1, <3>3 DEF MapResponseCipher, Setter, SchemaInv, IsBuilder, EmptyBuilder
    <3> QED BY <2>4, <3>2, <3>3
  <2>5. ASSUME legacy_authentication \/ context_bound_authentication
        PROVE  SchemaInv'
    <3>1. CASE legacy_authentication
      BY <1>2, <3>1 DEF legacy_authentication, Setter, SchemaInv, IsBuilder, EmptyBuilder
    <3>2. CASE context_bound_authentication
      BY <1>2, <3>2 DEF context_bound_authentication, Setter, SchemaInv, IsBuilder, EmptyBuilder
    <3> QED BY <2>5, <3>1, <3>2
  <2>6. CASE Build
    BY <1>2, <2>6 DEF Build, SchemaInv
  <2>7. CASE UNCHANGED svars
    BY <1>2, <2>7 DEF svars, SchemaInv
  <2> QED BY <1>2, <2>1, <2>2, <2>3, <2>4, <2>5, <2>6, <2>7 DEF SchemaNext
<1> QED BY <1>1, <1>2, PTL DEF SchemaSpec

\* Plain requests and responses of a schema that build accepted.
LEMMA BuiltIsUsable ==
    ASSUME IsBuilder(builder), build(builder) = "none"
    PROVE  Usable
<1> DEFINE b == builder
           identity == Plain({"local_identity", "api_version", "local_certificate",
                              "remote_signing_certificate", "remote_encryption_certificate"})
           context == Plain({"operation", "request_id", "request_time"})
           envelope == Plain({"signature", "wrapped_session_key", "cipher"})
           v == Plain(CarriedFields)
<1>1. /\ b.request_cipher # NoLocation
      /\ \A i \in DOMAIN b.static : static_header(b.static[i]) = "none"
      /\ \A f \in DOMAIN b.request : HeaderName_new(b.request[f])
      /\ distinct_mappings(names_of(b))
  BY BuildChecks, Zenon DEF validate_collisions, names_of
<1>3. \A f : /\ Sendable(Text(f)) /\ ~is_blank(Text(f)) /\ HeaderValue_new(Text(f))
             /\ trim(Text(f)) = Text(f) /\ validate_context_value(Text(f))
             /\ require_exact_trim(Text(f)) = "none"
  <2> TAKE f
  <2>1. Text(f).core # <<>> /\ Text(f).control = "none" /\ Text(f).pad = FALSE
    BY DEF Text
  <2>2. trim(Text(f)) = Text(f)
    <3>1. trim(Text(f)) = [core |-> Text(f).core, pad |-> FALSE, control |-> Text(f).control]
      BY TextIsText, Trimmed
    <3>2. Text(f).core = <<f>> /\ Text(f).control = "none"
      BY DEF Text
    <3> QED BY <3>1, <3>2, Zenon DEF Text
  <2> QED BY <2>1, <2>2 DEF Sendable, is_blank, HeaderValue_new, validate_context_value, require_exact_trim
<1>4. \A f \in DOMAIN b.request : field_value(f, identity, context, envelope) = Text(f)
  <2>1. DOMAIN b.request = {RequestFields[i] : i \in 1..10}
    BY RequestFieldSet
  <2>2. \A i \in 1..10 : RequestFields[i] \in
          {"local_identity", "operation", "request_id", "request_time", "api_version",
           "local_certificate", "remote_signing_certificate", "remote_encryption_certificate",
           "signature", "wrapped_session_key"}
    <3>1. 1..10 = {1, 2, 3, 4, 5, 6, 7, 8, 9, 10}
      OBVIOUS
    <3> QED BY <3>1 DEF RequestFields
  <2> QED BY <2>1, <2>2 DEF field_value, Plain
<1>5. /\ envelope.signature = Text("signature") /\ envelope.cipher = Text("cipher")
      /\ envelope.wrapped_session_key = Text("wrapped_session_key")
  BY DEF Plain
<1>6. \A f \in CarriedFields : v[f] = Text(f)
  BY DEF Plain
<1>7. PlainRequest = build_request(b, identity, context, envelope)
  BY DEF PlainRequest
<1>8. PlainResponse = parse_response(b, laid_out(b, v), Text("cipher"))
  BY DEF PlainResponse
<1>e. envelope = [signature |-> Text("signature"), wrapped_session_key |-> Text("wrapped_session_key"),
                  cipher |-> Text("cipher")]
  BY DEF Plain
<1>c. {"signature", "wrapped_session_key", "remote_signing_certificate", "request_id", "cipher"}
        \subseteq CarriedFields
  BY DEF CarriedFields
<1>a. Apart(b)
  BY BuiltIsApart
<1>b. IsBuilder(b)
  BY Zenon
<1> HIDE DEF b, identity, context, envelope, v
<1>9. PlainRequest.err = "none"
  <2>1. Collectable(request_pairs(b, identity, context, envelope))
    BY <1>b, <1>1, <1>3, <1>4, <1>5, RequestCollects, Zenon
  <2> QED BY <1>b, <1>1, <1>3, <1>5, <1>7, <2>1, BuildRequest, Zenon
<1> DEFINE r == parse_response(b, laid_out(b, v), Text("cipher"))
<1>10. r.err = "none" <=>
         /\ Sendable(v["signature"]) /\ Sendable(v["wrapped_session_key"])
         /\ Sendable(v["remote_signing_certificate"])
         /\ b.response_cipher # Body => Sendable(v["cipher"])
         /\ b.response_cipher = Body => ~is_blank(Text("cipher"))
         /\ b.bound => Sendable(v["request_id"]) /\ require_exact_trim(v["request_id"]) = "none"
         /\ validate_context_value(trim(v["remote_signing_certificate"]))
  BY <1>a, <1>b, ParseLaidOut, Zenon
<1>11. r.err = "none" =>
         r.envelope = [signature |-> trim(v["signature"]),
                       wrapped_session_key |-> trim(v["wrapped_session_key"]),
                       cipher |-> trim(IF b.response_cipher = Body THEN Text("cipher") ELSE v["cipher"])]
  BY <1>a, <1>b, ParseLaidOut, Zenon
<1> HIDE DEF r
<1>12. r.err = "none"
  BY <1>3, <1>6, <1>10, <1>c, Zenon
<1>13. r.envelope = envelope
  <2>1. trim(IF b.response_cipher = Body THEN Text("cipher") ELSE v["cipher"]) = Text("cipher")
    BY <1>3, <1>6, <1>c
  <2> QED BY <1>3, <1>6, <1>11, <1>12, <1>c, <1>e, <2>1
<1> QED BY <1>8, <1>9, <1>12, <1>13, Zenon DEF Usable, r, envelope

\* HeaderSchemaBuilder::build accepts exactly the mappings that work: a schema it returns
\* never makes build_request fail with a conflict or parse_response read one header as two
\* fields, and a complete mapping is refused only if it would.
THEOREM BuildIsExact == SchemaSpec => []BuiltSchemasAreUsable
<1>1. ASSUME SchemaInv PROVE BuiltSchemasAreUsable
  <2>1. ASSUME result = "none" PROVE Usable
    BY <1>1, <2>1, BuiltIsUsable DEF SchemaInv
  <2>2. ASSUME result = "InvalidMapping", ~(builder.legacy /\ builder.bound),
               \A i \in DOMAIN builder.static : static_header(builder.static[i]) = "none",
               \A f \in DOMAIN builder.request : HeaderName_new(builder.request[f]),
               \A f \in DOMAIN builder.response : HeaderName_new(builder.response[f])
        PROVE  ~Usable
    <3>1. IsBuilder(builder) /\ build(builder) = "InvalidMapping"
      BY <1>1, <2>2, Zenon DEF SchemaInv
    <3>2. /\ builder.request_cipher # NoLocation /\ builder.response_cipher # NoLocation
          /\ ~validate_collisions(builder)
      BY <2>2, <3>1, BuildRefuses
    <3>3. CASE ~distinct_mappings(names_of(builder))
      <4> DEFINE identity == Plain({"local_identity", "api_version", "local_certificate",
                                    "remote_signing_certificate", "remote_encryption_certificate"})
                 context == Plain({"operation", "request_id", "request_time"})
                 envelope == Plain({"signature", "wrapped_session_key", "cipher"})
      <4>1. PlainRequest = build_request(builder, identity, context, envelope)
        BY Zenon DEF PlainRequest
      <4> HIDE DEF identity, context, envelope
      <4>2. ~Collectable(request_pairs(builder, identity, context, envelope))
        BY <3>1, <3>2, <3>3, RequestCollects, Zenon
      <4>3. PlainRequest.err # "none"
        BY <3>1, <3>2, <4>1, <4>2, BuildRequest
      <4> QED BY <4>3 DEF Usable
    <3>4. CASE ~Apart(builder)
      <4>1. PlainResponse = [err |-> "DuplicateField"]
        BY <3>1, <3>4, Clash, DuplicatesAreRefused, Zenon DEF PlainResponse
      <4> QED BY <4>1, Zenon DEF Usable
    <3>5. ~distinct_mappings(names_of(builder)) \/ ~Apart(builder)
      BY <3>1, <3>2, ResponseMappings, Zenon DEF validate_collisions, names_of, Apart
    <3> QED BY <3>3, <3>4, <3>5, Zenon
  <2> QED BY <2>1, <2>2 DEF BuiltSchemasAreUsable
<1> QED BY <1>1, SchemaInvariant, PTL

-----------------------------------------------------------------------------
(* A response on its way. *)

\* A field that is required, and not repeated, stands at one place.
LEMMA OnePlace ==
    ASSUME NEW b, NEW h, DOMAIN h \subseteq Nat, IsFiniteSet(DOMAIN h), ~duplicated(occurrences(b, h)),
           NEW f \in CarriedFields, occurrences(b, h)[f] # {}
    PROVE  \E i \in DOMAIN h : /\ occurrences(b, h)[f] = {i}
                               /\ response_value(h, occurrences(b, h)[f]) = h[i][2]
<1> DEFINE S == occurrences(b, h)[f]
<1>1. S \subseteq DOMAIN h /\ DOMAIN occurrences(b, h) = CarriedFields
  BY Zenon DEF occurrences
<1>2. IsFiniteSet(S)
  BY <1>1, FS_Subset, Zenon
<1>3. ~(Cardinality(S) > 1)
  BY <1>1, Zenon DEF duplicated
<1> HIDE DEF S
<1>4. \A i, j \in S : i = j
  BY <1>2, <1>3, Several, Zenon
<1>5. PICK i \in S : TRUE
  BY Zenon DEF S
<1>6. S = {i} /\ i \in DOMAIN h /\ i \in Nat
  <2>1. S = {i}
    BY <1>4, Zenon
  <2>2. i \in DOMAIN h
    BY <1>1, Zenon
  <2> QED BY <2>1, <2>2, Zenon
<1>7. response_value(h, S) = h[i][2]
  BY <1>6, MaxOfOne, Zenon DEF response_value
<1> QED BY <1>6, <1>7, Zenon DEF S

OnePlaceEach(b, h) ==
    \A f \in CarriedFields : occurrences(b, h)[f] # {} =>
        \E i \in DOMAIN h : /\ occurrences(b, h)[f] = {i}
                            /\ response_value(h, occurrences(b, h)[f]) = h[i][2]

LEMMA OnePlaces ==
    ASSUME NEW b, NEW h, DOMAIN h \subseteq Nat, IsFiniteSet(DOMAIN h), ~duplicated(occurrences(b, h))
    PROVE  OnePlaceEach(b, h)
BY OnePlace DEF OnePlaceEach

ReadAlike(b, h, k) ==
    LET P == occurrences(b, h)
        Q == occurrences(b, k)
    IN  /\ duplicated(P) <=> duplicated(Q)
        /\ ~duplicated(P) =>
              \A f \in CarriedFields :
                 (P[f] = {} <=> Q[f] = {}) /\ response_value(h, P[f]) = response_value(k, Q[f])

\* Two responses with the same readings are the same to parse_response.
LEMMA SameReading ==
    ASSUME NEW b, NEW h, NEW k, NEW c, NEW d, trim(c) = trim(d), is_blank(c) <=> is_blank(d),
           ReadAlike(b, h, k)
    PROVE  parse_response(b, h, c) = parse_response(b, k, d)
<1>1. CASE duplicated(occurrences(b, h))
  BY <1>1, DuplicatesAreRefused, Zenon DEF ReadAlike
<1>2. CASE ~duplicated(occurrences(b, h))
  <2> DEFINE P == occurrences(b, h)
             Q == occurrences(b, k)
  <2>1. \A f \in CarriedFields : response_value(h, P[f]) = response_value(k, Q[f])
    BY <1>2, Zenon DEF ReadAlike
  <2>2. \A f \in CarriedFields : required_response_header(h, P[f]) = required_response_header(k, Q[f])
    <3> SUFFICES ASSUME NEW f \in CarriedFields
                 PROVE  required_response_header(h, P[f]) = required_response_header(k, Q[f])
      BY Zenon
    <3>1. P[f] = {} <=> Q[f] = {}
      BY <1>2, Zenon DEF ReadAlike
    <3> HIDE DEF P, Q
    <3>2. CASE P[f] = {}
      BY <3>1, <3>2, Zenon DEF required_response_header
    <3>3. CASE P[f] # {}
      <4>1. h[Max(P[f])][2] = k[Max(Q[f])][2]
        BY <2>1, <3>1, <3>3, Zenon DEF response_value
      <4> QED BY <3>1, <3>3, <4>1, Zenon DEF required_response_header
    <3> QED BY <3>2, <3>3, Zenon
  <2>3. {"signature", "wrapped_session_key", "remote_signing_certificate", "request_id", "cipher"}
          \subseteq CarriedFields
    BY Zenon DEF CarriedFields
  <2>4. ~duplicated(P) /\ ~duplicated(Q)
    BY <1>2 DEF ReadAlike
  <2>5. ResponseChecks(b, h, c) = ResponseChecks(b, k, d)
    <3> DEFINE hv(f) == required_response_header(h, P[f])
               kv(f) == required_response_header(k, Q[f])
    <3>1. /\ hv("signature") = kv("signature") /\ hv("wrapped_session_key") = kv("wrapped_session_key")
          /\ hv("remote_signing_certificate") = kv("remote_signing_certificate")
          /\ hv("cipher") = kv("cipher") /\ hv("request_id") = kv("request_id")
          /\ response_value(h, P["request_id"]) = response_value(k, Q["request_id"])
          /\ response_value(h, P["remote_signing_certificate"]) = response_value(k, Q["remote_signing_certificate"])
      BY <2>1, <2>2, <2>3
    <3> QED BY <2>4, <3>1, Zenon DEF ResponseChecks
  <2>6. ResponseRead(b, h, c) = ResponseRead(b, k, d)
    <3>1. /\ response_value(h, P["signature"]) = response_value(k, Q["signature"])
          /\ response_value(h, P["wrapped_session_key"]) = response_value(k, Q["wrapped_session_key"])
          /\ response_value(h, P["cipher"]) = response_value(k, Q["cipher"])
          /\ response_value(h, P["request_id"]) = response_value(k, Q["request_id"])
          /\ response_value(h, P["remote_signing_certificate"]) = response_value(k, Q["remote_signing_certificate"])
      BY <2>1, <2>3, Zenon
    <3> QED BY <3>1, Zenon DEF ResponseRead
  <2> QED BY <2>5, <2>6, Parsing, Zenon
<1> QED BY <1>1, <1>2, Zenon

\* Every header of h is a header of k, wherever it moved, and what k has more no field is
\* mapped to.
Moves(b, h, k, s) ==
    /\ s \in [DOMAIN h -> DOMAIN k] /\ \A i, j \in DOMAIN h : s[i] = s[j] => i = j
    /\ \A i \in DOMAIN h : target(b, k[s[i]][1]) = target(b, h[i][1]) /\ k[s[i]][2] = h[i][2]
    /\ \A l \in DOMAIN k : target(b, k[l][1]) # "none" => \E i \in DOMAIN h : l = s[i]

IsList(h) == \E n \in Nat : DOMAIN h = 1..n

\* Headers that only moved, and headers no field is mapped to, are not noticed.
LEMMA Moved ==
    ASSUME NEW b, NEW h, NEW k, NEW s, IsList(h), IsList(k), Moves(b, h, k, s),
           NEW c, NEW d, trim(c) = trim(d), is_blank(c) <=> is_blank(d)
    PROVE  parse_response(b, h, c) = parse_response(b, k, d)
<1> DEFINE P == occurrences(b, h)
           Q == occurrences(b, k)
<1>1. /\ DOMAIN P = CarriedFields /\ DOMAIN Q = CarriedFields
      /\ \A f \in CarriedFields : P[f] = {i \in DOMAIN h : target(b, h[i][1]) = f}
      /\ \A f \in CarriedFields : Q[f] = {i \in DOMAIN k : target(b, k[i][1]) = f}
  BY DEF occurrences
<1>2. \A f \in CarriedFields : f # "none"
  BY DEF CarriedFields
<1>f. /\ IsFiniteSet(DOMAIN h) /\ DOMAIN h \subseteq Nat
      /\ IsFiniteSet(DOMAIN k) /\ DOMAIN k \subseteq Nat
  <2>1. ASSUME NEW n \in Nat PROVE IsFiniteSet(1..n) /\ 1..n \subseteq Nat
    <3>1. 1 \in Int /\ n \in Int
      OBVIOUS
    <3> QED BY <3>1, FS_Interval
  <2> QED BY <2>1 DEF IsList
<1>m. /\ s \in [DOMAIN h -> DOMAIN k] /\ \A i, j \in DOMAIN h : s[i] = s[j] => i = j
      /\ \A i \in DOMAIN h : target(b, k[s[i]][1]) = target(b, h[i][1]) /\ k[s[i]][2] = h[i][2]
      /\ \A l \in DOMAIN k : target(b, k[l][1]) # "none" => \E i \in DOMAIN h : l = s[i]
  BY Zenon DEF Moves
<1>3. \A f \in CarriedFields : IsFiniteSet(P[f]) /\ IsFiniteSet(Q[f])
  <2>2. IsFiniteSet(DOMAIN h) /\ IsFiniteSet(DOMAIN k)
    BY <1>f, Zenon
  <2>3. \A f \in CarriedFields : P[f] \subseteq DOMAIN h /\ Q[f] \subseteq DOMAIN k
    BY <1>1, Zenon
  <2> QED BY <2>2, <2>3, FS_Subset, Zenon
<1>9. ~duplicated(P) => OnePlaceEach(b, h)
  BY <1>f, OnePlaces, Zenon
<1>10. ~duplicated(Q) => OnePlaceEach(b, k)
  BY <1>f, OnePlaces, Zenon
<1> HIDE DEF P, Q
<1>4. ASSUME NEW f \in CarriedFields, NEW i \in P[f]
      PROVE  i \in DOMAIN h /\ s[i] \in Q[f] /\ k[s[i]][2] = h[i][2]
  <2>1. i \in DOMAIN h /\ target(b, h[i][1]) = f
    BY <1>1, Zenon
  <2>2. s[i] \in DOMAIN k /\ target(b, k[s[i]][1]) = f /\ k[s[i]][2] = h[i][2]
    BY <1>m, <2>1, Zenon
  <2> QED BY <1>1, <2>1, <2>2, Zenon
<1>5. ASSUME NEW f \in CarriedFields, NEW l \in Q[f] PROVE \E i \in P[f] : l = s[i]
  <2>1. l \in DOMAIN k /\ target(b, k[l][1]) = f /\ f # "none"
    BY <1>1, <1>2, Zenon
  <2>2. PICK i \in DOMAIN h : l = s[i]
    BY <1>m, <2>1, Zenon
  <2>3. target(b, h[i][1]) = f
    BY <1>m, <2>1, <2>2, Zenon
  <2> QED BY <1>1, <2>2, <2>3, Zenon
<1>6. \A f \in CarriedFields : (Cardinality(P[f]) > 1) <=> (Cardinality(Q[f]) > 1)
  <2> SUFFICES ASSUME NEW f \in CarriedFields
               PROVE  (\E i, j \in P[f] : i # j) <=> (\E i, j \in Q[f] : i # j)
    BY <1>3, Several, Zenon
  <2>1. ASSUME NEW i \in P[f], NEW j \in P[f], i # j PROVE \E u, v \in Q[f] : u # v
    <3>1. s[i] \in Q[f] /\ s[j] \in Q[f] /\ s[i] # s[j]
      BY <1>4, <1>m, <2>1, Zenon
    <3> QED BY <3>1, Zenon
  <2>2. ASSUME NEW i \in Q[f], NEW j \in Q[f], i # j PROVE \E u, v \in P[f] : u # v
    BY <1>5, <2>2
  <2> QED BY <2>1, <2>2, Zenon
<1>7. duplicated(P) <=> duplicated(Q)
  BY <1>1, <1>6, Zenon DEF duplicated
<1>8. ASSUME ~duplicated(P), NEW f \in CarriedFields
      PROVE  (P[f] = {} <=> Q[f] = {}) /\ response_value(h, P[f]) = response_value(k, Q[f])
  <2>1. P[f] = {} <=> Q[f] = {}
    BY <1>4, <1>5, Zenon
  <2>2. CASE P[f] = {}
    BY <2>1, <2>2, Zenon DEF response_value
  <2>3. CASE P[f] # {}
    <3>1. PICK i \in DOMAIN h : P[f] = {i} /\ response_value(h, P[f]) = h[i][2]
      BY <1>8, <1>9, <2>3, Zenon DEF OnePlaceEach, P
    <3>2. PICK l \in DOMAIN k : Q[f] = {l} /\ response_value(k, Q[f]) = k[l][2]
      BY <1>7, <1>8, <1>10, <2>1, <2>3, Zenon DEF OnePlaceEach, Q
    <3>3. l = s[i] /\ k[l][2] = h[i][2]
      BY <1>4, <1>5, <3>1, <3>2
    <3> QED BY <2>1, <3>1, <3>2, <3>3, Zenon
  <2> QED BY <2>2, <2>3, <2>1, Zenon
<1>11. ~duplicated(P) =>
         \A f \in CarriedFields :
            (P[f] = {} <=> Q[f] = {}) /\ response_value(h, P[f]) = response_value(k, Q[f])
  BY <1>8
<1>12. ReadAlike(b, h, k)
  BY <1>7, <1>11, Zenon DEF ReadAlike, P, Q
<1> QED BY <1>12, SameReading

IsHeader(p) == p = <<p[1], p[2]>> /\ IsName(p[1]) /\ IsText(p[2])

\* What is on the wire is a list of headers and a text.
WireInv ==
    /\ schema \in Schemas
    /\ \E T : headers \in Seq(T) /\ \A p \in T : IsHeader(p)
    /\ IsText(body)

\* One header is replaced.
LEMMA Replaced ==
    ASSUME NEW T, NEW h \in Seq(T), NEW i \in DOMAIN h, NEW p
    PROVE  [h EXCEPT ![i] = p] \in Seq(T \cup {p})
<1>1. Len(h) \in Nat /\ DOMAIN h = 1..Len(h)
  BY LenProperties
<1>2. [h EXCEPT ![i] = p] \in [1..Len(h) -> T \cup {p}]
  BY <1>1, LenProperties
<1> QED BY <1>1, <1>2, ListOf

LEMMA Widened ==
    ASSUME NEW T, NEW h \in Seq(T), NEW p
    PROVE  h \in Seq(T \cup {p}) /\ Append(h, p) \in Seq(T \cup {p})
<1>1. Len(h) \in Nat /\ h \in [1..Len(h) -> T \cup {p}]
  BY LenProperties
<1>2. h \in Seq(T \cup {p})
  BY <1>1, ListOf, Zenon
<1> QED BY <1>2, AppendProperties

LEMMA PadsAreTexts ==
    ASSUME NEW t, IsText(t)
    PROVE  /\ IsText(Padded(t)) /\ trim(Padded(t)) = trim(t)
           /\ is_blank(Padded(t)) <=> is_blank(t)
<1> DEFINE u == Padded(t)
<1>1. u = [core |-> t.core, pad |-> TRUE, control |-> t.control]
  BY WithPad, Zenon DEF Padded
<1> HIDE DEF u
<1>2. u.core = t.core /\ u.control = t.control
  BY <1>1
<1>3. u.pad = TRUE
  BY <1>1, Zenon
<1>4. IsText(u)
  BY <1>1, <1>2, <1>3, Zenon DEF IsText
<1>5. trim(u) = [core |-> t.core, pad |-> FALSE, control |-> t.control]
  BY <1>2, <1>4, Trimmed
<1> QED BY <1>2, <1>4, <1>5, Trimmed DEF u, is_blank

LEMMA NewValue ==
    ASSUME NEW p, IsHeader(p), NEW t, IsText(t)
    PROVE  IsHeader([p EXCEPT ![2] = t])
<1>1. [p EXCEPT ![2] = t] = <<p[1], t>>
  BY DEF IsHeader
<1> QED BY <1>1 DEF IsHeader

LEMMA NewCasing ==
    ASSUME NEW p, IsHeader(p), NEW casing
    PROVE  LET q == [p EXCEPT ![1].casing = casing]
           IN  IsHeader(q) /\ q[1].canonical = p[1].canonical /\ q[2] = p[2]
<1> DEFINE q == [p EXCEPT ![1].casing = casing]
           n == [p[1] EXCEPT !.casing = casing]
<1>1. n = [canonical |-> p[1].canonical, casing |-> casing]
  BY DEF IsHeader, IsName
<1>2. q = [p EXCEPT ![1] = n]
  OBVIOUS
<1> HIDE DEF n, q
<1>3. q = <<n, p[2]>>
  BY <1>2 DEF IsHeader
<1>4. IsName(n) /\ n.canonical = p[1].canonical
  BY <1>1 DEF IsName
<1> QED BY <1>3, <1>4 DEF IsHeader, q

LEMMA WireTexts ==
    /\ IsText(Other) /\ IsText(With(Other, "line")) /\ IsText(EmptyText)
    /\ \A t \in Damaged : IsText(t)
<1>1. IsText(Other) /\ IsText(Text("other"))
  BY TextIsText DEF Other
<1>2. IsText(EmptyText)
  BY Zenon DEF IsText, EmptyText
<1>3. ASSUME NEW t, IsText(t), NEW c PROVE IsText(With(t, c))
  <2>1. With(t, c) = [core |-> t.core, pad |-> t.pad, control |-> c]
    BY <1>3 DEF IsText, With
  <2> QED BY <2>1 DEF IsText
<1> QED BY <1>1, <1>2, <1>3 DEF Damaged

LEMMA WireInvariant == WireSpec => []WireInv
<1>1. ASSUME WireInit PROVE WireInv
  <2> DEFINE v == [f \in CarriedFields |-> Text(f)]
             t == slots(schema)
             h == laid_out(schema, v)
             T == {h[i] : i \in DOMAIN h}
  <2>1. schema \in Schemas /\ headers = h /\ body = Text("cipher")
    BY <1>1, Zenon DEF WireInit
  <2>2. IsBuilder(schema) /\ \A k \in DOMAIN t : IsName(t[k][2])
    BY <2>1, BuiltSchemas, Zenon
  <2>3. /\ DOMAIN t = 1..Len(t) /\ Len(t) \in Nat
        /\ \A k \in DOMAIN t : t[k][1] \in Fields(schema)
    <3>1. schema.bound \in BOOLEAN
      BY <2>2 DEF IsBuilder
    <3>2. \A n \in 3..5 : n \in Nat
      OBVIOUS
    <3> HIDE DEF t
    <3> QED BY <3>1, <3>2, Slots DEF t
  <2>4. DOMAIN h = DOMAIN t /\ \A k \in DOMAIN t : h[k] = <<t[k][2], v[t[k][1]]>>
    BY DEF laid_out
  <2>5. \A f \in Fields(schema) : IsText(v[f])
    BY TextIsText, Zenon DEF Fields, CarriedFields
  <2>6. h = [k \in DOMAIN h |-> h[k]]
    BY DEF laid_out
  <2> HIDE DEF t, h, v
  <2>7. \A k \in DOMAIN h : IsHeader(h[k])
    BY <2>2, <2>3, <2>4, <2>5 DEF IsHeader
  <2>8. h \in [1..Len(t) -> T]
    BY <2>3, <2>4, <2>6, Zenon
  <2>9. \A p \in T : IsHeader(p)
    BY <2>7, Zenon
  <2> HIDE DEF T
  <2>10. h \in Seq(T)
    BY <2>3, <2>8, ListOf, Zenon
  <2> QED BY <2>1, <2>9, <2>10, TextIsText, Zenon DEF WireInv
<1>2. ASSUME WireInv, [WireNext]_wvars PROVE WireInv'
  <2>0. PICK T : headers \in Seq(T) /\ \A p \in T : IsHeader(p)
    BY <1>2 DEF WireInv
  <2>a. headers \in Seq(T) /\ schema \in Schemas /\ IsText(body)
    BY <1>2, <2>0 DEF WireInv
  <2>b. DOMAIN headers = 1..Len(headers) /\ Len(headers) \in Nat /\ \A i \in DOMAIN headers : IsHeader(headers[i])
    BY <2>0, LenProperties
  <2>1. ASSUME NEW i \in 1..Len(headers) - 1, Reorder(i) PROVE WireInv'
    <3>1. i \in DOMAIN headers /\ i + 1 \in DOMAIN headers
      BY <2>b
    <3>2. headers' \in [1..Len(headers) -> T] /\ schema' = schema /\ body' = body
      BY <2>0, <2>1, <2>b, <3>1 DEF Reorder, Change
    <3>3. headers' \in Seq(T)
      BY <2>b, <3>2, ListOf
    <3> QED BY <2>0, <2>a, <3>2, <3>3 DEF WireInv
  <2>r. ASSUME NEW i \in DOMAIN headers, NEW p, IsHeader(p), headers' = [headers EXCEPT ![i] = p],
               schema' = schema, body' = body
        PROVE  WireInv'
    <3>1. headers' \in Seq(T \cup {p})
      BY <2>a, <2>r, Replaced
    <3>2. \A q \in T \cup {p} : IsHeader(q)
      BY <2>0, <2>r
    <3> QED BY <2>a, <2>r, <3>1, <3>2 DEF WireInv
  <2>s. ASSUME NEW p, IsHeader(p), headers' = Append(headers, p), schema' = schema, body' = body
        PROVE  WireInv'
    <3>1. headers' \in Seq(T \cup {p})
      BY <2>a, <2>s, Widened
    <3>2. \A q \in T \cup {p} : IsHeader(q)
      BY <2>0, <2>s
    <3> QED BY <2>a, <2>s, <3>1, <3>2 DEF WireInv
  <2>2. ASSUME NEW i \in DOMAIN headers, NEW casing \in Casings, Recase(i, casing) PROVE WireInv'
    <3> DEFINE p == [headers[i] EXCEPT ![1].casing = casing]
    <3>1. IsHeader(p)
      BY <2>b, NewCasing, Zenon
    <3>2. headers' = [headers EXCEPT ![i] = p] /\ schema' = schema /\ body' = body
      BY <2>2 DEF Recase, Change
    <3> HIDE DEF p
    <3> QED BY <2>r, <3>1, <3>2, Zenon
  <2>3. ASSUME NEW value, IsText(value), AddForeign(value) PROVE WireInv'
    <3>1. IsHeader(<<Foreign, value>>)
      BY <2>3, ForeignIsName DEF IsHeader
    <3> QED BY <2>3, <2>s, <3>1 DEF AddForeign, Change
  <2>4. ASSUME PadBody \/ DropBody PROVE WireInv'
    <3>1. schema' = schema /\ headers' = headers /\ IsText(body')
      BY <2>4, <2>a, PadsAreTexts, WireTexts DEF PadBody, DropBody, Change
    <3> QED BY <2>0, <2>a, <3>1 DEF WireInv
  <2>5. ASSUME NEW i \in DOMAIN headers, PadValue(i) PROVE WireInv'
    <3> DEFINE p == [headers[i] EXCEPT ![2] = Padded(headers[i][2])]
    <3>1. IsHeader(p)
      BY <2>b, NewValue, PadsAreTexts DEF IsHeader
    <3>2. headers' = [headers EXCEPT ![i] = p] /\ schema' = schema /\ body' = body
      BY <2>5 DEF PadValue, Change
    <3> HIDE DEF p
    <3> QED BY <2>r, <3>1, <3>2, Zenon
  <2>6. ASSUME NEW i \in DOMAIN headers, NEW value, IsText(value), Repeat(i, value) PROVE WireInv'
    <3>1. IsHeader(<<headers[i][1], value>>)
      BY <2>6, <2>b, Zenon DEF IsHeader
    <3> QED BY <2>6, <2>s, <3>1 DEF Repeat, Change
  <2>7. ASSUME NEW i \in DOMAIN headers, Drop(i) PROVE WireInv'
    <3> DEFINE s == SubSeq(headers, 1, i - 1)
               t == SubSeq(headers, i + 1, Len(headers))
    <3>1. s \in Seq(T)
      <4>1. \A j \in 1..i - 1 : j \in 1..Len(headers)
        BY <2>b
      <4>2. 1 \in Nat /\ i - 1 \in Nat
        BY <2>b
      <4> QED BY <2>a, <2>b, <4>1, <4>2, SubSeqProperties
    <3>2. t \in Seq(T)
      <4>1. \A j \in i + 1..Len(headers) : j \in 1..Len(headers)
        BY <2>b
      <4> QED BY <2>a, <2>b, <4>1, SubSeqProperties
    <3>3. headers' = s \o t /\ schema' = schema /\ body' = body
      BY <2>7, Zenon DEF Drop, Change
    <3> HIDE DEF s, t
    <3>4. headers' \in Seq(T)
      BY <3>1, <3>2, <3>3, ConcatProperties, Zenon
    <3> QED BY <2>0, <2>a, <3>3, <3>4, Zenon DEF WireInv
  <2>8. ASSUME NEW i \in DOMAIN headers, NEW value \in Damaged, Damage(i, value) PROVE WireInv'
    <3> DEFINE p == [headers[i] EXCEPT ![2] = value]
    <3>1. IsHeader(p)
      BY <2>b, NewValue, WireTexts
    <3>2. headers' = [headers EXCEPT ![i] = p] /\ schema' = schema /\ body' = body
      BY <2>8 DEF Damage, Change
    <3> HIDE DEF p
    <3> QED BY <2>r, <3>1, <3>2, Zenon
  <2>9. CASE UNCHANGED wvars
    BY <1>2, <2>9 DEF wvars, WireInv
  <2>10. \A i \in DOMAIN headers : IsText(headers[i][2])
    BY <2>b DEF IsHeader
  <2>11. ASSUME WireNext PROVE WireInv'
    <3>1. ASSUME NEW value \in {Other, With(Other, "line")}, AddForeign(value) PROVE WireInv'
      BY <2>3, <3>1, WireTexts, Zenon
    <3>2. ASSUME NEW i \in DOMAIN headers, Repeat(i, headers[i][2]) \/ Repeat(i, Other) PROVE WireInv'
      BY <2>6, <2>10, <3>2, WireTexts
    <3> QED BY <2>1, <2>2, <3>1, <2>4, <2>5, <3>2, <2>7, <2>8, <2>11 DEF WireNext
  <2> QED BY <1>2, <2>9, <2>11, Zenon
<1> QED BY <1>1, <1>2, PTL DEF WireSpec

\* Every header on the wire, by its place.
LEMMA OnTheWire ==
    ASSUME WireInv
    PROVE  /\ IsBuilder(schema) /\ Apart(schema)
           /\ Len(headers) \in Nat /\ DOMAIN headers = 1..Len(headers)
           /\ \A i \in DOMAIN headers : IsHeader(headers[i])
           /\ target(schema, Foreign) = "none"
<1>1. IsBuilder(schema) /\ build(schema) = "none"
  BY BuiltSchemas DEF WireInv
<1>2. PICK T : headers \in Seq(T) /\ \A p \in T : IsHeader(p)
  BY DEF WireInv
<1>3. /\ Len(headers) \in Nat /\ DOMAIN headers = 1..Len(headers)
      /\ \A i \in DOMAIN headers : IsHeader(headers[i])
  BY <1>2, LenProperties, Zenon
<1>4. ASSUME target(schema, Foreign) # "none" PROVE FALSE
  <2> DEFINE f == target(schema, Foreign)
             t == slots(schema)
  <2>1. f \in Fields(schema) /\ slot_name(schema, f).canonical = Foreign.canonical
    BY <1>1, <1>4, TargetOf, Zenon
  <2>2. \A k \in DOMAIN t : t[k][2].canonical # Foreign.canonical
    BY BuiltSchemas, Zenon DEF WireInv, eq_ignore_ascii_case
  <2>3. schema.bound \in BOOLEAN
    BY <1>1, Zenon DEF IsBuilder
  <2> HIDE DEF f, t
  <2>4. /\ \A k \in DOMAIN t : t[k][2] = slot_name(schema, t[k][1])
        /\ \A g \in Fields(schema) : \E k \in DOMAIN t : t[k][1] = g
    BY <2>3, Slots DEF t
  <2> QED BY <2>1, <2>2, <2>4
<1> QED BY <1>1, <1>3, <1>4, BuiltIsApart, Zenon

\* parse_response does not depend on the order of the headers, the casing of their names,
\* headers no field is mapped to, or whitespace around the body.
THEOREM ParsingIsInsensitive == WireSpec => []HarmlessChangesAreInvisible
<1>1. WireInit => HarmlessChangesAreInvisible
  BY Zenon DEF WireInit, HarmlessChangesAreInvisible
<1>2. ASSUME WireInv, HarmlessChangesAreInvisible, [WireNext]_wvars
      PROVE  HarmlessChangesAreInvisible'
  <2> DEFINE same == /\ schema' = schema
                     /\ parse_response(schema', headers', body') = parse_response(schema, headers, body)
             n == Len(headers)
  <2>0. /\ IsBuilder(schema) /\ n \in Nat /\ DOMAIN headers = 1..n
        /\ \A i \in DOMAIN headers : IsHeader(headers[i])
        /\ target(schema, Foreign) = "none"
    BY <1>2, OnTheWire
  <2>t. IsText(body)
    BY <1>2 DEF WireInv
  <2> HIDE DEF n
  <2>1. ASSUME NEW i \in 1..n - 1, Reorder(i) PROVE same
    <3> DEFINE k == [headers EXCEPT ![i] = headers[i + 1], ![i + 1] = headers[i]]
               s == [j \in 1..n |-> IF j = i THEN i + 1 ELSE IF j = i + 1 THEN i ELSE j]
    <3>1. headers' = k /\ schema' = schema /\ body' = body
      BY <2>1 DEF Reorder, Change
    <3>2. i \in 1..n /\ i + 1 \in 1..n
      BY <2>0
    <3>3. /\ DOMAIN k = 1..n /\ k[i] = headers[i + 1] /\ k[i + 1] = headers[i]
          /\ \A j \in 1..n : j # i /\ j # i + 1 => k[j] = headers[j]
      BY <2>0, <3>2
    <3>4. s \in [1..n -> 1..n] /\ s[i] = i + 1 /\ s[i + 1] = i
      BY <3>2
    <3>5. \A j \in 1..n : j # i /\ j # i + 1 => s[j] = j
      OBVIOUS
    <3> HIDE DEF k, s
    <3>6. \A j \in 1..n : s[s[j]] = j
      BY <3>2, <3>4, <3>5
    <3>7. \A j, l \in 1..n : s[j] = s[l] => j = l
      BY <3>6, Zenon
    <3>8. \A j \in 1..n : k[s[j]] = headers[j]
      BY <3>2, <3>3, <3>4, <3>5
    <3>9. \A j \in 1..n : target(schema, k[s[j]][1]) = target(schema, headers[j][1])
                           /\ k[s[j]][2] = headers[j][2]
      BY <3>8, Zenon
    <3>10. \A l \in 1..n : target(schema, k[l][1]) # "none" => \E j \in 1..n : l = s[j]
      <4>1. \A l \in 1..n : s[l] \in 1..n /\ l = s[s[l]]
        BY <3>4, <3>6
      <4> QED BY <4>1
    <3>11. parse_response(schema, headers, body) = parse_response(schema, k, body)
      <4>1. IsList(headers) /\ IsList(k)
        BY <2>0, <3>3 DEF IsList
      <4>2. Moves(schema, headers, k, s)
        <5>1. DOMAIN headers = 1..n /\ DOMAIN k = 1..n
          BY <2>0, <3>3
        <5> QED BY <5>1, <3>4, <3>7, <3>9, <3>10, Zenon DEF Moves
      <4> QED BY <4>1, <4>2, Moved
    <3> QED BY <3>1, <3>11
  <2>i. ASSUME NEW k, NEW m \in Nat, n <= m, DOMAIN k = 1..m,
               \A j \in 1..n : target(schema, k[j][1]) = target(schema, headers[j][1])
                              /\ k[j][2] = headers[j][2],
               \A l \in 1..m : target(schema, k[l][1]) # "none" => l \in 1..n,
               NEW d, trim(body) = trim(d), is_blank(body) <=> is_blank(d)
        PROVE  parse_response(schema, headers, body) = parse_response(schema, k, d)
    <3> DEFINE s == [j \in 1..n |-> j]
    <3>1. s \in [1..n -> 1..m] /\ \A j \in 1..n : s[j] = j
      BY <2>0, <2>i
    <3> HIDE DEF s
    <3>2. \A j, l \in 1..n : s[j] = s[l] => j = l
      BY <3>1, Zenon
    <3>3. \A j \in 1..n : target(schema, k[s[j]][1]) = target(schema, headers[j][1])
                           /\ k[s[j]][2] = headers[j][2]
      BY <2>i, <3>1
    <3>4. \A l \in 1..m : target(schema, k[l][1]) # "none" => \E j \in 1..n : l = s[j]
      BY <2>i, <3>1, Zenon
    <3>5. IsList(headers) /\ IsList(k)
      BY <2>0, <2>i, Zenon DEF IsList
    <3>6. Moves(schema, headers, k, s)
      BY <2>0, <2>i, <3>1, <3>2, <3>3, <3>4 DEF Moves
    <3> QED BY <2>i, <3>5, <3>6, Moved
  <2>2. ASSUME NEW i \in DOMAIN headers, NEW casing \in Casings, Recase(i, casing) PROVE same
    <3> DEFINE p == [headers[i] EXCEPT ![1].casing = casing]
               k == [headers EXCEPT ![i] = p]
    <3>1. p[1].canonical = headers[i][1].canonical /\ p[2] = headers[i][2]
      BY <2>0, NewCasing
    <3>2. headers' = k /\ schema' = schema /\ body' = body
      BY <2>2 DEF Recase, Change
    <3> HIDE DEF p
    <3>3. DOMAIN k = 1..n /\ k[i] = p /\ \A j \in 1..n : j # i => k[j] = headers[j]
      BY <2>0, Zenon
    <3> HIDE DEF k
    <3>4. target(schema, p[1]) = target(schema, headers[i][1])
      BY <3>1, SameTarget, Zenon
    <3>5. \A j \in 1..n : target(schema, k[j][1]) = target(schema, headers[j][1])
                           /\ k[j][2] = headers[j][2]
      BY <3>1, <3>3, <3>4, Zenon
    <3>6. n <= n
      BY <2>0
    <3>7. parse_response(schema, headers, body) = parse_response(schema, k, body)
      BY <2>0, <2>i, <3>3, <3>5, <3>6, Zenon
    <3> QED BY <3>2, <3>7
  <2>3. ASSUME NEW value, AddForeign(value) PROVE same
    <3> DEFINE k == Append(headers, <<Foreign, value>>)
    <3>1. headers' = k /\ schema' = schema /\ body' = body
      BY <2>3 DEF AddForeign, Change
    <3>2. /\ DOMAIN k = 1..n + 1 /\ k[n + 1] = <<Foreign, value>>
          /\ \A j \in 1..n : k[j] = headers[j]
      <4>1. PICK T : headers \in Seq(T)
        BY <1>2 DEF WireInv
      <4>2. headers \in Seq(T \cup {<<Foreign, value>>}) /\ <<Foreign, value>> \in T \cup {<<Foreign, value>>}
        BY <4>1, Widened, Zenon
      <4>3. /\ Len(k) = Len(headers) + 1 /\ DOMAIN k = 1..Len(k) /\ k[Len(headers) + 1] = <<Foreign, value>>
            /\ \A j \in 1..Len(headers) : k[j] = headers[j]
        BY <4>2, AppendProperties, LenProperties
      <4> QED BY <4>3 DEF n
    <3> HIDE DEF k
    <3>3. k[n + 1][1] = Foreign
      BY <3>2
    <3>4. \A l \in 1..n + 1 : target(schema, k[l][1]) # "none" => l \in 1..n
      <4>1. \A l \in 1..n + 1 : l \in 1..n \/ l = n + 1
        BY <2>0
      <4> QED BY <2>0, <3>3, <4>1, Zenon
    <3>5. n + 1 \in Nat /\ n <= n + 1
      BY <2>0
    <3>6. \A j \in 1..n : target(schema, k[j][1]) = target(schema, headers[j][1])
                           /\ k[j][2] = headers[j][2]
      BY <3>2, Zenon
    <3>7. parse_response(schema, headers, body) = parse_response(schema, k, body)
      BY <2>i, <3>2, <3>4, <3>5, <3>6
    <3> QED BY <3>1, <3>7, Zenon
  <2>4. ASSUME PadBody PROVE same
    <3>1. headers' = headers /\ schema' = schema /\ body' = Padded(body)
      BY <2>4 DEF PadBody, Change
    <3>2. trim(body) = trim(Padded(body)) /\ (is_blank(body) <=> is_blank(Padded(body)))
      BY <2>t, PadsAreTexts
    <3>3. n <= n
      BY <2>0
    <3>4. \A j \in 1..n : target(schema, headers[j][1]) = target(schema, headers[j][1])
                           /\ headers[j][2] = headers[j][2]
      BY Zenon
    <3>5. parse_response(schema, headers, body) = parse_response(schema, headers, Padded(body))
      BY <2>0, <2>i, <3>2, <3>3, <3>4
    <3> QED BY <3>1, <3>5
  <2> HIDE DEF same
  <2>5. CASE before' = <<>>
    BY <2>5 DEF HarmlessChangesAreInvisible
  <2>6. ASSUME before' = <<headers, body>>, same PROVE HarmlessChangesAreInvisible'
    <3>1. before'[1] = headers /\ before'[2] = body /\ schema' = schema
      BY <2>6 DEF same
    <3>2. Parsed' = parse_response(schema', before'[1], before'[2])
      BY <2>6, <3>1 DEF Parsed, same
    <3> QED BY <3>2, Zenon DEF HarmlessChangesAreInvisible
  <2>7. CASE UNCHANGED wvars
    <3>1. schema' = schema /\ headers' = headers /\ body' = body /\ before' = before
      BY <2>7 DEF wvars
    <3>2. Parsed' = Parsed
      BY <3>1, Zenon DEF Parsed
    <3> QED BY <1>2, <3>1, <3>2 DEF HarmlessChangesAreInvisible
  <2> QED BY <1>2, <2>1, <2>2, <2>3, <2>4, <2>5, <2>6, <2>7, Zenon DEF WireNext, n
<1> QED BY <1>1, <1>2, WireInvariant, PTL DEF WireSpec

\* What parse_response accepts stands once on the wire and is read as it stands there.
THEOREM ReadingIsExact == WireSpec => []ResponsesAreReadExactly
<1>1. ASSUME WireInv PROVE RepeatedFieldsAreRefused
  <2> SUFFICES ASSUME NEW i \in DOMAIN headers, NEW j \in DOMAIN headers, i # j,
                      headers[i][1].canonical = headers[j][1].canonical,
                      NEW k \in DOMAIN slots(schema),
                      slots(schema)[k][2].canonical = headers[i][1].canonical
               PROVE  Parsed.err = "DuplicateField"
    BY Zenon DEF RepeatedFieldsAreRefused
  <2> DEFINE P == occurrences(schema, headers)
             f == target(schema, headers[i][1])
  <2>1. IsBuilder(schema) /\ Len(headers) \in Nat /\ DOMAIN headers = 1..Len(headers)
    BY <1>1, OnTheWire, Zenon
  <2>2. schema.bound \in BOOLEAN
    BY <2>1, Zenon DEF IsBuilder
  <2>3. slots(schema)[k][1] \in Fields(schema) /\ slots(schema)[k][2] = slot_name(schema, slots(schema)[k][1])
    BY <2>2, Slots
  <2>4. f \in Fields(schema)
    BY <2>1, <2>3, TargetOf, Zenon
  <2>5. target(schema, headers[j][1]) = f
    BY SameTarget, Zenon
  <2>6. f \in CarriedFields
    BY <2>4, Zenon DEF Fields, CarriedFields
  <2>7. DOMAIN P = CarriedFields /\ P[f] = {l \in DOMAIN headers : target(schema, headers[l][1]) = f}
    BY <2>6, Zenon DEF occurrences
  <2> HIDE DEF P, f
  <2>8. i \in P[f] /\ j \in P[f]
    BY <2>5, <2>7, Zenon DEF f
  <2>9. IsFiniteSet(P[f])
    <3>1. 1 \in Int /\ Len(headers) \in Int
      BY <2>1
    <3>2. IsFiniteSet(1..Len(headers))
      BY <3>1, FS_Interval, Zenon
    <3>3. P[f] \subseteq 1..Len(headers)
      BY <2>1, <2>7, Zenon
    <3> QED BY <3>2, <3>3, FS_Subset, Zenon
  <2>10. duplicated(P)
    BY <2>6, <2>7, <2>8, <2>9, Several, Zenon DEF duplicated
  <2>11. Parsed = [err |-> "DuplicateField"]
    BY <2>10, DuplicatesAreRefused DEF Parsed, P
  <2> QED BY <2>11, Zenon
<1>2. ASSUME WireInv PROVE RequestIdIsVerbatim
  <2> SUFFICES ASSUME Parsed.err = "none"
               PROVE  /\ schema.bound =>
                           /\ Received("request_id") = {Parsed.context.bytes[3]}
                           /\ ~Parsed.context.bytes[3].pad
                      /\ \A f \in {"signature", "wrapped_session_key"} :
                           {trim(v) : v \in Received(f)} = {Parsed.envelope[f]}
    BY Zenon DEF RequestIdIsVerbatim
  <2> DEFINE P == occurrences(schema, headers)
             value(f) == response_value(headers, P[f])
             required(f) == required_response_header(headers, P[f])
  <2>1. /\ IsBuilder(schema) /\ Apart(schema) /\ schema.bound \in BOOLEAN
        /\ Len(headers) \in Nat /\ DOMAIN headers = 1..Len(headers)
        /\ \A i \in DOMAIN headers : IsHeader(headers[i])
    BY <1>2, OnTheWire, Zenon DEF IsBuilder
  <2>2. /\ ~duplicated(P) /\ required("signature") = "none" /\ required("wrapped_session_key") = "none"
        /\ schema.bound => required("request_id") = "none" /\ require_exact_trim(value("request_id")) = "none"
    BY AcceptedResponse DEF Parsed
  <2>3. Parsed = ResponseRead(schema, headers, body)
    BY Parsing, Zenon DEF Parsed
  <2>4. /\ Parsed.envelope = [cipher |-> Parsed.envelope.cipher,
                              wrapped_session_key |-> trim(value("wrapped_session_key")),
                              signature |-> trim(value("signature"))]
        /\ schema.bound => Parsed.context = encode_response_context(value("request_id")).context
    BY <2>3, Zenon DEF ResponseRead
  <2>5. schema.bound => Parsed.context.bytes[3] = value("request_id")
    BY <2>4 DEF encode_response_context, Bound
  <2>6. ASSUME NEW f \in Fields(schema) \cap CarriedFields, required(f) = "none"
        PROVE  /\ Received(f) = {value(f)}
               /\ \E i \in DOMAIN headers : value(f) = headers[i][2]
    <3>1. P[f] # {}
      BY <2>6, Zenon DEF required_response_header
    <3>2. OnePlaceEach(schema, headers)
      <4>1. IsFiniteSet(DOMAIN headers) /\ DOMAIN headers \subseteq Nat
        <5>1. 1 \in Int /\ Len(headers) \in Int
          BY <2>1
        <5>2. IsFiniteSet(1..Len(headers))
          BY <5>1, FS_Interval, Zenon
        <5> QED BY <2>1, <5>2
      <4> QED BY <2>2, <4>1, OnePlaces
    <3>3. PICK i \in DOMAIN headers : P[f] = {i} /\ value(f) = headers[i][2]
      BY <3>1, <3>2, Zenon DEF OnePlaceEach
    <3> DEFINE places == {j \in DOMAIN headers :
                            \E k \in DOMAIN slots(schema) :
                              /\ slots(schema)[k][1] = f
                              /\ slots(schema)[k][2].canonical = headers[j][1].canonical}
    <3>4. P[f] = {j \in DOMAIN headers : slot_name(schema, f).canonical = headers[j][1].canonical}
      BY <2>1, Places
    <3>5. places = P[f]
      <4> DEFINE t == slots(schema)
      <4>1. /\ \A k \in DOMAIN t : t[k][2] = slot_name(schema, t[k][1])
            /\ \A g \in Fields(schema) : \E k \in DOMAIN t : t[k][1] = g
        <5> HIDE DEF t
        <5> QED BY <2>1, Slots DEF t
      <4> QED BY <3>4, <4>1
    <3>6. Received(f) = {headers[j][2] : j \in places}
      BY Zenon DEF Received
    <3> HIDE DEF places, P, value
    <3>7. Received(f) = {headers[i][2]}
      BY <3>3, <3>5, <3>6, Zenon
    <3> QED BY <3>3, <3>7, Zenon
  <2>7. /\ {"signature", "wrapped_session_key"} \subseteq Fields(schema) \cap CarriedFields
        /\ schema.bound => "request_id" \in Fields(schema) \cap CarriedFields
    BY Zenon DEF Fields, CarriedFields
  <2> HIDE DEF P, value, required
  <2>8. ASSUME schema.bound
        PROVE  Received("request_id") = {Parsed.context.bytes[3]} /\ ~Parsed.context.bytes[3].pad
    <3>1. Received("request_id") = {value("request_id")}
      BY <2>2, <2>6, <2>7, <2>8, Zenon
    <3>2. PICK i \in DOMAIN headers : value("request_id") = headers[i][2]
      BY <2>2, <2>6, <2>7, <2>8, Zenon
    <3>3. IsText(value("request_id"))
      BY <2>1, <3>2, Zenon DEF IsHeader
    <3>4. value("request_id") = trim(value("request_id"))
      BY <2>2, <2>8, Zenon DEF require_exact_trim
    <3>5. trim(value("request_id")).pad = FALSE
      <4> DEFINE v == value("request_id")
      <4>1. trim(v) = [core |-> v.core, pad |-> FALSE, control |-> v.control]
        BY <3>3, Trimmed
      <4> HIDE DEF v
      <4>2. [core |-> v.core, pad |-> FALSE, control |-> v.control].pad = FALSE
        OBVIOUS
      <4>3. trim(v).pad = FALSE
        BY <4>1, <4>2, Zenon
      <4> QED BY <4>3, Zenon DEF v
    <3>6. value("request_id").pad = FALSE
      BY <3>4, <3>5, Zenon
    <3> QED BY <2>5, <2>8, <3>1, <3>6, Zenon
  <2>9. ASSUME NEW f \in {"signature", "wrapped_session_key"}
        PROVE  {trim(v) : v \in Received(f)} = {Parsed.envelope[f]}
    <3>1. Received(f) = {value(f)}
      BY <2>2, <2>6, <2>7, Zenon
    <3>2. Parsed.envelope[f] = trim(value(f))
      BY <2>4
    <3> QED BY <3>1, <3>2, Zenon
  <2> QED BY <2>8, <2>9
<1>3. WireInv => ResponsesAreReadExactly
  BY <1>1, <1>2 DEF ResponsesAreReadExactly
<1> QED BY <1>3, WireInvariant, PTL
=============================================================================
