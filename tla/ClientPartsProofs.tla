------------------------- MODULE ClientPartsProofs -------------------------
(***************************************************************************)
(* Proofs about what a client is made from: its configuration, its key     *)
(* files, the bytes it signs and binds, and its timestamps.                *)
(***************************************************************************)
EXTENDS ClientConfig, KeyMaterial, Transcript, RequestTime,
        SequenceTheorems, WellFoundedInduction, TLAPS

\* An explicit limit is a usize, and a result is build's verdict on the builder as it is.
BuilderInv ==
    /\ DOMAIN builder = BuilderFields
    /\ builder = [f \in BuilderFields |-> builder[f]]
    /\ builder["max_plaintext_bytes"] = <<>> \/ \E n \in Limits : builder["max_plaintext_bytes"] = <<n>>
    /\ \A f \in SignerFields : builder[f] = <<>> \/ \E n \in ByteLens : builder[f] = <<n>>
    /\ built = Err("pending") \/ built = build(builder)

LEMMA SetField ==
    ASSUME BuilderInv, NEW f \in BuilderFields \ {"max_plaintext_bytes"}, NEW v, Setter,
           f \in SignerFields => \E n \in ByteLens : v = <<n>>,
           builder' = [builder EXCEPT ![f] = v]
    PROVE  BuilderInv'
<1>1. built' = Err("pending")
  BY DEF Setter
<1>2. "max_plaintext_bytes" \in BuilderFields /\ SignerFields \subseteq BuilderFields
  BY DEF BuilderFields
<1>3. /\ DOMAIN builder' = BuilderFields /\ builder' = [g \in BuilderFields |-> builder'[g]]
      /\ \A g \in BuilderFields : builder'[g] = IF g = f THEN v ELSE builder[g]
  BY DEF BuilderInv
<1> QED BY <1>1, <1>2, <1>3, Zenon DEF BuilderInv

LEMMA BuilderInvariant == ConfigSpec => []BuilderInv
<1>1. ConfigInit => BuilderInv
  BY BaseAssumption DEF ConfigInit, BuilderInv
<1>2. ASSUME BuilderInv, [ConfigNext]_cvars PROVE BuilderInv'
  <2>1. CASE \E f \in IdentityFields, text \in Texts : SetIdentity(f, text)
    BY <1>2, <2>1, SetField, Zenon DEF SetIdentity, IdentityFields, BuilderFields, SignerFields
  <2>2. CASE \E f \in SignerFields, len \in ByteLens : SetSignerId(f, len)
    BY <1>2, <2>2, SetField, Zenon DEF SetSignerId, SignerFields, BuilderFields
  <2>3. CASE \E mode \in AuthenticationModes : authentication_mode(mode)
    BY <1>2, <2>3, SetField DEF authentication_mode, BuilderFields, SignerFields
  <2>4. CASE iv
    BY <1>2, <2>4, SetField DEF iv, BuilderFields, SignerFields
  <2>5. CASE \E mode \in Modes : envelope_mode(mode)
    BY <1>2, <2>5, SetField DEF envelope_mode, BuilderFields, SignerFields
  <2>6. CASE \E limit \in Limits : max_plaintext_bytes(limit)
    <3> PICK limit \in Limits : max_plaintext_bytes(limit)
      BY <2>6
    <3>1. /\ built' = Err("pending") /\ "max_plaintext_bytes" \in BuilderFields
          /\ SignerFields \subseteq BuilderFields /\ "max_plaintext_bytes" \notin SignerFields
      BY DEF max_plaintext_bytes, Setter, BuilderFields, SignerFields
    <3> QED BY <1>2, <3>1, Zenon DEF max_plaintext_bytes, BuilderInv
  <2>7. CASE Build
    BY <1>2, <2>7 DEF Build, BuilderInv
  <2>8. CASE UNCHANGED cvars
    BY <1>2, <2>8, Zenon DEF cvars, BuilderInv
  <2> QED BY <1>2, <2>1, <2>2, <2>3, <2>4, <2>5, <2>6, <2>7, <2>8 DEF ConfigNext
<1> QED BY <1>1, <1>2, PTL DEF ConfigSpec

\* Of the checks that fail one is the first.
LEMMA FirstFailing ==
    ASSUME NEW failing, failing \subseteq Nat, failing # {}
    PROVE  Min(failing) \in failing
<1> DEFINE before == {p \in Nat \X Nat : p[1] < p[2]}
<1>1. IsWellFoundedOn(before, Nat)
  BY NatLessThanWellFounded DEF OpToRel
<1> HIDE DEF before
<1>2. PICK i \in failing : \A j \in failing : ~(<<j, i>> \in before)
  BY <1>1, WFMin, Zenon
<1>3. ASSUME NEW j \in failing PROVE i =< j
  <2>1. i \in Nat /\ j \in Nat /\ (<<j, i>> \in before <=> j < i)
    BY DEF before
  <2> QED BY <2>1, <1>2
<1> QED BY <1>3, Zenon DEF Min

\* A successful build passed every check.
LEMMA BuildPassed ==
    ASSUME NEW b, build(b).err = "none"
    PROVE  /\ required_signer_id(b.local_signer_id) /\ required_signer_id(b.expected_remote_signer_id)
           /\ envelope_mode_of(b) # "unset"
           /\ IF envelope_mode_of(b) = "LegacyCbc" THEN b.iv # <<>> ELSE b.iv = <<>>
           /\ b.authentication_mode # <<>> => validate(b.authentication_mode[1])
           /\ b.authentication_mode # <<>>
           /\ limit_ok(envelope_mode_of(b), limit_of(b))
           /\ build(b) = [err |-> "none", envelope_mode |-> envelope_mode_of(b), iv |-> b.iv,
                          authentication_mode |-> b.authentication_mode[1],
                          max_plaintext_bytes |-> limit_of(b)]
<1> DEFINE c == checks(b)
           failing == {i \in DOMAIN c : ~c[i][2]}
<1>1. DOMAIN c = 1..12 /\ \A i \in 1..12 : c[i][1] # "none"
  BY DEF checks
<1>2. build(b) = IF failing # {} THEN Err(c[Min(failing)][1])
                 ELSE [err |-> "none", envelope_mode |-> envelope_mode_of(b), iv |-> b.iv,
                       authentication_mode |-> b.authentication_mode[1],
                       max_plaintext_bytes |-> limit_of(b)]
  BY DEF build
<1>3. failing \subseteq 1..12 /\ failing \subseteq Nat
  BY <1>1
<1>4. failing = {} <=> \A i \in 1..12 : c[i][2]
  BY <1>1
<1>5. /\ c[6][2] = required_signer_id(b.local_signer_id)
      /\ c[7][2] = required_signer_id(b.expected_remote_signer_id)
      /\ c[8][2] = (envelope_mode_of(b) # "unset")
      /\ c[9][2] = IF envelope_mode_of(b) = "LegacyCbc" THEN b.iv # <<>> ELSE b.iv = <<>>
      /\ c[10][2] = (b.authentication_mode # <<>>)
      /\ c[11][2] = (b.authentication_mode # <<>> => validate(b.authentication_mode[1]))
      /\ c[12][2] = limit_ok(envelope_mode_of(b), limit_of(b))
  BY DEF checks
<1> HIDE DEF c, failing
<1>6. failing # {} => Min(failing) \in failing
  BY <1>3, FirstFailing, Zenon
<1>7. failing = {}
  <2> SUFFICES ASSUME failing # {} PROVE FALSE
    OBVIOUS
  <2>1. build(b).err = c[Min(failing)][1]
    BY <1>2 DEF Err
  <2> QED BY <2>1, <1>1, <1>3, <1>6, Zenon
<1>8. \A i \in 1..12 : c[i][2]
  BY <1>4, <1>7
<1>9. c[6][2] /\ c[7][2] /\ c[8][2] /\ c[9][2] /\ c[10][2] /\ c[11][2] /\ c[12][2]
  BY <1>8
<1> QED BY <1>2, <1>5, <1>7, <1>9, Zenon

\* Limit, IV and domain separator suit the modes of every configuration build returns.
LEMMA ModesHave == ConfigSpec => []ModesHaveWhatTheyRead
<1>1. BuilderInv => ModesHaveWhatTheyRead
  <2> SUFFICES ASSUME BuilderInv, built.err = "none" PROVE ModesHaveWhatTheyRead
    BY DEF ModesHaveWhatTheyRead
  <2>1. built = build(builder)
    BY DEF BuilderInv, Err
  <2>2. /\ built.envelope_mode = envelope_mode_of(builder) /\ built.iv = builder.iv
        /\ built.authentication_mode = builder.authentication_mode[1]
        /\ built.max_plaintext_bytes = limit_of(builder)
    BY <2>1, BuildPassed
  <2>3. limit_ok(built.envelope_mode, built.max_plaintext_bytes)
    BY <2>1, <2>2, BuildPassed
  <2>4. built.max_plaintext_bytes \in 0..UsizeMax
    <3>1. default_limit(envelope_mode_of(builder)) \in 0..UsizeMax
      BY SMTT(30), ConstantsFitUsize, UsizeMaxAssumption
         DEF U16_MAX, default_limit, DEFAULT_MAX_PLAINTEXT_BYTES, SM4_CCM_DEFAULT_MAX_PLAINTEXT_BYTES
    <3>2. CASE builder.max_plaintext_bytes = <<>>
      BY <2>2, <3>1, <3>2 DEF limit_of
    <3>3. ASSUME NEW n \in Limits, builder.max_plaintext_bytes = <<n>>
          PROVE  built.max_plaintext_bytes \in 0..UsizeMax
      BY <2>2, <3>3, LimitsAssumption DEF limit_of
    <3> QED BY <3>2, <3>3 DEF BuilderInv
  <2>5. /\ built.max_plaintext_bytes \in 1..UsizeMax
        /\ built.envelope_mode = "Sm4Ccm" => built.max_plaintext_bytes < 256 * 256 * 256
    BY SMTT(30), <2>3, <2>4, UsizeMaxAssumption DEF U16_MAX, limit_ok, SM4_CCM_MAX_PLAINTEXT_BYTES
  <2>6. (built.iv # <<>>) <=> (built.envelope_mode = "LegacyCbc")
    BY <2>1, <2>2, BuildPassed
  <2>7. built.authentication_mode.kind = "ContextBound" => built.authentication_mode.domain_separator > 0
    BY <2>1, <2>2, BuildPassed DEF validate
  <2> QED BY SMTT(30), <2>5, <2>6, <2>7 DEF ModesHaveWhatTheyRead
<1> QED BY <1>1, BuilderInvariant, PTL

\* No signer id of a configuration overflows the length field SM2 hashes it with.
LEMMA SignerIdsFit == ConfigSpec => []SignerIdsFitTheirLengthField
<1>1. BuilderInv => SignerIdsFitTheirLengthField
  <2> SUFFICES ASSUME BuilderInv, built.err = "none", NEW f \in SignerFields
               PROVE  builder[f][1] > 0 /\ builder[f][1] * 8 < 65536
    BY SMTT(30) DEF SignerIdsFitTheirLengthField
  <2>1. built = build(builder)
    BY DEF BuilderInv, Err
  <2>2. required_signer_id(builder[f])
    BY <2>1, BuildPassed DEF SignerFields
  <2>3. PICK n \in Nat : builder[f] = <<n>>
    BY <2>2, ByteLensAssumption DEF BuilderInv, required_signer_id
  <2>4. n > 0 /\ n <= 65535 \div 8
    BY SMTT(30), <2>2, <2>3 DEF required_signer_id, MAX_SIGNER_ID_BYTES
  <2>5. n * 8 < 65536
    BY SMTT(30), <2>4
  <2> QED BY SMTT(30), <2>3, <2>4, <2>5
<1> QED BY <1>1, BuilderInvariant, PTL

\* Every configuration build returns can be run.
THEOREM RunnableConfigs == ConfigSpec => []BuiltConfigsAreRunnable
<1>1. ModesHaveWhatTheyRead /\ SignerIdsFitTheirLengthField => BuiltConfigsAreRunnable
  BY DEF BuiltConfigsAreRunnable
<1> QED BY <1>1, ModesHave, SignerIdsFit, PTL

-----------------------------------------------------------------------------
(* Key files.  The invariant ties a call of shared_from_files to what its two files have
   held since it began: what they hold now is among it, and so is every file it has read. *)
InProgress == {"read private key", "read peer key", "parse"}
Reading ==
    call.pc \in InProgress =>
        /\ call = [pc |-> call.pc, paths |-> call.paths, password |-> call.password,
                   private |-> call.private, peer |-> call.peer]
        /\ call.paths = <<call.paths[1], call.paths[2]>>
        /\ call.paths[1] \in Private /\ call.paths[2] \in Peer
        /\ files[1][call.paths[1]] \in held[1] /\ files[2][call.paths[2]] \in held[2]
        /\ call.pc # "read private key" => call.private \in held[1] /\ call.private # Absent
        /\ call.pc = "parse" => call.peer \in held[2] /\ call.peer # Absent
\* ResultIsExplainedByTheFiles, of a call's password, the files' contents and the result.
Explained(password, h, r) ==
    \/ r.err = "Io.read private key" /\ Absent \in h[1]
    \/ /\ r.err = "Io.read peer key" /\ h[1] \ {Absent} # {} /\ Absent \in h[2]
    \/ \E c \in h[1] \ {Absent}, d \in h[2] \ {Absent} :
          r = shared_of(load_private(c, password), load_peer(d))

KeysInv ==
    /\ files = <<files[1], files[2]>>
    /\ files[1] = [p \in Private |-> files[1][p]]
    /\ files[2] = [p \in Peer |-> files[2][p]]
    /\ held = <<held[1], held[2]>>
    /\ call.pc \in InProgress \cup {"idle", "returned"}
    /\ Reading
    /\ call.pc = "returned" => Explained(call.password, held, result)

LEMMA LoadedPrivate ==
    ASSUME NEW input, NEW password
    PROVE  \/ load_private(input, password) = LocalPrivate
           \/ \E k : load_private(input, password) = [err |-> "none", key |-> k]
BY Zenon DEF load_private, from_encrypted_pem, from_encrypted_der

LEMMA LoadedPeer ==
    ASSUME NEW input
    PROVE  \/ load_peer(input) = PeerPublic
           \/ \E k, s : load_peer(input) = [err |-> "none", key |-> k, source |-> s]
BY Zenon DEF load_peer, from_pem, from_der, from_container

LEMMA OpenedDer ==
    ASSUME NEW input, NEW password
    PROVE  \/ from_encrypted_der(input, password) = LocalPrivate
           \/ \E k : from_encrypted_der(input, password) = [err |-> "none", key |-> k]
BY Zenon DEF from_encrypted_der

LEMMA OpenedPem ==
    ASSUME NEW input, NEW password
    PROVE  \/ from_encrypted_pem(input, password) = LocalPrivate
           \/ \E k : from_encrypted_pem(input, password) = [err |-> "none", key |-> k]
BY Zenon DEF from_encrypted_pem, from_encrypted_der

LEMMA OpenedPeers ==
    ASSUME NEW input, NEW r, r \in {from_pem(input), from_der(input)}
    PROVE  r = PeerPublic \/ \E k, s : r = [err |-> "none", key |-> k, source |-> s]
BY DEF from_pem, from_der, from_container

\* What shared_of makes of two parsed keys.
LEMMA SharedOf ==
    ASSUME NEW l, NEW r,
           l = LocalPrivate \/ \E k : l = [err |-> "none", key |-> k],
           r = PeerPublic \/ \E k, s : r = [err |-> "none", key |-> k, source |-> s]
    PROVE  \/ l = LocalPrivate /\ shared_of(l, r) = LocalPrivate
           \/ l.err = "none" /\ r = PeerPublic /\ shared_of(l, r) = PeerPublic
           \/ l.err = "none" /\ r.err = "none" /\ shared_of(l, r) = shared(l, r)
<1>1. LocalPrivate.err # "none" /\ PeerPublic.err # "none"
  BY DEF LocalPrivate, PeerPublic, KeyErr
<1>2. l = LocalPrivate \/ l.err = "none"
  OBVIOUS
<1>3. r = PeerPublic \/ r.err = "none"
  OBVIOUS
<1> QED
  BY <1>1, <1>2, <1>3 DEF shared_of

-----------------------------------------------------------------------------
(* Roles. *)

\* RolesAreAsDeclared, of a result.
Declared(r) ==
    "shared_roles" \in DOMAIN r =>
        /\ r.shared_roles <=> r.local_signing = r.local_decryption
        /\ r.shared_roles <=> r.remote_verification = r.remote_encryption

LEMMA ErrorsDeclareNothing ==
    ASSUME NEW e PROVE Declared(KeyErr(e))
BY DEF Declared, KeyErr

LEMMA KeysDeclareNothing ==
    ASSUME NEW r,
           \/ r \in {LocalPrivate, PeerPublic}
           \/ \E k : r = [err |-> "none", key |-> k]
           \/ \E k, s : r = [err |-> "none", key |-> k, source |-> s]
    PROVE  Declared(r)
BY DEF Declared, LocalPrivate, PeerPublic, KeyErr

LEMMA NewDeclares ==
    ASSUME NEW a, NEW b, NEW c, NEW d PROVE Declared(new(a, b, c, d))
<1>1. CASE private_roles_overlap(a, b) \/ public_roles_overlap(c, d)
  BY <1>1, ErrorsDeclareNothing DEF new
<1>2. CASE ~(private_roles_overlap(a, b) \/ public_roles_overlap(c, d))
  <2>1. a.key # b.key /\ c.key # d.key
    BY <1>2 DEF private_roles_overlap, public_roles_overlap
  <2> DEFINE r == [err |-> "none", local_signing |-> a.key, local_decryption |-> b.key,
                   remote_verification |-> c.key, remote_encryption |-> d.key,
                   shared_roles |-> FALSE]
  <2>2. new(a, b, c, d) = r
    BY <1>2, Zenon DEF new
  <2>3. /\ r.shared_roles = FALSE
        /\ r.local_signing = a.key /\ r.local_decryption = b.key
        /\ r.remote_verification = c.key /\ r.remote_encryption = d.key
    OBVIOUS
  <2> HIDE DEF r
  <2> QED
    BY <2>1, <2>2, <2>3, Zenon DEF Declared
<1> QED
  BY <1>1, <1>2

LEMMA SharedDeclares ==
    ASSUME NEW l, NEW r PROVE Declared(shared(l, r))
<1> DEFINE s == shared(l, r)
<1>1. /\ s.shared_roles = TRUE
      /\ s.local_signing = l.key /\ s.local_decryption = l.key
      /\ s.remote_verification = r.key /\ s.remote_encryption = r.key
  BY DEF shared
<1> HIDE DEF s
<1> QED
  <2>1. Declared(s)
    BY <1>1, Zenon DEF Declared
  <2> QED
    BY <2>1 DEF s

LEMMA SharedOfDeclares ==
    ASSUME NEW l, NEW r,
           l = LocalPrivate \/ \E k : l = [err |-> "none", key |-> k],
           r = PeerPublic \/ \E k, s : r = [err |-> "none", key |-> k, source |-> s]
    PROVE  Declared(shared_of(l, r))
BY SharedOf, SharedDeclares, KeysDeclareNothing

\* Key material never misstates whether its roles share keys: RolesAreAsDeclared, for any
\* number of paths, files and passwords, and however the files are replaced between loads.
THEOREM RolesDeclared == KeysSpec => []RolesAreAsDeclared
<1>1. KeysInit => Declared(result)
  BY ErrorsDeclareNothing DEF KeysInit
<1>2. Declared(result) /\ [KeysNext]_kvars => Declared(result)'
  <2> SUFFICES ASSUME Declared(result), [KeysNext]_kvars PROVE Declared(result')
    BY DEF Declared
  <2>1. CASE result' = result
    BY <2>1
  <2>2. ASSUME NEW role \in LocalRoles, NEW path \in Private, NEW password \in Passwords,
               LoadLocal(role, path, password)
        PROVE  Declared(result')
    BY <2>2, LoadedPrivate, KeysDeclareNothing, ErrorsDeclareNothing, Zenon DEF LoadLocal, Returns
  <2>3. ASSUME NEW role \in RemoteRoles, NEW path \in Peer, LoadRemote(role, path)
        PROVE  Declared(result')
    BY <2>3, LoadedPeer, KeysDeclareNothing, ErrorsDeclareNothing, Zenon DEF LoadRemote, Returns
  <2>4. CASE New
    BY <2>4, NewDeclares, Zenon DEF New, Returns
  <2>5. CASE Shared
    BY <2>5, SharedDeclares, Zenon DEF Shared, Returns
  <2>6. ASSUME NEW private, NEW password, NEW peer, SharedFromMemory(private, password, peer)
        PROVE  Declared(result')
    BY <2>6, OpenedPem, OpenedDer, OpenedPeers, SharedOfDeclares DEF SharedFromMemory, Returns
  <2>7. ASSUME NEW private, NEW password, NEW peer, SharedFromFiles(private, password, peer)
        PROVE  Declared(result')
    BY <2>7, ErrorsDeclareNothing DEF SharedFromFiles
  <2>8. CASE ReadPrivate
    BY <2>8, ErrorsDeclareNothing, Zenon DEF ReadPrivate, Return
  <2>9. CASE ReadPeer
    BY <2>9, ErrorsDeclareNothing, Zenon DEF ReadPeer, Return
  <2>10. CASE ParseBoth
    BY <2>10, LoadedPrivate, LoadedPeer, SharedOfDeclares DEF ParseBoth, Return
  <2>11. ASSUME NEW side, NEW path, NEW contents, Replace(side, path, contents)
         PROVE  result' = result
    BY <2>11 DEF Replace
  <2> QED
    BY <2>1, <2>2, <2>3, <2>4, <2>5, <2>6, <2>7, <2>8, <2>9, <2>10, <2>11 DEF KeysNext, kvars
<1>3. Declared(result) => RolesAreAsDeclared
  BY DEF Declared, RolesAreAsDeclared
<1> QED
  BY <1>1, <1>2, <1>3, PTL DEF KeysSpec

-----------------------------------------------------------------------------
(* shared_from_files. *)

LEMMA ExplainedIsEnough ==
    ASSUME call.pc = "returned" => Explained(call.password, held, result)
    PROVE  ResultIsExplainedByTheFiles
<1> SUFFICES ASSUME call.pc = "returned" PROVE ResultIsExplainedByTheFiles
  BY DEF ResultIsExplainedByTheFiles
<1>0. LocalPrivate.err = "KeyMaterial.LocalPrivate" /\ PeerPublic.err = "KeyMaterial.PeerPublic"
  BY DEF LocalPrivate, PeerPublic, KeyErr
<1>1. CASE result.err = "Io.read private key" /\ Absent \in held[1]
  BY <1>0, <1>1 DEF ResultIsExplainedByTheFiles
<1>2. CASE result.err = "Io.read peer key" /\ held[1] \ {Absent} # {} /\ Absent \in held[2]
  BY <1>0, <1>2 DEF ResultIsExplainedByTheFiles
<1>3. ASSUME NEW c \in held[1] \ {Absent}, NEW d \in held[2] \ {Absent},
             result = shared_of(load_private(c, call.password), load_peer(d))
      PROVE  ResultIsExplainedByTheFiles
  <2> DEFINE l == load_private(c, call.password)
             r == load_peer(d)
  <2>1. /\ LocalPrivate.err = "KeyMaterial.LocalPrivate" /\ PeerPublic.err = "KeyMaterial.PeerPublic"
        /\ shared(l, r).err = "none"
    BY DEF LocalPrivate, PeerPublic, KeyErr, shared
  <2>2. \/ l = LocalPrivate /\ result = LocalPrivate
        \/ l.err = "none" /\ r = PeerPublic /\ result = PeerPublic
        \/ l.err = "none" /\ r.err = "none" /\ result = shared(l, r)
    BY <1>3, LoadedPrivate, LoadedPeer, SharedOf
  <2> HIDE DEF l, r
  <2>3. CASE l = LocalPrivate /\ result = LocalPrivate
    BY <2>1, <2>3 DEF ResultIsExplainedByTheFiles, l
  <2>4. CASE l.err = "none" /\ r = PeerPublic /\ result = PeerPublic
    BY <2>1, <2>4 DEF ResultIsExplainedByTheFiles, l, r
  <2>5. CASE l.err = "none" /\ r.err = "none" /\ result = shared(l, r)
    BY <2>1, <2>5 DEF ResultIsExplainedByTheFiles, l, r
  <2> QED
    BY <2>2, <2>3, <2>4, <2>5
<1> QED
  BY <1>1, <1>2, <1>3 DEF Explained

LEMMA KeysInvariant == KeysSpec => []KeysInv
<1>1. KeysInit => KeysInv
  BY DEF KeysInit, KeysInv, Reading, InProgress
<1>2. KeysInv /\ [KeysNext]_kvars => KeysInv'
  <2> SUFFICES ASSUME KeysInv, [KeysNext]_kvars PROVE KeysInv'
    OBVIOUS
  <2>1. CASE UNCHANGED kvars
    BY <2>1 DEF kvars, KeysInv, Reading
  <2>2. ASSUME NEW path \in Private, NEW contents, Replace(1, path, contents)
        PROVE  KeysInv'
    <3>1. /\ files' = <<[files[1] EXCEPT ![path] = contents], files[2]>>
          /\ call' = call
      BY <2>2 DEF Replace, KeysInv
    <3>2. held' = IF call.pc \in InProgress /\ path = call.paths[1]
                   THEN <<held[1] \cup {contents}, held[2]>> ELSE held
      <4>1. ~Idle <=> call.pc \in InProgress
        BY DEF KeysInv, Idle, InProgress
      <4>2. held' = IF ~Idle /\ path = call.paths[1]
                     THEN [held EXCEPT ![1] = @ \cup {contents}] ELSE held
        BY <2>2, Zenon DEF Replace
      <4>3. [held EXCEPT ![1] = @ \cup {contents}] = <<held[1] \cup {contents}, held[2]>>
        BY DEF KeysInv
      <4> QED
        BY <4>1, <4>2, <4>3, Zenon
    <3>3. Reading'
      BY <3>1, <3>2 DEF KeysInv, Reading
    <3>4. call.pc \notin InProgress => held' = held
      BY <3>2
    <3>5. (call.pc = "returned" => Explained(call.password, held, result))'
      BY <2>2, <3>1, <3>4, Zenon DEF Replace, KeysInv, InProgress
    <3> QED
      BY <3>1, <3>2, <3>3, <3>5 DEF KeysInv
  <2>3. ASSUME NEW path \in Peer, NEW contents, Replace(2, path, contents)
        PROVE  KeysInv'
    <3>1. /\ files' = <<files[1], [files[2] EXCEPT ![path] = contents]>>
          /\ call' = call
      BY <2>3 DEF Replace, KeysInv
    <3>2. held' = IF call.pc \in InProgress /\ path = call.paths[2]
                   THEN <<held[1], held[2] \cup {contents}>> ELSE held
      <4>1. ~Idle <=> call.pc \in InProgress
        BY DEF KeysInv, Idle, InProgress
      <4>2. held' = IF ~Idle /\ path = call.paths[2]
                     THEN [held EXCEPT ![2] = @ \cup {contents}] ELSE held
        BY <2>3, Zenon DEF Replace
      <4>3. [held EXCEPT ![2] = @ \cup {contents}] = <<held[1], held[2] \cup {contents}>>
        BY DEF KeysInv
      <4> QED
        BY <4>1, <4>2, <4>3, Zenon
    <3>3. Reading'
      BY <3>1, <3>2 DEF KeysInv, Reading
    <3>4. call.pc \notin InProgress => held' = held
      BY <3>2
    <3>5. (call.pc = "returned" => Explained(call.password, held, result))'
      BY <2>3, <3>1, <3>4, Zenon DEF Replace, KeysInv, InProgress
    <3> QED
      BY <3>1, <3>2, <3>3, <3>5 DEF KeysInv
  <2>4. ASSUME NEW r, Returns(r) PROVE KeysInv'
    BY <2>4 DEF Returns, KeysInv, Reading, InProgress
  <2>5. ASSUME NEW private \in Private, NEW password, NEW peer \in Peer,
               SharedFromFiles(private, password, peer)
        PROVE  KeysInv'
    BY <2>5 DEF SharedFromFiles, KeysInv, Reading, InProgress
  <2>6. CASE ReadPrivate
    <3>1. call.pc = "read private key" /\ UNCHANGED <<files, held>>
      BY <2>6 DEF ReadPrivate
    <3>2. CASE files[1][call.paths[1]] = Absent
      <4>1. /\ call' = [call EXCEPT !.pc = "returned"]
            /\ result' = KeyErr("Io.read private key")
        BY <2>6, <3>2 DEF ReadPrivate, Return
      <4>2. Explained(call.password, held, result)'
        BY <3>1, <3>2, <4>1 DEF Explained, KeyErr, KeysInv, Reading, InProgress
      <4> QED
        BY <3>1, <4>1, <4>2 DEF KeysInv, Reading, InProgress
    <3>3. CASE files[1][call.paths[1]] # Absent
      <4>1. call' = [call EXCEPT !.pc = "read peer key", !.private = files[1][call.paths[1]]]
        BY <2>6, <3>3 DEF ReadPrivate
      <4> QED
        BY <3>1, <3>3, <4>1 DEF KeysInv, Reading, InProgress
    <3> QED
      BY <3>2, <3>3
  <2>7. CASE ReadPeer
    <3>1. call.pc = "read peer key" /\ UNCHANGED <<files, held>>
      BY <2>7 DEF ReadPeer
    <3>2. CASE files[2][call.paths[2]] = Absent
      <4>1. /\ call' = [call EXCEPT !.pc = "returned"]
            /\ result' = KeyErr("Io.read peer key")
        BY <2>7, <3>2 DEF ReadPeer, Return
      <4>2. Explained(call.password, held, result)'
        BY <3>1, <3>2, <4>1 DEF Explained, KeyErr, KeysInv, Reading, InProgress
      <4> QED
        BY <3>1, <4>1, <4>2 DEF KeysInv, Reading, InProgress
    <3>3. CASE files[2][call.paths[2]] # Absent
      <4>1. call' = [call EXCEPT !.pc = "parse", !.peer = files[2][call.paths[2]]]
        BY <2>7, <3>3 DEF ReadPeer
      <4> QED
        BY <3>1, <3>3, <4>1 DEF KeysInv, Reading, InProgress
    <3> QED
      BY <3>2, <3>3
  <2>8. CASE ParseBoth
    <3>1. /\ call.pc = "parse" /\ UNCHANGED <<files, held>>
          /\ call' = [call EXCEPT !.pc = "returned"]
          /\ result' = shared_of(load_private(call.private, call.password), load_peer(call.peer))
      BY <2>8 DEF ParseBoth, Return
    <3>2. /\ call'.pc = "returned" /\ call'.password = call.password
          /\ call.private \in held[1] \ {Absent} /\ call.peer \in held[2] \ {Absent}
      BY <3>1 DEF KeysInv, Reading, InProgress
    <3>3. Explained(call'.password, held', result')
      BY <3>1, <3>2, Zenon DEF Explained
    <3> QED
      BY <3>1, <3>2, <3>3 DEF KeysInv, Reading, InProgress
  <2> QED
    BY <2>1, <2>2, <2>3, <2>4, <2>5, <2>6, <2>7, <2>8
       DEF KeysNext, LoadLocal, LoadRemote, New, Shared, SharedFromMemory
<1> QED
  BY <1>1, <1>2, PTL DEF KeysSpec

\* Every result of shared_from_files is explained by what its two files held while it ran:
\* ResultIsExplainedByTheFiles, for any number of files and of replacements, at any moment.
THEOREM FilesExplainResults == KeysSpec => []ResultIsExplainedByTheFiles
<1>1. KeysInv => ResultIsExplainedByTheFiles
  BY ExplainedIsEnough DEF KeysInv
<1> QED
  BY <1>1, KeysInvariant, PTL

-----------------------------------------------------------------------------
-----------------------------------------------------------------------------
(* Lengths. *)

\* A number is its low byte and the rest.
LEMMA ByteSplit ==
    ASSUME NEW n \in Nat, NEW m \in Nat, n % 256 = m % 256, n \div 256 = m \div 256
    PROVE  n = m
OBVIOUS

LEMMA ShiftNat == \A n \in Nat : Shift(n) \in Nat /\ Digit(n) \in Byte
BY DEF Shift, Digit, Byte

\* u64::to_be_bytes loses nothing.
LEMMA BigEndianInjective ==
    ASSUME NEW n \in Nat, NEW m \in Nat, fits_u64(n), fits_u64(m), to_be_bytes(n) = to_be_bytes(m)
    PROVE  n = m
<1> DEFINE A == Quotients(n)
           B == Quotients(m)
<1>1. \A i \in 1..8 : Digit(A[i]) = Digit(B[i])
  <2>1. \A i \in 1..8 : to_be_bytes(n)[i] = Digit(A[i]) /\ to_be_bytes(m)[i] = Digit(B[i])
    BY DEF to_be_bytes
  <2> QED BY <2>1
<1>2. /\ A[8] = n /\ B[8] = m
      /\ \A i \in 2..8 : A[i] \in Nat /\ B[i] \in Nat
      /\ A[1] \in 0..255 /\ B[1] \in 0..255
      /\ \A i \in 1..7 : A[i] = Shift(A[i + 1]) /\ B[i] = Shift(B[i + 1])
  <2>1. /\ A[8] = n /\ A[7] = Shift(A[8]) /\ A[6] = Shift(A[7]) /\ A[5] = Shift(A[6])
        /\ A[4] = Shift(A[5]) /\ A[3] = Shift(A[4]) /\ A[2] = Shift(A[3]) /\ A[1] = Shift(A[2])
    BY DEF Quotients
  <2>2. /\ B[8] = m /\ B[7] = Shift(B[8]) /\ B[6] = Shift(B[7]) /\ B[5] = Shift(B[6])
        /\ B[4] = Shift(B[5]) /\ B[3] = Shift(B[4]) /\ B[2] = Shift(B[3]) /\ B[1] = Shift(B[2])
    BY DEF Quotients
  <2>3. A[1] < 256 /\ B[1] < 256
    BY DEF fits_u64
  <2> HIDE DEF A, B
  <2>4. /\ A[8] \in Nat /\ A[7] \in Nat /\ A[6] \in Nat /\ A[5] \in Nat
        /\ A[4] \in Nat /\ A[3] \in Nat /\ A[2] \in Nat /\ A[1] \in Nat
    BY <2>1, ShiftNat
  <2>5. /\ B[8] \in Nat /\ B[7] \in Nat /\ B[6] \in Nat /\ B[5] \in Nat
        /\ B[4] \in Nat /\ B[3] \in Nat /\ B[2] \in Nat /\ B[1] \in Nat
    BY <2>2, ShiftNat
  <2>6. \A i \in 1..7 : A[i] = Shift(A[i + 1]) /\ B[i] = Shift(B[i + 1])
    <3> SUFFICES ASSUME NEW i \in 1..7 PROVE A[i] = Shift(A[i + 1]) /\ B[i] = Shift(B[i + 1])
      OBVIOUS
    <3>1. i = 1 \/ i = 2 \/ i = 3 \/ i = 4 \/ i = 5 \/ i = 6 \/ i = 7
      OBVIOUS
    <3> QED BY <3>1, <2>1, <2>2
  <2>7. \A i \in 2..8 : A[i] \in Nat /\ B[i] \in Nat
    BY <2>4, <2>5
  <2> QED BY <2>1, <2>2, <2>3, <2>4, <2>5, <2>6, <2>7
<1> HIDE DEF A, B
<1>3. A[1] = B[1]
  <2>1. \A x \in 0..255 : Digit(x) = x
    BY DEF Digit
  <2>2. Digit(A[1]) = Digit(B[1])
    BY <1>1
  <2>3. Digit(A[1]) = A[1] /\ Digit(B[1]) = B[1]
    BY <1>2, <2>1
  <2> QED BY <2>2, <2>3, Zenon
<1>4. \A i \in 1..7 : A[i] = B[i] => A[i + 1] = B[i + 1]
  <2> SUFFICES ASSUME NEW i \in 1..7, A[i] = B[i] PROVE A[i + 1] = B[i + 1]
    OBVIOUS
  <2>1. A[i + 1] \in Nat /\ B[i + 1] \in Nat
    BY <1>2
  <2>2. A[i + 1] % 256 = B[i + 1] % 256
    BY <1>1 DEF Digit
  <2>3. A[i + 1] \div 256 = B[i + 1] \div 256
    BY <1>2 DEF Shift
  <2> QED BY <2>1, <2>2, <2>3, ByteSplit
<1>5. A[2] = B[2]
  BY <1>3, <1>4
<1>6. A[3] = B[3] /\ A[4] = B[4]
  BY <1>5, <1>4
<1>7. A[5] = B[5] /\ A[6] = B[6]
  BY <1>6, <1>4
<1>8. A[7] = B[7] /\ A[8] = B[8]
  BY <1>7, <1>4
<1> QED BY <1>8, <1>2, Zenon

LEMMA FixedLength ==
    ASSUME NEW n \in Nat, NEW f \in [1..n -> Byte]
    PROVE  f \in Seq(Byte) /\ Len(f) = n
<1>1. f \in Seq(Byte)
  BY SeqDef
<1> QED BY <1>1, LenProperties

LEMMA LengthPrefix ==
    ASSUME NEW n \in Nat
    PROVE  to_be_bytes(n) \in Seq(Byte) /\ Len(to_be_bytes(n)) = 8
<1>1. \A i \in 1..8 : Quotients(n)[i] \in Nat
  BY ShiftNat DEF Quotients
<1>2. to_be_bytes(n) \in [1..8 -> Byte]
  BY <1>1, ShiftNat DEF to_be_bytes
<1> QED BY <1>2, FixedLength, Zenon

-----------------------------------------------------------------------------
(* Byte strings.  Bytes and Cat are cited unexpanded below: what is needed of them is the *)
(* four lemmas here.                                                                       *)

Bytes == Seq(Byte)
Cat(s, t) == s \o t

LEMMA CatType == ASSUME NEW s \in Bytes, NEW t \in Bytes PROVE Cat(s, t) \in Bytes
BY ConcatProperties DEF Cat, Bytes

LEMMA CatAssociative ==
    ASSUME NEW s \in Bytes, NEW t \in Bytes, NEW u \in Bytes
    PROVE  Cat(Cat(s, t), u) = Cat(s, Cat(t, u))
<1>1. s \in Seq(Byte) /\ t \in Seq(Byte) /\ u \in Seq(Byte)
  BY DEF Bytes
<1>2. (s \o t) \o u = s \o (t \o u)
  BY ONLY <1>1, ConcatAssociative
<1> QED BY <1>2 DEF Cat

LEMMA CatEmpty == ASSUME NEW s \in Bytes PROVE <<>> \in Bytes /\ Cat(s, <<>>) = s
BY DEF Cat, Bytes

\* Two strings that are equal and start with parts of equal length start with equal parts.
LEMMA CatSplit ==
    ASSUME NEW s \in Bytes, NEW t \in Bytes, NEW u \in Bytes, NEW v \in Bytes,
           Len(s) = Len(t), Cat(s, u) = Cat(t, v)
    PROVE  s = t /\ u = v
<1> USE DEF Bytes
<1>1. Len(s) \in Nat /\ Len(t) \in Nat /\ Len(u) \in Nat /\ Len(v) \in Nat
  BY LenProperties
<1>2. \A i \in 1..Len(s) : s[i] = t[i]
  <2> SUFFICES ASSUME NEW i \in 1..Len(s) PROVE s[i] = t[i]
    OBVIOUS
  <2>1. (s \o u)[i] = s[i] /\ (t \o v)[i] = t[i]
    BY <1>1, ConcatProperties
  <2> QED BY <2>1 DEF Cat
<1>3. s = t
  BY <1>2, SeqEqual
<1> QED BY <1>3, ConcatSimplifications, Zenon DEF Cat

-----------------------------------------------------------------------------
(* Fields. *)

\* What may stand in a field: a byte string whose length fits the prefix.
Field == {s \in Bytes : fits_u64(Len(s))}

LEMMA FieldFacts ==
    ASSUME NEW f \in Field
    PROVE  /\ f \in Bytes /\ Len(f) \in Nat /\ fits_u64(Len(f))
           /\ to_be_bytes(Len(f)) \in Bytes /\ Len(to_be_bytes(Len(f))) = 8
           /\ push_field(f) = Cat(to_be_bytes(Len(f)), f)
           /\ push_field(f) \in Bytes
<1>1. f \in Bytes /\ Len(f) \in Nat /\ fits_u64(Len(f))
  BY LenProperties DEF Field, Bytes
<1>2. to_be_bytes(Len(f)) \in Bytes /\ Len(to_be_bytes(Len(f))) = 8
  BY <1>1, LengthPrefix DEF Bytes
<1>3. push_field(f) = Cat(to_be_bytes(Len(f)), f)
  BY DEF push_field, Cat
<1> QED BY <1>1, <1>2, <1>3, CatType

\* A field is read back off the front: its length first, then as many bytes.
LEMMA FieldSplit ==
    ASSUME NEW f \in Field, NEW g \in Field, NEW r \in Bytes, NEW q \in Bytes,
           Cat(push_field(f), r) = Cat(push_field(g), q)
    PROVE  f = g /\ r = q
<1> DEFINE P == to_be_bytes(Len(f))
           Q == to_be_bytes(Len(g))
<1>1. f \in Bytes /\ g \in Bytes /\ P \in Bytes /\ Q \in Bytes /\ Len(P) = Len(Q)
  BY FieldFacts
<1>2. P = Q => Len(f) = Len(g)
  BY FieldFacts, BigEndianInjective
<1>3. push_field(f) = Cat(P, f) /\ push_field(g) = Cat(Q, g)
  BY FieldFacts
<1> HIDE DEF P, Q
<1>4. Cat(P, Cat(f, r)) = Cat(Q, Cat(g, q))
  BY <1>1, <1>3, CatAssociative
<1>5. Cat(f, r) \in Bytes /\ Cat(g, q) \in Bytes
  BY <1>1, CatType
<1>6. P = Q /\ Cat(f, r) = Cat(g, q)
  BY <1>1, <1>4, <1>5, CatSplit
<1> QED BY <1>1, <1>2, <1>6, CatSplit

\* The last field of a layout.
LEMMA LastField ==
    ASSUME NEW f \in Field, NEW g \in Field, push_field(f) = push_field(g)
    PROVE  f = g
<1>1. push_field(f) \in Bytes /\ push_field(g) \in Bytes
  BY FieldFacts
<1>2. <<>> \in Bytes /\ Cat(push_field(f), <<>>) = Cat(push_field(g), <<>>)
  BY <1>1, CatEmpty
<1> QED BY <1>2, FieldSplit

LEMMA TwoFields ==
    ASSUME NEW a \in Field, NEW b \in Field, NEW c \in Field, NEW d \in Field,
           Cat(push_field(a), push_field(b)) = Cat(push_field(c), push_field(d))
    PROVE  a = c /\ b = d
<1>1. push_field(b) \in Bytes /\ push_field(d) \in Bytes
  BY FieldFacts
<1>2. a = c /\ push_field(b) = push_field(d)
  BY <1>1, FieldSplit
<1> QED BY <1>2, LastField

LEMMA ThreeFields ==
    ASSUME NEW a \in Field, NEW b \in Field, NEW c \in Field,
           NEW d \in Field, NEW e \in Field, NEW f \in Field,
           Cat(push_field(a), Cat(push_field(b), push_field(c)))
             = Cat(push_field(d), Cat(push_field(e), push_field(f)))
    PROVE  a = d /\ b = e /\ c = f
<1>1. Cat(push_field(b), push_field(c)) \in Bytes /\ Cat(push_field(e), push_field(f)) \in Bytes
  BY FieldFacts, CatType
<1>2. a = d /\ Cat(push_field(b), push_field(c)) = Cat(push_field(e), push_field(f))
  BY <1>1, FieldSplit
<1> QED BY <1>2, TwoFields

LEMMA ThreeFieldsType ==
    ASSUME NEW a \in Field, NEW b \in Field, NEW c \in Field
    PROVE  Cat(push_field(a), Cat(push_field(b), push_field(c))) \in Bytes
<1>1. push_field(a) \in Bytes /\ push_field(b) \in Bytes /\ push_field(c) \in Bytes
  BY FieldFacts
<1> QED BY <1>1, CatType

-----------------------------------------------------------------------------
(* Layouts. *)

LEMMA TranscriptInjective ==
    ASSUME NEW a \in Field, NEW b \in Field, NEW c \in Field,
           NEW d \in Field, NEW e \in Field, NEW f \in Field,
           transcript(a, b, c) = transcript(d, e, f)
    PROVE  a = d /\ b = e /\ c = f
<1> DEFINE R == Cat(push_field(a), Cat(push_field(b), push_field(c)))
           S == Cat(push_field(d), Cat(push_field(e), push_field(f)))
<1>1. Cat(<<1>>, R) = Cat(<<1>>, S)
  BY Zenon DEF transcript, TRANSCRIPT_VERSION, Cat
<1>2. R \in Bytes /\ S \in Bytes
  BY ThreeFieldsType
<1>3. R = S => a = d /\ b = e /\ c = f
  BY ThreeFields
<1>4. <<1>> \in Bytes
  BY DEF Bytes, Byte
<1> HIDE DEF R, S
<1>5. R = S
  BY <1>1, <1>2, <1>4, CatSplit
<1> QED BY <1>3, <1>5

LEMMA AadInjective ==
    ASSUME NEW a \in Field, NEW b \in Field, NEW c \in Field,
           NEW d \in Field, NEW e \in Field, NEW f \in Field,
           AEAD_AAD_LABEL \in Field, aad(a, b, c) = aad(d, e, f)
    PROVE  a = d /\ b = e /\ c = f
<1> DEFINE R == Cat(push_field(a), Cat(push_field(b), push_field(c)))
           S == Cat(push_field(d), Cat(push_field(e), push_field(f)))
<1>1. Cat(push_field(AEAD_AAD_LABEL), R) = Cat(push_field(AEAD_AAD_LABEL), S)
  BY DEF aad, Cat
<1>2. R \in Bytes /\ S \in Bytes
  BY ThreeFieldsType
<1>3. R = S => a = d /\ b = e /\ c = f
  BY ThreeFields
<1> HIDE DEF R, S
<1>4. R = S
  BY <1>1, <1>2, FieldSplit
<1> QED BY <1>3, <1>4

LEMMA RequestContextInjective ==
    ASSUME NEW a \in Field, NEW b \in Field, NEW c \in Field, NEW d \in Field,
           request_context(a, b) = request_context(c, d)
    PROVE  a = c /\ b = d
<1> DEFINE R == Cat(push_field(a), push_field(b))
           S == Cat(push_field(c), push_field(d))
<1>1. Cat(<<1, 1>>, R) = Cat(<<1, 1>>, S)
  BY DEF request_context, HEADER_CONTEXT_VERSION, HEADER_CONTEXT_REQUEST, Cat
<1>2. R \in Bytes /\ S \in Bytes
  BY FieldFacts, CatType
<1>3. R = S => a = c /\ b = d
  BY TwoFields
<1>4. <<1, 1>> \in Bytes
  BY DEF Bytes, Byte
<1> HIDE DEF R, S
<1>5. R = S
  BY <1>1, <1>2, <1>4, CatSplit
<1> QED BY <1>3, <1>5

LEMMA ResponseContextInjective ==
    ASSUME NEW a \in Field, NEW b \in Field, response_context(a) = response_context(b)
    PROVE  a = b
<1>1. Cat(<<1, 2>>, push_field(a)) = Cat(<<1, 2>>, push_field(b))
  BY DEF response_context, HEADER_CONTEXT_VERSION, HEADER_CONTEXT_RESPONSE, Cat
<1>2. <<1, 2>> \in Bytes
  BY DEF Bytes, Byte
<1>3. push_field(a) \in Bytes /\ push_field(b) \in Bytes
  BY FieldFacts
<1>4. push_field(a) = push_field(b)
  BY <1>1, <1>2, <1>3, CatSplit
<1> QED BY <1>4, LastField

\* Requests and responses differ in their second byte.
LEMMA DirectionsDiffer ==
    ASSUME NEW a \in Field, NEW b \in Field, NEW c \in Field
    PROVE  request_context(a, b) # response_context(c)
<1> SUFFICES ASSUME request_context(a, b) = response_context(c) PROVE FALSE
  OBVIOUS
<1> DEFINE R == Cat(push_field(a), push_field(b))
           s == <<1, 1>>
           t == <<1, 2>>
<1>1. Cat(s, R) = Cat(t, push_field(c))
  BY DEF request_context, response_context, HEADER_CONTEXT_VERSION, HEADER_CONTEXT_REQUEST,
         HEADER_CONTEXT_RESPONSE, Cat
<1>2. s \in Bytes /\ t \in Bytes /\ Len(s) = Len(t) /\ s # t
  BY DEF Bytes, Byte
<1>3. R \in Bytes /\ push_field(c) \in Bytes
  BY FieldFacts, CatType
<1> HIDE DEF R, s, t
<1> QED BY <1>1, <1>2, <1>3, CatSplit

\* A transcript starts with its version, additional data with the high byte of a short length.
LEMMA TranscriptDiffersFromAad ==
    ASSUME NEW a \in Field, NEW b \in Field, NEW c \in Field,
           NEW d \in Field, NEW e \in Field, NEW f \in Field,
           AEAD_AAD_LABEL \in Field
    PROVE  transcript(a, b, c) # aad(d, e, f)
<1> DEFINE R == Cat(push_field(a), Cat(push_field(b), push_field(c)))
           S == Cat(push_field(d), Cat(push_field(e), push_field(f)))
           P == to_be_bytes(Len(AEAD_AAD_LABEL))
           v == <<1>>
<1>1. transcript(a, b, c) = Cat(v, R) /\ aad(d, e, f) = Cat(push_field(AEAD_AAD_LABEL), S)
  BY DEF transcript, aad, TRANSCRIPT_VERSION, Cat
<1>2. R \in Bytes /\ S \in Bytes /\ v \in Bytes /\ Len(v) = 1 /\ v[1] = 1
  BY ThreeFieldsType DEF Bytes, Byte
<1>3. /\ push_field(AEAD_AAD_LABEL) = Cat(P, AEAD_AAD_LABEL)
      /\ P \in Bytes /\ Len(P) = 8 /\ AEAD_AAD_LABEL \in Bytes
  BY FieldFacts
<1>4. P[1] = 0
  BY LabelAssumption DEF to_be_bytes, Quotients, Shift, Digit
<1> HIDE DEF R, S, P, v
<1>5. Cat(v, R)[1] = 1
  BY <1>2, ConcatProperties, LenProperties DEF Cat, Bytes
<1>6. /\ Cat(push_field(AEAD_AAD_LABEL), S) = Cat(P, Cat(AEAD_AAD_LABEL, S))
      /\ Cat(AEAD_AAD_LABEL, S) \in Bytes
  BY <1>2, <1>3, CatAssociative, CatType
<1>7. Cat(P, Cat(AEAD_AAD_LABEL, S))[1] = 0
  <2> DEFINE T == Cat(AEAD_AAD_LABEL, S)
  <2>1. T \in Bytes
    BY <1>6
  <2> HIDE DEF T
  <2>2. 1 \in 1..Len(P) + Len(T) /\ 1 <= Len(P)
    BY <1>3, <2>1, LenProperties DEF Bytes
  <2>3. \A i \in 1..Len(P) + Len(T) : (P \o T)[i] = IF i <= Len(P) THEN P[i] ELSE T[i - Len(P)]
    BY <1>3, <2>1, ConcatProperties, Zenon DEF Bytes
  <2>4. (P \o T)[1] = P[1]
    BY <2>2, <2>3, Zenon
  <2> QED BY <1>4, <2>4, Zenon DEF T, Cat
<1> QED BY <1>1, <1>5, <1>6, <1>7

-----------------------------------------------------------------------------
(* The specification. *)

\* Everything built was laid out from fields, and contexts are fields again.
MadeFromFields ==
    /\ \A x \in contexts : /\ x.bytes \in Field
                           /\ \/ \E o, r \in Field : x = [of |-> <<o, r>>, bytes |-> request_context(o, r)]
                              \/ \E r \in Field : x = [of |-> <<r>>, bytes |-> response_context(r)]
    /\ \A x \in inputs : \E d, c, p \in Field : x = [of |-> <<d, c, p>>, bytes |-> transcript(d, c, p)]
    /\ \A x \in aads : \E h, d, c \in Field : x = [of |-> <<h, d, c>>, bytes |-> aad(h, d, c)]

LEMMA ConstantsAreFields ==
    Strings \subseteq Field /\ FrameHeaders \subseteq Field /\ AEAD_AAD_LABEL \in Field
<1>1. Strings \subseteq Field
  BY StringsAssumption DEF Field, Bytes
<1>2. fits_u64(14) /\ fits_u64(34)
  BY DEF fits_u64, Quotients, Shift
<1>3. \A h \in FrameHeaders : h \in Seq(Byte) /\ Len(h) = 14
  <2> SUFFICES ASSUME NEW h \in FrameHeaders PROVE h \in Seq(Byte) /\ Len(h) = 14
    OBVIOUS
  <2>1. h \in [1..14 -> Byte]
    BY FrameHeadersAssumption
  <2> QED BY <2>1, FixedLength, Zenon
<1> QED BY <1>1, <1>2, <1>3, LabelAssumption, Zenon DEF Field, Bytes

LEMMA ContextTypes ==
    /\ \A o, r \in Field : request_context(o, r) \in Bytes
    /\ \A r \in Field : response_context(r) \in Bytes
<1>1. <<1, 1>> \in Bytes /\ <<1, 2>> \in Bytes
  BY DEF Bytes, Byte
<1>2. ASSUME NEW o \in Field, NEW r \in Field PROVE request_context(o, r) \in Bytes
  <2>1. push_field(o) \in Bytes /\ push_field(r) \in Bytes
    BY FieldFacts
  <2>2. Cat(<<1, 1>>, Cat(push_field(o), push_field(r))) \in Bytes
    BY <1>1, <2>1, CatType
  <2> QED BY <2>2 DEF request_context, HEADER_CONTEXT_VERSION, HEADER_CONTEXT_REQUEST, Cat
<1>3. ASSUME NEW r \in Field PROVE response_context(r) \in Bytes
  <2>1. push_field(r) \in Bytes
    BY FieldFacts
  <2>2. Cat(<<1, 2>>, push_field(r)) \in Bytes
    BY <1>1, <2>1, CatType
  <2> QED BY <2>2 DEF response_context, HEADER_CONTEXT_VERSION, HEADER_CONTEXT_RESPONSE, Cat
<1> QED BY <1>2, <1>3

LEMMA MadeFromFieldsInvariant == TranscriptSpec => []MadeFromFields
<1>1. TranscriptInit => MadeFromFields
  BY DEF TranscriptInit, MadeFromFields
<1>2. ASSUME MadeFromFields, [TranscriptNext]_tvars PROVE MadeFromFields'
  <2>1. ContextBytes \subseteq Field
    BY <1>2, ConstantsAreFields DEF MadeFromFields, ContextBytes
  <2>2. CASE \E o, r \in Strings : encode_request_context(o, r)
    <3> PICK o \in Strings, r \in Strings : encode_request_context(o, r)
      BY <2>2
    <3>1. o \in Field /\ r \in Field
      BY ConstantsAreFields
    <3>2. request_context(o, r) \in Field
      BY <3>1, ContextTypes, Zenon DEF encode_request_context, Field
    <3> QED BY <1>2, <3>1, <3>2 DEF MadeFromFields, encode_request_context
  <2>3. CASE \E r \in Strings : encode_response_context(r)
    <3> PICK r \in Strings : encode_response_context(r)
      BY <2>3
    <3>1. r \in Field
      BY ConstantsAreFields
    <3>2. response_context(r) \in Field
      BY <3>1, ContextTypes DEF encode_response_context, Field
    <3> QED BY <1>2, <3>1, <3>2 DEF MadeFromFields, encode_response_context
  <2>4. CASE \E d, p \in Strings, c \in ContextBytes : authentication_input(d, c, p)
    <3> PICK d \in Strings, p \in Strings, c \in ContextBytes : authentication_input(d, c, p)
      BY <2>4
    <3>1. d \in Field /\ p \in Field /\ c \in Field
      BY <2>1, ConstantsAreFields
    <3> QED BY <1>2, <3>1 DEF MadeFromFields, authentication_input
  <2>5. CASE \E h \in FrameHeaders, d \in Strings, c \in ContextBytes \cup {<<>>} : aead_aad(h, d, c)
    <3> PICK h \in FrameHeaders, d \in Strings, c \in ContextBytes \cup {<<>>} : aead_aad(h, d, c)
      BY <2>5
    <3>1. h \in Field /\ d \in Field /\ (c # <<>> => c \in Field)
      BY <2>1, ConstantsAreFields
    <3>2. c = <<>> => d = c
      BY DEF aead_aad
    <3>3. c \in Field
      BY <3>1, <3>2
    <3> QED BY <1>2, <3>1, <3>3 DEF MadeFromFields, aead_aad
  <2>6. CASE UNCHANGED tvars
    BY <1>2, <2>6 DEF MadeFromFields, tvars
  <2> QED BY <1>2, <2>2, <2>3, <2>4, <2>5, <2>6 DEF TranscriptNext
<1> QED BY <1>1, <1>2, PTL DEF TranscriptSpec

\* Signed transcripts are unambiguous, for every string a caller may use.
LEMMA TranscriptsSafe == TranscriptSpec => []TranscriptsReadOneWay
<1>1. MadeFromFields => TranscriptsReadOneWay
  <2> SUFFICES ASSUME MadeFromFields, NEW x \in inputs, NEW y \in inputs, x.bytes = y.bytes
               PROVE  x.of = y.of
    BY DEF TranscriptsReadOneWay, ReadOneWay
  <2>1. PICK a \in Field, b \in Field, c \in Field :
            x = [of |-> <<a, b, c>>, bytes |-> transcript(a, b, c)]
    BY DEF MadeFromFields
  <2>2. PICK d \in Field, e \in Field, f \in Field :
            y = [of |-> <<d, e, f>>, bytes |-> transcript(d, e, f)]
    BY DEF MadeFromFields
  <2>3. a = d /\ b = e /\ c = f
    BY <2>1, <2>2, TranscriptInjective
  <2> QED BY <2>1, <2>2, <2>3
<1> QED BY <1>1, MadeFromFieldsInvariant, PTL

\* Additional data is unambiguous, the mode included.
LEMMA AadSafe == TranscriptSpec => []AadReadsOneWay
<1>1. MadeFromFields => AadReadsOneWay
  <2> SUFFICES ASSUME MadeFromFields, NEW x \in aads, NEW y \in aads, x.bytes = y.bytes
               PROVE  x.of = y.of
    BY DEF AadReadsOneWay, ReadOneWay
  <2>1. PICK a \in Field, b \in Field, c \in Field : x = [of |-> <<a, b, c>>, bytes |-> aad(a, b, c)]
    BY DEF MadeFromFields
  <2>2. PICK d \in Field, e \in Field, f \in Field : y = [of |-> <<d, e, f>>, bytes |-> aad(d, e, f)]
    BY DEF MadeFromFields
  <2>3. a = d /\ b = e /\ c = f
    BY <2>1, <2>2, AadInjective, ConstantsAreFields
  <2> QED BY <2>1, <2>2, <2>3
<1> QED BY <1>1, MadeFromFieldsInvariant, PTL

\* Context bytes are unambiguous, the direction included.
LEMMA ContextsSafe == TranscriptSpec => []ContextsReadOneWay
<1>1. MadeFromFields => ContextsReadOneWay
  <2> SUFFICES ASSUME MadeFromFields, NEW x \in contexts, NEW y \in contexts, x.bytes = y.bytes
               PROVE  x.of = y.of
    BY DEF ContextsReadOneWay, ReadOneWay
  <2> DEFINE Request(z) == \E o, r \in Field : z = [of |-> <<o, r>>, bytes |-> request_context(o, r)]
             Response(z) == \E r \in Field : z = [of |-> <<r>>, bytes |-> response_context(r)]
  <2>1. (Request(x) \/ Response(x)) /\ (Request(y) \/ Response(y))
    BY DEF MadeFromFields
  <2>2. CASE Request(x) /\ Request(y)
    BY <2>2, RequestContextInjective
  <2>3. CASE Response(x) /\ Response(y)
    BY <2>3, ResponseContextInjective
  <2>4. CASE Request(x) /\ Response(y)
    BY <2>4, DirectionsDiffer
  <2>5. CASE Response(x) /\ Request(y)
    BY <2>5, DirectionsDiffer
  <2> QED BY <2>1, <2>2, <2>3, <2>4, <2>5
<1> QED BY <1>1, MadeFromFieldsInvariant, PTL

\* No signed transcript is the additional data of a frame.
LEMMA SeparationSafe == TranscriptSpec => []TranscriptIsNoAad
<1>1. MadeFromFields => TranscriptIsNoAad
  <2> SUFFICES ASSUME MadeFromFields, NEW x \in inputs, NEW y \in aads
               PROVE  x.bytes # y.bytes
    BY DEF TranscriptIsNoAad
  <2>1. PICK a \in Field, b \in Field, c \in Field :
            x = [of |-> <<a, b, c>>, bytes |-> transcript(a, b, c)]
    BY DEF MadeFromFields
  <2>2. PICK d \in Field, e \in Field, f \in Field : y = [of |-> <<d, e, f>>, bytes |-> aad(d, e, f)]
    BY DEF MadeFromFields
  <2> QED BY <2>1, <2>2, TranscriptDiffersFromAad, ConstantsAreFields
<1> QED BY <1>1, MadeFromFieldsInvariant, PTL

\* Transcripts, additional data and contexts are unambiguous and the first two differ, for
\* every string a caller may use: authentication_input, aead_aad and the context encoders.
THEOREM EncodingsSafe == TranscriptSpec => []EncodingsReadOneWay
<1>1. TranscriptsReadOneWay /\ AadReadsOneWay /\ ContextsReadOneWay /\ TranscriptIsNoAad
        => EncodingsReadOneWay
  BY DEF EncodingsReadOneWay
<1> QED BY <1>1, TranscriptsSafe, AadSafe, ContextsSafe, SeparationSafe, PTL

-----------------------------------------------------------------------------
(* The calendar.  Years of the formula start on March 1st and come in eras of 400: day d of
   year y of era e.  The formula undoes this numbering, and the numbering follows the
   calendar from one day to the next. *)
year_days(y) == IF leap(y + 1) THEN 366 ELSE 365
Numbered(e, y, d) == e \in Nat /\ y \in Nat /\ y < 400 /\ d \in Nat /\ d < year_days(y)
Number(e, y, d) == e * 146097 + days_before(y) + d - 719468

LEMMA YearOfEra ==
    ASSUME NEW e, NEW y, NEW d, Numbered(e, y, d)
    PROVE  year_of_era(days_before(y) + d) = y
BY SMT DEF Numbered, days_before, year_days, leap, year_of_era

LEMMA DayOfEra ==
    ASSUME NEW e, NEW y, NEW d, Numbered(e, y, d)
    PROVE  days_before(y) \in Nat /\ days_before(y) + d < 146097
<1>1. days_before(y) \in Nat
  BY SMT DEF Numbered, days_before
<1>2. days_before(y) + d < 146097
  BY SMTT(30) DEF Numbered, days_before, year_days, leap
<1> QED
  BY <1>1, <1>2, SMT

LEMMA EraOf ==
    ASSUME NEW e \in Nat, NEW n \in Nat, n < 146097, NEW x, x = e * 146097 + n
    PROVE  x \div 146097 = e
BY SMT

\* What the formula makes of a numbered day.
LEMMA CivilOfNumber ==
    ASSUME NEW e, NEW y, NEW d, Numbered(e, y, d)
    PROVE  civil_date_from_days(Number(e, y, d)) = civil_date(e, y, d)
<1> DEFINE n == Number(e, y, d)
           shifted == n + 719468
<1>0. e \in Nat /\ y \in Nat /\ y < 400 /\ d \in Nat /\ d < year_days(y)
  BY SMT DEF Numbered
<1>1. days_before(y) \in Nat /\ days_before(y) + d < 146097
  BY DayOfEra, SMT
<1>2. PICK b \in Nat : b = days_before(y)
  BY <1>0, <1>1, SMT
<1>3. shifted = e * 146097 + (b + d)
  BY <1>0, <1>1, <1>2, SMT DEF Number
<1> HIDE DEF n, shifted
<1>4. era_of(shifted) = e
  <2>1. shifted >= 0
    BY <1>0, <1>1, <1>2, <1>3, SMT
  <2>2. era_of(shifted) = shifted \div 146097
    BY <2>1, SMT DEF era_of
  <2> QED
    BY <1>0, <1>1, <1>2, <1>3, <2>2, EraOf, SMT
<1>5. shifted - era_of(shifted) * 146097 = b + d
  BY <1>0, <1>1, <1>2, <1>3, <1>4, SMT
<1>6. year_of_era(b + d) = y
  BY <1>2, YearOfEra, SMT
<1>7. b + d - days_before(y) = d
  BY <1>0, <1>1, <1>2, SMT
<1>8. civil_date_from_days(n) =
        civil_date(era_of(shifted), year_of_era(shifted - era_of(shifted) * 146097),
                   shifted - era_of(shifted) * 146097
                     - days_before(year_of_era(shifted - era_of(shifted) * 146097)))
  BY SMT DEF civil_date_from_days, shifted
<1>9. civil_date_from_days(n) = civil_date(e, y, d)
  <2> DEFINE doe == shifted - era_of(shifted) * 146097
  <2> HIDE DEF doe
  <2>1. civil_date_from_days(n) =
          civil_date(era_of(shifted), year_of_era(doe), doe - days_before(year_of_era(doe)))
    BY <1>8, SMT DEF doe
  <2>2. doe = b + d
    BY <1>5, SMT DEF doe
  <2>3. year_of_era(doe) = y
    BY <1>6, <2>2, Zenon
  <2>4. doe - days_before(y) = d
    BY <1>0, <1>1, <1>2, <2>2, SMT
  <2> QED
    BY <1>4, <2>1, <2>3, <2>4, Zenon
<1> QED
  BY <1>9, SMT DEF n

LEMMA MonthOf ==
    ASSUME NEW d \in Nat, d < 366
    PROVE  month_prime(d) \in 0..11 /\ month_of(d) \in 1..12 /\ day_of(d) \in 1..31
BY SMT DEF month_prime, month_of, day_of

\* From a day to the next: within a year, at the end of a year, and at the end of an era.
LEMMA Leap ==
    ASSUME NEW e \in Nat, NEW y \in Nat PROVE leap(y + e * 400) <=> leap(y)
BY SMT DEF leap

\* The calendar looks at the year for February only, which ends the formula's year.
LEMMA MonthLength ==
    ASSUME NEW e, NEW y, NEW d, Numbered(e, y, d)
    PROVE  LET civil == civil_date(e, y, d)
           IN  month_length(civil[1], civil[2]) = month_length(y + 1, month_of(d))
<1>1. e \in Nat /\ y \in Nat /\ d \in Nat /\ d < 366
  BY SMT DEF Numbered, year_days
<1> DEFINE year == civil_date(e, y, d)[1]
<1>2. civil_date(e, y, d)[2] = month_of(d)
  BY SMT DEF civil_date
<1>3. CASE month_of(d) = 2
  <2>1. year = y + e * 400 + 1
    BY <1>1, <1>3, SMT DEF civil_date
  <2>2. year = (y + 1) + e * 400 /\ y + 1 \in Nat
    BY <1>1, <2>1, SMT
  <2>3. leap(year) <=> leap(y + 1)
    BY <1>1, <2>2, Leap, SMT
  <2> HIDE DEF year
  <2>4. month_length(year, 2) = month_length(y + 1, 2)
    BY <2>3, Zenon DEF month_length
  <2> QED
    BY <1>2, <1>3, <2>4, SMT DEF year
<1>4. CASE month_of(d) # 2
  BY <1>2, <1>4, SMT DEF month_length
<1> QED
  BY <1>3, <1>4

LEMMA WithinTheYear ==
    ASSUME NEW e, NEW y, NEW d, Numbered(e, y, d), d + 1 < year_days(y)
    PROVE  tomorrow(civil_date(e, y, d)) = civil_date(e, y, d + 1)
<1> DEFINE length == month_length(y + 1, month_of(d))
           civil == civil_date(e, y, d)
<1>1. e \in Nat /\ y \in Nat /\ y + 1 \in Nat /\ d \in Nat /\ d < 365
  BY SMT DEF Numbered, year_days
<1>2. \/ /\ day_of(d) < length
         /\ month_of(d + 1) = month_of(d) /\ day_of(d + 1) = day_of(d) + 1
      \/ /\ ~(day_of(d) < length) /\ month_of(d) < 12
         /\ month_of(d + 1) = month_of(d) + 1 /\ day_of(d + 1) = 1 /\ month_of(d) # 2
      \/ /\ ~(day_of(d) < length) /\ month_of(d) = 12
         /\ month_of(d + 1) = 1 /\ day_of(d + 1) = 1
  BY <1>1, SMTT(30) DEF year_days, month_length, month_of, month_prime, day_of
<1>3. month_of(d) \in 1..12 /\ day_of(d) \in 1..31
  BY <1>1, MonthOf, SMT
<1>4. tomorrow(civil) =
        IF day_of(d) < length THEN <<civil[1], month_of(d), day_of(d) + 1>>
        ELSE IF month_of(d) < 12 THEN <<civil[1], month_of(d) + 1, 1>>
        ELSE <<civil[1] + 1, 1, 1>>
  <2>1. civil[2] = month_of(d) /\ civil[3] = day_of(d)
    BY SMT DEF civil_date
  <2>2. month_length(civil[1], civil[2]) = length
    BY MonthLength, SMT
  <2> HIDE DEF civil, length
  <2> QED
    BY <2>1, <2>2, SMT DEF tomorrow
<1>5. civil[1] = y + e * 400 + (IF month_of(d) <= 2 THEN 1 ELSE 0)
  BY SMT DEF civil_date
<1> HIDE DEF civil, length
<1>6. tomorrow(civil) = <<y + e * 400 + (IF month_of(d + 1) <= 2 THEN 1 ELSE 0),
                          month_of(d + 1), day_of(d + 1)>>
  BY <1>1, <1>2, <1>3, <1>4, <1>5, SMT
<1> QED
  BY <1>6, SMT DEF civil_date, civil

LEMMA LastDayOfYear ==
    ASSUME NEW e, NEW y, NEW d, Numbered(e, y, d), ~(d + 1 < year_days(y))
    PROVE  tomorrow(civil_date(e, y, d)) = <<y + 1 + e * 400, 3, 1>>
<1> DEFINE civil == civil_date(e, y, d)
<1>1. e \in Nat /\ y \in Nat /\ d = (IF leap(y + 1) THEN 365 ELSE 364)
  BY SMT DEF Numbered, year_days
<1>2. month_of(d) = 2 /\ day_of(d) = IF leap(y + 1) THEN 29 ELSE 28
  BY <1>1, SMT DEF month_of, month_prime, day_of
<1>3. civil = <<y + e * 400 + 1, 2, day_of(d)>>
  BY <1>1, <1>2, SMT DEF civil_date
<1>4. month_length(civil[1], civil[2]) = day_of(d)
  BY <1>2, MonthLength, SMT DEF month_length
<1> HIDE DEF civil
<1>5. day_of(d) \in Nat
  BY <1>2, SMT
<1>6. tomorrow(civil) = <<y + e * 400 + 1, 3, 1>>
  BY <1>1, <1>3, <1>4, <1>5, SMT DEF tomorrow
<1> QED
  BY <1>1, <1>6, SMT DEF civil

LEMMA FirstDayOfYear ==
    ASSUME NEW e \in Nat, NEW y \in Nat
    PROVE  civil_date(e, y, 0) = <<y + e * 400, 3, 1>>
BY SMT DEF civil_date, month_of, month_prime, day_of

-----------------------------------------------------------------------------

CalendarDate(n, c) == \E e, y, d : Numbered(e, y, d) /\ n = Number(e, y, d) /\ c = civil_date(e, y, d)
OnTheCalendar == CalendarDate(days, date)

LEMMA NextNumber ==
    ASSUME NEW e, NEW y, NEW d, Numbered(e, y, d)
    PROVE  \E f, z, c : /\ Numbered(f, z, c) /\ Number(f, z, c) = Number(e, y, d) + 1
                        /\ tomorrow(civil_date(e, y, d)) = civil_date(f, z, c)
<1>1. /\ e \in Nat /\ y \in Nat /\ y < 400 /\ d \in Nat /\ d < year_days(y)
      /\ year_days(y) \in {365, 366}
  BY SMT DEF Numbered, year_days
<1>2. CASE d + 1 < year_days(y)
  <2>1. Numbered(e, y, d + 1)
    BY <1>1, <1>2, SMT DEF Numbered
  <2>2. Number(e, y, d + 1) = Number(e, y, d) + 1
    BY <1>1, SMT DEF Number, days_before
  <2> QED
    BY <1>2, <2>1, <2>2, WithinTheYear, SMT
<1>3. CASE ~(d + 1 < year_days(y)) /\ y < 399
  <2>1. Numbered(e, y + 1, 0)
    BY <1>1, <1>3, SMT DEF Numbered, year_days
  <2>2. Number(e, y + 1, 0) = Number(e, y, d) + 1
    BY <1>1, <1>3, SMT DEF Number, days_before, year_days, leap
  <2>3. tomorrow(civil_date(e, y, d)) = civil_date(e, y + 1, 0)
    <3>1. tomorrow(civil_date(e, y, d)) = <<y + 1 + e * 400, 3, 1>>
      BY <1>3, LastDayOfYear, Zenon
    <3>2. y + 1 \in Nat
      BY <1>1, SMT
    <3> QED
      BY <1>1, <3>1, <3>2, FirstDayOfYear, Zenon
  <2> QED
    BY <2>1, <2>2, <2>3, SMT
<1>4. CASE ~(d + 1 < year_days(y)) /\ ~(y < 399)
  <2>1. Numbered(e + 1, 0, 0) /\ y = 399
    BY <1>1, <1>4, SMT DEF Numbered, year_days
  <2>2. Number(e + 1, 0, 0) = Number(e, y, d) + 1
    BY <1>1, <1>4, <2>1, SMT DEF Number, days_before, year_days, leap
  <2>3. tomorrow(civil_date(e, y, d)) = civil_date(e + 1, 0, 0)
    <3>1. tomorrow(civil_date(e, y, d)) = <<y + 1 + e * 400, 3, 1>>
      BY <1>4, LastDayOfYear, Zenon
    <3>2. e + 1 \in Nat /\ y + 1 + e * 400 = 0 + (e + 1) * 400
      BY <1>1, <2>1, SMT
    <3>3. civil_date(e + 1, 0, 0) = <<0 + (e + 1) * 400, 3, 1>>
      BY <3>2, FirstDayOfYear, SMT
    <3> QED
      BY <3>1, <3>2, <3>3, SMT
  <2> QED
    BY <2>1, <2>2, <2>3, SMT
<1> QED
  BY <1>2, <1>3, <1>4

LEMMA OnTheCalendarInvariant == TimeSpec => []OnTheCalendar
<1>1. TimeInit => OnTheCalendar
  <2> SUFFICES ASSUME TimeInit PROVE OnTheCalendar
    OBVIOUS
  <2>1. Numbered(4, 369, 306)
    BY SMT DEF Numbered, year_days
  <2>2. Number(4, 369, 306) = 0
    BY SMT DEF Number, days_before
  <2>3. civil_date(4, 369, 306) = <<1970, 1, 1>>
    BY SMT DEF civil_date, month_of, month_prime, day_of
  <2>4. days = Number(4, 369, 306) /\ date = civil_date(4, 369, 306)
    BY <2>2, <2>3, SMT DEF TimeInit
  <2> QED
    BY <2>1, <2>4, SMT DEF OnTheCalendar, CalendarDate
<1>2. OnTheCalendar /\ [TimeNext]_rvars => OnTheCalendar'
  <2> SUFFICES ASSUME OnTheCalendar, [TimeNext]_rvars PROVE OnTheCalendar'
    OBVIOUS
  <2>1. CASE UNCHANGED <<days, date>>
    BY <2>1, SMT DEF OnTheCalendar, CalendarDate
  <2>2. CASE NextDay
    <3>1. PICK e, y, d : Numbered(e, y, d) /\ days = Number(e, y, d) /\ date = civil_date(e, y, d)
      BY SMT DEF OnTheCalendar, CalendarDate
    <3>2. PICK f, z, c : /\ Numbered(f, z, c) /\ Number(f, z, c) = Number(e, y, d) + 1
                         /\ tomorrow(civil_date(e, y, d)) = civil_date(f, z, c)
      BY <3>1, NextNumber, SMT
    <3>3. days' = Number(f, z, c) /\ date' = civil_date(f, z, c)
      BY <2>2, <3>1, <3>2, SMT DEF NextDay
    <3> QED
      BY <3>2, <3>3, SMT DEF OnTheCalendar, CalendarDate
  <2> QED
    BY <2>1, <2>2, SMT DEF TimeNext, LaterToday, rvars
<1> QED
  BY <1>1, <1>2, PTL DEF TimeSpec

\* The closed formula of civil_date_from_days agrees with the Gregorian calendar on every day
\* from the Unix epoch on: DatesFollowTheCalendar, however long the clock runs.
THEOREM CalendarFollowed == TimeSpec => []DatesFollowTheCalendar
<1>1. OnTheCalendar => DatesFollowTheCalendar
  BY CivilOfNumber, SMT DEF OnTheCalendar, CalendarDate, DatesFollowTheCalendar
<1> QED
  BY <1>1, OnTheCalendarInvariant, PTL
-----------------------------------------------------------------------------
(* Timestamps as texts.  A timestamp is ten groups of two digits; texts of one length are
   compared digit by digit, and so group by group. *)
Below(s, t) ==
    /\ Len(s) = Len(t)
    /\ \E k \in 1..Len(s) : s[k] < t[k] /\ \A j \in 1..k - 1 : s[j] = t[j]
Before(a, b, rest) == a < b \/ (a = b /\ rest)

LEMMA TwoDigits ==
    ASSUME NEW a \in 0..99
    PROVE  /\ two_digits(a) \in Seq(Nat) /\ Len(two_digits(a)) = 2
           /\ two_digits(a)[1] = a \div 10 /\ two_digits(a)[2] = a % 10
<1>1. DecimalDigit(a, 10) = a \div 10 /\ DecimalDigit(a, 1) = a % 10
  BY SMT DEF DecimalDigit
<1>2. a \div 10 \in Nat /\ a % 10 \in Nat
  BY SMT
<1>3. two_digits(a) = <<a \div 10, a % 10>>
  BY <1>1, SMT DEF two_digits
<1> QED
  BY <1>2, <1>3, SMT

LEMMA TwoDigitsBelow ==
    ASSUME NEW a \in 0..99, NEW b \in 0..99, a < b PROVE Below(two_digits(a), two_digits(b))
<1>1. a \div 10 < b \div 10 \/ (a \div 10 = b \div 10 /\ a % 10 < b % 10)
  BY SMT
<1> DEFINE s == two_digits(a)
           t == two_digits(b)
<1>2. Len(s) = 2 /\ Len(t) = 2 /\ (s[1] < t[1] \/ (s[1] = t[1] /\ s[2] < t[2]))
  <2>1. Len(s) = 2 /\ s[1] = a \div 10 /\ s[2] = a % 10
    BY TwoDigits, Zenon
  <2>2. Len(t) = 2 /\ t[1] = b \div 10 /\ t[2] = b % 10
    BY TwoDigits, Zenon
  <2> HIDE DEF s, t
  <2> QED
    BY <1>1, <2>1, <2>2, SMT
<1> HIDE DEF s, t
<1>3. Below(s, t)
  BY <1>2, SMT DEF Below
<1> QED
  BY <1>3, SMT DEF s, t

LEMMA Appended ==
    ASSUME NEW s \in Seq(Nat), NEW t \in Seq(Nat), NEW u \in Seq(Nat), NEW v \in Seq(Nat),
           Len(u) = Len(v), Below(s, t)
    PROVE  Below(s \o u, t \o v)
<1>1. PICK k \in 1..Len(s) : s[k] < t[k] /\ \A j \in 1..k - 1 : s[j] = t[j]
  BY Zenon DEF Below
<1>2. Len(s) = Len(t) /\ Len(s) \in Nat /\ Len(u) \in Nat
  BY SMT DEF Below
<1>3. \A j \in 1..Len(s) : (s \o u)[j] = s[j] /\ (t \o v)[j] = t[j]
  BY <1>2, SMT
<1>4. Len(s \o u) = Len(s) + Len(u) /\ Len(t \o v) = Len(s) + Len(u)
  <2>1. Len(s \o u) = Len(s) + Len(u)
    BY ConcatProperties, Zenon
  <2>2. Len(t \o v) = Len(t) + Len(v)
    BY ConcatProperties, Zenon
  <2> QED
    BY <1>2, <2>1, <2>2, Zenon
<1> DEFINE x == s \o u
           y == t \o v
<1> HIDE DEF x, y
<1>5. k \in 1..Len(x) /\ x[k] < y[k] /\ Len(x) = Len(y)
  BY <1>1, <1>2, <1>3, <1>4, SMT DEF x, y
<1>6. \A j \in 1..k - 1 : x[j] = y[j]
  BY <1>1, <1>2, <1>3, SMT DEF x, y
<1> QED
  BY <1>5, <1>6, Zenon DEF Below, x, y

LEMMA Prefixed ==
    ASSUME NEW s \in Seq(Nat), NEW u \in Seq(Nat), NEW v \in Seq(Nat), Below(u, v)
    PROVE  Below(s \o u, s \o v)
<1>1. PICK k \in 1..Len(u) : u[k] < v[k] /\ \A j \in 1..k - 1 : u[j] = v[j]
  BY Zenon DEF Below
<1>2. Len(u) = Len(v) /\ Len(s) \in Nat /\ Len(u) \in Nat
  BY SMT DEF Below
<1> DEFINE x == s \o u
           y == s \o v
           n == Len(s)
<1>3. \A j \in 1..n : x[j] = s[j] /\ y[j] = s[j]
  BY <1>2, SMT
<1>4. \A j \in 1..Len(u) : x[n + j] = u[j] /\ y[n + j] = v[j]
  BY <1>2, SMT
<1>5. Len(x) = n + Len(u) /\ Len(y) = n + Len(u)
  <2>1. Len(x) = n + Len(u)
    BY ConcatProperties, Zenon
  <2>2. Len(y) = n + Len(v)
    BY ConcatProperties, Zenon
  <2> QED
    BY <1>2, <2>1, <2>2, Zenon
<1> HIDE DEF x, y
<1>6. n + k \in 1..Len(x) /\ x[n + k] < y[n + k] /\ Len(x) = Len(y)
  BY <1>1, <1>2, <1>4, <1>5, SMT
<1>7. ASSUME NEW j \in 1..(n + k) - 1 PROVE x[j] = y[j]
  <2>1. CASE j <= n
    BY <1>2, <1>3, <2>1, SMT
  <2>2. CASE ~(j <= n)
    <3>1. j - n \in 1..Len(u) /\ j - n \in 1..k - 1 /\ n + (j - n) = j
      BY <1>1, <1>2, <2>2, SMT
    <3>2. x[n + (j - n)] = u[j - n] /\ y[n + (j - n)] = v[j - n] /\ u[j - n] = v[j - n]
      BY <1>1, <1>4, <3>1, Zenon
    <3> QED
      BY <3>1, <3>2, Zenon
  <2> QED
    BY <2>1, <2>2
<1> HIDE DEF n
<1>8. Below(x, y)
  <2>1. PICK m : m = n + k
    OBVIOUS
  <2>2. m \in 1..Len(x) /\ x[m] < y[m] /\ Len(x) = Len(y)
    BY <1>6, <2>1, Zenon
  <2>3. \A j \in 1..m - 1 : x[j] = y[j]
    BY <1>7, <2>1, Zenon
  <2> QED
    BY <2>2, <2>3, Zenon DEF Below
<1> QED
  BY <1>8, Zenon DEF x, y
\* Two texts so far: the first is already below the second, or they agree and the rest decides.
Ordered(s, t, rest) == s \in Seq(Nat) /\ t \in Seq(Nat) /\ (Below(s, t) \/ (s = t /\ rest))

LEMMA NextGroup ==
    ASSUME NEW s, NEW t, NEW a \in 0..99, NEW b \in 0..99, NEW rest,
           Ordered(s, t, Before(a, b, rest))
    PROVE  Ordered(s \o two_digits(a), t \o two_digits(b), rest)
<1> DEFINE u == two_digits(a)
           v == two_digits(b)
<1>1. /\ u \in Seq(Nat) /\ v \in Seq(Nat) /\ Len(u) = Len(v)
      /\ s \in Seq(Nat) /\ t \in Seq(Nat)
  BY TwoDigits, Zenon DEF Ordered
<1>2. s \o u \in Seq(Nat) /\ t \o v \in Seq(Nat)
  BY <1>1, ConcatProperties, Zenon
<1>3. CASE Below(s, t)
  BY <1>1, <1>2, <1>3, Appended, Zenon DEF Ordered
<1>4. CASE s = t /\ a < b
  BY <1>1, <1>2, <1>4, TwoDigitsBelow, Prefixed, Zenon DEF Ordered
<1>5. CASE s = t /\ a = b /\ rest
  BY <1>2, <1>5, Zenon DEF Ordered
<1> QED
  BY <1>3, <1>4, <1>5, Zenon DEF Ordered, Before

Spelled(g) ==
    two_digits(g[1]) \o two_digits(g[2]) \o two_digits(g[3]) \o two_digits(g[4])
      \o two_digits(g[5]) \o two_digits(g[6]) \o two_digits(g[7])
      \o two_digits(g[8]) \o two_digits(g[9]) \o two_digits(g[10])
IsGroups(g) == \A i \in 1..10 : g[i] \in 0..99
GroupsBelow(g, h) ==
    Before(g[1], h[1], Before(g[2], h[2], Before(g[3], h[3], Before(g[4], h[4],
    Before(g[5], h[5], Before(g[6], h[6], Before(g[7], h[7],
    Before(g[8], h[8], Before(g[9], h[9], Before(g[10], h[10], FALSE))))))))))

LEMMA GroupByGroup ==
    ASSUME NEW g, NEW h, IsGroups(g), IsGroups(h), GroupsBelow(g, h)
    PROVE  Spelled(g) \in Seq(Nat) /\ Below(Spelled(g), Spelled(h))
<1> DEFINE P1(c) == two_digits(c[1])
           P2(c) == P1(c) \o two_digits(c[2])
           P3(c) == P2(c) \o two_digits(c[3])
           P4(c) == P3(c) \o two_digits(c[4])
           P5(c) == P4(c) \o two_digits(c[5])
           P6(c) == P5(c) \o two_digits(c[6])
           P7(c) == P6(c) \o two_digits(c[7])
           P8(c) == P7(c) \o two_digits(c[8])
           P9(c) == P8(c) \o two_digits(c[9])
           P10(c) == P9(c) \o two_digits(c[10])
           R11 == FALSE
           R10 == Before(g[10], h[10], R11)
           R9 == Before(g[9], h[9], R10)
           R8 == Before(g[8], h[8], R9)
           R7 == Before(g[7], h[7], R8)
           R6 == Before(g[6], h[6], R7)
           R5 == Before(g[5], h[5], R6)
           R4 == Before(g[4], h[4], R5)
           R3 == Before(g[3], h[3], R4)
           R2 == Before(g[2], h[2], R3)
           R1 == Before(g[1], h[1], R2)
<1>0. /\ g[1] \in 0..99 /\ g[2] \in 0..99 /\ g[3] \in 0..99 /\ g[4] \in 0..99 /\ g[5] \in 0..99
      /\ g[6] \in 0..99 /\ g[7] \in 0..99 /\ g[8] \in 0..99 /\ g[9] \in 0..99 /\ g[10] \in 0..99
      /\ h[1] \in 0..99 /\ h[2] \in 0..99 /\ h[3] \in 0..99 /\ h[4] \in 0..99 /\ h[5] \in 0..99
      /\ h[6] \in 0..99 /\ h[7] \in 0..99 /\ h[8] \in 0..99 /\ h[9] \in 0..99 /\ h[10] \in 0..99
  BY SMT DEF IsGroups
<1>1. Ordered(P1(g), P1(h), R2)
  <2> HIDE DEF R2
  <2>1. g[1] < h[1] \/ (g[1] = h[1] /\ R2)
    BY Zenon DEF GroupsBelow, Before, R2
  <2>2. P1(g) \in Seq(Nat) /\ P1(h) \in Seq(Nat)
    BY <1>0, TwoDigits, Zenon
  <2> QED
    BY <1>0, <2>1, <2>2, TwoDigitsBelow, Zenon DEF Ordered
<1>2. Ordered(P2(g), P2(h), R3)
  BY <1>0, <1>1, NextGroup, Zenon
<1>3. Ordered(P3(g), P3(h), R4)
  BY <1>0, <1>2, NextGroup, Zenon
<1>4. Ordered(P4(g), P4(h), R5)
  BY <1>0, <1>3, NextGroup, Zenon
<1>5. Ordered(P5(g), P5(h), R6)
  BY <1>0, <1>4, NextGroup, Zenon
<1>6. Ordered(P6(g), P6(h), R7)
  BY <1>0, <1>5, NextGroup, Zenon
<1>7. Ordered(P7(g), P7(h), R8)
  BY <1>0, <1>6, NextGroup, Zenon
<1>8. Ordered(P8(g), P8(h), R9)
  BY <1>0, <1>7, NextGroup, Zenon
<1>9. Ordered(P9(g), P9(h), R10)
  BY <1>0, <1>8, NextGroup, Zenon
<1>10. Ordered(P10(g), P10(h), R11)
  BY <1>0, <1>9, NextGroup, Zenon
<1> QED
  BY <1>10, Zenon DEF Ordered, Spelled
(* The ten groups of a timestamp. *)
Groups(civil, time) ==
    <<civil[1] \div 100, civil[1] % 100, civil[2], civil[3],
      time[1] \div 3600, (time[1] % 3600) \div 60, time[1] % 60,
      time[2] \div 10000, (time[2] \div 100) % 100, time[2] % 100>>
IsDate(civil) == civil[1] \in Nat /\ civil[1] < 10000 /\ civil[2] \in 1..12 /\ civil[3] \in 1..31
IsTime(time) == /\ time[1] \in Nat /\ time[1] < 86400
                /\ time[2] \in Nat /\ time[2] < 1000000

LEMMA Formatted ==
    ASSUME NEW day, NEW time
    PROVE  format_utc_timestamp(day, time) = Spelled(Groups(civil_date_from_days(day), time))
<1> DEFINE civil == civil_date_from_days(day)
           g == Groups(civil, time)
           hour == time[1] \div 3600
           minute == (time[1] % 3600) \div 60
           micros == time[2] \div 10000
<1>1. format_utc_timestamp(day, time) =
        two_digits(civil[1] \div 100) \o two_digits(civil[1] % 100)
          \o two_digits(civil[2]) \o two_digits(civil[3])
          \o two_digits(hour) \o two_digits(minute) \o two_digits(time[1] % 60)
          \o two_digits(micros) \o two_digits((time[2] \div 100) % 100)
          \o two_digits(time[2] % 100)
  BY SMT DEF format_utc_timestamp
<1> HIDE DEF civil
<1>2. /\ g[1] = civil[1] \div 100 /\ g[2] = civil[1] % 100 /\ g[3] = civil[2] /\ g[4] = civil[3]
      /\ g[5] = hour /\ g[6] = minute /\ g[7] = time[1] % 60
      /\ g[8] = micros /\ g[9] = (time[2] \div 100) % 100 /\ g[10] = time[2] % 100
  BY SMT DEF Groups
<1> HIDE DEF g, hour, minute, micros
<1>3. format_utc_timestamp(day, time) = Spelled(g)
  BY <1>1, <1>2, Zenon DEF Spelled
<1> QED
  BY <1>3, Zenon DEF g, civil

LEMMA YearGroups ==
    ASSUME NEW n \in Nat, n < 10000
    PROVE  /\ n \div 100 \in 0..99 /\ n % 100 \in 0..99
           /\ \A m \in Nat : n < m /\ m < 10000 => Before(n \div 100, m \div 100, n % 100 < m % 100)
BY SMT DEF Before

LEMMA SecondGroups ==
    ASSUME NEW n \in Nat, n < 86400
    PROVE  /\ n \div 3600 \in 0..99 /\ (n % 3600) \div 60 \in 0..99 /\ n % 60 \in 0..99
           /\ \A m \in Nat : n < m /\ m < 86400 =>
                 Before(n \div 3600, m \div 3600,
                        Before((n % 3600) \div 60, (m % 3600) \div 60, n % 60 < m % 60))
<1>1. n \div 3600 \in 0..99 /\ (n % 3600) \div 60 \in 0..99 /\ n % 60 \in 0..99
  BY SMT
<1>2. ASSUME NEW m \in Nat, n < m, m < 86400
      PROVE  Before(n \div 3600, m \div 3600,
                    Before((n % 3600) \div 60, (m % 3600) \div 60, n % 60 < m % 60))
  BY <1>2, SMT DEF Before
<1> QED
  BY <1>1, <1>2, SMT

LEMMA MicroGroups ==
    ASSUME NEW n \in Nat, n < 1000000
    PROVE  /\ n \div 10000 \in 0..99 /\ (n \div 100) % 100 \in 0..99 /\ n % 100 \in 0..99
           /\ \A m \in Nat : n < m /\ m < 1000000 =>
                 Before(n \div 10000, m \div 10000,
                        Before((n \div 100) % 100, (m \div 100) % 100, n % 100 < m % 100))
<1>1. n \div 10000 \in 0..99 /\ (n \div 100) % 100 \in 0..99 /\ n % 100 \in 0..99
  BY SMT
<1>2. ASSUME NEW m \in Nat, n < m, m < 1000000
      PROVE  Before(n \div 10000, m \div 10000,
                    Before((n \div 100) % 100, (m \div 100) % 100, n % 100 < m % 100))
  BY <1>2, SMT DEF Before
<1> QED
  BY <1>1, <1>2, SMT

LEMMA GroupsFit ==
    ASSUME NEW civil, NEW time, IsDate(civil), IsTime(time) PROVE IsGroups(Groups(civil, time))
<1>1. PICK n \in Nat : n < 10000 /\ n = civil[1]
  BY SMT DEF IsDate
<1>2. PICK s \in Nat : s < 86400 /\ s = time[1]
  BY SMT DEF IsTime
<1>3. PICK u \in Nat : u < 1000000 /\ u = time[2]
  BY SMT DEF IsTime
<1>4. Groups(civil, time) = <<n \div 100, n % 100, civil[2], civil[3],
        s \div 3600, (s % 3600) \div 60, s % 60, u \div 10000, (u \div 100) % 100, u % 100>>
  BY <1>1, <1>2, <1>3, SMT DEF Groups
<1>5. civil[2] \in 0..99 /\ civil[3] \in 0..99
  BY SMT DEF IsDate
<1>6. n \div 100 \in 0..99 /\ n % 100 \in 0..99
  BY <1>1, YearGroups, SMT
<1>7. s \div 3600 \in 0..99 /\ (s % 3600) \div 60 \in 0..99 /\ s % 60 \in 0..99
  BY <1>2, SecondGroups, SMT
<1>8. u \div 10000 \in 0..99 /\ (u \div 100) % 100 \in 0..99 /\ u % 100 \in 0..99
  BY <1>3, MicroGroups, SMT
<1> QED
  BY <1>4, <1>5, <1>6, <1>7, <1>8, SMT DEF IsGroups

LaterDate(c, d) == c[1] < d[1] \/ (c[1] = d[1] /\ (c[2] < d[2] \/ (c[2] = d[2] /\ c[3] < d[3])))
LaterTime(t, u) == t[1] < u[1] \/ (t[1] = u[1] /\ t[2] < u[2])

LEMMA DatesDecide ==
    ASSUME NEW c, NEW d, NEW t, NEW u, IsDate(c), IsDate(d), LaterDate(c, d)
    PROVE  GroupsBelow(Groups(c, t), Groups(d, u))
<1> DEFINE g == Groups(c, t)
           h == Groups(d, u)
<1>1. PICK n \in Nat : n < 10000 /\ n = c[1]
  BY SMT DEF IsDate
<1>2. PICK m \in Nat : m < 10000 /\ m = d[1]
  BY SMT DEF IsDate
<1>3. /\ g[1] = n \div 100 /\ g[2] = n % 100 /\ g[3] = c[2] /\ g[4] = c[3]
      /\ h[1] = m \div 100 /\ h[2] = m % 100 /\ h[3] = d[2] /\ h[4] = d[3]
  BY <1>1, <1>2, SMT DEF Groups
<1> HIDE DEF g, h
<1>4. n < m => Before(g[1], h[1], g[2] < h[2])
  <2>1. n < m => Before(n \div 100, m \div 100, n % 100 < m % 100)
    BY <1>1, <1>2, YearGroups, SMT
  <2> QED
    BY <1>3, <2>1, Zenon
<1>5. n < m \/ (n = m /\ (c[2] < d[2] \/ (c[2] = d[2] /\ c[3] < d[3])))
  BY <1>1, <1>2, SMT DEF LaterDate
<1>6. n = m => g[1] = h[1] /\ g[2] = h[2]
  BY <1>3, Zenon
<1>7. GroupsBelow(g, h)
  BY <1>3, <1>4, <1>5, <1>6, Zenon DEF GroupsBelow, Before
<1> QED
  BY <1>7, Zenon DEF g, h

LEMMA TimesDecide ==
    ASSUME NEW c, NEW t, NEW u, IsTime(t), IsTime(u), LaterTime(t, u)
    PROVE  GroupsBelow(Groups(c, t), Groups(c, u))
<1> DEFINE g == Groups(c, t)
           h == Groups(c, u)
<1>1. PICK n \in Nat : n < 86400 /\ n = t[1]
  BY SMT DEF IsTime
<1>2. PICK m \in Nat : m < 86400 /\ m = u[1]
  BY SMT DEF IsTime
<1>3. PICK v \in Nat : v < 1000000 /\ v = t[2]
  BY SMT DEF IsTime
<1>4. PICK w \in Nat : w < 1000000 /\ w = u[2]
  BY SMT DEF IsTime
<1>5. /\ g[1] = h[1] /\ g[2] = h[2] /\ g[3] = h[3] /\ g[4] = h[4]
      /\ g[5] = n \div 3600 /\ g[6] = (n % 3600) \div 60 /\ g[7] = n % 60
      /\ g[8] = v \div 10000 /\ g[9] = (v \div 100) % 100 /\ g[10] = v % 100
      /\ h[5] = m \div 3600 /\ h[6] = (m % 3600) \div 60 /\ h[7] = m % 60
      /\ h[8] = w \div 10000 /\ h[9] = (w \div 100) % 100 /\ h[10] = w % 100
  BY <1>1, <1>2, <1>3, <1>4, SMT DEF Groups
<1> HIDE DEF g, h
<1>6. n < m => Before(g[5], h[5], Before(g[6], h[6], g[7] < h[7]))
  <2>1. n < m => Before(n \div 3600, m \div 3600,
                        Before((n % 3600) \div 60, (m % 3600) \div 60, n % 60 < m % 60))
    BY <1>1, <1>2, SecondGroups, SMT
  <2> QED
    BY <1>5, <2>1, SMT
<1>7. v < w => Before(g[8], h[8], Before(g[9], h[9], g[10] < h[10]))
  <2>1. v < w => Before(v \div 10000, w \div 10000,
                        Before((v \div 100) % 100, (w \div 100) % 100, v % 100 < w % 100))
    BY <1>3, <1>4, MicroGroups, SMT
  <2> QED
    BY <1>5, <2>1, SMT
<1>8. n = m => g[5] = h[5] /\ g[6] = h[6] /\ g[7] = h[7]
  BY <1>5, SMT
<1>9. n < m \/ (n = m /\ v < w)
  BY <1>1, <1>2, <1>3, <1>4, SMT DEF LaterTime
<1>10. GroupsBelow(g, h)
  <2>1. g[1] = h[1] /\ g[2] = h[2] /\ g[3] = h[3] /\ g[4] = h[4]
    BY <1>5, SMT
  <2> QED
    BY <1>6, <1>7, <1>8, <1>9, <2>1, Zenon DEF GroupsBelow, Before
<1> QED
  BY <1>10, Zenon DEF g, h

\* Dates up to the bound have four-digit years, and tomorrow is later.
LEMMA DatesFit ==
    ASSUME NEW e, NEW y, NEW d, Numbered(e, y, d), Number(e, y, d) >= 0, Number(e, y, d) <= 2932896
    PROVE  IsDate(civil_date(e, y, d))
<1>1. e \in Nat /\ y \in Nat /\ y < 400 /\ d \in Nat /\ d < 366
  BY SMT DEF Numbered, year_days
<1>2. month_of(d) \in 1..12 /\ day_of(d) \in 1..31
  BY <1>1, MonthOf, SMT
<1>3. e <= 24
  BY <1>1, SMT DEF Number, days_before
<1>4. y + e * 400 + (IF month_of(d) <= 2 THEN 1 ELSE 0) < 10000
  BY <1>1, <1>3, SMT DEF Number, days_before, month_of, month_prime
<1>5. y + e * 400 + (IF month_of(d) <= 2 THEN 1 ELSE 0) \in Nat
  BY <1>1, SMT
<1> QED
  BY <1>2, <1>4, <1>5, SMT DEF IsDate, civil_date

LEMMA TomorrowIsLater ==
    ASSUME NEW c, IsDate(c) PROVE LaterDate(c, tomorrow(c))
BY SMT DEF IsDate, LaterDate, tomorrow
\* The bytes compared are those of the moments' own timestamps, each later than the one before.
Stamped ==
    /\ OnTheCalendar /\ days \in Nat /\ days <= LastDay
    /\ moment \in 1..Len(Moments)
    /\ stamps = <<stamps[1], format_utc_timestamp(days, Moments[moment])>>
    /\ stamps[1] # <<>> => stamps[1] \in Seq(Nat) /\ Below(stamps[1], stamps[2])

LEMMA MomentFacts ==
    /\ Len(Moments) \in Nat /\ 1 \in 1..Len(Moments)
    /\ \A i \in 1..Len(Moments) : IsTime(Moments[i])
    /\ \A i \in 1..Len(Moments) : i < Len(Moments) => LaterTime(Moments[i], Moments[i + 1])
<1>1. /\ Moments \in Seq(Nat \X Nat) /\ Moments # <<>>
      /\ Len(Moments) \in Nat /\ DOMAIN Moments = 1..Len(Moments)
  BY MomentsAssumption, SMT
<1>2. 1 \in 1..Len(Moments)
  BY <1>1, EmptySeq, SMT
<1>3. \A i \in 1..Len(Moments) : IsTime(Moments[i])
  BY <1>1, MomentsAssumption, SMT DEF IsTime
<1>4. ASSUME NEW i \in 1..Len(Moments), i < Len(Moments)
      PROVE  LaterTime(Moments[i], Moments[i + 1])
  <2>1. i \in DOMAIN Moments /\ i + 1 \in DOMAIN Moments /\ i < i + 1
    BY <1>1, <1>4, SMT
  <2>2. \A k, l \in DOMAIN Moments : k < l => LaterTime(Moments[k], Moments[l])
    BY MomentsAssumption, SMT DEF LaterTime
  <2> QED
    BY <2>1, <2>2, Zenon
<1> QED
  BY <1>1, <1>2, <1>3, <1>4, Zenon

LEMMA TodayIsADate ==
    ASSUME NEW n \in Nat, n <= LastDay, NEW c, CalendarDate(n, c)
    PROVE  IsDate(c) /\ civil_date_from_days(n) = c
<1>1. PICK e, y, d : Numbered(e, y, d) /\ n = Number(e, y, d) /\ c = civil_date(e, y, d)
  BY SMT DEF CalendarDate
<1>2. n >= 0 /\ n <= 2932896
  BY LastDayAssumption, SMT
<1>3. Number(e, y, d) >= 0 /\ Number(e, y, d) <= 2932896
  BY <1>1, <1>2, SMT
<1> QED
  BY <1>1, <1>3, DatesFit, CivilOfNumber, SMT

LEMMA StampsBelow ==
    ASSUME NEW c, NEW d, NEW t, NEW u, IsDate(c), IsDate(d), IsTime(t), IsTime(u),
           LaterDate(c, d) \/ (c = d /\ LaterTime(t, u))
    PROVE  /\ Spelled(Groups(c, t)) \in Seq(Nat)
           /\ Below(Spelled(Groups(c, t)), Spelled(Groups(d, u)))
<1>1. IsGroups(Groups(c, t)) /\ IsGroups(Groups(d, u))
  BY GroupsFit, Zenon
<1>2. GroupsBelow(Groups(c, t), Groups(d, u))
  BY DatesDecide, TimesDecide, Zenon
<1> QED
  BY <1>1, <1>2, GroupByGroup, Zenon

LEMMA StampedInvariant == TimeSpec => []Stamped
<1>1. TimeInit /\ OnTheCalendar => Stamped
  <2> SUFFICES ASSUME TimeInit, OnTheCalendar PROVE Stamped
    OBVIOUS
  <2>1. days = 0 /\ moment = 1 /\ stamps = <<<<>>, format_utc_timestamp(0, Moments[1])>>
    BY SMT DEF TimeInit
  <2> QED
    BY <2>1, MomentFacts, LastDayAssumption, SMT DEF Stamped
<1>2. Stamped /\ OnTheCalendar' /\ [TimeNext]_rvars => Stamped'
  <2> SUFFICES ASSUME Stamped, OnTheCalendar', [TimeNext]_rvars PROVE Stamped'
    OBVIOUS
  <2>1. CASE UNCHANGED rvars
    BY <2>1, SMT DEF rvars, Stamped
  <2>2. IsDate(date) /\ civil_date_from_days(days) = date
    BY TodayIsADate, Zenon DEF Stamped, OnTheCalendar
  <2> DEFINE old == Spelled(Groups(date, Moments[moment]))
  <2>3. stamps[2] = old
    BY <2>2, Formatted, SMT DEF Stamped
  <2>4. moment \in 1..Len(Moments) /\ Len(Moments) \in Nat /\ IsTime(Moments[moment])
    BY MomentFacts, Zenon DEF Stamped
  <2> HIDE DEF old
  <2>5. CASE LaterToday
    <3>1. /\ moment < Len(Moments) /\ moment' = moment + 1 /\ UNCHANGED <<days, date>>
          /\ stamps' = <<stamps[2], format_utc_timestamp(days, Moments[moment + 1])>>
      BY <2>5, SMT DEF LaterToday
    <3>2. moment + 1 \in 1..Len(Moments)
      BY <2>4, <3>1, SMT
    <3>3. IsTime(Moments[moment + 1]) /\ LaterTime(Moments[moment], Moments[moment + 1])
      BY <2>4, <3>1, <3>2, MomentFacts, Zenon
    <3>4. format_utc_timestamp(days, Moments[moment + 1]) = Spelled(Groups(date, Moments[moment + 1]))
      BY <2>2, Formatted, Zenon
    <3>5. stamps[2] \in Seq(Nat) /\ Below(stamps[2], format_utc_timestamp(days, Moments[moment + 1]))
      BY <2>2, <2>3, <2>4, <3>3, <3>4, StampsBelow, Zenon DEF old
    <3> QED
      BY <3>1, <3>2, <3>5, SMT DEF Stamped
  <2>6. CASE NextDay
    <3>1. /\ days < LastDay /\ days' = days + 1 /\ moment' = 1 /\ date' = tomorrow(date)
          /\ stamps' = <<stamps[2], format_utc_timestamp(days + 1, Moments[1])>>
      BY <2>6, SMT DEF NextDay
    <3>2. days' \in Nat /\ days' <= LastDay
      BY <3>1, LastDayAssumption, SMT DEF Stamped
    <3>3. IsDate(date') /\ civil_date_from_days(days') = date'
      BY <3>2, TodayIsADate, Zenon DEF OnTheCalendar
    <3>4. format_utc_timestamp(days + 1, Moments[1]) = Spelled(Groups(date', Moments[1]))
      BY <3>1, <3>3, Formatted, SMT
    <3>5. 1 \in 1..Len(Moments) /\ IsTime(Moments[1]) /\ LaterDate(date, date')
      BY <2>2, <3>1, MomentFacts, TomorrowIsLater, Zenon
    <3>6. stamps[2] \in Seq(Nat) /\ Below(stamps[2], format_utc_timestamp(days + 1, Moments[1]))
      BY <2>2, <2>3, <2>4, <3>3, <3>4, <3>5, StampsBelow, Zenon DEF old
    <3> QED
      BY <3>1, <3>2, <3>5, <3>6, SMT DEF Stamped
  <2> QED
    BY <2>1, <2>5, <2>6, Zenon DEF TimeNext
<1> QED
  BY <1>1, <1>2, OnTheCalendarInvariant, PTL DEF TimeSpec

\* Of two request times taken one after the other the later text is greater, up to the end of
\* the year 9999: LaterStampsSortLater, for any times of day and any number of days.
THEOREM TextsSortAsTimes == TimeSpec => []LaterStampsSortLater
<1>1. Stamped => LaterStampsSortLater
  <2> SUFFICES ASSUME Stamped, stamps[1] # <<>>
               PROVE  \E k \in DOMAIN stamps[1] :
                         /\ stamps[1][k] < stamps[2][k]
                         /\ \A j \in 1..k - 1 : stamps[1][j] = stamps[2][j]
    BY Zenon DEF LaterStampsSortLater
  <2>1. stamps[1] \in Seq(Nat) /\ Below(stamps[1], stamps[2])
    BY Zenon DEF Stamped
  <2>2. DOMAIN stamps[1] = 1..Len(stamps[1])
    BY <2>1, SMT
  <2> QED
    BY <2>1, <2>2, Zenon DEF Below
<1> QED
  BY <1>1, StampedInvariant, PTL
=============================================================================
