--------------------------- MODULE EnvelopeProofs ---------------------------
(***************************************************************************)
(* What seal and open guarantee for any clients, keys, payloads, contexts  *)
(* and number of seals.                                                    *)
(***************************************************************************)
EXTENDS Envelope, SizeGates, CallProofs

-----------------------------------------------------------------------------

\* TypeOK is inductive: a fresh draw is larger than every draw before it.
THEOREM TypeCorrect == Spec => []TypeOK
<1>0. MaxSeals \in Nat
  BY BoundAssumption
<1>1. Init => TypeOK
  BY <1>0 DEF Init, TypeOK, Idle
<1>2. TypeOK /\ [Next]_vars => TypeOK'
  <2> SUFFICES ASSUME TypeOK, [Next]_vars PROVE TypeOK'
    OBVIOUS
  <2> USE <1>0
  <2>1. ASSUME NEW c \in Sealers, NEW p \in Payloads, NEW context \in Contexts, Seal(c, p, context)
        PROVE  TypeOK'
    <3>1. CASE seal_error(c, p, context) # "none" /\ UNCHANGED <<sealed, drawn>>
               /\ returned' = [op |-> "seal", client |-> c, result |-> seal_error(c, p, context)]
      BY <3>1 DEF TypeOK, seal_error, Results
    <3>2. CASE UNCHANGED <<sealed, drawn>>
               /\ returned' = [op |-> "seal", client |-> c, result |-> "Encryption"]
      BY <3>2 DEF TypeOK, Results
    <3>3. CASE /\ drawn < MaxSeals
               /\ drawn' = drawn + 1
               /\ sealed' = sealed \cup {[by |-> c, payload |-> p, context |-> context, draw |-> drawn + 1]}
               /\ returned' = [op |-> "seal", client |-> c, result |-> "Ok"]
      <4> DEFINE new == [by |-> c, payload |-> p, context |-> context, draw |-> drawn + 1]
      <4>1. drawn' \in 0..MaxSeals /\ new \in SealCalls /\ new.draw = drawn + 1
        BY <3>3 DEF TypeOK, SealCalls
      <4>2. sealed' \subseteq SealCalls /\ \A s \in sealed : s.draw \in Nat
        BY <3>3, <4>1 DEF TypeOK, SealCalls
      <4>3. \A s \in sealed' : s.draw <= drawn'
        BY <3>3, <4>1, <4>2 DEF TypeOK
      <4>4. \A s, t \in sealed' : s.draw = t.draw => s = t
        <5> SUFFICES ASSUME NEW s \in sealed', NEW t \in sealed', s.draw = t.draw PROVE s = t
          OBVIOUS
        <5>1. \A u \in sealed : u.draw # new.draw
          BY <4>1, <4>2 DEF TypeOK
        <5> QED
          BY <3>3, <5>1 DEF TypeOK
      <4> QED
        BY <3>3, <4>1, <4>2, <4>3, <4>4 DEF TypeOK, Results
    <3> QED
      BY <2>1, <3>1, <3>2, <3>3 DEF Seal
  <2>2. ASSUME NEW c \in Openers, NEW context \in Contexts, Open(c, context)
        PROVE  TypeOK'
    <3>1. PICK cipher, wrapped, signature, outcome :
             /\ outcome \in open(c, [cipher |-> cipher, wrapped_session_key |-> wrapped,
                                     signature |-> signature], context)
             /\ returned' = [op |-> "open", client |-> c,
                             envelope |-> [cipher |-> cipher, wrapped_session_key |-> wrapped,
                                           signature |-> signature],
                             context |-> context, outcome |-> outcome]
      BY <2>2, Zenon DEF Open
    <3>2. outcome.result \in {"Ok", "MessageTooLarge", "InvalidEnvelope"}
      BY <3>1, OpenEstablishes
    <3>3. UNCHANGED <<sealed, drawn>>
      BY <2>2 DEF Open
    <3> QED
      BY <3>1, <3>2, <3>3 DEF TypeOK
  <2>3. CASE Collect
    BY <2>3 DEF Collect, TypeOK, Idle
  <2>4. CASE UNCHANGED vars
    BY <2>4 DEF vars, TypeOK
  <2> QED
    BY <2>1, <2>2, <2>3, <2>4 DEF Next
<1> QED
  BY <1>1, <1>2, PTL DEF Spec

-----------------------------------------------------------------------------
(* Authenticity. *)

\* The carrier holds no signature of a trusted key but those that seal calls made.
LEMMA SignatureOrigin ==
    ASSUME NEW c \in Openers, NEW msg, NEW text \in Signatures,
           verify_with_id(c, msg, text.bytes)
    PROVE  \E s \in sealed : text.bytes = envelope_of(s).signature.bytes
<1>1. text.bytes.form = "signature" /\ text.bytes.by = Keys[c].remote_verification
  BY DEF verify_with_id, Signature
<1>2. Keys[c].remote_verification # StrangerKey
  BY ConfigAssumption, Zenon DEF Clients
<1>3. CASE text \in {envelope_of(s).signature : s \in sealed}
  BY <1>3
<1>4. CASE \E id, m : text = encode(Signature(StrangerKey, id, m))
  BY <1>1, <1>2, <1>4 DEF encode, Signature
<1>5. CASE text \in {encode(Noise)} \cup Junk
  BY <1>1, <1>5 DEF encode, Noise, Junk, Undecodable, None
<1> QED
  BY <1>3, <1>4, <1>5 DEF Signatures

\* What open has established suffices: some seal call authored the message.
LEMMA EstablishedWasSealed ==
    ASSUME TypeOK, NEW c \in Openers, NEW envelope, NEW context \in Contexts, NEW plaintext,
           envelope.signature \in Signatures,
           Established(c, envelope, context, plaintext)
    PROVE  [signer |-> Keys[c].remote_verification, id |-> Config[c].expected_remote_signer_id,
            scope |-> Scope(Config[c].authentication_mode, context), plaintext |-> plaintext]
           \in {MessageOf(s) : s \in sealed}
<1> DEFINE input == authentication_input(Config[c].authentication_mode, context, plaintext)
<1>1. PICK s \in sealed : envelope.signature.bytes = envelope_of(s).signature.bytes
  BY SignatureOrigin DEF Established
<1> DEFINE mode == Config[s.by].authentication_mode
           authored == authentication_input(mode, s.context, PayloadBytes(s.payload))
<1>2. Signature(Keys[s.by].local_signing, Config[s.by].local_signer_id, authored)
        = Signature(Keys[c].remote_verification, Config[c].expected_remote_signer_id, input)
  BY <1>1 DEF Established, verify_with_id, envelope_of, encode
<1> HIDE DEF input, authored
<1>3. /\ Keys[s.by].local_signing = Keys[c].remote_verification
      /\ Config[s.by].local_signer_id = Config[c].expected_remote_signer_id
      /\ authored = input
  BY <1>2 DEF Signature
<1>4. s.by \in Clients /\ c \in Clients /\ s.context \in Contexts
  BY DEF TypeOK, SealCalls, Clients
<1>5. /\ mode.kind = "LegacyPlaintext" => mode.domain_separator = ""
      /\ Config[c].authentication_mode.kind = "LegacyPlaintext"
            => Config[c].authentication_mode.domain_separator = ""
      /\ s.context.kind = "Legacy" => s.context.bytes = <<>>
      /\ context.kind = "Legacy" => context.bytes = <<>>
  BY <1>4, ConfigAssumption, ContextAssumption, Zenon DEF Configured
<1>6. /\ plaintext.form \in {"payload", "scrambled"}
      /\ input # None
  BY DEF Established, input
<1> DEFINE n == Config[c].authentication_mode
<1>7. /\ plaintext = PayloadBytes(s.payload)
      /\ Scope(mode, s.context) = Scope(n, context)
  <2>1. SameInput(mode, s.context, s.payload, n, context, plaintext)
    BY <1>3, <1>5, <1>6, Zenon DEF SameInput, input, authored
  <2> QED
    BY <2>1, InputDeterminesMessage DEF Scope
<1> QED
  BY SMTT(30), <1>3, <1>7 DEF MessageOf

\* What the caller holds after a call of open.
LEMMA OpenStep ==
    ASSUME NEW c \in Openers, NEW context \in Contexts, Open(c, context)
    PROVE  /\ UNCHANGED <<sealed, drawn>>
           /\ returned = Idle
           /\ returned'.op = "open" /\ returned'.client = c /\ returned'.context = context
           /\ returned'.envelope.cipher \in Ciphers
           /\ returned'.envelope.signature \in Signatures
           /\ returned'.outcome \in open(c, returned'.envelope, context)
<1>1. PICK cipher \in Ciphers, wrapped \in WrappedKeys, signature \in Signatures :
         LET envelope == [cipher |-> cipher, wrapped_session_key |-> wrapped,
                          signature |-> signature]
         IN  \E outcome \in open(c, envelope, context) :
                returned' = [op |-> "open", client |-> c, envelope |-> envelope,
                             context |-> context, outcome |-> outcome]
  BY Zenon DEF Open
<1> DEFINE envelope == [cipher |-> cipher, wrapped_session_key |-> wrapped, signature |-> signature]
<1>2. PICK outcome \in open(c, envelope, context) :
         returned' = [op |-> "open", client |-> c, envelope |-> envelope, context |-> context,
                      outcome |-> outcome]
  BY <1>1
<1>3. envelope.cipher = cipher /\ envelope.signature = signature
  OBVIOUS
<1> HIDE DEF envelope
<1> QED
  BY <1>2, <1>3 DEF Open

\* Only a call of open leaves a plaintext with the caller.
LEMMA OthersReleaseNothing ==
    ASSUME \/ \E c \in Sealers, p \in Payloads, context \in Contexts : Seal(c, p, context)
           \/ Collect
    PROVE  ~Released'
BY DEF Seal, Collect, Idle, Released

\* A released plaintext was sealed, at the step that releases it.
LEMMA OpenReleasesSealed ==
    ASSUME TypeOK, NEW c \in Openers, NEW context \in Contexts, Open(c, context), Released'
    PROVE  ReleasedMessage' \in {MessageOf(s) : s \in sealed}
<1> DEFINE envelope == returned'.envelope
           outcome == returned'.outcome
<1>1. /\ returned'.client = c /\ returned'.context = context
      /\ envelope.signature \in Signatures
      /\ outcome \in open(c, envelope, context)
      /\ outcome.result = "Ok"
  BY OpenStep DEF Released
<1> HIDE DEF envelope, outcome
<1>2. Established(c, envelope, context, outcome.plaintext)
  BY <1>1, OpenEstablishes
<1>3. [signer |-> Keys[c].remote_verification, id |-> Config[c].expected_remote_signer_id,
       scope |-> Scope(Config[c].authentication_mode, context), plaintext |-> outcome.plaintext]
      \in {MessageOf(s) : s \in sealed}
  BY <1>1, <1>2, EstablishedWasSealed
<1> QED
  BY <1>1, <1>3 DEF ReleasedMessage, outcome

\* Authenticity, for every number of clients, keys, payloads, contexts and seals: open
\* releases only what the trusted signing key sealed, in the receiver's own scope.
THEOREM Authenticity == Spec => []ReleasedWasSealed
<1>1. Init => ReleasedWasSealed
  BY DEF Init, Idle, Released, ReleasedWasSealed
<1>2. TypeOK /\ ReleasedWasSealed /\ [Next]_vars => ReleasedWasSealed'
  <2> SUFFICES ASSUME TypeOK, ReleasedWasSealed, [Next]_vars PROVE ReleasedWasSealed'
    OBVIOUS
  <2>1. ASSUME NEW c \in Openers, NEW context \in Contexts, Open(c, context)
        PROVE  ReleasedWasSealed'
    <3>1. sealed' = sealed
      BY <2>1, OpenStep
    <3>2. {MessageOf(s) : s \in sealed}' = {MessageOf(s) : s \in sealed}
      BY <3>1 DEF MessageOf
    <3> QED
      BY <2>1, <3>2, OpenReleasesSealed DEF ReleasedWasSealed
  <2>2. CASE UNCHANGED vars
    BY <2>2 DEF vars, ReleasedWasSealed, Released, ReleasedMessage
  <2> QED
    BY <2>1, <2>2, OthersReleaseNothing DEF Next, ReleasedWasSealed
<1> QED
  BY <1>1, <1>2, TypeCorrect, PTL DEF Spec

-----------------------------------------------------------------------------
(* Refinement. *)

AllMessages ==
    {MessageOf([by |-> c, payload |-> p, context |-> context, draw |-> StrangerDraw]) :
         c \in Sealers, p \in Payloads, context \in Contexts}

\* A message does not depend on the randomness its seal drew.
LEMMA MessageInAll ==
    ASSUME NEW s \in SealCalls
    PROVE  MessageOf(s) \in AllMessages
<1>1. s.by \in Sealers /\ s.payload \in Payloads /\ s.context \in Contexts
  BY DEF SealCalls
<1> DEFINE t == [by |-> s.by, payload |-> s.payload, context |-> s.context, draw |-> StrangerDraw]
<1>2. t.by = s.by /\ t.payload = s.payload /\ t.context = s.context
  OBVIOUS
<1>3. MessageOf(t) \in AllMessages
  BY <1>1 DEF AllMessages
<1> HIDE DEF t
<1>4. MessageOf(t) = MessageOf(s)
  BY <1>2 DEF MessageOf
<1> QED
  BY <1>3, <1>4

\* Sealing and opening implement the authentic channel: with the seal calls read as
\* authored messages and the caller's plaintext as the delivered one, every step is a
\* step of the abstract specification or leaves it unchanged.
THEOREM Refinement == Spec => ImplementsChannel
<1> DEFINE authored == {MessageOf(s) : s \in sealed}
           delivered == IF Released THEN ReleasedMessage ELSE None
<1>1. Init => Channel!Init
  BY DEF Init, Idle, Released, Channel!Init
<1>2. TypeOK /\ [Next]_vars => [Channel!Next]_(Channel!cvars)
  <2> SUFFICES ASSUME TypeOK, [Next]_vars PROVE [Channel!Next]_(Channel!cvars)
    OBVIOUS
  <2>1. ASSUME NEW c \in Sealers, NEW p \in Payloads, NEW context \in Contexts, Seal(c, p, context)
        PROVE  [Channel!Next]_(Channel!cvars)
    <3>1. delivered = None /\ delivered' = None
      BY <2>1, OthersReleaseNothing DEF Seal, Idle, Released
    <3>2. CASE sealed' = sealed
      <4>1. authored' = authored
        BY <3>2 DEF MessageOf
      <4> QED
        BY <3>1, <4>1 DEF Channel!cvars
    <3>3. CASE sealed' # sealed
      <4> DEFINE new == [by |-> c, payload |-> p, context |-> context, draw |-> drawn + 1]
      <4>1. sealed' = sealed \cup {new} /\ drawn < MaxSeals
        BY <2>1, <3>3 DEF Seal
      <4>2. new \in SealCalls
        <5>1. MaxSeals \in Nat
          BY BoundAssumption
        <5> QED
          BY <4>1, <5>1 DEF TypeOK, SealCalls
      <4>3. authored' = authored \cup {MessageOf(new)}
        BY <4>1, Zenon DEF MessageOf
      <4>4. MessageOf(new) \in AllMessages
        BY <4>2, MessageInAll
      <4> HIDE DEF new
      <4>5. Channel!Author(MessageOf(new))
        BY <3>1, <4>3 DEF Channel!Author
      <4> QED
        BY <4>4, <4>5 DEF Channel!Next, AllMessages
    <3> QED
      BY <3>2, <3>3
  <2>2. ASSUME NEW c \in Openers, NEW context \in Contexts, Open(c, context)
        PROVE  [Channel!Next]_(Channel!cvars)
    <3>1. sealed' = sealed /\ delivered = None
      BY <2>2, OpenStep DEF Released, Idle
    <3>2. authored' = authored
      BY <3>1 DEF MessageOf
    <3>3. CASE Released'
      <4>1. ReleasedMessage' \in authored
        BY <2>2, <3>3, OpenReleasesSealed
      <4>2. ReleasedMessage' \in AllMessages
        BY <4>1, MessageInAll DEF TypeOK
      <4>3. delivered' = ReleasedMessage'
        BY <3>3
      <4>4. Channel!Deliver(ReleasedMessage')
        BY <3>2, <4>1, <4>3 DEF Channel!Deliver
      <4> QED
        BY <4>2, <4>4 DEF Channel!Next, AllMessages
    <3>4. CASE ~Released'
      BY <3>1, <3>2, <3>4 DEF Channel!cvars
    <3> QED
      BY <3>3, <3>4
  <2>3. CASE Collect
    <3>1. authored' = authored
      BY <2>3 DEF Collect, MessageOf
    <3>2. delivered' = None
      BY <2>3, OthersReleaseNothing
    <3> QED
      BY <3>1, <3>2 DEF Channel!Withhold, Channel!Next
  <2>4. CASE UNCHANGED vars
    BY <2>4 DEF vars, MessageOf, Released, ReleasedMessage, Channel!cvars
  <2> QED
    BY <2>1, <2>2, <2>3, <2>4 DEF Next
<1> QED
  BY <1>1, <1>2, TypeCorrect, PTL DEF Spec, ImplementsChannel, Channel!Spec

-----------------------------------------------------------------------------
(* What is released fits the limit and was encrypted in the receiver's mode. *)

\* Every frame the carrier holds is a frame of some application payload.
LEMMA CarriedFrames ==
    ASSUME TypeOK, NEW text \in Ciphers, text.bytes.form = "frame"
    PROVE  PayloadLen[text.bytes.payload] \in Nat
<1>1. ASSUME NEW c, NEW draw, NEW context, NEW p \in Payloads,
             encrypt(c, draw, context, p).form = "frame"
      PROVE  encrypt(c, draw, context, p).payload \in Payloads
  BY <1>1 DEF encrypt, aead_encrypt, Cbc
<1>2. ASSUME NEW t \in SealedCiphers, t.bytes.form = "frame"
      PROVE  t.bytes.payload \in Payloads
  <2>1. PICK s \in sealed : t = envelope_of(s).cipher
    BY DEF SealedCiphers
  <2>2. t.bytes = encrypt(s.by, s.draw, s.context, s.payload)
    BY <2>1 DEF envelope_of, encode
  <2>3. s.payload \in Payloads
    BY DEF TypeOK, SealCalls
  <2> QED
    BY <1>1, <1>2, <2>2, <2>3
<1>3. ASSUME NEW t \in SealedCiphers, NEW c \in Openers,
             text = encode(reheadered(t.bytes, Config[c].envelope_mode))
      PROVE  text.bytes.payload \in Payloads
  <2>1. text.bytes = reheadered(t.bytes, Config[c].envelope_mode)
    BY <1>3 DEF encode
  <2>2. t.bytes.form = "frame" /\ text.bytes.payload = t.bytes.payload
    BY <2>1 DEF reheadered
  <2> QED
    BY <1>2, <2>2
<1>4. ~\E p \in Payloads : text = encode(PayloadBytes(p))
  <2> SUFFICES ASSUME NEW p \in Payloads, text = encode(PayloadBytes(p)) PROVE FALSE
    OBVIOUS
  <2>1. text.bytes = PayloadBytes(p)
    BY DEF encode
  <2> QED
    BY <2>1 DEF PayloadBytes
<1>5. ~(text \in Junk)
  BY DEF Junk, Undecodable, None
<1>6. ASSUME NEW c \in Openers, NEW context \in Contexts,
             text = encode(encrypt(c, StrangerDraw, context, EmptyPayload))
      PROVE  text.bytes.payload \in Payloads
  <2>1. text.bytes = encrypt(c, StrangerDraw, context, EmptyPayload)
    BY <1>6 DEF encode
  <2> QED
    BY <1>1, <2>1, PayloadAssumption
<1>7. text.bytes.payload \in Payloads
  BY <1>2, <1>3, <1>4, <1>6, <1>5 DEF Ciphers
<1> QED
  BY <1>7, PayloadAssumption

\* At the step that releases it: a plaintext within the limit, decrypted in the own mode.
LEMMA OpenDecrypts ==
    ASSUME TypeOK, NEW c \in Openers, NEW context \in Contexts, Open(c, context), Released'
    PROVE  /\ byte_len(returned'.outcome.plaintext) <= Config[c].max_plaintext_bytes
           /\ Decrypted(c, returned'.envelope, context, returned'.outcome.plaintext)
<1> DEFINE envelope == returned'.envelope
           outcome == returned'.outcome
<1>1. /\ envelope.cipher \in Ciphers
      /\ outcome \in open(c, envelope, context)
      /\ outcome.result = "Ok"
  BY OpenStep DEF Released
<1>2. envelope.cipher.bytes.form = "frame" => PayloadLen[envelope.cipher.bytes.payload] \in Nat
  BY <1>1, CarriedFrames
<1> HIDE DEF envelope, outcome
<1>3. CASE is_aead(c)
  BY <1>1, <1>2, <1>3, AeadDecrypts, ConfigAssumption DEF Clients, open, envelope, outcome
<1>4. CASE ~is_aead(c)
  BY <1>1, <1>4, CbcDecrypts DEF open, envelope, outcome
<1> QED
  BY <1>3, <1>4

\* No plaintext above the configured limit is released, in any mode.
THEOREM WithinLimit == Spec => []ReleasedWithinLimit
<1>1. Init => ReleasedWithinLimit
  BY DEF Init, Idle, Released, ReleasedWithinLimit
<1>2. TypeOK /\ ReleasedWithinLimit /\ [Next]_vars => ReleasedWithinLimit'
  <2> SUFFICES ASSUME TypeOK, ReleasedWithinLimit, [Next]_vars PROVE ReleasedWithinLimit'
    OBVIOUS
  <2>1. ASSUME NEW c \in Openers, NEW context \in Contexts, Open(c, context)
        PROVE  ReleasedWithinLimit'
    BY <2>1, OpenDecrypts, OpenStep DEF ReleasedWithinLimit, byte_len
  <2>2. CASE UNCHANGED vars
    BY <2>2 DEF vars, ReleasedWithinLimit, Released, byte_len
  <2> QED
    BY <2>1, <2>2, OthersReleaseNothing DEF Next, ReleasedWithinLimit
<1> QED
  BY <1>1, <1>2, TypeCorrect, PTL DEF Spec

\* No negotiation and no fallback: whatever arrives, a client releases only decryptions
\* of ciphertexts of its own pinned mode and algorithm.  In CBC mode, where garbage can
\* decrypt to garbage, this rests on authenticity.
THEOREM PinnedMode == Spec => []ModePinned
<1>1. Init => ModePinned
  BY DEF Init, Idle, Released, ModePinned
<1>2. TypeOK /\ ModePinned /\ [Next]_vars => ModePinned'
  <2> SUFFICES ASSUME TypeOK, ModePinned, [Next]_vars PROVE ModePinned'
    OBVIOUS
  <2>1. ASSUME NEW c \in Openers, NEW context \in Contexts, Open(c, context), Released'
        PROVE  ModePinned'
    <3>1. PICK s \in sealed : ReleasedMessage' = MessageOf(s)
      BY <2>1, OpenReleasesSealed
    <3>2. returned'.outcome.plaintext = PayloadBytes(s.payload)
      BY <3>1 DEF ReleasedMessage, MessageOf
    <3>3. returned'.outcome.plaintext.form # "scrambled"
      BY <3>2 DEF PayloadBytes
    <3>4. Decrypted(c, returned'.envelope, context, returned'.outcome.plaintext)
      BY <2>1, OpenDecrypts
    <3>5. returned'.client = c
      BY <2>1, OpenStep
    <3> QED
      BY <3>3, <3>4, <3>5 DEF ModePinned, Decrypted, is_aead, PayloadBytes
  <2>2. CASE UNCHANGED vars
    BY <2>2 DEF vars, ModePinned, Released, is_aead
  <2>3. CASE ~Released'
    BY <2>3 DEF ModePinned
  <2> QED
    BY <2>1, <2>2, <2>3, OthersReleaseNothing DEF Next
<1> QED
  BY <1>1, <1>2, TypeCorrect, PTL DEF Spec

\* The AAD ties an AEAD frame to the header, domain and context it was made with.
THEOREM FrameBinding == Spec => []FrameBoundToContext
<1>1. Init => FrameBoundToContext
  BY DEF Init, Idle, Released, FrameBoundToContext
<1>2. TypeOK /\ FrameBoundToContext /\ [Next]_vars => FrameBoundToContext'
  <2> SUFFICES ASSUME TypeOK, FrameBoundToContext, [Next]_vars PROVE FrameBoundToContext'
    OBVIOUS
  <2>1. ASSUME NEW c \in Openers, NEW context \in Contexts, Open(c, context), Released'
        PROVE  FrameBoundToContext'
    <3>1. Decrypted(c, returned'.envelope, context, returned'.outcome.plaintext)
      BY <2>1, OpenDecrypts
    <3>2. returned'.client = c /\ returned'.context = context
      BY <2>1, OpenStep
    <3> QED
      BY <3>1, <3>2 DEF FrameBoundToContext, Decrypted, is_aead, aead_aad, None, kinds_match
  <2>2. CASE UNCHANGED vars
    BY <2>2 DEF vars, FrameBoundToContext, Released, is_aead, aead_aad, None, kinds_match
  <2>3. CASE ~Released'
    BY <2>3 DEF FrameBoundToContext
  <2> QED
    BY <2>1, <2>2, <2>3, OthersReleaseNothing DEF Next
<1> QED
  BY <1>1, <1>2, TypeCorrect, PTL DEF Spec

-----------------------------------------------------------------------------
(* Round trip. *)

\* Every recorded call passed the checks of seal.
SealsAccepted == \A s \in sealed : seal_error(s.by, s.payload, s.context) = "none"

\* It is an invariant: only accepted calls are recorded, and configurations never change.
LEMMA SealsAcceptedInvariant == Spec => []SealsAccepted
<1>1. Init => SealsAccepted
  BY DEF Init, SealsAccepted
<1>2. SealsAccepted /\ [Next]_vars => SealsAccepted'
  <2> SUFFICES ASSUME SealsAccepted, [Next]_vars PROVE SealsAccepted'
    OBVIOUS
  <2>1. ASSUME NEW c \in Sealers, NEW p \in Payloads, NEW context \in Contexts, Seal(c, p, context)
        PROVE  SealsAccepted'
    <3>1. CASE sealed' = sealed
      BY <3>1 DEF SealsAccepted, seal_error, kinds_match
    <3>2. CASE /\ seal_error(c, p, context) = "none"
               /\ sealed' = sealed \cup {[by |-> c, payload |-> p, context |-> context, draw |-> drawn + 1]}
      BY <3>2 DEF SealsAccepted, seal_error, kinds_match
    <3> QED
      BY <2>1, <3>1, <3>2 DEF Seal
  <2>2. CASE sealed' = sealed
    BY <2>2 DEF SealsAccepted, seal_error, kinds_match
  <2> QED
    BY <2>1, <2>2, OpenStep DEF Next, Collect, vars
<1> QED
  BY <1>1, <1>2, PTL DEF Spec

\* For every configuration, an envelope delivered as it was sealed, to a client that
\* agrees with its sealer and in the same context, yields its plaintext: no bound on a
\* length, no saturation and no other traffic gets in the way.
THEOREM RoundTripHolds == Spec => []RoundTrip
<1>1. Init => RoundTrip
  BY DEF Init, RoundTrip
<1>2. TypeOK /\ SealsAccepted /\ RoundTrip /\ [Next]_vars => RoundTrip'
  <2> SUFFICES ASSUME TypeOK, SealsAccepted, RoundTrip, [Next]_vars PROVE RoundTrip'
    OBVIOUS
  <2>1. ASSUME NEW c \in Openers, NEW context \in Contexts, Open(c, context)
        PROVE  RoundTrip'
    <3> DEFINE r == returned'
    <3>1. sealed' = sealed /\ r.client = c /\ r.context = context
          /\ r.outcome \in open(c, r.envelope, context)
      BY <2>1, OpenStep
    <3> SUFFICES ASSUME NEW s \in sealed, r.envelope = envelope_of(s), r.context = s.context,
                        SealedFor(s, r.client)
                 PROVE  r.outcome.result = "Ok" /\ r.outcome.plaintext = PayloadBytes(s.payload)
      BY <3>1, Zenon DEF RoundTrip, envelope_of, SealedFor, PayloadBytes, encode
    <3>2. SealedFor(s, c) /\ r.outcome \in open(c, envelope_of(s), s.context)
      BY <3>1
    <3>3. Accepted(s)
      BY DEF TypeOK, SealCalls, SealsAccepted, Accepted
    <3>4. Configured(c)
      BY SMTT(30), ConfigAssumption DEF Clients
    <3> QED
      BY <3>2, <3>3, <3>4, CbcRoundTrip, AeadRoundTrip DEF open
  <2>2. CASE UNCHANGED vars
    BY <2>2 DEF vars, RoundTrip, envelope_of, SealedFor, PayloadBytes
  <2>3. CASE returned'.op # "open"
    BY <2>3 DEF RoundTrip
  <2>4. ASSUME NEW c \in Sealers, NEW p \in Payloads, NEW context \in Contexts, Seal(c, p, context)
        PROVE  returned'.op # "open"
    BY <2>4 DEF Seal
  <2>5. ASSUME Collect
        PROVE  returned'.op # "open"
    BY <2>5 DEF Collect, Idle
  <2> QED
    BY <2>1, <2>2, <2>3, <2>4, <2>5 DEF Next
<1> QED
  BY <1>1, <1>2, TypeCorrect, SealsAcceptedInvariant, PTL DEF Spec

-----------------------------------------------------------------------------

\* Once a CBC call has unwrapped its session key, all its failures look alike and cost
\* the one SM2 verification that a success costs (cbc::open, lines 150-168).
THEOREM FailuresAlike == Spec => []FailuresAlikeAfterUnwrap
<1>1. Init => FailuresAlikeAfterUnwrap
  BY DEF Init, Idle, FailuresAlikeAfterUnwrap
<1>2. FailuresAlikeAfterUnwrap /\ [Next]_vars => FailuresAlikeAfterUnwrap'
  <2> SUFFICES ASSUME FailuresAlikeAfterUnwrap, [Next]_vars PROVE FailuresAlikeAfterUnwrap'
    OBVIOUS
  <2>1. ASSUME NEW c \in Sealers, NEW p \in Payloads, NEW context \in Contexts, Seal(c, p, context)
        PROVE  FailuresAlikeAfterUnwrap'
    BY <2>1 DEF Seal, FailuresAlikeAfterUnwrap
  <2>2. ASSUME NEW c \in Openers, NEW context \in Contexts, Open(c, context)
        PROVE  FailuresAlikeAfterUnwrap'
    <3>1. /\ returned'.client = c
          /\ returned'.outcome \in open(c, returned'.envelope, context)
      BY <2>2, OpenStep
    <3>2. ~is_aead(c) => returned'.outcome \in cbc_open(c, returned'.envelope, context)
      BY <3>1 DEF open
    <3> QED
      BY <3>1, <3>2, CbcVerifiesOnce DEF FailuresAlikeAfterUnwrap, is_aead
  <2>3. CASE Collect
    BY <2>3 DEF Collect, Idle, FailuresAlikeAfterUnwrap
  <2>4. CASE UNCHANGED vars
    BY <2>4 DEF vars, FailuresAlikeAfterUnwrap, is_aead
  <2> QED
    BY <2>1, <2>2, <2>3, <2>4 DEF Next
<1> QED
  BY <1>1, <1>2, PTL DEF Spec

-----------------------------------------------------------------------------
(* The size checks of open, for a usize of any width and any limit and length. *)

\* What seal accepted under a limit, open admits under the same limit, on every target.
THEOREM SealedAdmitted == SizesSpec => []SealedIsAdmitted
<1>1. SizesInit => SealedIsAdmitted
  BY DEF SizesInit, Nothing, SealedIsAdmitted, Foreign
<1>2. limit \in Limits /\ SealedIsAdmitted /\ [SizesNext]_svars
        => (limit \in Limits)' /\ SealedIsAdmitted'
  <2> SUFFICES ASSUME limit \in Limits, SealedIsAdmitted, [SizesNext]_svars
               PROVE  (limit \in Limits)' /\ SealedIsAdmitted'
    OBVIOUS
  <2>1. CASE Configure
    BY <2>1 DEF Configure, Nothing, SealedIsAdmitted, Foreign
  <2>2. ASSUME NEW mode \in Modes, NEW n \in Lengths, OpenSealed(mode, n)
        PROVE  (limit \in Limits)' /\ SealedIsAdmitted'
    <3>1. n \in Nat /\ limit \in 1..UsizeMax /\ n <= limit
      BY <2>2, SizeGatesAssumption DEF OpenSealed
    <3>2. Gate(mode, cipher_len(mode, n)) = "decoded"
      BY <2>2, <3>1, CbcAdmits, FrameAdmits DEF OpenSealed, Gate, cipher_len, Modes
    <3> QED
      BY <2>2, <3>2 DEF OpenSealed, SealedIsAdmitted
  <2>3. ASSUME NEW mode \in Modes, NEW n \in Lengths, OpenForeign(mode, n)
        PROVE  (limit \in Limits)' /\ SealedIsAdmitted'
    BY <2>3 DEF OpenForeign, SealedIsAdmitted
  <2>4. CASE UNCHANGED svars
    BY <2>4 DEF svars, SealedIsAdmitted
  <2> QED
    BY <2>1, <2>2, <2>3, <2>4 DEF SizesNext
<1>3. SizesInit => limit \in Limits
  BY DEF SizesInit
<1> QED
  BY <1>1, <1>2, <1>3, PTL DEF SizesSpec

\* What the two bounds on a single inbound cipher text come to, in every state.
LEMMA GatesSound == SizesSpec => [](AdmittedIsBounded /\ TooLargeIsTruthful)
<1> DEFINE Inv == limit \in Limits /\ AdmittedIsBounded /\ TooLargeIsTruthful
<1>1. SizesInit => Inv
  BY DEF SizesInit, Nothing, AdmittedIsBounded, TooLargeIsTruthful
<1>2. Inv /\ [SizesNext]_svars => Inv'
  <2> SUFFICES ASSUME Inv, [SizesNext]_svars PROVE Inv'
    OBVIOUS
  <2>1. CASE Configure
    BY <2>1 DEF Configure, Nothing, AdmittedIsBounded, TooLargeIsTruthful
  <2>2. ASSUME NEW mode \in Modes, NEW bytes \in Nat, Fits(bytes), limit' = limit,
               inbound'.mode = mode, inbound'.bytes = bytes, inbound'.verdict = Gate(mode, bytes)
        PROVE  Inv'
    <3>1. limit \in 1..UsizeMax
      BY SizeGatesAssumption
    <3>2. CASE mode = "LegacyCbc"
      BY <2>2, <3>1, <3>2, CbcBounds DEF Gate, cipher_len, AdmittedIsBounded, TooLargeIsTruthful
    <3>3. CASE mode = "Aead"
      BY <2>2, <3>1, <3>3, FrameBounds DEF Gate, cipher_len, AdmittedIsBounded, TooLargeIsTruthful
    <3> QED
      BY <2>2, <3>2, <3>3 DEF Modes
  <2>3. ASSUME NEW mode \in Modes, NEW n \in Lengths, OpenSealed(mode, n)
        PROVE  Inv'
    <3>1. n \in Nat
      BY SizeGatesAssumption
    <3>2. cipher_len(mode, n) \in Nat
      BY <3>1 DEF cipher_len, cbc_cipher_len, frame_len, SM4_BLOCK_BYTES, FRAME_OVERHEAD_BYTES
    <3> QED
      BY <2>2, <2>3, <3>2 DEF OpenSealed
  <2>4. ASSUME NEW mode \in Modes, NEW n \in Lengths, OpenForeign(mode, n)
        PROVE  Inv'
    <3>1. n \in Nat
      BY SizeGatesAssumption
    <3> QED
      BY <2>2, <2>4, <3>1 DEF OpenForeign
  <2>5. CASE UNCHANGED svars
    BY <2>5 DEF svars, AdmittedIsBounded, TooLargeIsTruthful
  <2> QED
    BY <2>1, <2>3, <2>4, <2>5 DEF SizesNext
<1> QED
  BY <1>1, <1>2, PTL DEF SizesSpec

\* No more bytes than the limit justifies reach key unwrapping and decryption.
THEOREM AdmissionSound == SizesSpec => []AdmittedIsBounded
  BY GatesSound, PTL

\* MessageTooLarge is reported only for more bytes than the longest plaintext within the
\* limit turns into, padding or frame included.
THEOREM TooLargeTruthful == SizesSpec => []TooLargeIsTruthful
  BY GatesSound, PTL

\* The limit stays a nonzero usize and every verdict is one that the checks can reach.
THEOREM GatesTyped == SizesSpec => []SizesTypeOK
<1>1. SizesInit => SizesTypeOK
  BY DEF SizesInit, Nothing, SizesTypeOK, Foreign, Modes, Verdicts
<1>2. SizesTypeOK /\ [SizesNext]_svars => SizesTypeOK'
  <2> SUFFICES ASSUME SizesTypeOK, [SizesNext]_svars PROVE SizesTypeOK'
    OBVIOUS
  <2>1. CASE Configure
    BY <2>1 DEF Configure, Nothing, SizesTypeOK, Foreign, Modes, Verdicts
  <2>2. ASSUME NEW mode \in Modes, NEW n \in Lengths
        PROVE  n \in Nat /\ cipher_len(mode, n) \in Nat
    BY SizeGatesAssumption
       DEF cipher_len, cbc_cipher_len, frame_len, SM4_BLOCK_BYTES, FRAME_OVERHEAD_BYTES
  <2>3. ASSUME NEW mode, NEW bytes PROVE Gate(mode, bytes) \in Verdicts
    BY DEF Gate, CbcGate, FrameGate, Verdicts
  <2>4. ASSUME NEW mode \in Modes, NEW n \in Lengths, OpenSealed(mode, n) PROVE SizesTypeOK'
    BY <2>2, <2>3, <2>4 DEF OpenSealed, SizesTypeOK
  <2>5. ASSUME NEW mode \in Modes, NEW n \in Lengths, OpenForeign(mode, n) PROVE SizesTypeOK'
    BY <2>2, <2>3, <2>5 DEF OpenForeign, SizesTypeOK, Foreign
  <2>6. CASE UNCHANGED svars
    BY <2>6 DEF svars, SizesTypeOK
  <2> QED
    BY <2>1, <2>4, <2>5, <2>6 DEF SizesNext
<1> QED
  BY <1>1, <1>2, PTL DEF SizesSpec
=============================================================================
