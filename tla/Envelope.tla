------------------------------ MODULE Envelope ------------------------------
(***************************************************************************)
(* SecureClient::seal and SecureClient::open over a carrier that may lose, *)
(* replay, damage and recombine envelope fields, for any number of         *)
(* clients.                                                                *)
(***************************************************************************)
EXTENDS EnvelopeCrypto

CONSTANTS
    Sealers,        \* clients that seal
    Openers,        \* clients that open
    StrangerKey,    \* a signing key that belongs to no configured peer
    Contexts,       \* AuthenticationContext values callers pass
    MaxSeals        \* bound: successful seals

Clients == Sealers \cup Openers

ASSUME BoundAssumption == MaxSeals \in Nat

\* No client trusts the stranger's key.
ASSUME ConfigAssumption ==
    \A c \in Clients : Configured(c) /\ Keys[c].remote_verification # StrangerKey

\* AuthenticationContext::legacy carries no bytes, ::context_bound never empty ones.
ASSUME ContextAssumption ==
    \A context \in Contexts :
        \/ context.kind = "Legacy" /\ context.bytes = <<>>
        \/ context.kind = "Bound" /\ context.bytes # <<>>

VARIABLES
    sealed,     \* the successful seal calls, each with the randomness it drew
    drawn,      \* session keys (with their nonces) drawn so far
    returned    \* the call whose Result the caller holds

vars == <<sealed, drawn, returned>>

-----------------------------------------------------------------------------
(* The carrier: every field may come from another envelope, from the carrier itself, *)
(* from a stranger who knows the public keys, or be damaged.                          *)

StrangerDraw == 0   \* a session key and nonce no seal drew

Junk == {Undecodable(4), Undecodable(MAX_AUXILIARY_BASE64_BYTES + 4)}

reheadered(b, algorithm) ==
    IF b.form = "frame"
      THEN [form |-> "frame", payload |-> b.payload, body |-> b.body,
            header |-> [version |-> b.header.version, algorithm |-> algorithm, nonce |-> b.header.nonce]]
      ELSE b

SealedCiphers == {envelope_of(s).cipher : s \in sealed}

Ciphers ==
    SealedCiphers
    \cup {encode(reheadered(text.bytes, Config[c].envelope_mode)) : text \in SealedCiphers, c \in Openers}
    \cup {encode(PayloadBytes(p)) : p \in Payloads}
    \cup {encode(encrypt(c, StrangerDraw, context, EmptyPayload)) :
              c \in Openers, context \in Contexts}
    \cup Junk

WrappedKeys ==
    {envelope_of(s).wrapped_session_key : s \in sealed}
    \cup {encode(Wrap(Keys[c].local_decryption, StrangerDraw, n)) :
              c \in Openers, n \in {SESSION_KEY_BYTES - 1, SESSION_KEY_BYTES}}
    \cup {encode(Noise)} \cup Junk

Signatures ==
    {envelope_of(s).signature : s \in sealed}
    \cup {encode(Signature(StrangerKey, Config[c].expected_remote_signer_id,
                     authentication_input(Config[c].authentication_mode, context,
                                          PayloadBytes(EmptyPayload)))) :
              c \in Openers, context \in Contexts}
    \cup {encode(Noise)} \cup Junk

-----------------------------------------------------------------------------

Idle == [op |-> "none"]

Init ==
    /\ sealed = {}
    /\ drawn = 0
    /\ returned = Idle

\* Plausible slip: the first session key is kept and used again.
Seal_cached_key(c, p, context) ==
    /\ returned = Idle
    /\ seal_error(c, p, context) = "none"
    /\ drawn' = 1
    /\ sealed' = sealed \cup {[by |-> c, payload |-> p, context |-> context, draw |-> 1]}
    /\ returned' = [op |-> "seal", client |-> c, result |-> "Ok"]

\* One call of SecureClient::seal.  Drawing randomness, wrapping or signing may fail.
Seal(c, p, context) ==
    /\ returned = Idle
    /\ \/ /\ seal_error(c, p, context) # "none"
          /\ returned' = [op |-> "seal", client |-> c, result |-> seal_error(c, p, context)]
          /\ UNCHANGED <<sealed, drawn>>
       \/ /\ seal_error(c, p, context) = "none"
          /\ returned' = [op |-> "seal", client |-> c, result |-> "Encryption"]
          /\ UNCHANGED <<sealed, drawn>>
       \/ /\ seal_error(c, p, context) = "none"
          /\ drawn < MaxSeals
          /\ drawn' = drawn + 1
          /\ sealed' = sealed \cup {[by |-> c, payload |-> p, context |-> context, draw |-> drawn + 1]}
          /\ returned' = [op |-> "seal", client |-> c, result |-> "Ok"]

\* One call of SecureClient::open with whatever the carrier hands over.
Open(c, context) ==
    /\ returned = Idle
    /\ \E cipher \in Ciphers, wrapped \in WrappedKeys, signature \in Signatures :
          LET envelope == [cipher |-> cipher, wrapped_session_key |-> wrapped,
                           signature |-> signature]
          IN  \E outcome \in open(c, envelope, context) :
                 returned' = [op |-> "open", client |-> c, envelope |-> envelope,
                              context |-> context, outcome |-> outcome]
    /\ UNCHANGED <<sealed, drawn>>

\* The caller takes the Result and goes on to its next call.
Collect ==
    /\ returned # Idle
    /\ returned' = Idle
    /\ UNCHANGED <<sealed, drawn>>

Next ==
    \/ \E c \in Sealers, p \in Payloads, context \in Contexts : Seal(c, p, context)
    \/ \E c \in Openers, context \in Contexts : Open(c, context)
    \/ Collect

Spec == Init /\ [][Next]_vars

-----------------------------------------------------------------------------
(* Properties. *)

SealCalls == [by : Sealers, payload : Payloads, context : Contexts, draw : 1..MaxSeals]

Results == {"Ok", "MessageTooLarge", "InvalidEnvelope", "AuthenticationContext", "Encryption"}

\* Session keys are drawn in order and each belongs to at most one seal call, seal never
\* reports InvalidEnvelope, and open reports nothing but Ok, MessageTooLarge and
\* InvalidEnvelope: a context of the wrong kind is folded into InvalidEnvelope.
TypeOK ==
    /\ drawn \in 0..MaxSeals
    /\ sealed \subseteq SealCalls
    /\ \A s \in sealed : s.draw <= drawn
    /\ \A s, t \in sealed : s.draw = t.draw => s = t
    /\ returned.op \in {"none", "seal", "open"}
    /\ returned.op = "seal" =>
          /\ returned.client \in Sealers
          /\ returned.result \in Results \ {"InvalidEnvelope"}
    /\ returned.op = "open" =>
          /\ returned.client \in Openers
          /\ returned.context \in Contexts
          /\ returned.outcome.result \in {"Ok", "MessageTooLarge", "InvalidEnvelope"}

Released == returned.op = "open" /\ returned.outcome.result = "Ok"

\* What a signature covers besides the plaintext.
Scope(mode, context) ==
    [kind |-> mode.kind, domain |-> mode.domain_separator, context |-> context.bytes]

MessageOf(s) ==
    [signer |-> Keys[s.by].local_signing, id |-> Config[s.by].local_signer_id,
     scope |-> Scope(Config[s.by].authentication_mode, s.context),
     plaintext |-> PayloadBytes(s.payload)]

ReleasedMessage ==
    LET c == returned.client
    IN  [signer |-> Keys[c].remote_verification, id |-> Config[c].expected_remote_signer_id,
         scope |-> Scope(Config[c].authentication_mode, returned.context),
         plaintext |-> returned.outcome.plaintext]

\* open releases a plaintext only if the holder of the configured peer signing key sealed
\* exactly that plaintext, under the expected signer id, the same authentication mode,
\* domain separator and protocol context, however the carrier recombined the fields.
ReleasedWasSealed == Released => ReleasedMessage \in {MessageOf(s) : s \in sealed}

\* No plaintext longer than the configured limit is released, although CBC padding lets
\* ciphertexts of longer plaintexts through the size checks made before decryption.
ReleasedWithinLimit ==
    Released => byte_len(returned.outcome.plaintext) <= Config[returned.client].max_plaintext_bytes

\* The mode is pinned by the configuration and never inferred from the incoming bytes:
\* what is released is the decryption of a ciphertext made in the receiver's own mode,
\* never bytes of another mode, another algorithm, another IV or in the clear.
ModePinned ==
    Released =>
        LET c == returned.client
            b == returned.envelope.cipher.bytes
        IN  /\ b.form \in {"cbc", "frame"}
            /\ returned.outcome.plaintext = PayloadBytes(b.payload)
            /\ IF is_aead(c) THEN b.form = "frame" /\ b.header.algorithm = Config[c].envelope_mode
                                                 /\ b.body.algorithm = Config[c].envelope_mode
                             ELSE b.form = "cbc" /\ b.iv = Config[c].iv

\* An AEAD frame opens only in the domain and context it was encrypted for and under the
\* header it was encrypted with, even beside a valid signature of the same plaintext in
\* the receiver's context.
FrameBoundToContext ==
    Released /\ is_aead(returned.client) =>
        LET b == returned.envelope.cipher.bytes
        IN  b.body.aad = aead_aad(Config[returned.client].authentication_mode,
                                  returned.context, b.header)

\* An envelope that arrives as it was sealed is opened by every client that agrees with
\* its sealer and is given the same context, whatever else was sealed in between.
RoundTrip ==
    returned.op = "open" =>
        \A s \in sealed :
            /\ returned.envelope = envelope_of(s)
            /\ returned.context = s.context
            /\ SealedFor(s, returned.client)
            => /\ returned.outcome.result = "Ok"
               /\ returned.outcome.plaintext = PayloadBytes(s.payload)

\* Every CBC envelope whose session key unwraps costs exactly one SM2 verification and,
\* unless accepted, reports the same error: failures of padding, length, context and
\* signature are alike.
FailuresAlikeAfterUnwrap ==
    returned.op = "open" /\ ~is_aead(returned.client) /\ returned.outcome.unwrapped =>
        /\ returned.outcome.verifies = 1
        /\ returned.outcome.result \in {"Ok", "InvalidEnvelope"}

\* The comment on verify_transcript: open runs exactly one SM2 verification per call,
\* regardless of which validation step failed.
OneVerificationPerCall ==
    returned.op = "open" /\ ~is_aead(returned.client) => returned.outcome.verifies = 1

\* The abstract channel: authored and delivered as the envelope's callers see them.
Channel == INSTANCE AuthenticChannel WITH
    Messages <- {MessageOf([by |-> c, payload |-> p, context |-> context, draw |-> StrangerDraw]) :
                     c \in Sealers, p \in Payloads, context \in Contexts},
    Nothing <- None,
    authored <- {MessageOf(s) : s \in sealed},
    delivered <- IF Released THEN ReleasedMessage ELSE None

\* Sealing and opening implement the authentic channel: each step authors, delivers an
\* authored message, withholds, or leaves the channel as it is.
ImplementsChannel == Channel!Spec
=============================================================================
