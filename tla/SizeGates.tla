------------------------------ MODULE SizeGates ------------------------------
(***************************************************************************)
(* One configured client meeting inbound envelopes of every size: the      *)
(* length checks open performs before and after Base64 decoding, in both   *)
(* payload modes, on a usize of any width.                                 *)
(***************************************************************************)
EXTENDS EnvelopeLimits

CONSTANTS
    Limits,     \* max_plaintext_bytes values a client may be configured with
    Lengths     \* byte lengths of plaintexts to seal and of foreign ciphertexts

ASSUME SizeGatesAssumption ==
    /\ Limits \subseteq 1..UsizeMax
    /\ Lengths \subseteq 0..UsizeMax

VARIABLES
    limit,      \* the client's max_plaintext_bytes
    inbound     \* the last envelope met: its mode, size, origin and verdict

svars == <<limit, inbound>>

Modes == {"LegacyCbc", "Aead"}
Verdicts == {"decoded", "MessageTooLarge", "InvalidEnvelope"}
Foreign == -1   \* the bytes are not the output of a seal with this limit

Nothing == [mode |-> "LegacyCbc", bytes |-> 0, plaintext |-> Foreign, verdict |-> "InvalidEnvelope"]

-----------------------------------------------------------------------------

Gate(mode, bytes) ==
    IF mode = "LegacyCbc" THEN CbcGate(limit, encoded_len(bytes), bytes)
                          ELSE FrameGate(limit, encoded_len(bytes), bytes)

cipher_len(mode, n) == IF mode = "LegacyCbc" THEN cbc_cipher_len(n) ELSE frame_len(n)

-----------------------------------------------------------------------------

SizesInit ==
    /\ limit \in Limits
    /\ inbound = Nothing

\* A replacement client is built with another limit.
Configure ==
    /\ limit' \in Limits
    /\ inbound' = Nothing

\* A peer with the same limit seals a plaintext, which seal accepts, and it is opened.
OpenSealed(mode, n) ==
    /\ n <= limit
    /\ Fits(cipher_len(mode, n))
    /\ inbound' = [mode |-> mode, bytes |-> cipher_len(mode, n), plaintext |-> n,
                   verdict |-> Gate(mode, cipher_len(mode, n))]
    /\ UNCHANGED limit

\* Bytes of any size arrive.
OpenForeign(mode, n) ==
    /\ Fits(n)
    /\ inbound' = [mode |-> mode, bytes |-> n, plaintext |-> Foreign, verdict |-> Gate(mode, n)]
    /\ UNCHANGED limit

SizesNext ==
    \/ Configure
    \/ \E mode \in Modes, n \in Lengths : OpenSealed(mode, n)
    \/ \E mode \in Modes, n \in Lengths : OpenForeign(mode, n)

SizesSpec == SizesInit /\ [][SizesNext]_svars

-----------------------------------------------------------------------------

\* The limit is a nonzero usize and the verdict one of those open can reach.
SizesTypeOK ==
    /\ limit \in Limits
    /\ inbound \in [mode : Modes, bytes : Nat, plaintext : Int, verdict : Verdicts]

\* The bounds open derives from its limit (padded_cipher_len, base64_len and the
\* saturating frame bound) never turn away what seal accepted under the same limit,
\* whatever the limit, including where the arithmetic would leave usize.
SealedIsAdmitted == inbound.plaintext # Foreign => inbound.verdict = "decoded"

\* What reaches key unwrapping and decryption is bounded by the limit alone: Base64
\* rounding lets no extra byte past the AEAD gate and at most one padding block past
\* the CBC gate.
AdmittedIsBounded ==
    inbound.verdict = "decoded" =>
        inbound.bytes <= limit + (IF inbound.mode = "LegacyCbc" THEN SM4_BLOCK_BYTES
                                                               ELSE FRAME_OVERHEAD_BYTES)

\* MessageTooLarge is a statement about the limit: it is reported only for more bytes than
\* the longest plaintext within the limit turns into, padding or frame included, even where
\* the bounds saturate.
TooLargeIsTruthful ==
    inbound.verdict = "MessageTooLarge" => inbound.bytes > cipher_len(inbound.mode, limit)
=============================================================================
