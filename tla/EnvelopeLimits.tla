--------------------------- MODULE EnvelopeLimits ---------------------------
(***************************************************************************)
(* The byte-length arithmetic that decides which inbound envelopes are     *)
(* small enough to be decoded (src/envelope_crypto).  Every quantity is a  *)
(* usize: checked operations that overflow saturate to usize::MAX.         *)
(***************************************************************************)
EXTENDS Integers

CONSTANT UsizeMax   \* usize::MAX of the target

U16_MAX == 65535

\* Rust guarantees a usize of at least 16 bits.
ASSUME UsizeMaxAssumption == UsizeMax \in Nat /\ UsizeMax >= U16_MAX

SM4_BLOCK_BYTES == 16
SESSION_KEY_BYTES == 16
FRAME_OVERHEAD_BYTES == 30
MAX_AUXILIARY_BASE64_BYTES == 16 * 1024

\* No allocation, hence no slice or String, is longer than isize::MAX bytes.
IsizeMax == UsizeMax \div 2

-----------------------------------------------------------------------------
(* What the two payload modes and the base64 crate put on the wire. *)

\* PKCS#7 always adds between one and SM4_BLOCK_BYTES bytes.
cbc_cipher_len(n) == (n \div SM4_BLOCK_BYTES + 1) * SM4_BLOCK_BYTES

frame_len(n) == FRAME_OVERHEAD_BYTES + n

\* STANDARD.encode: four characters for each started group of three bytes.
encoded_len(n) == ((n + 2) \div 3) * 4

\* The text of so many bytes can exist.
Fits(n) == encoded_len(n) <= IsizeMax

-----------------------------------------------------------------------------
(* The bounds the receiver computes from its own plaintext limit. *)

\* Plausible slip: the bound forgets to clamp, so an overflow wraps around.
base64_len_wrapping(binary_len) ==
    ((((binary_len + 2) % (UsizeMax + 1)) \div 3) * 4) % (UsizeMax + 1)

base64_len(binary_len) ==
    LET groups == (binary_len + 2) \div 3
    IN  IF binary_len + 2 > UsizeMax \/ groups * 4 > UsizeMax
          THEN UsizeMax
          ELSE groups * 4

\* Plausible slip: rounds up to a block and forgets that PKCS#7 always pads.
padded_cipher_len_unpadded(plaintext_limit) ==
    ((plaintext_limit + SM4_BLOCK_BYTES - 1) \div SM4_BLOCK_BYTES) * SM4_BLOCK_BYTES

padded_cipher_len(plaintext_limit) ==
    LET cipher_bytes == (plaintext_limit \div SM4_BLOCK_BYTES + 1) * SM4_BLOCK_BYTES
    IN  IF cipher_bytes > UsizeMax THEN UsizeMax ELSE cipher_bytes

\* Plausible slip: the tag is left out of the overhead.
max_frame_bytes_no_tag(plaintext_limit) ==
    IF plaintext_limit + FRAME_OVERHEAD_BYTES > UsizeMax
      THEN UsizeMax
      ELSE plaintext_limit + FRAME_OVERHEAD_BYTES - 16

max_frame_bytes(plaintext_limit) ==
    IF plaintext_limit + FRAME_OVERHEAD_BYTES > UsizeMax
      THEN UsizeMax
      ELSE plaintext_limit + FRAME_OVERHEAD_BYTES

-----------------------------------------------------------------------------
(* The size checks of open, on the length of the cipher text and of its decoding. *)

CbcGate(plaintext_limit, text_len, bytes) ==
    LET max_cipher_bytes == padded_cipher_len(plaintext_limit)
    IN  IF text_len > base64_len(max_cipher_bytes) THEN "MessageTooLarge"
        ELSE IF bytes > max_cipher_bytes THEN "InvalidEnvelope"
        ELSE "decoded"

\* Plausible slip: the decoded frame is trusted because its text passed the first gate.
FrameGate_text_only(plaintext_limit, text_len, bytes) ==
    IF text_len > base64_len(max_frame_bytes(plaintext_limit)) THEN "MessageTooLarge"
    ELSE IF bytes < FRAME_OVERHEAD_BYTES THEN "InvalidEnvelope"
    ELSE "decoded"

FrameGate(plaintext_limit, text_len, bytes) ==
    IF text_len > base64_len(max_frame_bytes(plaintext_limit)) THEN "MessageTooLarge"
    ELSE IF bytes < FRAME_OVERHEAD_BYTES THEN "InvalidEnvelope"
    ELSE IF bytes - FRAME_OVERHEAD_BYTES > plaintext_limit THEN "InvalidEnvelope"
    ELSE "decoded"

=============================================================================
