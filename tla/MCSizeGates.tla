----------------------------- MODULE MCSizeGates -----------------------------
(* The narrowest usize Rust allows, with lengths around every boundary: the block *)
(* and Base64 group edges, isize::MAX, and the last values before usize::MAX.     *)
EXTENDS SizeGates

MCUsizeMax == 65535
MCLimits == (1..49) \cup (24550..24580) \cup (32760..32770) \cup (65500..65535)
MCLengths == (0..82) \cup (24540..24580)
=============================================================================
