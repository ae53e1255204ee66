--------------------------- MODULE MCFrameReader ---------------------------
(* Every input of at most MaxLength bytes, and the limits around zero.     *)
EXTENDS FrameReader

CONSTANT MaxLength   \* bound: bytes the peer sends

MCInputs   == UNION {[1..n -> Bytes] : n \in 0..MaxLength}
MCUsizeMax == 2 * MaxLength + 1
MCLimits   == {0, 1, 2, MCUsizeMax}
=============================================================================
