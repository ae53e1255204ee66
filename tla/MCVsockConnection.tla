------------------------- MODULE MCVsockConnection -------------------------
(* Two senders and a receiver at the host, two receivers at the guest: at  *)
(* either end two tasks compete for a mutex, and at the host a third one   *)
(* fails while it holds the other.                                         *)
EXTENDS VsockConnection

CONSTANTS w1, w2, h, g1, g2

MCTasks   == {w1, w2, h, g1, g2}
MCWriters == {w1, w2}
MCEnd     == [t \in MCTasks |-> IF t \in {w1, w2, h} THEN "host" ELSE "guest"]
=============================================================================
