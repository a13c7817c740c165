-------------------------------- MODULE Streams --------------------------------
(* What a TcpConnection carries: a stream of cells that arrives in pieces. *)
EXTENDS Naturals, Sequences

Cell == Nat

Drop(s, k) == SubSeq(s, k + 1, Len(s))

(* recv returns at least one of the cells that are there.                  *)
Pieces(s) == 1 .. Len(s)
===============================================================================
