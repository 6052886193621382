---------------------------- MODULE MCInjection ----------------------------
(* A small instance of Injection: the launcher, a and d are 64-bit, b and c *)
(* are not. The process a has one child, d of its own word size or b or c   *)
(* through a broker, so that the two ways are not interleaved (bound).      *)
EXTENDS Injection

CONSTANTS L, a, b, c, d

ArchCross == [p \in Procs |-> IF p \in {L, a, d} THEN "x64" ELSE "x86"]

OneChild == creator[d] = None \/ (creator[b] = None /\ creator[c] = None)
=============================================================================
