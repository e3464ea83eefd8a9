------------------------------ MODULE MCWords ------------------------------
(* The powers of two and the words of bit sets, for a width TLC can count. *)
EXTENDS Naturals, FiniteSetsExt

CONSTANT Width

MCPow2 == [k \in 0..Width |-> 2^k]
MCValue == [S \in SUBSET (0..Width-1) |-> MapThenSumSet(LAMBDA k : MCPow2[k], S)]
=============================================================================
