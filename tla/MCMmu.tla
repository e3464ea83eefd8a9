------------------------------- MODULE MCMmu -------------------------------
(***************************************************************************)
(* Accesses at the borders of the regions, and every range of up to four   *)
(* addresses, among them those that end before they start, for 16 bit      *)
(* registers: code from 0 to 8191, SRAM from 8192 to 16383.                *)
(***************************************************************************)
EXTENDS Mmu, MCWords

Borders == {8190, 8191, 8192, 16383, 16384}
Sizes == {1, 2, 4}
Ranges == [start : 16384..16387, end : 16384..16387]

MCReads == Sizes \X Borders
MCWrites == Sizes \X Borders \X {64257}
MCObserved == UNION {(b - 1)..(b + 3) : b \in Borders}
=============================================================================
