----------------------------- MODULE WordStack -----------------------------
(***************************************************************************)
(* What PUSH and POP promise a program: a stack of words, last in first    *)
(* out, that nothing else changes.  The lowest register of a list is the   *)
(* nearest to the top.                                                     *)
(***************************************************************************)
EXTENDS Naturals, FiniteSets, Sequences

CONSTANTS
  Lists,   \* the sets of registers a PUSH or a POP may name
  Pc,      \* the register a POP jumps with
  Even(_)  \* a word without its bit 0, which a jump drops

VARIABLES stack, file

vars == <<stack, file>>

(* Where the word of register r is, from the top.                          *)
Place(list, r) == Cardinality({q \in list : q < r}) + 1

(* What is left of a stack without the n words on the top.                 *)
Below(n, s) == [i \in 1..Len(s)-n |-> s[n+i]]

(* What register r gets from the word w.                                   *)
Loaded(r, w) == IF r = Pc THEN Even(w) ELSE w

Init == stack = <<>>

Push(list) ==
  /\ Pc \notin list
  /\ Len(stack') = Len(stack) + Cardinality(list)
  /\ \A r \in list : stack'[Place(list, r)] = file[r]
  /\ Below(Cardinality(list), stack') = stack
  /\ file' = file

Pop(list) ==
  /\ Cardinality(list) <= Len(stack)
  /\ \A r \in list : file'[r] = Loaded(r, stack[Place(list, r)])
  /\ \A r \in DOMAIN file \ (list \cup {Pc}) : file'[r] = file[r]
  /\ stack' = Below(Cardinality(list), stack)

(* Any other instruction.                                                  *)
Work == stack' = stack

Next == \/ \E list \in Lists : Push(list) \/ Pop(list)
        \/ Work

Spec == Init /\ [][Next]_vars
=============================================================================
