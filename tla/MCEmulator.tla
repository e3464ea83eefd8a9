----------------------------- MODULE MCEmulator -----------------------------
(***************************************************************************)
(* Command lines for main, for 16 bit registers and a size_t of 20 values: *)
(* sizes that are refused, too small and large enough, files that are      *)
(* absent, empty, shorter and longer than their regions, and programs that *)
(* go on, loop and throw.                                                  *)
(***************************************************************************)
EXTENDS Emulator, MCWords, TLC

Text == {"-v", "0", "1", "3", "6", "12", "14", "19",
         "loop", "short", "throws", "empty", "absent"}

MCStrtoul ==
  [t \in Text |-> CASE t = "1" -> 1 [] t = "3" -> 3 [] t = "6" -> 6 [] t = "12" -> 12
                    [] t = "14" -> 14 [] t = "19" -> 19 [] OTHER -> 0]

(* The initial SP, the entry address 8 and the instructions: ADD R0, #1    *)
(* and B -4, or LSL, BX R0.                                                *)
MCFiles ==
  "loop"   :> <<0, 32, 0, 0, 8, 0, 0, 0, 1, 48, 254, 119>> @@
  "short"  :> <<0, 32, 0, 0, 8, 0, 0, 0, 1, 48, 1>> @@
  "throws" :> <<0, 32, 0, 0, 8, 0, 0, 0, 0, 0, 0, 71, 0, 0, 0, 0>> @@
  "empty"  :> <<>>

Proper == {"0", "12", "14", "19"} \X {"loop", "short", "throws", "empty", "absent"}
            \X {"6", "14", "19"} \X {"empty", "absent"} \X {"0", "1", "3"}

MCCommandLines ==
  Proper \cup {<<"-v">> \o line : line \in Proper}
    \cup {<<>>, <<"-v", "14", "loop", "14", "empty">>,
          <<"14", "loop", "14", "empty", "3", "1">>}

(* SRAM files of the size of the region, shorter and longer.               *)
SramCommandLines == {"12", "14"} \X {"loop"} \X {"12", "14"} \X {"short", "loop", "throws"} \X {"1"}

Nothing == {[c \in {} |-> Blank]}
Garbage == {[r \in 0..15 |-> 5]}
GarbagePsr == {[n |-> TRUE, z |-> FALSE, c |-> TRUE, v |-> FALSE, t |-> FALSE]}
GarbagePrefetch == {[k \in 0..1 |-> 49087]}
AnyArg == 0..SizeT-1
=============================================================================
