----------------------------- MODULE ByteStore -----------------------------
(***************************************************************************)
(* What the accessors of class mmu promise of the memory they hold: one    *)
(* byte for each address, in regions that do not touch one another.  An    *)
(* access of 1, 2 or 4 bytes is little endian, reaches the bytes of its    *)
(* own region and no others, and outside the regions it reads zero and     *)
(* writes nothing.  What a read over the end of its region finds is not    *)
(* promised.                                                               *)
(***************************************************************************)
EXTENDS Integers

CONSTANTS
  Addresses,  \* the addresses looked at
  Regions,    \* the sets of addresses that hold bytes
  Modulus,    \* the number of values of a register
  Empty       \* the bytes at first

VARIABLES bytes, access

vars == <<bytes, access>>

InRegions(a) == \E region \in Regions : a \in region
Beside(a, b) == \E region \in Regions : a \in region /\ b \in region

Digit(v, k) == (v \div <<1, 256, 256 * 256, 256 * (256 * 256)>>[k + 1]) % 256

(* The bytes after a write of size bytes of v at A.                        *)
Stored(A, size, v) ==
  [a \in Addresses |-> IF a \in A..A+size-1 /\ Beside(a, A) THEN Digit(v, a - A)
                                                            ELSE bytes[a]]

(* What a read of size bytes at A finds.                                   *)
Found(A, size, v) ==
  \/ size = 1 /\ v = bytes[A]
  \/ size = 2 /\ v = bytes[A] + 256 * bytes[A + 1]
  \/ size = 4 /\ v = ( bytes[A] + 256 * bytes[A + 1]
                       + ((256 * 256) % Modulus) * bytes[A + 2]
                       + ((256 * (256 * 256)) % Modulus) * bytes[A + 3] ) % Modulus

Init == bytes = [a \in Addresses |-> Empty[a]]

Put ==
  /\ access'.op = "write"
  /\ bytes' = Stored(access'.address, access'.size, access'.value)

Get ==
  LET A == access'.address
      size == access'.size
  IN  /\ access'.op = "read"
      /\ ~InRegions(A) => access'.value = 0
      /\ (Beside(A, A + size - 1) /\ A..A+size-1 \subseteq Addresses)
           => Found(A, size, access'.value)
      /\ UNCHANGED bytes

Next == Put \/ Get

Spec == Init /\ [][Next]_vars
=============================================================================
