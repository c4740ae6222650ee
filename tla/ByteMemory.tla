----------------------------- MODULE ByteMemory ------------------------------
(***************************************************************************)
(* What the instructions take the memory of an execution to be, without    *)
(* any allocation: bytes that are 0 until they are written, whose number   *)
(* only grows, in whole words, until the memory is cleared.                *)
(***************************************************************************)
EXTENDS Naturals

CONSTANTS WordSize,   \* bytes of a word: 32
          ByteValues  \* the values of a byte, 0 among them

VARIABLES size, content   \* content: 0..size - 1 -> ByteValues

byteVars == <<size, content>>

Init == size = 0 /\ content = [k \in {} |-> 0]

Grow == /\ size' \in Nat /\ size' > size /\ size' % WordSize = 0
        /\ content' = [k \in 0..size' - 1 |-> IF k < size THEN content[k]
                                              ELSE 0]

Write == /\ content' \in [0..size - 1 -> ByteValues]
         /\ UNCHANGED size

Clear == size' = 0 /\ content' = [k \in {} |-> 0]

Next == Grow \/ Write \/ Clear

Spec == Init /\ [][Next]_byteVars

=============================================================================
