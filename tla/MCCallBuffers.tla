---------------------------- MODULE MCCallBuffers ----------------------------
(***************************************************************************)
(* CallBuffers for TLC: inputs and outputs that are empty, overlap, and    *)
(* need no growth, a growth in place or a reallocation.                    *)
(***************************************************************************)
EXTENDS CallBuffers

MCRanges == { [offset |-> o, size |-> n] : o \in {0, 3}, n \in {0, 1, 2} }
            \cup { [offset |-> 100, size |-> 0] }

=============================================================================
