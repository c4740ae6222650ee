--------------------------- MODULE MCCodeAnalyses ----------------------------
(***************************************************************************)
(* CodeAnalyses for TLC: every code of up to 4 bytes over the opcodes the  *)
(* analyses tell apart, and every code of 5 and 6 bytes over those that    *)
(* make instruction boundaries and blocks.                                 *)
(***************************************************************************)
EXTENDS CodeAnalyses

\* With SmallPushMax = 1, PUSH1 is a small push and PUSH2 a large one. SWAP7
\* needs 8 items, more than BlockStackMax: its summary is clamped. REVERT
\* ends a block even in Frontier, where it is undefined.
AnyOpcode == {OP.JUMPDEST, OP.PUSH1, OP.PUSH1 + 1, OP.GAS, OP.PC, OP.JUMPI,
              OP.POP, OP.SWAP1 + 6, OP.CREATE, OP.REVERT}
BoundaryOpcode == {OP.JUMPDEST, OP.PUSH1, OP.PUSH1 + 1, OP.GAS}

MCCodes == UNION {[1..n -> AnyOpcode] : n \in 0..4}
           \cup [1..5 -> BoundaryOpcode] \cup [1..6 -> BoundaryOpcode]

MCRevisions == {REV.FRONTIER, REV.LONDON}
MCOpTable == [r \in MCRevisions |-> get_op_table[r]]
MCJunkBytes == {OP.INVALID}

=============================================================================
