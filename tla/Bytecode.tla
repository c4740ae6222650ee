------------------------------ MODULE Bytecode -------------------------------
(***************************************************************************)
(* What both interpreters are given and never change: the code of the      *)
(* message and the revision.  Offsets into the code are counted from 0, as *)
(* in the source; code[n + 1] is the byte at offset n.                     *)
(***************************************************************************)
EXTENDS InstructionTraits, Sequences

CONSTANTS Codes,      \* the codes that may be executed, sequences of bytes
          Revisions,  \* the revisions they may be executed in
          StackLimit  \* Stack::limit, the most items on a stack: 1024

ASSUME CodesAssumption == Codes \subseteq Seq(Byte)
ASSUME RevisionsAssumption == Revisions \subseteq AllRevisions
ASSUME StackLimitAssumption == StackLimit \in Nat

VARIABLES code, rev

InitBytecode == code \in Codes /\ rev \in Revisions

\* The number of data bytes of a PUSH opcode.
PushSize(op) == op - OP.PUSH1 + 1

=============================================================================
