-------------------------- MODULE BaselineAnalysis ---------------------------
(***************************************************************************)
(* The code analysis of the Baseline interpreter, baseline::analyze() in   *)
(* baseline.cpp: a map of the valid JUMPDESTs and a copy of the code padded *)
(* so that the interpreter loop always meets a STOP.  A step is one        *)
(* iteration of the loop.                                                  *)
(***************************************************************************)
EXTENDS Bytecode

CONSTANT JunkBytes   \* the values a byte of uninitialized memory may have

ASSUME JunkAssumption == JunkBytes \subseteq Byte /\ JunkBytes # {}

VARIABLES scan_pos,      \* the index i of the loop
          jumpdest_map,  \* offsets -> BOOLEAN
          padded_code,   \* offsets -> bytes, empty until allocated
          prepared       \* analyze() has returned

baselineAnalysisVars == <<scan_pos, jumpdest_map, padded_code, prepared>>

InitBaselineAnalysis ==
    /\ scan_pos = 0
    /\ jumpdest_map = [n \in 0..Len(code) - 1 |-> FALSE]
    /\ padded_code = [n \in {} |-> 0]
    /\ prepared = FALSE

\* Mutant: the comparison is unsigned.
Int8Unsigned(op) == op

\* static_cast<int8_t>
Int8(op) == IF op < 128 THEN op ELSE op - 256

\* Mutant: skips one byte too many after a PUSH.
ScanOpcodeFar ==
    /\ ~prepared /\ scan_pos < Len(code)
    /\ LET op == code[scan_pos + 1]
       IN  \/ /\ Int8(op) >= OP.PUSH1
              /\ scan_pos' = scan_pos + (op - (OP.PUSH1 - 1)) + 2
              /\ UNCHANGED jumpdest_map
           \/ /\ Int8(op) < OP.PUSH1
              /\ scan_pos' = scan_pos + 1
              /\ jumpdest_map' = IF op = OP.JUMPDEST
                                 THEN [jumpdest_map EXCEPT ![scan_pos] = TRUE]
                                 ELSE jumpdest_map
    /\ UNCHANGED <<padded_code, prepared, code, rev>>

ScanOpcode ==
    /\ ~prepared /\ scan_pos < Len(code)
    /\ LET op == code[scan_pos + 1]
       IN  \/ /\ Int8(op) >= OP.PUSH1
              /\ scan_pos' = scan_pos + (op - (OP.PUSH1 - 1)) + 1
              /\ UNCHANGED jumpdest_map
           \/ /\ Int8(op) < OP.PUSH1
              /\ scan_pos' = scan_pos + 1
              /\ jumpdest_map' = IF op = OP.JUMPDEST
                                 THEN [jumpdest_map EXCEPT ![scan_pos] = TRUE]
                                 ELSE jumpdest_map
    /\ UNCHANGED <<padded_code, prepared, code, rev>>

\* Mutant: the loop ends only exactly at the end of the code.
PadCodeAtEnd ==
    /\ ~prepared /\ scan_pos = Len(code)
    /\ padded_code' = [n \in 0..scan_pos |-> IF n < Len(code) THEN code[n + 1]
                                             ELSE OP.STOP]
    /\ prepared' = TRUE
    /\ UNCHANGED <<scan_pos, jumpdest_map, code, rev>>

\* The array is not initialized: the bytes between the STOP after the code and
\* the STOP at its end keep whatever the memory held.
PadCode ==
    /\ ~prepared /\ scan_pos >= Len(code)
    /\ \E junk \in [Len(code) + 1..scan_pos - 1 -> JunkBytes] :
         padded_code' = [n \in 0..scan_pos |->
                            CASE n < Len(code) -> code[n + 1]
                              [] n \in {Len(code), scan_pos} -> OP.STOP
                              [] OTHER -> junk[n]]
    /\ prepared' = TRUE
    /\ UNCHANGED <<scan_pos, jumpdest_map, code, rev>>

BaselineAnalyze == ScanOpcode \/ PadCode

=============================================================================
