--------------------------- MODULE AdvancedAnalysis --------------------------
(***************************************************************************)
(* The code analysis of the Advanced interpreter, analyze() in             *)
(* analysis.cpp: the code is translated to a table of instructions split   *)
(* into basic blocks, and the gas and stack requirements of each block are *)
(* summed up in the BEGINBLOCK instruction that starts it.  A step is one  *)
(* iteration of the loop, that is, one instruction of the code.            *)
(*                                                                         *)
(* Instruction indexes are counted from 1 (0 stands for the null pointer). *)
(***************************************************************************)
EXTENDS Bytecode

CONSTANTS OpTable,                  \* op_tables: revision, opcode -> entry
          SmallPushMax,             \* widest PUSH kept in the instruction: 8
          BlockGasMax,              \* largest block_info::gas_cost: 2^32 - 1
          BlockStackMax,            \* largest stack_req, stack_max_growth:
                                    \* 2^15 - 1
          max_code_size,            \* 0x6000
          max_instruction_base_cost \* 32000

op_table_entry == [fn : Int, gas_cost : 0..max_instruction_base_cost,
                   stack_req : Nat, stack_change : Int]

ASSUME LimitsAssumption ==
    /\ {BlockGasMax, BlockStackMax, max_code_size,
        max_instruction_base_cost} \subseteq Nat
    /\ SmallPushMax \in 1..32
    /\ StackLimit < BlockStackMax

\* An instruction pops no more than it requires.
ASSUME OpTableAssumption ==
    /\ OpTable \in [Revisions -> [Byte -> op_table_entry]]
    /\ \A r \in Revisions : \A op \in Byte :
         OpTable[r][op].stack_req + OpTable[r][op].stack_change >= 0

\* The static_asserts of block_info; the stack of one instruction grows by at
\* most max_instruction_stack_increase = 1.
ASSUME BlockInfoAssumption ==
    /\ max_code_size * max_instruction_base_cost < BlockGasMax
    /\ max_code_size < BlockStackMax

\* The STOP appended after the last block is not accounted to any block.
ASSUME StopAssumption ==
    \A r \in Revisions : LET stop == OpTable[r][OP.STOP]
                         IN  /\ stop.gas_cost = 0
                             /\ stop.stack_req = 0
                             /\ stop.stack_change = 0

VARIABLES code_pos,          \* offset of the next byte to read
          instrs,            \* the instruction table
          push_values,       \* storage of the large push values
          jumpdest_offsets, jumpdest_targets,
          block,             \* the block being analyzed
          analyzed,          \* analyze() has returned
          at                 \* history: where each instruction comes from

advancedAnalysisVars == <<code_pos, instrs, push_values, jumpdest_offsets,
                          jumpdest_targets, block, analyzed, at>>

OPX_BEGINBLOCK == OP.JUMPDEST

Terminators == {OP.JUMP, OP.JUMPI, OP.STOP, OP.RETURN, OP.REVERT,
                OP.SELFDESTRUCT}

\* The instructions that must know the exact gas left.
GasDependent == {OP.GAS, OP.CALL, OP.CALLCODE, OP.DELEGATECALL,
                 OP.STATICCALL, OP.CREATE, OP.CREATE2, OP.SSTORE}

Larger(a, b) == IF a >= b THEN a ELSE b
Smaller(a, b) == IF a <= b THEN a ELSE b

clamp(max, x) == IF x <= max THEN x ELSE max

block_analysis(index) ==
    [gas_cost |-> 0, stack_req |-> 0, stack_max_growth |-> 0,
     stack_change |-> 0, begin_block_index |-> index]

\* Mutants: the values are narrowed without a clamp; the gas cost is clamped to
\* the width of the other two.
CloseUnclamped(b) == [gas_cost |-> b.gas_cost, stack_req |-> b.stack_req,
                      stack_max_growth |-> b.stack_max_growth]
CloseNarrow(b) == [gas_cost         |-> clamp(BlockStackMax, b.gas_cost),
                   stack_req        |-> clamp(BlockStackMax, b.stack_req),
                   stack_max_growth |-> clamp(BlockStackMax,
                                              b.stack_max_growth)]

close(b) == [gas_cost         |-> clamp(BlockGasMax, b.gas_cost),
             stack_req        |-> clamp(BlockStackMax, b.stack_req),
             stack_max_growth |-> clamp(BlockStackMax, b.stack_max_growth)]

\* The union of arguments is a record: an instruction only ever reads the
\* member that was set for it.  A push value is its bytes, most significant
\* first; push_value is an index of push_values.
instruction(f) ==
    [fn |-> f, number |-> 0, small_push_value |-> << >>, push_value |-> 0,
     block |-> [gas_cost |-> 0, stack_req |-> 0, stack_max_growth |-> 0]]

\* History: the block an instruction belongs to, the offsets where it starts
\* and where the one after it starts, its table entry, and the gas and stack
\* change of its block before it.
Origin(b, offset, next, info) ==
    [begin |-> b.begin_block_index, offset |-> offset, next |-> next,
     info |-> info, gas |-> b.gas_cost, change |-> b.stack_change]
NoInfo == [fn |-> OPX_BEGINBLOCK, gas_cost |-> 0, stack_req |-> 0,
           stack_change |-> 0]

-----------------------------------------------------------------------------
InitAdvancedAnalysis ==
    /\ code_pos = 0
    /\ instrs = << instruction(OPX_BEGINBLOCK) >>
    /\ push_values = << >>
    /\ jumpdest_offsets = << >>
    /\ jumpdest_targets = << >>
    /\ block = block_analysis(1)
    /\ analyzed = FALSE
    /\ at = << Origin(block_analysis(1), 0, 0, NoInfo) >>

opcode == code[code_pos + 1]
opcode_info == OpTable[rev][opcode]

\* Mutant: the requirement is taken relative to the stack after the instruction.
AddToBlockLate(b, info) ==
    LET change == b.stack_change + info.stack_change
    IN  [gas_cost          |-> b.gas_cost + info.gas_cost,
         stack_req         |-> Larger(b.stack_req, info.stack_req - change),
         stack_max_growth  |-> Larger(b.stack_max_growth, change),
         stack_change      |-> change,
         begin_block_index |-> b.begin_block_index]

AddToBlock(b, info) ==
    LET change == b.stack_change + info.stack_change
    IN  [gas_cost          |-> b.gas_cost + info.gas_cost,
         stack_req         |-> Larger(b.stack_req,
                                      info.stack_req - b.stack_change),
         stack_max_growth  |-> Larger(b.stack_max_growth, change),
         stack_change      |-> change,
         begin_block_index |-> b.begin_block_index]

\* The data bytes of a push of size n, zero where the code ends too early.
PushData(n) == [k \in 1..n |-> IF code_pos + 1 + k <= Len(code)
                               THEN code[code_pos + 1 + k] ELSE 0]

\* Whether the block ends with the current instruction, next being the offset
\* after it: it is a terminator or the next instruction is a JUMPDEST.
EndsBlock(next) == \/ opcode \in Terminators
                   \/ next # Len(code) /\ code[next + 1] = OP.JUMPDEST

\* Mutant: a new block starts with the sums of the one before it.
AdvanceKeepingSums(table, history, next) ==
    LET b == AddToBlock(block, opcode_info)
    IN  /\ code_pos' = next
        /\ \/ /\ EndsBlock(next)
              /\ instrs' = Append([table EXCEPT
                                     ![b.begin_block_index].block = close(b)],
                                  instruction(OPX_BEGINBLOCK))
              /\ block' = [b EXCEPT !.begin_block_index = Len(table) + 1]
              /\ at' = Append(history, Origin(block', next, next, NoInfo))
           \/ /\ ~EndsBlock(next)
              /\ instrs' = table
              /\ block' = b
              /\ at' = history
        /\ UNCHANGED <<analyzed, code, rev>>

\* The end of an iteration: table and history are those with the current
\* instruction.
Advance(table, history, next) ==
    LET b == AddToBlock(block, opcode_info)
    IN  /\ code_pos' = next
        /\ \/ /\ EndsBlock(next)
              /\ instrs' = Append([table EXCEPT
                                     ![b.begin_block_index].block = close(b)],
                                  instruction(OPX_BEGINBLOCK))
              /\ block' = block_analysis(Len(table) + 1)
              /\ at' = Append(history, Origin(block', next, next, NoInfo))
           \/ /\ ~EndsBlock(next)
              /\ instrs' = table
              /\ block' = b
              /\ at' = history
        /\ UNCHANGED <<analyzed, code, rev>>

InLoop == ~analyzed /\ code_pos # Len(code)

Emit(instr, next) ==
    Advance(Append(instrs, instr),
            Append(at, Origin(block, code_pos, next, opcode_info)), next)

\* Mutant: records the offset after the JUMPDEST.
AnalyzeJumpdestLate ==
    /\ InLoop /\ opcode = OP.JUMPDEST
    /\ jumpdest_offsets' = Append(jumpdest_offsets, code_pos + 1)
    /\ jumpdest_targets' = Append(jumpdest_targets, Len(instrs))
    /\ Advance(instrs,
               [at EXCEPT ![Len(instrs)].info = opcode_info,
                          ![Len(instrs)].next = code_pos + 1],
               code_pos + 1)
    /\ UNCHANGED push_values

\* A JUMPDEST is merged with the last instruction of the table, the
\* BEGINBLOCK of the block it starts.
AnalyzeJumpdest ==
    /\ InLoop /\ opcode = OP.JUMPDEST
    /\ jumpdest_offsets' = Append(jumpdest_offsets, code_pos)
    /\ jumpdest_targets' = Append(jumpdest_targets, Len(instrs))
    /\ Advance(instrs,
               [at EXCEPT ![Len(instrs)].info = opcode_info,
                          ![Len(instrs)].next = code_pos + 1],
               code_pos + 1)
    /\ UNCHANGED push_values

\* Mutant: the data of a push is analyzed as code.
AfterPushOpcode == code_pos + 1

AfterPush == Smaller(code_pos + 1 + PushSize(opcode), Len(code))

AnalyzeSmallPush ==
    /\ InLoop /\ opcode \in PushOps /\ PushSize(opcode) <= SmallPushMax
    /\ Emit([instruction(opcode_info.fn) EXCEPT
               !.small_push_value = PushData(PushSize(opcode))], AfterPush)
    /\ UNCHANGED <<push_values, jumpdest_offsets, jumpdest_targets>>

AnalyzeLargePush ==
    /\ InLoop /\ opcode \in PushOps /\ PushSize(opcode) > SmallPushMax
    /\ push_values' = Append(push_values, PushData(PushSize(opcode)))
    /\ Emit([instruction(opcode_info.fn) EXCEPT
               !.push_value = Len(push_values')], AfterPush)
    /\ UNCHANGED <<jumpdest_offsets, jumpdest_targets>>

\* Mutant: the argument leaves out the cost of the instruction itself.
AnalyzeGasDependentBefore ==
    /\ InLoop /\ opcode \in GasDependent
    /\ Emit([instruction(opcode_info.fn) EXCEPT !.number = block.gas_cost],
            code_pos + 1)
    /\ UNCHANGED <<push_values, jumpdest_offsets, jumpdest_targets>>

\* The argument is the cost of the block up to and with this instruction.
AnalyzeGasDependent ==
    /\ InLoop /\ opcode \in GasDependent
    /\ Emit([instruction(opcode_info.fn) EXCEPT
               !.number = block.gas_cost + opcode_info.gas_cost],
            code_pos + 1)
    /\ UNCHANGED <<push_values, jumpdest_offsets, jumpdest_targets>>

\* Mutant: the argument is the position after the opcode.
AnalyzePcLate ==
    /\ InLoop /\ opcode = OP.PC
    /\ Emit([instruction(opcode_info.fn) EXCEPT !.number = code_pos + 1],
            code_pos + 1)
    /\ UNCHANGED <<push_values, jumpdest_offsets, jumpdest_targets>>

AnalyzePc ==
    /\ InLoop /\ opcode = OP.PC
    /\ Emit([instruction(opcode_info.fn) EXCEPT !.number = code_pos],
            code_pos + 1)
    /\ UNCHANGED <<push_values, jumpdest_offsets, jumpdest_targets>>

AnalyzeOther ==
    /\ InLoop
    /\ opcode \notin PushOps \cup GasDependent \cup {OP.PC, OP.JUMPDEST}
    /\ Emit(instruction(opcode_info.fn), code_pos + 1)
    /\ UNCHANGED <<push_values, jumpdest_offsets, jumpdest_targets>>

\* Close the last block and make sure it is terminated.
FinishAnalysis ==
    /\ ~analyzed /\ code_pos = Len(code)
    /\ instrs' = Append([instrs EXCEPT
                           ![block.begin_block_index].block = close(block)],
                        instruction(OpTable[rev][OP.STOP].fn))
    /\ at' = Append(at, Origin(block, code_pos, code_pos,
                               OpTable[rev][OP.STOP]))
    /\ analyzed' = TRUE
    /\ UNCHANGED <<code_pos, push_values, jumpdest_offsets, jumpdest_targets,
                   block, code, rev>>

AdvancedAnalyze == \/ AnalyzeJumpdest \/ AnalyzeSmallPush \/ AnalyzeLargePush
                   \/ AnalyzeGasDependent \/ AnalyzePc \/ AnalyzeOther
                   \/ FinishAnalysis

AdvancedAnalysisSpec ==
    /\ InitBytecode /\ InitAdvancedAnalysis
    /\ [][AdvancedAnalyze]_<<advancedAnalysisVars, code, rev>>

-----------------------------------------------------------------------------
\* The instruction index of the JUMPDEST at the offset, 0 if there is none:
\* lower_bound is correct only on sorted offsets.
find_jumpdest(offset) ==
    LET n == Len(jumpdest_offsets)
        it == CHOOSE k \in 1..n + 1 :
                /\ \A j \in 1..k - 1 : jumpdest_offsets[j] < offset
                /\ k <= n => jumpdest_offsets[k] >= offset
    IN  IF it <= n /\ jumpdest_offsets[it] = offset
        THEN jumpdest_targets[it] ELSE 0

-----------------------------------------------------------------------------
(***************************************************************************)
(* Properties.                                                             *)
(***************************************************************************)
block_info == [gas_cost : 0..BlockGasMax, stack_req : 0..BlockStackMax,
               stack_max_growth : 0..BlockStackMax]

Instruction == [fn : Int, number : Nat, small_push_value : Seq(Byte),
                push_value : Nat, block : block_info]

BlockAnalysis == [gas_cost : Nat, stack_req : Nat, stack_max_growth : Nat,
                  stack_change : Int, begin_block_index : Nat \ {0}]

OriginType == [begin : Nat \ {0}, offset : Nat, next : Nat,
               info : op_table_entry, gas : Nat, change : Int]

\* The types of the analysis: in particular the summary of every block fits
\* the widths of block_info (uint32_t, int16_t, int16_t), as the static_assert
\* on sizeof(block_info) needs, and code_pos stays within the code.
AdvancedAnalysisTypeOK ==
    /\ code \in Codes /\ rev \in Revisions
    /\ code_pos \in 0..Len(code)
    /\ instrs \in Seq(Instruction)
    /\ push_values \in Seq(Seq(Byte))
    /\ jumpdest_offsets \in Seq(Nat)
    /\ jumpdest_targets \in Seq(Nat)
    /\ block \in BlockAnalysis
    /\ analyzed \in BOOLEAN
    /\ at \in Seq(OriginType)

\* The blocks whose summary has been saved, and the instructions of a block.
ClosedBlocks == {b \in 1..Len(instrs) :
                    /\ at[b].begin = b
                    /\ analyzed \/ b # block.begin_block_index}
Members(b) == {k \in 1..Len(instrs) : at[k].begin = b}

\* The table covers the code without a gap or an overlap, each instruction
\* starting where the one before it ends, and the gas and stack change before
\* an instruction are those of the instructions before it in its block: what
\* analyze() accumulates in block is exact whatever ended the blocks.
TableFollowsCode ==
    \A k \in 1..Len(instrs) - 1 :
        LET o == at[k]
            n == at[k + 1]
        IN  /\ n.offset = o.next
            /\ \/ n.begin = k + 1 /\ n.gas = 0 /\ n.change = 0
               \/ /\ n.begin = o.begin
                  /\ n.gas = o.gas + o.info.gas_cost
                  /\ n.change = o.change + o.info.stack_change

\* Whether the stack checks of op_beginblock let a stack of height h through.
PassesStackCheck(info, h) == /\ h >= info.stack_req
                             /\ h + info.stack_max_growth <= StackLimit

\* Whether instruction k runs on its operands and within the limit when its
\* block is entered with a stack of height h.
RunsWithin(k, h) ==
    /\ h + at[k].change >= at[k].info.stack_req
    /\ h + at[k].change + at[k].info.stack_change <= StackLimit

\* One check at the entry of a block stands for the checks of all its
\* instructions, clamped summaries included: a stack passes it exactly when no
\* instruction of the block would underflow or overflow it.
BlockStackCheckExact ==
    \A b \in ClosedBlocks, h \in 0..StackLimit :
        PassesStackCheck(instrs[b].block, h)
            <=> \A k \in Members(b) : RunsWithin(k, h)

\* The gas charged at the entry of a block is what its instructions cost up to
\* the last one, no more and no less, for every code within max_code_size.
BlockGasExact ==
    Len(code) <= max_code_size =>
        \A b \in ClosedBlocks :
            /\ \A k \in Members(b) :
                 at[k].gas + at[k].info.gas_cost <= instrs[b].block.gas_cost
            /\ \E k \in Members(b) :
                 at[k].gas + at[k].info.gas_cost = instrs[b].block.gas_cost

\* Adding back block cost minus number undoes exactly the charges for the
\* instructions of the block that a gas dependent instruction has yet to run:
\* the correction of op_gas, op_sstore, op_call and op_create.
GasCorrectionExact ==
    Len(code) <= max_code_size =>
        \A b \in ClosedBlocks : \A k \in Members(b) \ {b} :
            (at[k].offset < Len(code) /\ code[at[k].offset + 1] \in GasDependent)
            => instrs[b].block.gas_cost - instrs[k].number
               = MapThenSumSet(LAMBDA j : at[j].info.gas_cost,
                               {j \in Members(b) : j > k})

\* The precondition of the lower_bound in find_jumpdest, and that a jump found
\* there lands on the BEGINBLOCK of a block that starts with that JUMPDEST.
JumpdestIndexSound ==
    /\ Len(jumpdest_offsets) = Len(jumpdest_targets)
    /\ \A i, j \in 1..Len(jumpdest_offsets) :
          i < j => jumpdest_offsets[i] < jumpdest_offsets[j]
    /\ \A i \in 1..Len(jumpdest_offsets) :
          LET t == jumpdest_targets[i]
          IN  /\ t \in 1..Len(instrs)
              /\ instrs[t].fn = OPX_BEGINBLOCK
              /\ at[t].begin = t
              /\ at[t].offset = jumpdest_offsets[i]
              /\ code[jumpdest_offsets[i] + 1] = OP.JUMPDEST

\* The storage of large push values is never reallocated, so the pointers kept
\* in instructions stay valid: the assert at the end of analyze(), and the
\* tighter bound of the comment where the storage is reserved.
PushStorageSuffices == Len(push_values) <= Len(code) \div 2 + 1

\* The instruction table never outgrows max_instrs_size, the space reserved for
\* it: the assertion that the FIXME at the end of analyze() asks for.
InstrsReserved == Len(instrs) <= Len(code) + 1

=============================================================================
