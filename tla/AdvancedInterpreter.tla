------------------------- MODULE AdvancedInterpreter -------------------------
(***************************************************************************)
(* The Advanced interpreter, execute() in execution.cpp with the           *)
(* instruction functions of instructions.cpp: the gas and the stack are    *)
(* checked once per block, in BEGINBLOCK, and the instructions that must   *)
(* know the exact gas left correct it by what the rest of their block has  *)
(* been charged for.  A step runs one instruction of the table.            *)
(***************************************************************************)
EXTENDS AdvancedAnalysis, GenericInstructions

CONSTANT IntMax   \* std::numeric_limits<int>::max(): 2^31 - 1

ASSUME IntMaxAssumption == IntMax \in Nat

\* The table that execute() hands to analyze().
ASSUME OpTableIsGetOpTable ==
    \A r \in Revisions : OpTable[r] = get_op_table[r]

VARIABLES advanced,            \* the execution state
          instr_it,            \* index of the next instruction, 0 at exit
          current_block_cost

advancedVars == <<advanced, instr_it, current_block_cost>>

\* Before the analysis is done there is no state.
InitAdvanced ==
    /\ advanced = << >>
    /\ instr_it = 1
    /\ current_block_cost = 0

\* execute(): a new state for message m and a host in state h.
StartAdvanced(m, h) ==
    /\ advanced' = NewExecutionState(m, h)
    /\ instr_it' = 1
    /\ current_block_cost' = 0

instr == instrs[instr_it]

\* Go on to the next instruction unless the status says otherwise.
Continue(s) == /\ advanced' = s
               /\ instr_it' = IF Succeeded(s) THEN instr_it + 1 ELSE 0
               /\ UNCHANGED current_block_cost

exit(s) == /\ advanced' = s
           /\ instr_it' = 0
           /\ UNCHANGED current_block_cost

\* Mutant: does not check the height the block requires.
BeginBlockUnchecked ==
    /\ instr.fn = OPX_BEGINBLOCK
    /\ LET info == instr.block
           charged == Charge(advanced, info.gas_cost)
       IN  /\ advanced' = charged
           /\ instr_it' = IF Succeeded(charged) THEN instr_it + 1 ELSE 0
           /\ current_block_cost' = IF Succeeded(charged) THEN info.gas_cost
                                    ELSE current_block_cost

opx_beginblock ==
    /\ instr.fn = OPX_BEGINBLOCK
    /\ LET info == instr.block
           charged == Charge(advanced, info.gas_cost)
           checked == Then(charged, LAMBDA s :
             IF stack_size(s) < info.stack_req
             THEN Fail(s, "STACK_UNDERFLOW")
             ELSE IF stack_size(s) + info.stack_max_growth > StackLimit
             THEN Fail(s, "STACK_OVERFLOW") ELSE s)
       IN  /\ advanced' = checked
           /\ instr_it' = IF Succeeded(checked) THEN instr_it + 1 ELSE 0
           /\ current_block_cost' = IF Succeeded(checked) THEN info.gas_cost
                                    ELSE current_block_cost

\* What the block has been charged for the instructions after this one.
gas_left_correction == current_block_cost - instr.number

\* op_sstore, op_call and op_create run with the exact gas left, and then
\* take the correction back.
exact == [advanced EXCEPT !.gas_left = @ + gas_left_correction]

TakeBack(s, correction) == Then(s, LAMBDA t : Charge(t, correction))

Corrected(s) == TakeBack(s, gas_left_correction)

op_sstore == instr.fn = OP.SSTORE /\ Continue(Corrected(sstore(exact)))

\* Mutant: the correction is not taken back.
CallCorrectedForGood ==
    /\ instr.fn \in CallOps
    /\ Continue(CallOrCreate(instr.fn, exact))

op_call == /\ instr.fn \in CallOps
           /\ Continue(Corrected(CallOrCreate(instr.fn, exact)))

op_create == /\ instr.fn \in CreateOps
             /\ Continue(Corrected(CallOrCreate(instr.fn, exact)))

\* Mutant: gives the gas left without the correction.
GasUncorrected == /\ instr.fn = OP.GAS
                  /\ Continue(Push(advanced, advanced.gas_left))

op_gas == /\ instr.fn = OP.GAS
          /\ Continue(Push(advanced, advanced.gas_left + gas_left_correction))

JumpTo(s, dst) ==
    LET pc == IF IntMax < dst THEN 0 ELSE find_jumpdest(dst)
    IN  /\ advanced' = IF pc = 0 THEN Fail(s, "BAD_JUMP_DESTINATION") ELSE s
        /\ instr_it' = pc
        /\ UNCHANGED current_block_cost

op_jump == instr.fn = OP.JUMP /\ JumpTo(Drop(advanced, 1), Item(advanced, 0))

op_jumpi ==
    /\ instr.fn = OP.JUMPI
    /\ \/ /\ Item(advanced, 1) # 0
          /\ JumpTo(Drop(advanced, 2), Item(advanced, 0))
       \/ /\ Item(advanced, 1) = 0
          /\ Continue(Drop(advanced, 2))

op_pc == instr.fn = OP.PC /\ Continue(Push(advanced, instr.number))

op_push_small ==
    /\ instr.fn \in PushOps /\ PushSize(instr.fn) <= SmallPushMax
    /\ Continue(Push(advanced, be_load(instr.small_push_value)))

op_push_full ==
    /\ instr.fn \in PushOps /\ PushSize(instr.fn) > SmallPushMax
    /\ Continue(Push(advanced, be_load(push_values[instr.push_value])))

\* Mutant: returns the instruction itself.
StopStays == instr.fn = OP.STOP /\ UNCHANGED advancedVars

op_stop == instr.fn = OP.STOP /\ exit(advanced)

\* Mutant: the offset is never set.
ReturnFromStart ==
    /\ instr.fn \in {OP.RETURN, OP.REVERT}
    /\ LET offset == Item(advanced, 0)
           size == Item(advanced, 1)
       IN  exit(Then(check_memory(Needs(advanced, 2), offset, size), LAMBDA s :
                  [TouchMemory(s, size_t(offset), size) EXCEPT
                     !.output_size = size_t(size),
                     !.status = IF instr.fn = OP.RETURN THEN "SUCCESS"
                                ELSE "REVERT"]))

\* Unlike return_ of Baseline, the offset is left alone if the size is 0.
op_return ==
    /\ instr.fn \in {OP.RETURN, OP.REVERT}
    /\ LET offset == Item(advanced, 0)
           size == Item(advanced, 1)
       IN  exit(Then(check_memory(Needs(advanced, 2), offset, size), LAMBDA s :
                  [TouchMemory(s, size_t(offset), size) EXCEPT
                     !.output_size = size_t(size),
                     !.output_offset = IF size_t(size) # 0
                                       THEN size_t(offset) ELSE @,
                     !.status = IF instr.fn = OP.RETURN THEN "SUCCESS"
                                ELSE "REVERT"]))

op_invalid == /\ instr.fn = OP.INVALID
              /\ exit(Fail(advanced, "INVALID_INSTRUCTION"))

op_undefined_ == /\ instr.fn = op_undefined
                 /\ exit(Fail(advanced, "UNDEFINED_INSTRUCTION"))

op_selfdestruct == instr.fn = OP.SELFDESTRUCT /\ exit(selfdestruct(advanced))

OwnFunction == {OPX_BEGINBLOCK, OP.SSTORE, OP.GAS, OP.JUMP, OP.JUMPI, OP.PC,
                OP.STOP, OP.RETURN, OP.REVERT, OP.INVALID, OP.SELFDESTRUCT,
                op_undefined} \cup PushOps \cup CallOps \cup CreateOps

\* The wrapper op<...> of the generic instructions.
op_generic == /\ instr.fn \notin OwnFunction
              /\ Continue(Generic(instr.fn, advanced))

AdvancedStep ==
    /\ instr_it # 0
    /\ \/ opx_beginblock \/ op_sstore \/ op_call \/ op_create \/ op_gas
       \/ op_jump \/ op_jumpi \/ op_pc \/ op_push_small \/ op_push_full
       \/ op_stop \/ op_return \/ op_invalid \/ op_undefined_
       \/ op_selfdestruct \/ op_generic

\* What has been charged for and not yet run.
ChargedAhead == IF instr.fn = OPX_BEGINBLOCK THEN 0
                ELSE current_block_cost - at[instr_it].gas

=============================================================================
