------------------------- MODULE BaselineInterpreter -------------------------
(***************************************************************************)
(* The Baseline interpreter, baseline::execute() in baseline.cpp: a loop   *)
(* over the padded code that checks the requirements of each instruction   *)
(* before it runs it.  A step is one iteration of the loop.                *)
(***************************************************************************)
EXTENDS BaselineAnalysis, GenericInstructions

CONSTANT BaselineTable   \* instruction_tables: revision, opcode -> entry

ASSUME BaselineTableAssumption ==
    \A r \in Revisions : BaselineTable[r] = get_baseline_instruction_table[r]

\* No instruction of a code requires more items than a full stack has: with a
\* limit of 1024 none of any code does.
ASSUME RequirementsAssumption ==
    \A c \in Codes : \A n \in 1..Len(c) :
        traits[c[n]].stack_height_required <= StackLimit

VARIABLES baseline,   \* the execution state
          code_it     \* offset of the next instruction, NoPosition at exit

baselineVars == <<baseline, code_it>>

NoPosition == -1

\* Before the analysis is done there is no state.
InitBaseline ==
    /\ baseline = << >>
    /\ code_it = 0

\* execute(): a new state for message m and a host in state h.
StartBaseline(m, h) ==
    /\ baseline' = NewExecutionState(m, h)
    /\ code_it' = 0

\* The requirements of one instruction, metrics being its entry in the table.
\* On a full stack the required height is not compared.
check_requirements(metrics, s) ==
    IF metrics.gas_cost = undefined THEN Fail(s, "UNDEFINED_INSTRUCTION")
    ELSE Then(Charge(s, metrics.gas_cost), LAMBDA t :
           IF stack_size(t) = StackLimit
           THEN IF metrics.can_overflow_stack
                THEN Fail(t, "STACK_OVERFLOW") ELSE t
           ELSE IF stack_size(t) < metrics.stack_height_required
           THEN Fail(t, "STACK_UNDERFLOW") ELSE t)

\* An instruction gives a state and a position.
At(s, pos) == [state |-> s, pos |-> IF Succeeded(s) THEN pos ELSE NoPosition]
Exit(s) == [state |-> s, pos |-> NoPosition]

\* Mutant: any offset of the code may be jumped to.
JumpAnywhere(s, dst) ==
    IF dst >= Len(code) THEN Exit(Fail(s, "BAD_JUMP_DESTINATION"))
    ELSE At(s, dst)

jump_impl(s, dst) ==
    IF dst >= Len(code) \/ ~jumpdest_map[dst]
    THEN Exit(Fail(s, "BAD_JUMP_DESTINATION")) ELSE At(s, dst)

jump(s) == jump_impl(Drop(s, 1), Item(s, 0))

jumpi(s, pos) == IF Item(s, 1) # 0 THEN jump_impl(Drop(s, 2), Item(s, 0))
                 ELSE At(Drop(s, 2), pos + 1)

\* Len data bytes are read from the padded code, whatever they are.
push(s, pos, n) ==
    At(Push(s, be_load([k \in 1..n |-> padded_code[pos + k]])), pos + n + 1)

invoke(op, s, pos) ==
    CASE op = OP.STOP -> Exit(s)
      [] op = OP.JUMP -> jump(s)
      [] op = OP.JUMPI -> jumpi(s, pos)
      [] op = OP.PC -> At(Push(s, pos), pos + 1)
      [] op = OP.GAS -> At(Push(s, s.gas_left), pos + 1)
      [] op = OP.JUMPDEST -> At(s, pos + 1)
      [] op \in PushOps -> push(s, pos, PushSize(op))
      [] op = OP.SSTORE -> At(sstore(s), pos + 1)
      [] op \in CallOps \cup CreateOps -> At(CallOrCreate(op, s), pos + 1)
      [] op = OP.RETURN -> Exit(return_(s, "SUCCESS"))
      [] op = OP.REVERT -> Exit(return_(s, "REVERT"))
      [] op = OP.INVALID -> Exit(Fail(s, "INVALID_INSTRUCTION"))
      [] op = OP.SELFDESTRUCT -> Exit(selfdestruct(s))
      [] OTHER -> At(Generic(op, s), pos + 1)

\* One iteration: the requirements fail and the execution ends, or the
\* instruction runs.
Run(op, checked, pos) ==
    IF Succeeded(checked) THEN invoke(op, checked, pos) ELSE Exit(checked)

Iteration(op, s, pos) ==
    Run(op, check_requirements(BaselineTable[rev][op], s), pos)

BaselineStep ==
    /\ code_it # NoPosition
    /\ \E next \in {Iteration(padded_code[code_it], baseline, code_it)} :
         baseline' = next.state /\ code_it' = next.pos

=============================================================================
