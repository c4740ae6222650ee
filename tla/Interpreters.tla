---------------------------- MODULE Interpreters -----------------------------
(***************************************************************************)
(* Both interpreters execute one message, each against its own copy of the *)
(* host.  They share no state, so any order of their steps is possible;    *)
(* this one keeps them side by side: while both run, they execute the same *)
(* instruction in one step, and a BEGINBLOCK that stands for no            *)
(* instruction of the code is a step of Advanced alone.                    *)
(***************************************************************************)
EXTENDS CodeAnalyses, AdvancedInterpreter, BaselineInterpreter

\* The limit on the code size, which the static_assert of block_info relies on
\* and nothing enforces for the init code of a creation: all that is checked
\* and proved of executions is about codes within it.  An offset of the code is
\* a word and an int.
ASSUME CodeSizeAssumption ==
    /\ max_code_size < WordMod /\ max_code_size <= IntMax
    /\ \A c \in Codes : Len(c) <= max_code_size

ASSUME MessagesAssumption == \A m \in Messages : ValidMessage(m)
ASSUME EnvironmentsAssumption == \A e \in Environments : ValidEnvironment(e)

VARIABLE started   \* the execution states have been created

executionVars == <<advancedVars, baselineVars, msg, env, started>>
vars == <<code, rev, analysisVars, executionVars>>

Init ==
    /\ InitAnalyses
    /\ InitAdvanced /\ InitBaseline
    /\ msg = << >> /\ env = << >>
    /\ started = FALSE

Analyze == AnalyzeCode /\ UNCHANGED executionVars

\* execute(): the analysis is made and the state created from the message.
Start ==
    /\ analyzed /\ prepared /\ ~started
    /\ \E m \in Messages, e \in Environments :
         /\ msg' = m /\ env' = e
         /\ StartAdvanced(m, InitialHost(e))
         /\ StartBaseline(m, InitialHost(e))
    /\ started' = TRUE
    /\ UNCHANGED <<code, rev, analysisVars>>

AdvancedRunning == started /\ instr_it # 0
BaselineRunning == started /\ code_it # NoPosition
BothRunning == AdvancedRunning /\ BaselineRunning
BothDone == started /\ ~AdvancedRunning /\ ~BaselineRunning

\* The next instruction of Advanced stands for no instruction of the code.
AtInjectedBlock == /\ instr.fn = OPX_BEGINBLOCK
                   /\ instr_it \notin Range(jumpdest_targets)

StepBoth == BothRunning /\ ~AtInjectedBlock /\ AdvancedStep /\ BaselineStep

StepAdvanced == /\ AdvancedRunning
                /\ BaselineRunning => AtInjectedBlock
                /\ AdvancedStep /\ UNCHANGED baselineVars

StepBaseline == /\ BaselineRunning /\ ~AdvancedRunning
                /\ BaselineStep /\ UNCHANGED advancedVars

Execute == /\ started
           /\ StepBoth \/ StepAdvanced \/ StepBaseline
           /\ UNCHANGED <<code, rev, analysisVars, msg, env, started>>

Next == Analyze \/ Start \/ Execute

Spec == Init /\ [][Next]_vars /\ WF_vars(Next)

-----------------------------------------------------------------------------
ValidState(s) ==
    /\ s.gas_left \in Int
    /\ \A n \in 1..Len(s.stack) : s.stack[n] \in Word
    /\ \A n \in 1..Len(s.memory) : s.memory[n] \in Byte
    /\ Len(s.memory) % WordSize = 0
    /\ {s.output_offset, s.output_size} \subseteq Nat

\* The types of both execution states; the memory is whole words, as the
\* assert in Memory::grow demands.
TypeOK == started => /\ ValidState(advanced) /\ ValidState(baseline)
                     /\ instr_it \in 0..Len(instrs)
                     /\ current_block_cost \in 0..BlockGasMax

\* The unchecked accesses of both interpreters stay inside the stack storage,
\* the memory and the return data: checking the stack once per block, or once
\* per instruction with the underflow check skipped on a full stack, is enough,
\* memory is only touched after it has been grown, and return data only after
\* start and end of the range have been compared with its size.
NoFault == started => ~advanced.fault /\ ~baseline.fault

\* The interpreters are at the same instruction with the same stack, memory,
\* return data and effects on the host, and the gas of Advanced is behind by
\* exactly what its block was charged ahead. Only the value of a PUSH cut off by
\* the end of the code, read by Baseline from uninitialized padding, may differ.
SideBySide ==
    BothRunning =>
        /\ advanced.gas_left + ChargedAhead = baseline.gas_left
        /\ advanced.memory = baseline.memory
        /\ advanced.return_data = baseline.return_data
        /\ advanced.host = baseline.host
        /\ \/ /\ code_it = at[instr_it].offset
              /\ advanced.stack = baseline.stack
           \/ /\ code_it > Len(code) /\ at[instr_it].offset = Len(code)
              /\ Drop(advanced, 1).stack = Drop(baseline, 1).stack

\* The loop of Baseline only ever fetches bytes of the code or one of the two
\* STOPs that pad it, never the uninitialized bytes between them.
PaddingNotExecuted ==
    BaselineRunning => code_it \in 0..Len(code) \cup {scan_pos}

\* Both interpreters give the same result: a success or a revert with the same
\* gas, output and effects on the host, or a failure of some kind without gas
\* and output.
ResultsAgree ==
    BothDone =>
        LET a == Result(advanced)
            b == Result(baseline)
        IN  IF {a.status, b.status} \cap {"SUCCESS", "REVERT"} # {}
            THEN a = b /\ advanced.host = baseline.host
            ELSE \A r \in {a, b} : r.gas_left = 0 /\ r.output = << >>

\* No instruction that lets the execution go on is free, whatever it gets back
\* from a callee or as a stipend: a loop always runs out of gas.
EveryStepCosts ==
    [][BaselineRunning /\ BaselineRunning' /\ baselineVars' # baselineVars
         => baseline'.gas_left < baseline.gas_left]_vars

\* What a contract finds as return data after a call or create is what that
\* one left, the output of the callee or, when the host was not called, nothing,
\* and never what an earlier one returned.
ReturnDataOfThisCall ==
    [][BaselineRunning /\ BaselineRunning' /\ baselineVars' # baselineVars
         /\ padded_code[code_it] \in CallOps \cup CreateOps
         => baseline'.return_data =
              IF baseline'.host.effects = baseline.host.effects THEN << >>
              ELSE env.reply.output]_vars

\* In static mode an execution leaves the storage alone, logs, creates and
\* destroys nothing, and calls others in static mode only.  A CALL carries no
\* value; a CALLCODE, which moves none to another account, may name one.
StaticModeRespected ==
    started /\ msg.static =>
        \A s \in {advanced, baseline} :
            /\ s.host.storage = env.storage
            /\ \A n \in 1..Len(s.host.effects) :
                 LET e == s.host.effects[n]
                 IN  /\ e.kind \in {"CALL", "CALLCODE", "DELEGATECALL"}
                     /\ e.static
                     /\ e.kind = "CALL" => e.value = 0

\* Every execution ends, on a STOP or out of gas.
ExecutionTerminates == <>BothDone

=============================================================================
