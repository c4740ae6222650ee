--------------------------- MODULE NestedExecution ---------------------------
(***************************************************************************)
(* A VM instance that executes the same message several times, with the    *)
(* interpreter and the tracers its options ask for, against a host that    *)
(* has it execute the callees too.  Each frame, the outermost or a callee, *)
(* analyzes its code, runs, and returns its result to the call instruction *)
(* that waits for it.  A callee runs with the interpreter that is set when *)
(* it starts, so frames of both kinds may call each other.                 *)
(*                                                                         *)
(* The variables of the analyses and interpreters are those of the         *)
(* innermost frame; callers holds those of the frames that wait.           *)
(***************************************************************************)
EXTENDS AdvancedInterpreter, BaselineInterpreter, VM

CONSTANT MaxExecutions   \* bound: the number of executions of the message

ASSUME MaxExecutionsAssumption == MaxExecutions \in Nat \ {0}

\* A host executes no message below the greatest depth.
ASSUME JobsAssumption ==
    \A m \in Messages : m.depth \in 0..max_call_depth /\ m.static \in BOOLEAN

VARIABLES control,      \* who runs: "idle", "host", "analysis", "frame"
          interpreter,  \* of the innermost frame
          traced,       \* it runs with TracingEnabled
          executed,     \* history: the opcodes it has run, a bag
          entry,        \* history: the host when it started
          callers,      \* the frames that wait, the outermost first
          job,          \* the message that is executed again and again
          executions,   \* how often
          outcomes      \* history: what came of it

analysisVars == <<advancedAnalysisVars, baselineAnalysisVars>>
frameVars == <<interpreter, traced, executed, entry>>
hostVars == <<rev, env, job, executions, outcomes>>
vars == <<code, msg, analysisVars, advancedVars, baselineVars, frameVars,
          callers, control, vmVars, hostVars>>

Init ==
    /\ code = << >> /\ rev \in Revisions
    /\ InitAdvancedAnalysis /\ InitBaselineAnalysis
    /\ InitAdvanced /\ InitBaseline /\ InitVM
    /\ job \in Messages /\ env \in Environments
    /\ msg = job /\ callers = << >> /\ control = "idle"
    /\ interpreter = "advanced" /\ traced = FALSE
    /\ executed = EmptyBag /\ entry = << >>
    /\ executions = 0 /\ outcomes = {}

-----------------------------------------------------------------------------
\* The state of the innermost frame, and whether it has ended.
state == IF interpreter = "baseline" THEN baseline ELSE advanced
Ended == IF interpreter = "baseline" THEN code_it = NoPosition
         ELSE instr_it = 0

\* A traced execution waits for the host.
TracedWaits == \E n \in DOMAIN callers : callers[n].traced

\* The host may set options whenever it has control.
SetOption ==
    /\ control \in {"idle", "host"}
    /\ \E name \in {"O", "trace", "histogram", "?"}, value \in {"0", "2", "?"} :
         /\ name # "O" => value = "?"
         /\ set_option(name, value, TracedWaits)
    /\ UNCHANGED <<code, msg, analysisVars, advancedVars, baselineVars,
                   frameVars, callers, control, hostVars>>

\* The code a message executes: the code of an account, or the input of a
\* creation.
CodeOf(m) == IF m.kind \in {"CREATE", "CREATE2"} THEN m.input
             ELSE get_code(m.code_address)

\* The host calls c_vm->execute: the interpreter set now analyzes the code.
Enter(m) ==
    /\ msg' = m /\ code' = CodeOf(m)
    /\ interpreter' = execute /\ control' = "analysis"
    /\ code_pos' = 0 /\ instrs' = << instruction(OPX_BEGINBLOCK) >>
    /\ push_values' = << >>
    /\ jumpdest_offsets' = << >> /\ jumpdest_targets' = << >>
    /\ block' = block_analysis(1) /\ analyzed' = FALSE
    /\ at' = << Origin(block_analysis(1), 0, 0, NoInfo) >>
    /\ scan_pos' = 0 /\ padded_code' = [n \in {} |-> 0] /\ prepared' = FALSE
    /\ jumpdest_map' = [n \in 0..Len(CodeOf(m)) - 1 |-> FALSE]
    /\ traced' = FALSE /\ executed' = EmptyBag /\ entry' = << >>
    /\ advanced' = << >> /\ baseline' = << >>
    /\ instr_it' = 1 /\ code_it' = 0 /\ current_block_cost' = 0
    /\ option_result' = "none" /\ UNCHANGED <<execute, tracers>>

ExecuteJob == /\ control = "idle" /\ executions < MaxExecutions
              /\ Enter(job)
              /\ executions' = executions + 1
              /\ UNCHANGED <<callers, rev, env, job, outcomes>>

ExecuteCallee == control = "host" /\ Enter(msg) /\ UNCHANGED <<callers, hostVars>>

Analyze ==
    /\ control = "analysis"
    /\ \/ /\ interpreter = "advanced" /\ AdvancedAnalyze
          /\ UNCHANGED baselineAnalysisVars
       \/ /\ interpreter = "baseline" /\ BaselineAnalyze
          /\ UNCHANGED advancedAnalysisVars
    /\ UNCHANGED <<msg, advancedVars, baselineVars, frameVars, callers,
                   control, vmVars, hostVars>>

\* baseline::execute(vm, state, analysis) chooses the loop with or without
\* tracing and tells the tracers.
BeginLoop ==
    /\ traced' = (interpreter = "baseline" /\ HasTracer)
    /\ tracers' = IF interpreter = "baseline"
                  THEN notify_execution_start(tracers, rev, msg, code)
                  ELSE tracers
    /\ executed' = EmptyBag
    /\ control' = "frame"

\* The host of a callee is in the state its caller left it in.
StartFrame ==
    LET h == IF callers = << >> THEN InitialHost(env)
             ELSE top(callers).request.state.host
    IN  /\ control = "analysis"
        /\ \/ /\ interpreter = "advanced" /\ analyzed
              /\ StartAdvanced(msg, h) /\ UNCHANGED baselineVars
           \/ /\ interpreter = "baseline" /\ prepared
              /\ StartBaseline(msg, h) /\ UNCHANGED advancedVars
        /\ BeginLoop
        /\ entry' = h
        /\ UNCHANGED <<code, msg, analysisVars, interpreter, callers, execute,
                       option_result, hostVars>>

\* The other entry points: the state of the last execution is reset and used
\* again with the same analysis.
ResetAndExecute ==
    LET h == InitialHost(env)
    IN  /\ control = "idle" /\ executions \in 1..MaxExecutions - 1
        /\ \/ /\ interpreter = "advanced"
              /\ advanced' = reset(advanced, job, h)
              /\ instr_it' = 1 /\ current_block_cost' = 0
              /\ UNCHANGED baselineVars
           \/ /\ interpreter = "baseline"
              /\ baseline' = reset(baseline, job, h)
              /\ code_it' = 0
              /\ UNCHANGED advancedVars
        /\ BeginLoop
        /\ entry' = h
        /\ executions' = executions + 1
        /\ UNCHANGED <<code, msg, analysisVars, interpreter, callers, execute,
                       option_result, rev, env, job, outcomes>>

-----------------------------------------------------------------------------
\* A call or create of Baseline, its requirements checked, and of Advanced,
\* its gas corrected.
NoRequest == NoCall(state)
BaselineRequest ==
    LET op == padded_code[code_it]
        checked == check_requirements(BaselineTable[rev][op], baseline)
    IN  IF op \in CallOps \cup CreateOps /\ Succeeded(checked)
        THEN RequestOf(op, checked) ELSE NoRequest
AdvancedRequest == IF instr.fn \in CallOps \cup CreateOps
                   THEN RequestOf(instr.fn, exact) ELSE NoRequest

\* The message the host has executed: that of a creation is for the new
\* account.
HostMessage(m) == IF m.kind \in {"CREATE", "CREATE2"}
                  THEN [m EXCEPT !.recipient = env.create_address] ELSE m

\* The frame waits for the answer to its request.
Suspend(request) ==
    /\ callers' = Append(callers,
         [code |-> code, msg |-> msg, interpreter |-> interpreter,
          traced |-> traced, executed |-> executed', entry |-> entry,
          request |-> request,
          instrs |-> instrs, push_values |-> push_values, at |-> at,
          jumpdest_offsets |-> jumpdest_offsets,
          jumpdest_targets |-> jumpdest_targets,
          instr_it |-> instr_it, current_block_cost |-> current_block_cost,
          padded_code |-> padded_code, jumpdest_map |-> jumpdest_map,
          scan_pos |-> scan_pos, code_it |-> code_it])
    /\ msg' = HostMessage(request.message)
    /\ control' = "host"
    /\ UNCHANGED <<advancedVars, baselineVars>>

\* The frame runs an instruction that does not call the host to execute.
RunOn == UNCHANGED <<callers, msg, control>>

BaselineFrame ==
    /\ control = "frame" /\ interpreter = "baseline" /\ ~Ended
    /\ LET inside == code_it < Len(code)
       IN  /\ tracers' = IF traced /\ inside
                         THEN notify_instruction_start(tracers, code_it)
                         ELSE tracers
           /\ executed' = IF inside
                          THEN executed (+) SetToBag({code[code_it + 1]})
                          ELSE executed
    /\ \E request \in {BaselineRequest} :
         \/ request.calls /\ Suspend(request)
         \/ ~request.calls /\ BaselineStep /\ RunOn /\ UNCHANGED advancedVars
    /\ UNCHANGED <<code, analysisVars, interpreter, traced, entry, execute,
                   option_result, hostVars>>

AdvancedFrame ==
    /\ control = "frame" /\ interpreter = "advanced" /\ ~Ended
    /\ executed' = executed
    /\ \E request \in {AdvancedRequest} :
         \/ request.calls /\ Suspend(request)
         \/ ~request.calls /\ AdvancedStep /\ RunOn /\ UNCHANGED baselineVars
    /\ UNCHANGED <<code, analysisVars, interpreter, traced, entry, vmVars,
                   hostVars>>

-----------------------------------------------------------------------------
\* What the host makes of the result of a callee: the changes of a callee that
\* has not succeeded are undone, and what a creation returns is the code of
\* the new account.
HostResult(m, result) ==
    [status_code |-> result.status, gas_left |-> result.gas_left,
     output |-> IF m.kind \in {"CREATE", "CREATE2"}
                   /\ result.status = "SUCCESS" THEN << >>
                ELSE result.output,
     create_address |-> env.create_address]

HostAfter(request) == IF state.status = "SUCCESS" THEN state.host
                      ELSE request.state.host

\* The waiting frame f goes on with the state its instruction leaves.
Resume(f, result) ==
    LET request == [f.request EXCEPT !.state.host = HostAfter(f.request)]
        op == IF f.interpreter = "baseline" THEN f.padded_code[f.code_it]
              ELSE f.instrs[f.instr_it].fn
        answered == Answered(op, request, HostResult(msg, result))
        correction == f.current_block_cost - f.instrs[f.instr_it].number
        corrected == TakeBack(answered, correction)
    IN  /\ code' = f.code /\ msg' = f.msg
        /\ interpreter' = f.interpreter /\ traced' = f.traced
        /\ executed' = f.executed /\ entry' = f.entry
        /\ instrs' = f.instrs /\ push_values' = f.push_values /\ at' = f.at
        /\ jumpdest_offsets' = f.jumpdest_offsets
        /\ jumpdest_targets' = f.jumpdest_targets
        /\ padded_code' = f.padded_code /\ jumpdest_map' = f.jumpdest_map
        /\ scan_pos' = f.scan_pos
        /\ current_block_cost' = f.current_block_cost
        /\ \/ /\ f.interpreter = "baseline"
              /\ baseline' = answered /\ advanced' = << >>
              /\ code_it' = f.code_it + 1
              /\ instr_it' = f.instr_it
           \/ /\ f.interpreter = "advanced"
              /\ advanced' = corrected /\ baseline' = << >>
              /\ instr_it' = IF Succeeded(corrected) THEN f.instr_it + 1 ELSE 0
              /\ code_it' = f.code_it
        /\ UNCHANGED <<code_pos, block, analyzed, prepared>>

EndOfLoop ==
    tracers' = IF traced THEN notify_execution_end(tracers, Result(state))
               ELSE tracers

ReturnToCaller ==
    /\ control = "frame" /\ Ended /\ callers # << >>
    /\ EndOfLoop
    /\ Resume(top(callers), Result(state))
    /\ callers' = pop(callers)
    /\ UNCHANGED <<control, execute, option_result, hostVars>>

\* Failures differ in kind only, and what is not a success leaves no trace.
Outcome(s) ==
    [status   |-> IF s.status \in {"SUCCESS", "REVERT"} THEN s.status
                  ELSE "FAILURE",
     gas_left |-> Result(s).gas_left, output |-> Result(s).output,
     host     |-> IF s.status = "SUCCESS" THEN s.host ELSE InitialHost(env)]

FinishJob ==
    /\ control = "frame" /\ Ended /\ callers = << >>
    /\ EndOfLoop
    /\ outcomes' = outcomes \cup {Outcome(state)}
    /\ control' = "idle"
    /\ UNCHANGED <<code, msg, analysisVars, advancedVars, baselineVars,
                   frameVars, callers, execute, option_result, rev, env, job,
                   executions>>

Step == \/ ExecuteJob \/ ResetAndExecute \/ ExecuteCallee \/ Analyze
        \/ StartFrame \/ BaselineFrame \/ AdvancedFrame
        \/ ReturnToCaller \/ FinishJob

Next == SetOption \/ Step

Spec == Init /\ [][Next]_vars

\* The host sets options only so often, but goes on with what it has begun.
FairSpec == Spec /\ WF_vars(Step)

-----------------------------------------------------------------------------
\* The same message always comes to the same end, with the same gas, output
\* and effects: whatever mix of interpreters its frames ran on, and whether the
\* state was new or reset after an earlier use.
OptionsDoNotMatter == Cardinality(outcomes) <= 1

\* No frame, running or waiting, has reached outside of its stack or memory.
NoFrameFaults ==
    /\ control = "frame" => ~state.fault
    /\ \A n \in DOMAIN callers : ~callers[n].request.state.fault

\* The exact gas of the innermost frame: an Advanced frame has its block
\* charged ahead, and a frame that has failed has none.
FrameGas == IF control # "frame" THEN msg.gas
            ELSE IF Ended THEN Result(state).gas_left
            ELSE IF interpreter = "baseline" THEN baseline.gas_left
            ELSE advanced.gas_left + ChargedAhead

AbstractFrame(m, g) == [gas |-> g, start |-> m.gas, depth |-> m.depth,
                        static |-> m.static]

\* Nested executions keep the promises of CallFrames: gas is lent to a callee
\* out of what the caller has, all that is not used comes back and no more,
\* depth is bounded and static mode handed down, for both interpreters and
\* every mix of them.
Frames == INSTANCE CallFrames
            WITH MaxDepth <- max_call_depth,
                 frames <- IF control = "idle" THEN << >>
                           ELSE Append([n \in DOMAIN callers |->
                                  AbstractFrame(callers[n].msg,
                                    callers[n].request.state.gas_left)],
                                  AbstractFrame(msg, FrameGas))
ImplementsCallFrames == Frames!Spec

\* A static frame and everything below it, through any chain of call kinds,
\* leaves the storage as it was when the frame started, and has no effects
\* but static calls; a CALL carries no value, a CALLCODE, which moves none, may.
StaticSubtreePure ==
    LET live == control = "frame"
        now == IF live THEN state.host ELSE top(callers).request.state.host
        entries == {callers[n].entry : n \in {k \in DOMAIN callers :
                                               callers[k].msg.static}}
                     \cup (IF live /\ msg.static THEN {entry} ELSE {})
    IN  \A e \in entries :
          /\ now.storage = e.storage
          /\ \A n \in Len(e.effects) + 1..Len(now.effects) :
               LET effect == now.effects[n]
               IN  /\ effect.kind \in {"CALL", "CALLCODE", "DELEGATECALL"}
                   /\ effect.static
                   /\ effect.kind = "CALL" => effect.value = 0

\* The frames that wait and the message m of the innermost one: depths count
\* up by one, those that wait have not reached the limit, and static mode is
\* never left.
HandedDown(frames, m) ==
    /\ \A n \in 1..Len(frames) :
         /\ frames[n].msg.depth = job.depth + n - 1
         /\ frames[n].msg.depth < max_call_depth
         /\ frames[n].msg.static => m.static
    /\ \A k, n \in 1..Len(frames) :
         k < n /\ frames[k].msg.static => frames[n].msg.static
    /\ m.depth = job.depth + Len(frames)
    /\ m.depth <= max_call_depth

\* Depths count up by one from that of the outermost message to at most
\* max_call_depth, and below a static frame, at any distance and through any
\* chain of calls, there are only static ones, the callee that is about to
\* start included.
FramesHandDown == HandedDown(callers, msg)

\* Every execution ends, whatever the options are set to on its way: the
\* message is executed as often as asked for.
JobsFinish == <>(executions = MaxExecutions /\ control = "idle")

-----------------------------------------------------------------------------
\* What a tracer may know of a frame.
Traced(f) == [msg |-> f.msg, code |-> f.code, executed |-> f.executed]
Innermost == [msg |-> msg, code |-> code, executed |-> executed]

\* The traced frames of a sequence of frames, in their order.
TracedOf(frames) ==
    LET select[n \in 0..Len(frames)] ==
          IF n = 0 THEN << >>
          ELSE IF frames[n].traced
          THEN Append(select[n - 1], Traced(frames[n])) ELSE select[n - 1]
    IN  select[Len(frames)]

\* Those that have started and not ended, the outermost first.
LiveTraced == IF control = "frame" /\ traced
              THEN Append(TracedOf(callers), Innermost) ELSE TracedOf(callers)

\* The contexts of a tracer are those of the traced frames, in their order:
\* the instruction counted or printed belongs to the frame that runs it,
\* through every way a callee may end, with frames between them that are not
\* traced.  The top of an empty stack is never used, nor a missing table of
\* names.  Excepted is a tracer that was added while a traced execution waited
\* for a callee: it gets ends without starts.
ContextsMirrorFrames ==
    \A n \in DOMAIN tracers :
      LET t == tracers[n]
      IN  t.late \/
          /\ ~t.misused
          /\ Len(t.contexts) = Len(LiveTraced)
          /\ \A k \in DOMAIN t.contexts :
               LET ctx == t.contexts[k]
                   f == LiveTraced[k]
               IN  /\ ctx.code = f.code
                   /\ IF IsHistogram(t)
                      THEN ctx.depth = f.msg.depth /\ ctx.counts = f.executed
                      ELSE ctx.start_gas = f.msg.gas
          /\ ~IsHistogram(t) => (t.opcode_names = rev) = (LiveTraced # << >>)

\* When a traced frame ends, each tracer reports on that frame: the histogram
\* its depth and exactly the instructions it has run, also those before and
\* after its calls; the trace the gas it has used, callees included.
ReportsOwnFrame ==
    [][control = "frame" /\ Ended /\ traced =>
         \A n \in DOMAIN tracers :
           LET t == tracers[n]
               used == msg.gas - Result(state).gas_left
           IN  t.late \/
               IF IsHistogram(t)
               THEN tracers'[n].out = [depth |-> msg.depth,
                                       counts |-> executed]
               ELSE /\ tracers'[n].out.gasUsed = used
                    /\ used \in 0..msg.gas]_vars

=============================================================================
