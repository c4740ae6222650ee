# Verification of ivmone

ivmone executes the bytecode of one message against a host. It has two
interpreters that must be observably equal: **Advanced** (option `O=2`, the
default) translates the code to a table of instructions and checks gas and stack
once per basic block; **Baseline** (`O=0`) runs the code itself and checks before
every instruction. This project models both, with the code analyses they start
from and every instruction they run, compares them step by step with TLC, models
nested executions on any mix of the two with the options and tracers of the VM, and
proves with TLAPS what holds for every code (of executions: every code within
`max_code_size`), every memory and every number of frames.

## Inventory

All sources are under `src/lib/ivmone/`.

| Part | Source | State | Operations | What makes it correct |
|---|---|---|---|---|
| Instruction tables | `instruction_traits.hpp`, `baseline_instruction_table.cpp`, `get_op_table` | constant: cost per revision and opcode, stack traits | look-up | both derived tables agree; limits hold |
| Advanced analysis | `analysis.cpp`, `analysis.hpp`, `limits.hpp` | instruction table, push storage, jumpdest index, the open block | one iteration per instruction, closing a block, `find_jumpdest` | block sums stand for the checks and charges of the instructions; jumps land on the right block; pointers stay valid |
| Baseline analysis | `baseline.cpp` | jumpdest map, padded code | one iteration per instruction, padding | same jump destinations; the loop never executes uninitialized bytes |
| Execution state | `execution_state.hpp` | gas, stack, memory, return data, status, output | push, pop, index, grow, reset | no access outside stack, memory or return data; memory reads as zero where not written |
| Generic instructions | `instructions.hpp`, `instructions_calls.cpp` | the execution state | one function per instruction | gas, memory, static mode, call rules |
| Baseline interpreter | `baseline.cpp` | code position | `check_requirements`, dispatch | ends; every check in place |
| Advanced interpreter | `execution.cpp`, `instructions.cpp` | instruction pointer, cost of the current block | `opx_beginblock`, gas-correcting wrappers, jumps, pushes | same result as Baseline |
| Host (ivmc) | external | accounts, storage, access sets, logs | called by instructions | — |
| Nested executions | `instructions_calls.cpp` through the host | the frames that wait for a callee | call, return | gas is lent and given back exactly; static mode and depth are handed down; the mix of interpreters does not matter |
| VM, options | `vm.cpp`, `vm.hpp` | interpreter pointer, list of tracers | `set_option`, `add_tracer` | options change no result |
| Tracing | `tracing.cpp`, `tracing.hpp` | stack of contexts per tracer | start, instruction, end | each tracer counts for and reports on the frame that runs |

**Interaction.** `execute` of an interpreter analyses the code, creates the state
from the message and runs the loop. Instructions share nothing but the execution
state; they call the host, which may execute other messages before it answers
(with another state, on the interpreter that is set then, and with the tracers the VM
has then). The analysis is read-only while the code runs. There is one thread: nothing
in ivmone runs concurrently, but the host has control between executions and while a
frame waits, and may set options at these moments.

**What is hard.** No test reaches these easily: gas is charged per block, so in the
middle of a block `gas_left` is not what the program may see; one stack check
stands for many; sums are clamped to 16 and 32 bits; stack and memory are accessed
without checks; PUSH data may run past the code, into uninitialized padding; offsets are 256 bits
wide; failures happen between two effects of an instruction; a cleared memory keeps its
bytes; a message holds a raw pointer into a memory that moves when it grows; tracers
follow frames they are only partly told about. `PROJECT.json` lists
them under `hazards`, each at its line with the properties that would catch it.

## Modules

```
InstructionTraits   tables                     Words   word arithmetic
      |                                           |
   Bytecode         code, revision ------- ExecutionState   gas, stack, memory
    /      \                                      |
AdvancedAnalysis  BaselineAnalysis              Host            (external)
  |     \           /       |                     |
  |    CodeAnalyses          |          Instructions, InstructionsCalls
  |         |                |                    |
  |         |                |           GenericInstructions
  |         |                |             /            \
AdvancedInterpreter ---------+------------+              |
            |         BaselineInterpreter ---------------+
            |           /              \
         Interpreters -+            NestedExecution ---- VM -- Tracing
                                         |
                                     implements CallFrames

Memory  implements  ByteMemory                Memory -- CallBuffers
```

The proofs about a module are in the module of its name with `Proofs`, those about
`AdvancedAnalysis` and `BaselineAnalysis` in `CodeAnalysesProofs`, those about
`CallBuffers` in `MemoryProofs` and those about `NestedExecution` in `NestedProofs`. They
build on each other as the modules do: `InstructionsProofs`, `WordOperandsProofs` and
`NestedProofs` extend `WordsProofs`, and `InterpretersProofs` extends
`InstructionsProofs` and `CodeAnalysesProofs`.


* `InstructionTraits`: `gas_costs`, `traits`, `get_op_table`,
  `get_baseline_instruction_table`, grouped by value instead of one line per opcode.
  A revision takes the cost of the latest change at or before it.
* `AdvancedAnalysis`: `analyze()`. A step is one iteration of the loop;
  `AnalyzeJumpdest`, `AnalyzeSmallPush`, `AnalyzeLargePush`,
  `AnalyzeGasDependent`, `AnalyzePc` and `AnalyzeOther` are the cases of its switch,
  and each ends with `Advance`, the code after the switch that may close a block.
  `FinishAnalysis` is the code after the loop. `at` is a history variable: for every
  entry of the table, the block and the part of the code it comes from and the exact,
  unclamped sums before it. Indexes count from 1 and 0 is the null pointer.
* `BaselineAnalysis`: `baseline::analyze()`; the bytes left uninitialized are
  chosen from `JunkBytes`.
* `CodeAnalyses`: both analyses of the same code.
* `Words`: the computing instructions on words of `WordSize` bytes. Bit operations go
  through `FromBits`, a recursive function on the bits. `WordOperands` states what those
  made of masks and limits mean for numbers and bytes.
* `ExecutionState`: an instruction is an operator from a state to a state, and the
  status in the state is what it returns. `Then` is the early return on failure,
  `Charge` is `if ((gas_left -= cost) < 0) return OUT_OF_GAS`. The history field
  `fault` is set by an access outside the stack, the memory or the return data, where
  the code would read or write anyway. An output of size 0 is empty whatever its offset:
  the pointer that Advanced forms from the offset even then (`execution.cpp:23`), through
  which nothing is read, is not represented.
* `Host`: external. A deterministic host; its state is part of the execution
  state, so that two interpreters can run against two equal hosts. `call_result` is a
  callee that answers as the environment says without being executed; `Interpreters`
  uses it, `NestedExecution` does not.
* `Instructions`, `InstructionsCalls`, `GenericInstructions`: every instruction
  function, and the two dispatch tables where they agree. `call` and `create` are cut
  where they call the host: `call_request` ends with the message or an early return,
  `call_return` takes the result. `CallOrCreate` puts the parts together again.
* `BaselineInterpreter`: a step is one iteration of the loop.
* `AdvancedInterpreter`: a step is one instruction of the table; an action per
  function of `instructions.cpp`.
* `Interpreters`: both execute the same message. They share no state, so the order
  of their steps does not matter; the composition keeps them at the same
  instruction, which lets an invariant compare them.
* `Memory`: class `Memory`, with the allocation behind the memory. `realloc` and the
  initial allocation leave arbitrary bytes. `ByteMemory` is what instructions take it
  for: bytes that are 0 until written, forgotten by `clear`. `ExecutionState.memory` is
  that abstract memory; the refinement is why this is enough.
* `CallBuffers`: `Memory` while a call instruction runs, one step for each check of a
  range, the taking of the raw pointer `msg.input_data`, and the copy of the output.
  `allocation` is the identity of the block of memory, and changes if `realloc` moves it.
  Its `check_memory` has no failure: the instruction would end before a pointer is taken.
* `VM`, `Tracing`: `set_option`, the list of tracers and the two kinds of tracer. Each
  callback is an operator from a tracer to a tracer; the history field `misused` is set
  where the code would use the top of an empty stack or a null table.
* `NestedExecution`: a message executed `MaxExecutions` times on one VM. `ExecuteJob`
  and `ExecuteCallee` are the host calling `c_vm->execute`; `Analyze` and `StartFrame`
  are the rest of the entry point of either interpreter; `BaselineFrame` and
  `AdvancedFrame` run an instruction, or suspend the frame when it calls the host
  (`Suspend`); `ReturnToCaller` ends the callee and runs the rest of the waiting
  instruction (`Resume`), with the gas correction if the caller is Advanced.
  `ResetAndExecute` is the other pair of entry points, which take a state that was
  reset and an analysis that exists, as the benchmarks and state tests use them.
  `SetOption` is possible whenever the host has control.
  The host is external: it undoes what a callee did that has not succeeded, passes the
  input of a creation as its code, and answers with a fixed new address. It moves no
  balances and does not keep created code.
* `CallFrames`: the same without instructions, only gas, depth and static mode. A step
  is the innermost frame spending gas, calling, or returning.

Operators marked `Mutant` in the modules are altered versions of the definition
after them and part of no specification: they show that a property would notice.

## Runs

| Run | Module | Question | States |
|---|---|---|---|
| `code_analyses` | `MCCodeAnalyses` | Are the tables made by the two analyses right, and do they agree? | 315,282 |
| `control` | `MCControl` | Jumps, blocks, stack limits, running out of gas anywhere | 233,715 |
| `gas` | `MCGas` | Instructions that need the exact gas in the middle of a block; return data of calls that are refused | 271,058 |
| `data` | `MCData` | Memory, copies, arithmetic, host reads, logs, returns | 30,514 |
| `memory` | `Memory` | Is the memory zero where not written, across growth, reallocation and reuse? | 349,232 |
| `call_buffers` | `MCCallBuffers` | Does the pointer in a message survive the growth of the memory? | 138,144 |
| `words` | `MCWords` | Do masks and shifts compute the right numbers? | 44,352 |
| `call_frames` | `MCCallFrames` | What the abstract frames promise | 1,696 |
| `nested` | `MCNested` | Calls between frames of both interpreters, reuse of states | 346,645 |
| `nested_ends` | `MCNested` | Do nested executions end? | 8,632 |
| `tracing` | `MCNested` | Do tracers follow the frames? | 254,736 |
| `instrs_reserved` | `MCCodeAnalyses` | The assertion a FIXME asks for | violated |

Properties, in the order in which they build on each other (`PROJECT.json` says which
run checks which; where several could, the one whose programs are made for it does):

* `AdvancedAnalysisTypeOK`, `TypeOK`: the summaries of blocks fit the widths of
  `block_info`, words and bytes their own, and the memory is whole words, as
  `Memory::grow` asserts.

* `TableFollowsCode`, `BlockStackCheckExact`, `BlockGasExact`,
  `GasCorrectionExact`: what `analyze()` accumulates is exact. The stack check at the
  entry of a block passes exactly the heights at which each instruction of the block
  would pass its own, even when the summary was clamped; the gas charged is the sum of
  the costs; and block cost minus the number recorded in a gas-dependent instruction is
  what the instructions after it cost.
* `JumpdestIndexSound`, `PushStorageSuffices`: the preconditions of
  `lower_bound` and of the pointers into `push_values`.
* `JumpdestsAgree`: both analyses allow the same jumps.
* `NoFault`: no access outside the stack, the memory or the return data, in either
  interpreter.
* `SideBySide`: between any two instructions the two interpreters agree on stack,
  memory, return data and host, and Advanced's gas is behind by exactly what its block
  was charged ahead. The one exception is the value of a PUSH cut off by the end of the
  code, which Baseline reads from uninitialized bytes; execution stops right after it.
* `PaddingNotExecuted`: such bytes are never executed.
* `ResultsAgree`: both results are equal if one of them keeps its gas, that is, after
  success or revert; otherwise both are failures without gas or output. The kind of
  failure may differ (Advanced meets a stack underflow of an instruction further down
  its block before the out-of-gas Baseline meets first), as
  `docs/efficient_gas_calculation_algorithm.md` explains.
* `StaticModeRespected`: a static execution changes nothing and starts only static
  calls. A CALL carries no value; a CALLCODE may name one, which moves nothing to
  another account, and the code lets it pass.
* `ReturnDataOfThisCall`: the return data after a call or create is the output of its
  callee, or nothing if the host was not called, for its depth or the balance; what an
  earlier call returned is gone. It is stated of Baseline and holds of Advanced by
  `SideBySide`.
* `EveryStepCosts`, `ExecutionTerminates`, `AnalysesTerminate`: a step that goes on
  uses gas, so the loops end.
* `WithinAllocation`, `CapacityDoubles`, `ImplementsByteMemory`: the allocation
  suffices, every reallocation at least doubles it, and no byte shows that was not written
  since the last `clear()`.
* `InputPointerValid`: from the moment the message is made until the callee returns
  its input pointer leads to the bytes meant. That the output is copied inside the memory
  is part of `NoFrameFaults`.
* `OptionsDoNotMatter`: all executions of the same message have the same outcome,
  whatever interpreters their frames ran on and whether the state was new or reset. (The
  run has no tracers; they are given the state to read only.)
* `NoFrameFaults`: as `NoFault`, for frames that run and frames that wait.
* `StaticSubtreePure`: between the start of a static frame and any later moment of it,
  its callees at any depth included, storage does not change, and nothing happens on the
  host but static calls.
* `FramesHandDown`: depths count up by one from frame to frame to at most 1024, and below
  a static frame all are static.
* `ImplementsCallFrames`: `NestedExecution` implements `CallFrames`, with the exact gas
  of the innermost frame (what Advanced has charged ahead added back) and the gas after
  the request of the frames that wait. So the theorems about `CallFrames` are theorems
  about what the runs of `NestedExecution` cover.
* `Solvent`, `GasNeverGrows`: the theorems about `CallFrames`, on a small instance.
* `JobsFinish`: the message is executed as often as asked for.
* `ContextsMirrorFrames`, `ReportsOwnFrame`: the contexts of a tracer are those of the
  traced frames, in their order, with the right counts, depth, code and gas; and at the
  end of a traced frame every tracer reports on that frame. Excepted is a tracer added
  while a traced frame waits for a callee. It is told of the instructions and the end of
  a frame whose start it has missed, and uses the top of an empty stack: the code
  does not handle this case, and no document says that options may be set at that time.
* `SarDivides`, `SignextendKeepsNumber`, `ByteOfStored`, `DivisionsAddUp`: what the
  instructions mean for signed numbers and stored bytes.

**Bounds.** `code_analyses` takes every code of up to 4 bytes over ten opcodes: a
JUMPDEST, a small and a large PUSH (`SmallPushMax` is 1, so PUSH1 is small and PUSH2
large), a gas-dependent instruction with and without a large cost, PC, a terminator, an
undefined terminator, one that shrinks the stack, and SWAP7, which needs 8 items and
is clamped by `BlockStackMax = 7`; 5 and 6 bytes are over the four that make
instruction boundaries. Each opcode also serves as push data. With `StackLimit` 3 all
entry heights are compared. `control` has a stack of 2 items, so a full stack, an
overflow and an underflow are a few instructions away, and gas of 5, 12 and 40, which
runs out at every kind of instruction. `gas` and `data` run programs made of an
instruction with chosen operands and a few that follow; gas values lie around the sums
of the charges. The revisions of `gas` are one before the 63/64 rule (Homestead), one
with the SSTORE gas check of Istanbul and one with the access lists of Berlin (London);
those of `data` are one before and one with access lists. Words have 2 bytes (`WordSize`), so an all-ones word is
65535, beyond `max_buffer_size` 255, `IntMax` 32767 and `SizeMod` 4096 in the way the
256-bit one is beyond 2^32 - 1, 2^31 - 1 and 2^64. `Int64Max` 60000 is above all gas
values. `BlockGasMax` and `max_code_size` keep the relations of the `static_assert`s.

`memory` has pages of two words and sizes that need no growth of the allocation, a
doubling, and more than a doubling; every content of the allocation is tried.
`call_buffers` has pages of one word and ranges that are empty (also far outside),
overlap, fit and do not fit. `words` takes every value of one byte with the edges of the
other. `nested` starts at depth 1021, so that the limit of 1024 is three calls away;
calls with and without value, static, delegating, with all gas and with 90; callees that
return, revert, fail, run out of gas, loop, store, create, call on in three ways, and
call back until the depth is exhausted; gas for storing and gas that a cold access
exhausts; Homestead, before the 63/64 rule, and London. `MaxExecutions` 2 is what comparing
two outcomes and a reuse take. `nested_ends` and `tracing` have smaller frames, at depth
1022, of six kinds. `MaxTracers` is 2: one before and one after another, or one of each
kind.

**Fairness.** The specifications with a liveness property have weak fairness of
the whole next-state relation: analysis and execution are a sequential loop that only
stops by leaving it. Nothing is assumed of single steps, nor of the host, which
answers within the step that calls it. In `NestedExecution` weak fairness is of the
steps other than `SetOption`: the host goes on with the execution it has begun, as a
function that it has called must return, and may set options any number of times but
not instead of that.

**Deadlock** is not checked where an execution ends and nothing follows it. In
`memory`, `call_buffers`, `words`, `call_frames` and the nested runs it is: the host can
always begin something.

**The finding.** `analyze()` reserves `code_size + 1` instructions and a comment wants
to assert that this suffices ("FIXME: assert(analysis.instrs.size() <=
max_instrs_size);", `analysis.cpp:175`). It does not, already for the empty code, whose
table is a BEGINBLOCK and a STOP (`InstrsReserved` in `instrs_reserved`). The consequence is a reallocation and nothing more.

## Proofs

`CodeAnalysesProofs` proves, for every set of codes, every instruction table
that meets the assumptions, and all limits:

| Theorem | States |
|---|---|
| `AnalysisTypes` | `AdvancedAnalysisSpec => []AdvancedAnalysisTypeOK` |
| `StackCheckExact` | `... => []BlockStackCheckExact` |
| `GasExact` | `... => []BlockGasExact` |
| `GasCorrected` | `... => []GasCorrectionExact` |
| `TableCoversCode` | `... => []TableFollowsCode` |
| `JumpdestsSound` | `... => []JumpdestIndexSound` |
| `PushStorageEnough` | `... => []PushStorageSuffices` |

All follow from `AnalysisInvariant`. The properties speak of closed blocks, while the
steps work on the open one, so none is inductive by itself. `AnalysisInv` adds:

* the open block's sums are the exact `Summary` of its members: upper bounds of what
  each needs, reaches and costs, and attained by one of them (or 0). Attainment is what
  makes the check exact and not just safe;
* the last table entry belongs to the open block and ends at `code_pos`;
* every other block has been `Saved`: its argument is the clamp of an exact summary,
  and stays so because later instructions belong to other blocks;
* when the next byte is a JUMPDEST, the open block is `Fresh`, its BEGINBLOCK being
  the last entry: this is the comment "The JUMPDEST is always the first instruction in
  the block" in `analyze()`;
* the gas of a block is at most `code_pos * max_instruction_base_cost`, which with the
  `static_assert` gives that `close()` never clamps it;
* `2 * Len(push_values) <= code_pos`, up to a last value cut off by the end of the code.

A step is decomposed as the code is: `EmitStep` or `MergeStep` for the
instruction, `AdvanceStep` with `NewBlockStep` for a block that ends. A clamped
summary decides as the exact one because `StackLimit < BlockStackMax`.

`GasCorrectionExact` speaks of a sum over the instructions of a block that follow one of
them. No step of the analysis adds up such a sum, so the invariant cannot carry it. The
proof is about the table instead: the instructions of a block are consecutive entries
(`BlockConsecutive`), each entry keeps the exact sum before it, and the sum over a range of
consecutive entries is the difference of two of these (`SumOfCosts`, by induction on the
end of the range through `LeastElement`, as a set and not as an operator).

Assumptions, all evaluated by TLC on its instances: codes are sequences of bytes;
table costs are between 0 and `max_instruction_base_cost`; an instruction does not pop
more than it requires; STOP costs nothing; and the `static_assert`s of `block_info`.
The table itself is a constant of the proof; TLC's instances use `get_op_table`.

`MemoryProofs` proves, for all word and page sizes, byte values and sequences of sizes:
`MemoryAllocated` (`SpecMemory => []WithinAllocation`), `MemoryDoubles` (`... =>
CapacityDoubles`) and `MemoryRefines` (`... => ImplementsByteMemory`). The inductive
invariant `AllocationInv` adds the types and that sizes are whole words. `CapacityFor`
is the heart: the capacity for a new size is at least that size, whole pages, and
unchanged or at least doubled, since the path that rounds up to pages is only taken when
doubling gives too little. Each step then maps to a step of `ByteMemory` or a stutter:
bytes up to the old size are kept by `realloc`, those above are cleared.

`CallFramesProofs` proves `FramesSolvent` and `NoGasGained`, that `CallFrames` implies
`[]Solvent` and `GasNeverGrows`, for any gas, any number of frames and any limit of
depth. `Solvent` is inductive; the proof is in terms of sequences (`Sound`), with a lemma for
each of the three things a step does to the frames: `SpendingSound`, `CallingSound`,
`ReturningSound`. That a return gives the caller a natural number of gas rests on
`Solvent`: what a callee used was lent to it.

`MemoryProofs` also proves `CallInputValid` (`Spec => []InputPointerValid`) and
`CallMemoryAllocated`, for all ranges and sizes. `CallInv` adds that a range that was
checked lies inside the memory, that the memory only grows between the check and the use,
and that the pointer was taken after the last growth: `realloc` may move the block until
then and not after.

`CodeAnalysesProofs` also proves `TableOfCode` and `SameJumpdests` (`AnalysesSpec =>
[]JumpdestsAgree`), for every code. The two analyses agree because both visit the same
instructions: `TableInv` says that the entries of Advanced's table are, in order and
without gaps, the instructions of the code, each translated as its opcode asks
(`Translated`), with the BEGINBLOCKs that stand for none (`Injected`) between them and one
STOP after them (`Appended`); `ScanInv` that the marks of Baseline's map are the
JUMPDESTs among the boundaries passed so far, and that the scan is at one of them or past
the end of a cut-off PUSH; `PaddingInv` what the padded code holds. `find_jumpdest` is
then exact because the index is sorted (`FindJumpdestExact`).

`WordOperandsProofs` proves the four invariants of `WordOperands` (`SarDividesAlways`,
`SignextendKeepsNumberAlways`, `ByteOfStoredAlways`, `DivisionsAddUpAlways`) for every
width of a word and all operands. The bit operations are sums over bits (`FromBits`); the
lemmas first say what the masks of `sar` and `signextend` select and that `or_` of words
without common bits is their sum, by induction over the bits as sets (`RangeInduction`,
`Recursion` in `WordsProofs`), and the rest is arithmetic of quotients.

`WordsProofs` and `InstructionsProofs` prove what every instruction does to every state.
`Sound` is the invariant of an execution state: its types, no fault, gas that is
not negative while the status is success, and a host changed only as the message allows. For each
instruction a lemma says that on a sound state with the operands the tables ask for and
room for what it pushes (`Fits`) it gives a sound state, no more gas, no output, and the
height the tables announce (`Runs`); `GenericRuns`, `CallOrCreateRuns` and `SstoreRuns` put them
together. A second series compares the outcomes on two states that differ in gas only
(`Agree`, `GenericAgrees`): they differ as before, or both fail, or the one with less gas fails and the
other is left with less than the difference.

`InterpretersProofs` proves, for every code within `max_code_size` and every message,
environment, revision and limit (`CodeSizeAssumption`; the `static_assert` of `block_info` relies on
the limit, and nothing enforces it for the init code of a creation):

| Theorem | States |
|---|---|
| `ExecutionsSound` | `Spec => []ExecutionInv` |
| `StatesTyped` | `... => []TypeOK` |
| `NothingOutOfBounds` | `... => []NoFault` |
| `PaddingNeverRuns` | `... => []PaddingNotExecuted` |
| `StaticModeHolds` | `... => []StaticModeRespected` |
| `GasRunsDown` | `... => EveryStepCosts` |
| `ReturnDataFresh` | `... => ReturnDataOfThisCall` |
| `InterpretersInStep` | `... => []JointInv` |
| `StepByStep` | `... => []SideBySide` |
| `SameResults` | `... => []ResultsAgree` |

None of the properties is inductive. `ExecutionInv` adds to the invariants of the
analyses that both states are `Sound`; that Baseline is at a boundary of the code, at
its end or at the STOP after the padding; and for Advanced, in the middle of a block
(`Inside`), that the height with which the block was entered has passed the block's check
and the cost that was charged is that of the block. From `BlockStackCheckExact` follows
that the instruction it runs `Fits` (`InsideFits`), from `BlockGasExact` that the gas
correction is not negative.

`ReturnDataFresh` follows the state through a call or create: each part before the host is
called leaves the effects on the host alone (`Quiet`), so that the effects tell after the
instruction whether the host was called, and the return data is cleared on the one way
that succeeds without calling it (`Leaves`).

The last three theorems are the equality of the interpreters. `JointInv` says which pairs of
states an execution can be in:

* `Together`: at the same instruction, Baseline's state being Advanced's with the gas
  charged ahead put back. `SideBySide` is what this says of the state;
* `CutOff`: both have run a PUSH that the end of the code cuts off. Its values may differ,
  but only STOP is left, which costs nothing and returns nothing;
* `Alone`: Advanced has failed and Baseline is still on its way through the same block,
  which is `Short`: its gas is below what the rest of the block costs, or a later
  instruction of the block fails its stack check;
* `Over`: both have failed, or both give the same result on the same host.

`Short` carries the proof over the steps Baseline takes alone. It holds when Advanced refuses
a block, since the block's check is exact and not just safe (`StackCheckExact`,
`GasExact`), and when Advanced runs out of gas in the middle of a block, by
`GenericAgrees`. It stays true while Baseline goes on (`ShortOn`), and a block that is short has no
last instruction that succeeds, so Baseline fails in this block too. Until then it may have
changed the host, by an SSTORE or a call Advanced never came to: `ResultsAgree` compares the
hosts only after a success or a revert, as the host undoes the effects of a failure. At the
last instruction of a block the gas charged ahead is zero, so what is returned is the same.

Assumptions on the constants, beyond those above, are the ones the code makes or its types impose:
the instruction tables are those of `get_op_table` and `get_baseline_instruction_table`;
a full stack has enough items for any instruction of the code
(`RequirementsAssumption`, which 1024 meets); the gas of a message is at most
`Int64Max`, and that is a word; code size, offsets and the largest memory (`MemoryLimit`, what
`max_buffer_size` allows) are words; messages and environments have their types
(`ValidMessage`, `ValidEnvironment`). `PowersAssumption` states the recursion of the
powers of 2 and 256, as the prover has no theory of `^`. TLC evaluates all of them.

`NestedProofs` proves `ContextsMirrorFramesAlways` (`Spec => []ContextsMirrorFrames`), for
every tree of calls, any number of tracers and every moment at which options may be set.
The invariant is inductive but for the traced frames being a selection among all
frames: `TracedOf` is computed by recursion over the frames, so lemmas say what it gives
for a frame that is added and one that is taken away, and one lemma for each action how
its callbacks change the contexts of all tracers alike. That frames which are not traced
may lie between traced ones is the hard case: at the end of a traced callee the context
below is that of the nearest traced frame, not of the caller.

`FramesAlwaysHandDown` (`Spec => []FramesHandDown`) is about the messages the frames execute: depths count up from that
of the outermost message to at most `max_call_depth`, and below a static frame, at any
distance, all frames are static. The check of the depth and the flags are in one frame,
and a create makes a message that is not static; the invariant is about all pairs of live
frames, as what an action adds is only known of caller and callee. It assumes that the
host executes no message below the greatest depth (`JobsAssumption`).

**Only model-checked:** that `NestedExecution` implements `CallFrames`,
`NoFrameFaults`, `StaticSubtreePure` and `ReportsOwnFrame`; `OptionsDoNotMatter`, which
compares two executions of a whole tree of calls that run one after the other; liveness (fairness is out
of the prover's reach).

## Not modelled

What the tracers print beyond their final report, `get_capabilities`, creation and
destruction of a VM, memory allocation failure (`std::terminate`), hashing itself,
transfers of balance and the keeping of created code (both the host's), the unit
tests, benchmarks, fuzzer and build scripts.

## Plan

1. *(done)* Tables, both analyses, both interpreters with every instruction, their
   comparison; proofs about the analysis of Advanced.
2. *(done)* `Memory` as an implementation of `ByteMemory`, `reset()` and the reuse of
   a state, `CallBuffers`; proofs.
3. *(done)* `CallFrames` and its proofs, `NestedExecution`, `VM`, `Tracing`.
4. *(done)* `Words` against reference definitions.
5. *(done)* Proofs about the analyses of Baseline, `CallBuffers`, every instruction and
   both interpreters.
6. *(done)* `SideBySide` and `ResultsAgree` from `GenericAgrees` and `ExecutionInv`.
7. *(done)* `GasCorrectionExact`, `WordOperands`, and the contexts of the tracers.
8. Theorems still worth proving: the invariants of `NestedExecution` (`NoFrameFaults`,
   `StaticSubtreePure`) from the theorems about one execution.
