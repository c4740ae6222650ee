--------------------------- MODULE ExecutionState ----------------------------
(***************************************************************************)
(* The state the generic instructions work on: gas, stack, memory, return  *)
(* data, status and output.  An instruction is an operator from a state to *)
(* a state; the status it leaves is the status code it returns, SUCCESS    *)
(* letting the execution go on.                                            *)
(*                                                                         *)
(* Stack, memory and return data are accessed in the code by raw pointers  *)
(* without any check.  The history field fault records an access outside   *)
(* of them.                                                                *)
(***************************************************************************)
EXTENDS Bytecode, Words

CONSTANTS Messages,         \* the messages an execution may be started with
          max_buffer_size,  \* largest memory offset and size: 2^32 - 1
          SizeMod           \* the number of size_t values: 2^64

ASSUME BufferAssumption ==
    /\ {max_buffer_size, SizeMod} \subseteq Nat
    /\ 2 * max_buffer_size < SizeMod

\* More than the memory of an execution may ever have: its size is a word.
MemoryLimit == 2 * max_buffer_size + 2 * WordSize

ASSUME MemoryLimitAssumption == MemoryLimit < WordMod

VARIABLE msg   \* the message being executed

\* The state for a message m and a host in state h.
NewExecutionState(m, h) ==
    [gas_left |-> m.gas, stack |-> << >>, memory |-> << >>,
     return_data |-> << >>, status |-> "SUCCESS", output_offset |-> 0,
     output_size |-> 0, host |-> h, fault |-> FALSE]

\* Mutant: the return data of the last call stays.
ResetButReturnData(s, m, h) ==
    [s EXCEPT !.gas_left = m.gas, !.stack = << >>, !.memory = << >>,
              !.host = h, !.status = "SUCCESS", !.output_offset = 0,
              !.output_size = 0]

\* reset(): a used state is made ready for a message m and a host in state h.
reset(s, m, h) ==
    [s EXCEPT !.gas_left = m.gas, !.stack = << >>, !.memory = << >>,
              !.host = h, !.return_data = << >>, !.status = "SUCCESS",
              !.output_offset = 0, !.output_size = 0]

Succeeded(s) == s.status = "SUCCESS"
Fail(s, code_) == [s EXCEPT !.status = code_]

\* Sequencing with the early return of a failure.
Then(s, F(_)) == IF Succeeded(s) THEN F(s) ELSE s

\* if ((state.gas_left -= cost) < 0) return IVMC_OUT_OF_GAS;
Charge(s, cost) ==
    LET t == [s EXCEPT !.gas_left = @ - cost]
    IN  IF t.gas_left < 0 THEN Fail(t, "OUT_OF_GAS") ELSE t

\* static_cast<size_t> of a word.
size_t(x) == x % SizeMod

-----------------------------------------------------------------------------
\* The stack, its top last. Item is operator[], Push and Drop do not check.
stack_size(s) == Len(s.stack)
Item(s, n) == IF n < Len(s.stack) THEN s.stack[Len(s.stack) - n] ELSE 0

\* The n top items are read.
Needs(s, n) == [s EXCEPT !.fault = @ \/ Len(s.stack) < n]

Push(s, x) == [s EXCEPT !.stack = Append(@, x),
                        !.fault = @ \/ Len(s.stack) >= StackLimit]
Drop(s, n) == [Needs(s, n) EXCEPT !.stack = SubSeq(@, 1, Len(@) - n)]

\* The n top items are replaced by x.
Replace(s, n, x) == Push(Drop(s, n), x)

Unary(s, f(_)) == Replace(s, 1, f(Item(s, 0)))
Binary(s, f(_, _)) == Replace(s, 2, f(Item(s, 0), Item(s, 1)))
Ternary(s, f(_, _, _)) ==
    Replace(s, 3, f(Item(s, 0), Item(s, 1), Item(s, 2)))

-----------------------------------------------------------------------------
\* The memory, a sequence of bytes; the byte at offset n is memory[n + 1].
\* Padded is n bytes of a sequence of bytes from offset on, zeros after its
\* end (which is a fault if the sequence is the memory or the return data).
Padded(source, offset, n) ==
    [k \in 1..n |-> IF offset + k <= Len(source) THEN source[offset + k]
                    ELSE 0]

ReadMemory(s, offset, n) == Padded(s.memory, offset, n)

TouchMemory(s, offset, n) ==
    [s EXCEPT !.fault = @ \/ (n > 0 /\ offset + n > Len(s.memory))]

\* n bytes of the return data are read from offset on.
TouchReturnData(s, offset, n) ==
    [s EXCEPT !.fault = @ \/ (n > 0 /\ offset + n > Len(s.return_data))]

WriteMemory(s, offset, bytes) ==
    LET written == offset + 1..offset + Len(bytes)
    IN  [TouchMemory(s, offset, Len(bytes)) EXCEPT
           !.memory = [k \in 1..Len(@) |-> IF k \in written
                                           THEN bytes[k - offset] ELSE @[k]]]

num_words(size) == (size + (WordSize - 1)) \div WordSize

MemoryCost(words) == 3 * words + (words * words) \div 512

\* Mutant: the memory grows to the size itself, not to whole words.
GrowToSize(s, new_size) ==
    LET current_words == Len(s.memory) \div WordSize
    IN  Then(Charge(s, MemoryCost(num_words(new_size))
                         - MemoryCost(current_words)),
             LAMBDA t : [t EXCEPT !.memory =
                           [k \in 1..new_size |->
                               IF k <= Len(@) THEN @[k] ELSE 0]])

\* Memory::grow fills the extent with zeros.
grow_memory(s, new_size) ==
    LET new_words == num_words(new_size)
        current_words == Len(s.memory) \div WordSize
    IN  Then(Charge(s, MemoryCost(new_words) - MemoryCost(current_words)),
             LAMBDA t : [t EXCEPT !.memory =
                           [k \in 1..new_words * WordSize |->
                               IF k <= Len(@) THEN @[k] ELSE 0]])

\* Mutant: compares the offset without the size.
CheckOffsetOnly(s, offset, size) ==
    IF offset > max_buffer_size THEN Fail(s, "OUT_OF_GAS")
    ELSE IF offset > Len(s.memory) THEN grow_memory(s, offset + size)
    ELSE s

\* check_memory for a size known to be small; all callers return
\* IVMC_OUT_OF_GAS when it fails.
check_memory_small(s, offset, size) ==
    IF offset > max_buffer_size THEN Fail(s, "OUT_OF_GAS")
    ELSE IF offset + size > Len(s.memory) THEN grow_memory(s, offset + size)
    ELSE s

\* check_memory for a size from the stack: a size of 0 is valid at any offset.
check_memory(s, offset, size) ==
    IF size = 0 THEN s
    ELSE IF size > max_buffer_size THEN Fail(s, "OUT_OF_GAS")
    ELSE check_memory_small(s, offset, size)

-----------------------------------------------------------------------------
\* Mutant: a failure keeps its gas.
ResultKeepingGas(s) ==
    [status   |-> s.status, gas_left |-> s.gas_left,
     output   |-> ReadMemory(s, s.output_offset, s.output_size)]

\* make_result: the gas is only kept by a success or a revert, and the output
\* copied.  Of an output of size 0 no byte is read: Baseline passes nullptr,
\* Advanced a pointer formed from whatever the offset is.
Result(s) ==
    [status   |-> s.status,
     gas_left |-> IF s.status \in {"SUCCESS", "REVERT"} THEN s.gas_left
                  ELSE 0,
     output   |-> IF s.output_size = 0 THEN << >>
                  ELSE ReadMemory(s, s.output_offset, s.output_size)]

=============================================================================
