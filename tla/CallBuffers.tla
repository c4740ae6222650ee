----------------------------- MODULE CallBuffers -----------------------------
(***************************************************************************)
(* The memory of a caller while a call instruction runs: the message gets  *)
(* a raw pointer into the memory, the callee reads its input through it,   *)
(* and its output is copied back.  Growing the memory may move it.         *)
(***************************************************************************)
EXTENDS Memory

CONSTANT Ranges   \* [offset, size] of inputs and outputs

ASSUME RangesAssumption == Ranges \subseteq [offset : Nat, size : Nat]

VARIABLES allocation,  \* the identity of the allocation m_data points to
          pc,          \* the next step of the call instruction
          input, output,  \* its operands
          input_data,  \* msg.input_data: the allocation pointed into
          sent         \* history: the bytes when the pointer was taken

callVars == <<pc, input, output, input_data, sent>>
vars == <<memoryVars, allocation, callVars>>

NoPointer == -1
NoRange == [offset |-> 0, size |-> 0]

InitCall == /\ allocation = 0 /\ pc = "idle"
            /\ input = NoRange /\ output = NoRange
            /\ input_data = NoPointer /\ sent = << >>
Init == InitMemory /\ InitCall

Reads(range) == [k \in 0..range.size - 1 |-> m_data[range.offset + k]]

\* realloc may move the allocation, and does so only when it is called.
MayMove == \/ m_capacity' # m_capacity /\ allocation' = allocation + 1
           \/ UNCHANGED allocation

num_words(size) == (size + (WordSize - 1)) \div WordSize

\* check_memory, when the gas suffices: when it does not, the instruction ends
\* before any pointer is taken.
check_memory(range) ==
    \/ /\ range.size > 0 /\ range.offset + range.size > m_size
       /\ grow(num_words(range.offset + range.size) * WordSize)
       /\ MayMove
    \/ /\ range.size = 0 \/ range.offset + range.size <= m_size
       /\ UNCHANGED <<memoryVars, allocation>>

\* The operands are popped.
BeginCall == /\ pc = "idle"
             /\ pc' = "check_input"
             /\ input' \in Ranges /\ output' \in Ranges
             /\ UNCHANGED <<memoryVars, allocation, input_data, sent>>

\* Mutant: the pointer is taken as soon as its range is checked.
CheckInputAndTake ==
    /\ pc = "check_input" /\ pc' = "check_output"
    /\ check_memory(input)
    /\ input_data' = IF input.size > 0 THEN allocation' ELSE NoPointer
    /\ sent' = [k \in 0..input.size - 1 |-> m_data'[input.offset + k]]
    /\ UNCHANGED <<input, output>>

CheckInput ==
    /\ pc = "check_input" /\ pc' = "check_output"
    /\ check_memory(input)
    /\ UNCHANGED <<input, output, input_data, sent>>

CheckOutput ==
    /\ pc = "check_output" /\ pc' = "take_input"
    /\ check_memory(output)
    /\ UNCHANGED <<input, output, input_data, sent>>

\* The message is made and passed to the host: the callee runs from here on.
TakeInput ==
    /\ pc = "take_input" /\ pc' = "callee"
    /\ input_data' = IF input.size > 0 THEN allocation ELSE NoPointer
    /\ sent' = IF input.size > 0 THEN Reads(input) ELSE << >>
    /\ UNCHANGED <<memoryVars, allocation, input, output>>

\* The callee has returned result_size bytes; as many as fit are copied. An
\* instruction that returns without a call is like one that gets nothing.
CopyOutput(result_size, byte) ==
    LET copy_size == IF output.size < result_size THEN output.size
                     ELSE result_size
    IN  /\ pc = "callee" /\ pc' = "idle"
        /\ IF copy_size > 0 THEN write(output.offset, copy_size, byte)
           ELSE UNCHANGED memoryVars
        /\ input' = NoRange /\ output' = NoRange
        /\ input_data' = NoPointer /\ sent' = << >>
        /\ UNCHANGED allocation

\* Another instruction of the caller, or the reuse of its state.
Other == /\ pc = "idle"
         /\ \/ \E new_size \in Sizes : grow(new_size) /\ MayMove
            \/ clear /\ UNCHANGED allocation
         /\ UNCHANGED callVars

Next == \/ BeginCall \/ CheckInput \/ CheckOutput \/ TakeInput
        \/ \E result_size \in 0..2, byte \in ByteValues :
             CopyOutput(result_size, byte)
        \/ Other

Spec == Init /\ [][Next]_vars

-----------------------------------------------------------------------------
\* As long as the message exists, its input pointer leads into the allocation
\* the memory has now, inside the memory, to the bytes it was made for: the
\* growth for the output comes before the pointer is taken, and nothing of the
\* caller runs before the callee returns.
InputPointerValid ==
    input_data # NoPointer =>
        /\ input_data = allocation
        /\ input.offset + input.size <= m_size
        /\ Reads(input) = sent

=============================================================================
