------------------------------- MODULE Tracing -------------------------------
(***************************************************************************)
(* The tracers of tracing.cpp.  A tracer keeps a stack of contexts, one    *)
(* for each traced execution that has started and not ended.  Of what it   *)
(* prints only the report at the end of an execution is modelled.          *)
(***************************************************************************)
EXTENDS Integers, Sequences, Bags

\* The operations of std::stack.
top(stack) == stack[Len(stack)]
pop(stack) == SubSeq(stack, 1, Len(stack) - 1)

NoNames == -1

\* History: late says that the tracer was added below a traced execution,
\* misused that it has used the top of an empty stack, a byte outside of the
\* code, or a missing table of names.
Tracer(kind, late) ==
    [kind |-> kind, contexts |-> << >>, opcode_names |-> NoNames,
     out |-> << >>, late |-> late, misused |-> FALSE]

Misused(t) == [t EXCEPT !.misused = TRUE]

\* The context on top can be used for the instruction at pc.
HasByte(t, pc) == t.contexts # << >> /\ pc < Len(top(t.contexts).code)

-----------------------------------------------------------------------------
\* class HistogramTracer; rev stands for the names of the revision.
HistogramStart(t, rev_, m, code_) ==
    [t EXCEPT !.contexts = Append(@, [depth |-> m.depth, code |-> code_,
                                      opcode_names |-> rev_,
                                      counts |-> EmptyBag])]

HistogramInstruction(t, pc) ==
    IF ~HasByte(t, pc) THEN Misused(t)
    ELSE [t EXCEPT !.contexts[Len(t.contexts)].counts =
                     @ (+) SetToBag({top(t.contexts).code[pc + 1]})]

\* Mutant: the context is not popped.
HistogramEndUnpopped(t) ==
    IF t.contexts = << >> THEN Misused(t)
    ELSE [t EXCEPT !.out = [depth |-> top(t.contexts).depth,
                            counts |-> top(t.contexts).counts]]

HistogramEnd(t) ==
    IF t.contexts = << >> THEN Misused(t)
    ELSE [t EXCEPT !.out = [depth |-> top(t.contexts).depth,
                            counts |-> top(t.contexts).counts],
                   !.contexts = pop(@)]

-----------------------------------------------------------------------------
\* class InstructionTracer. One table of names serves all nested executions.
InstructionStart(t, rev_, m, code_) ==
    [t EXCEPT !.opcode_names = IF t.contexts = << >> THEN rev_ ELSE @,
              !.contexts = Append(@, [code |-> code_, start_gas |-> m.gas])]

InstructionInstruction(t, pc) ==
    IF HasByte(t, pc) /\ t.opcode_names # NoNames THEN t ELSE Misused(t)

\* Mutant: the names are forgotten at the end of every execution.
InstructionEndForgetting(t, result) ==
    IF t.contexts = << >> THEN Misused(t)
    ELSE [t EXCEPT !.out = [gas |-> result.gas_left,
                            gasUsed |-> top(t.contexts).start_gas
                                          - result.gas_left],
                   !.contexts = pop(@),
                   !.opcode_names = NoNames]

InstructionEnd(t, result) ==
    IF t.contexts = << >> THEN Misused(t)
    ELSE [t EXCEPT !.out = [gas |-> result.gas_left,
                            gasUsed |-> top(t.contexts).start_gas
                                          - result.gas_left],
                   !.contexts = pop(@),
                   !.opcode_names = IF Len(t.contexts) = 1 THEN NoNames
                                    ELSE @]

-----------------------------------------------------------------------------
IsHistogram(t) == t.kind = "histogram"

\* Tracer::notify_...: each tracer of the list and then its next one.
notify_execution_start(list, rev_, m, code_) ==
    [n \in DOMAIN list |->
        IF IsHistogram(list[n]) THEN HistogramStart(list[n], rev_, m, code_)
        ELSE InstructionStart(list[n], rev_, m, code_)]

notify_instruction_start(list, pc) ==
    [n \in DOMAIN list |->
        IF IsHistogram(list[n]) THEN HistogramInstruction(list[n], pc)
        ELSE InstructionInstruction(list[n], pc)]

notify_execution_end(list, result) ==
    [n \in DOMAIN list |->
        IF IsHistogram(list[n]) THEN HistogramEnd(list[n])
        ELSE InstructionEnd(list[n], result)]

=============================================================================
