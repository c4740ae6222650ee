-------------------------- MODULE InstructionsCalls --------------------------
(***************************************************************************)
(* The call and create instructions of instructions_calls.cpp, each in two *)
(* parts: what is done before the host is called, and after.               *)
(***************************************************************************)
EXTENDS Instructions

CONSTANT Int64Max   \* std::numeric_limits<int64_t>::max(): 2^63 - 1

ASSUME Int64MaxAssumption == Int64Max \in Nat /\ Int64Max < WordMod

max_call_depth == 1024
call_stipend == 2300

SmallerOf(a, b) == IF a < b THEN a ELSE b

\* All but one 64th of the gas.
all_but_64th(g) == g - g \div 64

\* The account a value goes to may have to be created.
NewAccountCost(Kind, has_value, dst) ==
    IF /\ Kind = "CALL"
       /\ has_value \/ rev < REV.SPURIOUS_DRAGON
       /\ ~account_exists(dst) THEN 25000 ELSE 0

\* Mutant: the transfer of a value, for which the callee is
\* given a stipend, is free.
TransferFree(Kind, has_value, dst) == NewAccountCost(Kind, has_value, dst)

CallCost(Kind, has_value, dst) ==
    (IF has_value THEN 9000 ELSE 0) + NewAccountCost(Kind, has_value, dst)

\* What the function knows when it calls the host: its state, the message,
\* and where the output goes; or that it returns without a call, whether it
\* has failed or not.
Request(s, m, offset, size) ==
    [calls |-> TRUE, state |-> Effect(s, m), message |-> m,
     output_offset |-> offset, output_size |-> size]
NoCall(s) == [calls |-> FALSE, state |-> s]

\* Mutant: a call is made from the greatest depth.
RefusedBelowLimit(value) ==
    \/ msg.depth > max_call_depth
    \/ value # 0 /\ get_balance(msg.recipient) < value

\* The host is not called at the greatest depth or for a value that the
\* account does not have.
IsRefused(value) ==
    \/ msg.depth >= max_call_depth
    \/ value # 0 /\ get_balance(msg.recipient) < value

\* The gas for the callee, out of what is left.
CallGas(requested, gas_left) ==
    IF rev >= REV.TANGERINE_WHISTLE
    THEN SmallerOf(requested, all_but_64th(gas_left)) ELSE requested

\* Mutant: only a static call makes its callee static.
StaticForOnce(Static) == Static

\* The flags of the message: static mode is handed down.
CalleeStatic(Static) == Static \/ msg.static

\* Mutant: what the call before returned stays.
ReturnDataKept(s) == s

\* state.return_data.clear(), before it is known whether the host is called.
ReturnDataCleared(s) == [s EXCEPT !.return_data = << >>]

\* Kind is "CALL", "CALLCODE" or "DELEGATECALL"; a static call is a CALL.
call_request(s, Kind, Static) ==
    LET no_value == Static \/ Kind = "DELEGATECALL"
        n == IF no_value THEN 2 ELSE 3
        requested == SmallerOf(Item(s, 0), Int64Max)
        dst == trunc_address(Item(s, 1))
        value == IF no_value THEN 0 ELSE Item(s, 2)
        has_value == value # 0
        input_offset == Item(s, n)
        input_size == Item(s, n + 1)
        output_offset == Item(s, n + 2)
        output_size == Item(s, n + 3)

        \* Assume failure, pay for the account, the memory and the value.
        accessed == ChargeColdAccount(Replace(s, n + 4, 0), dst,
                                      additional_cold_account_access_cost)
        with_memory ==
          Then(Then(accessed,
                    LAMBDA t : check_memory(t, input_offset, input_size)),
               LAMBDA t : check_memory(t, output_offset, output_size))
        paid ==
          Then(with_memory, LAMBDA t :
            IF Kind = "CALL" /\ has_value /\ msg.static
            THEN Fail(t, "STATIC_MODE_VIOLATION")
            ELSE Charge(t, CallCost(Kind, has_value, dst)))
        afforded ==
          Then(paid, LAMBDA t :
            IF rev < REV.TANGERINE_WHISTLE /\ requested > t.gas_left
            THEN Fail(t, "OUT_OF_GAS") ELSE t)

        stipend == IF has_value THEN call_stipend ELSE 0
        ready == ReturnDataCleared([afforded EXCEPT !.gas_left = @ + stipend])
        Message ==
          [kind |-> Kind, static |-> CalleeStatic(Static),
           depth |-> msg.depth + 1,
           recipient |-> IF Kind = "CALL" THEN dst ELSE msg.recipient,
           code_address |-> dst,
           sender |-> IF Kind = "DELEGATECALL" THEN msg.sender
                      ELSE msg.recipient,
           value |-> IF Kind = "DELEGATECALL" THEN msg.value ELSE value,
           input |-> ReadMemory(ready, size_t(input_offset), input_size),
           gas |-> CallGas(requested, afforded.gas_left) + stipend]
    IN  IF ~Succeeded(afforded) THEN NoCall(afforded)
        ELSE IF IsRefused(value) THEN NoCall(ready)
        ELSE Request(TouchMemory(ready, size_t(input_offset), input_size),
                     Message, size_t(output_offset), output_size)

\* Mutant: the gas the callee has left is not given back.
CallReturnForfeit(request, result) ==
    LET copy_size == SmallerOf(request.output_size, Len(result.output))
    IN  WriteMemory([Replace(request.state, 1,
                             Truth(result.status_code = "SUCCESS")) EXCEPT
                       !.return_data = result.output,
                       !.gas_left = @ - request.message.gas],
                    request.output_offset,
                    SubSeq(result.output, 1, copy_size))

\* The callee has returned.
call_return(request, result) ==
    LET copy_size == SmallerOf(request.output_size, Len(result.output))
    IN  WriteMemory([Replace(request.state, 1,
                             Truth(result.status_code = "SUCCESS")) EXCEPT
                       !.return_data = result.output,
                       !.gas_left = @ - (request.message.gas
                                           - result.gas_left)],
                    request.output_offset,
                    SubSeq(result.output, 1, copy_size))

-----------------------------------------------------------------------------
\* Kind is "CREATE" or "CREATE2".
create_request(s, Kind) ==
    LET endowment == Item(s, 0)
        init_code_offset == Item(s, 1)
        init_code_size == Item(s, 2)
        salt == IF Kind = "CREATE2" THEN Item(s, 3) ELSE 0
        salt_cost == IF Kind = "CREATE2" THEN num_words(init_code_size) * 6
                     ELSE 0
        salt_items == IF Kind = "CREATE2" THEN 1 ELSE 0
        paid ==
          Then(check_memory(Drop(s, 3), init_code_offset, init_code_size),
               LAMBDA t : Charge(Drop(t, salt_items), salt_cost))
        ready == ReturnDataCleared(Push(paid, 0))
        Message ==
          [kind |-> Kind, static |-> FALSE, depth |-> msg.depth + 1,
           recipient |-> 0, code_address |-> 0, sender |-> msg.recipient,
           value |-> endowment, salt |-> salt,
           input |-> ReadMemory(ready, size_t(init_code_offset),
                                init_code_size),
           gas |-> IF rev >= REV.TANGERINE_WHISTLE
                   THEN all_but_64th(ready.gas_left) ELSE ready.gas_left]
    IN  IF msg.static THEN NoCall(Fail(s, "STATIC_MODE_VIOLATION"))
        ELSE IF ~Succeeded(paid) THEN NoCall(paid)
        ELSE IF IsRefused(endowment) THEN NoCall(ready)
        ELSE Request(TouchMemory(ready, size_t(init_code_offset),
                                 init_code_size), Message, 0, 0)

create_return(request, result) ==
    [request.state EXCEPT
       !.stack[stack_size(request.state)] =
          IF result.status_code = "SUCCESS" THEN result.create_address ELSE 0,
       !.return_data = result.output,
       !.gas_left = @ - (request.message.gas - result.gas_left)]

=============================================================================
