----------------------------- MODULE Instructions ----------------------------
(***************************************************************************)
(* The generic instruction implementations of instructions.hpp, used by    *)
(* both interpreters; those that only compute are in Words, calls and      *)
(* creates in InstructionsCalls.                                           *)
(***************************************************************************)
EXTENDS Host

\* if (rev >= IVMC_BERLIN && access_account(addr) == IVMC_ACCESS_COLD)
\*     charge cost
ChargeColdAccount(s, addr, cost) ==
    IF rev < REV.BERLIN THEN s
    ELSE IF IsColdAccount(s, addr) THEN Charge(access_account(s, addr), cost)
    ELSE s

exp(s) ==
    LET base == Item(s, 0)
        exponent == Item(s, 1)
        exponent_cost == IF rev >= REV.SPURIOUS_DRAGON THEN 50 ELSE 10
    IN  Then(Charge(Drop(s, 1),
                    count_significant_bytes(exponent) * exponent_cost),
             LAMBDA t : Replace(t, 1, Power(base, exponent)))

keccak256(s) ==
    LET index == Item(s, 0)
        size == Item(s, 1)
    IN  Then(Then(check_memory(Drop(s, 1), index, size),
                  LAMBDA t : Charge(t, num_words(size) * 6)),
             LAMBDA t : Replace(TouchMemory(t, size_t(index), size), 1,
                                keccak(ReadMemory(t, size_t(index), size))))

\* The instructions that read an account given on the stack.
ReadAccount(s, f(_)) ==
    LET addr == trunc_address(Item(s, 0))
    IN  Then(ChargeColdAccount(s, addr, additional_cold_account_access_cost),
             LAMBDA t : Replace(t, 1, f(addr)))
balance(s) == ReadAccount(s, get_balance)
extcodesize(s) == ReadAccount(s, LAMBDA addr : Len(get_code(addr)))
extcodehash(s) == ReadAccount(s, get_code_hash)

calldataload(s) ==
    Unary(s, LAMBDA index : IF Len(msg.input) < index THEN 0
                            ELSE be_load(Padded(msg.input, index, WordSize)))

\* CALLDATACOPY and CODECOPY: a source index past the end is cut to the end,
\* and what lies past the end reads as zeros.
CopyFrom(s, source) ==
    LET mem_index == Item(s, 0)
        input_index == Item(s, 1)
        size == Item(s, 2)
        src == IF Len(source) < input_index THEN Len(source) ELSE input_index
    IN  Then(Then(check_memory(Drop(s, 3), mem_index, size),
                  LAMBDA t : Charge(t, num_words(size) * 3)),
             LAMBDA t : WriteMemory(t, size_t(mem_index),
                                    Padded(source, src, size)))
calldatacopy(s) == CopyFrom(s, msg.input)
codecopy(s) == CopyFrom(s, code)

extcodecopy(s) ==
    LET addr == trunc_address(Item(s, 0))
        mem_index == Item(s, 1)
        input_index == Item(s, 2)
        size == Item(s, 3)
        src == IF max_buffer_size < input_index THEN max_buffer_size
               ELSE input_index
    IN  Then(Then(Then(check_memory(Drop(s, 4), mem_index, size),
                       LAMBDA t : Charge(t, num_words(size) * 3)),
                  LAMBDA t : ChargeColdAccount(t, addr,
                               additional_cold_account_access_cost)),
             LAMBDA t : WriteMemory(t, size_t(mem_index),
                                    Padded(get_code(addr), src, size)))

\* Mutant: only the start of the range is compared.
StartsPastReturnData(s, index, size) == Len(s.return_data) < index

\* A word is compared first; what is added then fits size_t.
EndsPastReturnData(s, index, size) ==
    \/ Len(s.return_data) < index
    \/ size_t(index) + size > Len(s.return_data)

\* Unlike the other copies, reading past the end is an error, found after the
\* memory has been paid for and grown.
returndatacopy(s) ==
    LET mem_index == Item(s, 0)
        input_index == Item(s, 1)
        size == Item(s, 2)
    IN  Then(check_memory(Drop(s, 3), mem_index, size), LAMBDA t :
          IF EndsPastReturnData(s, input_index, size)
          THEN Fail(t, "INVALID_MEMORY_ACCESS")
          ELSE Then(Charge(t, num_words(size) * 3), LAMBDA u :
                 WriteMemory(TouchReturnData(u, size_t(input_index), size),
                             size_t(mem_index),
                             Padded(u.return_data, size_t(input_index),
                                    size))))

blockhash(s) ==
    LET upper_bound == env.block_number
        lower_bound == IF upper_bound < 256 THEN 0 ELSE upper_bound - 256
    IN  Unary(s, LAMBDA n : IF n < upper_bound /\ n >= lower_bound
                            THEN get_block_hash(n) ELSE 0)

mload(s) ==
    LET index == Item(s, 0)
    IN  Then(check_memory_small(s, index, WordSize), LAMBDA t :
          Replace(TouchMemory(t, index, WordSize), 1,
                  be_load(ReadMemory(t, index, WordSize))))

mstore(s) ==
    LET index == Item(s, 0)
        value == Item(s, 1)
    IN  Then(check_memory_small(Drop(s, 2), index, WordSize), LAMBDA t :
          WriteMemory(t, index, be_store(value)))

mstore8(s) ==
    LET index == Item(s, 0)
        value == Item(s, 1)
    IN  Then(check_memory_small(Drop(s, 2), index, 1), LAMBDA t :
          WriteMemory(t, index, <<value % 256>>))

-----------------------------------------------------------------------------
sload(s) ==
    LET key == Item(s, 0)
        accessed == IF rev < REV.BERLIN THEN s
                    ELSE IF IsColdKey(s, key)
                    THEN Charge(access_storage(s, key),
                                cold_sload_cost - warm_storage_read_cost)
                    ELSE s
    IN  Then(accessed, LAMBDA t : Replace(t, 1, get_storage(t, key)))

\* The cost of setting a storage entry, cold being the cost of its access.
StoreCost(status, cold) ==
    CASE status \in {"UNCHANGED", "MODIFIED_AGAIN"} ->
           (CASE rev >= REV.BERLIN -> cold + warm_storage_read_cost
              [] rev = REV.ISTANBUL -> 800
              [] rev = REV.CONSTANTINOPLE -> 200
              [] OTHER -> 5000)
      [] status \in {"MODIFIED", "DELETED"} ->
           IF rev >= REV.BERLIN THEN cold + 5000 - cold_sload_cost ELSE 5000
      [] status = "ADDED" -> cold + 20000

\* The storage is set before the cost, which depends on the answer, is known.
SetEntry(s) ==
    LET key == Item(s, 0)
        value == Item(s, 1)
        cold == IF rev >= REV.BERLIN /\ IsColdKey(s, key)
                THEN cold_sload_cost ELSE 0
        accessed == IF rev >= REV.BERLIN THEN access_storage(s, key) ELSE s
    IN  Charge(set_storage(Drop(accessed, 2), key, value),
               StoreCost(storage_status(s, key, value), cold))

\* Mutant: does not look at the static flag.
sstore_unguarded(s) ==
    IF rev >= REV.ISTANBUL /\ s.gas_left <= 2300 THEN Fail(s, "OUT_OF_GAS")
    ELSE SetEntry(s)

sstore(s) ==
    IF msg.static THEN Fail(s, "STATIC_MODE_VIOLATION")
    ELSE IF rev >= REV.ISTANBUL /\ s.gas_left <= 2300
    THEN Fail(s, "OUT_OF_GAS")
    ELSE SetEntry(s)

dup(s, n) == Push(Needs(s, n), Item(s, n - 1))

swap(s, n) == [Needs(s, n + 1) EXCEPT
                 !.stack[stack_size(s)] = Item(s, n),
                 !.stack[stack_size(s) - n] = Item(s, 0)]

\* The log itself: its memory and data are paid for, then the host emits it.
EmitLog(s, NumTopics) ==
    LET offset == Item(s, 0)
        size == Item(s, 1)
    IN  Then(Then(check_memory(Drop(s, 2), offset, size),
                  LAMBDA t : Charge(t, size * 8)), LAMBDA t :
          Effect(Drop(TouchMemory(t, size_t(offset), size), NumTopics),
                 [kind |-> "log",
                  data |-> ReadMemory(t, size_t(offset), size),
                  topics |-> [n \in 1..NumTopics |-> Item(t, n - 1)]]))

log(s, NumTopics) == IF msg.static THEN Fail(s, "STATIC_MODE_VIOLATION")
                     ELSE EmitLog(s, NumTopics)

-----------------------------------------------------------------------------
\* Terminating instructions: the status they leave ends the execution.
return_(s, StatusCode) ==
    LET offset == Item(s, 0)
        size == Item(s, 1)
    IN  Then(check_memory(Needs(s, 2), offset, size), LAMBDA t :
          [TouchMemory(t, size_t(offset), size) EXCEPT
             !.output_offset = size_t(offset),
             !.output_size = size_t(size),
             !.status = StatusCode])

selfdestruct(s) ==
    IF msg.static THEN Fail(s, "STATIC_MODE_VIOLATION")
    ELSE LET beneficiary == trunc_address(Item(s, 0))
             pays_for_account ==
               /\ rev >= REV.TANGERINE_WHISTLE
               /\ \/ rev = REV.TANGERINE_WHISTLE
                  \/ get_balance(msg.recipient) # 0
               /\ ~account_exists(beneficiary)
         IN  Then(Then(ChargeColdAccount(Needs(s, 1), beneficiary,
                                         cold_account_access_cost),
                       LAMBDA t : IF pays_for_account THEN Charge(t, 25000)
                                  ELSE t), LAMBDA t :
               Effect(t, [kind |-> "selfdestruct",
                          beneficiary |-> beneficiary]))

=============================================================================
