------------------------------ MODULE MCControl ------------------------------
(***************************************************************************)
(* Interpreters for TLC on control flow: every code of up to 4 bytes over  *)
(* opcodes that jump, push, read the gas and the position, whose numbers   *)
(* also serve as push data, every code of 5 bytes over fewer of them, and  *)
(* some longer codes with loops.                                           *)
(***************************************************************************)
EXTENDS Interpreters

\* 0 and 1 are STOP and ADD and, as data, jump targets.
ControlOpcode == {OP.STOP, OP.ADD, OP.JUMP, OP.JUMPI, OP.GAS, OP.PC,
                  OP.JUMPDEST, OP.PUSH1, OP.PUSH1 + 1}

Loops == {
    \* until out of gas
    << OP.JUMPDEST, OP.PUSH1, 0, OP.JUMP >>,
    << OP.JUMPDEST, OP.GAS, OP.PUSH1, 0, OP.JUMPI >>,
    \* a growing stack: overflows
    << OP.JUMPDEST, OP.PC, OP.PUSH1, 0, OP.JUMP >>,
    \* a shrinking stack: underflows
    << OP.GAS, OP.PC, OP.GAS, OP.JUMPDEST, OP.ADD, OP.PUSH1, 3, OP.JUMP >>,
    \* into push data, and past it
    << OP.PUSH1, 4, OP.JUMP, OP.PUSH1, OP.JUMPDEST, OP.STOP >>,
    << OP.PUSH1, 5, OP.JUMP, OP.PUSH1, OP.JUMPDEST, OP.JUMPDEST, OP.GAS >>,
    \* to itself from the middle of a block, with a dead undefined opcode
    << OP.PUSH1, 4, OP.JUMP, 12, OP.JUMPDEST, OP.GAS, OP.PUSH1, 4, OP.JUMPI >>,
    \* far away
    << OP.PUSH1 + 1, 255, 255, OP.JUMP >>,
    \* an instruction undefined in Frontier, and INVALID
    << OP.GAS, OP.REVERT, OP.STOP >>,
    << OP.GAS, OP.INVALID, OP.JUMPDEST >> }

\* For codes of 5 bytes.
FewerOpcodes == {OP.STOP, OP.JUMPI, OP.GAS, OP.JUMPDEST, OP.PUSH1}

MCCodes == UNION {[1..n -> ControlOpcode] : n \in 0..4}
           \cup [1..5 -> FewerOpcodes] \cup Loops
MCRevisions == {REV.FRONTIER}
MCOpTable == [r \in MCRevisions |-> get_op_table[r]]
MCBaselineTable ==
    [r \in MCRevisions |-> get_baseline_instruction_table[r]]
MCJunkBytes == {OP.JUMPDEST, OP.INVALID}

MCMessages == {[gas |-> g, static |-> FALSE, depth |-> 0, recipient |-> 1,
                sender |-> 2, value |-> 0, input |-> << >>] :
                 g \in {5, 12, 40}}
MCEnvironments ==
    {[warm_accounts |-> {}, storage |-> << >>, balances |-> << >>,
      codes |-> << >>, tx |-> [op \in TxContextOps |-> 0],
      block_number |-> 1,
      reply |-> [status |-> "SUCCESS", gas_kept |-> 0, output |-> << >>,
                 create_address |-> 0]]}

=============================================================================
