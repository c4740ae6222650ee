-------------------------- MODULE InstructionTraits --------------------------
(***************************************************************************)
(* The instruction tables: base gas cost of every opcode in every          *)
(* revision, stack traits of every opcode, and the two tables the          *)
(* interpreters derive from them (get_op_table for Advanced,               *)
(* get_baseline_instruction_table for Baseline).                           *)
(***************************************************************************)
EXTENDS Integers, FiniteSetsExt

Byte == 0..255

(***************************************************************************)
(* Opcode numbers and revision numbers come from the ivmc library.         *)
(***************************************************************************)
OP == [STOP |-> 0, ADD |-> 1, MUL |-> 2, SUB |-> 3, DIV |-> 4, SDIV |-> 5,
       MOD |-> 6, SMOD |-> 7, ADDMOD |-> 8, MULMOD |-> 9, EXP |-> 10,
       SIGNEXTEND |-> 11, LT |-> 16, GT |-> 17, SLT |-> 18, SGT |-> 19,
       EQ |-> 20, ISZERO |-> 21, AND |-> 22, OR |-> 23, XOR |-> 24,
       NOT |-> 25, BYTE |-> 26, SHL |-> 27, SHR |-> 28, SAR |-> 29,
       KECCAK256 |-> 32, ADDRESS |-> 48, BALANCE |-> 49, ORIGIN |-> 50,
       CALLER |-> 51, CALLVALUE |-> 52, CALLDATALOAD |-> 53,
       CALLDATASIZE |-> 54, CALLDATACOPY |-> 55, CODESIZE |-> 56,
       CODECOPY |-> 57, GASPRICE |-> 58, EXTCODESIZE |-> 59,
       EXTCODECOPY |-> 60, RETURNDATASIZE |-> 61, RETURNDATACOPY |-> 62,
       EXTCODEHASH |-> 63, BLOCKHASH |-> 64, COINBASE |-> 65,
       TIMESTAMP |-> 66, NUMBER |-> 67, DIFFICULTY |-> 68, GASLIMIT |-> 69,
       CHAINID |-> 70, SELFBALANCE |-> 71, BASEFEE |-> 72, POP |-> 80,
       MLOAD |-> 81, MSTORE |-> 82, MSTORE8 |-> 83, SLOAD |-> 84,
       SSTORE |-> 85, JUMP |-> 86, JUMPI |-> 87, PC |-> 88, MSIZE |-> 89,
       GAS |-> 90, JUMPDEST |-> 91, PUSH1 |-> 96, PUSH32 |-> 127,
       DUP1 |-> 128, DUP16 |-> 143, SWAP1 |-> 144, SWAP16 |-> 159,
       LOG0 |-> 160, LOG4 |-> 164, CREATE |-> 240, CALL |-> 241,
       CALLCODE |-> 242, RETURN |-> 243, DELEGATECALL |-> 244,
       CREATE2 |-> 245, STATICCALL |-> 250, REVERT |-> 253,
       INVALID |-> 254, SELFDESTRUCT |-> 255]

REV == [FRONTIER |-> 0, HOMESTEAD |-> 1, TANGERINE_WHISTLE |-> 2,
        SPURIOUS_DRAGON |-> 3, BYZANTIUM |-> 4, CONSTANTINOPLE |-> 5,
        PETERSBURG |-> 6, ISTANBUL |-> 7, BERLIN |-> 8, LONDON |-> 9,
        SHANGHAI |-> 10]

AllRevisions == 0..REV.SHANGHAI

PushOps == OP.PUSH1..OP.PUSH32
DupOps == OP.DUP1..OP.DUP16
SwapOps == OP.SWAP1..OP.SWAP16
LogOps == OP.LOG0..OP.LOG4

-----------------------------------------------------------------------------
\* The special gas cost marking an instruction as undefined.
undefined == -1

cold_sload_cost == 2100
cold_account_access_cost == 2600
warm_storage_read_cost == 100
additional_cold_account_access_cost ==
    cold_account_access_cost - warm_storage_read_cost

\* Base gas costs of the first revision, grouped by cost.
FrontierCost(op) ==
    CASE op \in {OP.STOP, OP.SSTORE, OP.RETURN, OP.INVALID,
                 OP.SELFDESTRUCT} -> 0
      [] op = OP.JUMPDEST -> 1
      [] op \in {OP.ADDRESS, OP.ORIGIN, OP.CALLER, OP.CALLVALUE,
                 OP.CALLDATASIZE, OP.CODESIZE, OP.GASPRICE, OP.COINBASE,
                 OP.TIMESTAMP, OP.NUMBER, OP.DIFFICULTY, OP.GASLIMIT,
                 OP.POP, OP.PC, OP.MSIZE, OP.GAS} -> 2
      [] op \in {OP.ADD, OP.SUB, OP.LT, OP.GT, OP.SLT, OP.SGT, OP.EQ,
                 OP.ISZERO, OP.AND, OP.OR, OP.XOR, OP.NOT, OP.BYTE,
                 OP.CALLDATALOAD, OP.CALLDATACOPY, OP.CODECOPY, OP.MLOAD,
                 OP.MSTORE, OP.MSTORE8}
                \cup PushOps \cup DupOps \cup SwapOps -> 3
      [] op \in {OP.MUL, OP.DIV, OP.SDIV, OP.MOD, OP.SMOD,
                 OP.SIGNEXTEND} -> 5
      [] op \in {OP.ADDMOD, OP.MULMOD, OP.JUMP} -> 8
      [] op \in {OP.EXP, OP.JUMPI} -> 10
      [] op \in {OP.BALANCE, OP.EXTCODESIZE, OP.EXTCODECOPY,
                 OP.BLOCKHASH} -> 20
      [] op = OP.KECCAK256 -> 30
      [] op \in {OP.CALL, OP.CALLCODE} -> 40
      [] op = OP.SLOAD -> 50
      [] op \in LogOps -> (op - OP.LOG0 + 1) * 375
      [] op = OP.CREATE -> 32000
      [] OTHER -> undefined

\* The cost changes a revision makes to the table of the one before it, as
\* pairs of opcode and new cost.
CostChanges(r) ==
    CASE r = REV.HOMESTEAD -> {<<OP.DELEGATECALL, 40>>}
      [] r = REV.TANGERINE_WHISTLE ->
           {<<OP.BALANCE, 400>>, <<OP.SLOAD, 200>>, <<OP.SELFDESTRUCT, 5000>>}
           \cup {<<op, 700>> : op \in {OP.EXTCODESIZE, OP.EXTCODECOPY,
                                       OP.CALL, OP.CALLCODE, OP.DELEGATECALL}}
      [] r = REV.BYZANTIUM ->
           {<<OP.RETURNDATASIZE, 2>>, <<OP.RETURNDATACOPY, 3>>,
            <<OP.STATICCALL, 700>>, <<OP.REVERT, 0>>}
      [] r = REV.CONSTANTINOPLE ->
           {<<OP.SHL, 3>>, <<OP.SHR, 3>>, <<OP.SAR, 3>>,
            <<OP.EXTCODEHASH, 400>>, <<OP.CREATE2, 32000>>}
      [] r = REV.ISTANBUL ->
           {<<OP.BALANCE, 700>>, <<OP.CHAINID, 2>>, <<OP.EXTCODEHASH, 700>>,
            <<OP.SELFBALANCE, 5>>, <<OP.SLOAD, 800>>}
      [] r = REV.BERLIN ->
           {<<op, warm_storage_read_cost>> :
              op \in {OP.EXTCODESIZE, OP.EXTCODECOPY, OP.EXTCODEHASH,
                      OP.BALANCE, OP.CALL, OP.CALLCODE, OP.DELEGATECALL,
                      OP.STATICCALL, OP.SLOAD}}
      [] r = REV.LONDON -> {<<OP.BASEFEE, 2>>}
      [] OTHER -> {}

\* A revision keeps the cost of the latest change up to it.
gas_costs == [r \in AllRevisions |-> [op \in Byte |->
    LET changed == {q \in 0..r : \E c \in CostChanges(q) : c[1] = op}
    IN  IF changed = {} THEN FrontierCost(op)
        ELSE (CHOOSE c \in CostChanges(Max(changed)) : c[1] = op)[2]]]

-----------------------------------------------------------------------------
\* Stack height an instruction needs and the change it makes, grouped by
\* the two numbers; an opcode without traits has zeros.
StackTraits(op) ==
    CASE op \in {OP.ADD, OP.MUL, OP.SUB, OP.DIV, OP.SDIV, OP.MOD, OP.SMOD,
                 OP.EXP, OP.SIGNEXTEND, OP.LT, OP.GT, OP.SLT, OP.SGT, OP.EQ,
                 OP.AND, OP.OR, OP.XOR, OP.BYTE, OP.SHL, OP.SHR, OP.SAR,
                 OP.KECCAK256} -> <<2, -1>>
      [] op \in {OP.ADDMOD, OP.MULMOD, OP.CREATE} -> <<3, -2>>
      [] op \in {OP.ISZERO, OP.NOT, OP.BALANCE, OP.CALLDATALOAD,
                 OP.EXTCODESIZE, OP.EXTCODEHASH, OP.BLOCKHASH, OP.MLOAD,
                 OP.SLOAD} -> <<1, 0>>
      [] op \in {OP.ADDRESS, OP.ORIGIN, OP.CALLER, OP.CALLVALUE,
                 OP.CALLDATASIZE, OP.CODESIZE, OP.GASPRICE,
                 OP.RETURNDATASIZE, OP.COINBASE, OP.TIMESTAMP, OP.NUMBER,
                 OP.DIFFICULTY, OP.GASLIMIT, OP.CHAINID, OP.SELFBALANCE,
                 OP.BASEFEE, OP.PC, OP.MSIZE, OP.GAS} \cup PushOps -> <<0, 1>>
      [] op \in {OP.CALLDATACOPY, OP.CODECOPY, OP.RETURNDATACOPY} -> <<3, -3>>
      [] op = OP.EXTCODECOPY -> <<4, -4>>
      [] op \in {OP.POP, OP.JUMP, OP.SELFDESTRUCT} -> <<1, -1>>
      [] op \in {OP.MSTORE, OP.MSTORE8, OP.SSTORE, OP.JUMPI, OP.RETURN,
                 OP.REVERT} -> <<2, -2>>
      [] op \in DupOps -> <<op - OP.DUP1 + 1, 1>>
      [] op \in SwapOps -> <<op - OP.SWAP1 + 2, 0>>
      [] op \in LogOps -> <<op - OP.LOG0 + 2, -(op - OP.LOG0 + 2)>>
      [] op \in {OP.CALL, OP.CALLCODE} -> <<7, -6>>
      [] op \in {OP.DELEGATECALL, OP.STATICCALL} -> <<6, -5>>
      [] op = OP.CREATE2 -> <<4, -3>>
      [] OTHER -> <<0, 0>>

traits == [op \in Byte |->
    LET t == StackTraits(op)
    IN  [stack_height_required |-> t[1], stack_height_change |-> t[2]]]

-----------------------------------------------------------------------------
\* The function an undefined opcode is bound to; a defined opcode is bound to
\* the function of its own number.
op_undefined == -1

\* Advanced: undefined opcodes cost nothing, need nothing and run op_undefined.
get_op_table == [r \in AllRevisions |-> [op \in Byte |->
    IF gas_costs[r][op] = undefined
    THEN [fn |-> op_undefined, gas_cost |-> 0, stack_req |-> 0,
          stack_change |-> 0]
    ELSE [fn |-> op, gas_cost |-> gas_costs[r][op],
          stack_req |-> traits[op].stack_height_required,
          stack_change |-> traits[op].stack_height_change]]]

\* Baseline: the undefined marker stays in the table.
get_baseline_instruction_table == [r \in AllRevisions |-> [op \in Byte |->
    [gas_cost |-> gas_costs[r][op],
     stack_height_required |-> traits[op].stack_height_required,
     can_overflow_stack |-> traits[op].stack_height_change > 0]]]

=============================================================================
