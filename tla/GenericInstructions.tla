------------------------- MODULE GenericInstructions -------------------------
(***************************************************************************)
(* The instructions both interpreters run through the same function:       *)
(* op2fn for Baseline, the entries op<...> of instruction_implementations  *)
(* for Advanced.                                                           *)
(***************************************************************************)
EXTENDS InstructionsCalls

\* The ones that only compute on words.
Arithmetic(op, s) ==
    CASE op = OP.ADD -> Binary(s, add)
      [] op = OP.MUL -> Binary(s, mul)
      [] op = OP.SUB -> Binary(s, sub)
      [] op = OP.DIV -> Binary(s, div)
      [] op = OP.SDIV -> Binary(s, sdiv)
      [] op = OP.MOD -> Binary(s, mod)
      [] op = OP.SMOD -> Binary(s, smod)
      [] op = OP.ADDMOD -> Ternary(s, addmod)
      [] op = OP.MULMOD -> Ternary(s, mulmod)
      [] op = OP.SIGNEXTEND -> Binary(s, signextend)
      [] op = OP.LT -> Binary(s, lt)
      [] op = OP.GT -> Binary(s, gt)
      [] op = OP.SLT -> Binary(s, slt)
      [] op = OP.SGT -> Binary(s, sgt)
      [] op = OP.EQ -> Binary(s, eq)
      [] op = OP.ISZERO -> Unary(s, iszero)
      [] op = OP.AND -> Binary(s, and_)
      [] op = OP.OR -> Binary(s, or_)
      [] op = OP.XOR -> Binary(s, xor_)
      [] op = OP.NOT -> Unary(s, not_)
      [] op = OP.BYTE -> Binary(s, byte)
      [] op = OP.SHL -> Binary(s, shl)
      [] op = OP.SHR -> Binary(s, shr)
      [] op = OP.SAR -> Binary(s, sar)

\* The ones that push a value of the message, the block or the transaction.
\* A value of the host's transaction context is env.tx of the opcode.
Context(op) ==
    CASE op = OP.ADDRESS -> msg.recipient
      [] op = OP.CALLER -> msg.sender
      [] op = OP.CALLVALUE -> msg.value
      [] op = OP.CALLDATASIZE -> Len(msg.input)
      [] op = OP.CODESIZE -> Len(code)
      [] op = OP.NUMBER -> env.block_number
      [] op = OP.SELFBALANCE -> get_balance(msg.recipient)
      [] OTHER -> env.tx[op]
TxContextOps == {OP.ORIGIN, OP.GASPRICE, OP.COINBASE, OP.TIMESTAMP,
                 OP.DIFFICULTY, OP.GASLIMIT, OP.CHAINID, OP.BASEFEE}
ContextOps == {OP.ADDRESS, OP.CALLER, OP.CALLVALUE, OP.CALLDATASIZE,
               OP.CODESIZE, OP.NUMBER, OP.SELFBALANCE} \cup TxContextOps

Generic(op, s) ==
    CASE op \in OP.ADD..OP.SAR /\ op # OP.EXP -> Arithmetic(op, s)
      [] op = OP.EXP -> exp(s)
      [] op = OP.KECCAK256 -> keccak256(s)
      [] op \in ContextOps -> Push(s, Context(op))
      [] op = OP.BALANCE -> balance(s)
      [] op = OP.CALLDATALOAD -> calldataload(s)
      [] op = OP.CALLDATACOPY -> calldatacopy(s)
      [] op = OP.CODECOPY -> codecopy(s)
      [] op = OP.EXTCODESIZE -> extcodesize(s)
      [] op = OP.EXTCODECOPY -> extcodecopy(s)
      [] op = OP.RETURNDATASIZE -> Push(s, Len(s.return_data))
      [] op = OP.RETURNDATACOPY -> returndatacopy(s)
      [] op = OP.EXTCODEHASH -> extcodehash(s)
      [] op = OP.BLOCKHASH -> blockhash(s)
      [] op = OP.POP -> Drop(s, 1)
      [] op = OP.MLOAD -> mload(s)
      [] op = OP.MSTORE -> mstore(s)
      [] op = OP.MSTORE8 -> mstore8(s)
      [] op = OP.SLOAD -> sload(s)
      [] op = OP.MSIZE -> Push(s, Len(s.memory))
      [] op \in DupOps -> dup(s, op - OP.DUP1 + 1)
      [] op \in SwapOps -> swap(s, op - OP.SWAP1 + 1)
      [] op \in LogOps -> log(s, op - OP.LOG0)

\* The calls and creates, which Advanced wraps to correct the gas.
CallOps == {OP.CALL, OP.CALLCODE, OP.DELEGATECALL, OP.STATICCALL}
CreateOps == {OP.CREATE, OP.CREATE2}

\* The part of them before the host is called, and the part after.
RequestOf(op, s) ==
    CASE op = OP.CALL -> call_request(s, "CALL", FALSE)
      [] op = OP.CALLCODE -> call_request(s, "CALLCODE", FALSE)
      [] op = OP.DELEGATECALL -> call_request(s, "DELEGATECALL", FALSE)
      [] op = OP.STATICCALL -> call_request(s, "CALL", TRUE)
      [] op = OP.CREATE -> create_request(s, "CREATE")
      [] op = OP.CREATE2 -> create_request(s, "CREATE2")

Answered(op, request, result) ==
    IF op \in CreateOps THEN create_return(request, result)
    ELSE call_return(request, result)

\* Both parts, with a host that answers at once.
AnsweredAtOnce(op, request) ==
    IF request.calls
    THEN Answered(op, request, call_result(request.message))
    ELSE request.state

CallOrCreate(op, s) == AnsweredAtOnce(op, RequestOf(op, s))

-----------------------------------------------------------------------------
(***************************************************************************)
(* What the instructions take for granted of the message they execute and  *)
(* of the answers of the host.                                             *)
(***************************************************************************)
IsBuffer(bytes) == bytes \in Seq(Byte) /\ Len(bytes) \in Word

ValidMessage(m) ==
    /\ m.gas \in 0..Int64Max
    /\ m.static \in BOOLEAN /\ m.depth \in Nat
    /\ {m.recipient, m.sender, m.value} \subseteq Word
    /\ IsBuffer(m.input)

ValidEnvironment(e) ==
    /\ \A entry \in DOMAIN e.storage : e.storage[entry] \in Word
    /\ \A addr \in DOMAIN e.balances : e.balances[addr] \in Word
    /\ \A addr \in DOMAIN e.codes : IsBuffer(e.codes[addr])
    /\ e.tx \in [TxContextOps -> Word]
    /\ e.block_number \in Word
    /\ e.reply.gas_kept \in Nat /\ e.reply.create_address \in Word
    /\ IsBuffer(e.reply.output)

=============================================================================
