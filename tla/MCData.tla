-------------------------------- MODULE MCData -------------------------------
(***************************************************************************)
(* Interpreters for TLC on the instructions that compute, read and write   *)
(* memory, copy, hash, log, read the context and the host, and return: one *)
(* or two of each, with operands inside, at and far outside their bounds,  *)
(* and a RETURN of the memory after them.                                  *)
(***************************************************************************)
EXTENDS Interpreters, MCPrograms

\* Operands: small ones, and with PUSH2 one of all ones.
Large == << OP.PUSH1 + 1, 255, 255 >>

Binaries == (OP.ADD..OP.SAR) \cap {op \in Byte : StackTraits(op) = <<2, -1>>}
Computations ==
    { P2(3, 200) \o << op, OP.PC >> : op \in Binaries \cup {OP.EXP} }
    \cup { P(1) \o Large \o << op, OP.SELFBALANCE >> : op \in Binaries }
    \cup { Large \o P2(4, 3) \o << op, OP.NOT, OP.ISZERO >> :
             op \in {OP.ADDMOD, OP.MULMOD} }

\* Offset, then size or value below it.
Offsets == { P(0), P(3), P(255), Large }
Accesses ==
    { P(8) \o offset \o << op, OP.MSIZE >> :
        offset \in Offsets,
        op \in {OP.MSTORE, OP.MSTORE8, OP.KECCAK256, OP.LOG0} }
    \cup { offset \o << OP.MLOAD >> : offset \in Offsets }
    \cup { P2(6, 4) \o P(0) \o << OP.LOG0 + 1 >> }
    \cup { P3(5, 6, 4) \o P2(0, 0) \o << OP.LOG0 + n >> : n \in 2..3 }

\* Size, source index, memory index.
Copies ==
    { P(size) \o source \o P(1) \o << op >> :
        size \in {0, 2, 5}, source \in Offsets,
        op \in {OP.CALLDATACOPY, OP.CODECOPY, OP.RETURNDATACOPY} }
    \cup { P(2) \o source \o P2(1, dst) \o << OP.EXTCODECOPY >> :
             source \in Offsets, dst \in {3, 9} }
    \cup { P3(2, 0, 1) \o << OP.DUP1, OP.SWAP1 + 2, OP.SWAP1, op >> :
             op \in {OP.CALLDATACOPY} }

\* After a call that answers 2 bytes.
ReturnDataCopies ==
    { P4(0, 0, 0, 0) \o P(3) \o << OP.GAS, OP.STATICCALL >>
        \o P3(size, index, 0) \o << OP.RETURNDATACOPY, OP.RETURNDATASIZE >> :
        size \in 0..3, index \in 0..3 }

Reads == { P(v) \o << op >> :
             v \in {2, 3, 9},
             op \in {OP.BALANCE, OP.EXTCODESIZE, OP.EXTCODEHASH,
                     OP.CALLDATALOAD, OP.BLOCKHASH, OP.SELFDESTRUCT,
                     OP.SLOAD} }
         \cup { Large \o << OP.CALLDATALOAD >> }
         \cup { << op, OP.POP, OP.GAS >> : op \in ContextOps }

\* RETURN or REVERT with size and offset from the stack.
Returns == { P(size) \o offset \o << op >> :
               size \in {0, 2, 255}, offset \in Offsets,
               op \in {OP.RETURN, OP.REVERT} }

ReturnMemory == P(4) \o P(0) \o << OP.RETURN >>

MCCodes == { first \o ReturnMemory :
               first \in Computations \cup Accesses \cup Copies
                         \cup ReturnDataCopies \cup Reads }
           \cup { P2(7, 2) \o << OP.MSTORE >> \o last : last \in Returns }

MCRevisions == {REV.TANGERINE_WHISTLE, REV.LONDON}
MCOpTable == [r \in MCRevisions |-> get_op_table[r]]
MCBaselineTable ==
    [r \in MCRevisions |-> get_baseline_instruction_table[r]]

MCMessages == { Message(g, FALSE, 0) : g \in {24, 33, 64, 1000, 3000, 9000, 40000} }
              \cup { Message(40000, TRUE, 0) }

MCEnvironments == { Environment({1, 3}, Reply("SUCCESS", 60000, << 1, 2 >>)) }

=============================================================================
