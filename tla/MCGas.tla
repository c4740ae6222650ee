-------------------------------- MODULE MCGas --------------------------------
(***************************************************************************)
(* Interpreters for TLC on the instructions that must know the exact gas:  *)
(* storage, calls and creates in the middle of a block, with gas around    *)
(* the amounts their charges add up to, in three generations of the rules. *)
(***************************************************************************)
EXTENDS Interpreters, MCPrograms

\* Output of 3 bytes at 2, input of 2 bytes at 0, all the gas or 50 of it.
CallArguments == P4(3, 2, 2, 0)

\* What follows the instruction in its block and after; a call and a create
\* that are refused, as the account does not have the value.
Tails == { << OP.GAS >>,
           CallArguments \o P2(200, 3) \o << OP.GAS, OP.CALL >>,
           P3(3, 1, 200) \o << OP.CREATE, OP.RETURNDATASIZE >>,
           << OP.GAS, OP.RETURNDATASIZE, OP.POP, OP.JUMPDEST, OP.GAS >>,
           P(5) \o << OP.SLOAD, OP.GAS, OP.INVALID >> }

Stores == { P2(0, 5) \o << OP.SSTORE >>,
            P2(9, 5) \o << OP.SSTORE >>,
            P2(8, 6) \o << OP.SSTORE >> \o P2(7, 6) \o << OP.SSTORE >>,
            P(5) \o << OP.SLOAD >> \o P2(1, 5) \o << OP.SSTORE >> }

Calls ==
    { CallArguments \o P2(value, dst) \o g \o << op >> :
        value \in {0, 1, 200}, dst \in {3, 9}, g \in {P(50), << OP.GAS >>},
        op \in {OP.CALL, OP.CALLCODE} }
    \cup { CallArguments \o P(dst) \o << OP.GAS, op >> :
        dst \in {3, 9}, op \in {OP.DELEGATECALL, OP.STATICCALL} }

Creates == { P3(3, 1, endowment) \o << OP.CREATE >> : endowment \in {0, 200} }
           \cup { P4(8, 3, 1, 1) \o << OP.CREATE2 >> }

\* No gas to correct, but refused in static mode like the others.
Logs == { P2(0, 0) \o << OP.LOG0 >>, P3(7, 2, 1) \o << OP.LOG0 + 1 >>,
          P(9) \o << OP.SELFDESTRUCT >> }

MCCodes == { first \o tail : first \in Stores \cup Calls \cup Creates \cup Logs,
                             tail \in Tails }
MCRevisions == {REV.HOMESTEAD, REV.ISTANBUL, REV.LONDON}
MCOpTable == [r \in MCRevisions |-> get_op_table[r]]
MCBaselineTable ==
    [r \in MCRevisions |-> get_baseline_instruction_table[r]]

MCMessages ==
    { Message(g, FALSE, 0) : g \in {80, 110, 830, 2310, 2420, 3200, 5020,
                                    9800, 10000, 20050, 34900, 60000} }
    \cup { Message(60000, TRUE, 0), Message(60000, FALSE, 1024) }

MCEnvironments ==
    { Environment({1}, Reply("SUCCESS", 60000, << 1, 2, 3, 4 >>)),
      Environment({1, 3}, Reply("REVERT", 20, << 6 >>)),
      Environment({1}, Reply("OUT_OF_GAS", 20, << >>)) }

=============================================================================
