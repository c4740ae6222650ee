------------------------------ MODULE MCNested -------------------------------
(***************************************************************************)
(* NestedExecution for TLC: account 1 calls account 3 in several ways, and *)
(* what account 3 does, some of it through account 4, covers every way a   *)
(* callee can end.  The result depends on the gas left, the return data    *)
(* and the success of the call.                                            *)
(***************************************************************************)
EXTENDS NestedExecution, MCPrograms

\* Leave in memory a number made of all of that, and return it.
Digest == << OP.RETURNDATASIZE, OP.ADD, OP.GAS, OP.ADD >> \o P(0)
          \o << OP.MSTORE >> \o P2(4, 0) \o << OP.RETURN >>

\* Output of 2 bytes at 2, no input.
CallTo(dst, value, g, op) ==
    P4(2, 2, 0, 0) \o (IF op \in {OP.CALL, OP.CALLCODE} THEN P(value)
                       ELSE << >>) \o P(dst) \o g \o << op >>
AllGas == << OP.GAS >>

\* A JUMPDEST in the middle, so that the call does not end the last block.
Outer == { CallTo(3, value, AllGas, OP.CALL) \o << OP.JUMPDEST >> \o Digest :
             value \in {0, 1} }
         \cup { CallTo(3, 0, AllGas, OP.STATICCALL) \o Digest,
                << OP.RETURNDATASIZE >> \o CallTo(3, 0, P(90), OP.CALL)
                  \o << OP.ADD >> \o Digest,
                CallTo(3, 0, AllGas, OP.DELEGATECALL)
                  \o P2(5, 6) \o << OP.SSTORE >> \o Digest }

Store == P2(8, 6) \o << OP.SSTORE >>
Inner == { << >>,
           P2(7, 0) \o << OP.MSTORE >> \o P2(2, 0) \o << OP.RETURN >>,
           P2(7, 0) \o << OP.MSTORE >> \o P2(1, 1) \o << OP.REVERT >>,
           << OP.GAS, OP.INVALID >>,
           Store \o << OP.GAS, OP.ADD >>,
           Store \o << OP.PUSH1 >>,
           << OP.JUMPDEST >> \o P(0) \o << OP.JUMP >>,
           \* a creation with an init code of two bytes
           << OP.PUSH1 + 1, OP.GAS, OP.PC >> \o P(0) \o << OP.MSTORE >>
             \o P3(2, 0, 0) \o << OP.CREATE >> \o Digest }
         \cup { CallTo(4, 0, AllGas, op) \o Digest :
                  op \in {OP.CALL, OP.CALLCODE, OP.DELEGATECALL} }
\* Back to account 1, until the depth or the gas is exhausted.
Recursion == CallTo(1, 0, AllGas, OP.CALL) \o Digest

Env(c1, c3) ==
    [Environment({1}, << >>) EXCEPT
       !.codes = [a \in {1, 3, 4} |-> CASE a = 1 -> c1 [] a = 3 -> c3
                                        [] a = 4 -> Store],
       !.balances = [a \in {1, 3, 4} |-> 100]]

\* Small frames with little gas, for the runs with tracers and fairness: the
\* callee fails, loops, calls on to account 4 or back to account 1.
CallWith(g, dst, op) == CallTo(dst, 0, P(g), op) \o << OP.GAS >>
SmallEnvironments ==
    { [Env(CallWith(250, 3, OP.CALL), c3) EXCEPT
         !.warm_accounts = {1, 3, 4}] :
        c3 \in { << OP.INVALID >>, P(1) \o << OP.RETURN >>,
                 P2(1, 0) \o << OP.REVERT >>,
                 << OP.JUMPDEST >> \o P(0) \o << OP.JUMP >>,
                 CallWith(30, 4, OP.DELEGATECALL),
                 CallWith(120, 1, OP.CALL) } }
SmallMessages == { Message(420, FALSE, 1022) }

MCEnvironments == { Env(c1, c3) : c1 \in Outer, c3 \in Inner \cup {Recursion} }
MCCodes == Outer \cup Inner \cup {Recursion, Store}
MCRevisions == {REV.HOMESTEAD, REV.LONDON}
MCOpTable == [r \in MCRevisions |-> get_op_table[r]]
MCBaselineTable ==
    [r \in MCRevisions |-> get_baseline_instruction_table[r]]
MCMessages == { Message(g, FALSE, 1021) : g \in {2900, 33000} }

=============================================================================
