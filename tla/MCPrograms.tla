------------------------------ MODULE MCPrograms -----------------------------
(***************************************************************************)
(* Messages, environments and building blocks of programs shared by the    *)
(* models that execute programs of the host-dependent, gas-dependent and   *)
(* memory instructions.                                                    *)
(***************************************************************************)
EXTENDS GenericInstructions

P(v) == << OP.PUSH1, v >>
P2(v, w) == P(v) \o P(w)
P3(v, w, x) == P2(v, w) \o P(x)
P4(v, w, x, y) == P2(v, w) \o P2(x, y)

MCJunkBytes == {OP.JUMPDEST}

Message(g, is_static, d) ==
    [kind |-> "CALL", gas |-> g, static |-> is_static, depth |-> d,
     recipient |-> 1, code_address |-> 1, sender |-> 2, value |-> 7,
     input |-> << 10, 11, 12 >>]

Reply(status, kept, bytes) == [status |-> status, gas_kept |-> kept,
                               output |-> bytes, create_address |-> 77]

\* Account 1 executes, account 3 exists with a code, others do not exist;
\* storage entry 5 is set.
Environment(warm, reply) ==
    [warm_accounts |-> warm, storage |-> [k \in {<<1, 5>>} |-> 9],
     balances |-> [a \in {1, 3} |-> IF a = 1 THEN 100 ELSE 0],
     codes |-> [a \in {3} |-> << 1, 2, 3 >>],
     tx |-> [op \in TxContextOps |-> op], block_number |-> 260,
     reply |-> reply, create_address |-> 77]

=============================================================================
