--------------------------------- MODULE Host --------------------------------
(***************************************************************************)
(* The host interface the instructions call, modelled from how they use    *)
(* it: a deterministic host that answers the same calls alike.  What an    *)
(* execution cannot change is in env; what it changes is in the host field *)
(* of its state, so that two executions against two hosts in the same      *)
(* state can be compared.                                                  *)
(***************************************************************************)
EXTENDS ExecutionState

CONSTANT Environments

VARIABLE env   \* the environment of the execution

\* warm: accessed accounts and storage keys; dirty: the keys set before;
\* effects: the calls, logs and selfdestructs, in order.
InitialHost(e) == [warm_accounts |-> e.warm_accounts, warm_keys |-> {},
                   storage |-> e.storage, dirty |-> {}, effects |-> << >>]

AddressMod == 256
\* intx::be::trunc<ivmc::address>: an address is narrower than a word.
trunc_address(x) == x % AddressMod

get_balance(addr) == IF addr \in DOMAIN env.balances
                     THEN env.balances[addr] ELSE 0
account_exists(addr) == addr \in DOMAIN env.balances
get_code(addr) == IF addr \in DOMAIN env.codes THEN env.codes[addr]
                  ELSE << >>

\* Any function of the data serves as a hash.
keccak(bytes) ==
    LET h[n \in 0..Len(bytes)] ==
          IF n = 0 THEN 197 ELSE (h[n - 1] * 31 + bytes[n] + 1) % WordMod
    IN  h[Len(bytes)]

get_code_hash(addr) ==
    IF account_exists(addr) THEN keccak(get_code(addr)) ELSE 0
get_block_hash(n) == keccak(<<n>>)

access_account(s, addr) == [s EXCEPT !.host.warm_accounts = @ \cup {addr}]
IsColdAccount(s, addr) == addr \notin s.host.warm_accounts

\* The storage entry of the executing account for a key.
Entry(key) == <<msg.recipient, key>>

access_storage(s, key) ==
    [s EXCEPT !.host.warm_keys = @ \cup {Entry(key)}]
IsColdKey(s, key) == Entry(key) \notin s.host.warm_keys

get_storage(s, key) == IF Entry(key) \in DOMAIN s.host.storage
                       THEN s.host.storage[Entry(key)] ELSE 0

\* The status set_storage answers when key is set to value.
storage_status(s, key, value) ==
    CASE get_storage(s, key) = value -> "UNCHANGED"
      [] Entry(key) \in s.host.dirty /\ get_storage(s, key) # value ->
           "MODIFIED_AGAIN"
      [] Entry(key) \notin s.host.dirty /\ get_storage(s, key) = 0 /\ value # 0 ->
           "ADDED"
      [] Entry(key) \notin s.host.dirty /\ get_storage(s, key) # 0 /\ value = 0 ->
           "DELETED"
      [] OTHER -> "MODIFIED"
set_storage(s, key, value) ==
    [s EXCEPT !.host.storage = [k \in DOMAIN @ \cup {Entry(key)} |->
                                   IF k = Entry(key) THEN value ELSE @[k]],
              !.host.dirty = IF get_storage(s, key) = value THEN @
                             ELSE @ \cup {Entry(key)}]

Effect(s, e) == [s EXCEPT !.host.effects = Append(@, e)]

\* The callee answers as env.reply says: it keeps at most gas_kept of the gas
\* it is given, and nothing when it fails.
call_result(m) ==
    [status_code |-> env.reply.status,
     output      |-> env.reply.output,
     create_address |-> env.reply.create_address,
     gas_left |-> IF env.reply.status \notin {"SUCCESS", "REVERT"} THEN 0
                  ELSE IF m.gas < env.reply.gas_kept THEN m.gas
                  ELSE env.reply.gas_kept]

=============================================================================
