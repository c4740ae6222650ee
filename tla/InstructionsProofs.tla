-------------------------- MODULE InstructionsProofs -------------------------
(***************************************************************************)
(* What every instruction does to a state, for every width, limit, message *)
(* and environment: it touches nothing outside of the stack and the        *)
(* memory, leaves words and bytes, costs gas, and changes the host only as *)
(* static mode allows.  And what it does on two states that differ only in *)
(* the gas, as those of the two interpreters do.                           *)
(***************************************************************************)
EXTENDS GenericInstructions, WordsProofs

Fields == {"gas_left", "stack", "memory", "return_data", "status",
           "output_offset", "output_size", "host", "fault"}
HostFields == {"warm_accounts", "warm_keys", "storage", "dirty", "effects"}

\* What static mode allows: calls in static mode, a CALL without value.
StaticCall(e) == /\ e.kind \in {"CALL", "CALLCODE", "DELEGATECALL"}
                 /\ e.static
                 /\ e.kind = "CALL" => e.value = 0
Pure(h) == /\ h.storage = env.storage
           /\ \A n \in 1..Len(h.effects) : StaticCall(h.effects[n])

SoundHost(h) ==
    /\ h = [f \in HostFields |-> h[f]]
    /\ \A entry \in DOMAIN h.storage : h.storage[entry] \in Word
    /\ \E E : h.effects \in Seq(E)
    /\ msg.static => Pure(h)

\* A state with the types the instructions rely on, that has never been
\* accessed outside of its stack and memory, nor charged below 0 without
\* failing, and whose host has only been changed as the message allows.
Sound(s) ==
    /\ s = [f \in Fields |-> s[f]]
    /\ s.gas_left \in Int /\ s.gas_left <= Int64Max
    /\ Succeeded(s) => s.gas_left >= 0
    /\ s.stack \in Seq(Word) /\ Len(s.stack) <= StackLimit
    /\ s.memory \in Seq(Byte) /\ Len(s.memory) % WordSize = 0
    /\ Len(s.memory) <= MemoryLimit
    /\ IsBuffer(s.return_data)
    /\ s.output_offset \in Nat /\ s.output_size \in Nat
    /\ SoundHost(s.host)
    /\ s.fault = FALSE

\* The message and the host are as the instructions expect them.
Context_ == /\ ValidMessage(msg) /\ ValidEnvironment(env)
            /\ IsBuffer(code) /\ rev \in Revisions

\* t is a state that differs from s at most in the fields of F.
Only(s, t, F) == /\ t = [f \in Fields |-> t[f]]
                 /\ \A f \in Fields \ F : t[f] = s[f]

-----------------------------------------------------------------------------
(***************************************************************************)
(* The stack.                                                              *)
(***************************************************************************)
LEMMA LimitsFacts ==
    /\ StackLimit \in Nat /\ WordSize \in Nat \ {0}
    /\ max_buffer_size \in Nat /\ SizeMod \in Nat
    /\ 2 * max_buffer_size < SizeMod
    /\ MemoryLimit \in Nat /\ MemoryLimit < WordMod
    /\ MemoryLimit = 2 * max_buffer_size + 2 * WordSize
    /\ Int64Max \in Nat /\ Int64Max < WordMod
    /\ WordMod \in Nat \ {0} /\ WordMod >= 256
BY StackLimitAssumption, WordSizeAssumption, BufferAssumption,
   MemoryLimitAssumption, Int64MaxAssumption, WordModFacts DEF MemoryLimit

\* An item, or the 0 that stands for what lies below the stack, is a word.
LEMMA ItemIsWord ==
    ASSUME NEW s, Sound(s), NEW n \in Nat
    PROVE  Item(s, n) \in Word /\ Item(s, n) \in Nat
<1>1. s.stack \in Seq(Word) /\ Len(s.stack) \in Nat
  BY DEF Sound
<1>2. Item(s, n) \in Word
  <2>1. CASE n < Len(s.stack)
    <3>1. Len(s.stack) - n \in 1..Len(s.stack)
      BY <1>1, <2>1
    <3> QED
      BY <1>1, <2>1, <3>1 DEF Item
  <2>2. CASE ~(n < Len(s.stack))
    BY <2>2, WordIsNat DEF Item
  <2> QED
    BY <2>1, <2>2
<1> QED
  BY <1>2, WordIsNat

LEMMA NoneOf ==
    ASSUME NEW p, NEW q, p = FALSE, ~q
    PROVE  (p \/ q) = FALSE
OBVIOUS

LEMMA PushSound ==
    ASSUME NEW s, Sound(s), NEW x \in Word, Len(s.stack) < StackLimit
    PROVE  LET t == Push(s, x)
           IN  /\ Sound(t) /\ Only(s, t, {"stack"})
               /\ t.stack = Append(s.stack, x)
               /\ Len(t.stack) = Len(s.stack) + 1
<1> DEFINE t == Push(s, x)
<1>1. s.stack \in Seq(Word) /\ Len(s.stack) \in Nat
  BY DEF Sound
<1>2. /\ Only(s, t, {"stack", "fault"})
      /\ t.stack = Append(s.stack, x)
      /\ t.fault = (s.fault \/ Len(s.stack) >= StackLimit)
  BY DEF Push, Only, Sound, Fields
<1>3. t.stack \in Seq(Word) /\ Len(t.stack) = Len(s.stack) + 1
  BY <1>1, <1>2
<1>4. t.fault = FALSE /\ s.fault = FALSE
  <2>1. s.fault = FALSE /\ ~(Len(s.stack) >= StackLimit)
    BY <1>1, LimitsFacts DEF Sound
  <2>2. (s.fault \/ Len(s.stack) >= StackLimit) = FALSE
    BY <2>1, NoneOf
  <2> QED
    BY <1>2, <2>1, <2>2
<1> HIDE DEF t
<1>5. Only(s, t, {"stack"})
  BY <1>2, <1>4 DEF Only, Fields
<1>6. Sound(t)
  <2>1. /\ t = [f \in Fields |-> t[f]]
        /\ t.gas_left = s.gas_left /\ t.memory = s.memory
        /\ t.return_data = s.return_data /\ t.status = s.status
        /\ t.output_offset = s.output_offset /\ t.output_size = s.output_size
        /\ t.host = s.host
    BY <1>5 DEF Only, Fields
  <2>2. Len(t.stack) <= StackLimit
    BY <1>1, <1>3, LimitsFacts
  <2> QED
    BY <1>3, <1>4, <2>1, <2>2 DEF Sound, Succeeded
<1> QED
  BY <1>2, <1>3, <1>5, <1>6 DEF t

\* A changed part of a state is sound if the part is.
LEMMA StackChanged ==
    ASSUME NEW s, Sound(s), NEW t, Only(s, t, {"stack"}),
           t.stack \in Seq(Word), Len(t.stack) <= StackLimit
    PROVE  Sound(t)
<1>1. /\ t = [f \in Fields |-> t[f]]
      /\ t.gas_left = s.gas_left /\ t.memory = s.memory
      /\ t.return_data = s.return_data /\ t.status = s.status
      /\ t.output_offset = s.output_offset /\ t.output_size = s.output_size
      /\ t.host = s.host /\ t.fault = s.fault
  BY DEF Only, Fields
<1> QED
  BY <1>1 DEF Sound, Succeeded

LEMMA GasChanged ==
    ASSUME NEW s, Sound(s), NEW t, Only(s, t, {"gas_left", "status"}),
           t.gas_left \in Int, t.gas_left <= Int64Max,
           Succeeded(t) => t.gas_left >= 0
    PROVE  Sound(t)
<1>1. /\ t = [f \in Fields |-> t[f]]
      /\ t.stack = s.stack /\ t.memory = s.memory
      /\ t.return_data = s.return_data
      /\ t.output_offset = s.output_offset /\ t.output_size = s.output_size
      /\ t.host = s.host /\ t.fault = s.fault
  BY DEF Only, Fields
<1> QED
  BY <1>1 DEF Sound

LEMMA MemoryChanged ==
    ASSUME NEW s, Sound(s), NEW t, Only(s, t, {"memory"}),
           t.memory \in Seq(Byte), Len(t.memory) % WordSize = 0,
           Len(t.memory) <= MemoryLimit
    PROVE  Sound(t)
<1>1. /\ t = [f \in Fields |-> t[f]]
      /\ t.gas_left = s.gas_left /\ t.stack = s.stack
      /\ t.return_data = s.return_data /\ t.status = s.status
      /\ t.output_offset = s.output_offset /\ t.output_size = s.output_size
      /\ t.host = s.host /\ t.fault = s.fault
  BY DEF Only, Fields
<1> QED
  BY <1>1 DEF Sound, Succeeded

LEMMA HostChanged ==
    ASSUME NEW s, Sound(s), NEW t, Only(s, t, {"host"}), SoundHost(t.host)
    PROVE  Sound(t)
<1>1. /\ t = [f \in Fields |-> t[f]]
      /\ t.gas_left = s.gas_left /\ t.stack = s.stack /\ t.memory = s.memory
      /\ t.return_data = s.return_data /\ t.status = s.status
      /\ t.output_offset = s.output_offset /\ t.output_size = s.output_size
      /\ t.fault = s.fault
  BY DEF Only, Fields
<1> QED
  BY <1>1 DEF Sound, Succeeded

LEMMA OutputChanged ==
    ASSUME NEW s, Sound(s), NEW t,
           Only(s, t, {"return_data", "output_offset", "output_size"}),
           IsBuffer(t.return_data),
           t.output_offset \in Nat, t.output_size \in Nat
    PROVE  Sound(t)
<1>1. /\ t = [f \in Fields |-> t[f]]
      /\ t.gas_left = s.gas_left /\ t.stack = s.stack /\ t.memory = s.memory
      /\ t.status = s.status
      /\ t.host = s.host /\ t.fault = s.fault
  BY DEF Only, Fields
<1> QED
  BY <1>1 DEF Sound, Succeeded

\* A field that gets the value it had.
LEMMA Unchanged_ ==
    ASSUME NEW s, Sound(s), NEW t, Only(s, t, {"fault"}), t.fault = FALSE
    PROVE  t = s
<1>1. \A f \in Fields : t[f] = s[f]
  BY DEF Only, Sound, Fields
<1>2. t = [f \in Fields |-> t[f]] /\ s = [f \in Fields |-> s[f]]
  BY DEF Only, Sound
<1> QED
  BY <1>1, <1>2

\* The stack has the items an instruction reads, the memory the bytes.
LEMMA NeedsMet ==
    ASSUME NEW s, Sound(s), NEW n \in Nat, Len(s.stack) >= n
    PROVE  Needs(s, n) = s
<1>1. ~(Len(s.stack) < n) /\ s.fault = FALSE
  BY DEF Sound
<1>2. /\ Only(s, Needs(s, n), {"fault"})
      /\ Needs(s, n).fault = (s.fault \/ Len(s.stack) < n)
  BY DEF Needs, Only, Sound, Fields
<1>3. Needs(s, n).fault = FALSE
  BY <1>1, <1>2, NoneOf
<1> QED
  BY <1>2, <1>3, Unchanged_

LEMMA TouchMet ==
    ASSUME NEW s, Sound(s), NEW offset \in Nat, NEW n \in Nat,
           n = 0 \/ offset + n <= Len(s.memory)
    PROVE  TouchMemory(s, offset, n) = s
<1>0. Len(s.memory) \in Nat
  BY DEF Sound
<1>1. ~(n > 0 /\ offset + n > Len(s.memory)) /\ s.fault = FALSE
  BY <1>0 DEF Sound
<1>2. /\ Only(s, TouchMemory(s, offset, n), {"fault"})
      /\ TouchMemory(s, offset, n).fault
           = (s.fault \/ (n > 0 /\ offset + n > Len(s.memory)))
  BY DEF TouchMemory, Only, Sound, Fields
<1>3. TouchMemory(s, offset, n).fault = FALSE
  BY <1>1, <1>2, NoneOf
<1> QED
  BY <1>2, <1>3, Unchanged_

LEMMA TouchReturned ==
    ASSUME NEW s, Sound(s), NEW offset \in Nat, NEW n \in Nat,
           offset + n <= Len(s.return_data)
    PROVE  TouchReturnData(s, offset, n) = s
<1>0. Len(s.return_data) \in Nat
  BY DEF Sound, IsBuffer
<1>1. ~(n > 0 /\ offset + n > Len(s.return_data)) /\ s.fault = FALSE
  BY <1>0 DEF Sound
<1>2. /\ Only(s, TouchReturnData(s, offset, n), {"fault"})
      /\ TouchReturnData(s, offset, n).fault
           = (s.fault \/ (n > 0 /\ offset + n > Len(s.return_data)))
  BY DEF TouchReturnData, Only, Sound, Fields
<1>3. TouchReturnData(s, offset, n).fault = FALSE
  BY <1>1, <1>2, NoneOf
<1> QED
  BY <1>2, <1>3, Unchanged_

LEMMA DropSound ==
    ASSUME NEW s, Sound(s), NEW n \in Nat, Len(s.stack) >= n
    PROVE  LET t == Drop(s, n)
           IN  /\ Sound(t) /\ Only(s, t, {"stack"})
               /\ t.stack = SubSeq(s.stack, 1, Len(s.stack) - n)
               /\ Len(t.stack) = Len(s.stack) - n
<1> DEFINE t == Drop(s, n)
<1>1. s.stack \in Seq(Word) /\ Len(s.stack) \in Nat /\ Len(s.stack) <= StackLimit
  BY DEF Sound
<1>2. Needs(s, n) = s
  BY NeedsMet
<1>3. t = [s EXCEPT !.stack = SubSeq(s.stack, 1, Len(s.stack) - n)]
  BY <1>2 DEF Drop
<1>4. /\ Only(s, t, {"stack"})
      /\ t.stack = SubSeq(s.stack, 1, Len(s.stack) - n)
  BY <1>3 DEF Only, Sound, Fields
<1> HIDE DEF t
<1>5. t.stack \in Seq(Word) /\ Len(t.stack) = Len(s.stack) - n
  BY <1>1, <1>4
<1>6. Len(t.stack) <= StackLimit
  BY <1>1, <1>5, LimitsFacts
<1>7. Sound(t)
  BY <1>4, <1>5, <1>6, StackChanged
<1> QED
  BY <1>4, <1>5, <1>7 DEF t

LEMMA OnlyTwice ==
    ASSUME NEW s, NEW t, NEW u, NEW F, Only(s, t, F), Only(t, u, F)
    PROVE  Only(s, u, F)
BY DEF Only

LEMMA OnlyMore ==
    ASSUME NEW s, NEW t, NEW F, NEW G, Only(s, t, F), F \subseteq G
    PROVE  Only(s, t, G)
BY DEF Only

LEMMA ReplaceSound ==
    ASSUME NEW s, Sound(s), NEW n \in Nat \ {0}, Len(s.stack) >= n, NEW x \in Word
    PROVE  LET t == Replace(s, n, x)
           IN  /\ Sound(t) /\ Only(s, t, {"stack"})
               /\ t.stack = Append(SubSeq(s.stack, 1, Len(s.stack) - n), x)
               /\ Len(t.stack) = Len(s.stack) - n + 1
<1> DEFINE d == Drop(s, n)
           t == Push(d, x)
<1>1. /\ Sound(d) /\ Only(s, d, {"stack"})
      /\ d.stack = SubSeq(s.stack, 1, Len(s.stack) - n)
      /\ Len(d.stack) = Len(s.stack) - n
  BY DropSound
<1>2. Len(s.stack) \in Nat /\ Len(s.stack) <= StackLimit
  BY DEF Sound
<1> HIDE DEF d
<1>3. Len(d.stack) < StackLimit
  BY <1>1, <1>2, LimitsFacts
<1>4. /\ Sound(t) /\ Only(d, t, {"stack"})
      /\ t.stack = Append(d.stack, x)
      /\ Len(t.stack) = Len(d.stack) + 1
  BY <1>1, <1>3, PushSound
<1>5. Only(s, t, {"stack"})
  BY <1>1, <1>4, OnlyTwice
<1> QED
  BY <1>1, <1>4, <1>5 DEF Replace, d

-----------------------------------------------------------------------------
(***************************************************************************)
(* What an instruction, or a part of one, may do: t is s after it, and has *)
(* n items on the stack if it succeeded.                                   *)
(***************************************************************************)
Runs(s, t, n) ==
    /\ Sound(t)
    /\ t.gas_left <= s.gas_left
    /\ t.output_offset = s.output_offset /\ t.output_size = s.output_size
    /\ t.status # "REVERT"
    /\ Succeeded(t) => Len(t.stack) = n

\* A part that leaves the gas and the status alone.
LEMMA RunsFree ==
    ASSUME NEW s, NEW t, Sound(s), Succeeded(s), Sound(t),
           Only(s, t, Fields \ {"gas_left", "status", "output_offset",
                                "output_size"})
    PROVE  Runs(s, t, Len(t.stack)) /\ Succeeded(t)
<1>1. /\ t.gas_left = s.gas_left /\ t.status = s.status
      /\ t.output_offset = s.output_offset /\ t.output_size = s.output_size
  BY DEF Only, Fields
<1>2. s.gas_left \in Int
  BY DEF Sound
<1> QED
  BY <1>1, <1>2 DEF Runs, Succeeded

\* A part that succeeds is followed by the next one.
LEMMA RunsThen ==
    ASSUME NEW s, NEW t, NEW u, NEW v, NEW m, NEW n, Sound(s), Runs(s, t, m),
           v = IF Succeeded(t) THEN u ELSE t, Succeeded(t) => Runs(t, u, n)
    PROVE  Runs(s, v, n)
<1>1. s.gas_left \in Int /\ t.gas_left \in Int
  BY DEF Runs, Sound
<1>2. CASE Succeeded(t)
  <2>1. Runs(t, u, n) /\ v = u /\ u.gas_left \in Int
    BY <1>2 DEF Runs, Sound
  <2>2. u.gas_left <= s.gas_left
    BY <1>1, <2>1 DEF Runs
  <2> QED
    BY <2>1, <2>2 DEF Runs
<1>3. CASE ~Succeeded(t)
  BY <1>3 DEF Runs
<1> QED
  BY <1>2, <1>3

LEMMA RunsSame ==
    ASSUME NEW s, Sound(s), Succeeded(s), NEW F
    PROVE  Runs(s, s, Len(s.stack)) /\ Only(s, s, F)
<1>1. Only(s, s, F) /\ Only(s, s, Fields \ {"gas_left", "status",
                                           "output_offset", "output_size"})
  BY DEF Only, Sound
<1> QED
  BY <1>1, RunsFree

LEMMA FailRuns ==
    ASSUME NEW s, Sound(s), NEW c, c # "SUCCESS", c # "REVERT", NEW n
    PROVE  /\ Runs(s, Fail(s, c), n) /\ ~Succeeded(Fail(s, c))
           /\ Only(s, Fail(s, c), {"status"})
<1> DEFINE t == Fail(s, c)
<1>1. Only(s, t, {"status"}) /\ t.status = c
  BY DEF Fail, Only, Sound, Fields
<1> HIDE DEF t
<1>2. /\ t.gas_left = s.gas_left
      /\ t.output_offset = s.output_offset /\ t.output_size = s.output_size
  BY <1>1 DEF Only, Fields
<1>3. s.gas_left \in Int /\ s.gas_left <= Int64Max
  BY DEF Sound
<1>4. Only(s, t, {"gas_left", "status"}) /\ ~Succeeded(t)
  BY <1>1 DEF Only, Succeeded
<1>5. Sound(t)
  BY <1>2, <1>3, <1>4, GasChanged
<1> QED
  BY <1>1, <1>2, <1>3, <1>4, <1>5 DEF Runs, t

LEMMA ChargeRuns ==
    ASSUME NEW s, Sound(s), Succeeded(s), NEW cost \in Nat
    PROVE  LET t == Charge(s, cost)
           IN  /\ Runs(s, t, Len(s.stack))
               /\ Only(s, t, {"gas_left", "status"})
               /\ t.gas_left = s.gas_left - cost
               /\ Succeeded(t) <=> s.gas_left >= cost
               /\ t.status = IF s.gas_left >= cost THEN s.status
                             ELSE "OUT_OF_GAS"
<1> DEFINE u == [s EXCEPT !.gas_left = @ - cost]
           t == Charge(s, cost)
<1>0. s.gas_left \in Int /\ s.gas_left <= Int64Max /\ s.status = "SUCCESS"
  BY DEF Sound, Succeeded
<1>1. /\ Only(s, u, {"gas_left"}) /\ u.gas_left = s.gas_left - cost
      /\ u.status = s.status
  BY DEF Only, Sound, Fields
<1>2. t = IF u.gas_left < 0 THEN Fail(u, "OUT_OF_GAS") ELSE u
  BY DEF Charge
<1> HIDE DEF u, t
<1>3. /\ Only(s, t, {"gas_left", "status"}) /\ t.gas_left = s.gas_left - cost
      /\ t.status = IF s.gas_left >= cost THEN s.status ELSE "OUT_OF_GAS"
  <2>1. CASE u.gas_left < 0
    <3>1. t = Fail(u, "OUT_OF_GAS") /\ ~(s.gas_left >= cost)
      BY <1>0, <1>1, <1>2, <2>1
    <3>2. /\ Only(u, t, {"status"}) /\ t.status = "OUT_OF_GAS"
          /\ t.gas_left = u.gas_left
      BY <1>1, <3>1 DEF Fail, Only, Fields
    <3> QED
      BY <1>1, <3>1, <3>2 DEF Only
  <2>2. CASE ~(u.gas_left < 0)
    BY <1>0, <1>1, <1>2, <2>2 DEF Only
  <2> QED
    BY <2>1, <2>2
<1>4. Succeeded(t) <=> s.gas_left >= cost
  BY <1>0, <1>3 DEF Succeeded
<1>5. t.gas_left \in Int /\ t.gas_left <= Int64Max /\ t.gas_left <= s.gas_left
  BY <1>0, <1>3, LimitsFacts
<1>6. Sound(t)
  BY <1>0, <1>3, <1>4, <1>5, GasChanged
<1>7. /\ t.output_offset = s.output_offset /\ t.output_size = s.output_size
      /\ t.stack = s.stack /\ t.status # "REVERT"
  BY <1>0, <1>3 DEF Only, Fields
<1> QED
  BY <1>3, <1>4, <1>5, <1>6, <1>7 DEF Runs, t

-----------------------------------------------------------------------------
(***************************************************************************)
(* The memory.                                                             *)
(***************************************************************************)
\* The words for n bytes hold them, and less than one word more.
LEMMA WordsFor ==
    ASSUME NEW n \in Nat
    PROVE  /\ num_words(n) \in Nat
           /\ num_words(n) * WordSize \in Nat
           /\ num_words(n) * WordSize >= n
           /\ num_words(n) * WordSize < n + WordSize
           /\ (num_words(n) * WordSize) % WordSize = 0
<1> DEFINE w == WordSize
           q == (n + (w - 1)) \div w
<1>0. w \in Nat \ {0}
  BY WordSizeAssumption
<1>1. q = num_words(n)
  BY DEF num_words
<1> HIDE DEF w
<1>2. q \in Nat
  BY <1>0
<1>3. q * w >= n /\ q * w < n + w
  BY <1>0
<1>4. (q * w) % w = 0 /\ q * w \in Nat
  <2> HIDE DEF q
  <2> QED
    BY <1>0, <1>2
<1> QED
  BY <1>1, <1>2, <1>3, <1>4 DEF w

\* More words cost more.
LEMMA CostGrows ==
    ASSUME NEW a \in Nat, NEW b \in Nat, a <= b
    PROVE  MemoryCost(b) - MemoryCost(a) \in Nat
<1>1. a * a \in Nat /\ b * b \in Nat /\ a * a <= b * b
  <2>1. b = a + (b - a) /\ b - a \in Nat
    OBVIOUS
  <2>2. b * b = a * a + (b - a) * (a + b)
    BY <2>1
  <2>3. (b - a) * (a + b) \in Nat
    BY <2>1
  <2> QED
    BY <2>2, <2>3
<1> DEFINE x == a * a
           y == b * b
<1>2. x \div 512 \in Nat /\ y \div 512 \in Nat /\ x \div 512 <= y \div 512
  <2>1. x \in Nat /\ y \in Nat /\ x <= y
    BY <1>1
  <2> HIDE DEF x, y
  <2> QED
    BY <2>1
<1>3. MemoryCost(a) = 3 * a + x \div 512 /\ MemoryCost(b) = 3 * b + y \div 512
  BY DEF MemoryCost
<1> DEFINE p == x \div 512
           q == y \div 512
<1> HIDE DEF p, q, x, y
<1>4. p \in Nat /\ q \in Nat /\ p <= q
  BY <1>2 DEF p, q
<1>5. MemoryCost(a) = 3 * a + p /\ MemoryCost(b) = 3 * b + q
  BY <1>3 DEF p, q
<1> QED
  BY <1>4, <1>5

LEMMA GrowRuns ==
    ASSUME NEW s, Sound(s), Succeeded(s), NEW n \in Nat, n > Len(s.memory),
           n <= 2 * max_buffer_size + WordSize
    PROVE  LET t == grow_memory(s, n)
           IN  /\ Runs(s, t, Len(s.stack))
               /\ Only(s, t, {"gas_left", "status", "memory"})
               /\ Succeeded(t) => Len(t.memory) >= n
               /\ Len(t.memory) >= Len(s.memory)
<1> DEFINE w == num_words(n)
           m == Len(s.memory)
           c == m \div WordSize
           u == Charge(s, MemoryCost(w) - MemoryCost(c))
           memory == [k \in 1..w * WordSize |->
                         IF k <= Len(u.memory) THEN u.memory[k] ELSE 0]
           v == [u EXCEPT !.memory = memory]
           t == grow_memory(s, n)
<1>0. t = IF Succeeded(u) THEN v ELSE u
  BY DEF grow_memory, Then
<1>1. /\ m \in Nat /\ m % WordSize = 0 /\ s.memory \in Seq(Byte)
      /\ WordSize \in Nat \ {0}
  BY WordSizeAssumption DEF Sound
<1>2. /\ w \in Nat /\ w * WordSize \in Nat /\ w * WordSize >= n
      /\ w * WordSize < n + WordSize /\ (w * WordSize) % WordSize = 0
  BY WordsFor
<1>3. c \in Nat /\ c <= w
  <2> HIDE DEF w, m
  <2>1. c \in Nat /\ c * WordSize <= m
    BY <1>1
  <2>2. ASSUME c > w
        PROVE  FALSE
    <3> HIDE DEF c
    <3>1. c = w + 1 + (c - w - 1) /\ c - w - 1 \in Nat
      BY <1>2, <2>1, <2>2
    <3>2. c * WordSize = w * WordSize + WordSize + (c - w - 1) * WordSize
      BY <1>1, <1>2, <2>1, <3>1
    <3>3. (c - w - 1) * WordSize \in Nat
      BY <1>1, <3>1
    <3> DEFINE a == c * WordSize
               b == w * WordSize
               d == (c - w - 1) * WordSize
    <3> HIDE DEF a, b, d
    <3>4. a = b + WordSize + d /\ d \in Nat /\ b \in Nat /\ b >= n /\ a <= m
      BY <1>2, <2>1, <3>2, <3>3 DEF a, b, d
    <3> QED
      BY <1>1, <3>4 DEF m
  <2> QED
    BY <1>2, <2>1, <2>2
<1>4. MemoryCost(w) - MemoryCost(c) \in Nat
  BY <1>2, <1>3, CostGrows
<1>5. Runs(s, u, Len(s.stack)) /\ Only(s, u, {"gas_left", "status"})
  <2> DEFINE cost == MemoryCost(w) - MemoryCost(c)
  <2> HIDE DEF cost
  <2> QED
    BY <1>4, ChargeRuns DEF cost
<1>6. Sound(u) /\ u.memory = s.memory /\ u.stack = s.stack
  BY <1>5 DEF Runs, Only, Fields
<1> HIDE DEF u
<1>7. Only(u, v, {"memory"}) /\ v.memory = memory
  BY <1>6 DEF Only, Sound, Fields
<1>8. memory \in Seq(Byte) /\ Len(memory) = w * WordSize
  <2> DEFINE z == w * WordSize
  <2>1. z \in Nat
    BY <1>2
  <2> HIDE DEF z
  <2>2. memory = [k \in 1..z |-> IF k <= m THEN s.memory[k] ELSE 0]
    BY <1>6 DEF z
  <2>3. 0 \in Byte
    BY DEF Byte
  <2> HIDE DEF memory
  <2>4. memory \in [1..z -> Byte]
    <3>1. ASSUME NEW k \in 1..z
          PROVE  (IF k <= m THEN s.memory[k] ELSE 0) \in Byte
      <4>1. CASE k <= m
        <5>1. k \in 1..Len(s.memory)
          BY <1>1, <2>1, <4>1
        <5> QED
          BY <1>1, <4>1, <5>1
      <4>2. CASE ~(k <= m)
        BY <2>3, <4>2
      <4> QED
        BY <4>1, <4>2
    <3> HIDE DEF m
    <3> QED
      BY <2>2, <3>1
  <2>5. memory \in Seq(Byte) /\ Len(memory) = z
    BY <2>1, <2>4
  <2> QED
    BY <2>5 DEF z
<1> HIDE DEF v, memory, w
<1>9. Len(memory) <= MemoryLimit
  BY <1>2, <1>8, LimitsFacts
<1>10. Sound(v)
  BY <1>2, <1>6, <1>7, <1>8, <1>9, MemoryChanged
<1>11. Succeeded(u) => Runs(u, v, Len(s.stack))
  <2>1. v.stack = s.stack
    BY <1>6, <1>7 DEF Only, Fields
  <2>2. Only(u, v, Fields \ {"gas_left", "status", "output_offset",
                             "output_size"})
    BY <1>7 DEF Only, Fields
  <2> QED
    BY <1>6, <1>10, <2>1, <2>2, RunsFree
<1>12. Runs(s, t, Len(s.stack))
  BY <1>0, <1>5, <1>11, RunsThen
<1>13. Only(s, t, {"gas_left", "status", "memory"})
  BY <1>0, <1>5, <1>7 DEF Only
<1>14. CASE Succeeded(u)
  <2>1. t.memory = memory
    BY <1>0, <1>7, <1>14
  <2> QED
    BY <1>1, <1>2, <1>8, <1>12, <1>13, <2>1
<1>15. CASE ~Succeeded(u)
  BY <1>0, <1>1, <1>6, <1>12, <1>13, <1>15
<1> QED
  BY <1>14, <1>15

LEMMA CheckSmallRuns ==
    ASSUME NEW s, Sound(s), Succeeded(s), NEW offset \in Nat, NEW size \in Nat,
           size <= max_buffer_size \/ size <= WordSize
    PROVE  LET t == check_memory_small(s, offset, size)
           IN  /\ Runs(s, t, Len(s.stack))
               /\ Only(s, t, {"gas_left", "status", "memory"})
               /\ Succeeded(t) => /\ offset + size <= Len(t.memory)
                                  /\ offset <= max_buffer_size
               /\ Len(t.memory) >= Len(s.memory)
<1> DEFINE t == check_memory_small(s, offset, size)
<1>1. Len(s.memory) \in Nat
  BY DEF Sound
<1>2. CASE offset > max_buffer_size
  <2>1. t = Fail(s, "OUT_OF_GAS")
    BY <1>2 DEF check_memory_small
  <2>2. /\ Runs(s, t, Len(s.stack)) /\ ~Succeeded(t)
        /\ Only(s, t, {"status"})
    BY <2>1, FailRuns
  <2> HIDE DEF t
  <2>3. Only(s, t, {"gas_left", "status", "memory"}) /\ t.memory = s.memory
    BY <2>2 DEF Only, Fields
  <2> QED
    BY <1>1, <2>2, <2>3 DEF t
<1>3. CASE ~(offset > max_buffer_size) /\ offset + size > Len(s.memory)
  <2>1. t = grow_memory(s, offset + size)
    BY <1>3 DEF check_memory_small
  <2>2. /\ offset + size \in Nat /\ offset <= max_buffer_size
        /\ offset + size <= 2 * max_buffer_size + WordSize
    BY <1>3, LimitsFacts
  <2> QED
    BY <1>3, <2>1, <2>2, GrowRuns
<1>4. CASE ~(offset > max_buffer_size) /\ ~(offset + size > Len(s.memory))
  <2>1. t = s
    BY <1>4 DEF check_memory_small
  <2>2. Only(s, s, {"gas_left", "status", "memory"})
    BY RunsSame
  <2>3. Runs(s, s, Len(s.stack))
    BY RunsSame
  <2>4. offset <= max_buffer_size /\ offset + size <= Len(s.memory)
    BY <1>1, <1>4, LimitsFacts
  <2> QED
    BY <1>1, <2>1, <2>2, <2>3, <2>4
<1> QED
  BY <1>2, <1>3, <1>4

\* The memory has size bytes at an offset, both from the stack.
Covered(s, offset, size) ==
    /\ size_t(offset) \in Nat /\ size_t(size) = size
    /\ size = 0 \/ size_t(offset) + size <= Len(s.memory)

LEMMA CheckRuns ==
    ASSUME NEW s, Sound(s), Succeeded(s), NEW offset \in Nat, NEW size \in Nat
    PROVE  LET t == check_memory(s, offset, size)
           IN  /\ Runs(s, t, Len(s.stack))
               /\ Only(s, t, {"gas_left", "status", "memory"})
               /\ Succeeded(t) => Covered(t, offset, size)
               /\ Len(t.memory) >= Len(s.memory)
<1> DEFINE t == check_memory(s, offset, size)
<1>0. /\ SizeMod \in Nat \ {0} /\ max_buffer_size \in Nat
      /\ max_buffer_size < SizeMod
  BY LimitsFacts
<1>1. /\ size_t(offset) \in Nat
      /\ offset <= max_buffer_size => size_t(offset) = offset
      /\ size <= max_buffer_size => size_t(size) = size
  BY <1>0 DEF size_t
<1>2. CASE size = 0
  <2>1. t = s
    BY <1>2 DEF check_memory
  <2>2. Only(s, s, {"gas_left", "status", "memory"})
    BY RunsSame
  <2>3. Runs(s, s, Len(s.stack))
    BY RunsSame
  <2>4. Len(s.memory) \in Nat
    BY DEF Sound
  <2> QED
    BY <1>0, <1>1, <1>2, <2>1, <2>2, <2>3, <2>4 DEF Covered
<1>3. CASE size # 0 /\ size > max_buffer_size
  <2>1. t = Fail(s, "OUT_OF_GAS")
    BY <1>3 DEF check_memory
  <2>2. /\ Runs(s, t, Len(s.stack)) /\ ~Succeeded(t)
        /\ Only(s, t, {"status"})
    BY <2>1, FailRuns
  <2> HIDE DEF t
  <2>3. Only(s, t, {"gas_left", "status", "memory"}) /\ t.memory = s.memory
    BY <2>2 DEF Only, Fields
  <2>4. Len(s.memory) \in Nat
    BY DEF Sound
  <2> QED
    BY <2>2, <2>3, <2>4 DEF t
<1>4. CASE size # 0 /\ ~(size > max_buffer_size)
  <2>1. t = check_memory_small(s, offset, size) /\ size <= max_buffer_size
    BY <1>0, <1>4 DEF check_memory
  <2>2. /\ Runs(s, t, Len(s.stack))
        /\ Only(s, t, {"gas_left", "status", "memory"})
        /\ Succeeded(t) => /\ offset + size <= Len(t.memory)
                           /\ offset <= max_buffer_size
        /\ Len(t.memory) >= Len(s.memory)
    BY <2>1, CheckSmallRuns
  <2> QED
    BY <1>1, <2>1, <2>2 DEF Covered
<1> QED
  BY <1>2, <1>3, <1>4

LEMMA PaddedBytes ==
    ASSUME NEW source \in Seq(Byte), NEW offset \in Nat, NEW n \in Nat
    PROVE  /\ Padded(source, offset, n) \in Seq(Byte)
           /\ Len(Padded(source, offset, n)) = n
<1>1. ASSUME NEW k \in 1..n
      PROVE  (IF offset + k <= Len(source) THEN source[offset + k] ELSE 0)
               \in Byte
  <2>1. CASE offset + k <= Len(source)
    <3>1. offset + k \in 1..Len(source)
      BY <2>1
    <3> QED
      BY <2>1, <3>1
  <2>2. CASE ~(offset + k <= Len(source))
    BY <2>2 DEF Byte
  <2> QED
    BY <2>1, <2>2
<1>2. Padded(source, offset, n) \in [1..n -> Byte]
  BY <1>1 DEF Padded
<1> QED
  BY <1>2

LEMMA WriteSound ==
    ASSUME NEW s, Sound(s), NEW offset \in Nat, NEW bytes \in Seq(Byte),
           Len(bytes) = 0 \/ offset + Len(bytes) <= Len(s.memory)
    PROVE  LET t == WriteMemory(s, offset, bytes)
           IN  /\ Sound(t) /\ Only(s, t, {"memory"})
               /\ Len(t.memory) = Len(s.memory)
<1> DEFINE m == Len(s.memory)
           written == offset + 1..offset + Len(bytes)
           memory == [k \in 1..m |-> IF k \in written THEN bytes[k - offset]
                                     ELSE s.memory[k]]
           t == [s EXCEPT !.memory = memory]
<1>1. /\ m \in Nat /\ s.memory \in Seq(Byte) /\ m % WordSize = 0
      /\ m <= MemoryLimit /\ Len(bytes) \in Nat
  BY DEF Sound
<1>2. TouchMemory(s, offset, Len(bytes)) = s
  BY TouchMet
<1>3. WriteMemory(s, offset, bytes) = t
  BY <1>2 DEF WriteMemory
<1>4. Only(s, t, {"memory"}) /\ t.memory = memory
  BY DEF Only, Sound, Fields
<1>5. ASSUME NEW k \in 1..m
      PROVE  (IF k \in written THEN bytes[k - offset] ELSE s.memory[k])
               \in Byte
  <2>1. CASE k \in written
    <3>1. k - offset \in 1..Len(bytes)
      BY <1>1, <2>1
    <3> QED
      BY <2>1, <3>1
  <2>2. CASE k \notin written
    BY <1>1, <2>2
  <2> QED
    BY <2>1, <2>2
<1> HIDE DEF t
<1>6. memory \in Seq(Byte) /\ Len(memory) = m
  <2> HIDE DEF m, written
  <2>1. memory \in [1..m -> Byte]
    BY <1>5
  <2> HIDE DEF memory
  <2> QED
    BY <1>1, <2>1
<1> HIDE DEF memory
<1>7. Sound(t)
  BY <1>1, <1>4, <1>6, MemoryChanged
<1> QED
  BY <1>3, <1>4, <1>6, <1>7

\* A touched and covered memory stays as it is.
LEMMA TouchCovered ==
    ASSUME NEW s, Sound(s), NEW offset \in Nat, NEW size \in Nat,
           Covered(s, offset, size)
    PROVE  TouchMemory(s, size_t(offset), size) = s
BY TouchMet DEF Covered

-----------------------------------------------------------------------------
(***************************************************************************)
(* The host.                                                               *)
(***************************************************************************)
\* keccak(): the hash of any number of bytes is a word.
LEMMA HashIsWord ==
    ASSUME NEW bytes, Len(bytes) \in Nat,
           \A n \in 1..Len(bytes) : bytes[n] \in Nat
    PROVE  keccak(bytes) \in Word
<1> DEFINE N == Len(bytes)
           Body(f) == [n \in 0..N |-> IF n = 0 THEN 197
                         ELSE (f[n - 1] * 31 + bytes[n] + 1) % WordMod]
           value == CHOOSE f : f = Body(f)
           G == [n \in 1..N |-> [x \in Word |->
                                   (x * 31 + bytes[n] + 1) % WordMod]]
<1>1. keccak(bytes) = value[N]
  BY DEF keccak
<1>2. N \in Nat /\ 197 \in Word /\ \A n \in 1..N : bytes[n] \in Nat
  BY WordModFacts DEF Word
<1>3. \A n \in 1..N, x \in Word : (x * 31 + bytes[n] + 1) % WordMod \in Word
  BY <1>2, WordModFacts DEF Word
<1> HIDE DEF N
<1>4. G \in [1..N -> [Word -> Word]]
  BY <1>3
<1>5. \E f : f = Body(f)
  <2>1. PICK f \in [0..N -> Word] :
          f[0] = 197 /\ \A n \in 1..N : f[n] = G[n][f[n - 1]]
    <3> HIDE DEF G
    <3>1. Recursive(N, Word, 197, G)
      BY <1>2, <1>4, Recursion
    <3> QED
      BY <3>1 DEF Recursive
  <2>2. ASSUME NEW n \in 1..N
        PROVE  f[n] = (f[n - 1] * 31 + bytes[n] + 1) % WordMod
    <3>1. n - 1 \in 0..N
      BY <1>2
    <3>2. f[n - 1] \in Word
      BY <3>1, <2>1
    <3>3. G[n][f[n - 1]] = (f[n - 1] * 31 + bytes[n] + 1) % WordMod
      BY <3>2
    <3> QED
      BY <3>3, <2>1
  <2>3. f = Body(f)
    BY <1>2, <2>1, <2>2
  <2> HIDE DEF Body
  <2> QED
    BY <2>3
<1>6. value = Body(value)
  BY <1>5
<1> HIDE DEF value
<1>7. value[0] \in Word /\ \A n \in 1..N : value[n - 1] \in Word => value[n] \in Word
  BY <1>2, <1>3, <1>6
<1> DEFINE P == {n \in 0..N : value[n] \in Word}
<1>8. 0..N \subseteq P
  <2>1. 0 \in P /\ \A n \in 1..N : n - 1 \in P => n \in P
    BY <1>2, <1>7
  <2> HIDE DEF P
  <2> QED
    BY <1>2, <2>1, RangeInduction
<1> QED
  BY <1>1, <1>2, <1>8

LEMMA BytesAreNumbers ==
    ASSUME NEW bytes \in Seq(Byte)
    PROVE  /\ Len(bytes) \in Nat
           /\ \A n \in 1..Len(bytes) : bytes[n] \in Nat
           /\ keccak(bytes) \in Word /\ be_load(bytes) \in Word
<1>1. Len(bytes) \in Nat /\ \A n \in 1..Len(bytes) : bytes[n] \in Byte
  OBVIOUS
<1>2. Byte \subseteq Nat
  BY DEF Byte
<1>3. \A n \in 1..Len(bytes) : bytes[n] \in Nat
  BY <1>1, <1>2
<1> QED
  BY <1>1, <1>3, HashIsWord, LoadIsWord

\* What the host answers is a word or bytes.
LEMMA AnswersTyped ==
    ASSUME Context_, NEW addr, NEW n \in Nat
    PROVE  /\ get_balance(addr) \in Word
           /\ IsBuffer(get_code(addr))
           /\ get_code_hash(addr) \in Word
           /\ get_block_hash(n) \in Word
<1>0. ValidEnvironment(env) /\ 0 \in Word
  BY WordIsNat DEF Context_
<1>1. get_balance(addr) \in Word
  BY <1>0 DEF get_balance, ValidEnvironment
<1>2. IsBuffer(get_code(addr))
  BY <1>0 DEF get_code, ValidEnvironment, IsBuffer
<1>3. get_code_hash(addr) \in Word
  BY <1>0, <1>2, BytesAreNumbers DEF get_code_hash, IsBuffer
<1>4. get_block_hash(n) \in Word
  BY HashIsWord DEF get_block_hash
<1> QED
  BY <1>1, <1>2, <1>3, <1>4

LEMMA StorageTyped ==
    ASSUME NEW s, Sound(s), NEW key
    PROVE  get_storage(s, key) \in Word
BY WordIsNat DEF Sound, SoundHost, get_storage

\* The host h has become g, which differs from it in the fields F only.
HostOnly(h, g, F) == /\ g = [f \in HostFields |-> g[f]]
                     /\ \A f \in HostFields \ F : g[f] = h[f]

LEMMA AccessSound ==
    ASSUME NEW s, Sound(s), NEW x
    PROVE  LET a == access_account(s, x)
               k == access_storage(s, x)
           IN  /\ Sound(a) /\ Only(s, a, {"host"})
               /\ Sound(k) /\ Only(s, k, {"host"})
               /\ k.host.storage = s.host.storage
<1>1. SoundHost(s.host) /\ s.host = [f \in HostFields |-> s.host[f]]
  BY DEF Sound, SoundHost
<1>2. ASSUME NEW t, Only(s, t, {"host"}),
             HostOnly(s.host, t.host, {"warm_accounts", "warm_keys"})
      PROVE  Sound(t) /\ t.host.storage = s.host.storage
  <2>1. /\ t.host = [f \in HostFields |-> t.host[f]]
        /\ t.host.storage = s.host.storage /\ t.host.effects = s.host.effects
    BY <1>2 DEF HostOnly, HostFields
  <2>2. SoundHost(t.host)
    BY <1>1, <2>1 DEF SoundHost, Pure
  <2> QED
    BY <1>2, <2>1, <2>2, HostChanged
<1>3. ASSUME NEW S
      PROVE  /\ HostOnly(s.host, [s.host EXCEPT !.warm_accounts = S],
                         {"warm_accounts", "warm_keys"})
             /\ HostOnly(s.host, [s.host EXCEPT !.warm_keys = S],
                         {"warm_accounts", "warm_keys"})
  BY <1>1 DEF HostOnly, HostFields
<1>4. ASSUME NEW h
      PROVE  Only(s, [s EXCEPT !.host = h], {"host"})
             /\ [s EXCEPT !.host = h].host = h
  BY DEF Sound, Only, Fields
<1>5. access_account(s, x) = [s EXCEPT !.host =
        [s.host EXCEPT !.warm_accounts = s.host.warm_accounts \cup {x}]]
  BY DEF access_account
<1>6. access_storage(s, x) = [s EXCEPT !.host =
        [s.host EXCEPT !.warm_keys = s.host.warm_keys \cup {Entry(x)}]]
  BY DEF access_storage
<1>7. Sound(access_account(s, x)) /\ Only(s, access_account(s, x), {"host"})
  <2> DEFINE h == [s.host EXCEPT !.warm_accounts =
                     s.host.warm_accounts \cup {x}]
             t == [s EXCEPT !.host = h]
  <2>1. HostOnly(s.host, h, {"warm_accounts", "warm_keys"})
    BY <1>3
  <2> HIDE DEF h
  <2>2. Only(s, t, {"host"}) /\ t.host = h
    BY <1>4
  <2> HIDE DEF t
  <2>3. Sound(t)
    BY <1>2, <2>1, <2>2
  <2> QED
    BY <1>5, <2>2, <2>3 DEF t, h
<1>8. LET k == access_storage(s, x)
      IN  /\ Sound(k) /\ Only(s, k, {"host"})
          /\ k.host.storage = s.host.storage
  <2> DEFINE h == [s.host EXCEPT !.warm_keys =
                     s.host.warm_keys \cup {Entry(x)}]
             t == [s EXCEPT !.host = h]
  <2>1. HostOnly(s.host, h, {"warm_accounts", "warm_keys"})
    BY <1>3
  <2> HIDE DEF h
  <2>2. Only(s, t, {"host"}) /\ t.host = h
    BY <1>4
  <2> HIDE DEF t
  <2>3. Sound(t) /\ t.host.storage = s.host.storage
    BY <1>2, <2>1, <2>2
  <2> QED
    BY <1>6, <2>2, <2>3 DEF t, h
<1> QED
  BY <1>7, <1>8

LEMMA EffectSound ==
    ASSUME NEW s, Sound(s), NEW e, msg.static => StaticCall(e)
    PROVE  LET t == Effect(s, e)
           IN  Sound(t) /\ Only(s, t, {"host"})
<1> DEFINE x == Append(s.host.effects, e)
           h == [s.host EXCEPT !.effects = x]
           t == [s EXCEPT !.host = h]
<1>1. SoundHost(s.host) /\ s.host = [f \in HostFields |-> s.host[f]]
  BY DEF Sound, SoundHost
<1>2. Effect(s, e) = t
  BY DEF Effect
<1>3. Only(s, t, {"host"}) /\ t.host = h
  BY DEF Only, Sound, Fields
<1>4. HostOnly(s.host, h, {"effects"}) /\ h.effects = x
  BY <1>1 DEF HostOnly, HostFields
<1>5. PICK E : s.host.effects \in Seq(E)
  BY <1>1 DEF SoundHost
<1>6. /\ x \in Seq(E \cup {e}) /\ Len(x) = Len(s.host.effects) + 1
      /\ Len(s.host.effects) \in Nat
      /\ \A n \in 1..Len(s.host.effects) : x[n] = s.host.effects[n]
      /\ x[Len(x)] = e
  BY <1>5
<1> HIDE DEF h, x, t
<1>7. h = [f \in HostFields |-> h[f]] /\ h.storage = s.host.storage
  BY <1>4 DEF HostOnly, HostFields
<1>8. msg.static => Pure(h)
  <2> SUFFICES ASSUME msg.static
               PROVE  Pure(h)
    OBVIOUS
  <2>1. Pure(s.host) /\ StaticCall(e)
    BY <1>1 DEF SoundHost
  <2>2. ASSUME NEW n \in 1..Len(x)
        PROVE  StaticCall(x[n])
    <3>1. CASE n = Len(x)
      BY <1>6, <2>1, <3>1
    <3>2. CASE n # Len(x)
      <4>1. n \in 1..Len(s.host.effects)
        BY <1>6, <3>2
      <4> QED
        BY <1>6, <2>1, <4>1 DEF Pure
    <3> QED
      BY <3>1, <3>2
  <2> QED
    BY <1>4, <1>7, <2>1, <2>2 DEF Pure
<1>9. SoundHost(h)
  BY <1>1, <1>4, <1>6, <1>7, <1>8 DEF SoundHost
<1> QED
  BY <1>2, <1>3, <1>9, HostChanged

LEMMA StoreSound ==
    ASSUME NEW s, Sound(s), ~msg.static, NEW key, NEW value \in Word
    PROVE  LET t == set_storage(s, key, value)
           IN  Sound(t) /\ Only(s, t, {"host"})
<1> DEFINE S == s.host.storage
           storage == [k \in DOMAIN S \cup {Entry(key)} |->
                         IF k = Entry(key) THEN value ELSE S[k]]
           dirty == IF get_storage(s, key) = value THEN s.host.dirty
                    ELSE s.host.dirty \cup {Entry(key)}
           h == [s.host EXCEPT !.storage = storage, !.dirty = dirty]
           t == [s EXCEPT !.host = h]
<1>1. SoundHost(s.host) /\ s.host = [f \in HostFields |-> s.host[f]]
  BY DEF Sound, SoundHost
<1>2. set_storage(s, key, value) = t
  BY <1>1 DEF set_storage, Sound, Fields, HostFields
<1>3. Only(s, t, {"host"}) /\ t.host = h
  BY DEF Only, Sound, Fields
<1>4. \A entry \in DOMAIN storage : storage[entry] \in Word
  BY <1>1 DEF SoundHost
<1> HIDE DEF storage, dirty
<1>5. HostOnly(s.host, h, {"storage", "dirty"}) /\ h.storage = storage
  BY <1>1 DEF HostOnly, HostFields
<1> HIDE DEF h, t
<1>6. h = [f \in HostFields |-> h[f]] /\ h.effects = s.host.effects
  BY <1>5 DEF HostOnly, HostFields
<1>7. SoundHost(h)
  BY <1>1, <1>4, <1>5, <1>6 DEF SoundHost
<1> QED
  BY <1>2, <1>3, <1>7, HostChanged

-----------------------------------------------------------------------------
(***************************************************************************)
(* The instructions.                                                       *)
(***************************************************************************)
\* The state before an instruction that reads n items.
Ready(s, n) == Sound(s) /\ Succeeded(s) /\ Len(s.stack) >= n

LEMMA StackRuns ==
    ASSUME NEW s, NEW t, Sound(s), Succeeded(s), Sound(t),
           Only(s, t, {"stack"}) \/ Only(s, t, {"memory"})
             \/ Only(s, t, {"host"})
    PROVE  Runs(s, t, Len(t.stack)) /\ Succeeded(t)
<1>1. Only(s, t, Fields \ {"gas_left", "status", "output_offset",
                           "output_size"})
  BY DEF Only, Fields
<1> QED
  BY <1>1, RunsFree

LEMMA PushRuns ==
    ASSUME NEW s, Ready(s, 0), Len(s.stack) < StackLimit, NEW x \in Word
    PROVE  Runs(s, Push(s, x), Len(s.stack) + 1)
<1> DEFINE t == Push(s, x)
<1>1. Sound(t) /\ Only(s, t, {"stack"}) /\ Len(t.stack) = Len(s.stack) + 1
  BY PushSound DEF Ready
<1> HIDE DEF t
<1>2. Runs(s, t, Len(t.stack))
  BY <1>1, StackRuns DEF Ready
<1> QED
  BY <1>1, <1>2 DEF t

LEMMA DropRuns ==
    ASSUME NEW s, NEW n \in Nat, Ready(s, n)
    PROVE  Runs(s, Drop(s, n), Len(s.stack) - n) /\ Succeeded(Drop(s, n))
<1> DEFINE t == Drop(s, n)
<1>1. Sound(t) /\ Only(s, t, {"stack"}) /\ Len(t.stack) = Len(s.stack) - n
  BY DropSound DEF Ready
<1> HIDE DEF t
<1>2. Runs(s, t, Len(t.stack)) /\ Succeeded(t)
  BY <1>1, StackRuns DEF Ready
<1> QED
  BY <1>1, <1>2 DEF t

LEMMA ReplaceRuns ==
    ASSUME NEW s, NEW n \in Nat \ {0}, Ready(s, n), NEW x \in Word
    PROVE  Runs(s, Replace(s, n, x), Len(s.stack) - n + 1)
<1> DEFINE t == Replace(s, n, x)
<1>1. /\ Sound(t) /\ Only(s, t, {"stack"})
      /\ Len(t.stack) = Len(s.stack) - n + 1
  BY ReplaceSound DEF Ready
<1> HIDE DEF t
<1>2. Runs(s, t, Len(t.stack))
  BY <1>1, StackRuns DEF Ready
<1> QED
  BY <1>1, <1>2 DEF t

LEMMA WriteRuns ==
    ASSUME NEW s, Ready(s, 0), NEW offset \in Nat, NEW bytes \in Seq(Byte),
           Len(bytes) = 0 \/ offset + Len(bytes) <= Len(s.memory)
    PROVE  Runs(s, WriteMemory(s, offset, bytes), Len(s.stack))
<1> DEFINE t == WriteMemory(s, offset, bytes)
<1>1. Sound(t) /\ Only(s, t, {"memory"})
  BY WriteSound DEF Ready
<1> HIDE DEF t
<1>2. Runs(s, t, Len(t.stack)) /\ t.stack = s.stack
  BY <1>1, StackRuns DEF Ready, Only, Fields
<1> QED
  BY <1>2 DEF t

\* What a check of the memory or a charge leaves of a state.
LEMMA StackKept ==
    ASSUME NEW s, NEW t, Only(s, t, {"gas_left", "status", "memory"})
             \/ Only(s, t, {"gas_left", "status"})
    PROVE  /\ t.stack = s.stack /\ t.host = s.host
           /\ t.return_data = s.return_data
           /\ Only(s, t, {"gas_left", "status"}) => t.memory = s.memory
BY DEF Only, Fields

\* The cost of a number of words.
LEMMA WordsCost ==
    ASSUME NEW size \in Nat, NEW c \in Nat
    PROVE  num_words(size) * c \in Nat /\ size * c \in Nat
<1>1. num_words(size) \in Nat
  BY WordsFor
<1> QED
  BY <1>1

\* The memory is checked and paid for by the word or byte.
LEMMA PaidMemory ==
    ASSUME NEW s, Ready(s, 0), NEW offset \in Nat, NEW size \in Nat,
           NEW cost \in Nat
    PROVE  LET u == check_memory(s, offset, size)
               t == IF Succeeded(u) THEN Charge(u, cost) ELSE u
           IN  /\ Runs(s, t, Len(s.stack))
               /\ Only(s, t, {"gas_left", "status", "memory"})
               /\ Succeeded(t) => Covered(t, offset, size)
<1> DEFINE u == check_memory(s, offset, size)
           v == Charge(u, cost)
           t == IF Succeeded(u) THEN v ELSE u
<1>1. /\ Runs(s, u, Len(s.stack))
      /\ Only(s, u, {"gas_left", "status", "memory"})
      /\ Succeeded(u) => Covered(u, offset, size)
  BY CheckRuns DEF Ready
<1>2. t = IF Succeeded(u) THEN v ELSE u
  OBVIOUS
<1> HIDE DEF t, u
<1>3. CASE Succeeded(u)
  <2>1. Sound(u) /\ u.stack = s.stack
    BY <1>1, StackKept DEF Runs
  <2>2. Runs(u, v, Len(s.stack)) /\ Only(u, v, {"gas_left", "status"})
    BY <1>3, <2>1, ChargeRuns
  <2> HIDE DEF v
  <2>3. t = v /\ Runs(s, v, Len(s.stack))
    BY <1>1, <1>2, <1>3, <2>2, RunsThen DEF Ready
  <2>4. v.memory = u.memory
    BY <2>2, StackKept
  <2>5. Covered(v, offset, size)
    BY <1>1, <1>3, <2>4 DEF Covered
  <2>6. Only(s, v, {"gas_left", "status", "memory"})
    BY <1>1, <2>2 DEF Only
  <2> QED
    BY <2>3, <2>5, <2>6 DEF t, u, v
<1>4. CASE ~Succeeded(u)
  <2>1. t = u
    BY <1>2, <1>4
  <2> QED
    BY <1>1, <1>4, <2>1 DEF t, u
<1> QED
  BY <1>3, <1>4

-----------------------------------------------------------------------------
LEMMA ArithmeticRuns ==
    ASSUME NEW s, NEW op, op \in OP.ADD..OP.SAR /\ op # OP.EXP,
           StackTraits(op) # <<0, 0>>, Ready(s, StackTraits(op)[1])
    PROVE  Runs(s, Arithmetic(op, s), Len(s.stack) + StackTraits(op)[2])
<1> DEFINE a == Item(s, 0)
           b == Item(s, 1)
           c == Item(s, 2)
           n == Len(s.stack)
<1>0. Sound(s) /\ n \in Nat
  BY DEF Ready, Sound
<1>1. a \in Word /\ b \in Word /\ c \in Word
  BY <1>0, ItemIsWord
<1> HIDE DEF a, b, c
<1>2. CASE op \in {OP.ISZERO, OP.NOT}
  <2>1. StackTraits(op) = <<1, 0>>
    BY <1>2 DEF StackTraits, OP, PushOps, DupOps, SwapOps, LogOps
  <2>2. PICK x \in Word : Arithmetic(op, s) = Replace(s, 1, x)
    BY <1>1, <1>2, UnaryIsWord DEF Arithmetic, Unary, a, OP
  <2>3. n + StackTraits(op)[2] = n - 1 + 1 /\ Ready(s, 1)
    BY <1>0, <2>1
  <2> QED
    BY <2>2, <2>3, ReplaceRuns
<1>3. CASE op \in {OP.ADDMOD, OP.MULMOD}
  <2>1. StackTraits(op) = <<3, -2>>
    BY <1>3 DEF StackTraits, OP, PushOps, DupOps, SwapOps, LogOps
  <2>2. PICK x \in Word : Arithmetic(op, s) = Replace(s, 3, x)
    BY <1>1, <1>3, TernaryIsWord DEF Arithmetic, Ternary, a, b, c, OP
  <2>3. n + StackTraits(op)[2] = n - 3 + 1 /\ Ready(s, 3)
    BY <1>0, <2>1
  <2> QED
    BY <2>2, <2>3, ReplaceRuns
<1>4. CASE op \in {OP.ADD, OP.MUL, OP.SUB, OP.DIV, OP.SDIV, OP.MOD, OP.SMOD,
                   OP.SIGNEXTEND, OP.LT, OP.GT, OP.SLT, OP.SGT, OP.EQ, OP.AND,
                   OP.OR, OP.XOR, OP.BYTE, OP.SHL, OP.SHR, OP.SAR}
  <2>1. StackTraits(op) = <<2, -1>>
    BY <1>4 DEF StackTraits, OP, PushOps, DupOps, SwapOps, LogOps
  <2>2. PICK x \in Word : Arithmetic(op, s) = Replace(s, 2, x)
    <3>1. /\ add(a, b) \in Word /\ mul(a, b) \in Word /\ sub(a, b) \in Word
          /\ div(a, b) \in Word /\ mod(a, b) \in Word
          /\ lt(a, b) \in Word /\ gt(a, b) \in Word /\ slt(a, b) \in Word
          /\ sgt(a, b) \in Word /\ eq(a, b) \in Word
          /\ shl(a, b) \in Word /\ shr(a, b) \in Word
      BY <1>1, BinaryIsWord
    <3>2. /\ sdiv(a, b) \in Word /\ smod(a, b) \in Word
          /\ signextend(a, b) \in Word /\ byte(a, b) \in Word
          /\ sar(a, b) \in Word
      BY <1>1, SignedDivision, SignextendIsWord, ByteIsWord, SarIsWord
    <3>3. and_(a, b) \in Word /\ or_(a, b) \in Word /\ xor_(a, b) \in Word
      BY BitwiseIsWord
    <3> QED
      BY <1>4, <3>1, <3>2, <3>3 DEF Arithmetic, Binary, a, b, OP
  <2>3. n + StackTraits(op)[2] = n - 2 + 1 /\ Ready(s, 2)
    BY <1>0, <2>1
  <2> QED
    BY <2>2, <2>3, ReplaceRuns
<1>5. CASE op \notin {OP.ISZERO, OP.NOT, OP.ADDMOD, OP.MULMOD, OP.ADD, OP.MUL,
                      OP.SUB, OP.DIV, OP.SDIV, OP.MOD, OP.SMOD, OP.SIGNEXTEND,
                      OP.LT, OP.GT, OP.SLT, OP.SGT, OP.EQ, OP.AND, OP.OR,
                      OP.XOR, OP.BYTE, OP.SHL, OP.SHR, OP.SAR}
  <2>1. op \in {12, 13, 14, 15}
    BY <1>5 DEF OP
  <2>2. StackTraits(op) = <<0, 0>>
    BY <2>1 DEF StackTraits, OP, PushOps, DupOps, SwapOps, LogOps
  <2> QED
    BY <2>2
<1> QED
  BY <1>2, <1>3, <1>4, <1>5

LEMMA ExpRuns ==
    ASSUME NEW s, Ready(s, 2)
    PROVE  Runs(s, exp(s), Len(s.stack) - 1)
<1> DEFINE base == Item(s, 0)
           exponent == Item(s, 1)
           c == IF rev >= REV.SPURIOUS_DRAGON THEN 50 ELSE 10
           bytes == count_significant_bytes(exponent)
           cost == bytes * c
           d == Drop(s, 1)
           t == Charge(d, cost)
           u == Replace(t, 1, Power(base, exponent))
           n == Len(s.stack)
<1>0. Sound(s) /\ n \in Nat /\ n >= 2
  BY DEF Ready, Sound
<1>1. base \in Word /\ exponent \in Word /\ exponent \in Nat
  BY <1>0, ItemIsWord
<1>2. cost \in Nat
  <2>1. bytes \in Nat
    BY SignificantBytes, WidthFacts
  <2> HIDE DEF bytes
  <2>2. bytes * 50 \in Nat /\ bytes * 10 \in Nat
    BY <2>1
  <2> QED
    BY <2>2
<1>3. Power(base, exponent) \in Word
  BY <1>1, PowerIsWord
<1>4. Ready(s, 1)
  BY <1>0 DEF Ready
<1>5. Runs(s, d, n - 1) /\ Succeeded(d)
  BY <1>4, DropRuns
<1> HIDE DEF cost, base, exponent, d
<1>6. Sound(d) /\ Len(d.stack) = n - 1
  BY <1>5 DEF Runs
<1>7. Runs(d, t, n - 1)
  BY <1>2, <1>5, <1>6, ChargeRuns
<1>8. Runs(s, t, n - 1)
  BY <1>0, <1>5, <1>7, RunsThen
<1>9. exp(s) = IF Succeeded(t) THEN u ELSE t
  BY DEF exp, Then, base, exponent, cost, d
<1> HIDE DEF t
<1>10. Succeeded(t) => Runs(t, u, n - 1)
  <2> SUFFICES ASSUME Succeeded(t)
               PROVE  Runs(t, u, n - 1)
    OBVIOUS
  <2>1. Ready(t, 1) /\ Len(t.stack) - 1 + 1 = n - 1
    BY <1>0, <1>7 DEF Runs, Ready
  <2> QED
    BY <1>3, <2>1, ReplaceRuns
<1> QED
  BY <1>0, <1>8, <1>9, <1>10, RunsThen

LEMMA KeccakRuns ==
    ASSUME NEW s, Ready(s, 2)
    PROVE  Runs(s, keccak256(s), Len(s.stack) - 1)
<1> DEFINE index == Item(s, 0)
           size == Item(s, 1)
           cost == num_words(size) * 6
           d == Drop(s, 1)
           c == check_memory(d, index, size)
           t == IF Succeeded(c) THEN Charge(c, cost) ELSE c
           hash == keccak(ReadMemory(t, size_t(index), size))
           u == Replace(TouchMemory(t, size_t(index), size), 1, hash)
           n == Len(s.stack)
<1>0. Sound(s) /\ n \in Nat /\ n >= 2
  BY DEF Ready, Sound
<1>1. index \in Nat /\ size \in Nat
  BY <1>0, ItemIsWord
<1>2. cost \in Nat
  BY <1>1, WordsCost
<1>4. Ready(s, 1)
  BY <1>0 DEF Ready
<1>5. Runs(s, d, n - 1) /\ Succeeded(d)
  BY <1>4, DropRuns
<1>6. keccak256(s) = IF Succeeded(t) THEN u ELSE t
  BY DEF keccak256, Then
<1> HIDE DEF cost, index, size, d
<1>7. Ready(d, 0) /\ Len(d.stack) = n - 1
  BY <1>0, <1>5 DEF Runs, Ready
<1>8. /\ Runs(d, t, n - 1) /\ Only(d, t, {"gas_left", "status", "memory"})
      /\ Succeeded(t) => Covered(t, index, size)
  BY <1>1, <1>2, <1>7, PaidMemory
<1> HIDE DEF t
<1>9. Runs(s, t, n - 1)
  BY <1>0, <1>5, <1>8, RunsThen
<1>10. Succeeded(t) => Runs(t, u, n - 1)
  <2> SUFFICES ASSUME Succeeded(t)
               PROVE  Runs(t, u, n - 1)
    OBVIOUS
  <2>1. Ready(t, 1) /\ Len(t.stack) - 1 + 1 = n - 1 /\ Sound(t)
    BY <1>0, <1>8 DEF Runs, Ready
  <2>2. TouchMemory(t, size_t(index), size) = t
    BY <1>1, <1>8, <2>1, TouchCovered
  <2>3. hash \in Word
    <3>1. t.memory \in Seq(Byte) /\ size_t(index) \in Nat
      BY <1>8, <2>1 DEF Sound, Covered
    <3>2. ReadMemory(t, size_t(index), size) \in Seq(Byte)
      BY <1>1, <3>1, PaddedBytes DEF ReadMemory
    <3> QED
      BY <3>2, BytesAreNumbers
  <2> QED
    BY <2>1, <2>2, <2>3, ReplaceRuns
<1> QED
  BY <1>0, <1>6, <1>9, <1>10, RunsThen

\* The access of an account is paid for.
LEMMA ColdAccountRuns ==
    ASSUME NEW s, Ready(s, 0), NEW addr, NEW cost \in Nat
    PROVE  LET t == ChargeColdAccount(s, addr, cost)
           IN  /\ Runs(s, t, Len(s.stack))
               /\ Only(s, t, {"gas_left", "status", "host"})
<1> DEFINE a == access_account(s, addr)
           t == ChargeColdAccount(s, addr, cost)
<1>0. Sound(s) /\ Succeeded(s)
  BY DEF Ready
<1>1. CASE t = s
  BY <1>0, <1>1, RunsSame
<1>2. CASE t = Charge(a, cost)
  <2>1. Sound(a) /\ Only(s, a, {"host"})
    BY <1>0, AccessSound
  <2> HIDE DEF a
  <2>2. Runs(s, a, Len(a.stack)) /\ Succeeded(a) /\ a.stack = s.stack
    BY <1>0, <2>1, StackRuns DEF Only, Fields
  <2>3. Runs(a, t, Len(a.stack)) /\ Only(a, t, {"gas_left", "status"})
    BY <1>2, <2>1, <2>2, ChargeRuns
  <2> HIDE DEF t
  <2>4. Only(s, t, {"gas_left", "status", "host"})
    BY <2>1, <2>3 DEF Only
  <2>5. Runs(s, t, Len(s.stack))
    BY <1>0, <2>2, <2>3, RunsThen
  <2> QED
    BY <2>4, <2>5 DEF t
<1>3. t = s \/ t = Charge(a, cost)
  BY DEF ChargeColdAccount
<1> QED
  BY <1>1, <1>2, <1>3

LEMMA AccessCosts ==
    /\ additional_cold_account_access_cost \in Nat
    /\ cold_account_access_cost \in Nat
    /\ cold_sload_cost - warm_storage_read_cost \in Nat
BY DEF additional_cold_account_access_cost, cold_account_access_cost,
       cold_sload_cost, warm_storage_read_cost

\* The instructions that read an account replace its address by a word.
LEMMA AccountRuns ==
    ASSUME NEW s, Ready(s, 1), NEW x \in Word, NEW v, NEW addr,
           LET t == ChargeColdAccount(s, addr,
                                      additional_cold_account_access_cost)
           IN  v = IF Succeeded(t) THEN Replace(t, 1, x) ELSE t
    PROVE  Runs(s, v, Len(s.stack))
<1> DEFINE t == ChargeColdAccount(s, addr, additional_cold_account_access_cost)
           u == Replace(t, 1, x)
           n == Len(s.stack)
<1>0. Sound(s) /\ n \in Nat /\ n >= 1 /\ Ready(s, 0)
  BY DEF Ready, Sound
<1>1. Runs(s, t, n)
  BY <1>0, AccessCosts, ColdAccountRuns
<1>2. v = IF Succeeded(t) THEN u ELSE t
  OBVIOUS
<1> HIDE DEF t
<1>3. Succeeded(t) => Runs(t, u, n)
  <2> SUFFICES ASSUME Succeeded(t)
               PROVE  Runs(t, u, n)
    OBVIOUS
  <2>1. Ready(t, 1) /\ Len(t.stack) - 1 + 1 = n
    BY <1>0, <1>1 DEF Runs, Ready
  <2> QED
    BY <2>1, ReplaceRuns
<1> QED
  BY <1>0, <1>1, <1>2, <1>3, RunsThen

LEMMA ReadAccountRuns ==
    ASSUME NEW s, Ready(s, 1), Context_
    PROVE  /\ Runs(s, balance(s), Len(s.stack))
           /\ Runs(s, extcodesize(s), Len(s.stack))
           /\ Runs(s, extcodehash(s), Len(s.stack))
<1> DEFINE addr == trunc_address(Item(s, 0))
           t == ChargeColdAccount(s, addr, additional_cold_account_access_cost)
<1>1. /\ get_balance(addr) \in Word /\ Len(get_code(addr)) \in Word
      /\ get_code_hash(addr) \in Word
  BY AnswersTyped DEF IsBuffer
<1>2. balance(s) = IF Succeeded(t) THEN Replace(t, 1, get_balance(addr)) ELSE t
  BY DEF balance, ReadAccount, Then
<1>3. extcodesize(s) = IF Succeeded(t)
                       THEN Replace(t, 1, Len(get_code(addr))) ELSE t
  BY DEF extcodesize, ReadAccount, Then
<1>4. extcodehash(s) = IF Succeeded(t)
                       THEN Replace(t, 1, get_code_hash(addr)) ELSE t
  BY DEF extcodehash, ReadAccount, Then
<1> HIDE DEF addr
<1>5. Runs(s, balance(s), Len(s.stack))
  BY <1>1, <1>2, AccountRuns
<1>6. Runs(s, extcodesize(s), Len(s.stack))
  BY <1>1, <1>3, AccountRuns
<1>7. Runs(s, extcodehash(s), Len(s.stack))
  BY <1>1, <1>4, AccountRuns
<1> QED
  BY <1>5, <1>6, <1>7

LEMMA CalldataloadRuns ==
    ASSUME NEW s, Ready(s, 1), Context_
    PROVE  Runs(s, calldataload(s), Len(s.stack))
<1> DEFINE index == Item(s, 0)
           x == IF Len(msg.input) < index THEN 0
                ELSE be_load(Padded(msg.input, index, WordSize))
           n == Len(s.stack)
<1>0. Sound(s) /\ n \in Nat
  BY DEF Ready, Sound
<1>1. index \in Nat
  BY <1>0, ItemIsWord
<1>2. msg.input \in Seq(Byte)
  BY DEF Context_, ValidMessage, IsBuffer
<1>3. x \in Word
  BY <1>1, <1>2, PaddedBytes, BytesAreNumbers, WidthFacts, WordIsNat
<1>4. calldataload(s) = Replace(s, 1, x)
  BY DEF calldataload, Unary
<1> HIDE DEF x
<1>5. Runs(s, calldataload(s), n - 1 + 1)
  BY <1>3, <1>4, ReplaceRuns
<1> QED
  BY <1>0, <1>5

LEMMA BlockhashRuns ==
    ASSUME NEW s, Ready(s, 1), Context_
    PROVE  Runs(s, blockhash(s), Len(s.stack))
<1> DEFINE k == Item(s, 0)
           upper == env.block_number
           lower == IF upper < 256 THEN 0 ELSE upper - 256
           x == IF k < upper /\ k >= lower THEN get_block_hash(k) ELSE 0
           n == Len(s.stack)
<1>0. Sound(s) /\ n \in Nat
  BY DEF Ready, Sound
<1>1. k \in Nat
  BY <1>0, ItemIsWord
<1>2. x \in Word
  BY <1>1, AnswersTyped, WordIsNat
<1>3. blockhash(s) = Replace(s, 1, x)
  BY DEF blockhash, Unary
<1> HIDE DEF x
<1>4. Runs(s, blockhash(s), n - 1 + 1)
  BY <1>2, <1>3, ReplaceRuns
<1> QED
  BY <1>0, <1>4

\* Bytes are written to the memory that was checked for them.
LEMMA CopyRuns ==
    ASSUME NEW s, Ready(s, 0), NEW offset \in Nat, NEW size \in Nat,
           Covered(s, offset, size), NEW bytes \in Seq(Byte), Len(bytes) = size
    PROVE  Runs(s, WriteMemory(s, size_t(offset), bytes), Len(s.stack))
BY WriteRuns DEF Covered

LEMMA CopyFromRuns ==
    ASSUME NEW s, Ready(s, 3), NEW source \in Seq(Byte)
    PROVE  Runs(s, CopyFrom(s, source), Len(s.stack) - 3)
<1> DEFINE mem_index == Item(s, 0)
           input_index == Item(s, 1)
           size == Item(s, 2)
           src == IF Len(source) < input_index THEN Len(source)
                  ELSE input_index
           cost == num_words(size) * 3
           d == Drop(s, 3)
           c == check_memory(d, mem_index, size)
           t == IF Succeeded(c) THEN Charge(c, cost) ELSE c
           bytes == Padded(source, src, size)
           u == WriteMemory(t, size_t(mem_index), bytes)
           n == Len(s.stack)
<1>0. Sound(s) /\ n \in Nat /\ n >= 3
  BY DEF Ready, Sound
<1>1. mem_index \in Nat /\ input_index \in Nat /\ size \in Nat
  BY <1>0, ItemIsWord
<1>2. cost \in Nat
  BY <1>1, WordsCost
<1>3. src \in Nat
  BY <1>1
<1>4. bytes \in Seq(Byte) /\ Len(bytes) = size
  BY <1>1, <1>3, PaddedBytes
<1>5. Runs(s, d, n - 3) /\ Succeeded(d)
  BY DropRuns
<1>6. CopyFrom(s, source) = IF Succeeded(t) THEN u ELSE t
  BY DEF CopyFrom, Then
<1> HIDE DEF cost, mem_index, size, d, bytes
<1>7. Ready(d, 0) /\ Len(d.stack) = n - 3
  BY <1>0, <1>5 DEF Runs, Ready
<1>8. /\ Runs(d, t, n - 3)
      /\ Succeeded(t) => Covered(t, mem_index, size)
  BY <1>1, <1>2, <1>7, PaidMemory
<1> HIDE DEF t
<1>9. Runs(s, t, n - 3)
  BY <1>0, <1>5, <1>8, RunsThen
<1>10. Succeeded(t) => Runs(t, u, n - 3)
  <2> SUFFICES ASSUME Succeeded(t)
               PROVE  Runs(t, u, n - 3)
    OBVIOUS
  <2>1. Ready(t, 0) /\ Len(t.stack) = n - 3
    BY <1>0, <1>8 DEF Runs, Ready
  <2> QED
    BY <1>1, <1>4, <1>8, <2>1, CopyRuns
<1> QED
  BY <1>0, <1>6, <1>9, <1>10, RunsThen

LEMMA ExtcodecopyRuns ==
    ASSUME NEW s, Ready(s, 4), Context_
    PROVE  Runs(s, extcodecopy(s), Len(s.stack) - 4)
<1> DEFINE addr == trunc_address(Item(s, 0))
           mem_index == Item(s, 1)
           input_index == Item(s, 2)
           size == Item(s, 3)
           src == IF max_buffer_size < input_index THEN max_buffer_size
                  ELSE input_index
           cost == num_words(size) * 3
           d == Drop(s, 4)
           c == check_memory(d, mem_index, size)
           t == IF Succeeded(c) THEN Charge(c, cost) ELSE c
           a == ChargeColdAccount(t, addr, additional_cold_account_access_cost)
           w == IF Succeeded(t) THEN a ELSE t
           bytes == Padded(get_code(addr), src, size)
           u == WriteMemory(w, size_t(mem_index), bytes)
           n == Len(s.stack)
<1>0. Sound(s) /\ n \in Nat /\ n >= 4
  BY DEF Ready, Sound
<1>1. mem_index \in Nat /\ input_index \in Nat /\ size \in Nat
  BY <1>0, ItemIsWord
<1>2. cost \in Nat
  BY <1>1, WordsCost
<1>3. src \in Nat
  BY <1>1, LimitsFacts
<1>4. bytes \in Seq(Byte) /\ Len(bytes) = size
  <2>1. get_code(addr) \in Seq(Byte)
    BY AnswersTyped DEF IsBuffer
  <2> QED
    BY <1>1, <1>3, <2>1, PaddedBytes
<1>5. Runs(s, d, n - 4) /\ Succeeded(d)
  BY DropRuns
<1>6. extcodecopy(s) = IF Succeeded(w) THEN u ELSE w
  BY DEF extcodecopy, Then
<1> HIDE DEF cost, mem_index, size, d, bytes, addr
<1>7. Ready(d, 0) /\ Len(d.stack) = n - 4
  BY <1>0, <1>5 DEF Runs, Ready
<1>8. /\ Runs(d, t, n - 4)
      /\ Succeeded(t) => Covered(t, mem_index, size)
  BY <1>1, <1>2, <1>7, PaidMemory
<1> HIDE DEF t
<1>9. Runs(s, t, n - 4)
  BY <1>0, <1>5, <1>8, RunsThen
<1>10. Succeeded(t) => /\ Runs(t, a, n - 4)
                       /\ Only(t, a, {"gas_left", "status", "host"})
  <2> SUFFICES ASSUME Succeeded(t)
               PROVE  /\ Runs(t, a, n - 4)
                      /\ Only(t, a, {"gas_left", "status", "host"})
    OBVIOUS
  <2>1. Ready(t, 0) /\ Len(t.stack) = n - 4
    BY <1>0, <1>8 DEF Runs, Ready
  <2> QED
    BY <2>1, AccessCosts, ColdAccountRuns
<1> HIDE DEF a
<1>11. Runs(s, w, n - 4)
  BY <1>0, <1>9, <1>10, RunsThen
<1>12. Succeeded(w) => Runs(w, u, n - 4)
  <2> SUFFICES ASSUME Succeeded(w)
               PROVE  Runs(w, u, n - 4)
    OBVIOUS
  <2>1. Ready(w, 0) /\ Len(w.stack) = n - 4
    BY <1>0, <1>11 DEF Runs, Ready
  <2>2. w.memory = t.memory /\ Succeeded(t)
    BY <1>10 DEF Only, Fields
  <2> HIDE DEF w
  <2>3. Covered(w, mem_index, size)
    BY <1>8, <2>2 DEF Covered
  <2> QED
    BY <1>1, <1>4, <2>1, <2>3, CopyRuns
<1> QED
  BY <1>0, <1>6, <1>11, <1>12, RunsThen

LEMMA ReturndatacopyRuns ==
    ASSUME NEW s, Ready(s, 3)
    PROVE  Runs(s, returndatacopy(s), Len(s.stack) - 3)
<1> DEFINE mem_index == Item(s, 0)
           input_index == Item(s, 1)
           size == Item(s, 2)
           index == size_t(input_index)
           cost == num_words(size) * 3
           d == Drop(s, 3)
           t == check_memory(d, mem_index, size)
           p == Charge(t, cost)
           bytes == Padded(p.return_data, index, size)
           w == WriteMemory(TouchReturnData(p, index, size),
                            size_t(mem_index), bytes)
           f == Fail(t, "INVALID_MEMORY_ACCESS")
           bad == EndsPastReturnData(s, input_index, size)
           paid == IF Succeeded(p) THEN w ELSE p
           u == IF bad THEN f ELSE paid
           n == Len(s.stack)
<1>0. Sound(s) /\ n \in Nat /\ n >= 3
  BY DEF Ready, Sound
<1>1. mem_index \in Nat /\ input_index \in Nat /\ size \in Nat
  BY <1>0, ItemIsWord
<1>2. cost \in Nat
  BY <1>1, WordsCost
<1>3. /\ s.return_data \in Seq(Byte) /\ Len(s.return_data) \in Nat
      /\ index \in Nat
  <2>1. s.return_data \in Seq(Byte) /\ Len(s.return_data) \in Nat
    BY <1>0 DEF Sound, IsBuffer
  <2>2. SizeMod \in Nat \ {0}
    BY LimitsFacts
  <2> HIDE DEF input_index
  <2>3. index \in Nat
    BY <1>1, <2>2 DEF size_t
  <2> QED
    BY <2>1, <2>3
<1>4. Runs(s, d, n - 3) /\ Succeeded(d) /\ Only(s, d, {"stack"})
  BY <1>0, DropRuns, DropSound DEF Ready
<1>5. returndatacopy(s) = IF Succeeded(t) THEN u ELSE t
  BY DEF returndatacopy, Then
<1> HIDE DEF cost, mem_index, size, d, input_index, index
<1>6. Sound(d) /\ Len(d.stack) = n - 3 /\ d.return_data = s.return_data
  BY <1>0, <1>4 DEF Runs, Ready, Only, Fields
<1>7. /\ Runs(d, t, n - 3)
      /\ Succeeded(t) => Covered(t, mem_index, size)
      /\ Only(d, t, {"gas_left", "status", "memory"})
  BY <1>1, <1>4, <1>6, CheckRuns
<1> HIDE DEF t
<1>8. Runs(s, t, n - 3)
  BY <1>0, <1>4, <1>7, RunsThen
<1>9. Succeeded(t) => Runs(t, u, n - 3)
  <2> SUFFICES ASSUME Succeeded(t)
               PROVE  Runs(t, u, n - 3)
    OBVIOUS
  <2>1. Sound(t) /\ Len(t.stack) = n - 3 /\ t.return_data = s.return_data
    BY <1>6, <1>7, StackKept DEF Runs
  <2>2. CASE bad
    <3>1. Runs(t, f, n - 3)
      BY <2>1, FailRuns
    <3> QED
      BY <2>2, <3>1
  <2>3. CASE ~bad
    <3>1. Runs(t, p, n - 3) /\ Only(t, p, {"gas_left", "status"})
      BY <1>2, <2>1, ChargeRuns
    <3> HIDE DEF p
    <3>2. Sound(p) /\ p.return_data = s.return_data /\ p.memory = t.memory
      BY <2>1, <3>1, StackKept DEF Runs
    <3>3. index + size <= Len(s.return_data)
      BY <1>1, <1>3, <2>3 DEF EndsPastReturnData, index
    <3>4. bytes \in Seq(Byte) /\ Len(bytes) = size
      BY <1>1, <1>3, <3>2, PaddedBytes
    <3>a. w = WriteMemory(p, size_t(mem_index), bytes)
      BY <1>1, <1>3, <3>2, <3>3, TouchReturned
    <3> HIDE DEF bytes, w
    <3>5. Covered(p, mem_index, size)
      BY <1>7, <3>2 DEF Covered
    <3>6. ASSUME Succeeded(p)
          PROVE  Runs(p, w, n - 3)
      <4>1. Ready(p, 0) /\ Len(p.stack) = n - 3
        BY <1>0, <3>1, <3>6 DEF Runs, Ready
      <4> QED
        BY <1>1, <3>4, <3>5, <3>a, <4>1, CopyRuns
    <3>7. Runs(t, paid, n - 3)
      BY <2>1, <3>1, <3>6, RunsThen
    <3> QED
      BY <2>3, <3>7
  <2> QED
    BY <2>2, <2>3
<1> HIDE DEF u
<1> QED
  BY <1>0, <1>5, <1>8, <1>9, RunsThen

LEMMA MloadRuns ==
    ASSUME NEW s, Ready(s, 1)
    PROVE  Runs(s, mload(s), Len(s.stack))
<1> DEFINE index == Item(s, 0)
           t == check_memory_small(s, index, WordSize)
           x == be_load(ReadMemory(t, index, WordSize))
           u == Replace(TouchMemory(t, index, WordSize), 1, x)
           n == Len(s.stack)
<1>0. Sound(s) /\ Succeeded(s) /\ n \in Nat /\ n >= 1
  BY DEF Ready, Sound
<1>1. index \in Nat /\ WordSize \in Nat /\ WordSize <= WordSize
  BY <1>0, ItemIsWord, WidthFacts
<1>2. mload(s) = IF Succeeded(t) THEN u ELSE t
  BY DEF mload, Then
<1> HIDE DEF index
<1>3. /\ Runs(s, t, n)
      /\ Succeeded(t) => index + WordSize <= Len(t.memory)
  BY <1>0, <1>1, CheckSmallRuns
<1> HIDE DEF t
<1>4. Succeeded(t) => Runs(t, u, n)
  <2> SUFFICES ASSUME Succeeded(t)
               PROVE  Runs(t, u, n)
    OBVIOUS
  <2>1. Ready(t, 1) /\ Len(t.stack) - 1 + 1 = n /\ Sound(t)
    BY <1>0, <1>3 DEF Runs, Ready
  <2>2. TouchMemory(t, index, WordSize) = t
    BY <1>1, <1>3, <2>1, TouchMet
  <2>3. x \in Word
    BY <1>1, <2>1, PaddedBytes, BytesAreNumbers DEF ReadMemory, Sound
  <2> QED
    BY <2>1, <2>2, <2>3, ReplaceRuns
<1> QED
  BY <1>0, <1>2, <1>3, <1>4, RunsThen

\* MSTORE and MSTORE8 write size bytes after two items are dropped.
LEMMA MemoryStoreRuns ==
    ASSUME NEW s, Ready(s, 2), NEW size \in 1..WordSize,
           NEW bytes \in Seq(Byte), Len(bytes) = size, NEW v,
           LET t == check_memory_small(Drop(s, 2), Item(s, 0), size)
           IN  v = IF Succeeded(t) THEN WriteMemory(t, Item(s, 0), bytes)
                   ELSE t
    PROVE  Runs(s, v, Len(s.stack) - 2)
<1> DEFINE index == Item(s, 0)
           d == Drop(s, 2)
           t == check_memory_small(d, index, size)
           u == WriteMemory(t, index, bytes)
           n == Len(s.stack)
<1>0. Sound(s) /\ n \in Nat /\ n >= 2
  BY DEF Ready, Sound
<1>1. index \in Nat /\ size \in Nat /\ size <= WordSize
  BY <1>0, ItemIsWord, WidthFacts
<1>2. v = IF Succeeded(t) THEN u ELSE t
  OBVIOUS
<1>3. Runs(s, d, n - 2) /\ Succeeded(d)
  BY DropRuns
<1> HIDE DEF index, d
<1>4. Sound(d) /\ Len(d.stack) = n - 2
  BY <1>3 DEF Runs
<1>5. /\ Runs(d, t, n - 2)
      /\ Succeeded(t) => index + size <= Len(t.memory)
  BY <1>1, <1>3, <1>4, CheckSmallRuns
<1> HIDE DEF t
<1>6. Runs(s, t, n - 2)
  BY <1>0, <1>3, <1>5, RunsThen
<1>7. Succeeded(t) => Runs(t, u, n - 2)
  <2> SUFFICES ASSUME Succeeded(t)
               PROVE  Runs(t, u, n - 2)
    OBVIOUS
  <2>1. Ready(t, 0) /\ Len(t.stack) = n - 2
    BY <1>0, <1>5 DEF Runs, Ready
  <2> QED
    BY <1>1, <1>5, <2>1, WriteRuns
<1> QED
  BY <1>0, <1>2, <1>6, <1>7, RunsThen

LEMMA MstoreRuns ==
    ASSUME NEW s, Ready(s, 2)
    PROVE  /\ Runs(s, mstore(s), Len(s.stack) - 2)
           /\ Runs(s, mstore8(s), Len(s.stack) - 2)
<1> DEFINE value == Item(s, 1)
           whole == be_store(value)
           single == <<value % 256>>
<1>1. value \in Word /\ value \in Nat
  BY ItemIsWord DEF Ready
<1>2. WordSize \in 1..WordSize /\ 1 \in 1..WordSize /\ WordSize \in Nat
  BY WidthFacts
<1>3. whole \in Seq(Byte) /\ Len(whole) = WordSize
  <2>1. whole \in [1..WordSize -> Byte]
    BY <1>1, StoreIsBytes DEF Byte
  <2> HIDE DEF whole
  <2> QED
    BY <1>2, <2>1
<1>4. single \in Seq(Byte) /\ Len(single) = 1
  <2>1. value % 256 \in Byte
    BY <1>1 DEF Byte
  <2> QED
    BY <2>1
<1>5. mstore(s) = LET t == check_memory_small(Drop(s, 2), Item(s, 0), WordSize)
                  IN  IF Succeeded(t) THEN WriteMemory(t, Item(s, 0), whole)
                      ELSE t
  BY DEF mstore, Then
<1>6. mstore8(s) = LET t == check_memory_small(Drop(s, 2), Item(s, 0), 1)
                   IN  IF Succeeded(t) THEN WriteMemory(t, Item(s, 0), single)
                       ELSE t
  BY DEF mstore8, Then
<1> HIDE DEF whole, single
<1>7. Runs(s, mstore(s), Len(s.stack) - 2)
  BY <1>2, <1>3, <1>5, MemoryStoreRuns
<1>8. Runs(s, mstore8(s), Len(s.stack) - 2)
  BY <1>2, <1>4, <1>6, MemoryStoreRuns
<1> QED
  BY <1>7, <1>8

LEMMA SloadRuns ==
    ASSUME NEW s, Ready(s, 1)
    PROVE  Runs(s, sload(s), Len(s.stack))
<1> DEFINE key == Item(s, 0)
           a == access_storage(s, key)
           cost == cold_sload_cost - warm_storage_read_cost
           c == Charge(a, cost)
           t == IF rev < REV.BERLIN THEN s
                ELSE IF IsColdKey(s, key) THEN c ELSE s
           u == Replace(t, 1, get_storage(t, key))
           n == Len(s.stack)
<1>0. Sound(s) /\ Succeeded(s) /\ n \in Nat /\ n >= 1
  BY DEF Ready, Sound
<1>1. sload(s) = IF Succeeded(t) THEN u ELSE t
  BY DEF sload, Then
<1>2. Runs(s, c, n)
  <2>1. Sound(a) /\ Only(s, a, {"host"}) /\ cost \in Nat
    BY <1>0, AccessSound, AccessCosts
  <2> HIDE DEF a, cost
  <2>2. Runs(s, a, Len(a.stack)) /\ Succeeded(a) /\ a.stack = s.stack
    BY <1>0, <2>1, StackRuns DEF Only, Fields
  <2>3. Runs(a, c, n)
    BY <2>1, <2>2, ChargeRuns
  <2> QED
    BY <1>0, <2>2, <2>3, RunsThen
<1> HIDE DEF c
<1>3. Runs(s, t, n)
  BY <1>0, <1>2, RunsSame
<1> HIDE DEF t
<1>4. Succeeded(t) => Runs(t, u, n)
  <2> SUFFICES ASSUME Succeeded(t)
               PROVE  Runs(t, u, n)
    OBVIOUS
  <2>1. Ready(t, 1) /\ Len(t.stack) - 1 + 1 = n /\ Sound(t)
    BY <1>0, <1>3 DEF Runs, Ready
  <2>2. get_storage(t, key) \in Word
    BY <2>1, StorageTyped
  <2> QED
    BY <2>1, <2>2, ReplaceRuns
<1> QED
  BY <1>0, <1>1, <1>3, <1>4, RunsThen

LEMMA StoreCosts ==
    ASSUME NEW s, NEW key, NEW value, NEW cold \in {0, cold_sload_cost}
    PROVE  StoreCost(storage_status(s, key, value), cold) \in Nat \ {0}
<1>1. storage_status(s, key, value)
        \in {"UNCHANGED", "MODIFIED_AGAIN", "ADDED", "DELETED", "MODIFIED"}
  BY DEF storage_status
<1>2. cold_sload_cost = 2100 /\ warm_storage_read_cost = 100 /\ cold \in Nat
  BY DEF cold_sload_cost, warm_storage_read_cost
<1> QED
  BY <1>1, <1>2 DEF StoreCost

LEMMA SstoreRuns ==
    ASSUME NEW s, Ready(s, 2)
    PROVE  /\ Runs(s, sstore(s), Len(s.stack) - 2)
           /\ Succeeded(sstore(s)) => sstore(s).gas_left < s.gas_left
<1> DEFINE key == Item(s, 0)
           value == Item(s, 1)
           cold == IF rev >= REV.BERLIN /\ IsColdKey(s, key)
                   THEN cold_sload_cost ELSE 0
           a == IF rev >= REV.BERLIN THEN access_storage(s, key) ELSE s
           d == Drop(a, 2)
           w == set_storage(d, key, value)
           cost == StoreCost(storage_status(s, key, value), cold)
           n == Len(s.stack)
<1>0. Sound(s) /\ Succeeded(s) /\ n \in Nat /\ n >= 2
  BY DEF Ready, Sound
<1>1. CASE msg.static
  BY <1>0, <1>1, FailRuns DEF sstore
<1>2. CASE ~msg.static /\ rev >= REV.ISTANBUL /\ s.gas_left <= 2300
  BY <1>0, <1>2, FailRuns DEF sstore
<1>3. CASE ~msg.static /\ ~(rev >= REV.ISTANBUL /\ s.gas_left <= 2300)
  <2>0. value \in Word
    BY <1>0, ItemIsWord
  <2>1. sstore(s) = Charge(w, cost)
    BY <1>3 DEF sstore, SetEntry
  <2>2. cost \in Nat \ {0}
    BY StoreCosts
  <2> HIDE DEF key, value
  <2>3. Sound(a) /\ Succeeded(a) /\ Runs(s, a, n) /\ Len(a.stack) = n
    <3>1. CASE rev >= REV.BERLIN
      <4>1. a = access_storage(s, key)
        BY <3>1
      <4> HIDE DEF a
      <4>2. Sound(a) /\ Only(s, a, {"host"})
        BY <1>0, <4>1, AccessSound
      <4>3. Runs(s, a, Len(a.stack)) /\ Succeeded(a) /\ a.stack = s.stack
        BY <1>0, <4>2, StackRuns DEF Only, Fields
      <4> QED
        BY <4>2, <4>3
    <3>2. CASE ~(rev >= REV.BERLIN)
      BY <1>0, <3>2, RunsSame
    <3> QED
      BY <3>1, <3>2
  <2> HIDE DEF a, cost
  <2>4. Runs(a, d, n - 2) /\ Succeeded(d)
    BY <1>0, <2>3, DropRuns DEF Ready
  <2> HIDE DEF d
  <2>5. Sound(d) /\ Len(d.stack) = n - 2
    BY <2>4 DEF Runs
  <2>6. Sound(w) /\ Only(d, w, {"host"})
    BY <1>3, <2>0, <2>5, StoreSound
  <2> HIDE DEF w
  <2>7. Runs(d, w, n - 2) /\ Succeeded(w) /\ Len(w.stack) = n - 2
    <3>1. Runs(d, w, Len(w.stack)) /\ Succeeded(w) /\ w.stack = d.stack
      BY <2>4, <2>5, <2>6, StackRuns DEF Only, Fields
    <3> QED
      BY <2>5, <3>1
  <2>8. /\ Runs(w, Charge(w, cost), n - 2)
        /\ Charge(w, cost).gas_left = w.gas_left - cost
    BY <2>2, <2>6, <2>7, ChargeRuns
  <2>9. Runs(s, d, n - 2)
    BY <1>0, <2>3, <2>4, RunsThen
  <2>10. Runs(s, w, n - 2)
    BY <1>0, <2>4, <2>7, <2>9, RunsThen
  <2>11. Runs(s, Charge(w, cost), n - 2)
    BY <1>0, <2>7, <2>8, <2>10, RunsThen
  <2>12. w.gas_left - cost < s.gas_left
    <3>1. w.gas_left \in Int /\ s.gas_left \in Int /\ w.gas_left <= s.gas_left
      BY <1>0, <2>10 DEF Runs, Sound
    <3> QED
      BY <2>2, <3>1
  <2> QED
    BY <2>1, <2>8, <2>11, <2>12
<1> QED
  BY <1>1, <1>2, <1>3

LEMMA DupRuns ==
    ASSUME NEW s, NEW n \in Nat \ {0}, Ready(s, n), Len(s.stack) < StackLimit
    PROVE  Runs(s, dup(s, n), Len(s.stack) + 1)
<1>1. Item(s, n - 1) \in Word /\ Needs(s, n) = s
  BY ItemIsWord, NeedsMet DEF Ready
<1>2. Ready(s, 0)
  BY DEF Ready, Sound
<1> QED
  BY <1>1, <1>2, PushRuns DEF dup

LEMMA SwapSound ==
    ASSUME NEW s, NEW n \in Nat \ {0}, Ready(s, n + 1)
    PROVE  LET t == swap(s, n)
           IN  /\ Sound(t) /\ Only(s, t, {"stack"})
               /\ Len(t.stack) = Len(s.stack)
<1> DEFINE m == Len(s.stack)
           x == Item(s, n)
           y == Item(s, 0)
           p == [s.stack EXCEPT ![m] = x]
           q == [p EXCEPT ![m - n] = y]
           t == [s EXCEPT !.stack = q]
<1>0. /\ Sound(s) /\ s.stack \in Seq(Word) /\ m \in Nat /\ m >= n + 1
      /\ m <= StackLimit
  BY DEF Ready, Sound
<1>1. x \in Word /\ y \in Word
  BY <1>0, ItemIsWord
<1>2. swap(s, n) = t
  <2>1. Needs(s, n + 1) = s
    BY <1>0, NeedsMet
  <2> QED
    BY <1>0, <2>1 DEF swap, stack_size, Sound, Fields
<1> HIDE DEF x, y
<1>3. p \in Seq(Word) /\ Len(p) = m
  BY <1>0, <1>1
<1>4. q \in Seq(Word) /\ Len(q) = m
  <2> DEFINE k == m - n
  <2>1. k \in 1..Len(p)
    BY <1>0, <1>3
  <2>2. q = [p EXCEPT ![k] = y]
    OBVIOUS
  <2> HIDE DEF p, k, q
  <2> QED
    BY <1>1, <1>3, <2>1, <2>2
<1> HIDE DEF q
<1>5. Only(s, t, {"stack"}) /\ t.stack = q
  BY <1>0 DEF Only, Sound, Fields
<1> HIDE DEF t
<1>6. Sound(t)
  BY <1>0, <1>4, <1>5, StackChanged
<1> QED
  BY <1>2, <1>4, <1>5, <1>6

LEMMA SwapRuns ==
    ASSUME NEW s, NEW n \in Nat \ {0}, Ready(s, n + 1)
    PROVE  Runs(s, swap(s, n), Len(s.stack))
<1> DEFINE t == swap(s, n)
<1>1. Sound(t) /\ Only(s, t, {"stack"}) /\ Len(t.stack) = Len(s.stack)
  BY SwapSound
<1> HIDE DEF t
<1>2. Runs(s, t, Len(s.stack))
  BY <1>1, StackRuns DEF Ready
<1> QED
  BY <1>2 DEF t

LEMMA LogRuns ==
    ASSUME NEW s, NEW k \in Nat, Ready(s, k + 2)
    PROVE  Runs(s, log(s, k), Len(s.stack) - (k + 2))
<1> DEFINE offset == Item(s, 0)
           size == Item(s, 1)
           cost == size * 8
           d == Drop(s, 2)
           c == check_memory(d, offset, size)
           t == IF Succeeded(c) THEN Charge(c, cost) ELSE c
           x == Drop(TouchMemory(t, size_t(offset), size), k)
           e == [kind |-> "log",
                 data |-> ReadMemory(t, size_t(offset), size),
                 topics |-> [i \in 1..k |-> Item(t, i - 1)]]
           u == Effect(x, e)
           n == Len(s.stack)
<1>0. Sound(s) /\ Succeeded(s) /\ n \in Nat /\ n >= k + 2
  BY DEF Ready, Sound
<1>1. CASE msg.static
  BY <1>0, <1>1, FailRuns DEF log
<1>2. CASE ~msg.static
  <2>1. offset \in Nat /\ size \in Nat
    BY <1>0, ItemIsWord
  <2>2. cost \in Nat
    BY <2>1
  <2>3. log(s, k) = IF Succeeded(t) THEN u ELSE t
    BY <1>2 DEF log, EmitLog, Then
  <2>4. Ready(s, 2)
    BY <1>0 DEF Ready
  <2>5. Runs(s, d, n - 2) /\ Succeeded(d)
    BY <2>4, DropRuns
  <2> HIDE DEF cost, offset, size, d
  <2>6. Ready(d, 0) /\ Len(d.stack) = n - 2
    BY <1>0, <2>5 DEF Runs, Ready
  <2>7. /\ Runs(d, t, n - 2)
        /\ Succeeded(t) => Covered(t, offset, size)
    BY <2>1, <2>2, <2>6, PaidMemory
  <2> HIDE DEF t
  <2>8. Runs(s, t, n - 2)
    BY <1>0, <2>5, <2>7, RunsThen
  <2>9. Succeeded(t) => Runs(t, u, n - (k + 2))
    <3> SUFFICES ASSUME Succeeded(t)
                 PROVE  Runs(t, u, n - (k + 2))
      OBVIOUS
    <3>1. Sound(t) /\ Ready(t, k) /\ Len(t.stack) - k = n - (k + 2)
      BY <1>0, <2>7 DEF Runs, Ready
    <3>2. TouchMemory(t, size_t(offset), size) = t
      BY <2>1, <2>7, <3>1, TouchCovered
    <3>3. Runs(t, x, n - (k + 2)) /\ Succeeded(x)
      BY <3>1, <3>2, DropRuns
    <3> HIDE DEF x, e
    <3>4. Sound(x) /\ Len(x.stack) = n - (k + 2)
      BY <3>3 DEF Runs
    <3>5. Sound(u) /\ Only(x, u, {"host"})
      BY <1>2, <3>4, EffectSound
    <3> HIDE DEF u
    <3>6. Runs(x, u, Len(u.stack)) /\ u.stack = x.stack
      BY <3>3, <3>4, <3>5, StackRuns DEF Only, Fields
    <3>7. Runs(x, u, n - (k + 2))
      BY <3>4, <3>6
    <3> QED
      BY <3>1, <3>3, <3>7, RunsThen
  <2> HIDE DEF u
  <2> QED
    BY <1>0, <2>3, <2>8, <2>9, RunsThen
<1> QED
  BY <1>1, <1>2

\* An instruction that ends the execution: it may leave an output if it does
\* not fail.
Ends(s, t) ==
    /\ Sound(t)
    /\ t.gas_left <= s.gas_left
    /\ t.status \notin {"SUCCESS", "REVERT"} => t.output_size = s.output_size
    /\ t.status = "REVERT" => t.gas_left >= 0

LEMMA RunsEnds ==
    ASSUME NEW s, NEW t, NEW n, Runs(s, t, n)
    PROVE  Ends(s, t)
BY DEF Runs, Ends

\* What RETURN and REVERT leave once the memory of the output is there.
LEMMA OutputSound ==
    ASSUME NEW t, Sound(t), Succeeded(t), NEW offset \in Nat, NEW size \in Nat,
           NEW c, c \in {"SUCCESS", "REVERT"}
    PROVE  LET u == [t EXCEPT !.output_offset = offset, !.output_size = size,
                              !.status = c]
           IN  Ends(t, u)
<1> DEFINE v == [t EXCEPT !.output_offset = offset, !.output_size = size]
           u == [t EXCEPT !.output_offset = offset, !.output_size = size,
                          !.status = c]
<1>1. /\ Only(t, v, {"return_data", "output_offset", "output_size"})
      /\ v.output_offset = offset /\ v.output_size = size
      /\ v.return_data = t.return_data /\ v.gas_left = t.gas_left
  BY DEF Only, Sound, Fields
<1>2. /\ Only(v, u, {"gas_left", "status"}) /\ u.status = c
      /\ u.gas_left = t.gas_left
  BY DEF Only, Sound, Fields
<1> HIDE DEF u, v
<1>3. /\ IsBuffer(t.return_data) /\ t.gas_left \in Int /\ t.gas_left >= 0
      /\ t.gas_left <= Int64Max
  BY DEF Sound
<1>4. Sound(v)
  BY <1>1, <1>3, OutputChanged
<1>5. Sound(u)
  BY <1>2, <1>3, <1>4, GasChanged
<1>6. Ends(t, u)
  BY <1>2, <1>3, <1>5 DEF Ends
<1> QED
  BY <1>6 DEF u

LEMMA EndsThen ==
    ASSUME NEW s, NEW t, NEW u, NEW v, NEW m, Sound(s), Runs(s, t, m),
           v = IF Succeeded(t) THEN u ELSE t, Succeeded(t) => Ends(t, u)
    PROVE  Ends(s, v)
<1>1. s.gas_left \in Int /\ t.gas_left \in Int
  BY DEF Runs, Sound
<1>2. CASE Succeeded(t)
  <2>1. Ends(t, u) /\ v = u /\ u.gas_left \in Int
    BY <1>2 DEF Ends, Sound
  <2>2. u.gas_left <= s.gas_left
    BY <1>1, <2>1 DEF Runs, Ends
  <2> QED
    BY <2>1, <2>2 DEF Runs, Ends
<1>3. CASE ~Succeeded(t)
  BY <1>3 DEF Runs, Ends
<1> QED
  BY <1>2, <1>3

LEMMA ReturnEnds ==
    ASSUME NEW s, Ready(s, 2), NEW c, c \in {"SUCCESS", "REVERT"}
    PROVE  Ends(s, return_(s, c))
<1> DEFINE offset == Item(s, 0)
           size == Item(s, 1)
           t == check_memory(s, offset, size)
           u == [t EXCEPT !.output_offset = size_t(offset),
                          !.output_size = size_t(size), !.status = c]
           touched == [TouchMemory(t, size_t(offset), size) EXCEPT
                         !.output_offset = size_t(offset),
                         !.output_size = size_t(size), !.status = c]
<1>0. Sound(s) /\ Succeeded(s) /\ Needs(s, 2) = s
  BY NeedsMet DEF Ready, Sound
<1>1. offset \in Nat /\ size \in Nat
  BY <1>0, ItemIsWord
<1>2. return_(s, c) = IF Succeeded(t) THEN touched ELSE t
  BY <1>0 DEF return_, Then
<1> HIDE DEF offset, size
<1>3. /\ Runs(s, t, Len(s.stack))
      /\ Succeeded(t) => Covered(t, offset, size)
  BY <1>0, <1>1, CheckRuns
<1> HIDE DEF t
<1>4. Succeeded(t) => Ends(t, touched)
  <2> SUFFICES ASSUME Succeeded(t)
               PROVE  Ends(t, touched)
    OBVIOUS
  <2>1. Sound(t) /\ Covered(t, offset, size)
    BY <1>3 DEF Runs
  <2>2. TouchMemory(t, size_t(offset), size) = t
    BY <1>1, <2>1, TouchCovered
  <2>3. size_t(offset) \in Nat /\ size_t(size) \in Nat
    BY <1>1, <2>1 DEF Covered
  <2>4. touched = u
    BY <2>2
  <2> QED
    BY <2>1, <2>3, <2>4, OutputSound
<1> HIDE DEF touched
<1> QED
  BY <1>0, <1>2, <1>3, <1>4, EndsThen

LEMMA SelfdestructRuns ==
    ASSUME NEW s, Ready(s, 1)
    PROVE  Runs(s, selfdestruct(s), Len(s.stack))
<1> DEFINE beneficiary == trunc_address(Item(s, 0))
           pays == /\ rev >= REV.TANGERINE_WHISTLE
                   /\ \/ rev = REV.TANGERINE_WHISTLE
                      \/ get_balance(msg.recipient) # 0
                   /\ ~account_exists(beneficiary)
           t == ChargeColdAccount(s, beneficiary, cold_account_access_cost)
           p == IF pays THEN Charge(t, 25000) ELSE t
           q == IF Succeeded(t) THEN p ELSE t
           e == [kind |-> "selfdestruct", beneficiary |-> beneficiary]
           u == Effect(q, e)
           n == Len(s.stack)
<1>0. /\ Sound(s) /\ Succeeded(s) /\ Needs(s, 1) = s /\ n \in Nat
      /\ Ready(s, 0)
  <2>1. Sound(s) /\ Succeeded(s) /\ n \in Nat /\ n >= 1
    BY DEF Ready, Sound
  <2> QED
    BY <2>1, NeedsMet DEF Ready
<1>1. CASE msg.static
  BY <1>0, <1>1, FailRuns DEF selfdestruct
<1>2. CASE ~msg.static
  <2>1. selfdestruct(s) = IF Succeeded(q) THEN u ELSE q
    BY <1>0, <1>2 DEF selfdestruct, Then
  <2>2. Runs(s, t, n)
    BY <1>0, AccessCosts, ColdAccountRuns
  <2> HIDE DEF t, e, pays
  <2>3. Succeeded(t) => Runs(t, p, n)
    <3> SUFFICES ASSUME Succeeded(t)
                 PROVE  Runs(t, p, n)
      OBVIOUS
    <3>1. Sound(t) /\ Len(t.stack) = n
      BY <2>2 DEF Runs
    <3>2. Runs(t, Charge(t, 25000), n) /\ Runs(t, t, n)
      BY <3>1, ChargeRuns, RunsSame
    <3> QED
      BY <3>2
  <2> HIDE DEF p
  <2>4. Runs(s, q, n)
    BY <1>0, <2>2, <2>3, RunsThen
  <2> HIDE DEF q
  <2>5. Succeeded(q) => Runs(q, u, n)
    <3> SUFFICES ASSUME Succeeded(q)
                 PROVE  Runs(q, u, n)
      OBVIOUS
    <3>1. Sound(q) /\ Len(q.stack) = n
      BY <2>4 DEF Runs
    <3>2. Sound(u) /\ Only(q, u, {"host"})
      BY <1>2, <3>1, EffectSound
    <3> HIDE DEF u
    <3>3. Runs(q, u, Len(u.stack)) /\ u.stack = q.stack
      BY <3>1, <3>2, StackRuns DEF Only, Fields
    <3> QED
      BY <3>1, <3>3
  <2> HIDE DEF u
  <2> QED
    BY <1>0, <2>1, <2>4, <2>5, RunsThen
<1> QED
  BY <1>1, <1>2

-----------------------------------------------------------------------------
(***************************************************************************)
(* Calls and creates.                                                      *)
(***************************************************************************)
\* r is what is known when the host is called, or that it is not; n is the
\* stack height after it.
RequestOK(s, r, n) ==
    /\ r.calls \in BOOLEAN
    /\ Runs(s, r.state, n)
    /\ r.calls => /\ Succeeded(r.state)
                  /\ ValidMessage(r.message)
                  /\ r.message.gas <= r.state.gas_left
                  /\ r.output_offset \in Nat /\ r.output_size \in Nat
                  /\ \/ r.output_size = 0
                     \/ r.output_offset + r.output_size <= Len(r.state.memory)

\* What a callee answers: it keeps at most the gas it was given.
ResultOK(m, result) ==
    /\ result.gas_left \in Nat /\ result.gas_left <= m.gas
    /\ IsBuffer(result.output) /\ result.create_address \in Word

\* All but one 64th of the gas is at most all of it.
LEMMA AllBut64th ==
    ASSUME NEW g \in Nat
    PROVE  all_but_64th(g) \in Nat /\ all_but_64th(g) <= g
BY DEF all_but_64th

LEMMA CallGasFits ==
    ASSUME NEW requested \in Nat, NEW g \in Nat,
           rev >= REV.TANGERINE_WHISTLE \/ requested <= g
    PROVE  CallGas(requested, g) \in Nat /\ CallGas(requested, g) <= g
BY AllBut64th DEF CallGas, SmallerOf

\* A covered memory stays covered when it is grown.
LEMMA CoveredKept ==
    ASSUME NEW s, NEW t, Sound(s), Sound(t), NEW offset, NEW size \in Nat,
           Covered(s, offset, size), Len(t.memory) >= Len(s.memory)
    PROVE  Covered(t, offset, size)
<1>1. Len(s.memory) \in Nat /\ Len(t.memory) \in Nat
  BY DEF Sound
<1> QED
  BY <1>1 DEF Covered

\* The state of a call after all that is paid before the gas is split, w after
\* the memory of input and output has been checked and p after the costs.
LEMMA CallMemoryRuns ==
    ASSUME NEW s, Ready(s, 0), NEW io \in Nat, NEW is \in Nat,
           NEW oo \in Nat, NEW os \in Nat
    PROVE  LET u == check_memory(s, io, is)
               v == IF Succeeded(u) THEN check_memory(u, oo, os) ELSE u
           IN  /\ Runs(s, v, Len(s.stack))
               /\ Succeeded(v) => Covered(v, io, is) /\ Covered(v, oo, os)
<1> DEFINE u == check_memory(s, io, is)
           c == check_memory(u, oo, os)
           v == IF Succeeded(u) THEN c ELSE u
           n == Len(s.stack)
<1>0. Sound(s) /\ Succeeded(s)
  BY DEF Ready
<1>1. /\ Runs(s, u, n)
      /\ Succeeded(u) => Covered(u, io, is)
  BY <1>0, CheckRuns
<1> HIDE DEF u
<1>2. ASSUME Succeeded(u)
      PROVE  /\ Runs(u, c, n)
             /\ Succeeded(c) => Covered(c, oo, os) /\ Covered(c, io, is)
  <2>1. Sound(u) /\ Len(u.stack) = n
    BY <1>1, <1>2 DEF Runs
  <2>2. /\ Runs(u, c, n)
        /\ Succeeded(c) => Covered(c, oo, os)
        /\ Len(c.memory) >= Len(u.memory)
    BY <1>2, <2>1, CheckRuns
  <2>3. Sound(c) /\ Covered(u, io, is)
    BY <1>1, <1>2, <2>2 DEF Runs
  <2> HIDE DEF c
  <2>4. Covered(c, io, is)
    BY <2>1, <2>2, <2>3, CoveredKept
  <2> QED
    BY <2>2, <2>4
<1> HIDE DEF c
<1>3. Runs(s, v, n)
  BY <1>0, <1>1, <1>2, RunsThen
<1>4. Succeeded(v) => Covered(v, io, is) /\ Covered(v, oo, os)
  BY <1>2
<1> QED
  BY <1>3, <1>4 DEF u, c

\* Gas is added and the return data cleared before the host is called.
Affords(s, t, g) == g \in Nat /\ t.gas_left + g <= s.gas_left

IsReady(t, g, r) == /\ Only(t, r, {"gas_left", "return_data"})
                    /\ r.gas_left = t.gas_left + g /\ r.return_data = << >>

LEMMA ReadySound ==
    ASSUME NEW s, NEW t, Sound(s), Sound(t), Succeeded(t),
           Runs(s, t, Len(t.stack)), NEW g, Affords(s, t, g), NEW r,
           IsReady(t, g, r)
    PROVE  /\ Runs(s, r, Len(t.stack)) /\ Succeeded(r)
           /\ r.gas_left = t.gas_left + g /\ r.memory = t.memory
           /\ r.stack = t.stack
<1> DEFINE v == [t EXCEPT !.return_data = << >>]
<1>1. /\ Only(t, v, {"return_data", "output_offset", "output_size"})
      /\ v.output_offset = t.output_offset /\ v.output_size = t.output_size
      /\ v.return_data = << >> /\ v.status = t.status
      /\ v.memory = t.memory /\ v.stack = t.stack
  BY DEF Only, Sound, Fields
<1>2. /\ Only(v, r, {"gas_left", "status"}) /\ r.status = t.status
      /\ r.gas_left = t.gas_left + g /\ r.memory = v.memory
      /\ r.stack = v.stack /\ r.output_offset = v.output_offset
      /\ r.output_size = v.output_size
  BY <1>1 DEF IsReady, Only, Sound, Fields
<1> HIDE DEF v
<1>3. /\ t.gas_left \in Int /\ t.gas_left >= 0 /\ s.gas_left \in Int
      /\ s.gas_left <= Int64Max /\ t.output_size \in Nat
      /\ t.output_offset \in Nat /\ Int64Max \in Nat
      /\ g \in Nat /\ t.gas_left + g <= s.gas_left
  BY LimitsFacts DEF Sound, Affords
<1>4. IsBuffer(<< >>)
  <2>1. << >> \in Seq(Byte) /\ Len(<< >>) = 0
    OBVIOUS
  <2> QED
    BY <2>1, WordIsNat DEF IsBuffer
<1>5. Sound(v)
  BY <1>1, <1>3, <1>4, OutputChanged
<1>6. r.gas_left \in Int /\ r.gas_left <= Int64Max /\ r.gas_left >= 0
  BY <1>2, <1>3
<1>7. Sound(r)
  BY <1>2, <1>5, <1>6, GasChanged
<1>8. Succeeded(r) /\ r.status # "REVERT"
  BY <1>2 DEF Succeeded
<1>9. Runs(s, r, Len(t.stack))
  BY <1>1, <1>2, <1>3, <1>7, <1>8 DEF Runs
<1> QED
  BY <1>1, <1>2, <1>8, <1>9

LEMMA AddressIsWord ==
    ASSUME NEW x \in Nat
    PROVE  trunc_address(x) \in Word
<1>1. x % 256 \in 0..255
  OBVIOUS
<1> QED
  BY <1>1, WordModFacts DEF trunc_address, AddressMod, Word

LEMMA ReadIsBuffer ==
    ASSUME NEW s, Sound(s), NEW offset \in Nat, NEW size \in Word
    PROVE  IsBuffer(ReadMemory(s, offset, size))
<1>1. s.memory \in Seq(Byte) /\ size \in Nat
  BY WordIsNat DEF Sound
<1> QED
  BY <1>1, PaddedBytes DEF IsBuffer, ReadMemory

LEMMA RequestFits ==
    ASSUME NEW s, NEW r, NEW t, NEW m, NEW offset, NEW size, NEW n,
           r = Request(t, m, offset, size), Sound(s), Runs(s, t, n),
           Succeeded(t), msg.static => StaticCall(m), ValidMessage(m),
           m.gas <= t.gas_left, offset \in Nat, size \in Nat,
           size = 0 \/ offset + size <= Len(t.memory)
    PROVE  RequestOK(s, r, n)
<1> DEFINE u == Effect(t, m)
<1>1. /\ r.calls = TRUE /\ r.state = u /\ r.message = m
      /\ r.output_offset = offset /\ r.output_size = size
  BY DEF Request
<1>2. Sound(t) /\ Len(t.stack) = n
  BY DEF Runs
<1>3. Sound(u) /\ Only(t, u, {"host"})
  BY <1>2, EffectSound
<1> HIDE DEF u
<1>4. /\ u.stack = t.stack /\ u.gas_left = t.gas_left
      /\ u.memory = t.memory
  BY <1>3 DEF Only, Fields
<1>5. Runs(t, u, Len(u.stack)) /\ Succeeded(u)
  BY <1>2, <1>3, StackRuns
<1>6. Runs(s, u, n)
  BY <1>2, <1>4, <1>5, RunsThen
<1> QED
  BY <1>1, <1>4, <1>5, <1>6 DEF RequestOK

\* The items before the four that place the input and the output.
ValueItems(Kind, Static) ==
    IF Static \/ Kind = "DELEGATECALL" THEN 2 ELSE 3

LEMMA CallRequestOK ==
    ASSUME NEW s, Context_, NEW Kind \in {"CALL", "CALLCODE", "DELEGATECALL"},
           NEW Static \in BOOLEAN, NEW k, k = ValueItems(Kind, Static),
           Ready(s, k + 4)
    PROVE  RequestOK(s, call_request(s, Kind, Static), Len(s.stack) - (k + 3))
<1> DEFINE n == IF Static \/ Kind = "DELEGATECALL" THEN 2 ELSE 3
           no_value == Static \/ Kind = "DELEGATECALL"
           requested == SmallerOf(Item(s, 0), Int64Max)
           dst == trunc_address(Item(s, 1))
           value == IF no_value THEN 0 ELSE Item(s, 2)
           has_value == value # 0
           io == Item(s, n)
           is == Item(s, n + 1)
           oo == Item(s, n + 2)
           os == Item(s, n + 3)
           r == Replace(s, n + 4, 0)
           a == ChargeColdAccount(r, dst, additional_cold_account_access_cost)
           b == IF Succeeded(a) THEN check_memory(a, io, is) ELSE a
           w == IF Succeeded(b) THEN check_memory(b, oo, os) ELSE b
           cost == CallCost(Kind, has_value, dst)
           forbidden == Kind = "CALL" /\ has_value /\ msg.static
           p == IF Succeeded(w)
                THEN IF forbidden THEN Fail(w, "STATIC_MODE_VIOLATION")
                     ELSE Charge(w, cost)
                ELSE w
           f == IF Succeeded(p)
                THEN IF rev < REV.TANGERINE_WHISTLE /\ requested > p.gas_left
                     THEN Fail(p, "OUT_OF_GAS") ELSE p
                ELSE p
           stipend == IF has_value THEN call_stipend ELSE 0
           ready == ReturnDataCleared([f EXCEPT !.gas_left = @ + stipend])
           m == [kind |-> Kind, static |-> CalleeStatic(Static),
                 depth |-> msg.depth + 1,
                 recipient |-> IF Kind = "CALL" THEN dst ELSE msg.recipient,
                 code_address |-> dst,
                 sender |-> IF Kind = "DELEGATECALL" THEN msg.sender
                            ELSE msg.recipient,
                 value |-> IF Kind = "DELEGATECALL" THEN msg.value ELSE value,
                 input |-> ReadMemory(ready, size_t(io), is),
                 gas |-> CallGas(requested, f.gas_left) + stipend]
           h == Len(s.stack) - (n + 3)
<1>a. call_request(s, Kind, Static)
        = IF ~Succeeded(f) THEN NoCall(f)
          ELSE IF IsRefused(value) THEN NoCall(ready)
          ELSE Request(TouchMemory(ready, size_t(io), is), m, size_t(oo), os)
  BY DEF call_request, Then
<1>b. n \in {2, 3} /\ n = k
  BY DEF ValueItems
<1> HIDE DEF n
<1>0. Sound(s) /\ Succeeded(s) /\ Len(s.stack) \in Nat /\ Ready(s, n + 4)
  BY <1>b DEF Ready, Sound
<1>1. /\ io \in Nat /\ is \in Nat /\ oo \in Nat /\ os \in Nat /\ is \in Word
      /\ Item(s, 0) \in Nat /\ Item(s, 1) \in Nat /\ Item(s, 2) \in Word
  <2>1. {n, n + 1, n + 2, n + 3, 0, 1, 2} \subseteq Nat
    BY <1>b
  <2> QED
    BY <1>0, <2>1, ItemIsWord
<1>2. call_request(s, Kind, Static)
        = IF ~Succeeded(f) THEN NoCall(f)
          ELSE IF IsRefused(value) THEN NoCall(ready)
          ELSE Request(TouchMemory(ready, size_t(io), is), m, size_t(oo), os)
  BY <1>a
<1>3. requested \in Nat
  BY <1>1, LimitsFacts DEF SmallerOf
<1>4. dst \in Word /\ value \in Word /\ has_value \in BOOLEAN
  BY <1>1, AddressIsWord, WordIsNat
<1> HIDE DEF has_value
<1>5. /\ cost \in Nat /\ stipend \in Nat /\ stipend <= cost
  <2>1. CASE has_value
    BY <2>1 DEF CallCost, NewAccountCost, call_stipend
  <2>2. CASE ~has_value
    BY <2>2 DEF CallCost, NewAccountCost, call_stipend
  <2> QED
    BY <2>1, <2>2
<1> HIDE DEF requested, dst, value, io, is, oo, os, cost, stipend
<1>6. Runs(s, r, h) /\ Succeeded(r) /\ Sound(r) /\ Len(r.stack) = h
  <2>1. n + 4 \in Nat \ {0} /\ 0 \in Word /\ Len(s.stack) - (n + 4) + 1 = h
    BY <1>b, <1>0, WordIsNat
  <2>2. Runs(s, r, Len(s.stack) - (n + 4) + 1)
    BY <1>0, <2>1, ReplaceRuns
  <2>3. Sound(r) /\ Only(s, r, {"stack"})
    BY <1>0, <2>1, ReplaceSound DEF Ready
  <2>4. Succeeded(r)
    BY <1>0, <2>3, StackRuns
  <2> HIDE DEF r
  <2> QED
    BY <2>1, <2>2, <2>3, <2>4 DEF Runs
<1> HIDE DEF r, h
<1>7. Runs(s, a, h)
  <2>1. Ready(r, 0)
    BY <1>6 DEF Ready, Sound
  <2>2. Runs(r, a, h)
    BY <1>6, <2>1, AccessCosts, ColdAccountRuns
  <2> QED
    BY <1>0, <1>6, <2>2, RunsThen
<1> HIDE DEF a
<1>8. /\ Runs(s, w, h)
      /\ Succeeded(w) => Covered(w, io, is) /\ Covered(w, oo, os)
  <2>1. CASE Succeeded(a)
    <3>1. Sound(a) /\ Len(a.stack) = h /\ Ready(a, 0)
      BY <1>7, <2>1 DEF Runs, Ready, Sound
    <3> DEFINE u == check_memory(a, io, is)
               v == IF Succeeded(u) THEN check_memory(u, oo, os) ELSE u
    <3>2. /\ Runs(a, v, h)
          /\ Succeeded(v) => Covered(v, io, is) /\ Covered(v, oo, os)
      BY <1>1, <3>1, CallMemoryRuns
    <3>3. w = v
      BY <2>1
    <3> HIDE DEF v, w
    <3>4. Runs(s, v, h)
      BY <1>0, <1>7, <2>1, <3>2, RunsThen
    <3> QED
      BY <3>2, <3>3, <3>4
  <2>2. CASE ~Succeeded(a)
    BY <1>7, <2>2
  <2> QED
    BY <2>1, <2>2
<1> HIDE DEF w
<1>9. Succeeded(w) => Sound(w) /\ Len(w.stack) = h
  BY <1>8 DEF Runs
<1>10. /\ Runs(s, p, h)
       /\ Succeeded(p) => /\ Succeeded(w) /\ ~forbidden
                          /\ p.gas_left + cost <= s.gas_left
                          /\ p.memory = w.memory
  <2>1. CASE Succeeded(w) /\ ~forbidden
    <3>1. p = Charge(w, cost)
      BY <2>1
    <3>2. /\ Runs(w, p, h) /\ Only(w, p, {"gas_left", "status"})
          /\ p.gas_left = w.gas_left - cost
      BY <1>5, <1>9, <2>1, <3>1, ChargeRuns
    <3> HIDE DEF p
    <3>3. Runs(s, p, h)
      BY <1>0, <1>8, <2>1, <3>2, RunsThen
    <3>4. p.memory = w.memory
      BY <3>2, StackKept
    <3>5. p.gas_left + cost <= s.gas_left
      <4>1. w.gas_left \in Int /\ s.gas_left \in Int /\ w.gas_left <= s.gas_left
        BY <1>0, <1>8 DEF Runs, Sound
      <4> QED
        BY <1>5, <3>2, <4>1
    <3> QED
      BY <2>1, <3>3, <3>4, <3>5
  <2>2. CASE Succeeded(w) /\ forbidden
    <3>1. p = Fail(w, "STATIC_MODE_VIOLATION")
      BY <2>2
    <3>2. Runs(w, p, h) /\ ~Succeeded(p)
      BY <1>9, <2>2, <3>1, FailRuns
    <3> HIDE DEF p
    <3>3. Runs(s, p, h)
      BY <1>0, <1>8, <2>2, <3>2, RunsThen
    <3> QED
      BY <3>2, <3>3
  <2>3. CASE ~Succeeded(w)
    BY <1>8, <2>3
  <2> QED
    BY <2>1, <2>2, <2>3
<1> HIDE DEF p, forbidden
<1>11. /\ Runs(s, f, h)
       /\ Succeeded(f) => /\ f = p
                          /\ rev >= REV.TANGERINE_WHISTLE
                               \/ requested <= f.gas_left
  <2>1. CASE /\ Succeeded(p) /\ rev < REV.TANGERINE_WHISTLE
             /\ requested > p.gas_left
    <3>1. f = Fail(p, "OUT_OF_GAS") /\ Sound(p)
      BY <1>10, <2>1 DEF Runs
    <3>2. Runs(p, f, h) /\ ~Succeeded(f)
      BY <3>1, FailRuns
    <3> HIDE DEF f
    <3>3. Runs(s, f, h)
      BY <1>0, <1>10, <2>1, <3>2, RunsThen
    <3> QED
      BY <3>2, <3>3
  <2>2. CASE ~(/\ Succeeded(p) /\ rev < REV.TANGERINE_WHISTLE
               /\ requested > p.gas_left)
    <3>1. f = p
      BY <2>2
    <3>2. Succeeded(p) => rev >= REV.TANGERINE_WHISTLE
                            \/ requested <= p.gas_left
      <4>1. rev \in Int /\ p.gas_left \in Int /\ REV.TANGERINE_WHISTLE = 2
        BY <1>10, RevisionsAssumption
           DEF Context_, Runs, Sound, AllRevisions, REV
      <4> QED
        BY <1>3, <2>2, <4>1
    <3> QED
      BY <1>10, <3>1, <3>2
  <2> QED
    BY <2>1, <2>2
<1> HIDE DEF f
<1>12. ASSUME ~Succeeded(f)
       PROVE  RequestOK(s, call_request(s, Kind, Static), h)
  <2>1. call_request(s, Kind, Static) = [calls |-> FALSE, state |-> f]
    BY <1>2, <1>12 DEF NoCall
  <2> QED
    BY <1>11, <2>1 DEF RequestOK
<1>13. ASSUME Succeeded(f)
       PROVE  RequestOK(s, call_request(s, Kind, Static), h)
  <2>1. /\ Sound(f) /\ Len(f.stack) = h /\ f.gas_left \in Nat
        /\ f.gas_left + stipend <= s.gas_left
        /\ Covered(f, io, is) /\ Covered(f, oo, os)
    <3>1. /\ Sound(f) /\ Len(f.stack) = h /\ f.gas_left \in Nat
          /\ s.gas_left \in Int
      BY <1>0, <1>11, <1>13 DEF Runs, Sound
    <3>2. f = p /\ Succeeded(w) /\ f.memory = w.memory
      BY <1>10, <1>11, <1>13
    <3>3. f.gas_left + cost <= s.gas_left
      BY <1>10, <1>11, <1>13
    <3>4. Covered(f, io, is) /\ Covered(f, oo, os)
      BY <1>8, <3>2 DEF Covered
    <3> QED
      BY <1>5, <3>1, <3>3, <3>4
  <2>2. /\ Runs(s, ready, h) /\ Succeeded(ready)
        /\ ready.gas_left = f.gas_left + stipend /\ ready.memory = f.memory
    <3>1. /\ Runs(s, f, Len(f.stack)) /\ Affords(s, f, stipend)
          /\ Sound(f) /\ Sound(s) /\ Succeeded(f)
      BY <1>0, <1>5, <1>11, <1>13, <2>1 DEF Affords
    <3>a. IsReady(f, stipend, ready)
      BY <3>1 DEF IsReady, Only, Fields, Sound, ReturnDataCleared
    <3> HIDE DEF ready
    <3>2. /\ Runs(s, ready, Len(f.stack)) /\ Succeeded(ready)
          /\ ready.gas_left = f.gas_left + stipend /\ ready.memory = f.memory
      BY <3>1, <3>a, ReadySound
    <3> QED
      BY <2>1, <3>2
  <2> HIDE DEF ready
  <2>3. CASE IsRefused(value)
    <3>1. call_request(s, Kind, Static) = [calls |-> FALSE, state |-> ready]
      BY <1>2, <1>13, <2>3 DEF NoCall
    <3> QED
      BY <2>2, <3>1 DEF RequestOK
  <2>4. CASE ~IsRefused(value)
    <3>1. Sound(ready) /\ Covered(ready, io, is) /\ Covered(ready, oo, os)
      BY <2>1, <2>2 DEF Runs, Covered
    <3>2. TouchMemory(ready, size_t(io), is) = ready
      BY <1>1, <3>1, TouchCovered
    <3>3. call_request(s, Kind, Static)
            = Request(ready, m, size_t(oo), os)
      BY <1>2, <1>13, <2>4, <3>2
    <3>4. CallGas(requested, f.gas_left) \in Nat
          /\ CallGas(requested, f.gas_left) <= f.gas_left
      BY <1>3, <1>11, <1>13, <2>1, CallGasFits
    <3>5. m.gas \in Nat /\ m.gas <= ready.gas_left
      BY <1>5, <2>1, <2>2, <3>4
    <3>6. ValidMessage(m)
      <4>1. m.gas \in 0..Int64Max
        BY <3>1, <3>5, LimitsFacts DEF Sound
      <4>2. m.static \in BOOLEAN
        BY DEF CalleeStatic, Context_, ValidMessage
      <4>3. /\ m.depth \in Nat
            /\ m.recipient \in Word /\ m.sender \in Word /\ m.value \in Word
        BY <1>4 DEF Context_, ValidMessage
      <4>4. IsBuffer(m.input)
        <5>1. IsBuffer(ReadMemory(ready, size_t(io), is))
          BY <1>1, <3>1, ReadIsBuffer DEF Covered
        <5> QED
          BY <5>1
      <4> HIDE DEF m
      <4> QED
        BY <4>1, <4>2, <4>3, <4>4 DEF ValidMessage
    <3>7. msg.static => StaticCall(m)
      <4> SUFFICES ASSUME msg.static
                   PROVE  StaticCall(m)
        OBVIOUS
      <4>1. m.kind = Kind /\ m.static
        BY DEF CalleeStatic
      <4>2. Kind = "CALL" => m.value = 0
        <5>1. Kind = "CALL" => value = 0
          BY <1>10, <1>11, <1>13 DEF forbidden, has_value
        <5> QED
          BY <5>1
      <4> HIDE DEF m
      <4> QED
        BY <4>1, <4>2 DEF StaticCall
    <3>8. /\ size_t(oo) \in Nat /\ os \in Nat
          /\ os = 0 \/ size_t(oo) + os <= Len(ready.memory)
      BY <1>1, <3>1 DEF Covered
    <3> HIDE DEF m
    <3> QED
      BY <1>0, <2>2, <3>3, <3>5, <3>6, <3>7, <3>8, RequestFits
  <2> QED
    BY <2>3, <2>4
<1>14. RequestOK(s, call_request(s, Kind, Static), h)
  BY <1>12, <1>13
<1> QED
  BY <1>b, <1>14 DEF h

-----------------------------------------------------------------------------
(***************************************************************************)
(* The callee has returned.                                                *)
(***************************************************************************)
LEMMA BackSound ==
    ASSUME NEW t, Sound(t), Succeeded(t), NEW u,
           Only(t, u, {"stack", "return_data", "gas_left"}),
           u.stack \in Seq(Word), Len(u.stack) = Len(t.stack),
           IsBuffer(u.return_data),
           u.gas_left \in Nat, u.gas_left <= t.gas_left
    PROVE  Runs(t, u, Len(t.stack)) /\ Succeeded(u)
<1>1. /\ u = [f \in Fields |-> u[f]]
      /\ u.memory = t.memory /\ u.status = t.status /\ u.host = t.host
      /\ u.output_offset = t.output_offset /\ u.output_size = t.output_size
      /\ u.fault = t.fault
  BY DEF Only, Fields
<1>2. Succeeded(u) /\ u.status # "REVERT"
  BY <1>1 DEF Succeeded
<1>3. u.gas_left \in Int /\ u.gas_left >= 0 /\ u.gas_left <= Int64Max
  BY LimitsFacts DEF Sound
<1>4. Sound(u)
  BY <1>1, <1>3 DEF Sound
<1> QED
  BY <1>1, <1>2, <1>4 DEF Runs

\* What is left of the caller's gas.
LEMMA GasBack ==
    ASSUME NEW s, NEW r, NEW n, RequestOK(s, r, n), r.calls, NEW result,
           ResultOK(r.message, result)
    PROVE  LET g == r.state.gas_left - (r.message.gas - result.gas_left)
           IN  g \in Nat /\ g <= r.state.gas_left
<1>1. /\ r.state.gas_left \in Int /\ r.message.gas \in Int
      /\ r.message.gas <= r.state.gas_left
      /\ result.gas_left \in Nat /\ result.gas_left <= r.message.gas
  BY LimitsFacts DEF RequestOK, ResultOK, Runs, Sound, ValidMessage
<1> QED
  BY <1>1

LEMMA CallReturnRuns ==
    ASSUME NEW s, Sound(s), NEW r, NEW n \in Nat \ {0}, RequestOK(s, r, n),
           r.calls, NEW result, ResultOK(r.message, result)
    PROVE  Runs(s, call_return(r, result), n)
<1> DEFINE t == r.state
           size == SmallerOf(r.output_size, Len(result.output))
           bytes == SubSeq(result.output, 1, size)
           p == Replace(t, 1, Truth(result.status_code = "SUCCESS"))
           g == t.gas_left - (r.message.gas - result.gas_left)
           u == [p EXCEPT !.return_data = result.output,
                          !.gas_left = p.gas_left
                                         - (r.message.gas - result.gas_left)]
<1>1. call_return(r, result) = WriteMemory(u, r.output_offset, bytes)
  BY DEF call_return
<1>2. /\ Sound(t) /\ Succeeded(t) /\ Len(t.stack) = n /\ Runs(s, t, n)
      /\ r.output_offset \in Nat /\ r.output_size \in Nat
      /\ r.output_size = 0 \/ r.output_offset + r.output_size <= Len(t.memory)
      /\ IsBuffer(result.output)
  BY DEF RequestOK, Runs, ResultOK
<1>3. Sound(p) /\ Only(t, p, {"stack"}) /\ Len(p.stack) = n
  <2>1. Truth(result.status_code = "SUCCESS") \in Word
    BY WordIsNat DEF Truth
  <2> QED
    BY <1>2, <2>1, ReplaceSound
<1>4. g \in Nat /\ g <= t.gas_left
  BY GasBack
<1> HIDE DEF p, t
<1>5. /\ Only(t, u, {"stack", "return_data", "gas_left"})
      /\ u.stack = p.stack /\ u.return_data = result.output
      /\ u.memory = t.memory /\ u.gas_left = g
  BY <1>3 DEF Only, Fields, Sound
<1> HIDE DEF u, g
<1>6. Runs(t, u, n) /\ Succeeded(u)
  <2>1. u.stack \in Seq(Word) /\ Len(u.stack) = Len(t.stack)
    BY <1>2, <1>3, <1>5 DEF Sound
  <2> QED
    BY <1>2, <1>4, <1>5, <2>1, BackSound
<1>7. Runs(s, u, n) /\ Ready(u, 0) /\ Len(u.stack) = n
  BY <1>2, <1>6, RunsThen DEF Runs, Ready, Sound
<1>8. /\ bytes \in Seq(Byte) /\ Len(bytes) = size /\ size \in Nat
      /\ size <= r.output_size
  <2>1. result.output \in Seq(Byte) /\ Len(result.output) \in Nat
    BY <1>2 DEF IsBuffer
  <2>2. size \in Nat /\ size <= r.output_size /\ size <= Len(result.output)
    BY <1>2, <2>1 DEF SmallerOf
  <2> HIDE DEF size
  <2> QED
    BY <2>1, <2>2
<1>9. Len(bytes) = 0 \/ r.output_offset + Len(bytes) <= Len(u.memory)
  <2>1. Len(u.memory) \in Nat /\ Len(u.memory) = Len(t.memory)
    BY <1>5, <1>7 DEF Ready, Sound
  <2> HIDE DEF bytes, size
  <2> QED
    BY <1>2, <1>8, <2>1
<1> HIDE DEF bytes
<1>10. Runs(u, WriteMemory(u, r.output_offset, bytes), n)
  BY <1>2, <1>7, <1>8, <1>9, WriteRuns
<1> QED
  BY <1>1, <1>6, <1>7, <1>10, RunsThen

LEMMA CreateReturnRuns ==
    ASSUME NEW s, Sound(s), NEW r, NEW n \in Nat \ {0}, RequestOK(s, r, n),
           r.calls, NEW result, ResultOK(r.message, result)
    PROVE  Runs(s, create_return(r, result), n)
<1> DEFINE t == r.state
           x == IF result.status_code = "SUCCESS" THEN result.create_address
                ELSE 0
           g == t.gas_left - (r.message.gas - result.gas_left)
           u == create_return(r, result)
<1>2. /\ Sound(t) /\ Succeeded(t) /\ Len(t.stack) = n /\ Runs(s, t, n)
      /\ IsBuffer(result.output) /\ x \in Word /\ t.stack \in Seq(Word)
  BY WordIsNat DEF RequestOK, Runs, ResultOK, Sound
<1>4. g \in Nat /\ g <= t.gas_left
  BY GasBack
<1> HIDE DEF x
<1>5. u = [t EXCEPT !.stack = [t.stack EXCEPT ![n] = x],
                    !.return_data = result.output, !.gas_left = g]
  BY <1>2 DEF create_return, stack_size, x
<1> HIDE DEF t, u, g
<1>6. /\ Only(t, u, {"stack", "return_data", "gas_left"})
      /\ u.stack = [t.stack EXCEPT ![n] = x]
      /\ u.return_data = result.output /\ u.gas_left = g
  BY <1>2, <1>5 DEF Only, Fields, Sound
<1>7. u.stack \in Seq(Word) /\ Len(u.stack) = Len(t.stack)
  BY <1>2, <1>6
<1>8. Runs(t, u, n) /\ Succeeded(u)
  BY <1>2, <1>4, <1>6, <1>7, BackSound
<1> QED
  BY <1>2, <1>8, RunsThen DEF u

SaltItems(Kind) == IF Kind = "CREATE2" THEN 1 ELSE 0

LEMMA CreateRequestOK ==
    ASSUME NEW s, Context_, NEW Kind \in {"CREATE", "CREATE2"},
           NEW x, x = SaltItems(Kind), Ready(s, x + 3)
    PROVE  RequestOK(s, create_request(s, Kind), Len(s.stack) - (x + 2))
<1> DEFINE k == IF Kind = "CREATE2" THEN 1 ELSE 0
           endowment == Item(s, 0)
           offset == Item(s, 1)
           size == Item(s, 2)
           salt == IF Kind = "CREATE2" THEN Item(s, 3) ELSE 0
           cost == IF Kind = "CREATE2" THEN num_words(size) * 6 ELSE 0
           d == Drop(s, 3)
           c == check_memory(d, offset, size)
           e == Drop(c, k)
           p == IF Succeeded(c) THEN Charge(e, cost) ELSE c
           ready == ReturnDataCleared(Push(p, 0))
           m == [kind |-> Kind, static |-> FALSE, depth |-> msg.depth + 1,
                 recipient |-> 0, code_address |-> 0, sender |-> msg.recipient,
                 value |-> endowment, salt |-> salt,
                 input |-> ReadMemory(ready, size_t(offset), size),
                 gas |-> IF rev >= REV.TANGERINE_WHISTLE
                         THEN all_but_64th(ready.gas_left)
                         ELSE ready.gas_left]
           h == Len(s.stack) - (k + 2)
<1>1. create_request(s, Kind)
        = IF msg.static THEN NoCall(Fail(s, "STATIC_MODE_VIOLATION"))
          ELSE IF ~Succeeded(p) THEN NoCall(p)
          ELSE IF IsRefused(endowment) THEN NoCall(ready)
          ELSE Request(TouchMemory(ready, size_t(offset), size), m, 0, 0)
  BY DEF create_request, Then
<1>2. k \in {0, 1} /\ k = x
  BY DEF SaltItems
<1> HIDE DEF k
<1>3. /\ Sound(s) /\ Succeeded(s) /\ Len(s.stack) \in Nat
      /\ Len(s.stack) >= k + 3 /\ Len(s.stack) <= StackLimit
      /\ StackLimit \in Nat
  BY <1>2, LimitsFacts DEF Ready, Sound
<1>4. /\ offset \in Nat /\ size \in Nat /\ size \in Word
      /\ endowment \in Word
  <2>1. {0, 1, 2} \subseteq Nat
    OBVIOUS
  <2> QED
    BY <1>3, <2>1, ItemIsWord
<1>5. cost \in Nat
  BY <1>4, WordsCost
<1> HIDE DEF cost, offset, size, endowment, salt
<1>6. Runs(s, d, Len(s.stack) - 3) /\ Succeeded(d)
  <2>1. Ready(s, 3)
    BY <1>2, <1>3 DEF Ready
  <2> QED
    BY <2>1, DropRuns
<1> HIDE DEF d
<1>7. Sound(d) /\ Len(d.stack) = Len(s.stack) - 3
  BY <1>6 DEF Runs
<1>8. /\ Runs(d, c, Len(s.stack) - 3)
      /\ Succeeded(c) => Covered(c, offset, size)
  BY <1>4, <1>6, <1>7, CheckRuns
<1> HIDE DEF c
<1>9. Runs(s, c, Len(s.stack) - 3)
  BY <1>3, <1>6, <1>8, RunsThen
<1>10. ASSUME Succeeded(c)
       PROVE  /\ Runs(c, p, h - 1)
              /\ p.memory = c.memory
  <2>1. Sound(c) /\ Len(c.stack) = Len(s.stack) - 3
    BY <1>9, <1>10 DEF Runs
  <2>2. Ready(c, k) /\ k \in Nat /\ Len(c.stack) - k = h - 1
    BY <1>2, <1>3, <1>10, <2>1 DEF Ready
  <2>3. /\ Runs(c, e, h - 1) /\ Succeeded(e) /\ e.memory = c.memory
    <3>1. Runs(c, e, Len(c.stack) - k) /\ Succeeded(e)
      BY <2>2, DropRuns
    <3>2. e.memory = c.memory
      BY <2>1, <2>2, DropSound DEF Ready, Only, Fields
    <3> HIDE DEF e
    <3> QED
      BY <2>2, <3>1, <3>2
  <2> HIDE DEF e, h
  <2>4. Sound(e) /\ Len(e.stack) = h - 1
    BY <2>3 DEF Runs
  <2>5. p = Charge(e, cost)
    BY <1>10
  <2>6. Runs(e, p, h - 1) /\ Only(e, p, {"gas_left", "status"})
    BY <1>5, <2>3, <2>4, <2>5, ChargeRuns
  <2> HIDE DEF p
  <2> QED
    BY <2>1, <2>3, <2>6, RunsThen, StackKept
<1>11. Runs(s, p, h - 1)
  <2>1. CASE Succeeded(c)
    BY <1>3, <1>9, <1>10, <2>1, RunsThen
  <2>2. CASE ~Succeeded(c)
    <3>1. p = c
      BY <2>2
    <3> QED
      BY <1>9, <2>2, <3>1 DEF Runs
  <2> QED
    BY <2>1, <2>2
<1>12. Succeeded(p) => Succeeded(c) /\ Covered(p, offset, size)
  <2>1. Succeeded(p) => Succeeded(c)
    OBVIOUS
  <2> HIDE DEF p
  <2> QED
    BY <1>8, <1>10, <2>1 DEF Covered
<1> HIDE DEF p
<1>13. CASE msg.static
  <2>1. create_request(s, Kind)
          = [calls |-> FALSE, state |-> Fail(s, "STATIC_MODE_VIOLATION")]
    BY <1>1, <1>13 DEF NoCall
  <2> QED
    BY <1>3, <2>1, FailRuns DEF RequestOK
<1>14. CASE ~msg.static /\ ~Succeeded(p)
  <2>1. create_request(s, Kind) = [calls |-> FALSE, state |-> p]
    BY <1>1, <1>14 DEF NoCall
  <2>2. Runs(s, p, Len(s.stack) - (x + 2))
    BY <1>11, <1>14 DEF Runs
  <2> QED
    BY <2>1, <2>2 DEF RequestOK
<1>15. CASE ~msg.static /\ Succeeded(p)
  <2> DEFINE q == Push(p, 0)
  <2>1. Sound(p) /\ Len(p.stack) = h - 1 /\ p.gas_left \in Nat
    BY <1>11, <1>15 DEF Runs, Sound
  <2>2. /\ Runs(s, q, h) /\ Succeeded(q) /\ Sound(q) /\ Len(q.stack) = h
        /\ q.memory = p.memory /\ q.gas_left \in Int /\ q.gas_left >= 0
    <3>1. Ready(p, 0) /\ Len(p.stack) < StackLimit /\ Len(p.stack) + 1 = h
      BY <1>2, <1>3, <1>15, <2>1 DEF Ready
    <3>2. 0 \in Word
      BY WordIsNat
    <3>3. /\ Sound(q) /\ Only(p, q, {"stack"})
          /\ Len(q.stack) = Len(p.stack) + 1
      BY <2>1, <3>1, <3>2, PushSound
    <3> HIDE DEF q
    <3>4. Runs(p, q, h) /\ Succeeded(q)
      BY <1>15, <2>1, <3>1, <3>3, StackRuns
    <3>5. q.memory = p.memory
      BY <3>3 DEF Only, Fields
    <3> HIDE DEF h
    <3>6. Runs(s, q, h)
      BY <1>3, <1>11, <1>15, <3>4, RunsThen
    <3>7. q.gas_left \in Int /\ q.gas_left >= 0
      BY <3>3, <3>4 DEF Sound
    <3> QED
      BY <3>1, <3>3, <3>4, <3>5, <3>6, <3>7
  <2>a. ready = [q EXCEPT !.return_data = << >>]
    BY DEF ReturnDataCleared
  <2> HIDE DEF q, h, ready
  <2>3. /\ Runs(s, ready, h) /\ Succeeded(ready)
        /\ ready.memory = q.memory
    <3>1. IsReady(q, 0, ready)
      <4>1. q = [f \in Fields |-> q[f]]
        BY <2>2 DEF Sound
      <4>2. /\ Only(q, ready, {"gas_left", "return_data"})
            /\ ready.gas_left = q.gas_left /\ ready.return_data = << >>
        BY <2>a, <4>1 DEF Only, Fields
      <4> QED
        BY <2>2, <4>2 DEF IsReady
    <3>2. Affords(s, q, 0)
      BY <1>3, <2>2 DEF Affords, Runs, Sound
    <3>3. Runs(s, q, Len(q.stack)) /\ Len(q.stack) = h
      BY <2>2
    <3> QED
      BY <1>3, <2>2, <3>1, <3>2, <3>3, ReadySound
  <2>4. CASE IsRefused(endowment)
    <3>1. create_request(s, Kind) = [calls |-> FALSE, state |-> ready]
      BY <1>1, <1>15, <2>4 DEF NoCall
    <3> QED
      BY <1>2, <2>3, <3>1 DEF RequestOK, h
  <2>5. CASE ~IsRefused(endowment)
    <3>1. Sound(ready) /\ Covered(ready, offset, size)
      BY <1>12, <1>15, <2>2, <2>3 DEF Runs, Covered
    <3>2. TouchMemory(ready, size_t(offset), size) = ready
      BY <1>4, <3>1, TouchCovered
    <3>3. create_request(s, Kind) = Request(ready, m, 0, 0)
      BY <1>1, <1>15, <2>5, <3>2
    <3>4. m.gas \in Nat /\ m.gas <= ready.gas_left
      <4>1. ready.gas_left \in Nat
        BY <2>3, <3>1 DEF Sound
      <4> QED
        BY <4>1, AllBut64th
    <3>5. ValidMessage(m)
      <4>1. m.gas \in 0..Int64Max
        BY <3>1, <3>4, LimitsFacts DEF Sound
      <4>2. m.static \in BOOLEAN
        OBVIOUS
      <4>3. /\ m.depth \in Nat
            /\ m.recipient \in Word /\ m.sender \in Word /\ m.value \in Word
        BY <1>4, WordIsNat DEF Context_, ValidMessage
      <4>4. IsBuffer(m.input)
        <5>1. IsBuffer(ReadMemory(ready, size_t(offset), size))
          BY <1>4, <3>1, ReadIsBuffer DEF Covered
        <5> QED
          BY <5>1
      <4> HIDE DEF m
      <4> QED
        BY <4>1, <4>2, <4>3, <4>4 DEF ValidMessage
    <3> HIDE DEF m
    <3>6. RequestOK(s, create_request(s, Kind), h)
      BY <1>3, <1>15, <2>3, <3>3, <3>4, <3>5, RequestFits
    <3> QED
      BY <1>2, <3>6 DEF h
  <2> QED
    BY <2>4, <2>5
<1> QED
  BY <1>13, <1>14, <1>15

-----------------------------------------------------------------------------
(***************************************************************************)
(* Both parts together.                                                    *)
(***************************************************************************)
LEMMA AnswerOK ==
    ASSUME Context_, NEW m, ValidMessage(m)
    PROVE  ResultOK(m, call_result(m))
<1>1. /\ m.gas \in Nat /\ env.reply.gas_kept \in Nat
      /\ env.reply.create_address \in Word /\ IsBuffer(env.reply.output)
  BY LimitsFacts DEF ValidMessage, Context_, ValidEnvironment
<1> QED
  BY <1>1 DEF call_result, ResultOK

LEMMA AnsweredRuns ==
    ASSUME NEW s, Sound(s), Context_, NEW n \in Nat \ {0}, NEW r,
           RequestOK(s, r, n), NEW op
    PROVE  Runs(s, AnsweredAtOnce(op, r), n)
<1>1. CASE r.calls
  <2>1. ResultOK(r.message, call_result(r.message))
    BY <1>1, AnswerOK DEF RequestOK
  <2>2. /\ Runs(s, call_return(r, call_result(r.message)), n)
        /\ Runs(s, create_return(r, call_result(r.message)), n)
    BY <1>1, <2>1, CallReturnRuns, CreateReturnRuns
  <2> QED
    BY <1>1, <2>2 DEF AnsweredAtOnce, Answered
<1>2. CASE ~r.calls
  <2>1. AnsweredAtOnce(op, r) = r.state
    BY <1>2 DEF AnsweredAtOnce
  <2> QED
    BY <2>1 DEF RequestOK
<1> QED
  BY <1>1, <1>2

-----------------------------------------------------------------------------
(***************************************************************************)
(* The tables: which opcodes are defined, and which of them are free.      *)
(***************************************************************************)
KnownOps == {OP.STOP, OP.JUMPDEST, OP.KECCAK256, OP.BALANCE, OP.CALLDATALOAD,
             OP.CALLDATACOPY, OP.CODECOPY, OP.EXTCODESIZE, OP.EXTCODECOPY,
             OP.RETURNDATASIZE, OP.RETURNDATACOPY, OP.EXTCODEHASH,
             OP.BLOCKHASH, OP.POP, OP.MLOAD, OP.MSTORE, OP.MSTORE8, OP.SLOAD,
             OP.SSTORE, OP.JUMP, OP.JUMPI, OP.PC, OP.MSIZE, OP.GAS,
             OP.RETURN, OP.REVERT, OP.INVALID, OP.SELFDESTRUCT}
            \cup (OP.ADD..OP.SIGNEXTEND) \cup (OP.LT..OP.SAR)
            \cup ContextOps \cup PushOps \cup DupOps \cup SwapOps
            \cup LogOps \cup CallOps \cup CreateOps
FreeOps == {OP.STOP, OP.SSTORE, OP.RETURN, OP.REVERT, OP.INVALID,
            OP.SELFDESTRUCT}

LEMMA FrontierCosts ==
    ASSUME NEW op \in Byte, FrontierCost(op) # undefined
    PROVE  /\ FrontierCost(op) \in Nat /\ op \in KnownOps
           /\ op \notin FreeOps => FrontierCost(op) > 0
<1> USE DEF OP, PushOps, DupOps, SwapOps, LogOps
<1>1. CASE op \in LogOps
  <2>1. /\ op \in Int /\ op - OP.LOG0 + 1 >= 1
        /\ FrontierCost(op) = (op - OP.LOG0 + 1) * 375
    BY <1>1 DEF FrontierCost
  <2> QED
    BY <1>1, <2>1 DEF KnownOps
<1>2. CASE op \notin LogOps
  <2>1. FrontierCost(op) \in {0, 1, 2, 3, 5, 8, 10, 20, 30, 40, 50, 32000}
    BY <1>2 DEF FrontierCost, undefined
  <2>2. FrontierCost(op) = 0 => op \in FreeOps
    BY <1>2 DEF FrontierCost, FreeOps, undefined
  <2>3. op \in KnownOps
    BY <1>2 DEF FrontierCost, KnownOps, undefined, ContextOps, TxContextOps,
                CallOps, CreateOps
  <2> QED
    BY <2>1, <2>2, <2>3
<1> QED
  BY <1>1, <1>2

LEMMA ChangedCosts ==
    ASSUME NEW r \in AllRevisions, NEW c \in CostChanges(r)
    PROVE  /\ c[2] \in Nat /\ c[1] \in KnownOps
           /\ c[1] \notin FreeOps => c[2] > 0
BY DEF CostChanges, KnownOps, FreeOps, OP, REV, ContextOps, TxContextOps,
       CallOps, CreateOps, warm_storage_read_cost

LEMMA CostFacts ==
    ASSUME NEW r \in AllRevisions, NEW op \in Byte,
           gas_costs[r][op] # undefined
    PROVE  /\ gas_costs[r][op] \in Nat /\ op \in KnownOps
           /\ op \notin FreeOps => gas_costs[r][op] > 0
<1> DEFINE changed == {q \in 0..r : \E c \in CostChanges(q) : c[1] = op}
           last == Max(changed)
           change == CHOOSE c \in CostChanges(last) : c[1] = op
<1>1. gas_costs[r][op] = IF changed = {} THEN FrontierCost(op)
                         ELSE change[2]
  BY DEF gas_costs
<1>2. CASE changed = {}
  BY <1>1, <1>2, FrontierCosts
<1>3. CASE changed # {}
  <2>1. r \in Nat /\ changed \in SUBSET (0..r) /\ 0..r \subseteq AllRevisions
    BY DEF AllRevisions, REV
  <2>2. last \in changed
    BY <1>3, <2>1, MaxFacts
  <2> HIDE DEF last
  <2>3. \E c \in CostChanges(last) : c[1] = op
    BY <2>2
  <2>4. change \in CostChanges(last) /\ change[1] = op
    BY <2>3
  <2> HIDE DEF change
  <2>5. last \in AllRevisions
    BY <2>1, <2>2
  <2> QED
    BY <1>1, <1>3, <2>4, <2>5, ChangedCosts
<1> QED
  BY <1>2, <1>3

-----------------------------------------------------------------------------
(***************************************************************************)
(* All of them.                                                            *)
(***************************************************************************)
GenericOps == KnownOps \ ({OP.STOP, OP.JUMPDEST, OP.SSTORE, OP.JUMP,
                           OP.JUMPI, OP.PC, OP.GAS, OP.RETURN, OP.REVERT,
                           OP.INVALID, OP.SELFDESTRUCT}
                          \cup PushOps \cup CallOps \cup CreateOps)

\* The stack is as high as op requires, and has room for what op adds.
Fits(op, s) == /\ Ready(s, StackTraits(op)[1])
               /\ Len(s.stack) + StackTraits(op)[2] <= StackLimit
HeightAfter(op, s) == Len(s.stack) + StackTraits(op)[2]

LEMMA ContextTyped ==
    ASSUME Context_, NEW op \in ContextOps
    PROVE  Context(op) \in Word
<1>1. /\ msg.recipient \in Word /\ msg.sender \in Word /\ msg.value \in Word
      /\ Len(msg.input) \in Word /\ Len(code) \in Word
      /\ env.block_number \in Word
      /\ get_balance(msg.recipient) \in Word
  <2>1. 0 \in Nat
    OBVIOUS
  <2> QED
    BY <2>1, AnswersTyped
       DEF Context_, ValidMessage, ValidEnvironment, IsBuffer
<1>2. env.tx \in [TxContextOps -> Word]
  BY DEF Context_, ValidEnvironment
<1>3. CASE op \in TxContextOps
  <2>1. Context(op) = env.tx[op]
    BY <1>3 DEF Context, TxContextOps, OP
  <2> QED
    BY <1>2, <1>3, <2>1
<1>4. CASE op \notin TxContextOps
  <2>1. op \in {OP.ADDRESS, OP.CALLER, OP.CALLVALUE, OP.CALLDATASIZE,
                OP.CODESIZE, OP.NUMBER, OP.SELFBALANCE}
    BY <1>4 DEF ContextOps
  <2> QED
    BY <1>1, <2>1 DEF Context, OP
<1> QED
  BY <1>3, <1>4

LEMMA SizesAreWords ==
    ASSUME NEW s, Sound(s)
    PROVE  /\ Len(s.memory) \in Word /\ Len(s.return_data) \in Word
           /\ Succeeded(s) => s.gas_left \in Word
<1>1. Len(s.memory) \in Nat /\ Len(s.memory) < WordMod
  <2>1. s.memory \in Seq(Byte) /\ Len(s.memory) <= MemoryLimit
    BY DEF Sound
  <2>2. Len(s.memory) \in Nat
    BY <2>1
  <2> QED
    BY <2>1, <2>2, LimitsFacts, WordModFacts
<1>2. Succeeded(s) => s.gas_left \in Nat /\ s.gas_left < WordMod
  <2>1. /\ s.gas_left \in Int /\ s.gas_left <= Int64Max
        /\ Succeeded(s) => s.gas_left >= 0
    BY DEF Sound
  <2> QED
    BY <2>1, LimitsFacts, WordModFacts
<1> QED
  BY <1>1, <1>2, WordModFacts DEF Word, Sound, IsBuffer

\* The simple stack effects of the operators, as the table gives them.
LEMMA TraitsOf ==
    ASSUME NEW op
    PROVE  /\ op \in {OP.EXP, OP.KECCAK256} => StackTraits(op) = <<2, -1>>
           /\ op \in {OP.BALANCE, OP.EXTCODESIZE, OP.EXTCODEHASH,
                      OP.CALLDATALOAD, OP.BLOCKHASH, OP.MLOAD, OP.SLOAD}
                => StackTraits(op) = <<1, 0>>
           /\ op \in ContextOps \cup PushOps
                       \cup {OP.RETURNDATASIZE, OP.MSIZE, OP.PC, OP.GAS}
                => StackTraits(op) = <<0, 1>>
           /\ op \in {OP.CALLDATACOPY, OP.CODECOPY, OP.RETURNDATACOPY}
                => StackTraits(op) = <<3, -3>>
           /\ op = OP.EXTCODECOPY => StackTraits(op) = <<4, -4>>
           /\ op \in {OP.POP, OP.JUMP, OP.SELFDESTRUCT}
                => StackTraits(op) = <<1, -1>>
           /\ op \in {OP.MSTORE, OP.MSTORE8, OP.SSTORE, OP.JUMPI, OP.RETURN,
                      OP.REVERT} => StackTraits(op) = <<2, -2>>
           /\ op \in {OP.STOP, OP.JUMPDEST, OP.INVALID}
                => StackTraits(op) = <<0, 0>>
<1> USE DEF StackTraits, OP, PushOps, DupOps, SwapOps, LogOps
<1>1. op \in {OP.EXP, OP.KECCAK256} => StackTraits(op) = <<2, -1>>
  OBVIOUS
<1>2. op \in {OP.BALANCE, OP.EXTCODESIZE, OP.EXTCODEHASH, OP.CALLDATALOAD,
              OP.BLOCKHASH, OP.MLOAD, OP.SLOAD}
        => StackTraits(op) = <<1, 0>>
  OBVIOUS
<1>3. op \in ContextOps \cup PushOps
               \cup {OP.RETURNDATASIZE, OP.MSIZE, OP.PC, OP.GAS}
        => StackTraits(op) = <<0, 1>>
  BY DEF ContextOps, TxContextOps
<1>4. op \in {OP.CALLDATACOPY, OP.CODECOPY, OP.RETURNDATACOPY}
        => StackTraits(op) = <<3, -3>>
  OBVIOUS
<1>5. op = OP.EXTCODECOPY => StackTraits(op) = <<4, -4>>
  OBVIOUS
<1>6. op \in {OP.POP, OP.JUMP, OP.SELFDESTRUCT}
        => StackTraits(op) = <<1, -1>>
  OBVIOUS
<1>7. op \in {OP.MSTORE, OP.MSTORE8, OP.SSTORE, OP.JUMPI, OP.RETURN,
              OP.REVERT} => StackTraits(op) = <<2, -2>>
  OBVIOUS
<1>8. op \in {OP.STOP, OP.JUMPDEST, OP.INVALID} => StackTraits(op) = <<0, 0>>
  OBVIOUS
<1> HIDE DEF StackTraits, OP, PushOps, DupOps, SwapOps, LogOps
<1> QED
  BY <1>1, <1>2, <1>3, <1>4, <1>5, <1>6, <1>7, <1>8

LEMMA TraitsOfFamilies ==
    ASSUME NEW op
    PROVE  /\ op \in DupOps => StackTraits(op) = <<op - OP.DUP1 + 1, 1>>
           /\ op \in SwapOps => StackTraits(op) = <<op - OP.SWAP1 + 2, 0>>
           /\ op \in LogOps => StackTraits(op)
                                 = <<op - OP.LOG0 + 2, -(op - OP.LOG0 + 2)>>
           /\ op \in {OP.CALL, OP.CALLCODE} => StackTraits(op) = <<7, -6>>
           /\ op \in {OP.DELEGATECALL, OP.STATICCALL}
                => StackTraits(op) = <<6, -5>>
           /\ op = OP.CREATE => StackTraits(op) = <<3, -2>>
           /\ op = OP.CREATE2 => StackTraits(op) = <<4, -3>>
<1> USE DEF StackTraits, OP, PushOps, DupOps, SwapOps, LogOps
<1>1. op \in DupOps => StackTraits(op) = <<op - OP.DUP1 + 1, 1>>
  OBVIOUS
<1>2. op \in SwapOps => StackTraits(op) = <<op - OP.SWAP1 + 2, 0>>
  OBVIOUS
<1>3. op \in LogOps
        => StackTraits(op) = <<op - OP.LOG0 + 2, -(op - OP.LOG0 + 2)>>
  OBVIOUS
<1>4. op \in {OP.CALL, OP.CALLCODE} => StackTraits(op) = <<7, -6>>
  OBVIOUS
<1>5. op \in {OP.DELEGATECALL, OP.STATICCALL} => StackTraits(op) = <<6, -5>>
  OBVIOUS
<1>6. op = OP.CREATE => StackTraits(op) = <<3, -2>>
  OBVIOUS
<1>7. op = OP.CREATE2 => StackTraits(op) = <<4, -3>>
  OBVIOUS
<1> HIDE DEF StackTraits, OP, PushOps, DupOps, SwapOps, LogOps
<1> QED
  BY <1>1, <1>2, <1>3, <1>4, <1>5, <1>6, <1>7

\* Fits in numbers.
LEMMA FitsAs ==
    ASSUME NEW op, NEW s, Fits(op, s), NEW a, NEW b,
           StackTraits(op) = <<a, b>>
    PROVE  /\ Ready(s, a) /\ HeightAfter(op, s) = Len(s.stack) + b
           /\ Len(s.stack) + b <= StackLimit
           /\ Sound(s) /\ Len(s.stack) \in Nat
BY DEF Fits, HeightAfter, Ready, Sound

\* The rows of Generic that are a single opcode.
SingleOps == {OP.EXP, OP.KECCAK256, OP.BALANCE, OP.CALLDATALOAD,
              OP.CALLDATACOPY, OP.CODECOPY, OP.EXTCODESIZE, OP.EXTCODECOPY,
              OP.RETURNDATASIZE, OP.RETURNDATACOPY, OP.EXTCODEHASH,
              OP.BLOCKHASH, OP.POP, OP.MLOAD, OP.MSTORE, OP.MSTORE8,
              OP.SLOAD, OP.MSIZE}

LEMMA GenericFamilies ==
    ASSUME NEW op, NEW s
    PROVE  /\ op \in OP.ADD..OP.SAR /\ op # OP.EXP
                => Generic(op, s) = Arithmetic(op, s)
           /\ op \in ContextOps => Generic(op, s) = Push(s, Context(op))
           /\ op \in DupOps => Generic(op, s) = dup(s, op - OP.DUP1 + 1)
           /\ op \in SwapOps => Generic(op, s) = swap(s, op - OP.SWAP1 + 1)
           /\ op \in LogOps => Generic(op, s) = log(s, op - OP.LOG0)
<1>1. ASSUME op \in OP.ADD..OP.SAR /\ op # OP.EXP
      PROVE  Generic(op, s) = Arithmetic(op, s)
  <2>1. /\ op \notin ContextOps /\ op \notin DupOps
        /\ op \notin SwapOps /\ op \notin LogOps /\ op \notin SingleOps
    BY <1>1 DEF OP, ContextOps, TxContextOps, DupOps, SwapOps, LogOps,
                 SingleOps
  <2> QED
    BY <1>1, <2>1 DEF Generic, SingleOps
<1>2. ASSUME op \in ContextOps
      PROVE  Generic(op, s) = Push(s, Context(op))
  <2>1. /\ op \notin OP.ADD..OP.SAR /\ op \notin DupOps
        /\ op \notin SwapOps /\ op \notin LogOps /\ op \notin SingleOps
    BY <1>2 DEF OP, ContextOps, TxContextOps, DupOps, SwapOps, LogOps,
                 SingleOps
  <2> QED
    BY <1>2, <2>1 DEF Generic, SingleOps
<1>3. ASSUME op \in DupOps
      PROVE  Generic(op, s) = dup(s, op - OP.DUP1 + 1)
  <2>1. /\ op \notin OP.ADD..OP.SAR /\ op \notin ContextOps
        /\ op \notin SwapOps /\ op \notin LogOps /\ op \notin SingleOps
    BY <1>3 DEF OP, ContextOps, TxContextOps, DupOps, SwapOps, LogOps,
                 SingleOps
  <2> QED
    BY <1>3, <2>1 DEF Generic, SingleOps
<1>4. ASSUME op \in SwapOps
      PROVE  Generic(op, s) = swap(s, op - OP.SWAP1 + 1)
  <2>1. /\ op \notin OP.ADD..OP.SAR /\ op \notin ContextOps
        /\ op \notin DupOps /\ op \notin LogOps /\ op \notin SingleOps
    BY <1>4 DEF OP, ContextOps, TxContextOps, DupOps, SwapOps, LogOps,
                 SingleOps
  <2> QED
    BY <1>4, <2>1 DEF Generic, SingleOps
<1>5. ASSUME op \in LogOps
      PROVE  Generic(op, s) = log(s, op - OP.LOG0)
  <2>1. /\ op \notin OP.ADD..OP.SAR /\ op \notin ContextOps
        /\ op \notin DupOps /\ op \notin SwapOps /\ op \notin SingleOps
    BY <1>5 DEF OP, ContextOps, TxContextOps, DupOps, SwapOps, LogOps,
                 SingleOps
  <2> QED
    BY <1>5, <2>1 DEF Generic, SingleOps
<1> QED
  BY <1>1, <1>2, <1>3, <1>4, <1>5

LEMMA GenericRuns ==
    ASSUME Context_, NEW op \in GenericOps, NEW s, Fits(op, s)
    PROVE  Runs(s, Generic(op, s), HeightAfter(op, s))
<1> DEFINE n == Len(s.stack)
           e == Generic(op, s)
           h == HeightAfter(op, s)
<1>0. Sound(s) /\ n \in Nat
  BY DEF Fits, Ready, Sound
<1>1. CASE op \in OP.ADD..OP.SAR /\ op # OP.EXP
  <2>1. e = Arithmetic(op, s)
    BY <1>1, GenericFamilies
  <2>2. StackTraits(op) # <<0, 0>>
    <3>1. op \in {OP.ADD, OP.MUL, OP.SUB, OP.DIV, OP.SDIV, OP.MOD, OP.SMOD,
                  OP.SIGNEXTEND, OP.LT, OP.GT, OP.SLT, OP.SGT, OP.EQ, OP.AND,
                  OP.OR, OP.XOR, OP.BYTE, OP.SHL, OP.SHR, OP.SAR}
           \cup {OP.ADDMOD, OP.MULMOD} \cup {OP.ISZERO, OP.NOT}
      <4>1. op \in (OP.ADD..OP.SIGNEXTEND) \cup (OP.LT..OP.SAR)
        BY <1>1 DEF GenericOps, KnownOps, OP, ContextOps, TxContextOps,
                    PushOps, DupOps, SwapOps, LogOps, CallOps, CreateOps
      <4> QED
        BY <1>1, <4>1 DEF OP
    <3>2. StackTraits(op) \in {<<2, -1>>, <<3, -2>>, <<1, 0>>}
      BY <3>1 DEF StackTraits, OP, PushOps, DupOps, SwapOps, LogOps
    <3> QED
      BY <3>2
  <2>3. Ready(s, StackTraits(op)[1])
    BY DEF Fits
  <2> QED
    BY <1>1, <2>1, <2>2, <2>3, ArithmeticRuns DEF HeightAfter
<1>2. CASE op \in {OP.EXP, OP.KECCAK256}
  <2>1. e \in {exp(s), keccak256(s)}
    <3>1. CASE op = OP.EXP
      BY <3>1 DEF Generic, OP, ContextOps, TxContextOps, DupOps, SwapOps,
                  LogOps
    <3>2. CASE op = OP.KECCAK256
      BY <3>2 DEF Generic, OP, ContextOps, TxContextOps, DupOps, SwapOps,
                  LogOps
    <3> QED
      BY <1>2, <3>1, <3>2
  <2>2. StackTraits(op) = <<2, -1>>
    BY <1>2, TraitsOf
  <2>3. Ready(s, 2) /\ h = n - 1
    BY <1>0, <2>2, FitsAs
  <2> HIDE DEF e, h, n
  <2> QED
    BY <2>1, <2>3, ExpRuns, KeccakRuns DEF e, h, n
<1>3. CASE op \in ContextOps \cup {OP.RETURNDATASIZE, OP.MSIZE}
  <2>1. PICK x \in Word : e = Push(s, x)
    <3>1. CASE op \in ContextOps
      <4>1. e = Push(s, Context(op))
        BY <3>1, GenericFamilies
      <4> QED
        BY <3>1, <4>1, ContextTyped
    <3>2. CASE op = OP.RETURNDATASIZE
      <4>1. e = Push(s, Len(s.return_data))
        BY <3>2 DEF Generic, OP, ContextOps, TxContextOps, DupOps, SwapOps,
                LogOps
      <4> QED
        BY <1>0, <4>1, SizesAreWords
    <3>3. CASE op = OP.MSIZE
      <4>1. e = Push(s, Len(s.memory))
        BY <3>3 DEF Generic, OP, ContextOps, TxContextOps, DupOps, SwapOps,
                LogOps
      <4> QED
        BY <1>0, <4>1, SizesAreWords
    <3> QED
      BY <1>3, <3>1, <3>2, <3>3
  <2>2. StackTraits(op) = <<0, 1>>
    BY <1>3, TraitsOf
  <2>3. Ready(s, 0) /\ h = n + 1 /\ n + 1 <= StackLimit
    BY <2>2, FitsAs
  <2>4. n < StackLimit
    BY <1>0, <2>3, LimitsFacts
  <2> HIDE DEF e, h
  <2> QED
    BY <2>1, <2>3, <2>4, PushRuns DEF e, h
<1>4. CASE op \in {OP.BALANCE, OP.EXTCODESIZE, OP.EXTCODEHASH,
                   OP.CALLDATALOAD, OP.BLOCKHASH, OP.MLOAD, OP.SLOAD}
  <2>1. e \in {balance(s), extcodesize(s), extcodehash(s), calldataload(s),
               blockhash(s), mload(s), sload(s)}
    BY <1>4 DEF Generic, OP, ContextOps, TxContextOps, DupOps, SwapOps,
                LogOps
  <2>2. StackTraits(op) = <<1, 0>>
    BY <1>4, TraitsOf
  <2>3. Ready(s, 1) /\ h = n
    BY <1>0, <2>2, FitsAs
  <2> HIDE DEF e, h, n
  <2> QED
    BY <2>1, <2>3, ReadAccountRuns, CalldataloadRuns, BlockhashRuns, MloadRuns,
       SloadRuns DEF e, h, n
<1>5. CASE op \in {OP.CALLDATACOPY, OP.CODECOPY, OP.RETURNDATACOPY}
  <2>1. e \in {CopyFrom(s, msg.input), CopyFrom(s, code), returndatacopy(s)}
    BY <1>5 DEF Generic, OP, ContextOps, TxContextOps, DupOps, SwapOps,
                LogOps, calldatacopy, codecopy
  <2>2. StackTraits(op) = <<3, -3>>
    BY <1>5, TraitsOf
  <2>3. Ready(s, 3) /\ h = n - 3
    BY <1>0, <2>2, FitsAs
  <2>4. msg.input \in Seq(Byte) /\ code \in Seq(Byte)
    BY DEF Context_, ValidMessage, IsBuffer
  <2> HIDE DEF e, h, n
  <2> QED
    BY <2>1, <2>3, <2>4, CopyFromRuns, ReturndatacopyRuns DEF e, h, n
<1>6. CASE op = OP.EXTCODECOPY
  <2>1. e = extcodecopy(s)
    BY <1>6 DEF Generic, OP, ContextOps, TxContextOps, DupOps, SwapOps,
                LogOps
  <2>2. StackTraits(op) = <<4, -4>>
    BY <1>6, TraitsOf
  <2>3. Ready(s, 4) /\ h = n - 4
    BY <1>0, <2>2, FitsAs
  <2> HIDE DEF e, h, n
  <2> QED
    BY <2>1, <2>3, ExtcodecopyRuns DEF e, h, n
<1>7. CASE op = OP.POP
  <2>1. e = Drop(s, 1)
    BY <1>7 DEF Generic, OP, ContextOps, TxContextOps, DupOps, SwapOps,
                LogOps
  <2>2. StackTraits(op) = <<1, -1>>
    BY <1>7, TraitsOf
  <2>3. Ready(s, 1) /\ h = n - 1 /\ 1 \in Nat
    BY <1>0, <2>2, FitsAs
  <2> HIDE DEF e, h, n
  <2> QED
    BY <2>1, <2>3, DropRuns DEF e, h, n
<1>8. CASE op \in {OP.MSTORE, OP.MSTORE8}
  <2>1. e \in {mstore(s), mstore8(s)}
    BY <1>8 DEF Generic, OP, ContextOps, TxContextOps, DupOps, SwapOps,
                LogOps
  <2>2. StackTraits(op) = <<2, -2>>
    BY <1>8, TraitsOf
  <2>3. Ready(s, 2) /\ h = n - 2
    BY <1>0, <2>2, FitsAs
  <2> HIDE DEF e, h, n
  <2> QED
    BY <2>1, <2>3, MstoreRuns DEF e, h, n
<1>9. CASE op \in DupOps
  <2> DEFINE k == op - OP.DUP1 + 1
  <2>1. e = dup(s, k)
    BY <1>9, GenericFamilies
  <2>2. StackTraits(op) = <<k, 1>>
    BY <1>9, TraitsOfFamilies
  <2>3. k \in Nat \ {0}
    BY <1>9 DEF DupOps, OP
  <2> HIDE DEF k
  <2>4. Ready(s, k) /\ h = n + 1 /\ n + 1 <= StackLimit
    BY <2>2, FitsAs
  <2>5. n < StackLimit
    BY <1>0, <2>4, LimitsFacts
  <2> HIDE DEF e, h
  <2> QED
    BY <2>1, <2>3, <2>4, <2>5, DupRuns DEF e, h
<1>10. CASE op \in SwapOps
  <2> DEFINE k == op - OP.SWAP1 + 1
  <2>1. e = swap(s, k)
    BY <1>10, GenericFamilies
  <2>3. k \in Nat \ {0} /\ k + 1 = op - OP.SWAP1 + 2
    BY <1>10 DEF SwapOps, OP
  <2>2. StackTraits(op) = <<k + 1, 0>>
    BY <1>10, <2>3, TraitsOfFamilies
  <2> HIDE DEF k
  <2>4. Ready(s, k + 1) /\ h = n
    BY <1>0, <2>2, FitsAs
  <2> HIDE DEF e, h, n
  <2> QED
    BY <2>1, <2>3, <2>4, SwapRuns DEF e, h, n
<1>11. CASE op \in LogOps
  <2> DEFINE k == op - OP.LOG0
  <2>1. e = log(s, k)
    BY <1>11, GenericFamilies
  <2>3. k \in Nat
    BY <1>11 DEF LogOps, OP
  <2>2. StackTraits(op) = <<k + 2, -(k + 2)>>
    BY <1>11, TraitsOfFamilies
  <2> HIDE DEF k
  <2>4. Ready(s, k + 2) /\ h = n - (k + 2)
    BY <1>0, <2>2, <2>3, FitsAs
  <2> HIDE DEF e, h, n
  <2> QED
    BY <2>1, <2>3, <2>4, LogRuns DEF e, h, n
<1> QED
  <2>1. op \in (OP.ADD..OP.SAR) \cup {OP.KECCAK256} \cup ContextOps
             \cup {OP.RETURNDATASIZE, OP.MSIZE, OP.BALANCE, OP.EXTCODESIZE,
                   OP.EXTCODEHASH, OP.CALLDATALOAD, OP.BLOCKHASH, OP.MLOAD,
                   OP.SLOAD, OP.CALLDATACOPY, OP.CODECOPY, OP.RETURNDATACOPY,
                   OP.EXTCODECOPY, OP.POP, OP.MSTORE, OP.MSTORE8}
             \cup DupOps \cup SwapOps \cup LogOps
    BY DEF GenericOps, KnownOps, OP
  <2> QED
    BY <2>1, <1>1, <1>2, <1>3, <1>4, <1>5, <1>6, <1>7, <1>8, <1>9, <1>10,
       <1>11

LEMMA CallOrCreateRuns ==
    ASSUME Context_, NEW op \in CallOps \cup CreateOps, NEW s, Fits(op, s)
    PROVE  /\ RequestOK(s, RequestOf(op, s), HeightAfter(op, s))
           /\ Runs(s, CallOrCreate(op, s), HeightAfter(op, s))
           /\ HeightAfter(op, s) \in Nat \ {0}
<1> DEFINE n == Len(s.stack)
           r == RequestOf(op, s)
           h == HeightAfter(op, s)
<1>0. Sound(s) /\ n \in Nat
  BY DEF Fits, Ready, Sound
<1>1. ASSUME NEW k \in Nat \ {0}, StackTraits(op) = <<k + 1, -k>>
      PROVE  Ready(s, k + 1) /\ h = n - k /\ h \in Nat \ {0}
  <2>1. Ready(s, k + 1) /\ h = n - k
    BY <1>0, <1>1, FitsAs
  <2>2. n >= k + 1
    BY <2>1 DEF Ready
  <2> HIDE DEF h, n
  <2> QED
    BY <1>0, <2>1, <2>2
<1> HIDE DEF h, n
<1>2. RequestOK(s, r, h) /\ h \in Nat \ {0}
  <2>1. CASE op \in CallOps
    <3>1. ASSUME NEW k \in {2, 3}, StackTraits(op) = <<k + 4, -(k + 3)>>
          PROVE  Ready(s, k + 4) /\ h = n - (k + 3) /\ h \in Nat \ {0}
      <4>1. k + 3 \in Nat \ {0} /\ (k + 3) + 1 = k + 4
        OBVIOUS
      <4> QED
        BY <1>1, <3>1, <4>1
    <3>2. ASSUME NEW k \in {2, 3}, NEW Kind \in {"CALL", "CALLCODE", "DELEGATECALL"},
                 NEW Static \in BOOLEAN, k = ValueItems(Kind, Static),
                 StackTraits(op) = <<k + 4, -(k + 3)>>,
                 r = call_request(s, Kind, Static)
          PROVE  RequestOK(s, r, h)
      BY <3>1, <3>2, CallRequestOK DEF n
    <3>3. CASE op = OP.CALL
      <4>1. r = call_request(s, "CALL", FALSE)
        BY <3>3 DEF RequestOf, OP
      <4>2. 3 = ValueItems("CALL", FALSE)
        BY DEF ValueItems
      <4>3. StackTraits(op) = <<3 + 4, -(3 + 3)>>
        BY <3>3, TraitsOfFamilies
      <4> QED
        BY <3>1, <3>2, <4>1, <4>2, <4>3
    <3>4. CASE op = OP.CALLCODE
      <4>1. r = call_request(s, "CALLCODE", FALSE)
        BY <3>4 DEF RequestOf, OP
      <4>2. 3 = ValueItems("CALLCODE", FALSE)
        BY DEF ValueItems
      <4>3. StackTraits(op) = <<3 + 4, -(3 + 3)>>
        BY <3>4, TraitsOfFamilies
      <4> QED
        BY <3>1, <3>2, <4>1, <4>2, <4>3
    <3>5. CASE op = OP.DELEGATECALL
      <4>1. r = call_request(s, "DELEGATECALL", FALSE)
        BY <3>5 DEF RequestOf, OP
      <4>2. 2 = ValueItems("DELEGATECALL", FALSE)
        BY DEF ValueItems
      <4>3. StackTraits(op) = <<2 + 4, -(2 + 3)>>
        BY <3>5, TraitsOfFamilies
      <4> QED
        BY <3>1, <3>2, <4>1, <4>2, <4>3
    <3>6. CASE op = OP.STATICCALL
      <4>1. r = call_request(s, "CALL", TRUE)
        BY <3>6 DEF RequestOf, OP
      <4>2. 2 = ValueItems("CALL", TRUE)
        BY DEF ValueItems
      <4>3. StackTraits(op) = <<2 + 4, -(2 + 3)>>
        BY <3>6, TraitsOfFamilies
      <4> QED
        BY <3>1, <3>2, <4>1, <4>2, <4>3
    <3> QED
      BY <2>1, <3>3, <3>4, <3>5, <3>6 DEF CallOps
  <2>2. CASE op \in CreateOps
    <3>1. ASSUME NEW k \in {0, 1}, StackTraits(op) = <<k + 3, -(k + 2)>>
          PROVE  Ready(s, k + 3) /\ h = n - (k + 2) /\ h \in Nat \ {0}
      <4>1. k + 2 \in Nat \ {0} /\ (k + 2) + 1 = k + 3
        OBVIOUS
      <4> QED
        BY <1>1, <3>1, <4>1
    <3>2. ASSUME NEW k \in {0, 1}, NEW Kind \in {"CREATE", "CREATE2"},
                 k = SaltItems(Kind), StackTraits(op) = <<k + 3, -(k + 2)>>,
                 r = create_request(s, Kind)
          PROVE  RequestOK(s, r, h)
      BY <3>1, <3>2, CreateRequestOK DEF n
    <3>3. CASE op = OP.CREATE
      <4>1. r = create_request(s, "CREATE") /\ 0 = SaltItems("CREATE")
        BY <3>3 DEF RequestOf, OP, SaltItems
      <4>2. StackTraits(op) = <<0 + 3, -(0 + 2)>>
        BY <3>3, TraitsOfFamilies
      <4> QED
        BY <3>1, <3>2, <4>1, <4>2
    <3>4. CASE op = OP.CREATE2
      <4>1. r = create_request(s, "CREATE2") /\ 1 = SaltItems("CREATE2")
        BY <3>4 DEF RequestOf, OP, SaltItems
      <4>2. StackTraits(op) = <<1 + 3, -(1 + 2)>>
        BY <3>4, TraitsOfFamilies
      <4> QED
        BY <3>1, <3>2, <4>1, <4>2
    <3> QED
      BY <2>2, <3>3, <3>4 DEF CreateOps
  <2> QED
    BY <2>1, <2>2
<1>3. Runs(s, CallOrCreate(op, s), h)
  BY <1>0, <1>2, AnsweredRuns DEF CallOrCreate
<1> QED
  BY <1>2, <1>3 DEF h


-----------------------------------------------------------------------------
(***************************************************************************)
(* Two states that differ only in the gas.  In the middle of a block       *)
(* Advanced has less of it than Baseline, by what it was charged ahead.    *)
(***************************************************************************)
Shaped(s) == s = [f \in Fields |-> s[f]] /\ s.gas_left \in Int

\* s with d more gas.
More(s, d) == [s EXCEPT !.gas_left = @ + d]

\* The outcomes of an instruction on a state and on the one with d more gas:
\* both succeed and differ as before, both fail, or the one with less gas fails
\* and the other is left with less than the difference.
Agree(t, r, d) ==
    \/ Succeeded(t) /\ r = More(t, d)
    \/ ~Succeeded(t) /\ ~Succeeded(r)
    \/ ~Succeeded(t) /\ r.gas_left < d

LEMMA MoreIs ==
    ASSUME NEW s, Shaped(s), NEW d \in Nat
    PROVE  LET r == More(s, d)
           IN  /\ Shaped(r) /\ r.gas_left = s.gas_left + d
               /\ r.stack = s.stack /\ r.memory = s.memory
               /\ r.return_data = s.return_data /\ r.status = s.status
               /\ r.output_offset = s.output_offset
               /\ r.output_size = s.output_size
               /\ r.host = s.host /\ r.fault = s.fault
               /\ Succeeded(r) <=> Succeeded(s)
BY DEF More, Shaped, Fields, Succeeded

LEMMA MoreOf ==
    ASSUME NEW s, Shaped(s), NEW d \in Nat, NEW r, Only(s, r, {"gas_left"}),
           r.gas_left = s.gas_left + d
    PROVE  r = More(s, d)
<1>1. /\ More(s, d) = [f \in Fields |-> More(s, d)[f]]
      /\ \A f \in Fields : More(s, d)[f] = IF f = "gas_left"
                                          THEN s.gas_left + d ELSE s[f]
  BY DEF More, Shaped, Fields
<1>2. \A f \in Fields : r[f] = IF f = "gas_left"
                               THEN s.gas_left + d ELSE s[f]
  BY DEF Only
<1> QED
  BY <1>1, <1>2 DEF Only

LEMMA MoreNothing ==
    ASSUME NEW s, Shaped(s)
    PROVE  More(s, 0) = s
BY DEF More, Shaped, Fields

\* A part of an instruction that does not look at the gas.
LEMMA MorePush ==
    ASSUME NEW s, Shaped(s), NEW d \in Nat, NEW x
    PROVE  Shaped(Push(s, x)) /\ Push(More(s, d), x) = More(Push(s, x), d)
BY DEF More, Shaped, Fields, Push

LEMMA MoreNeeds ==
    ASSUME NEW s, Shaped(s), NEW d \in Nat, NEW n
    PROVE  Shaped(Needs(s, n)) /\ Needs(More(s, d), n) = More(Needs(s, n), d)
BY DEF More, Shaped, Fields, Needs

LEMMA MoreItem ==
    ASSUME NEW s, Shaped(s), NEW d \in Nat, NEW n
    PROVE  Item(More(s, d), n) = Item(s, n)
BY DEF More, Shaped, Fields, Item

LEMMA MoreDrop ==
    ASSUME NEW s, Shaped(s), NEW d \in Nat, NEW n
    PROVE  Shaped(Drop(s, n)) /\ Drop(More(s, d), n) = More(Drop(s, n), d)
<1> DEFINE t == Needs(s, n)
<1>1. Shaped(t) /\ Needs(More(s, d), n) = More(t, d)
  BY MoreNeeds
<1> HIDE DEF t
<1>2. /\ Drop(s, n) = [t EXCEPT !.stack = SubSeq(@, 1, Len(@) - n)]
      /\ Drop(More(s, d), n)
           = [More(t, d) EXCEPT !.stack = SubSeq(@, 1, Len(@) - n)]
  BY <1>1 DEF Drop, t
<1> QED
  BY <1>1, <1>2 DEF More, Shaped, Fields

LEMMA MoreReplace ==
    ASSUME NEW s, Shaped(s), NEW d \in Nat, NEW n, NEW x
    PROVE  /\ Shaped(Replace(s, n, x))
           /\ Replace(More(s, d), n, x) = More(Replace(s, n, x), d)
BY MoreDrop, MorePush DEF Replace

LEMMA MoreTouch ==
    ASSUME NEW s, Shaped(s), NEW d \in Nat, NEW offset, NEW n
    PROVE  /\ Shaped(TouchMemory(s, offset, n))
           /\ TouchMemory(More(s, d), offset, n)
                = More(TouchMemory(s, offset, n), d)
BY DEF More, Shaped, Fields, TouchMemory

LEMMA MoreTouchReturned ==
    ASSUME NEW s, Shaped(s), NEW d \in Nat, NEW offset, NEW n
    PROVE  /\ Shaped(TouchReturnData(s, offset, n))
           /\ TouchReturnData(More(s, d), offset, n)
                = More(TouchReturnData(s, offset, n), d)
BY DEF More, Shaped, Fields, TouchReturnData

LEMMA MoreWrite ==
    ASSUME NEW s, Shaped(s), NEW d \in Nat, NEW offset, NEW bytes
    PROVE  /\ Shaped(WriteMemory(s, offset, bytes))
           /\ WriteMemory(More(s, d), offset, bytes)
                = More(WriteMemory(s, offset, bytes), d)
<1> DEFINE t == TouchMemory(s, offset, Len(bytes))
           written == offset + 1..offset + Len(bytes)
           Put(x) == [x EXCEPT
                        !.memory = [k \in 1..Len(@) |->
                                      IF k \in written
                                      THEN bytes[k - offset] ELSE @[k]]]
<1>1. Shaped(t) /\ TouchMemory(More(s, d), offset, Len(bytes)) = More(t, d)
  BY MoreTouch
<1> HIDE DEF t
<1>2. /\ WriteMemory(s, offset, bytes) = Put(t)
      /\ WriteMemory(More(s, d), offset, bytes) = Put(More(t, d))
  BY <1>1 DEF WriteMemory, t
<1>3. More(t, d).memory = t.memory
  BY <1>1, MoreIs
<1>4. PICK m : m = [k \in 1..Len(t.memory) |->
                      IF k \in written THEN bytes[k - offset] ELSE t.memory[k]]
  OBVIOUS
<1>5. /\ Put(t) = [t EXCEPT !.memory = m]
      /\ Put(More(t, d)) = [More(t, d) EXCEPT !.memory = m]
  BY <1>3, <1>4
<1> HIDE DEF Put, written
<1>6. /\ Shaped([t EXCEPT !.memory = m])
      /\ [More(t, d) EXCEPT !.memory = m] = More([t EXCEPT !.memory = m], d)
  BY <1>1 DEF More, Shaped, Fields
<1> QED
  BY <1>2, <1>5, <1>6

LEMMA MoreEffect ==
    ASSUME NEW s, Shaped(s), NEW d \in Nat, NEW e
    PROVE  Shaped(Effect(s, e)) /\ Effect(More(s, d), e) = More(Effect(s, e), d)
BY DEF More, Shaped, Fields, Effect

LEMMA MoreAccess ==
    ASSUME NEW s, Shaped(s), NEW d \in Nat, NEW x
    PROVE  /\ Shaped(access_account(s, x)) /\ Shaped(access_storage(s, x))
           /\ access_account(More(s, d), x) = More(access_account(s, x), d)
           /\ access_storage(More(s, d), x) = More(access_storage(s, x), d)
           /\ IsColdAccount(More(s, d), x) <=> IsColdAccount(s, x)
           /\ IsColdKey(More(s, d), x) <=> IsColdKey(s, x)
           /\ get_storage(More(s, d), x) = get_storage(s, x)
<1>1. Shaped(access_account(s, x)) /\ Shaped(access_storage(s, x))
  BY DEF Shaped, Fields, access_account, access_storage
<1>2. access_account(More(s, d), x) = More(access_account(s, x), d)
  BY DEF More, Shaped, Fields, access_account
<1>3. access_storage(More(s, d), x) = More(access_storage(s, x), d)
  BY DEF More, Shaped, Fields, access_storage
<1>4. More(s, d).host = s.host
  BY MoreIs
<1> QED
  BY <1>1, <1>2, <1>3, <1>4 DEF IsColdAccount, IsColdKey, get_storage

LEMMA MoreFail ==
    ASSUME NEW s, Shaped(s), NEW d \in Nat, NEW c, c # "SUCCESS"
    PROVE  Agree(Fail(s, c), Fail(More(s, d), c), d)
BY DEF Agree, Fail, Shaped, Fields, More, Succeeded

LEMMA AgreeSame ==
    ASSUME NEW t, Succeeded(t), NEW d
    PROVE  Agree(t, More(t, d), d)
BY DEF Agree

LEMMA ShapedCharge ==
    ASSUME NEW s, Shaped(s), NEW cost \in Int
    PROVE  LET t == Charge(s, cost)
           IN  /\ Shaped(t) /\ t.gas_left = s.gas_left - cost
               /\ Succeeded(t) => t.gas_left >= 0
               /\ t.memory = s.memory /\ t.stack = s.stack
<1> DEFINE c == [s EXCEPT !.gas_left = @ - cost]
<1>1. /\ Shaped(c) /\ c.gas_left = s.gas_left - cost
      /\ c.memory = s.memory /\ c.stack = s.stack
  BY DEF Shaped, Fields
<1>2. Charge(s, cost) = IF c.gas_left < 0 THEN Fail(c, "OUT_OF_GAS") ELSE c
  BY DEF Charge
<1> HIDE DEF c
<1>3. CASE c.gas_left < 0
  BY <1>1, <1>2, <1>3 DEF Fail, Shaped, Fields, Succeeded
<1>4. CASE ~(c.gas_left < 0)
  BY <1>1, <1>2, <1>4 DEF Shaped
<1> QED
  BY <1>3, <1>4

LEMMA AgreeCharge ==
    ASSUME NEW s, Shaped(s), Succeeded(s), NEW d \in Nat, NEW cost \in Int
    PROVE  Agree(Charge(s, cost), Charge(More(s, d), cost), d)
<1> DEFINE r == More(s, d)
           c == [s EXCEPT !.gas_left = @ - cost]
           e == [r EXCEPT !.gas_left = @ - cost]
<1>1. /\ Shaped(r) /\ r.gas_left = s.gas_left + d
  BY MoreIs
<1>2. /\ c.gas_left = s.gas_left - cost /\ Shaped(c) /\ Succeeded(c)
  BY DEF Shaped, Fields, Succeeded
<1>3. e = More(c, d)
  <2>0. \A f \in Fields \ {"gas_left"} : r[f] = s[f]
    BY DEF Shaped, Fields, More
  <2> HIDE DEF r
  <2>1. e.gas_left = r.gas_left - cost /\ Only(c, e, {"gas_left"})
    BY <1>1, <2>0 DEF Shaped, Fields, Only
  <2>2. e.gas_left = c.gas_left + d
    BY <1>1, <1>2, <2>1 DEF Shaped
  <2> QED
    BY <1>2, <2>1, <2>2, MoreOf
<1>4. Charge(s, cost) = IF c.gas_left < 0 THEN Fail(c, "OUT_OF_GAS") ELSE c
  BY DEF Charge
<1>5. Charge(r, cost) = IF e.gas_left < 0 THEN Fail(e, "OUT_OF_GAS") ELSE e
  BY DEF Charge
<1>6. s.gas_left \in Int
  BY DEF Shaped
<1> HIDE DEF c, e, r
<1>7. e.gas_left = c.gas_left + d /\ Shaped(e)
  BY <1>2, <1>3, MoreIs
<1>8. CASE c.gas_left < 0
  <2>1. ~Succeeded(Charge(s, cost))
    BY <1>2, <1>4, <1>8 DEF Fail, Succeeded, Shaped, Fields
  <2>2. Charge(r, cost).gas_left = e.gas_left
    BY <1>5, <1>7 DEF Fail, Shaped, Fields
  <2>3. e.gas_left < d
    BY <1>2, <1>6, <1>7, <1>8
  <2> QED
    BY <2>1, <2>2, <2>3 DEF Agree, r
<1>9. CASE ~(c.gas_left < 0)
  <2>1. Charge(s, cost) = c /\ Charge(r, cost) = e
    BY <1>2, <1>4, <1>5, <1>6, <1>7, <1>9
  <2> QED
    BY <1>2, <1>3, <2>1 DEF Agree, r
<1> QED
  BY <1>8, <1>9

\* The next part of an instruction, after one whose outcomes agree.
LEMMA AgreeThen ==
    ASSUME NEW t, NEW r, NEW d \in Nat, Agree(t, r, d), Shaped(t), Shaped(r),
           NEW t1, NEW r1, NEW t2, NEW r2,
           t2 = IF Succeeded(t) THEN t1 ELSE t,
           r2 = IF Succeeded(r) THEN r1 ELSE r,
           Shaped(r1), r1.gas_left <= r.gas_left,
           Succeeded(t) /\ Succeeded(r) /\ r = More(t, d) => Agree(t1, r1, d)
    PROVE  Agree(t2, r2, d)
<1>1. CASE Succeeded(t) /\ r = More(t, d)
  <2>1. Succeeded(r)
    BY <1>1, MoreIs
  <2> QED
    BY <1>1, <2>1
<1>2. CASE ~Succeeded(t) /\ ~Succeeded(r)
  BY <1>2
<1>3. CASE ~Succeeded(t) /\ r.gas_left < d
  <2>1. r2.gas_left <= r.gas_left
    BY DEF Shaped
  <2>2. r2.gas_left < d
    BY <1>3, <2>1 DEF Shaped
  <2> QED
    BY <1>3, <2>2 DEF Agree
<1> QED
  BY <1>1, <1>2, <1>3 DEF Agree

LEMMA AgreeGrow ==
    ASSUME NEW s, Shaped(s), Succeeded(s), NEW d \in Nat, NEW size \in Nat,
           Len(s.memory) \in Nat
    PROVE  /\ Agree(grow_memory(s, size), grow_memory(More(s, d), size), d)
           /\ Shaped(grow_memory(s, size))
<1> DEFINE words == num_words(size)
           cost == MemoryCost(words) - MemoryCost(Len(s.memory) \div WordSize)
           c == Charge(s, cost)
           e == Charge(More(s, d), cost)
           Grown(x) == [x EXCEPT !.memory =
                          [k \in 1..words * WordSize |->
                             IF k <= Len(@) THEN @[k] ELSE 0]]
<1>1. cost \in Int
  <2>1. words \in Nat /\ WordSize \in Nat \ {0}
    BY WordsFor, LimitsFacts
  <2>2. \A n \in Nat : MemoryCost(n) \in Int
    BY DEF MemoryCost
  <2>3. PICK n \in Nat : n = Len(s.memory)
    OBVIOUS
  <2>4. n \div WordSize \in Nat
    BY <2>1
  <2>5. MemoryCost(Len(s.memory) \div WordSize) \in Int
    BY <2>2, <2>3, <2>4
  <2>6. MemoryCost(words) \in Int
    BY <2>1, <2>2
  <2> QED
    BY <2>5, <2>6
<1>2. grow_memory(s, size) = IF Succeeded(c) THEN Grown(c) ELSE c
  BY DEF grow_memory, Then
<1>3. grow_memory(More(s, d), size) = IF Succeeded(e) THEN Grown(e) ELSE e
  <2>1. More(s, d).memory = s.memory
    BY MoreIs
  <2> QED
    BY <2>1 DEF grow_memory, Then
<1> HIDE DEF cost, words
<1>4. Agree(c, e, d) /\ Shaped(c) /\ Shaped(e)
  <2>1. Shaped(More(s, d))
    BY MoreIs
  <2> QED
    BY <1>1, <2>1, AgreeCharge, ShapedCharge
<1> HIDE DEF c, e
<1>5. \A x : Shaped(x) => Shaped(Grown(x)) /\ Grown(x).gas_left = x.gas_left
                            /\ Grown(x).status = x.status
  BY DEF Shaped, Fields
<1>6. Succeeded(c) /\ e = More(c, d) => Agree(Grown(c), Grown(e), d)
  <2> SUFFICES ASSUME Succeeded(c), e = More(c, d)
               PROVE  Agree(Grown(c), Grown(e), d)
    OBVIOUS
  <2>1. PICK m : m = [k \in 1..words * WordSize |->
                        IF k <= Len(c.memory) THEN c.memory[k] ELSE 0]
    OBVIOUS
  <2>2. e.memory = c.memory
    BY <1>4, MoreIs
  <2>3. Grown(c) = [c EXCEPT !.memory = m] /\ Grown(e) = [e EXCEPT !.memory = m]
    BY <2>1, <2>2
  <2>4. Grown(e) = More(Grown(c), d)
    BY <1>4, <2>3 DEF More, Shaped, Fields
  <2>5. Succeeded(Grown(c))
    BY <1>4, <1>5 DEF Succeeded
  <2> HIDE DEF Grown
  <2> QED
    BY <2>4, <2>5 DEF Agree
<1> HIDE DEF Grown
<1>7. Shaped(Grown(e)) /\ Grown(e).gas_left <= e.gas_left
  BY <1>4, <1>5 DEF Shaped
<1> QED
  BY <1>2, <1>3, <1>4, <1>5, <1>6, <1>7, AgreeThen

LEMMA AgreeCheckSmall ==
    ASSUME NEW s, Shaped(s), Succeeded(s), NEW d \in Nat, Len(s.memory) \in Nat,
           NEW offset \in Nat, NEW size \in Nat
    PROVE  LET t == check_memory_small(s, offset, size)
               r == check_memory_small(More(s, d), offset, size)
           IN  Agree(t, r, d) /\ Shaped(t) /\ Shaped(r)
<1> DEFINE t == check_memory_small(s, offset, size)
           m == More(s, d)
           r == check_memory_small(m, offset, size)
<1>1. Shaped(m) /\ m.memory = s.memory /\ Succeeded(m)
  BY MoreIs
<1>2. offset + size \in Nat
  OBVIOUS
<1>3. CASE offset > max_buffer_size
  <2>1. t = Fail(s, "OUT_OF_GAS") /\ r = Fail(m, "OUT_OF_GAS")
    BY <1>3 DEF check_memory_small
  <2>2. Shaped(Fail(s, "OUT_OF_GAS")) /\ Shaped(Fail(m, "OUT_OF_GAS"))
    BY <1>1 DEF Shaped, Fields, Fail
  <2> QED
    BY <2>1, <2>2, MoreFail
<1>4. CASE ~(offset > max_buffer_size) /\ offset + size > Len(s.memory)
  <2>1. t = grow_memory(s, offset + size) /\ r = grow_memory(m, offset + size)
    BY <1>1, <1>4 DEF check_memory_small
  <2>2. Agree(grow_memory(s, offset + size), grow_memory(m, offset + size), d)
    BY <1>2, AgreeGrow
  <2>3. Shaped(grow_memory(s, offset + size))
    BY <1>2, AgreeGrow
  <2>4. Shaped(grow_memory(m, offset + size))
    <3> HIDE DEF m
    <3>1. Len(m.memory) \in Nat /\ 0 \in Nat
      BY <1>1
    <3> QED
      BY <1>1, <1>2, <3>1, AgreeGrow
  <2> QED
    BY <2>1, <2>2, <2>3, <2>4
<1>5. CASE ~(offset > max_buffer_size) /\ ~(offset + size > Len(s.memory))
  <2>1. t = s /\ r = m
    BY <1>1, <1>5 DEF check_memory_small
  <2> QED
    BY <1>1, <2>1, AgreeSame
<1> QED
  BY <1>3, <1>4, <1>5

LEMMA AgreeCheck ==
    ASSUME NEW s, Shaped(s), Succeeded(s), NEW d \in Nat, Len(s.memory) \in Nat,
           NEW offset \in Nat, NEW size \in Nat
    PROVE  LET t == check_memory(s, offset, size)
               r == check_memory(More(s, d), offset, size)
           IN  Agree(t, r, d) /\ Shaped(t) /\ Shaped(r)
<1> DEFINE t == check_memory(s, offset, size)
           m == More(s, d)
           r == check_memory(m, offset, size)
<1>1. Shaped(m)
  BY MoreIs
<1>2. CASE size = 0
  <2>1. t = s /\ r = m
    BY <1>2 DEF check_memory
  <2> QED
    BY <1>1, <2>1, AgreeSame
<1>3. CASE size # 0 /\ size > max_buffer_size
  <2>1. t = Fail(s, "OUT_OF_GAS") /\ r = Fail(m, "OUT_OF_GAS")
    BY <1>3 DEF check_memory
  <2>2. Shaped(Fail(s, "OUT_OF_GAS")) /\ Shaped(Fail(m, "OUT_OF_GAS"))
    BY <1>1 DEF Shaped, Fields, Fail
  <2> QED
    BY <2>1, <2>2, MoreFail
<1>4. CASE size # 0 /\ ~(size > max_buffer_size)
  <2>1. /\ t = check_memory_small(s, offset, size)
        /\ r = check_memory_small(m, offset, size)
    BY <1>4 DEF check_memory
  <2> QED
    BY <2>1, AgreeCheckSmall
<1> QED
  BY <1>2, <1>3, <1>4

\* y is x but for the stack, the memory, the host and the faults.
Free(x, y) ==
    Shaped(y) /\ y.gas_left = x.gas_left /\ y.status = x.status

LEMMA AreFree ==
    ASSUME NEW s, Shaped(s), NEW n, NEW x, NEW y
    PROVE  /\ Free(s, Push(s, x)) /\ Free(s, Drop(s, n))
           /\ Free(s, Replace(s, n, x))
           /\ Free(s, TouchMemory(s, x, n)) /\ Free(s, WriteMemory(s, x, y))
           /\ Free(s, Effect(s, x))
           /\ Drop(s, n).memory = s.memory
<1>1. ASSUME NEW z, Shaped(z)
      PROVE  Free(z, Push(z, x))
  BY <1>1 DEF Free, Push, Shaped, Fields
<1>2. Free(s, Drop(s, n)) /\ Drop(s, n).memory = s.memory
  BY DEF Free, Drop, Needs, Shaped, Fields
<1>3. Free(s, Replace(s, n, x))
  <2> DEFINE z == Drop(s, n)
  <2>1. Free(s, z) /\ Replace(s, n, x) = Push(z, x)
    BY <1>2 DEF Replace
  <2> HIDE DEF z
  <2> QED
    BY <1>1, <2>1 DEF Free
<1>4. Free(s, TouchMemory(s, x, n))
  BY DEF Free, TouchMemory, Shaped, Fields
<1>5. Free(s, WriteMemory(s, x, y))
  <2> DEFINE z == TouchMemory(s, x, Len(y))
  <2>1. Free(s, z)
    BY DEF Free, TouchMemory, Shaped, Fields
  <2>2. PICK m : WriteMemory(s, x, y) = [z EXCEPT !.memory = m]
    BY DEF WriteMemory
  <2> HIDE DEF z
  <2> QED
    BY <2>1, <2>2 DEF Free, Shaped, Fields
<1>6. Free(s, Effect(s, x))
  BY DEF Free, Effect, Shaped, Fields
<1> QED
  BY <1>1, <1>2, <1>3, <1>4, <1>5, <1>6

\* The next part does not look at the gas.
LEMMA AgreeFree ==
    ASSUME NEW t, NEW r, NEW d \in Nat, Agree(t, r, d), Shaped(t), Shaped(r),
           NEW t1, NEW r1, NEW t2, NEW r2,
           t2 = IF Succeeded(t) THEN t1 ELSE t,
           r2 = IF Succeeded(r) THEN r1 ELSE r,
           Free(t, t1), Free(r, r1), r = More(t, d) => r1 = More(t1, d)
    PROVE  Agree(t2, r2, d) /\ Shaped(t2) /\ Shaped(r2)
<1>1. /\ Shaped(r1) /\ Shaped(t1) /\ r1.gas_left <= r.gas_left
      /\ Succeeded(t) => Succeeded(t1)
  BY DEF Free, Shaped, Succeeded
<1>2. Succeeded(t) /\ Succeeded(r) /\ r = More(t, d) => Agree(t1, r1, d)
  BY <1>1 DEF Agree
<1>3. Agree(t2, r2, d)
  BY <1>1, <1>2, AgreeThen
<1> QED
  BY <1>1, <1>3

\* The next part takes a cost.
LEMMA AgreePay ==
    ASSUME NEW t, NEW r, NEW d \in Nat, Agree(t, r, d), Shaped(t), Shaped(r),
           NEW cost \in Nat, NEW t2, NEW r2,
           t2 = IF Succeeded(t) THEN Charge(t, cost) ELSE t,
           r2 = IF Succeeded(r) THEN Charge(r, cost) ELSE r
    PROVE  Agree(t2, r2, d) /\ Shaped(t2) /\ Shaped(r2)
<1> DEFINE t1 == Charge(t, cost)
           r1 == Charge(r, cost)
<1>1. Shaped(t1) /\ Shaped(r1) /\ r1.gas_left = r.gas_left - cost
  BY ShapedCharge
<1>2. Succeeded(t) /\ r = More(t, d) => Agree(t1, r1, d)
  BY AgreeCharge
<1>3. r1.gas_left <= r.gas_left
  BY <1>1 DEF Shaped
<1> HIDE DEF t1, r1
<1>4. t2 = (IF Succeeded(t) THEN t1 ELSE t) /\ r2 = (IF Succeeded(r) THEN r1 ELSE r)
  BY DEF t1, r1
<1>5. Agree(t2, r2, d)
  BY <1>1, <1>2, <1>3, <1>4, AgreeThen
<1> QED
  BY <1>1, <1>4, <1>5

-----------------------------------------------------------------------------
(***************************************************************************)
(* The instructions on two such states.                                    *)
(***************************************************************************)
LEMMA ReadyShaped ==
    ASSUME NEW s, Ready(s, 0)
    PROVE  Shaped(s) /\ Succeeded(s) /\ Len(s.memory) \in Nat /\ Sound(s)
BY DEF Ready, Sound, Shaped

LEMMA ReplaceAgrees ==
    ASSUME NEW s, Shaped(s), Succeeded(s), NEW d \in Nat, NEW n, NEW x
    PROVE  /\ Agree(Replace(s, n, x), Replace(More(s, d), n, x), d)
           /\ Agree(Push(s, x), Push(More(s, d), x), d)
           /\ Agree(Drop(s, n), Drop(More(s, d), n), d)
<1>1. /\ Succeeded(Replace(s, n, x)) /\ Succeeded(Push(s, x))
      /\ Succeeded(Drop(s, n))
  BY AreFree DEF Free, Succeeded
<1> QED
  BY <1>1, MoreReplace, MorePush, MoreDrop DEF Agree

LEMMA ArithmeticAgrees ==
    ASSUME NEW s, Shaped(s), Succeeded(s), NEW d \in Nat, NEW op,
           op \in OP.ADD..OP.SAR /\ op # OP.EXP, op \notin {12, 13, 14, 15}
    PROVE  Agree(Arithmetic(op, s), Arithmetic(op, More(s, d)), d)
<1> DEFINE m == More(s, d)
           a == Item(s, 0)
           b == Item(s, 1)
           c == Item(s, 2)
<1>1. Item(m, 0) = a /\ Item(m, 1) = b /\ Item(m, 2) = c
  BY MoreItem
<1>2. \A n, x : Agree(Replace(s, n, x), Replace(m, n, x), d)
  BY ReplaceAgrees
<1> HIDE DEF m, a, b, c
<1>3. CASE op \in {OP.ISZERO, OP.NOT, OP.ADDMOD, OP.MULMOD}
  BY <1>1, <1>2, <1>3 DEF Arithmetic, Unary, Ternary, OP, a, b, c, m
<1>4. CASE op \in {OP.ADD, OP.MUL, OP.SUB, OP.DIV, OP.SDIV, OP.MOD, OP.SMOD,
                   OP.SIGNEXTEND}
  BY <1>1, <1>2, <1>4 DEF Arithmetic, Binary, OP, a, b, m
<1>5. CASE op \in {OP.LT, OP.GT, OP.SLT, OP.SGT, OP.EQ, OP.AND, OP.OR, OP.XOR}
  BY <1>1, <1>2, <1>5 DEF Arithmetic, Binary, OP, a, b, m
<1>6. CASE op \in {OP.BYTE, OP.SHL, OP.SHR, OP.SAR}
  BY <1>1, <1>2, <1>6 DEF Arithmetic, Binary, OP, a, b, m
<1> QED
  BY <1>3, <1>4, <1>5, <1>6 DEF OP

LEMMA ExpAgrees ==
    ASSUME NEW s, Ready(s, 0), NEW d \in Nat
    PROVE  Agree(exp(s), exp(More(s, d)), d)
<1> DEFINE m == More(s, d)
           e == Item(s, 1)
           cost == count_significant_bytes(e)
                     * (IF rev >= REV.SPURIOUS_DRAGON THEN 50 ELSE 10)
           p == Power(Item(s, 0), e)
           s0 == Drop(s, 1)
           m0 == Drop(m, 1)
           t == Charge(s0, cost)
           r == Charge(m0, cost)
<1>0. Shaped(s) /\ Succeeded(s)
  BY ReadyShaped
<1>1. Item(m, 0) = Item(s, 0) /\ Item(m, 1) = e
  BY <1>0, MoreItem
<1>2. cost \in Int
  <2> DEFINE bytes == count_significant_bytes(e)
  <2>1. bytes \in Nat
    <3>1. e \in Nat
      BY ReadyShaped, ItemIsWord
    <3> QED
      BY <3>1, SignificantBytes, WidthFacts
  <2> HIDE DEF bytes
  <2>2. bytes * 50 \in Int /\ bytes * 10 \in Int
    BY <2>1
  <2> QED
    BY <2>2 DEF bytes
<1>3. exp(s) = IF Succeeded(t) THEN Replace(t, 1, p) ELSE t
  BY DEF exp, Then
<1>4. exp(m) = IF Succeeded(r) THEN Replace(r, 1, p) ELSE r
  <2> HIDE DEF m
  <2> QED
    BY <1>1 DEF exp, Then
<1>5. Shaped(s0) /\ m0 = More(s0, d) /\ Succeeded(s0)
  BY <1>0, MoreDrop, AreFree DEF Free, Succeeded
<1> HIDE DEF cost, s0, m0, p
<1>6. Agree(t, r, d) /\ Shaped(t) /\ Shaped(r)
  BY <1>2, <1>5, AgreeCharge, ShapedCharge, MoreIs
<1> HIDE DEF t, r
<1>7. /\ Free(t, Replace(t, 1, p)) /\ Free(r, Replace(r, 1, p))
      /\ r = More(t, d) => Replace(r, 1, p) = More(Replace(t, 1, p), d)
  BY <1>6, AreFree, MoreReplace
<1> QED
  BY <1>3, <1>4, <1>6, <1>7, AgreeFree

\* The memory an instruction reads or writes has been paid for.
LEMMA PaidAgrees ==
    ASSUME NEW s, Shaped(s), Succeeded(s), NEW d \in Nat, Len(s.memory) \in Nat,
           NEW offset \in Nat, NEW size \in Nat, NEW cost \in Nat
    PROVE  LET c == check_memory(s, offset, size)
               e == check_memory(More(s, d), offset, size)
               t == IF Succeeded(c) THEN Charge(c, cost) ELSE c
               r == IF Succeeded(e) THEN Charge(e, cost) ELSE e
           IN  Agree(t, r, d) /\ Shaped(t) /\ Shaped(r)
<1> DEFINE c == check_memory(s, offset, size)
           e == check_memory(More(s, d), offset, size)
<1>1. Agree(c, e, d) /\ Shaped(c) /\ Shaped(e)
  BY AgreeCheck
<1> HIDE DEF c, e
<1>2. PICK t, r : /\ t = IF Succeeded(c) THEN Charge(c, cost) ELSE c
                  /\ r = IF Succeeded(e) THEN Charge(e, cost) ELSE e
  OBVIOUS
<1>3. Agree(t, r, d) /\ Shaped(t) /\ Shaped(r)
  BY <1>1, <1>2, AgreePay
<1> QED
  BY <1>2, <1>3 DEF c, e

LEMMA KeccakAgrees ==
    ASSUME NEW s, Ready(s, 0), NEW d \in Nat
    PROVE  Agree(keccak256(s), keccak256(More(s, d)), d)
<1> DEFINE m == More(s, d)
           index == Item(s, 0)
           size == Item(s, 1)
           cost == num_words(size) * 6
           s0 == Drop(s, 1)
           m0 == Drop(m, 1)
           c == check_memory(s0, index, size)
           e == check_memory(m0, index, size)
           t == IF Succeeded(c) THEN Charge(c, cost) ELSE c
           r == IF Succeeded(e) THEN Charge(e, cost) ELSE e
           Hashed(x) == Replace(TouchMemory(x, size_t(index), size), 1,
                                keccak(ReadMemory(x, size_t(index), size)))
<1>0. Shaped(s) /\ Succeeded(s) /\ Len(s.memory) \in Nat
  BY ReadyShaped
<1>1. Item(m, 0) = index /\ Item(m, 1) = size
  BY <1>0, MoreItem
<1>2. index \in Nat /\ size \in Nat
  BY ReadyShaped, ItemIsWord
<1>a. cost \in Nat
  BY <1>2, WordsCost
<1>3. keccak256(s) = IF Succeeded(t) THEN Hashed(t) ELSE t
  BY DEF keccak256, Then
<1>4. keccak256(m) = IF Succeeded(r) THEN Hashed(r) ELSE r
  <2> HIDE DEF m
  <2> QED
    BY <1>1 DEF keccak256, Then
<1>5. /\ Shaped(s0) /\ m0 = More(s0, d) /\ Succeeded(s0)
      /\ Len(s0.memory) \in Nat
  BY <1>0, MoreDrop, AreFree DEF Free, Succeeded
<1> HIDE DEF cost, s0, m0, index, size
<1>6. Agree(t, r, d) /\ Shaped(t) /\ Shaped(r)
  BY <1>2, <1>a, <1>5, PaidAgrees
<1> HIDE DEF t, r
<1>7. ASSUME NEW x, Shaped(x)
      PROVE  /\ Free(x, Hashed(x))
             /\ Hashed(More(x, d)) = More(Hashed(x), d)
  <2> DEFINE y == TouchMemory(x, size_t(index), size)
  <2>1. /\ Free(x, y)
        /\ TouchMemory(More(x, d), size_t(index), size) = More(y, d)
    BY <1>7, AreFree, MoreTouch
  <2>2. ReadMemory(More(x, d), size_t(index), size)
          = ReadMemory(x, size_t(index), size)
    BY <1>7, MoreIs DEF ReadMemory
  <2> HIDE DEF y
  <2>3. PICK h : h = keccak(ReadMemory(x, size_t(index), size))
    OBVIOUS
  <2>4. Hashed(x) = Replace(y, 1, h) /\ Hashed(More(x, d)) = Replace(More(y, d), 1, h)
    BY <2>1, <2>2, <2>3 DEF y
  <2>5. Shaped(y)
    BY <2>1 DEF Free
  <2>6. Free(y, Replace(y, 1, h)) /\ Replace(More(y, d), 1, h) = More(Replace(y, 1, h), d)
    BY <2>5, AreFree, MoreReplace
  <2> HIDE DEF Hashed
  <2> QED
    BY <2>1, <2>4, <2>6 DEF Free
<1> HIDE DEF Hashed
<1> QED
  BY <1>3, <1>4, <1>6, <1>7, AgreeFree

LEMMA ColdAgrees ==
    ASSUME NEW s, Shaped(s), Succeeded(s), NEW d \in Nat, NEW addr,
           NEW cost \in Nat
    PROVE  LET t == ChargeColdAccount(s, addr, cost)
               r == ChargeColdAccount(More(s, d), addr, cost)
           IN  Agree(t, r, d) /\ Shaped(t) /\ Shaped(r)
<1> DEFINE m == More(s, d)
           a == access_account(s, addr)
           b == access_account(m, addr)
<1>1. Shaped(m) /\ Succeeded(m)
  BY MoreIs
<1>2. /\ Shaped(a) /\ b = More(a, d)
      /\ IsColdAccount(m, addr) <=> IsColdAccount(s, addr)
  BY MoreAccess
<1>3. Succeeded(a) /\ Shaped(b)
  <2>1. Succeeded(a)
    BY DEF access_account, Succeeded, Shaped, Fields
  <2> QED
    BY <1>2, <2>1, MoreIs
<1>4. CASE rev < REV.BERLIN \/ ~IsColdAccount(s, addr)
  <2>1. /\ ChargeColdAccount(s, addr, cost) = s
        /\ ChargeColdAccount(m, addr, cost) = m
    BY <1>2, <1>4 DEF ChargeColdAccount
  <2> QED
    BY <1>1, <2>1, AgreeSame
<1>5. CASE ~(rev < REV.BERLIN) /\ IsColdAccount(s, addr)
  <2>1. /\ ChargeColdAccount(s, addr, cost) = Charge(a, cost)
        /\ ChargeColdAccount(m, addr, cost) = Charge(b, cost)
    BY <1>2, <1>5 DEF ChargeColdAccount
  <2> HIDE DEF a, b
  <2>2. Agree(Charge(a, cost), Charge(b, cost), d)
    BY <1>2, <1>3, AgreeCharge
  <2>3. Shaped(Charge(a, cost)) /\ Shaped(Charge(b, cost))
    BY <1>2, <1>3, ShapedCharge
  <2> QED
    BY <2>1, <2>2, <2>3
<1> QED
  BY <1>4, <1>5

LEMMA ColdCosts ==
    ASSUME NEW s, Shaped(s), NEW addr, NEW cost \in Nat
    PROVE  LET t == ChargeColdAccount(s, addr, cost)
           IN  Shaped(t) /\ t.gas_left <= s.gas_left
<1> DEFINE a == access_account(s, addr)
           t == ChargeColdAccount(s, addr, cost)
<1>1. Shaped(a) /\ a.gas_left = s.gas_left
  BY DEF access_account, Shaped, Fields
<1>2. t = s \/ t = Charge(a, cost)
  BY DEF ChargeColdAccount
<1> HIDE DEF a, t
<1>3. CASE t = s
  BY <1>3 DEF Shaped, t
<1>4. CASE t = Charge(a, cost)
  <2>1. Shaped(t) /\ t.gas_left = a.gas_left - cost
    BY <1>1, <1>4, ShapedCharge
  <2> QED
    BY <1>1, <2>1 DEF Shaped, t
<1> QED
  BY <1>2, <1>3, <1>4

LEMMA AccountAgrees ==
    ASSUME NEW s, Shaped(s), Succeeded(s), NEW d \in Nat, NEW x, NEW addr,
           NEW v, NEW w,
           LET t == ChargeColdAccount(s, addr,
                                      additional_cold_account_access_cost)
           IN  v = IF Succeeded(t) THEN Replace(t, 1, x) ELSE t,
           LET r == ChargeColdAccount(More(s, d), addr,
                                      additional_cold_account_access_cost)
           IN  w = IF Succeeded(r) THEN Replace(r, 1, x) ELSE r
    PROVE  Agree(v, w, d)
<1> DEFINE cost == additional_cold_account_access_cost
           t == ChargeColdAccount(s, addr, cost)
           r == ChargeColdAccount(More(s, d), addr, cost)
<1>1. Agree(t, r, d) /\ Shaped(t) /\ Shaped(r)
  BY AccessCosts, ColdAgrees
<1>2. /\ v = IF Succeeded(t) THEN Replace(t, 1, x) ELSE t
      /\ w = IF Succeeded(r) THEN Replace(r, 1, x) ELSE r
  OBVIOUS
<1> HIDE DEF t, r
<1>3. /\ Free(t, Replace(t, 1, x)) /\ Free(r, Replace(r, 1, x))
      /\ r = More(t, d) => Replace(r, 1, x) = More(Replace(t, 1, x), d)
  BY <1>1, AreFree, MoreReplace
<1> QED
  BY <1>1, <1>2, <1>3, AgreeFree

LEMMA ReadAccountAgrees ==
    ASSUME NEW s, Ready(s, 0), NEW d \in Nat
    PROVE  /\ Agree(balance(s), balance(More(s, d)), d)
           /\ Agree(extcodesize(s), extcodesize(More(s, d)), d)
           /\ Agree(extcodehash(s), extcodehash(More(s, d)), d)
<1> DEFINE m == More(s, d)
           addr == trunc_address(Item(s, 0))
           t == ChargeColdAccount(s, addr, additional_cold_account_access_cost)
           r == ChargeColdAccount(m, addr, additional_cold_account_access_cost)
<1>0. Shaped(s) /\ Succeeded(s)
  BY ReadyShaped
<1>1. trunc_address(Item(m, 0)) = addr
  BY <1>0, MoreItem
<1> HIDE DEF m, addr
<1>2. /\ balance(s) = IF Succeeded(t) THEN Replace(t, 1, get_balance(addr)) ELSE t
      /\ balance(m) = IF Succeeded(r) THEN Replace(r, 1, get_balance(addr)) ELSE r
  BY <1>1 DEF balance, ReadAccount, Then, addr
<1>3. /\ extcodesize(s) = IF Succeeded(t)
                          THEN Replace(t, 1, Len(get_code(addr))) ELSE t
      /\ extcodesize(m) = IF Succeeded(r)
                          THEN Replace(r, 1, Len(get_code(addr))) ELSE r
  BY <1>1 DEF extcodesize, ReadAccount, Then, addr
<1>4. /\ extcodehash(s) = IF Succeeded(t)
                          THEN Replace(t, 1, get_code_hash(addr)) ELSE t
      /\ extcodehash(m) = IF Succeeded(r)
                          THEN Replace(r, 1, get_code_hash(addr)) ELSE r
  BY <1>1 DEF extcodehash, ReadAccount, Then, addr
<1>5. Agree(balance(s), balance(m), d)
  BY <1>0, <1>2, AccountAgrees DEF m
<1>6. Agree(extcodesize(s), extcodesize(m), d)
  BY <1>0, <1>3, AccountAgrees DEF m
<1>7. Agree(extcodehash(s), extcodehash(m), d)
  BY <1>0, <1>4, AccountAgrees DEF m
<1> QED
  BY <1>5, <1>6, <1>7 DEF m

LEMMA LookupsAgree ==
    ASSUME NEW s, Ready(s, 0), NEW d \in Nat
    PROVE  /\ Agree(calldataload(s), calldataload(More(s, d)), d)
           /\ Agree(blockhash(s), blockhash(More(s, d)), d)
<1> DEFINE m == More(s, d)
           i == Item(s, 0)
<1>0. Shaped(s) /\ Succeeded(s)
  BY ReadyShaped
<1>1. Item(m, 0) = i
  BY <1>0, MoreItem
<1> HIDE DEF m, i
<1>2. PICK x : x = IF Len(msg.input) < i THEN 0
                   ELSE be_load(Padded(msg.input, i, WordSize))
  OBVIOUS
<1>3. calldataload(s) = Replace(s, 1, x) /\ calldataload(m) = Replace(m, 1, x)
  BY <1>1, <1>2 DEF calldataload, Unary, i
<1>4. PICK low : low = IF env.block_number < 256 THEN 0
                       ELSE env.block_number - 256
  OBVIOUS
<1>5. PICK y : y = IF i < env.block_number /\ i >= low
                   THEN get_block_hash(i) ELSE 0
  OBVIOUS
<1>6. blockhash(s) = Replace(s, 1, y) /\ blockhash(m) = Replace(m, 1, y)
  BY <1>1, <1>4, <1>5 DEF blockhash, Unary, i
<1> QED
  BY <1>0, <1>3, <1>6, ReplaceAgrees DEF m

LEMMA WriteAgrees ==
    ASSUME NEW t, NEW r, NEW d \in Nat, Agree(t, r, d), Shaped(t), Shaped(r),
           NEW offset, NEW bytes, NEW t2, NEW r2,
           t2 = IF Succeeded(t) THEN WriteMemory(t, offset, bytes) ELSE t,
           r2 = IF Succeeded(r) THEN WriteMemory(r, offset, bytes) ELSE r
    PROVE  Agree(t2, r2, d)
<1>1. /\ Free(t, WriteMemory(t, offset, bytes))
      /\ Free(r, WriteMemory(r, offset, bytes))
      /\ r = More(t, d) => WriteMemory(r, offset, bytes)
                             = More(WriteMemory(t, offset, bytes), d)
  BY AreFree, MoreWrite
<1> QED
  BY <1>1, AgreeFree

LEMMA CopyFromAgrees ==
    ASSUME NEW s, Ready(s, 0), NEW d \in Nat, NEW source
    PROVE  Agree(CopyFrom(s, source), CopyFrom(More(s, d), source), d)
<1> DEFINE m == More(s, d)
           a == Item(s, 0)
           b == Item(s, 1)
           size == Item(s, 2)
           cost == num_words(size) * 3
           src == IF Len(source) < b THEN Len(source) ELSE b
           s0 == Drop(s, 3)
           m0 == Drop(m, 3)
           c == check_memory(s0, a, size)
           e == check_memory(m0, a, size)
           t == IF Succeeded(c) THEN Charge(c, cost) ELSE c
           r == IF Succeeded(e) THEN Charge(e, cost) ELSE e
           p == Padded(source, src, size)
<1>0. Shaped(s) /\ Succeeded(s) /\ Len(s.memory) \in Nat
  BY ReadyShaped
<1>1. Item(m, 0) = a /\ Item(m, 1) = b /\ Item(m, 2) = size
  BY <1>0, MoreItem
<1>2. a \in Nat /\ size \in Nat
  BY ReadyShaped, ItemIsWord
<1>3. cost \in Nat
  BY <1>2, WordsCost
<1>4. CopyFrom(s, source) = IF Succeeded(t) THEN WriteMemory(t, size_t(a), p)
                            ELSE t
  BY DEF CopyFrom, Then
<1>5. CopyFrom(m, source) = IF Succeeded(r) THEN WriteMemory(r, size_t(a), p)
                            ELSE r
  <2> HIDE DEF m
  <2> QED
    BY <1>1 DEF CopyFrom, Then
<1>6. /\ Shaped(s0) /\ m0 = More(s0, d) /\ Succeeded(s0)
      /\ Len(s0.memory) \in Nat
  BY <1>0, MoreDrop, AreFree DEF Free, Succeeded
<1> HIDE DEF cost, s0, m0, a, size, p
<1>7. Agree(t, r, d) /\ Shaped(t) /\ Shaped(r)
  BY <1>2, <1>3, <1>6, PaidAgrees
<1> HIDE DEF t, r
<1> QED
  BY <1>4, <1>5, <1>7, WriteAgrees

LEMMA ExtcodecopyAgrees ==
    ASSUME NEW s, Ready(s, 0), NEW d \in Nat
    PROVE  Agree(extcodecopy(s), extcodecopy(More(s, d)), d)
<1> DEFINE m == More(s, d)
           addr == trunc_address(Item(s, 0))
           a == Item(s, 1)
           b == Item(s, 2)
           size == Item(s, 3)
           cost == num_words(size) * 3
           access == additional_cold_account_access_cost
           src == IF max_buffer_size < b THEN max_buffer_size ELSE b
           s0 == Drop(s, 4)
           m0 == Drop(m, 4)
           c == check_memory(s0, a, size)
           e == check_memory(m0, a, size)
           t == IF Succeeded(c) THEN Charge(c, cost) ELSE c
           r == IF Succeeded(e) THEN Charge(e, cost) ELSE e
           t1 == ChargeColdAccount(t, addr, access)
           r1 == ChargeColdAccount(r, addr, access)
           t2 == IF Succeeded(t) THEN t1 ELSE t
           r2 == IF Succeeded(r) THEN r1 ELSE r
           p == Padded(get_code(addr), src, size)
<1>0. Shaped(s) /\ Succeeded(s) /\ Len(s.memory) \in Nat
  BY ReadyShaped
<1>1. /\ trunc_address(Item(m, 0)) = addr /\ Item(m, 1) = a /\ Item(m, 2) = b
      /\ Item(m, 3) = size
  BY <1>0, MoreItem
<1>2. a \in Nat /\ size \in Nat
  BY ReadyShaped, ItemIsWord
<1>3. cost \in Nat
  BY <1>2, WordsCost
<1>4. extcodecopy(s) = IF Succeeded(t2) THEN WriteMemory(t2, size_t(a), p)
                       ELSE t2
  BY DEF extcodecopy, Then
<1>5. extcodecopy(m) = IF Succeeded(r2) THEN WriteMemory(r2, size_t(a), p)
                       ELSE r2
  <2> HIDE DEF m
  <2> QED
    BY <1>1 DEF extcodecopy, Then
<1>6. /\ Shaped(s0) /\ m0 = More(s0, d) /\ Succeeded(s0)
      /\ Len(s0.memory) \in Nat
  BY <1>0, MoreDrop, AreFree DEF Free, Succeeded
<1> HIDE DEF cost, s0, m0, a, size, p, addr
<1>7. Agree(t, r, d) /\ Shaped(t) /\ Shaped(r)
  BY <1>2, <1>3, <1>6, PaidAgrees
<1>8. access \in Nat
  BY AccessCosts
<1> HIDE DEF t, r, access
<1>9. /\ Shaped(t1) /\ Shaped(r1) /\ r1.gas_left <= r.gas_left
  BY <1>7, <1>8, ColdCosts
<1>10. Succeeded(t) /\ r = More(t, d) => Agree(t1, r1, d)
  BY <1>7, <1>8, ColdAgrees
<1> HIDE DEF t1, r1
<1>11. PICK t3, r3 : t3 = t2 /\ r3 = r2
  OBVIOUS
<1>12. Agree(t3, r3, d) /\ Shaped(t3) /\ Shaped(r3)
  BY <1>7, <1>9, <1>10, <1>11, AgreeThen
<1> HIDE DEF t2, r2
<1> QED
  BY <1>4, <1>5, <1>11, <1>12, WriteAgrees

LEMMA ReturndatacopyAgrees ==
    ASSUME NEW s, Ready(s, 0), NEW d \in Nat
    PROVE  Agree(returndatacopy(s), returndatacopy(More(s, d)), d)
<1> DEFINE m == More(s, d)
           a == Item(s, 0)
           b == Item(s, 1)
           size == Item(s, 2)
           cost == num_words(size) * 3
           i == size_t(b)
           bad == EndsPastReturnData(s, b, size)
           s0 == Drop(s, 3)
           m0 == Drop(m, 3)
           c == check_memory(s0, a, size)
           e == check_memory(m0, a, size)
           Rest(x) == IF Succeeded(Charge(x, cost))
                      THEN WriteMemory(
                             TouchReturnData(Charge(x, cost), i, size),
                             size_t(a),
                             Padded(Charge(x, cost).return_data, i, size))
                      ELSE Charge(x, cost)
           Copied(x) == IF bad THEN Fail(x, "INVALID_MEMORY_ACCESS") ELSE Rest(x)
<1>0. Shaped(s) /\ Succeeded(s) /\ Len(s.memory) \in Nat
  BY ReadyShaped
<1>1. /\ Item(m, 0) = a /\ Item(m, 1) = b /\ Item(m, 2) = size
      /\ EndsPastReturnData(m, b, size) = bad
  BY <1>0, MoreItem, MoreIs DEF EndsPastReturnData
<1>2. a \in Nat /\ size \in Nat
  BY ReadyShaped, ItemIsWord
<1>3. cost \in Nat
  BY <1>2, WordsCost
<1>4. returndatacopy(s) = IF Succeeded(c) THEN Copied(c) ELSE c
  BY DEF returndatacopy, Then
<1>5. returndatacopy(m) = IF Succeeded(e) THEN Copied(e) ELSE e
  <2> HIDE DEF m
  <2> QED
    BY <1>1 DEF returndatacopy, Then
<1>6. /\ Shaped(s0) /\ m0 = More(s0, d) /\ Succeeded(s0)
      /\ Len(s0.memory) \in Nat
  BY <1>0, MoreDrop, AreFree DEF Free, Succeeded
<1> HIDE DEF cost, s0, m0, a, size, i, b, bad
<1>7. Agree(c, e, d) /\ Shaped(c) /\ Shaped(e)
  BY <1>2, <1>6, AgreeCheck
<1> HIDE DEF c, e
<1>8. ASSUME NEW x, Shaped(x)
      PROVE  Shaped(Copied(x)) /\ Copied(x).gas_left <= x.gas_left
  <2> DEFINE y == Charge(x, cost)
             u == TouchReturnData(y, i, size)
             z == WriteMemory(u, size_t(a), Padded(y.return_data, i, size))
  <2>1. Shaped(y) /\ y.gas_left = x.gas_left - cost
    BY <1>3, <1>8, ShapedCharge
  <2> HIDE DEF y
  <2>a. Free(y, u)
    BY <2>1 DEF Free, TouchReturnData, Shaped, Fields
  <2>2. Free(y, z)
    <3> HIDE DEF u
    <3>1. Free(u, z)
      BY <2>a, AreFree DEF Free
    <3> QED
      BY <2>a, <3>1 DEF Free
  <2>3. Rest(x) = IF Succeeded(y) THEN z ELSE y
    BY DEF y
  <2> HIDE DEF z
  <2>4. Shaped(Rest(x)) /\ Rest(x).gas_left = x.gas_left - cost
    BY <2>1, <2>2, <2>3 DEF Free
  <2> HIDE DEF Rest
  <2>5. Rest(x).gas_left <= x.gas_left
    BY <1>3, <1>8, <2>4 DEF Shaped
  <2>6. LET f == Fail(x, "INVALID_MEMORY_ACCESS")
        IN  Shaped(f) /\ f.gas_left <= x.gas_left
    BY <1>8 DEF Shaped, Fields, Fail
  <2> QED
    BY <2>4, <2>5, <2>6
<1>9. ASSUME NEW x, Shaped(x), Succeeded(x)
      PROVE  Agree(Copied(x), Copied(More(x, d)), d)
  <2> DEFINE mx == More(x, d)
             y == Charge(x, cost)
             w == Charge(mx, cost)
             By(v) == Padded(v.return_data, i, size)
             yt == TouchReturnData(y, i, size)
             wt == TouchReturnData(w, i, size)
             z == WriteMemory(yt, size_t(a), By(y))
             q == WriteMemory(wt, size_t(a), By(w))
  <2>0. Shaped(mx)
    BY <1>9, MoreIs
  <2>1. Agree(y, w, d) /\ Shaped(y) /\ Shaped(w)
    BY <1>3, <1>9, <2>0, AgreeCharge, ShapedCharge
  <2>2. /\ Rest(x) = IF Succeeded(y) THEN z ELSE y
        /\ Rest(mx) = IF Succeeded(w) THEN q ELSE w
    OBVIOUS
  <2> HIDE DEF y, w
  <2>a. Free(y, yt) /\ Free(w, wt)
    BY <2>1 DEF Free, TouchReturnData, Shaped, Fields
  <2>b. w = More(y, d) => wt = More(yt, d)
    BY <2>1, MoreTouchReturned
  <2> HIDE DEF yt, wt
  <2>3. Free(y, z) /\ Free(w, q)
    <3>1. Free(yt, z) /\ Free(wt, q)
      BY <2>a, AreFree DEF Free
    <3> QED
      BY <2>a, <3>1 DEF Free
  <2>4. w = More(y, d) => q = More(z, d)
    <3> SUFFICES ASSUME w = More(y, d)
                 PROVE  q = More(z, d)
      OBVIOUS
    <3>1. w.return_data = y.return_data
      BY <2>1, MoreIs
    <3>2. PICK v : v = By(y) /\ v = By(w)
      BY <3>1
    <3>3. z = WriteMemory(yt, size_t(a), v) /\ q = WriteMemory(wt, size_t(a), v)
      BY <3>2
    <3> HIDE DEF z, q
    <3> QED
      BY <2>a, <2>b, <3>3, MoreWrite DEF Free
  <2> HIDE DEF z, q, mx, Rest
  <2>5. Agree(Rest(x), Rest(mx), d)
    BY <2>1, <2>2, <2>3, <2>4, AgreeFree
  <2>6. Agree(Fail(x, "INVALID_MEMORY_ACCESS"), Fail(mx, "INVALID_MEMORY_ACCESS"), d)
    BY <1>9, MoreFail DEF mx
  <2> QED
    BY <2>5, <2>6 DEF mx
<1> HIDE DEF Copied
<1>10. Shaped(Copied(e)) /\ Copied(e).gas_left <= e.gas_left
  BY <1>7, <1>8
<1>11. Succeeded(c) /\ e = More(c, d) => Agree(Copied(c), Copied(e), d)
  BY <1>7, <1>9
<1> QED
  BY <1>4, <1>5, <1>7, <1>10, <1>11, AgreeThen

LEMMA MloadAgrees ==
    ASSUME NEW s, Ready(s, 0), NEW d \in Nat
    PROVE  Agree(mload(s), mload(More(s, d)), d)
<1> DEFINE m == More(s, d)
           i == Item(s, 0)
           t == check_memory_small(s, i, WordSize)
           r == check_memory_small(m, i, WordSize)
           Loaded(x) == Replace(TouchMemory(x, i, WordSize), 1,
                                be_load(ReadMemory(x, i, WordSize)))
<1>0. Shaped(s) /\ Succeeded(s) /\ Len(s.memory) \in Nat /\ WordSize \in Nat
  BY ReadyShaped, LimitsFacts
<1>1. Item(m, 0) = i
  BY <1>0, MoreItem
<1>2. i \in Nat
  BY ReadyShaped, ItemIsWord
<1>3. mload(s) = IF Succeeded(t) THEN Loaded(t) ELSE t
  BY DEF mload, Then
<1>4. mload(m) = IF Succeeded(r) THEN Loaded(r) ELSE r
  <2> HIDE DEF m
  <2> QED
    BY <1>1 DEF mload, Then
<1> HIDE DEF i
<1>5. Agree(t, r, d) /\ Shaped(t) /\ Shaped(r)
  BY <1>0, <1>2, AgreeCheckSmall
<1> HIDE DEF t, r
<1>6. ASSUME NEW x, Shaped(x)
      PROVE  Free(x, Loaded(x)) /\ Loaded(More(x, d)) = More(Loaded(x), d)
  <2> DEFINE y == TouchMemory(x, i, WordSize)
  <2>1. Free(x, y) /\ TouchMemory(More(x, d), i, WordSize) = More(y, d)
    BY <1>6, AreFree, MoreTouch
  <2>2. ReadMemory(More(x, d), i, WordSize) = ReadMemory(x, i, WordSize)
    BY <1>6, MoreIs DEF ReadMemory
  <2> HIDE DEF y
  <2>3. PICK h : h = be_load(ReadMemory(x, i, WordSize))
    OBVIOUS
  <2>4. /\ Loaded(x) = Replace(y, 1, h)
        /\ Loaded(More(x, d)) = Replace(More(y, d), 1, h)
    BY <2>1, <2>2, <2>3 DEF y
  <2>5. Shaped(y)
    BY <2>1 DEF Free
  <2>6. /\ Free(y, Replace(y, 1, h))
        /\ Replace(More(y, d), 1, h) = More(Replace(y, 1, h), d)
    BY <2>5, AreFree, MoreReplace
  <2> HIDE DEF Loaded
  <2> QED
    BY <2>1, <2>4, <2>6 DEF Free
<1> HIDE DEF Loaded
<1> QED
  BY <1>3, <1>4, <1>5, <1>6, AgreeFree

LEMMA MemoryStoreAgrees ==
    ASSUME NEW s, Ready(s, 0), NEW d \in Nat, NEW size \in Nat, NEW bytes,
           NEW i \in Nat, NEW v, NEW w,
           LET t == check_memory_small(Drop(s, 2), i, size)
           IN  v = IF Succeeded(t) THEN WriteMemory(t, i, bytes) ELSE t,
           LET r == check_memory_small(Drop(More(s, d), 2), i, size)
           IN  w = IF Succeeded(r) THEN WriteMemory(r, i, bytes) ELSE r
    PROVE  Agree(v, w, d)
<1> DEFINE s0 == Drop(s, 2)
           m0 == Drop(More(s, d), 2)
           t == check_memory_small(s0, i, size)
           r == check_memory_small(m0, i, size)
<1>0. Shaped(s) /\ Succeeded(s) /\ Len(s.memory) \in Nat
  BY ReadyShaped
<1>1. /\ Shaped(s0) /\ m0 = More(s0, d) /\ Succeeded(s0)
      /\ Len(s0.memory) \in Nat
  BY <1>0, MoreDrop, AreFree DEF Free, Succeeded
<1>2. /\ v = IF Succeeded(t) THEN WriteMemory(t, i, bytes) ELSE t
      /\ w = IF Succeeded(r) THEN WriteMemory(r, i, bytes) ELSE r
  OBVIOUS
<1> HIDE DEF s0, m0
<1>3. Agree(t, r, d) /\ Shaped(t) /\ Shaped(r)
  BY <1>1, AgreeCheckSmall
<1> HIDE DEF t, r
<1> QED
  BY <1>2, <1>3, WriteAgrees

LEMMA MstoreAgrees ==
    ASSUME NEW s, Ready(s, 0), NEW d \in Nat
    PROVE  /\ Agree(mstore(s), mstore(More(s, d)), d)
           /\ Agree(mstore8(s), mstore8(More(s, d)), d)
<1> DEFINE m == More(s, d)
           i == Item(s, 0)
           x == Item(s, 1)
           t == check_memory_small(Drop(s, 2), i, WordSize)
           r == check_memory_small(Drop(m, 2), i, WordSize)
           c == check_memory_small(Drop(s, 2), i, 1)
           e == check_memory_small(Drop(m, 2), i, 1)
<1>0. Shaped(s) /\ WordSize \in Nat /\ i \in Nat
  BY ReadyShaped, LimitsFacts, ItemIsWord
<1>1. Item(m, 0) = i /\ Item(m, 1) = x
  BY <1>0, MoreItem
<1> HIDE DEF m, i, x
<1>2. /\ mstore(s) = IF Succeeded(t) THEN WriteMemory(t, i, be_store(x)) ELSE t
      /\ mstore(m) = IF Succeeded(r) THEN WriteMemory(r, i, be_store(x)) ELSE r
  BY <1>1 DEF mstore, Then, i, x
<1>3. /\ mstore8(s) = IF Succeeded(c) THEN WriteMemory(c, i, <<x % 256>>) ELSE c
      /\ mstore8(m) = IF Succeeded(e) THEN WriteMemory(e, i, <<x % 256>>) ELSE e
  BY <1>1 DEF mstore8, Then, i, x
<1>4. Agree(mstore(s), mstore(m), d)
  <2>1. PICK bytes : bytes = be_store(x)
    OBVIOUS
  <2>2. PICK v, w : v = mstore(s) /\ w = mstore(m)
    OBVIOUS
  <2>3. /\ v = IF Succeeded(t) THEN WriteMemory(t, i, bytes) ELSE t
        /\ w = IF Succeeded(r) THEN WriteMemory(r, i, bytes) ELSE r
    BY <1>2, <2>1, <2>2
  <2>4. Agree(v, w, d)
    BY <1>0, <2>3, MemoryStoreAgrees DEF m
  <2> QED
    BY <2>2, <2>4
<1>5. Agree(mstore8(s), mstore8(m), d)
  <2>1. PICK bytes : bytes = <<x % 256>>
    OBVIOUS
  <2>2. PICK v, w : v = mstore8(s) /\ w = mstore8(m)
    OBVIOUS
  <2>3. /\ v = IF Succeeded(c) THEN WriteMemory(c, i, bytes) ELSE c
        /\ w = IF Succeeded(e) THEN WriteMemory(e, i, bytes) ELSE e
    BY <1>3, <2>1, <2>2
  <2>4. 1 \in Nat
    OBVIOUS
  <2>5. Agree(v, w, d)
    BY <1>0, <2>3, <2>4, MemoryStoreAgrees DEF m
  <2> QED
    BY <2>2, <2>5
<1> QED
  BY <1>4, <1>5 DEF m

LEMMA SloadAgrees ==
    ASSUME NEW s, Ready(s, 0), NEW d \in Nat
    PROVE  Agree(sload(s), sload(More(s, d)), d)
<1> DEFINE m == More(s, d)
           key == Item(s, 0)
           cost == cold_sload_cost - warm_storage_read_cost
           a == access_storage(s, key)
           b == access_storage(m, key)
           cold == ~(rev < REV.BERLIN) /\ IsColdKey(s, key)
           t == IF cold THEN Charge(a, cost) ELSE s
           r == IF cold THEN Charge(b, cost) ELSE m
           Loaded(x) == Replace(x, 1, get_storage(x, key))
<1>0. Shaped(s) /\ Succeeded(s)
  BY ReadyShaped
<1>1. Item(m, 0) = key
  BY <1>0, MoreItem
<1>2. /\ Shaped(a) /\ b = More(a, d)
      /\ IsColdKey(m, key) <=> IsColdKey(s, key)
  BY <1>0, MoreAccess
<1>3. Succeeded(a)
  BY <1>0 DEF access_storage, Succeeded, Shaped, Fields
<1>4. sload(s) = IF Succeeded(t) THEN Loaded(t) ELSE t
  BY DEF sload, Then
<1>5. sload(m) = IF Succeeded(r) THEN Loaded(r) ELSE r
  <2> HIDE DEF m
  <2> QED
    BY <1>1, <1>2 DEF sload, Then
<1>6. Agree(t, r, d) /\ Shaped(t) /\ Shaped(r)
  <2>1. cost \in Int
    BY AccessCosts
  <2> HIDE DEF cost, a, b, cold
  <2>2. Shaped(m) /\ Shaped(b)
    BY <1>0, <1>2, MoreIs
  <2>3. CASE cold
    <3>1. Agree(Charge(a, cost), Charge(b, cost), d)
      BY <1>2, <1>3, <2>1, AgreeCharge
    <3>2. Shaped(Charge(a, cost)) /\ Shaped(Charge(b, cost))
      BY <1>2, <2>1, <2>2, ShapedCharge
    <3> QED
      BY <2>3, <3>1, <3>2
  <2>4. CASE ~cold
    BY <1>0, <2>2, <2>4, AgreeSame
  <2> QED
    BY <2>3, <2>4
<1> HIDE DEF t, r, key
<1>7. ASSUME NEW x, Shaped(x)
      PROVE  Free(x, Loaded(x)) /\ Loaded(More(x, d)) = More(Loaded(x), d)
  <2>1. PICK y : y = get_storage(x, key) /\ y = get_storage(More(x, d), key)
    BY <1>7, MoreAccess
  <2>2. Loaded(x) = Replace(x, 1, y) /\ Loaded(More(x, d)) = Replace(More(x, d), 1, y)
    BY <2>1
  <2> HIDE DEF Loaded
  <2> QED
    BY <1>7, <2>2, AreFree, MoreReplace
<1> HIDE DEF Loaded
<1> QED
  BY <1>4, <1>5, <1>6, <1>7, AgreeFree

LEMMA DupSwapAgree ==
    ASSUME NEW s, Shaped(s), Succeeded(s), NEW d \in Nat, NEW n
    PROVE  /\ Agree(dup(s, n), dup(More(s, d), n), d)
           /\ Agree(swap(s, n), swap(More(s, d), n), d)
<1> DEFINE m == More(s, d)
<1>1. Agree(dup(s, n), dup(m, n), d)
  <2> DEFINE t == Needs(s, n)
  <2>1. Shaped(t) /\ Needs(m, n) = More(t, d) /\ Item(m, n - 1) = Item(s, n - 1)
    BY MoreNeeds, MoreItem
  <2>2. Succeeded(t)
    BY DEF Needs, Shaped, Fields, Succeeded
  <2>3. PICK x : x = Item(s, n - 1)
    OBVIOUS
  <2>4. dup(s, n) = Push(t, x) /\ dup(m, n) = Push(More(t, d), x)
    BY <2>1, <2>3 DEF dup
  <2> HIDE DEF t
  <2> QED
    BY <2>1, <2>2, <2>4, ReplaceAgrees
<1>2. Agree(swap(s, n), swap(m, n), d)
  <2> DEFINE t == Needs(s, n + 1)
  <2>1. /\ Shaped(t) /\ Needs(m, n + 1) = More(t, d)
        /\ Item(m, n) = Item(s, n) /\ Item(m, 0) = Item(s, 0)
        /\ stack_size(m) = stack_size(s)
    BY MoreNeeds, MoreItem, MoreIs DEF stack_size
  <2>2. Succeeded(t)
    BY DEF Needs, Shaped, Fields, Succeeded
  <2> HIDE DEF m, t
  <2>3. PICK x, y, i, j : x = Item(s, n) /\ y = Item(s, 0) /\ i = stack_size(s)
                          /\ j = stack_size(s) - n
    OBVIOUS
  <2>4. /\ swap(s, n) = [t EXCEPT !.stack[i] = x, !.stack[j] = y]
        /\ swap(m, n) = [More(t, d) EXCEPT !.stack[i] = x, !.stack[j] = y]
    BY <2>1, <2>3 DEF swap, t
  <2>5. PICK st : st = [[t.stack EXCEPT ![i] = x] EXCEPT ![j] = y]
    OBVIOUS
  <2>6. swap(s, n) = [t EXCEPT !.stack = st]
    BY <2>1, <2>4, <2>5 DEF Shaped, Fields
  <2>7. swap(m, n) = [More(t, d) EXCEPT !.stack = st]
    <3>1. More(t, d).stack = t.stack /\ Shaped(More(t, d))
      BY <2>1, MoreIs
    <3> QED
      BY <2>4, <2>5, <3>1 DEF Shaped, Fields
  <2>8. swap(m, n) = More(swap(s, n), d) /\ Succeeded(swap(s, n))
    BY <2>1, <2>2, <2>6, <2>7 DEF More, Shaped, Fields, Succeeded
  <2> QED
    BY <2>8 DEF Agree
<1> QED
  BY <1>1, <1>2

LEMMA LogAgrees ==
    ASSUME NEW s, Ready(s, 0), NEW d \in Nat, NEW n
    PROVE  Agree(log(s, n), log(More(s, d), n), d)
<1> DEFINE m == More(s, d)
           a == Item(s, 0)
           size == Item(s, 1)
           cost == size * 8
           s0 == Drop(s, 2)
           m0 == Drop(m, 2)
           c == check_memory(s0, a, size)
           e == check_memory(m0, a, size)
           t == IF Succeeded(c) THEN Charge(c, cost) ELSE c
           r == IF Succeeded(e) THEN Charge(e, cost) ELSE e
           Entry_(x) == [kind |-> "log",
                         data |-> ReadMemory(x, size_t(a), size),
                         topics |-> [k \in 1..n |-> Item(x, k - 1)]]
           Logged(x) == Effect(Drop(TouchMemory(x, size_t(a), size), n),
                               Entry_(x))
<1>0. Shaped(s) /\ Succeeded(s) /\ Len(s.memory) \in Nat
  BY ReadyShaped
<1>1. Item(m, 0) = a /\ Item(m, 1) = size
  BY <1>0, MoreItem
<1>2. a \in Nat /\ size \in Nat
  BY ReadyShaped, ItemIsWord
<1>3. cost \in Nat
  BY <1>2
<1>4. EmitLog(s, n) = IF Succeeded(t) THEN Logged(t) ELSE t
  BY DEF EmitLog, Then
<1>5. EmitLog(m, n) = IF Succeeded(r) THEN Logged(r) ELSE r
  <2> HIDE DEF m
  <2> QED
    BY <1>1 DEF EmitLog, Then
<1>6. /\ Shaped(s0) /\ m0 = More(s0, d) /\ Succeeded(s0)
      /\ Len(s0.memory) \in Nat
  BY <1>0, MoreDrop, AreFree DEF Free, Succeeded
<1> HIDE DEF cost, s0, m0, a, size
<1>7. Agree(t, r, d) /\ Shaped(t) /\ Shaped(r)
  BY <1>2, <1>3, <1>6, PaidAgrees
<1> HIDE DEF t, r
<1>8. ASSUME NEW x, Shaped(x)
      PROVE  Free(x, Logged(x)) /\ Logged(More(x, d)) = More(Logged(x), d)
  <2> DEFINE y == TouchMemory(x, size_t(a), size)
             z == Drop(y, n)
  <2>1. Free(x, y) /\ TouchMemory(More(x, d), size_t(a), size) = More(y, d)
    BY <1>8, AreFree, MoreTouch
  <2>2. Entry_(More(x, d)) = Entry_(x)
    <3>1. /\ ReadMemory(More(x, d), size_t(a), size)
               = ReadMemory(x, size_t(a), size)
          /\ \A k : Item(More(x, d), k) = Item(x, k)
      BY <1>8, MoreIs, MoreItem DEF ReadMemory
    <3> QED
      BY <3>1
  <2> HIDE DEF y, Entry_
  <2>3. Free(y, z) /\ Drop(More(y, d), n) = More(z, d)
    BY <2>1, AreFree, MoreDrop DEF Free
  <2> HIDE DEF z
  <2>4. PICK ent : ent = Entry_(x)
    OBVIOUS
  <2>5. /\ Logged(x) = Effect(z, ent)
        /\ Logged(More(x, d)) = Effect(More(z, d), ent)
    BY <2>1, <2>2, <2>3, <2>4 DEF y, z
  <2>6. Free(z, Effect(z, ent)) /\ Effect(More(z, d), ent) = More(Effect(z, ent), d)
    BY <2>3, AreFree, MoreEffect DEF Free
  <2> HIDE DEF Logged
  <2> QED
    BY <2>1, <2>3, <2>5, <2>6 DEF Free
<1> HIDE DEF Logged
<1>9. Agree(EmitLog(s, n), EmitLog(m, n), d)
  BY <1>4, <1>5, <1>7, <1>8, AgreeFree
<1>10. CASE msg.static
  <2>1. /\ log(s, n) = Fail(s, "STATIC_MODE_VIOLATION")
        /\ log(m, n) = Fail(m, "STATIC_MODE_VIOLATION")
    BY <1>10 DEF log
  <2> QED
    BY <1>0, <2>1, MoreFail
<1>11. CASE ~msg.static
  BY <1>9, <1>11 DEF log
<1> QED
  BY <1>10, <1>11

\* The instructions with a function of their own.
LEMMA GenericSingles ==
    ASSUME NEW op, NEW s
    PROVE  /\ op = OP.EXP => Generic(op, s) = exp(s)
           /\ op = OP.KECCAK256 => Generic(op, s) = keccak256(s)
           /\ op = OP.BALANCE => Generic(op, s) = balance(s)
           /\ op = OP.CALLDATALOAD => Generic(op, s) = calldataload(s)
           /\ op = OP.CALLDATACOPY => Generic(op, s) = calldatacopy(s)
           /\ op = OP.CODECOPY => Generic(op, s) = codecopy(s)
           /\ op = OP.EXTCODESIZE => Generic(op, s) = extcodesize(s)
           /\ op = OP.EXTCODECOPY => Generic(op, s) = extcodecopy(s)
           /\ op = OP.RETURNDATASIZE => Generic(op, s) = Push(s, Len(s.return_data))
           /\ op = OP.RETURNDATACOPY => Generic(op, s) = returndatacopy(s)
           /\ op = OP.EXTCODEHASH => Generic(op, s) = extcodehash(s)
           /\ op = OP.BLOCKHASH => Generic(op, s) = blockhash(s)
           /\ op = OP.POP => Generic(op, s) = Drop(s, 1)
           /\ op = OP.MLOAD => Generic(op, s) = mload(s)
           /\ op = OP.MSTORE => Generic(op, s) = mstore(s)
           /\ op = OP.MSTORE8 => Generic(op, s) = mstore8(s)
           /\ op = OP.SLOAD => Generic(op, s) = sload(s)
           /\ op = OP.MSIZE => Generic(op, s) = Push(s, Len(s.memory))
<1>1. op = OP.EXP => Generic(op, s) = exp(s)
  BY DEF Generic, OP, ContextOps, TxContextOps, DupOps, SwapOps, LogOps
<1>2. op = OP.KECCAK256 => Generic(op, s) = keccak256(s)
  BY DEF Generic, OP, ContextOps, TxContextOps, DupOps, SwapOps, LogOps
<1>3. op = OP.BALANCE => Generic(op, s) = balance(s)
  BY DEF Generic, OP, ContextOps, TxContextOps, DupOps, SwapOps, LogOps
<1>4. op = OP.CALLDATALOAD => Generic(op, s) = calldataload(s)
  BY DEF Generic, OP, ContextOps, TxContextOps, DupOps, SwapOps, LogOps
<1>5. op = OP.CALLDATACOPY => Generic(op, s) = calldatacopy(s)
  BY DEF Generic, OP, ContextOps, TxContextOps, DupOps, SwapOps, LogOps
<1>6. op = OP.CODECOPY => Generic(op, s) = codecopy(s)
  BY DEF Generic, OP, ContextOps, TxContextOps, DupOps, SwapOps, LogOps
<1>7. op = OP.EXTCODESIZE => Generic(op, s) = extcodesize(s)
  BY DEF Generic, OP, ContextOps, TxContextOps, DupOps, SwapOps, LogOps
<1>8. op = OP.EXTCODECOPY => Generic(op, s) = extcodecopy(s)
  BY DEF Generic, OP, ContextOps, TxContextOps, DupOps, SwapOps, LogOps
<1>9. op = OP.RETURNDATASIZE => Generic(op, s) = Push(s, Len(s.return_data))
  BY DEF Generic, OP, ContextOps, TxContextOps, DupOps, SwapOps, LogOps
<1>10. op = OP.RETURNDATACOPY => Generic(op, s) = returndatacopy(s)
  BY DEF Generic, OP, ContextOps, TxContextOps, DupOps, SwapOps, LogOps
<1>11. op = OP.EXTCODEHASH => Generic(op, s) = extcodehash(s)
  BY DEF Generic, OP, ContextOps, TxContextOps, DupOps, SwapOps, LogOps
<1>12. op = OP.BLOCKHASH => Generic(op, s) = blockhash(s)
  BY DEF Generic, OP, ContextOps, TxContextOps, DupOps, SwapOps, LogOps
<1>13. op = OP.POP => Generic(op, s) = Drop(s, 1)
  BY DEF Generic, OP, ContextOps, TxContextOps, DupOps, SwapOps, LogOps
<1>14. op = OP.MLOAD => Generic(op, s) = mload(s)
  BY DEF Generic, OP, ContextOps, TxContextOps, DupOps, SwapOps, LogOps
<1>15. op = OP.MSTORE => Generic(op, s) = mstore(s)
  BY DEF Generic, OP, ContextOps, TxContextOps, DupOps, SwapOps, LogOps
<1>16. op = OP.MSTORE8 => Generic(op, s) = mstore8(s)
  BY DEF Generic, OP, ContextOps, TxContextOps, DupOps, SwapOps, LogOps
<1>17. op = OP.SLOAD => Generic(op, s) = sload(s)
  BY DEF Generic, OP, ContextOps, TxContextOps, DupOps, SwapOps, LogOps
<1>18. op = OP.MSIZE => Generic(op, s) = Push(s, Len(s.memory))
  BY DEF Generic, OP, ContextOps, TxContextOps, DupOps, SwapOps, LogOps
<1> QED
  BY <1>1, <1>2, <1>3, <1>4, <1>5, <1>6, <1>7, <1>8, <1>9,
     <1>10, <1>11, <1>12, <1>13, <1>14, <1>15, <1>16, <1>17, <1>18

\* Every generic instruction, on a state and on the one with d more gas.
LEMMA GenericAgrees ==
    ASSUME NEW op \in GenericOps, NEW s, Ready(s, 0), NEW d \in Nat
    PROVE  Agree(Generic(op, s), Generic(op, More(s, d)), d)
<1> DEFINE m == More(s, d)
<1>0. /\ Shaped(s) /\ Succeeded(s) /\ m.return_data = s.return_data
      /\ m.memory = s.memory
  BY ReadyShaped, MoreIs
<1>1. CASE op \in OP.ADD..OP.SAR /\ op # OP.EXP
  <2>1. op \notin {12, 13, 14, 15}
    BY DEF GenericOps, KnownOps, OP, ContextOps, TxContextOps,
           PushOps, DupOps, SwapOps, LogOps, CallOps, CreateOps
  <2> QED
    BY <1>0, <1>1, <2>1, GenericFamilies, ArithmeticAgrees
<1>2. CASE op \in ContextOps
  BY <1>0, <1>2, GenericFamilies, ReplaceAgrees
<1>3. CASE op \in DupOps
  BY <1>0, <1>3, GenericFamilies, DupSwapAgree
<1>4. CASE op \in SwapOps
  BY <1>0, <1>4, GenericFamilies, DupSwapAgree
<1>5. CASE op \in LogOps
  BY <1>5, GenericFamilies, LogAgrees
<1>6. CASE op \in {OP.EXP, OP.KECCAK256}
  BY <1>6, GenericSingles, ExpAgrees, KeccakAgrees
<1>7. CASE op \in {OP.BALANCE, OP.EXTCODESIZE, OP.EXTCODEHASH}
  BY <1>7, GenericSingles, ReadAccountAgrees
<1>8. CASE op \in {OP.CALLDATALOAD, OP.BLOCKHASH}
  BY <1>8, GenericSingles, LookupsAgree
<1>9. CASE op \in {OP.CALLDATACOPY, OP.CODECOPY}
  BY <1>9, GenericSingles, CopyFromAgrees DEF calldatacopy, codecopy
<1>10. CASE op \in {OP.EXTCODECOPY, OP.RETURNDATACOPY}
  BY <1>10, GenericSingles, ExtcodecopyAgrees, ReturndatacopyAgrees
<1>11. CASE op \in {OP.RETURNDATASIZE, OP.MSIZE}
  <2>1. \E x : Generic(op, s) = Push(s, x) /\ Generic(op, m) = Push(m, x)
    BY <1>0, <1>11, GenericSingles
  <2> QED
    BY <1>0, <2>1, ReplaceAgrees
<1>12. CASE op = OP.POP
  BY <1>0, <1>12, GenericSingles, ReplaceAgrees
<1>13. CASE op \in {OP.MLOAD, OP.MSTORE, OP.MSTORE8, OP.SLOAD}
  BY <1>13, GenericSingles, MloadAgrees, MstoreAgrees, SloadAgrees
<1> QED
  <2>1. op \in (OP.ADD..OP.SAR) \cup {OP.KECCAK256} \cup ContextOps
             \cup {OP.RETURNDATASIZE, OP.MSIZE, OP.BALANCE, OP.EXTCODESIZE,
                   OP.EXTCODEHASH, OP.CALLDATALOAD, OP.BLOCKHASH, OP.MLOAD,
                   OP.SLOAD, OP.CALLDATACOPY, OP.CODECOPY, OP.RETURNDATACOPY,
                   OP.EXTCODECOPY, OP.POP, OP.MSTORE, OP.MSTORE8}
             \cup DupOps \cup SwapOps \cup LogOps
    BY DEF GenericOps, KnownOps, OP
  <2> QED
    BY <2>1, <1>1, <1>2, <1>3, <1>4, <1>5, <1>6, <1>7, <1>8, <1>9, <1>10,
       <1>11, <1>12, <1>13
=============================================================================
