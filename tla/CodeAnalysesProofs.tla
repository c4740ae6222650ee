------------------------- MODULE CodeAnalysesProofs -------------------------
(***************************************************************************)
(* Proofs about the analyses: the summaries that the Advanced analysis     *)
(* saves of its blocks are exact, what its table says of the code, and     *)
(* that both analyses find the same jump destinations, for every code and  *)
(* revision.                                                               *)
(***************************************************************************)
EXTENDS CodeAnalyses, SequenceTheorems, FiniteSetTheorems,
        WellFoundedInduction, TLAPS

\* A set of numbers has a least element.
LEMMA LeastElement ==
    ASSUME NEW S \in SUBSET Nat, S # {}
    PROVE  \E x \in S : \A y \in S : x <= y
<1>1. PICK x \in S : \A y \in S : <<y, x>> \notin OpToRel(<, Nat)
  BY NatLessThanWellFounded, WFMin
<1>2. \A y \in S : ~(y < x)
  BY <1>1 DEF OpToRel
<1> QED
  BY <1>2

-----------------------------------------------------------------------------
(***************************************************************************)
(* The inductive invariant, as predicates of an instruction table t, its   *)
(* history h, the open block b and the position pos after the last         *)
(* instruction, so that it can be stated in the middle of an iteration.    *)
(***************************************************************************)
MembersOf(h, b) == {k \in 1..Len(h) : h[k].begin = b}

\* What an instruction needs of, grows and costs its block up to its end.
Need(o) == o.info.stack_req - o.change
Height(o) == o.change + o.info.stack_change
Cost(o) == o.gas + o.info.gas_cost

\* req, growth and gas are the exact summary of the block that b begins.
Summary(h, b, req, growth, gas) ==
    /\ \A k \in MembersOf(h, b) : /\ Need(h[k]) <= req
                                  /\ Height(h[k]) <= growth
                                  /\ Cost(h[k]) <= gas
    /\ req = 0 \/ \E k \in MembersOf(h, b) : Need(h[k]) = req
    /\ growth = 0 \/ \E k \in MembersOf(h, b) : Height(h[k]) = growth
    /\ \E k \in MembersOf(h, b) : Cost(h[k]) = gas

\* The summary of the block that b begins has been saved in the table.
Saved(t, h, b) ==
    \E req, growth, gas \in Nat :
        /\ Summary(h, b, req, growth, gas)
        /\ t[b].block = [gas_cost |-> clamp(BlockGasMax, gas),
                         stack_req |-> clamp(BlockStackMax, req),
                         stack_max_growth |-> clamp(BlockStackMax, growth)]
        /\ gas <= Len(code) * max_instruction_base_cost

Follows(o, n, k) ==
    /\ n.offset = o.next
    /\ \/ n.begin = k /\ n.gas = 0 /\ n.change = 0
       \/ n.begin = o.begin /\ n.gas = Cost(o) /\ n.change = Height(o)

Chain(h) == \A k \in 1..Len(h) - 1 : Follows(h[k], h[k + 1], k + 1)

OpenInv(t, h, b, pos) ==
    LET n == Len(h)
    IN  /\ n = Len(t) /\ n > 0
        /\ b.begin_block_index \in 1..n
        /\ h[b.begin_block_index].begin = b.begin_block_index
        /\ h[n].begin = b.begin_block_index
        /\ h[n].next = pos
        /\ h[n].info.stack_req + h[n].info.stack_change >= 0
        /\ \A k \in 1..n : h[k].begin \in 1..k
        /\ b.gas_cost = Cost(h[n])
        /\ b.stack_change = Height(h[n])
        /\ Chain(h)
        /\ Summary(h, b.begin_block_index, b.stack_req, b.stack_max_growth,
                   b.gas_cost)
        /\ \A c \in 1..n : c # b.begin_block_index /\ h[c].begin = c
                            => Saved(t, h, c)
        /\ b.gas_cost <= pos * max_instruction_base_cost

DoneInv(t, h) ==
    /\ Len(h) = Len(t) /\ Len(h) > 0
    /\ Chain(h)
    /\ \A c \in 1..Len(h) : h[c].begin = c => Saved(t, h, c)

\* The last instruction is the BEGINBLOCK of a block with nothing in it.
Fresh == /\ instrs[Len(instrs)].fn = OPX_BEGINBLOCK
         /\ block = block_analysis(Len(instrs))
         /\ at[Len(instrs)] = Origin(block, code_pos, code_pos, NoInfo)

JumpdestFirst ==
    (code_pos # Len(code) /\ code[code_pos + 1] = OP.JUMPDEST) => Fresh

-----------------------------------------------------------------------------

\* The opcodes the proofs tell apart.
LEMMA OpcodeFacts ==
    /\ OP.JUMPDEST = 91 /\ OP.STOP = 0 /\ OP.PUSH1 = 96 /\ OP.PUSH32 = 127
    /\ OP.GAS = 90 /\ OP.PC = 88
BY DEF OP

\* A PUSH has between 1 and 32 data bytes.
LEMMA PushFacts ==
    ASSUME NEW op \in PushOps
    PROVE  PushSize(op) \in 1..32
BY OpcodeFacts DEF PushOps, PushSize

\* The current opcode has an entry in the table.
LEMMA OpcodeInfo ==
    ASSUME code \in Codes, rev \in Revisions,
           code_pos \in 0..Len(code), code_pos # Len(code)
    PROVE  /\ Len(code) \in Nat
           /\ opcode \in Byte
           /\ opcode_info \in op_table_entry
           /\ opcode_info.stack_req + opcode_info.stack_change >= 0
<1>1. code \in Seq(Byte)
  BY CodesAssumption
<1>2. Len(code) \in Nat /\ code_pos + 1 \in 1..Len(code)
  BY <1>1
<1>3. opcode \in Byte
  BY <1>1, <1>2 DEF opcode
<1> QED
  BY <1>2, <1>3, OpTableAssumption DEF opcode_info

-----------------------------------------------------------------------------
\* One more instruction of cost c after a bytes still fits the bound of b > a.
LEMMA ProductStep ==
    ASSUME NEW a \in Nat, NEW b \in Nat, NEW c \in Nat, b > a
    PROVE  a * c + c <= b * c
<1>1. b = a + 1 + (b - a - 1) /\ (b - a - 1) \in Nat
  OBVIOUS
<1>2. b * c = (a + 1) * c + (b - a - 1) * c
  BY <1>1
<1>3. (b - a - 1) * c \in Nat
  BY <1>1
<1>4. (a + 1) * c = a * c + c
  OBVIOUS
<1> QED
  BY <1>2, <1>3, <1>4

\* The limits of block_info as numbers, from the assumptions on them.
LEMMA LimitFacts ==
    /\ BlockGasMax \in Nat /\ BlockStackMax \in Nat /\ max_code_size \in Nat
    /\ max_instruction_base_cost \in Nat
    /\ StackLimit \in Nat /\ StackLimit < BlockStackMax
BY LimitsAssumption, StackLimitAssumption

\* The numbers of a table entry, and of a place in the code.
LEMMA EntryNumbers ==
    ASSUME NEW info \in op_table_entry
    PROVE  /\ info.gas_cost \in Nat
           /\ info.gas_cost <= max_instruction_base_cost
           /\ info.stack_req \in Nat /\ info.stack_change \in Int
BY LimitFacts DEF op_table_entry

\* The stack an instruction needs and leaves and the cost up to it are numbers.
LEMMA OriginNumbers ==
    ASSUME NEW o \in OriginType
    PROVE  Need(o) \in Int /\ Height(o) \in Int /\ Cost(o) \in Nat
<1>1. o.info \in op_table_entry /\ o.gas \in Nat /\ o.change \in Int
  BY DEF OriginType
<1> QED
  BY <1>1, EntryNumbers DEF Need, Height, Cost

\* The block with one more instruction.
LEMMA AddToBlockType ==
    ASSUME NEW b \in BlockAnalysis, NEW info \in op_table_entry
    PROVE  AddToBlock(b, info) \in BlockAnalysis
BY EntryNumbers DEF AddToBlock, BlockAnalysis, Larger

\* What was saved of a block stays valid while its members stay the same.
LEMMA SavedKept ==
    ASSUME NEW t, NEW t2, NEW h, NEW h2, NEW c,
           Saved(t, h, c), t2[c].block = t[c].block,
           MembersOf(h2, c) = MembersOf(h, c),
           \A k \in MembersOf(h, c) : h2[k] = h[k]
    PROVE  Saved(t2, h2, c)
<1>1. PICK req \in Nat, growth \in Nat, gas \in Nat :
        /\ Summary(h, c, req, growth, gas)
        /\ t[c].block = [gas_cost |-> clamp(BlockGasMax, gas),
                         stack_req |-> clamp(BlockStackMax, req),
                         stack_max_growth |-> clamp(BlockStackMax, growth)]
        /\ gas <= Len(code) * max_instruction_base_cost
  BY DEF Saved
<1>2. Summary(h2, c, req, growth, gas)
  BY <1>1 DEF Summary
<1> QED
  BY <1>1, <1>2 DEF Saved

\* Emitting an instruction extends its block and leaves the others alone.
LEMMA EmitStep ==
    ASSUME NEW t \in Seq(Instruction), NEW h \in Seq(OriginType),
           NEW b \in BlockAnalysis, NEW pos \in Nat, NEW next \in Nat,
           NEW info \in op_table_entry, NEW i \in Instruction,
           next > pos \/ (next = pos /\ info.gas_cost = 0),
           info.stack_req + info.stack_change >= 0,
           OpenInv(t, h, b, pos)
    PROVE  OpenInv(Append(t, i), Append(h, Origin(b, pos, next, info)),
                   AddToBlock(b, info), next)
<1> DEFINE o == Origin(b, pos, next, info)
           h2 == Append(h, o)
           t2 == Append(t, i)
           b2 == AddToBlock(b, info)
           n == Len(h)
           B == b.begin_block_index
<1>1. /\ o \in OriginType /\ o.begin = B /\ o.offset = pos /\ o.next = next
      /\ o.info = info /\ o.gas = b.gas_cost /\ o.change = b.stack_change
  BY DEF Origin, OriginType, BlockAnalysis
<1>2. /\ n \in Nat /\ n = Len(t) /\ n > 0 /\ B \in 1..n
      /\ Len(h2) = n + 1 /\ Len(t2) = n + 1
      /\ \A k \in 1..n : h2[k] = h[k] /\ t2[k] = t[k]
      /\ h2[n + 1] = o
  BY <1>1 DEF OpenInv
<1>3. /\ MembersOf(h2, B) = MembersOf(h, B) \cup {n + 1}
      /\ \A c \in 1..n : c # B => MembersOf(h2, c) = MembersOf(h, c)
  BY <1>1, <1>2 DEF MembersOf
<1>4. /\ Cost(o) = b2.gas_cost /\ Height(o) = b2.stack_change
      /\ b2.begin_block_index = B
      /\ b2.stack_req = Larger(b.stack_req, Need(o))
      /\ b2.stack_max_growth = Larger(b.stack_max_growth, Height(o))
      /\ b2.gas_cost = b.gas_cost + info.gas_cost
  BY <1>1 DEF AddToBlock, Cost, Height, Need
<1>5. \A k \in 1..n : h[k] \in OriginType
  BY <1>2
<1> HIDE DEF o, h2, t2, b2, n, B
<1>6. Chain(h2)
  <2>1. Follows(h[n], o, n + 1)
    BY <1>1, <1>2 DEF Follows, OpenInv, n, B
  <2>2. \A k \in 1..n - 1 : Follows(h[k], h[k + 1], k + 1)
    BY DEF Chain, OpenInv, n
  <2>3. \A k \in 1..n : Follows(h2[k], h2[k + 1], k + 1)
    <3>1. TAKE k \in 1..n
    <3>2. CASE k = n
      BY <3>2, <2>1, <1>2
    <3>3. CASE k # n
      <4>1. k \in 1..n - 1 /\ k + 1 \in 1..n
        BY <3>3, <1>2
      <4> QED
        BY <4>1, <2>2, <1>2
    <3> QED
      BY <3>2, <3>3
  <2> QED
    BY <2>3, <1>2 DEF Chain
<1>7. Summary(h2, B, b2.stack_req, b2.stack_max_growth, b2.gas_cost)
  <2>1. /\ Need(o) \in Int /\ Height(o) \in Int /\ Cost(o) \in Nat
        /\ info.gas_cost \in Nat
        /\ b.stack_req \in Nat /\ b.stack_max_growth \in Nat
        /\ b.gas_cost \in Nat
    BY <1>1, OriginNumbers, EntryNumbers DEF BlockAnalysis
  <2>2. \A k \in 1..n : Need(h[k]) \in Int /\ Height(h[k]) \in Int
                        /\ Cost(h[k]) \in Nat
    BY <1>5, OriginNumbers
  <2>3. Summary(h, B, b.stack_req, b.stack_max_growth, b.gas_cost)
    BY DEF OpenInv, B
  <2>4. /\ \A k \in MembersOf(h, B) : k \in 1..n /\ h2[k] = h[k]
        /\ \A k \in MembersOf(h2, B) : k \in MembersOf(h, B) \/ k = n + 1
        /\ \A k \in MembersOf(h, B) : k \in MembersOf(h2, B)
        /\ n + 1 \in MembersOf(h2, B)
    BY <1>2, <1>3 DEF MembersOf, n
  <2>5. \A k \in MembersOf(h2, B) : /\ Need(h2[k]) <= b2.stack_req
                                    /\ Height(h2[k]) <= b2.stack_max_growth
                                    /\ Cost(h2[k]) <= b2.gas_cost
    <3>1. TAKE k \in MembersOf(h2, B)
    <3>2. CASE k = n + 1
      BY <3>2, <1>2, <1>4, <2>1 DEF Larger
    <3>3. CASE k \in MembersOf(h, B)
      <4>1. /\ Need(h[k]) <= b.stack_req /\ Height(h[k]) <= b.stack_max_growth
            /\ Cost(h[k]) <= b.gas_cost /\ h2[k] = h[k]
        BY <3>3, <2>3, <2>4 DEF Summary
      <4>2. Need(h[k]) \in Int /\ Height(h[k]) \in Int /\ Cost(h[k]) \in Nat
        BY <3>3, <2>2, <2>4
      <4>3. Need(h[k]) <= b2.stack_req
        BY <4>1, <4>2, <2>1, <1>4 DEF Larger
      <4>4. Height(h[k]) <= b2.stack_max_growth
        BY <4>1, <4>2, <2>1, <1>4 DEF Larger
      <4>5. Cost(h[k]) <= b2.gas_cost
        BY <4>1, <4>2, <2>1, <1>4
      <4> QED
        BY <4>1, <4>3, <4>4, <4>5
    <3> QED
      BY <3>2, <3>3, <2>4
  <2>6. /\ b2.stack_req = 0
           \/ \E k \in MembersOf(h2, B) : Need(h2[k]) = b2.stack_req
        /\ b2.stack_max_growth = 0
           \/ \E k \in MembersOf(h2, B) : Height(h2[k]) = b2.stack_max_growth
    <3>1. b2.stack_req \in {b.stack_req, Need(o)}
          /\ b2.stack_max_growth \in {b.stack_max_growth, Height(o)}
      BY <1>4 DEF Larger
    <3>2. /\ b.stack_req = 0
             \/ \E k \in MembersOf(h, B) : Need(h[k]) = b.stack_req
          /\ b.stack_max_growth = 0
             \/ \E k \in MembersOf(h, B) : Height(h[k]) = b.stack_max_growth
      BY <2>3 DEF Summary
    <3> QED
      BY <3>1, <3>2, <2>4, <1>2
  <2>7. \E k \in MembersOf(h2, B) : Cost(h2[k]) = b2.gas_cost
    BY <1>2, <1>3, <1>4
  <2> QED
    BY <2>5, <2>6, <2>7 DEF Summary
<1>8. ASSUME NEW c \in 1..n + 1, c # B, h2[c].begin = c
      PROVE  Saved(t2, h2, c)
  <2>1. c \in 1..n /\ h[c].begin = c
    BY <1>1, <1>2, <1>8
  <2>2. Saved(t, h, c)
    BY <2>1, <1>8 DEF OpenInv, n, B
  <2>3. MembersOf(h2, c) = MembersOf(h, c) /\ t2[c] = t[c]
    BY <2>1, <1>2, <1>3, <1>8
  <2>4. \A k \in MembersOf(h, c) : h2[k] = h[k]
    BY <1>2 DEF MembersOf, n
  <2> QED
    BY <2>2, <2>3, <2>4, SavedKept
<1>9. b2.gas_cost <= next * max_instruction_base_cost
  <2> DEFINE before == pos * max_instruction_base_cost
             after == next * max_instruction_base_cost
  <2>1. before \in Nat /\ after \in Nat /\ b.gas_cost \in Nat
    BY LimitFacts DEF BlockAnalysis
  <2>2. \/ before + max_instruction_base_cost <= after
        \/ before = after /\ info.gas_cost = 0
    <3>1. CASE next > pos
      BY <3>1, ProductStep, LimitFacts
    <3>2. CASE next = pos /\ info.gas_cost = 0
      BY <3>2
    <3> QED
      BY <3>1, <3>2
  <2>3. b.gas_cost <= before
    BY DEF OpenInv
  <2> HIDE DEF before, after
  <2>4. b2.gas_cost <= after
    BY <2>1, <2>2, <2>3, <1>4, EntryNumbers, LimitFacts
  <2> QED
    BY <2>4 DEF after
<1>10. OpenInv(t2, h2, b2, next)
  <2>1. Len(h2) = Len(t2) /\ Len(h2) > 0 /\ b2.begin_block_index \in 1..Len(h2)
    BY <1>2, <1>4
  <2>2. h2[Len(h2)] = o /\ o.begin = b2.begin_block_index /\ o.next = next
    BY <1>1, <1>2, <1>4
  <2>3. h2[b2.begin_block_index].begin = b2.begin_block_index
    BY <1>2, <1>4 DEF OpenInv, B
  <2>4. \A c \in 1..Len(h2) : c # b2.begin_block_index /\ h2[c].begin = c
                              => Saved(t2, h2, c)
    BY <1>2, <1>4, <1>8
  <2>5. \A k \in 1..Len(h2) : h2[k].begin \in 1..k
    BY <1>1, <1>2 DEF OpenInv, n, B
  <2> QED
    BY <2>1, <2>2, <2>3, <2>4, <2>5, <1>1, <1>4, <1>6, <1>7, <1>9 DEF OpenInv
<1> QED
  BY <1>10 DEF o, h2, t2, b2

\* Merging a JUMPDEST makes it the first instruction of the block just begun.
LEMMA MergeStep ==
    ASSUME NEW t \in Seq(Instruction), NEW h \in Seq(OriginType),
           NEW b \in BlockAnalysis, NEW pos \in Nat, NEW next \in Nat,
           NEW info \in op_table_entry,
           next > pos, info.stack_req + info.stack_change >= 0,
           OpenInv(t, h, b, pos),
           b = block_analysis(Len(t)),
           h[Len(t)] = Origin(b, pos, pos, NoInfo)
    PROVE  LET h2 == [h EXCEPT ![Len(t)].info = info, ![Len(t)].next = next]
           IN  h2 \in Seq(OriginType)
               /\ OpenInv(t, h2, AddToBlock(b, info), next)
<1> DEFINE n == Len(t)
           h2 == [h EXCEPT ![n].info = info, ![n].next = next]
           b2 == AddToBlock(b, info)
           o == [Origin(b, pos, pos, NoInfo) EXCEPT !.info = info,
                                                    !.next = next]
<1>1. n \in Nat /\ n > 0 /\ n = Len(h) /\ h[n] \in OriginType
  BY DEF OpenInv
<1>2. /\ o.begin = n /\ o.offset = pos /\ o.next = next /\ o.info = info
      /\ o.gas = 0 /\ o.change = 0
  BY DEF Origin, block_analysis
<1>3. o \in OriginType
  BY <1>1 DEF Origin, OriginType, block_analysis
<1>4. h2 = [h EXCEPT ![n] = o]
  BY <1>1
<1> HIDE DEF o, h2
<1>5. /\ h2 \in Seq(OriginType) /\ Len(h2) = n /\ h2[n] = o
      /\ \A k \in 1..n : k # n => h2[k] = h[k]
  BY <1>1, <1>3, <1>4
<1>6. /\ b2.gas_cost = info.gas_cost /\ b2.stack_change = info.stack_change
      /\ b2.stack_req = Larger(0, info.stack_req)
      /\ b2.stack_max_growth = Larger(0, info.stack_change)
      /\ b2.begin_block_index = n
  BY EntryNumbers DEF AddToBlock, block_analysis
<1>7. /\ Need(o) = info.stack_req /\ Height(o) = info.stack_change
      /\ Cost(o) = info.gas_cost
  BY <1>2, EntryNumbers DEF Need, Height, Cost
<1> HIDE DEF n, b2
<1>8. /\ \A k \in 1..n : h[k].begin \in 1..k
      /\ \A k \in 1..n : h2[k].begin \in 1..k
  BY <1>1, <1>2, <1>5 DEF OpenInv, n
<1>9. MembersOf(h2, n) = {n}
  BY <1>1, <1>2, <1>5, <1>8 DEF MembersOf
<1>10. Summary(h2, n, b2.stack_req, b2.stack_max_growth, b2.gas_cost)
  BY <1>5, <1>6, <1>7, <1>9, EntryNumbers DEF Summary, Larger
<1>11. Chain(h2)
  <2>1. \A k \in 1..n - 1 : Follows(h[k], h[k + 1], k + 1)
    BY <1>1 DEF Chain, OpenInv, n
  <2>2. h[n].offset = pos
    BY DEF Origin, n
  <2>3. \A k \in 1..n - 1 : Follows(h2[k], h2[k + 1], k + 1)
    <3>1. TAKE k \in 1..n - 1
    <3>2. CASE k + 1 = n
      <4>1. h2[k] = h[k] /\ h2[n] = o /\ h[k].next = pos
        BY <3>2, <2>1, <2>2, <1>1, <1>5 DEF Follows
      <4> QED
        BY <4>1, <3>2, <1>2 DEF Follows
    <3>3. CASE k + 1 # n
      <4>1. h2[k] = h[k] /\ h2[k + 1] = h[k + 1]
        BY <3>3, <1>1, <1>5
      <4> QED
        BY <4>1, <2>1
    <3> QED
      BY <3>2, <3>3
  <2> QED
    BY <2>3, <1>5 DEF Chain
<1>12. ASSUME NEW c \in 1..n, c # n, h2[c].begin = c
       PROVE  Saved(t, h2, c)
  <2>1. h[c].begin = c /\ b.begin_block_index = n
    BY <1>5, <1>12 DEF block_analysis, n
  <2>2. Saved(t, h, c)
    BY <2>1, <1>1, <1>12 DEF OpenInv
  <2>3. h[n].begin = n
    BY <2>1 DEF Origin, n
  <2>4. MembersOf(h2, c) = MembersOf(h, c)
    BY <2>3, <1>1, <1>2, <1>5, <1>12 DEF MembersOf
  <2>5. \A k \in MembersOf(h, c) : h2[k] = h[k]
    BY <2>3, <1>1, <1>5, <1>12 DEF MembersOf
  <2> QED
    BY <2>2, <2>4, <2>5, SavedKept
<1>13. b2.gas_cost <= next * max_instruction_base_cost
  <2> DEFINE before == pos * max_instruction_base_cost
             after == next * max_instruction_base_cost
  <2>1. before \in Nat /\ after \in Nat
    BY LimitFacts
  <2>2. before + max_instruction_base_cost <= after
    BY ProductStep, LimitFacts
  <2> HIDE DEF before, after
  <2>3. b2.gas_cost <= after
    BY <2>1, <2>2, <1>6, EntryNumbers, LimitFacts
  <2> QED
    BY <2>3 DEF after
<1>14. OpenInv(t, h2, b2, next)
  <2>1. Len(h2) = Len(t) /\ Len(h2) > 0 /\ b2.begin_block_index \in 1..Len(h2)
    BY <1>1, <1>5, <1>6 DEF n
  <2>2. h2[Len(h2)] = o /\ o.begin = b2.begin_block_index
    BY <1>2, <1>5, <1>6
  <2> QED
    BY <2>1, <2>2, <1>2, <1>5, <1>6, <1>7, <1>8, <1>10, <1>11, <1>12, <1>13
    DEF OpenInv
<1> QED
  BY <1>5, <1>14 DEF h2, n, b2

\* The table with the summary of the open block saved.
SaveBlock(t, b) == [t EXCEPT ![b.begin_block_index].block = close(b)]

\* close() gives a summary that fits block_info.
LEMMA CloseType ==
    ASSUME NEW b \in BlockAnalysis
    PROVE  close(b) \in block_info
BY LimitFacts DEF close, clamp, BlockAnalysis, block_info

\* Saving a summary changes the block argument of one instruction only.
LEMMA SaveBlockTable ==
    ASSUME NEW t \in Seq(Instruction), NEW b \in BlockAnalysis,
           b.begin_block_index \in 1..Len(t)
    PROVE  /\ SaveBlock(t, b) \in Seq(Instruction)
           /\ Len(SaveBlock(t, b)) = Len(t)
           /\ SaveBlock(t, b)[b.begin_block_index].block = close(b)
           /\ \A c \in 1..Len(t) : c # b.begin_block_index
                                    => SaveBlock(t, b)[c] = t[c]
           /\ \A c \in 1..Len(t) : SaveBlock(t, b)[c].fn = t[c].fn
<1> DEFINE B == b.begin_block_index
           i == [t[B] EXCEPT !.block = close(b)]
<1>1. t[B] \in Instruction
  OBVIOUS
<1>2. i \in Instruction /\ i.block = close(b) /\ i.fn = t[B].fn
  BY <1>1, CloseType DEF Instruction
<1>3. SaveBlock(t, b) = [t EXCEPT ![B] = i]
  BY DEF SaveBlock
<1> HIDE DEF i
<1> QED
  BY <1>2, <1>3

\* Once the open block is saved, all blocks are.
LEMMA AllSaved ==
    ASSUME NEW t \in Seq(Instruction), NEW h \in Seq(OriginType),
           NEW b \in BlockAnalysis, NEW pos \in Nat,
           OpenInv(t, h, b, pos), Len(code) \in Nat, pos <= Len(code),
           NEW c \in 1..Len(h), h[c].begin = c
    PROVE  Saved(SaveBlock(t, b), h, c)
<1> DEFINE B == b.begin_block_index
<1>1. B \in 1..Len(t) /\ Len(h) = Len(t) /\ Len(t) \in Nat
  BY DEF OpenInv
<1>2. CASE c = B
  <2>1. /\ b.stack_req \in Nat /\ b.stack_max_growth \in Nat
        /\ b.gas_cost \in Nat
    BY DEF BlockAnalysis
  <2>2. Summary(h, c, b.stack_req, b.stack_max_growth, b.gas_cost)
    BY <1>2 DEF OpenInv
  <2>3. SaveBlock(t, b)[c].block = close(b)
    BY <1>1, <1>2, SaveBlockTable
  <2>4. b.gas_cost <= Len(code) * max_instruction_base_cost
    <3> DEFINE before == pos * max_instruction_base_cost
               after == Len(code) * max_instruction_base_cost
    <3>1. before \in Nat /\ after \in Nat
      BY LimitFacts
    <3>2. before <= after
      <4>1. CASE pos = Len(code)
        BY <4>1, <3>1
      <4>2. CASE pos # Len(code)
        <5>1. before + max_instruction_base_cost <= after
          BY <4>2, ProductStep, LimitFacts
        <5> HIDE DEF before, after
        <5> QED
          BY <5>1, <3>1, LimitFacts
      <4> QED
        BY <4>1, <4>2
    <3>3. b.gas_cost <= before
      BY DEF OpenInv
    <3> HIDE DEF before, after
    <3>4. b.gas_cost <= after
      BY <3>1, <3>2, <3>3, <2>1
    <3> QED
      BY <3>4 DEF after
  <2> QED
    BY <2>1, <2>2, <2>3, <2>4 DEF Saved, close
<1>3. CASE c # B
  <2>1. Saved(t, h, c)
    BY <1>3 DEF OpenInv
  <2>2. SaveBlock(t, b)[c].block = t[c].block
    BY <1>1, <1>3, SaveBlockTable
  <2> QED
    BY <2>1, <2>2, SavedKept
<1> QED
  BY <1>2, <1>3

\* Saving the open block and beginning another one.
LEMMA NewBlockStep ==
    ASSUME NEW t \in Seq(Instruction), NEW h \in Seq(OriginType),
           NEW b \in BlockAnalysis, NEW pos \in Nat, NEW i \in Instruction,
           NEW o, o = Origin(block_analysis(Len(t) + 1), pos, pos, NoInfo),
           OpenInv(t, h, b, pos), Len(code) \in Nat, pos <= Len(code)
    PROVE  OpenInv(Append(SaveBlock(t, b), i), Append(h, o),
                   block_analysis(Len(t) + 1), pos)
<1> DEFINE n == Len(t)
           t2 == Append(SaveBlock(t, b), i)
           h2 == Append(h, o)
           b2 == block_analysis(n + 1)
<1>1. n \in Nat /\ n > 0 /\ Len(h) = n /\ b.begin_block_index \in 1..n
  BY DEF OpenInv
<1>2. /\ o.begin = n + 1 /\ o.offset = pos /\ o.next = pos
      /\ o.info.stack_req = 0 /\ o.info.stack_change = 0
      /\ Need(o) = 0 /\ Height(o) = 0 /\ Cost(o) = 0
      /\ o.gas = 0 /\ o.change = 0
  BY DEF Origin, block_analysis, NoInfo, Need, Height, Cost
<1>3. /\ SaveBlock(t, b) \in Seq(Instruction) /\ Len(SaveBlock(t, b)) = n
  BY <1>1, SaveBlockTable
<1>4. /\ Len(h2) = n + 1 /\ Len(t2) = n + 1 /\ h2[n + 1] = o
      /\ \A k \in 1..n : h2[k] = h[k] /\ t2[k] = SaveBlock(t, b)[k]
  BY <1>1, <1>3
<1>5. /\ b2.begin_block_index = n + 1 /\ b2.stack_req = 0
      /\ b2.stack_max_growth = 0 /\ b2.gas_cost = 0 /\ b2.stack_change = 0
  BY DEF block_analysis
<1> HIDE DEF n, t2, h2, b2
<1>6. /\ \A k \in 1..n : h[k].begin \in 1..k
      /\ \A k \in 1..n + 1 : h2[k].begin \in 1..k
  BY <1>1, <1>2, <1>4 DEF OpenInv
<1>7. /\ MembersOf(h2, n + 1) = {n + 1}
      /\ \A c \in 1..n : MembersOf(h2, c) = MembersOf(h, c)
  BY <1>1, <1>2, <1>4, <1>6 DEF MembersOf
<1>8. Summary(h2, n + 1, 0, 0, 0)
  BY <1>2, <1>4, <1>7 DEF Summary
<1>9. Chain(h2)
  <2>1. Follows(h[n], o, n + 1)
    BY <1>1, <1>2 DEF Follows, OpenInv
  <2>2. \A k \in 1..n - 1 : Follows(h[k], h[k + 1], k + 1)
    BY <1>1 DEF Chain, OpenInv
  <2>3. \A k \in 1..n : Follows(h2[k], h2[k + 1], k + 1)
    <3>1. TAKE k \in 1..n
    <3>2. CASE k = n
      BY <3>2, <2>1, <1>1, <1>4
    <3>3. CASE k # n
      <4>1. k \in 1..n - 1 /\ k + 1 \in 1..n
        BY <3>3, <1>1
      <4> QED
        BY <4>1, <2>2, <1>4
    <3> QED
      BY <3>2, <3>3
  <2> QED
    BY <2>3, <1>1, <1>4 DEF Chain
<1>10. ASSUME NEW c \in 1..n, h2[c].begin = c
       PROVE  Saved(t2, h2, c)
  <2>1. Saved(SaveBlock(t, b), h, c)
    BY <1>1, <1>4, <1>10, AllSaved
  <2>2. \A k \in MembersOf(h, c) : h2[k] = h[k]
    BY <1>1, <1>4 DEF MembersOf
  <2> QED
    BY <2>1, <2>2, <1>4, <1>7, SavedKept
<1>11. 0 <= pos * max_instruction_base_cost
  BY LimitFacts
<1>12. \A c \in 1..n + 1 : c # n + 1 /\ h2[c].begin = c => Saved(t2, h2, c)
  BY <1>1, <1>10
<1>13. OpenInv(t2, h2, b2, pos)
  <2>1. Len(h2) = Len(t2) /\ Len(h2) > 0 /\ b2.begin_block_index = Len(h2)
        /\ Len(h2) \in 1..Len(h2)
    BY <1>1, <1>4, <1>5
  <2>2. h2[Len(h2)] = o /\ o.begin = b2.begin_block_index
    BY <1>2, <1>4, <1>5
  <2>3. /\ \A k \in 1..Len(h2) : h2[k].begin \in 1..k
        /\ \A c \in 1..Len(h2) : c # b2.begin_block_index /\ h2[c].begin = c
                                 => Saved(t2, h2, c)
    BY <1>4, <1>5, <1>6, <1>12
  <2>4. /\ Summary(h2, b2.begin_block_index, b2.stack_req,
                   b2.stack_max_growth, b2.gas_cost)
        /\ b2.gas_cost <= pos * max_instruction_base_cost
    BY <1>5, <1>8, <1>11
  <2>5. /\ o.next = pos /\ o.info.stack_req + o.info.stack_change >= 0
        /\ b2.gas_cost = Cost(o) /\ b2.stack_change = Height(o)
    BY <1>2, <1>5
  <2> QED
    BY <2>1, <2>2, <2>3, <2>4, <2>5, <1>9 DEF OpenInv
<1> QED
  BY <1>13 DEF t2, h2, b2, n

\* Saving the last block and ending it with a STOP.
LEMMA FinishStep ==
    ASSUME NEW t \in Seq(Instruction), NEW h \in Seq(OriginType),
           NEW b \in BlockAnalysis, NEW pos \in Nat, NEW i \in Instruction,
           NEW stop \in op_table_entry, stop.gas_cost = 0,
           stop.stack_req = 0, stop.stack_change = 0,
           OpenInv(t, h, b, pos), Len(code) \in Nat, pos <= Len(code)
    PROVE  DoneInv(Append(SaveBlock(t, b), i),
                   Append(h, Origin(b, pos, pos, stop)))
<1> DEFINE t2 == Append(t, i)
           t3 == Append(SaveBlock(t, b), i)
           h2 == Append(h, Origin(b, pos, pos, stop))
<1>1. AddToBlock(b, stop) = b
  <2> DEFINE n == Len(h)
  <2>1. /\ n \in Nat /\ n > 0 /\ h[n] \in OriginType
        /\ h[n].begin = b.begin_block_index
        /\ h[n].info.stack_req + h[n].info.stack_change >= 0
        /\ b.stack_change = Height(h[n])
        /\ Summary(h, b.begin_block_index, b.stack_req, b.stack_max_growth,
                   b.gas_cost)
    BY DEF OpenInv
  <2>2. n \in MembersOf(h, b.begin_block_index)
    BY <2>1 DEF MembersOf
  <2>3. Need(h[n]) <= b.stack_req /\ Height(h[n]) <= b.stack_max_growth
    BY <2>1, <2>2 DEF Summary
  <2>4. h[n].info \in op_table_entry /\ h[n].change \in Int
    BY <2>1 DEF OriginType
  <2>5. /\ b.stack_req \in Nat /\ b.stack_max_growth \in Nat
        /\ b.gas_cost \in Nat /\ b.stack_change \in Int
        /\ b = [gas_cost |-> b.gas_cost, stack_req |-> b.stack_req,
                stack_max_growth |-> b.stack_max_growth,
                stack_change |-> b.stack_change,
                begin_block_index |-> b.begin_block_index]
    BY DEF BlockAnalysis
  <2>6. /\ h[n].info.stack_req \in Nat /\ h[n].info.stack_change \in Int
    BY <2>4, EntryNumbers
  <2> DEFINE req == h[n].info.stack_req
             delta == h[n].info.stack_change
             before == h[n].change
  <2>a. /\ req - before <= b.stack_req /\ before + delta = b.stack_change
        /\ b.stack_change <= b.stack_max_growth /\ req + delta >= 0
    BY <2>1, <2>3 DEF Need, Height
  <2>b. req \in Nat /\ delta \in Int /\ before \in Int
    BY <2>4, <2>6
  <2> HIDE DEF n, req, delta, before
  <2>7. /\ 0 - b.stack_change <= b.stack_req
        /\ b.stack_change <= b.stack_max_growth
    BY <2>a, <2>b, <2>5
  <2>8. /\ b.stack_change + stop.stack_change = b.stack_change
        /\ b.gas_cost + stop.gas_cost = b.gas_cost
        /\ Larger(b.stack_req, stop.stack_req - b.stack_change) = b.stack_req
        /\ Larger(b.stack_max_growth, b.stack_change) = b.stack_max_growth
    BY <2>5, <2>7 DEF Larger
  <2> QED
    BY <2>5, <2>8 DEF AddToBlock
<1>2. OpenInv(t2, h2, b, pos)
  BY <1>1, EmitStep
<1>3. /\ t2 \in Seq(Instruction) /\ h2 \in Seq(OriginType)
      /\ b.begin_block_index \in 1..Len(t) /\ Len(t) = Len(h)
      /\ Len(t2) = Len(t) + 1 /\ Len(h2) = Len(h) + 1
  BY DEF OpenInv, Origin, OriginType, BlockAnalysis
<1>4. \A c \in 1..Len(h2) :
         t3[c].block = SaveBlock(t2, b)[c].block
  <2> DEFINE B == b.begin_block_index
             n == Len(t)
  <2>1. /\ SaveBlock(t, b) \in Seq(Instruction)
        /\ Len(SaveBlock(t, b)) = n
        /\ SaveBlock(t, b)[B].block = close(b)
        /\ \A c \in 1..n : c # B => SaveBlock(t, b)[c] = t[c]
    BY <1>3, SaveBlockTable
  <2>2. /\ Len(t3) = n + 1 /\ t3[n + 1] = i
        /\ \A c \in 1..n : t3[c] = SaveBlock(t, b)[c] /\ t2[c] = t[c]
        /\ t2[n + 1] = i
    BY <2>1, <1>3
  <2>3. /\ SaveBlock(t2, b)[B].block = close(b)
        /\ \A c \in 1..n + 1 : c # B => SaveBlock(t2, b)[c] = t2[c]
    <3>1. B \in 1..Len(t2) /\ t2 \in Seq(Instruction) /\ Len(t2) = n + 1
      BY <1>3
    <3> HIDE DEF t2
    <3> QED
      BY <3>1, SaveBlockTable
  <2> HIDE DEF t2, t3, h2, n
  <2>4. B \in 1..n /\ n \in Nat /\ Len(h2) = n + 1
    BY <1>3 DEF n
  <2> QED
    BY <2>1, <2>2, <2>3, <2>4
<1>5. \A c \in 1..Len(h2) : h2[c].begin = c => Saved(SaveBlock(t2, b), h2, c)
  BY <1>2, <1>3, AllSaved
<1>6. \A c \in 1..Len(h2) : h2[c].begin = c => Saved(t3, h2, c)
  <2> HIDE DEF t2, t3, h2
  <2>1. TAKE c \in 1..Len(h2)
  <2>2. HAVE h2[c].begin = c
  <2>3. Saved(SaveBlock(t2, b), h2, c)
    BY <2>2, <1>5
  <2>4. t3[c].block = SaveBlock(t2, b)[c].block
    BY <1>4
  <2>5. /\ MembersOf(h2, c) = MembersOf(h2, c)
        /\ \A k \in MembersOf(h2, c) : h2[k] = h2[k]
    OBVIOUS
  <2> DEFINE T == SaveBlock(t2, b)
  <2> HIDE DEF T
  <2>6. Saved(T, h2, c) /\ t3[c].block = T[c].block
    BY <2>3, <2>4 DEF T
  <2> QED
    BY <2>5, <2>6, SavedKept
<1>7. Len(t3) = Len(h2)
  BY <1>3, SaveBlockTable
<1>8. Chain(h2) /\ Len(h2) > 0
  BY <1>2, <1>3 DEF OpenInv
<1> HIDE DEF t3, h2
<1>9. DoneInv(t3, h2)
  BY <1>6, <1>7, <1>8 DEF DoneInv
<1> QED
  BY <1>9 DEF t3, h2

-----------------------------------------------------------------------------
\* The offsets of the JUMPDESTs found are behind the current position.
JumpdestInv ==
    /\ JumpdestIndexSound
    /\ \A i \in 1..Len(jumpdest_offsets) : jumpdest_offsets[i] < code_pos

\* A large push is at least three bytes of code, unless it is the last one.
PushInv ==
    /\ 2 * Len(push_values) <= code_pos + 1
    /\ code_pos # Len(code) => 2 * Len(push_values) <= code_pos

BlockInv ==
    /\ ~analyzed => OpenInv(instrs, at, block, code_pos) /\ JumpdestFirst
    /\ analyzed => DoneInv(instrs, at)

\* The inductive invariant of the analysis.
AnalysisInv == AdvancedAnalysisTypeOK /\ BlockInv /\ JumpdestInv /\ PushInv

\* The constructor of instruction gives an instruction.
LEMMA InstructionType ==
    ASSUME NEW f \in Int
    PROVE  instruction(f) \in Instruction
BY LimitFacts DEF instruction, Instruction, block_info

\* The history of a new instruction has its type.
LEMMA OriginIsTyped ==
    ASSUME NEW b \in BlockAnalysis, NEW pos \in Nat, NEW next \in Nat,
           NEW info \in op_table_entry
    PROVE  Origin(b, pos, next, info) \in OriginType
BY DEF Origin, OriginType, BlockAnalysis

\* What the end of an iteration does to the table.
LEMMA AdvanceStep ==
    ASSUME AdvancedAnalysisTypeOK, ~analyzed, code_pos # Len(code),
           NEW t \in Seq(Instruction), NEW h \in Seq(OriginType),
           NEW next \in 1..Len(code),
           OpenInv(t, h, AddToBlock(block, opcode_info), next),
           Advance(t, h, next)
    PROVE  /\ instrs' \in Seq(Instruction) /\ at' \in Seq(OriginType)
           /\ block' \in BlockAnalysis
           /\ BlockInv'
           /\ Len(instrs') >= Len(t) /\ Len(instrs') \in Nat
           /\ \A k \in 1..Len(t) : /\ instrs'[k].fn = t[k].fn
                                   /\ at'[k] = h[k]
<1> DEFINE b == AddToBlock(block, opcode_info)
<1>1. /\ code \in Codes /\ rev \in Revisions /\ code_pos \in 0..Len(code)
      /\ block \in BlockAnalysis
  BY DEF AdvancedAnalysisTypeOK
<1>2. b \in BlockAnalysis /\ Len(code) \in Nat /\ next \in Nat /\ next <= Len(code)
  BY <1>1, OpcodeInfo, AddToBlockType
<1>3. code_pos' = next /\ code' = code /\ analyzed' = FALSE /\ rev' = rev
  BY DEF Advance
<1>4. Len(t) \in Nat /\ Len(h) = Len(t) /\ b.begin_block_index \in 1..Len(t)
  BY DEF OpenInv
<1> HIDE DEF b
<1>5. ASSUME OpenInv(instrs', at', block', next), JumpdestFirst'
      PROVE  BlockInv'
  <2>1. ASSUME NEW CONSTANT c
        PROVE  Saved(instrs, at, c)' = Saved(instrs', at', c)
    BY <1>3 DEF Saved
  <2>2. OpenInv(instrs, at, block, code_pos)'
    BY <1>3, <1>5, <2>1 DEF OpenInv
  <2> QED
    BY <1>3, <1>5, <2>2 DEF BlockInv
<1>6. CASE EndsBlock(next)
  <2> DEFINE i == instruction(OPX_BEGINBLOCK)
             b2 == block_analysis(Len(t) + 1)
             o == Origin(b2, next, next, NoInfo)
  <2>1. /\ instrs' = Append(SaveBlock(t, b), i) /\ block' = b2
        /\ at' = Append(h, o)
    BY <1>6 DEF Advance, SaveBlock, b
  <2>2. /\ i \in Instruction /\ b2 \in BlockAnalysis /\ o \in OriginType
    <3>1. i \in Instruction
      BY OpcodeFacts, InstructionType DEF OPX_BEGINBLOCK
    <3>2. b2 \in BlockAnalysis
      BY <1>4 DEF block_analysis, BlockAnalysis
    <3>3. NoInfo \in op_table_entry
      BY OpcodeFacts, LimitFacts DEF NoInfo, op_table_entry, OPX_BEGINBLOCK
    <3> HIDE DEF b2
    <3>4. o \in OriginType
      BY <3>2, <3>3, <1>2, OriginIsTyped
    <3> QED
      BY <3>1, <3>2, <3>4
  <2>3. /\ SaveBlock(t, b) \in Seq(Instruction)
        /\ Len(SaveBlock(t, b)) = Len(t)
        /\ \A c \in 1..Len(t) : SaveBlock(t, b)[c].fn = t[c].fn
    BY <1>2, <1>4, SaveBlockTable
  <2>4. OpenInv(instrs', at', block', next)
    BY <1>2, <2>1, <2>2, NewBlockStep DEF b
  <2> HIDE DEF i, b2, o
  <2>5. /\ instrs' \in Seq(Instruction) /\ at' \in Seq(OriginType)
        /\ Len(instrs') = Len(t) + 1 /\ at'[Len(t) + 1] = o
        /\ instrs'[Len(t) + 1] = i
        /\ \A k \in 1..Len(t) : /\ instrs'[k].fn = t[k].fn
                                /\ at'[k] = h[k]
    BY <1>4, <2>1, <2>2, <2>3
  <2>6. Fresh'
    <3>1. i.fn = OPX_BEGINBLOCK
      BY DEF i, instruction
    <3>2. at'[Len(instrs')] = Origin(block', code_pos', code_pos', NoInfo)
      BY <1>3, <2>1, <2>5 DEF b2, o
    <3>3. block' = block_analysis(Len(instrs'))
      BY <2>1, <2>5 DEF b2
    <3> QED
      BY <3>1, <3>2, <3>3, <2>5 DEF Fresh
  <2> QED
    BY <1>4, <1>5, <2>1, <2>2, <2>4, <2>5, <2>6 DEF JumpdestFirst
<1>7. CASE ~EndsBlock(next)
  <2>1. instrs' = t /\ at' = h /\ block' = b
    BY <1>7 DEF Advance, b
  <2>2. OpenInv(instrs', at', block', next)
    BY <2>1 DEF b
  <2>3. JumpdestFirst'
    BY <1>3, <1>7 DEF JumpdestFirst, EndsBlock
  <2> QED
    BY <1>2, <1>4, <1>5, <2>1, <2>2, <2>3
<1> QED
  BY <1>6, <1>7

\* The index of JUMPDESTs stays sound while the table only grows.
LEMMA JumpdestsKept ==
    ASSUME AdvancedAnalysisTypeOK, JumpdestInv,
           jumpdest_offsets' = jumpdest_offsets,
           jumpdest_targets' = jumpdest_targets, code' = code,
           code_pos' \in Nat, code_pos' >= code_pos,
           Len(instrs') \in Nat, Len(instrs') >= Len(instrs),
           \A k \in 1..Len(instrs) : /\ instrs'[k].fn = instrs[k].fn
                                     /\ at'[k].begin = at[k].begin
                                     /\ at'[k].offset = at[k].offset
    PROVE  JumpdestInv'
<1> DEFINE n == Len(jumpdest_offsets)
<1>1. /\ n \in Nat /\ \A i \in 1..n : jumpdest_offsets[i] \in Nat
      /\ Len(instrs) \in Nat /\ code_pos \in Nat
  BY DEF AdvancedAnalysisTypeOK
<1>2. /\ n = Len(jumpdest_targets)
      /\ \A i, j \in 1..n : i < j => jumpdest_offsets[i] < jumpdest_offsets[j]
      /\ \A i \in 1..n : jumpdest_offsets[i] < code_pos
  BY DEF JumpdestInv, JumpdestIndexSound
<1>3. ASSUME NEW i \in 1..n
      PROVE  LET t == jumpdest_targets[i]
             IN  /\ t \in 1..Len(instrs')
                 /\ instrs'[t].fn = OPX_BEGINBLOCK
                 /\ at'[t].begin = t
                 /\ at'[t].offset = jumpdest_offsets[i]
                 /\ code[jumpdest_offsets[i] + 1] = OP.JUMPDEST
  <2> DEFINE t == jumpdest_targets[i]
  <2>1. /\ t \in 1..Len(instrs) /\ instrs[t].fn = OPX_BEGINBLOCK
        /\ at[t].begin = t /\ at[t].offset = jumpdest_offsets[i]
        /\ code[jumpdest_offsets[i] + 1] = OP.JUMPDEST
    BY <1>3 DEF JumpdestInv, JumpdestIndexSound
  <2> HIDE DEF t
  <2>2. t \in 1..Len(instrs')
    BY <2>1, <1>1
  <2> QED
    BY <2>1, <2>2 DEF t
<1>4. \A i \in 1..n : jumpdest_offsets[i] < code_pos'
  BY <1>1, <1>2
<1>5. JumpdestIndexSound'
  BY <1>2, <1>3 DEF JumpdestIndexSound, OPX_BEGINBLOCK
<1> QED
  BY <1>4, <1>5 DEF JumpdestInv

\* An iteration that emits an instruction, next being the offset after it.
LEMMA EmitPreserves ==
    ASSUME AnalysisInv, InLoop,
           NEW i \in Instruction, NEW next \in Nat,
           next > code_pos, next <= Len(code), Emit(i, next),
           jumpdest_offsets' = jumpdest_offsets,
           jumpdest_targets' = jumpdest_targets,
           push_values' \in Seq(Seq(Byte)), PushInv'
    PROVE  AnalysisInv'
<1> DEFINE o == Origin(block, code_pos, next, opcode_info)
           t == Append(instrs, i)
           h == Append(at, o)
<1>1. /\ code \in Codes /\ rev \in Revisions /\ code_pos \in 0..Len(code)
      /\ block \in BlockAnalysis /\ instrs \in Seq(Instruction)
      /\ at \in Seq(OriginType) /\ code_pos # Len(code) /\ ~analyzed
      /\ jumpdest_offsets \in Seq(Nat) /\ jumpdest_targets \in Seq(Nat)
  BY DEF AnalysisInv, AdvancedAnalysisTypeOK, InLoop
<1>2. /\ opcode_info \in op_table_entry /\ Len(code) \in Nat
      /\ opcode_info.stack_req + opcode_info.stack_change >= 0
      /\ code_pos \in Nat
  BY <1>1, OpcodeInfo
<1>3. o \in OriginType
  BY <1>1, <1>2, OriginIsTyped
<1>4. OpenInv(instrs, at, block, code_pos) /\ Len(instrs) = Len(at)
  BY <1>1 DEF AnalysisInv, BlockInv, OpenInv
<1>5. OpenInv(t, h, AddToBlock(block, opcode_info), next)
  BY <1>1, <1>2, <1>4, EmitStep
<1>6. Advance(t, h, next)
  BY DEF Emit
<1>7. code_pos' = next /\ code' = code /\ analyzed' = analyzed /\ rev' = rev
  BY <1>6 DEF Advance
<1> HIDE DEF o
<1>8. /\ t \in Seq(Instruction) /\ h \in Seq(OriginType)
      /\ Len(t) = Len(instrs) + 1 /\ Len(instrs) \in Nat
      /\ \A k \in 1..Len(instrs) : t[k] = instrs[k] /\ h[k] = at[k]
  <2>1. /\ t \in Seq(Instruction) /\ Len(t) = Len(instrs) + 1
        /\ Len(instrs) \in Nat
        /\ \A k \in 1..Len(instrs) : t[k] = instrs[k]
    BY <1>1
  <2>2. /\ h \in Seq(OriginType)
        /\ \A k \in 1..Len(at) : h[k] = at[k]
    BY <1>1, <1>3
  <2> QED
    BY <2>1, <2>2, <1>4
<1> HIDE DEF t, h
<1>9. /\ instrs' \in Seq(Instruction) /\ at' \in Seq(OriginType)
      /\ block' \in BlockAnalysis
      /\ BlockInv'
      /\ Len(instrs') >= Len(t) /\ Len(instrs') \in Nat
      /\ \A k \in 1..Len(t) : instrs'[k].fn = t[k].fn /\ at'[k] = h[k]
  <2>1. next \in 1..Len(code)
    BY <1>2
  <2> QED
    BY <2>1, <1>1, <1>5, <1>6, <1>8, AdvanceStep DEF AnalysisInv
<1>10. AdvancedAnalysisTypeOK'
  <2>1. code_pos' \in 0..Len(code')
    BY <1>2, <1>7
  <2>2. analyzed' \in BOOLEAN
    BY <1>7 DEF AnalysisInv, AdvancedAnalysisTypeOK
  <2> QED
    BY <2>1, <2>2, <1>1, <1>7, <1>9 DEF AdvancedAnalysisTypeOK
<1>11. \A k \in 1..Len(instrs) : instrs'[k].fn = instrs[k].fn /\ at'[k] = at[k]
  BY <1>8, <1>9
<1>12. JumpdestInv'
  BY <1>2, <1>7, <1>8, <1>9, <1>11, JumpdestsKept DEF AnalysisInv
<1> QED
  BY <1>9, <1>10, <1>12 DEF AnalysisInv

\* The value of a push, cut off by the end of the code or not.
LEMMA PushDataType ==
    ASSUME code \in Codes, code_pos \in Nat, NEW n \in Nat
    PROVE  PushData(n) \in Seq(Byte)
<1>1. code \in Seq(Byte) /\ Len(code) \in Nat
  BY CodesAssumption
<1>2. 0 \in Byte
  BY DEF Byte
<1>3. \A k \in 1..n : code_pos + 1 + k <= Len(code)
                      => code[code_pos + 1 + k] \in Byte
  BY <1>1
<1>4. PushData(n) \in [1..n -> Byte]
  BY <1>2, <1>3 DEF PushData
<1> QED
  BY <1>4, SeqDef

\* What an iteration may rely on.
LEMMA LoopFacts ==
    ASSUME AnalysisInv, InLoop
    PROVE  /\ code \in Codes /\ rev \in Revisions /\ code_pos \in 0..Len(code)
           /\ Len(code) \in Nat /\ code_pos \in Nat /\ code_pos < Len(code)
           /\ opcode \in Byte /\ opcode_info \in op_table_entry
           /\ opcode_info.fn \in Int /\ opcode_info.gas_cost \in Nat
           /\ opcode_info.stack_req + opcode_info.stack_change >= 0
           /\ push_values \in Seq(Seq(Byte)) /\ Len(push_values) \in Nat
           /\ block \in BlockAnalysis /\ block.gas_cost \in Nat
           /\ 2 * Len(push_values) <= code_pos
<1>1. /\ code \in Codes /\ rev \in Revisions /\ code_pos \in 0..Len(code)
      /\ block \in BlockAnalysis /\ code_pos # Len(code)
      /\ push_values \in Seq(Seq(Byte))
  BY DEF AnalysisInv, AdvancedAnalysisTypeOK, InLoop
<1>2. /\ opcode \in Byte /\ opcode_info \in op_table_entry
      /\ opcode_info.stack_req + opcode_info.stack_change >= 0
      /\ Len(code) \in Nat
  BY <1>1, OpcodeInfo
<1>3. opcode_info.fn \in Int /\ opcode_info.gas_cost \in Nat
  BY <1>2, EntryNumbers DEF op_table_entry
<1>4. 2 * Len(push_values) <= code_pos
  BY <1>1 DEF AnalysisInv, PushInv
<1>5. code_pos \in Nat /\ code_pos < Len(code) /\ Len(push_values) \in Nat
  BY <1>1, <1>2
<1>6. block.gas_cost \in Nat
  BY <1>1 DEF BlockAnalysis
<1> QED
  BY <1>1, <1>2, <1>3, <1>4, <1>5, <1>6

\* A PUSH advances within the code and past at least its own opcode.
LEMMA AfterPushFacts ==
    ASSUME AnalysisInv, InLoop, opcode \in PushOps
    PROVE  /\ AfterPush \in Nat /\ AfterPush > code_pos
           /\ AfterPush <= Len(code)
           /\ AfterPush # Len(code)
              => AfterPush = code_pos + 1 + PushSize(opcode)
           /\ PushSize(opcode) \in 1..32
<1> DEFINE size == PushSize(opcode)
<1>1. Len(code) \in Nat /\ code_pos \in Nat /\ code_pos < Len(code)
  BY LoopFacts
<1>2. size \in 1..32
  BY PushFacts
<1>3. AfterPush = IF code_pos + 1 + size <= Len(code)
                  THEN code_pos + 1 + size ELSE Len(code)
  BY DEF AfterPush, Smaller
<1> HIDE DEF size
<1>4. /\ AfterPush \in Nat /\ AfterPush > code_pos /\ AfterPush <= Len(code)
      /\ AfterPush # Len(code) => AfterPush = code_pos + 1 + size
  BY <1>1, <1>2, <1>3
<1> QED
  BY <1>2, <1>4 DEF size

\* An iteration that stores no push value keeps the bound on their number.
LEMMA PushesKept ==
    ASSUME AnalysisInv, InLoop, push_values' = push_values, code' = code,
           code_pos' \in Nat, code_pos' > code_pos
    PROVE  push_values' \in Seq(Seq(Byte)) /\ PushInv'
BY LoopFacts DEF PushInv

\* An iteration on a PUSH kept in the instruction.
LEMMA SmallPushPreserves == AnalysisInv /\ AnalyzeSmallPush => AnalysisInv'
<1> SUFFICES ASSUME AnalysisInv, AnalyzeSmallPush PROVE AnalysisInv'
  OBVIOUS
<1> DEFINE i == [instruction(opcode_info.fn) EXCEPT
                   !.small_push_value = PushData(PushSize(opcode))]
<1>1. InLoop /\ opcode \in PushOps
  BY DEF AnalyzeSmallPush
<1>2. i \in Instruction
  <2>1. PushData(PushSize(opcode)) \in Seq(Byte)
    <3>1. PushSize(opcode) \in Nat
      <4>1. PushSize(opcode) \in 1..32
        BY <1>1, PushFacts
      <4> QED
        BY <4>1
    <3>2. code \in Codes /\ code_pos \in Nat
      BY <1>1, LoopFacts
    <3> QED
      BY <3>1, <3>2, PushDataType
  <2>2. instruction(opcode_info.fn) \in Instruction
    BY <1>1, LoopFacts, InstructionType
  <2> QED
    BY <2>1, <2>2 DEF Instruction
<1>3. Emit(i, AfterPush) /\ push_values' = push_values
      /\ jumpdest_offsets' = jumpdest_offsets
      /\ jumpdest_targets' = jumpdest_targets
  BY DEF AnalyzeSmallPush
<1>4. code_pos' = AfterPush /\ code' = code
  BY <1>3 DEF Emit, Advance
<1>5. push_values' \in Seq(Seq(Byte)) /\ PushInv'
  BY <1>1, <1>3, <1>4, AfterPushFacts, PushesKept
<1> HIDE DEF i
<1> QED
  BY <1>1, <1>2, <1>3, <1>5, AfterPushFacts, EmitPreserves

\* An iteration on a PUSH kept in push_values.
LEMMA LargePushPreserves == AnalysisInv /\ AnalyzeLargePush => AnalysisInv'
<1> SUFFICES ASSUME AnalysisInv, AnalyzeLargePush PROVE AnalysisInv'
  OBVIOUS
<1> DEFINE i == [instruction(opcode_info.fn) EXCEPT
                   !.push_value = Len(push_values')]
<1>1. InLoop /\ opcode \in PushOps /\ PushSize(opcode) > SmallPushMax
  BY DEF AnalyzeLargePush
<1>2. /\ push_values' = Append(push_values, PushData(PushSize(opcode)))
      /\ Emit(i, AfterPush)
      /\ jumpdest_offsets' = jumpdest_offsets
      /\ jumpdest_targets' = jumpdest_targets
  BY DEF AnalyzeLargePush
<1>3. /\ push_values' \in Seq(Seq(Byte))
      /\ Len(push_values') = Len(push_values) + 1
      /\ Len(push_values') \in Nat
  <2>1. PushData(PushSize(opcode)) \in Seq(Byte)
    <3>1. PushSize(opcode) \in Nat
      <4>1. PushSize(opcode) \in 1..32
        BY <1>1, PushFacts
      <4> QED
        BY <4>1
    <3>2. code \in Codes /\ code_pos \in Nat
      BY <1>1, LoopFacts
    <3> QED
      BY <3>1, <3>2, PushDataType
  <2> QED
    BY <2>1, <1>1, <1>2, LoopFacts
<1>4. i \in Instruction
  <2>1. instruction(opcode_info.fn) \in Instruction
    BY <1>1, LoopFacts, InstructionType
  <2> QED
    BY <2>1, <1>3 DEF Instruction
<1>5. code_pos' = AfterPush /\ code' = code
  BY <1>2 DEF Emit, Advance
<1>6. PushInv'
  <2> DEFINE size == PushSize(opcode)
             n == Len(push_values)
             next == AfterPush
  <2>1. /\ next \in Nat /\ next > code_pos /\ next <= Len(code)
        /\ next # Len(code) => next = code_pos + 1 + size
        /\ size \in 1..32
    BY <1>1, AfterPushFacts
  <2>2. /\ Len(code) \in Nat /\ code_pos \in Nat /\ n \in Nat
        /\ 2 * n <= code_pos
    BY <1>1, LoopFacts
  <2> HIDE DEF size, n, next
  <2>3. size >= 2
    <3>1. SmallPushMax \in Nat /\ SmallPushMax >= 1
      BY LimitsAssumption
    <3>2. size > SmallPushMax
      BY <1>1 DEF size
    <3> QED
      BY <3>1, <3>2, <2>1
  <2>4. /\ 2 * (n + 1) <= next + 1
        /\ next # Len(code) => 2 * (n + 1) <= next
    BY <2>1, <2>2, <2>3
  <2> QED
    BY <2>4, <1>3, <1>5 DEF PushInv, n, next
<1> HIDE DEF i
<1> QED
  BY <1>1, <1>2, <1>3, <1>4, <1>6, AfterPushFacts, EmitPreserves

\* The iterations that emit an instruction of one byte.
LEMMA OneBytePreserves ==
    ASSUME AnalysisInv, InLoop, NEW i \in Instruction,
           Emit(i, code_pos + 1),
           UNCHANGED <<push_values, jumpdest_offsets, jumpdest_targets>>
    PROVE  AnalysisInv'
<1> DEFINE next == code_pos + 1
<1>1. next \in Nat /\ next > code_pos /\ next <= Len(code)
  BY LoopFacts
<1>2. Emit(i, next)
  OBVIOUS
<1> HIDE DEF next
<1>3. code_pos' = next /\ code' = code
  BY <1>2 DEF Emit, Advance
<1>4. push_values' \in Seq(Seq(Byte)) /\ PushInv'
  BY <1>1, <1>3, PushesKept
<1> QED
  BY <1>1, <1>2, <1>4, EmitPreserves

\* An iteration on an instruction that records the gas cost so far.
LEMMA GasDependentPreserves ==
    AnalysisInv /\ AnalyzeGasDependent => AnalysisInv'
<1> SUFFICES ASSUME AnalysisInv, AnalyzeGasDependent PROVE AnalysisInv'
  OBVIOUS
<1> DEFINE i == [instruction(opcode_info.fn) EXCEPT
                   !.number = block.gas_cost + opcode_info.gas_cost]
<1>1. InLoop
  BY DEF AnalyzeGasDependent
<1>2. i \in Instruction
  <2>1. instruction(opcode_info.fn) \in Instruction
    BY <1>1, LoopFacts, InstructionType
  <2>2. block.gas_cost + opcode_info.gas_cost \in Nat
    <3>1. block.gas_cost \in Nat /\ opcode_info.gas_cost \in Nat
      BY <1>1, LoopFacts
    <3> QED
      BY <3>1
  <2> QED
    BY <2>1, <2>2 DEF Instruction
<1> QED
  BY <1>1, <1>2, OneBytePreserves DEF AnalyzeGasDependent

\* An iteration on PC, which records its position.
LEMMA PcPreserves == AnalysisInv /\ AnalyzePc => AnalysisInv'
<1> SUFFICES ASSUME AnalysisInv, AnalyzePc PROVE AnalysisInv'
  OBVIOUS
<1> DEFINE i == [instruction(opcode_info.fn) EXCEPT !.number = code_pos]
<1>1. InLoop
  BY DEF AnalyzePc
<1>2. i \in Instruction
  <2>1. instruction(opcode_info.fn) \in Instruction
    BY <1>1, LoopFacts, InstructionType
  <2> QED
    <3>1. code_pos \in Nat
      BY <1>1, LoopFacts
    <3> QED
      BY <3>1, <2>1 DEF Instruction
<1> QED
  BY <1>1, <1>2, OneBytePreserves DEF AnalyzePc

\* An iteration on an instruction without argument.
LEMMA OtherPreserves == AnalysisInv /\ AnalyzeOther => AnalysisInv'
<1> SUFFICES ASSUME AnalysisInv, AnalyzeOther PROVE AnalysisInv'
  OBVIOUS
<1>1. InLoop
  BY DEF AnalyzeOther
<1>2. instruction(opcode_info.fn) \in Instruction
  BY <1>1, LoopFacts, InstructionType
<1> QED
  BY <1>1, <1>2, OneBytePreserves DEF AnalyzeOther

\* An iteration on a JUMPDEST, which extends the jump destination index.
LEMMA JumpdestPreserves == AnalysisInv /\ AnalyzeJumpdest => AnalysisInv'
<1> SUFFICES ASSUME AnalysisInv, AnalyzeJumpdest PROVE AnalysisInv'
  OBVIOUS
<1> DEFINE n == Len(instrs)
           next == code_pos + 1
           h == [at EXCEPT ![n].info = opcode_info, ![n].next = next]
           m == Len(jumpdest_offsets)
<1>1. /\ InLoop /\ opcode = OP.JUMPDEST /\ Advance(instrs, h, next)
      /\ jumpdest_offsets' = Append(jumpdest_offsets, code_pos)
      /\ jumpdest_targets' = Append(jumpdest_targets, n)
      /\ push_values' = push_values
  BY DEF AnalyzeJumpdest
<1>2. /\ code \in Codes /\ rev \in Revisions /\ code_pos \in 0..Len(code)
      /\ block \in BlockAnalysis /\ instrs \in Seq(Instruction)
      /\ at \in Seq(OriginType) /\ code_pos # Len(code) /\ ~analyzed
      /\ jumpdest_offsets \in Seq(Nat) /\ jumpdest_targets \in Seq(Nat)
  BY <1>1 DEF AnalysisInv, AdvancedAnalysisTypeOK, InLoop
<1>3. /\ opcode_info \in op_table_entry /\ Len(code) \in Nat
      /\ opcode_info.stack_req + opcode_info.stack_change >= 0
      /\ code_pos \in Nat /\ code_pos < Len(code)
  BY <1>1, LoopFacts
<1>4. OpenInv(instrs, at, block, code_pos) /\ JumpdestFirst
  BY <1>2 DEF AnalysisInv, BlockInv
<1>5. /\ block = block_analysis(n) /\ instrs[n].fn = OPX_BEGINBLOCK
      /\ at[n] = Origin(block, code_pos, code_pos, NoInfo)
  BY <1>1, <1>2, <1>4 DEF JumpdestFirst, Fresh, opcode
<1>6. next \in Nat /\ next > code_pos /\ next \in 1..Len(code)
  BY <1>3
<1>7. h \in Seq(OriginType) /\ OpenInv(instrs, h, AddToBlock(block, opcode_info), next)
  <2> HIDE DEF next
  <2> QED
    BY <1>2, <1>3, <1>4, <1>5, <1>6, MergeStep
<1>8. /\ n \in Nat /\ n > 0 /\ n = Len(at) /\ Len(h) = n
      /\ \A k \in 1..n : h[k].begin = at[k].begin /\ h[k].offset = at[k].offset
  <2>1. n \in Nat /\ n > 0 /\ n = Len(at)
    BY <1>2, <1>4 DEF OpenInv
  <2>2. \A k \in 1..n : at[k] \in OriginType
    BY <2>1, <1>2
  <2>3. Len(h) = n
    BY <1>7 DEF OpenInv
  <2>4. \A k \in 1..n : h[k].begin = at[k].begin /\ h[k].offset = at[k].offset
    <3> DEFINE o == [at[n] EXCEPT !.info = opcode_info, !.next = next]
    <3>1. h = [at EXCEPT ![n] = o]
      BY <2>1, <1>2
    <3>2. o.begin = at[n].begin /\ o.offset = at[n].offset
      BY <2>1, <2>2 DEF OriginType
    <3> HIDE DEF o, h
    <3>3. \A k \in 1..n : h[k] = IF k = n THEN o ELSE at[k]
      BY <3>1, <2>1, <1>2
    <3> QED
      BY <3>2, <3>3
  <2> QED
    BY <2>1, <2>3, <2>4
<1> HIDE DEF h, next
<1>9. /\ instrs' \in Seq(Instruction) /\ at' \in Seq(OriginType)
      /\ block' \in BlockAnalysis
      /\ BlockInv'
      /\ Len(instrs') >= n /\ Len(instrs') \in Nat
      /\ \A k \in 1..n : instrs'[k].fn = instrs[k].fn /\ at'[k] = h[k]
  BY <1>1, <1>2, <1>6, <1>7, AdvanceStep DEF AnalysisInv
<1>10. code_pos' = next /\ code' = code /\ rev' = rev /\ analyzed' = analyzed
  BY <1>1 DEF Advance
<1>11. PushInv' /\ push_values' \in Seq(Seq(Byte))
  BY <1>1, <1>6, <1>10, PushesKept
<1>12. AdvancedAnalysisTypeOK'
  <2>1. code_pos' \in 0..Len(code')
    BY <1>3, <1>6, <1>10
  <2>2. analyzed' \in BOOLEAN
    BY <1>10 DEF AnalysisInv, AdvancedAnalysisTypeOK
  <2>3. jumpdest_offsets' \in Seq(Nat) /\ jumpdest_targets' \in Seq(Nat)
    BY <1>1, <1>2, <1>3, <1>8
  <2> QED
    BY <2>1, <2>2, <2>3, <1>2, <1>9, <1>10, <1>11 DEF AdvancedAnalysisTypeOK
<1>13. JumpdestInv'
  <2>1. /\ m \in Nat /\ m = Len(jumpdest_targets)
        /\ \A i, j \in 1..m :
              i < j => jumpdest_offsets[i] < jumpdest_offsets[j]
        /\ \A i \in 1..m : jumpdest_offsets[i] < code_pos
        /\ \A i \in 1..m : jumpdest_offsets[i] \in Nat
    <3>1. m \in Nat /\ \A i \in 1..m : jumpdest_offsets[i] \in Nat
      BY <1>2
    <3> QED
      BY <3>1 DEF AnalysisInv, JumpdestInv, JumpdestIndexSound
  <2>2. /\ Len(jumpdest_offsets') = m + 1 /\ Len(jumpdest_targets') = m + 1
        /\ \A i \in 1..m : /\ jumpdest_offsets'[i] = jumpdest_offsets[i]
                           /\ jumpdest_targets'[i] = jumpdest_targets[i]
        /\ jumpdest_offsets'[m + 1] = code_pos
        /\ jumpdest_targets'[m + 1] = n
    BY <2>1, <1>1, <1>2, <1>3, <1>8
  <2> HIDE DEF m, n
  <2>3. /\ \A i \in 1..m + 1 : jumpdest_offsets'[i] < code_pos'
        /\ \A i, j \in 1..m + 1 :
              i < j => jumpdest_offsets'[i] < jumpdest_offsets'[j]
    <3>1. code_pos' > code_pos /\ code_pos' \in Nat
      BY <1>6, <1>10
    <3> QED
      BY <3>1, <2>1, <2>2, <1>3
  <2>4. ASSUME NEW i \in 1..m + 1
        PROVE  LET t == jumpdest_targets'[i]
               IN  /\ t \in 1..Len(instrs')
                   /\ instrs'[t].fn = OPX_BEGINBLOCK
                   /\ at'[t].begin = t
                   /\ at'[t].offset = jumpdest_offsets'[i]
                   /\ code'[jumpdest_offsets'[i] + 1] = OP.JUMPDEST
    <3>1. CASE i = m + 1
      <4>1. n \in 1..Len(instrs') /\ instrs'[n].fn = instrs[n].fn
            /\ at'[n] = h[n]
        BY <1>8, <1>9
      <4>2. at'[n].begin = n /\ at'[n].offset = code_pos
        BY <4>1, <1>5, <1>8 DEF Origin, block_analysis
      <4>3. code'[code_pos + 1] = OP.JUMPDEST
        BY <1>1, <1>10 DEF opcode
      <4> QED
        BY <4>1, <4>2, <4>3, <1>5, <3>1, <2>2
    <3>2. CASE i \in 1..m
      <4> DEFINE t == jumpdest_targets[i]
      <4>1. /\ t \in 1..n /\ instrs[t].fn = OPX_BEGINBLOCK
            /\ at[t].begin = t /\ at[t].offset = jumpdest_offsets[i]
            /\ code[jumpdest_offsets[i] + 1] = OP.JUMPDEST
        BY <3>2 DEF AnalysisInv, JumpdestInv, JumpdestIndexSound, m, n
      <4>2. jumpdest_targets'[i] = t /\ jumpdest_offsets'[i] = jumpdest_offsets[i]
        BY <3>2, <2>2
      <4> HIDE DEF t
      <4>3. t \in 1..Len(instrs')
        BY <4>1, <1>8, <1>9
      <4> QED
        BY <4>1, <4>2, <4>3, <1>8, <1>9, <1>10
    <3> QED
      BY <3>1, <3>2, <2>1
  <2> QED
    BY <2>2, <2>3, <2>4 DEF JumpdestInv, JumpdestIndexSound
<1> QED
  BY <1>9, <1>11, <1>12, <1>13 DEF AnalysisInv

\* What follows the loop of analyze().
LEMMA FinishPreserves == AnalysisInv /\ FinishAnalysis => AnalysisInv'
<1> SUFFICES ASSUME AnalysisInv, FinishAnalysis PROVE AnalysisInv'
  OBVIOUS
<1> DEFINE stop == OpTable[rev][OP.STOP]
           i == instruction(stop.fn)
           t == SaveBlock(instrs, block)
           o == Origin(block, code_pos, code_pos, stop)
<1>1. /\ ~analyzed /\ analyzed' = TRUE /\ code_pos = Len(code)
      /\ instrs' = Append(t, i) /\ at' = Append(at, o)
      /\ UNCHANGED <<code_pos, push_values, jumpdest_offsets,
                     jumpdest_targets, block, code, rev>>
  BY DEF FinishAnalysis, SaveBlock
<1>2. /\ code \in Codes /\ rev \in Revisions /\ code_pos \in 0..Len(code)
      /\ block \in BlockAnalysis /\ instrs \in Seq(Instruction)
      /\ at \in Seq(OriginType) /\ push_values \in Seq(Seq(Byte))
      /\ jumpdest_offsets \in Seq(Nat) /\ jumpdest_targets \in Seq(Nat)
  BY DEF AnalysisInv, AdvancedAnalysisTypeOK
<1>3. Len(code) \in Nat /\ code_pos \in Nat
  BY <1>1, <1>2, CodesAssumption
<1>4. /\ stop \in op_table_entry /\ stop.gas_cost = 0 /\ stop.stack_req = 0
      /\ stop.stack_change = 0
  <2>1. OP.STOP \in Byte
    BY OpcodeFacts DEF Byte
  <2> QED
    BY <2>1, <1>2, OpTableAssumption, StopAssumption
<1> HIDE DEF stop
<1>5. i \in Instruction /\ o \in OriginType
  <2>1. stop.fn \in Int
    BY <1>4 DEF op_table_entry
  <2> QED
    BY <2>1, <1>2, <1>3, <1>4, InstructionType, OriginIsTyped
<1>6. OpenInv(instrs, at, block, code_pos)
  BY <1>1 DEF AnalysisInv, BlockInv
<1>7. DoneInv(instrs', at')
  BY <1>1, <1>2, <1>3, <1>4, <1>5, <1>6, FinishStep
<1>8. BlockInv'
  <2>1. ASSUME NEW CONSTANT c
        PROVE  Saved(instrs, at, c)' = Saved(instrs', at', c)
    BY <1>1 DEF Saved
  <2>2. DoneInv(instrs, at)'
    BY <1>7, <2>1 DEF DoneInv
  <2> QED
    BY <1>1, <2>2 DEF BlockInv
<1>9. /\ t \in Seq(Instruction) /\ Len(t) = Len(instrs)
      /\ \A k \in 1..Len(instrs) : t[k].fn = instrs[k].fn
      /\ Len(instrs) \in Nat /\ Len(at) = Len(instrs)
  <2>1. block.begin_block_index \in 1..Len(instrs) /\ Len(at) = Len(instrs)
    BY <1>6 DEF OpenInv
  <2> QED
    BY <2>1, <1>2, SaveBlockTable
<1> HIDE DEF t, i, o
<1>10. /\ instrs' \in Seq(Instruction) /\ at' \in Seq(OriginType)
       /\ Len(instrs') \in Nat /\ Len(instrs') >= Len(instrs)
       /\ \A k \in 1..Len(instrs) : instrs'[k].fn = instrs[k].fn
                                    /\ at'[k] = at[k]
  BY <1>1, <1>2, <1>5, <1>9
<1>11. AdvancedAnalysisTypeOK'
  BY <1>1, <1>2, <1>10 DEF AdvancedAnalysisTypeOK
<1>12. JumpdestInv'
  <2>1. code_pos' \in Nat /\ code_pos' >= code_pos
    BY <1>1, <1>3
  <2> QED
    BY <2>1, <1>1, <1>10, JumpdestsKept DEF AnalysisInv
<1>13. PushInv'
  BY <1>1 DEF AnalysisInv, PushInv
<1> QED
  BY <1>8, <1>11, <1>12, <1>13 DEF AnalysisInv

\* What precedes the loop of analyze().
LEMMA InitEstablishes == InitBytecode /\ InitAdvancedAnalysis => AnalysisInv
<1> SUFFICES ASSUME InitBytecode, InitAdvancedAnalysis PROVE AnalysisInv
  OBVIOUS
<1> DEFINE i == instruction(OPX_BEGINBLOCK)
           b == block_analysis(1)
           o == Origin(b, 0, 0, NoInfo)
<1>1. /\ code \in Codes /\ rev \in Revisions /\ Len(code) \in Nat
      /\ code_pos = 0 /\ instrs = <<i>> /\ push_values = << >>
      /\ jumpdest_offsets = << >> /\ jumpdest_targets = << >>
      /\ block = b /\ analyzed = FALSE /\ at = <<o>>
  BY CodesAssumption DEF InitBytecode, InitAdvancedAnalysis
<1>2. i \in Instruction /\ i.fn = OPX_BEGINBLOCK
  BY OpcodeFacts, InstructionType DEF OPX_BEGINBLOCK, instruction
<1>3. /\ b \in BlockAnalysis /\ b.begin_block_index = 1 /\ b.stack_req = 0
      /\ b.stack_max_growth = 0 /\ b.gas_cost = 0 /\ b.stack_change = 0
  BY DEF block_analysis, BlockAnalysis
<1>4. /\ o \in OriginType
      /\ o.begin = 1 /\ o.next = 0 /\ o.info.stack_req = 0
      /\ o.info.stack_change = 0
      /\ Need(o) = 0 /\ Height(o) = 0 /\ Cost(o) = 0
  <2>1. NoInfo \in op_table_entry
    BY OpcodeFacts, LimitFacts DEF NoInfo, op_table_entry, OPX_BEGINBLOCK
  <2>2. o \in OriginType
    BY <2>1, <1>3, OriginIsTyped
  <2>3. /\ o.begin = 1 /\ o.next = 0 /\ o.info.stack_req = 0
        /\ o.info.stack_change = 0
        /\ Need(o) = 0 /\ Height(o) = 0 /\ Cost(o) = 0
    BY DEF Origin, block_analysis, NoInfo, Need, Height, Cost
  <2> QED
    BY <2>2, <2>3
<1> HIDE DEF i, b, o
<1>5. AdvancedAnalysisTypeOK
  <2>1. code_pos \in 0..Len(code) /\ analyzed \in BOOLEAN
    <3>1. Len(code) \in Nat /\ code_pos = 0
      BY <1>1
    <3>2. code_pos \in 0..Len(code)
      BY <3>1
    <3>3. analyzed \in BOOLEAN
      BY <1>1
    <3> QED
      BY <3>2, <3>3
  <2>2. instrs \in Seq(Instruction) /\ at \in Seq(OriginType)
    BY <1>1, <1>2, <1>4
  <2>3. /\ push_values \in Seq(Seq(Byte)) /\ jumpdest_offsets \in Seq(Nat)
        /\ jumpdest_targets \in Seq(Nat)
    BY <1>1
  <2> QED
    BY <2>1, <2>2, <2>3, <1>1, <1>3 DEF AdvancedAnalysisTypeOK
<1>6. Len(at) = 1 /\ Len(instrs) = 1 /\ at[1] = o /\ instrs[1] = i
  BY <1>1
<1>7. MembersOf(at, 1) = {1}
  BY <1>4, <1>6 DEF MembersOf
<1>8. Summary(at, 1, 0, 0, 0)
  BY <1>4, <1>6, <1>7 DEF Summary
<1>9. Chain(at)
  BY <1>6 DEF Chain
<1>10. OpenInv(instrs, at, block, code_pos)
  <2>1. 0 <= 0 * max_instruction_base_cost
    BY LimitFacts
  <2> QED
    BY <2>1, <1>1, <1>3, <1>4, <1>6, <1>8, <1>9 DEF OpenInv
<1>11. Fresh
  BY <1>1, <1>2, <1>6 DEF Fresh, b, o
<1>12. BlockInv
  BY <1>1, <1>10, <1>11 DEF BlockInv, JumpdestFirst
<1>13. JumpdestInv /\ PushInv
  BY <1>1 DEF JumpdestInv, JumpdestIndexSound, PushInv
<1> QED
  BY <1>5, <1>12, <1>13 DEF AnalysisInv

\* A step that changes nothing.
LEMMA StutterPreserves ==
    AnalysisInv /\ UNCHANGED <<advancedAnalysisVars, code, rev>> => AnalysisInv'
<1> SUFFICES ASSUME AnalysisInv, UNCHANGED <<advancedAnalysisVars, code, rev>>
             PROVE  AnalysisInv'
  OBVIOUS
<1>1. /\ UNCHANGED <<code_pos, instrs, push_values, jumpdest_offsets>>
      /\ UNCHANGED <<jumpdest_targets, block, analyzed, at, code, rev>>
  BY DEF advancedAnalysisVars
<1>2. AdvancedAnalysisTypeOK' /\ JumpdestInv' /\ PushInv'
  BY <1>1 DEF AnalysisInv, AdvancedAnalysisTypeOK, JumpdestInv,
     JumpdestIndexSound, PushInv
<1>3. BlockInv'
  <2>1. ASSUME NEW CONSTANT c
        PROVE  Saved(instrs, at, c)' = Saved(instrs, at, c)
    BY <1>1 DEF Saved
  <2>2. /\ OpenInv(instrs, at, block, code_pos)'
           = OpenInv(instrs, at, block, code_pos)
        /\ DoneInv(instrs, at)' = DoneInv(instrs, at)
    BY <1>1, <2>1 DEF OpenInv, DoneInv
  <2>3. JumpdestFirst' = JumpdestFirst
    BY <1>1 DEF JumpdestFirst, Fresh
  <2> QED
    BY <1>1, <2>2, <2>3 DEF BlockInv, AnalysisInv
<1> QED
  BY <1>2, <1>3 DEF AnalysisInv

\* AnalysisInv is an invariant: every iteration of the loop of analyze(), and
\* what follows the loop, preserve it.
THEOREM AnalysisInvariant == AdvancedAnalysisSpec => []AnalysisInv
<1>1. InitBytecode /\ InitAdvancedAnalysis => AnalysisInv
  BY InitEstablishes
<1>2. AnalysisInv /\ [AdvancedAnalyze]_<<advancedAnalysisVars, code, rev>>
      => AnalysisInv'
  BY JumpdestPreserves, SmallPushPreserves, LargePushPreserves,
     GasDependentPreserves, PcPreserves, OtherPreserves, FinishPreserves,
     StutterPreserves DEF AdvancedAnalyze
<1> QED
  BY <1>1, <1>2, PTL DEF AdvancedAnalysisSpec

-----------------------------------------------------------------------------
\* What the invariant says of the blocks that have been closed.
LEMMA ClosedFacts ==
    ASSUME AnalysisInv, NEW b \in ClosedBlocks
    PROVE  /\ Saved(instrs, at, b)
           /\ Members(b) = MembersOf(at, b)
           /\ \A k \in MembersOf(at, b) : at[k] \in OriginType
<1>1. /\ at \in Seq(OriginType) /\ instrs \in Seq(Instruction)
      /\ b \in 1..Len(instrs) /\ at[b].begin = b
      /\ analyzed \/ b # block.begin_block_index
  BY DEF AnalysisInv, AdvancedAnalysisTypeOK, ClosedBlocks
<1>2. Len(at) = Len(instrs)
  BY DEF AnalysisInv, BlockInv, OpenInv, DoneInv
<1>3. Saved(instrs, at, b)
  BY <1>1, <1>2 DEF AnalysisInv, BlockInv, OpenInv, DoneInv
<1>4. Members(b) = MembersOf(at, b)
  BY <1>2 DEF Members, MembersOf
<1>5. \A k \in MembersOf(at, b) : at[k] \in OriginType
  BY <1>1 DEF MembersOf
<1> QED
  BY <1>3, <1>4, <1>5

\* A summary clamped above the limit of the stack decides as the exact one.
LEMMA ClampedCheck ==
    ASSUME NEW h \in 0..StackLimit, NEW req \in Nat, NEW growth \in Nat
    PROVE  /\ h >= clamp(BlockStackMax, req) <=> h >= req
           /\ h + clamp(BlockStackMax, growth) <= StackLimit
              <=> h + growth <= StackLimit
BY LimitFacts DEF clamp

\* The invariant makes the stack check at block entry exact.
LEMMA StackCheckFromInv == AnalysisInv => BlockStackCheckExact
<1> SUFFICES ASSUME AnalysisInv, NEW b \in ClosedBlocks,
                    NEW h \in 0..StackLimit
             PROVE  PassesStackCheck(instrs[b].block, h)
                    <=> \A k \in Members(b) : RunsWithin(k, h)
  BY DEF BlockStackCheckExact
<1> DEFINE M == MembersOf(at, b)
<1>1. /\ Saved(instrs, at, b) /\ Members(b) = M
      /\ \A k \in M : at[k] \in OriginType
  BY ClosedFacts
<1>2. PICK req \in Nat, growth \in Nat, gas \in Nat :
        /\ Summary(at, b, req, growth, gas)
        /\ instrs[b].block
           = [gas_cost |-> clamp(BlockGasMax, gas),
              stack_req |-> clamp(BlockStackMax, req),
              stack_max_growth |-> clamp(BlockStackMax, growth)]
  BY <1>1 DEF Saved
<1>3. PassesStackCheck(instrs[b].block, h)
      <=> h >= req /\ h + growth <= StackLimit
  <2>1. /\ instrs[b].block.stack_req = clamp(BlockStackMax, req)
        /\ instrs[b].block.stack_max_growth = clamp(BlockStackMax, growth)
    BY <1>2
  <2> QED
    BY <2>1, ClampedCheck DEF PassesStackCheck
<1>4. \A k \in M : /\ Need(at[k]) \in Int /\ Height(at[k]) \in Int
                   /\ RunsWithin(k, h) <=> /\ Need(at[k]) <= h
                                           /\ h + Height(at[k]) <= StackLimit
  <2>1. TAKE k \in M
  <2> DEFINE req1 == at[k].info.stack_req
             delta == at[k].info.stack_change
             before == at[k].change
  <2>2. at[k].info \in op_table_entry /\ before \in Int
    BY <1>1 DEF OriginType
  <2>3. req1 \in Nat /\ delta \in Int
    BY <2>2, EntryNumbers
  <2>4. /\ Need(at[k]) = req1 - before /\ Height(at[k]) = before + delta
        /\ RunsWithin(k, h) <=> /\ h + before >= req1
                                /\ h + before + delta <= StackLimit
    BY DEF Need, Height, RunsWithin
  <2> HIDE DEF req1, delta, before
  <2> QED
    BY <2>2, <2>3, <2>4, LimitFacts
<1> HIDE DEF M
<1>5. ASSUME h >= req, h + growth <= StackLimit, NEW k \in M
      PROVE  RunsWithin(k, h)
  <2>1. Need(at[k]) <= req /\ Height(at[k]) <= growth
    BY <1>2 DEF Summary, M
  <2> QED
    BY <2>1, <1>4, <1>5, LimitFacts
<1>6. ASSUME \A k \in M : RunsWithin(k, h)
      PROVE  h >= req /\ h + growth <= StackLimit
  <2>1. /\ req = 0 \/ \E k \in M : Need(at[k]) = req
        /\ growth = 0 \/ \E k \in M : Height(at[k]) = growth
    BY <1>2 DEF Summary, M
  <2>2. h >= req
    BY <2>1, <1>4, <1>6
  <2>3. h + growth <= StackLimit
    BY <2>1, <1>4, <1>6, LimitFacts
  <2> QED
    BY <2>2, <2>3
<1> QED
  BY <1>1, <1>3, <1>5, <1>6

\* The invariant makes the gas charged at block entry exact.
LEMMA BlockGasFromInv == AnalysisInv => BlockGasExact
<1> SUFFICES ASSUME AnalysisInv, Len(code) <= max_code_size,
                    NEW b \in ClosedBlocks
             PROVE  /\ \A k \in Members(b) :
                         Cost(at[k]) <= instrs[b].block.gas_cost
                    /\ \E k \in Members(b) :
                         Cost(at[k]) = instrs[b].block.gas_cost
  BY DEF BlockGasExact, Cost
<1> DEFINE M == MembersOf(at, b)
<1>1. Saved(instrs, at, b) /\ Members(b) = M
  BY ClosedFacts
<1>2. PICK req \in Nat, growth \in Nat, gas \in Nat :
        /\ Summary(at, b, req, growth, gas)
        /\ instrs[b].block
           = [gas_cost |-> clamp(BlockGasMax, gas),
              stack_req |-> clamp(BlockStackMax, req),
              stack_max_growth |-> clamp(BlockStackMax, growth)]
        /\ gas <= Len(code) * max_instruction_base_cost
  BY <1>1 DEF Saved
<1>3. gas <= BlockGasMax
  <2> DEFINE ofCode == Len(code) * max_instruction_base_cost
             ofMax == max_code_size * max_instruction_base_cost
  <2>1. Len(code) \in Nat
    BY CodesAssumption DEF AnalysisInv, AdvancedAnalysisTypeOK
  <2>2. ofCode \in Nat /\ ofMax \in Nat
    BY <2>1, LimitFacts
  <2>3. ofCode <= ofMax
    <3>1. CASE Len(code) = max_code_size
      BY <3>1, <2>2
    <3>2. CASE Len(code) # max_code_size
      <4>1. ofCode + max_instruction_base_cost <= ofMax
        BY <3>2, <2>1, ProductStep, LimitFacts
      <4> HIDE DEF ofCode, ofMax
      <4> QED
        BY <4>1, <2>2, LimitFacts
    <3> QED
      BY <3>1, <3>2
  <2>4. ofMax < BlockGasMax /\ gas <= ofCode
    BY <1>2, BlockInfoAssumption
  <2> HIDE DEF ofCode, ofMax
  <2> QED
    BY <2>2, <2>3, <2>4, LimitFacts
<1>4. instrs[b].block.gas_cost = gas
  BY <1>2, <1>3 DEF clamp
<1> QED
  BY <1>1, <1>2, <1>4 DEF Summary

\* The invariant says that the table follows the code.
LEMMA TableFromInv == AnalysisInv => TableFollowsCode
<1> SUFFICES ASSUME AnalysisInv PROVE TableFollowsCode
  OBVIOUS
<1>1. Len(at) = Len(instrs) /\ Chain(at)
  BY DEF AnalysisInv, BlockInv, OpenInv, DoneInv
<1> QED
  BY <1>1 DEF TableFollowsCode, Chain, Follows, Cost, Height

\* The invariant bounds the number of stored push values.
LEMMA PushStorageFromInv == AnalysisInv => PushStorageSuffices
<1> SUFFICES ASSUME AnalysisInv PROVE PushStorageSuffices
  OBVIOUS
<1>1. /\ push_values \in Seq(Seq(Byte)) /\ code \in Codes
      /\ code_pos \in 0..Len(code) /\ 2 * Len(push_values) <= code_pos + 1
  BY DEF AnalysisInv, AdvancedAnalysisTypeOK, PushInv
<1>2. Len(push_values) \in Nat /\ Len(code) \in Nat
  BY <1>1, CodesAssumption
<1>3. 2 * Len(push_values) <= Len(code) + 1
  BY <1>1, <1>2
<1> QED
  BY <1>2, <1>3 DEF PushStorageSuffices

-----------------------------------------------------------------------------
\* The values of the analysis keep their types, the summaries of blocks the
\* widths of block_info, for every code, table of instructions and limits.
THEOREM AnalysisTypes == AdvancedAnalysisSpec => []AdvancedAnalysisTypeOK
BY AnalysisInvariant, PTL DEF AnalysisInv

\* One stack check per block, on the clamped summary that analyze() saved,
\* decides exactly as a check before every instruction of the block would.
THEOREM StackCheckExact == AdvancedAnalysisSpec => []BlockStackCheckExact
BY AnalysisInvariant, StackCheckFromInv, PTL

\* For code within max_code_size the gas charged at the entry of a block is
\* exactly what its instructions cost: close() never clamps it.
THEOREM GasExact == AdvancedAnalysisSpec => []BlockGasExact
BY AnalysisInvariant, BlockGasFromInv, PTL

\* The table that analyze() builds covers the code without a gap, and the
\* block it accumulates is exact at every instruction.
THEOREM TableCoversCode == AdvancedAnalysisSpec => []TableFollowsCode
BY AnalysisInvariant, TableFromInv, PTL

\* The offsets that find_jumpdest() searches are sorted and lead to the
\* BEGINBLOCK of a block that starts with a JUMPDEST.
THEOREM JumpdestsSound == AdvancedAnalysisSpec => []JumpdestIndexSound
BY AnalysisInvariant, PTL DEF AnalysisInv, JumpdestInv

\* The storage of large push values is never outgrown, so the pointers kept in
\* instructions stay valid.
THEOREM PushStorageEnough == AdvancedAnalysisSpec => []PushStorageSuffices
BY AnalysisInvariant, PushStorageFromInv, PTL

-----------------------------------------------------------------------------
(***************************************************************************)
(* The entries of the table: i is an instruction, o its history, k its     *)
(* index and p the stored push values.                                     *)
(***************************************************************************)
OpAt(offset) == code[offset + 1]

\* The offset after the instruction at an offset, and the data of a push there.
AfterAt(offset) ==
    IF OpAt(offset) \in PushOps
    THEN Smaller(offset + 1 + PushSize(OpAt(offset)), Len(code))
    ELSE offset + 1
DataAt(offset) ==
    [n \in 1..PushSize(OpAt(offset)) |->
        IF offset + 1 + n <= Len(code) THEN code[offset + 1 + n] ELSE 0]

\* Whether the entry stands for an instruction of the code.
OfCode(o) == o.next > o.offset

\* A BEGINBLOCK that stands for no instruction of the code.
Injected(i, o, k) ==
    /\ i.fn = OPX_BEGINBLOCK
    /\ o.begin = k /\ o.next = o.offset /\ o.info = NoInfo
    /\ o.gas = 0 /\ o.change = 0

\* The argument of the instruction is the one its function reads.
ArgumentOf(i, o, p) ==
    LET op == OpAt(o.offset)
    IN  /\ op \in PushOps /\ PushSize(op) <= SmallPushMax
           => i.small_push_value = DataAt(o.offset)
        /\ op \in PushOps /\ PushSize(op) > SmallPushMax
           => i.push_value \in 1..Len(p) /\ p[i.push_value] = DataAt(o.offset)
        /\ op \in GasDependent => i.number = Cost(o)
        /\ op = OP.PC => i.number = o.offset

Translated(i, o, k, p) ==
    LET op == OpAt(o.offset)
    IN  /\ o.offset < Len(code)
        /\ o.info = OpTable[rev][op]
        /\ o.next = AfterAt(o.offset)
        /\ op = OP.JUMPDEST => /\ i.fn = OPX_BEGINBLOCK /\ o.begin = k
                               /\ o.gas = 0 /\ o.change = 0
        /\ op # OP.JUMPDEST => i.fn = o.info.fn /\ o.begin # k
        /\ ArgumentOf(i, o, p)

\* The STOP after the last block.
Appended(i, o, k) ==
    /\ o.offset = Len(code) /\ o.next = Len(code) /\ o.begin # k
    /\ o.info = OpTable[rev][OP.STOP] /\ i.fn = o.info.fn

EntryOK(i, o, k, p) == Injected(i, o, k) \/ Translated(i, o, k, p)

\* The entries are in the order of the code, up to position pos; a terminator
\* is the last instruction of its block; a BEGINBLOCK is followed by an
\* instruction.
Ordered(h, pos) ==
    /\ h[1].offset = 0 /\ h[1].begin = 1
    /\ \A k \in 1..Len(h) : h[k].offset <= h[k].next /\ h[k].next <= pos
    /\ \A j, k \in 1..Len(h) : j < k => h[j].next <= h[k].offset
    /\ \A k \in 1..Len(h) - 1 :
         /\ OfCode(h[k]) /\ OpAt(h[k].offset) \in Terminators
            => h[k + 1].begin = k + 1
         /\ ~OfCode(h[k]) => h[k + 1].begin # k + 1

\* The last instruction so far does not end its block.
BlockOpen(h) == LET o == h[Len(h)]
                IN  ~(OfCode(o) /\ OpAt(o.offset) \in Terminators)

\* The JUMPDESTs of the code are exactly those in the index.
Indexed ==
    /\ \A j \in 1..Len(jumpdest_offsets) : OfCode(at[jumpdest_targets[j]])
    /\ \A k \in 1..Len(at) :
         OfCode(at[k]) /\ OpAt(at[k].offset) = OP.JUMPDEST =>
           \E j \in 1..Len(jumpdest_offsets) :
             jumpdest_offsets[j] = at[k].offset /\ jumpdest_targets[j] = k

Entries(n) == \A k \in 1..n : EntryOK(instrs[k], at[k], k, push_values)

\* The inductive invariant of the table.
TableInv ==
    /\ Ordered(at, code_pos)
    /\ Indexed
    /\ ~analyzed => Entries(Len(instrs)) /\ BlockOpen(at)
    /\ analyzed => /\ code_pos = Len(code)
                   /\ Entries(Len(instrs) - 1)
                   /\ Appended(instrs[Len(instrs)], at[Len(instrs)],
                               Len(instrs))

-----------------------------------------------------------------------------
(***************************************************************************)
(* The scan of Baseline, which follows the entries of the table.           *)
(***************************************************************************)
Boundary(offset) == \E k \in 1..Len(at) : at[k].offset = offset

IsJumpdest(offset) ==
    \E k \in 1..Len(at) : /\ at[k].offset = offset /\ OfCode(at[k])
                          /\ OpAt(offset) = OP.JUMPDEST

\* The scan left the code in the data of a push that it cuts off.
PastEnd(offset) ==
    \E k \in 1..Len(at) :
        /\ OfCode(at[k]) /\ OpAt(at[k].offset) \in PushOps
        /\ offset = at[k].offset + 1 + PushSize(OpAt(at[k].offset))
        /\ offset > Len(code)

\* No push is cut off if the scan ended at the end of the code.
EndInv ==
    analyzed /\ scan_pos = Len(code) =>
        \A k \in 1..Len(at) :
            OfCode(at[k]) /\ OpAt(at[k].offset) \in PushOps =>
                at[k].offset + 1 + PushSize(OpAt(at[k].offset)) <= Len(code)

ScanInv ==
    /\ EndInv
    /\ scan_pos \in Nat
    /\ jumpdest_map \in [0..Len(code) - 1 -> BOOLEAN]
    /\ prepared \in BOOLEAN
    /\ prepared => scan_pos >= Len(code)
    /\ ~analyzed => scan_pos = 0 /\ ~prepared
    /\ analyzed => Boundary(scan_pos) \/ PastEnd(scan_pos)
    /\ \A o \in 0..Len(code) - 1 :
         jumpdest_map[o] <=> o < scan_pos /\ analyzed /\ IsJumpdest(o)

\* What the interpreters rely on of the padded code.
PaddingInv ==
    prepared =>
        /\ DOMAIN padded_code = 0..scan_pos
        /\ \A n \in 0..scan_pos : padded_code[n] \in Byte
        /\ \A n \in 0..Len(code) - 1 : padded_code[n] = code[n + 1]
        /\ padded_code[Len(code)] = OP.STOP
        /\ padded_code[scan_pos] = OP.STOP

AnalysesInv == AnalysisInv /\ TableInv /\ ScanInv /\ PaddingInv

-----------------------------------------------------------------------------
(***************************************************************************)
(* The table.                                                              *)
(***************************************************************************)
\* Two instructions that differ at most in the summary of a block.
SameArgument(i, j) ==
    /\ i.fn = j.fn /\ i.number = j.number
    /\ i.small_push_value = j.small_push_value /\ i.push_value = j.push_value

\* Push values are only ever added.
Extends(p, q) == /\ Len(p) \in Nat /\ Len(q) \in Nat /\ Len(p) <= Len(q)
                 /\ \A n \in 1..Len(p) : q[n] = p[n]

\* An entry stays right when a block is closed or a push value added.
LEMMA EntryKept ==
    ASSUME NEW i, NEW j, NEW o, NEW k, NEW p, NEW q,
           EntryOK(j, o, k, p), SameArgument(i, j), Extends(p, q)
    PROVE  EntryOK(i, o, k, q)
<1>1. CASE Injected(j, o, k)
  BY <1>1 DEF Injected, SameArgument, EntryOK
<1>2. CASE Translated(j, o, k, p)
  <2>1. ArgumentOf(i, o, q)
    <3>1. ArgumentOf(j, o, p)
      BY <1>2 DEF Translated
    <3>2. \A n \in 1..Len(p) : n \in 1..Len(q) /\ q[n] = p[n]
      BY DEF Extends
    <3> QED
      BY <3>1, <3>2 DEF ArgumentOf, SameArgument
  <2> QED
    BY <1>2, <2>1 DEF Translated, SameArgument, EntryOK
<1> QED
  BY <1>1, <1>2 DEF EntryOK

\* Closing a block changes nothing but its summary.
LEMMA SaveBlockSame ==
    ASSUME NEW t \in Seq(Instruction), NEW b \in BlockAnalysis,
           b.begin_block_index \in 1..Len(t), NEW k \in 1..Len(t)
    PROVE  SameArgument(SaveBlock(t, b)[k], t[k])
<1> DEFINE c == b.begin_block_index
           i == [t[c] EXCEPT !.block = close(b)]
<1>1. t[c] \in Instruction
  OBVIOUS
<1>2. SameArgument(i, t[c])
  BY <1>1 DEF SameArgument, Instruction
<1>3. SaveBlock(t, b) = [t EXCEPT ![c] = i]
  BY DEF SaveBlock
<1> HIDE DEF i
<1>4. SaveBlock(t, b)[k] = IF k = c THEN i ELSE t[k]
  BY <1>3
<1> QED
  BY <1>2, <1>4 DEF SameArgument

\* What the end of an iteration does to the table.
LEMMA AdvanceTable ==
    ASSUME AdvancedAnalysisTypeOK, ~analyzed, code_pos # Len(code),
           NEW t \in Seq(Instruction), NEW h \in Seq(OriginType),
           Len(t) = Len(h), block.begin_block_index \in 1..Len(t),
           NEW next \in 1..Len(code), Advance(t, h, next)
    PROVE  /\ Len(at') = Len(instrs')
           /\ \A k \in 1..Len(t) : /\ at'[k] = h[k]
                                   /\ SameArgument(instrs'[k], t[k])
           /\ \/ /\ EndsBlock(next) /\ Len(instrs') = Len(t) + 1
                 /\ Injected(instrs'[Len(t) + 1], at'[Len(t) + 1], Len(t) + 1)
                 /\ at'[Len(t) + 1].offset = next
              \/ ~EndsBlock(next) /\ Len(instrs') = Len(t)
<1> DEFINE b == AddToBlock(block, opcode_info)
           n == Len(t)
<1>1. /\ b \in BlockAnalysis /\ b.begin_block_index = block.begin_block_index
      /\ n \in Nat
  <2>1. block \in BlockAnalysis /\ opcode_info \in op_table_entry
    BY OpcodeInfo DEF AdvancedAnalysisTypeOK
  <2> QED
    BY <2>1, AddToBlockType DEF AddToBlock
<1>2. CASE EndsBlock(next)
  <2> DEFINE i == instruction(OPX_BEGINBLOCK)
             o == Origin(block_analysis(n + 1), next, next, NoInfo)
             u == SaveBlock(t, b)
  <2>1. instrs' = Append(u, i) /\ at' = Append(h, o)
    BY <1>2 DEF Advance, SaveBlock
  <2>2. /\ u \in Seq(Instruction) /\ Len(u) = n
        /\ \A k \in 1..n : SameArgument(u[k], t[k])
    BY <1>1, SaveBlockTable, SaveBlockSame
  <2>3. Injected(i, o, n + 1) /\ o.offset = next
    BY DEF Injected, instruction, Origin, block_analysis
  <2> HIDE DEF i, o, u, n
  <2>4. /\ Len(instrs') = n + 1 /\ Len(at') = n + 1
        /\ instrs'[n + 1] = i /\ at'[n + 1] = o
        /\ \A k \in 1..n : instrs'[k] = u[k] /\ at'[k] = h[k]
    <3>1. /\ Len(instrs') = n + 1 /\ instrs'[n + 1] = i
          /\ \A k \in 1..n : instrs'[k] = u[k]
      BY <2>1, <2>2
    <3>2. Len(h) = n
      BY DEF n
    <3>3. /\ Len(at') = n + 1 /\ at'[n + 1] = o
          /\ \A k \in 1..n : at'[k] = h[k]
      BY <2>1, <3>2
    <3> QED
      BY <3>1, <3>3
  <2> QED
    BY <1>2, <2>2, <2>3, <2>4 DEF n
<1>3. CASE ~EndsBlock(next)
  <2>1. instrs' = t /\ at' = h
    BY <1>3 DEF Advance
  <2> QED
    BY <1>3, <2>1 DEF SameArgument
<1> QED
  BY <1>2, <1>3

\* A block that ends keeps the order of the entries.
LEMMA AdvanceOrdered ==
    ASSUME AdvancedAnalysisTypeOK, ~analyzed, code_pos # Len(code),
           NEW t \in Seq(Instruction), NEW h \in Seq(OriginType),
           Len(t) = Len(h), Len(t) > 0,
           block.begin_block_index \in 1..Len(t),
           NEW next \in 1..Len(code), Advance(t, h, next),
           Ordered(h, next), OfCode(h[Len(h)]), h[Len(h)].offset = code_pos
    PROVE  Ordered(at, code_pos)' /\ BlockOpen(at)'
<1> DEFINE n == Len(t)
<1>0. n \in Nat /\ n > 0 /\ n = Len(h) /\ next \in Nat
  BY CodesAssumption DEF AdvancedAnalysisTypeOK
<1>1. code' = code /\ code_pos' = next
  BY DEF Advance
<1>2. /\ Len(at') = Len(instrs')
      /\ \A k \in 1..n : at'[k] = h[k]
      /\ \/ /\ EndsBlock(next) /\ Len(instrs') = n + 1
            /\ Injected(instrs'[n + 1], at'[n + 1], n + 1)
            /\ at'[n + 1].offset = next
         \/ ~EndsBlock(next) /\ Len(instrs') = n
  BY AdvanceTable
<1>3. \A k \in 1..n : h[k] \in OriginType
  BY <1>0
<1>4. \A k \in 1..n : h[k].offset \in Nat /\ h[k].next \in Nat
  BY <1>3 DEF OriginType
<1>5. /\ h[1].offset = 0 /\ h[1].begin = 1
      /\ \A k \in 1..n : h[k].offset <= h[k].next /\ h[k].next <= next
      /\ \A j, k \in 1..n : j < k => h[j].next <= h[k].offset
      /\ \A k \in 1..n - 1 :
           /\ OfCode(h[k]) /\ OpAt(h[k].offset) \in Terminators
              => h[k + 1].begin = k + 1
           /\ ~OfCode(h[k]) => h[k + 1].begin # k + 1
  BY <1>0 DEF Ordered
<1>6. OpAt(code_pos) = opcode /\ OfCode(h[n]) /\ h[n].offset = code_pos
  BY <1>0 DEF OpAt, opcode
<1> HIDE DEF n
<1>7. CASE ~EndsBlock(next)
  <2>1. at' = h /\ Len(at') = n
    BY <1>0, <1>7 DEF Advance
  <2>2. Ordered(at, code_pos)'
    BY <1>1, <2>1 DEF Ordered, OpAt
  <2>3. opcode \notin Terminators
    BY <1>7 DEF EndsBlock
  <2> QED
    BY <1>0, <1>1, <1>2, <1>6, <2>1, <2>2, <2>3 DEF BlockOpen, OpAt, opcode
<1>8. CASE EndsBlock(next)
  <2> DEFINE o == at'[n + 1]
  <2>1. /\ Len(at') = n + 1 /\ o.offset = next /\ o.next = next
        /\ o.begin = n + 1
    BY <1>2, <1>8 DEF Injected
  <2> HIDE DEF o
  <2>2. ~OfCode(o)
    BY <1>0, <2>1 DEF OfCode
  <2>3. \A k \in 1..n + 1 : /\ at'[k].offset <= at'[k].next
                            /\ at'[k].next <= next
    BY <1>0, <1>2, <1>5, <2>1 DEF o
  <2>4. \A j, k \in 1..n + 1 : j < k => at'[j].next <= at'[k].offset
    BY <1>0, <1>2, <1>5, <2>1 DEF o
  <2>5. \A k \in 1..n :
          /\ OfCode(at'[k]) /\ OpAt(at'[k].offset) \in Terminators
             => at'[k + 1].begin = k + 1
          /\ ~OfCode(at'[k]) => at'[k + 1].begin # k + 1
    <3> TAKE k \in 1..n
    <3>1. CASE k = n
      BY <3>1, <1>0, <1>2, <1>6, <2>1 DEF o
    <3>2. CASE k # n
      <4>1. k \in 1..n - 1 /\ k + 1 \in 1..n
        BY <3>2, <1>0
      <4> QED
        BY <4>1, <1>2, <1>5
    <3> QED
      BY <3>1, <3>2
  <2>6. Ordered(at, code_pos)'
    <3>1. at'[1].offset = 0 /\ at'[1].begin = 1
      BY <1>0, <1>2, <1>5
    <3>2. \A k \in 1..Len(at') - 1 : k \in 1..n
      BY <2>1, <1>0
    <3> QED
      BY <3>1, <3>2, <1>1, <2>1, <2>3, <2>4, <2>5 DEF Ordered, OpAt
  <2> QED
    BY <2>1, <2>2, <2>6 DEF BlockOpen, o
<1> QED
  BY <1>7, <1>8

\* The code never changes, so an entry means the same after a step.
LEMMA EntryPrimed ==
    ASSUME code' = code, rev' = rev, NEW CONSTANT k
    PROVE  EntryOK(instrs[k], at[k], k, push_values)'
           <=> EntryOK(instrs'[k], at'[k], k, push_values')
BY DEF EntryOK, Injected, Translated, ArgumentOf, AfterAt, DataAt, OpAt

\* The end of an iteration keeps the entries right.
LEMMA AdvanceEntries ==
    ASSUME AdvancedAnalysisTypeOK, ~analyzed, code_pos # Len(code),
           NEW t \in Seq(Instruction), NEW h \in Seq(OriginType),
           Len(t) = Len(h), block.begin_block_index \in 1..Len(t),
           NEW next \in 1..Len(code), Advance(t, h, next),
           \A k \in 1..Len(t) : EntryOK(t[k], h[k], k, push_values'),
           Len(push_values') \in Nat
    PROVE  Entries(Len(instrs))'
<1> DEFINE n == Len(t)
<1>1. /\ \A k \in 1..n : /\ at'[k] = h[k]
                         /\ SameArgument(instrs'[k], t[k])
      /\ \/ /\ Len(instrs') = n + 1
            /\ Injected(instrs'[n + 1], at'[n + 1], n + 1)
         \/ Len(instrs') = n
  BY AdvanceTable
<1>2. code' = code /\ rev' = rev /\ n \in Nat
  BY DEF Advance
<1>3. Extends(push_values', push_values')
  BY DEF Extends
<1>4. ASSUME NEW k \in 1..Len(instrs')
      PROVE  EntryOK(instrs'[k], at'[k], k, push_values')
  <2>1. CASE k \in 1..n
    BY <2>1, <1>1, <1>3, EntryKept
  <2>2. CASE k \notin 1..n
    <3>1. k = n + 1 /\ Injected(instrs'[k], at'[k], k)
      BY <2>2, <1>1, <1>2
    <3> QED
      BY <3>1 DEF EntryOK
  <2> QED
    BY <2>1, <2>2
<1> HIDE DEF n
<1> QED
  BY <1>2, <1>4, EntryPrimed DEF Entries

\* Nothing before the position of the analysis changes when an instruction is
\* emitted, nor do the jump destinations.
LEMMA EmitTable ==
    ASSUME AnalysisInv, TableInv, InLoop, opcode # OP.JUMPDEST,
           NEW i \in Instruction, i.fn = opcode_info.fn,
           Emit(i, AfterAt(code_pos)),
           ArgumentOf(i, Origin(block, code_pos, AfterAt(code_pos),
                                opcode_info), push_values'),
           Extends(push_values, push_values'),
           jumpdest_offsets' = jumpdest_offsets,
           jumpdest_targets' = jumpdest_targets
    PROVE  TableInv'
<1> DEFINE next == AfterAt(code_pos)
           n == Len(instrs)
           o == Origin(block, code_pos, next, opcode_info)
           t == Append(instrs, i)
           h == Append(at, o)
<1>1. /\ AdvancedAnalysisTypeOK /\ ~analyzed /\ code_pos # Len(code)
      /\ instrs \in Seq(Instruction) /\ at \in Seq(OriginType)
      /\ block \in BlockAnalysis
  BY DEF AnalysisInv, AdvancedAnalysisTypeOK, InLoop
<1>2. /\ Len(code) \in Nat /\ code_pos \in Nat /\ code_pos < Len(code)
      /\ opcode \in Byte /\ opcode_info \in op_table_entry
  BY LoopFacts
<1>3. next \in 1..Len(code) /\ next > code_pos
  <2>1. opcode = OpAt(code_pos)
    BY DEF opcode, OpAt
  <2>2. CASE opcode \in PushOps
    <3>1. next = AfterPush
      BY <2>1, <2>2 DEF AfterAt, AfterPush
    <3>2. AfterPush \in Nat /\ AfterPush > code_pos /\ AfterPush <= Len(code)
      BY <2>2, AfterPushFacts
    <3> QED
      BY <3>1, <3>2, <1>2
  <2>3. CASE opcode \notin PushOps
    <3>1. next = code_pos + 1
      BY <2>1, <2>3 DEF AfterAt
    <3> QED
      BY <3>1, <1>2
  <2> QED
    BY <2>2, <2>3
<1> HIDE DEF next
<1>4. /\ o \in OriginType /\ o.offset = code_pos /\ o.next = next
      /\ o.begin = block.begin_block_index /\ o.info = opcode_info
  BY <1>1, <1>2, <1>3, OriginIsTyped DEF Origin
<1>5. /\ n = Len(at) /\ n \in Nat /\ n > 0
      /\ block.begin_block_index \in 1..n /\ at[n].next = code_pos
  BY <1>1 DEF AnalysisInv, BlockInv, OpenInv
<1>6. Advance(t, h, next) /\ ArgumentOf(i, o, push_values')
  BY DEF Emit, next
<1> HIDE DEF o
<1>7. /\ t \in Seq(Instruction) /\ Len(t) = n + 1 /\ t[n + 1] = i
      /\ \A k \in 1..n : t[k] = instrs[k]
  BY <1>1
<1>8. /\ h \in Seq(OriginType) /\ Len(h) = n + 1 /\ h[n + 1] = o
      /\ \A k \in 1..n : h[k] = at[k]
  BY <1>1, <1>4, <1>5
<1>9. code' = code /\ rev' = rev /\ code_pos' = next /\ analyzed' = FALSE
  BY <1>1, <1>6 DEF Advance
<1>10. Ordered(at, code_pos) /\ Indexed /\ Entries(n) /\ BlockOpen(at)
  BY <1>1 DEF TableInv
<1>11. OfCode(o) /\ ~(opcode = OP.JUMPDEST) /\ OpAt(o.offset) = opcode
  BY <1>3, <1>4 DEF OfCode, OpAt, opcode
<1> HIDE DEF t, h, n
<1>12. Ordered(h, next)
  <2>1. \A k \in 1..n : at[k].offset \in Nat /\ at[k].next \in Nat
    <3>1. \A k \in 1..n : at[k] \in OriginType
      BY <1>1, <1>5
    <3> QED
      BY <3>1 DEF OriginType
  <2>2. h[1].offset = 0 /\ h[1].begin = 1
    BY <1>5, <1>8, <1>10 DEF Ordered
  <2>3. \A k \in 1..n + 1 : h[k].offset <= h[k].next /\ h[k].next <= next
    BY <2>1, <1>2, <1>3, <1>4, <1>5, <1>8, <1>10 DEF Ordered
  <2>4. \A j, k \in 1..n + 1 : j < k => h[j].next <= h[k].offset
    BY <2>1, <1>2, <1>4, <1>5, <1>8, <1>10 DEF Ordered
  <2>5. \A k \in 1..n :
          /\ OfCode(h[k]) /\ OpAt(h[k].offset) \in Terminators
             => h[k + 1].begin = k + 1
          /\ ~OfCode(h[k]) => h[k + 1].begin # k + 1
    <3> TAKE k \in 1..n
    <3>1. CASE k = n
      BY <3>1, <1>4, <1>5, <1>8, <1>10 DEF BlockOpen
    <3>2. CASE k # n
      <4>1. k \in 1..n - 1 /\ k + 1 \in 1..n
        BY <3>2, <1>5
      <4> QED
        BY <4>1, <1>5, <1>8, <1>10 DEF Ordered
    <3> QED
      BY <3>1, <3>2
  <2>6. \A k \in 1..Len(h) - 1 : k \in 1..n
    BY <1>5, <1>8
  <2> QED
    BY <2>2, <2>3, <2>4, <2>5, <2>6, <1>8 DEF Ordered
<1>13. \A k \in 1..Len(t) : EntryOK(t[k], h[k], k, push_values')
  <2> TAKE k \in 1..Len(t)
  <2>1. CASE k \in 1..n
    <3>1. EntryOK(instrs[k], at[k], k, push_values)
      BY <2>1, <1>10 DEF Entries
    <3>2. SameArgument(instrs[k], instrs[k])
      BY DEF SameArgument
    <3>3. EntryOK(instrs[k], at[k], k, push_values')
      BY <3>1, <3>2, EntryKept
    <3> QED
      BY <3>3, <2>1, <1>7, <1>8
  <2>2. CASE k \notin 1..n
    <3>1. k = n + 1
      BY <2>2, <1>5, <1>7
    <3>2. o.begin # n + 1
      BY <1>4, <1>5
    <3>3. Translated(i, o, n + 1, push_values')
      BY <3>2, <1>2, <1>4, <1>6, <1>11
      DEF Translated, opcode_info, next
    <3> QED
      BY <3>1, <3>3, <1>7, <1>8 DEF EntryOK
  <2> QED
    BY <2>1, <2>2
<1>14. Entries(Len(instrs))'
  <2>1. block.begin_block_index \in 1..Len(t) /\ Len(t) = Len(h)
    BY <1>5, <1>7, <1>8
  <2>2. Len(push_values') \in Nat
    BY DEF Extends
  <2> QED
    BY <2>1, <2>2, <1>1, <1>3, <1>6, <1>7, <1>8, <1>13, AdvanceEntries
<1>15. Ordered(at, code_pos)' /\ BlockOpen(at)'
  <2>1. /\ block.begin_block_index \in 1..Len(t) /\ Len(t) = Len(h)
        /\ Len(t) > 0 /\ OfCode(h[Len(h)]) /\ h[Len(h)].offset = code_pos
    BY <1>4, <1>5, <1>7, <1>8, <1>11
  <2> QED
    BY <2>1, <1>1, <1>3, <1>6, <1>7, <1>8, <1>12, AdvanceOrdered
<1>16. Indexed'
  <2>1. /\ \A k \in 1..n + 1 : at'[k] = h[k]
        /\ \/ /\ Len(at') = n + 2
              /\ Injected(instrs'[n + 2], at'[n + 2], n + 2)
              /\ at'[n + 2].offset = next
           \/ Len(at') = n + 1
    <3>1. block.begin_block_index \in 1..Len(t) /\ Len(t) = Len(h)
      BY <1>5, <1>7, <1>8
    <3>2. /\ Len(at') = Len(instrs')
          /\ \A k \in 1..Len(t) : at'[k] = h[k]
          /\ \/ /\ Len(instrs') = Len(t) + 1
                /\ Injected(instrs'[Len(t) + 1], at'[Len(t) + 1], Len(t) + 1)
                /\ at'[Len(t) + 1].offset = next
             \/ Len(instrs') = Len(t)
      BY <3>1, <1>1, <1>3, <1>6, <1>7, <1>8, AdvanceTable
    <3>3. Len(t) + 1 = n + 2
      BY <1>5, <1>7
    <3> QED
      BY <3>2, <3>3, <1>7
  <2>2. ASSUME NEW j \in 1..Len(jumpdest_offsets)
        PROVE  OfCode(at'[jumpdest_targets[j]])
    <3>1. jumpdest_targets[j] \in 1..n
      BY DEF AnalysisInv, JumpdestInv, JumpdestIndexSound, n
    <3>2. at'[jumpdest_targets[j]] = at[jumpdest_targets[j]]
      BY <3>1, <2>1, <1>5, <1>8
    <3> QED
      BY <3>2, <1>10 DEF Indexed
  <2>3. ASSUME NEW k \in 1..Len(at'), OfCode(at'[k]),
               OpAt(at'[k].offset) = OP.JUMPDEST
        PROVE  \E j \in 1..Len(jumpdest_offsets) :
                 jumpdest_offsets[j] = at'[k].offset /\ jumpdest_targets[j] = k
    <3>1. CASE k \in 1..n
      <4>1. at'[k] = at[k]
        BY <3>1, <2>1, <1>5, <1>8
      <4> QED
        BY <4>1, <3>1, <2>3, <1>5, <1>10 DEF Indexed
    <3>2. CASE k = n + 1
      BY <3>2, <2>1, <2>3, <1>5, <1>8, <1>11
    <3>3. CASE k = n + 2 /\ Len(at') = n + 2
      <4>1. Injected(instrs'[k], at'[k], k) /\ at'[k].offset = next
        BY <3>3, <2>1, <1>5
      <4>2. ~OfCode(at'[k])
        BY <4>1, <1>2, <1>3 DEF Injected, OfCode
      <4> QED
        BY <4>2, <2>3
    <3> QED
      BY <3>1, <3>2, <3>3, <2>1, <1>5
  <2> QED
    BY <2>2, <2>3, <1>9 DEF Indexed, OpAt
<1> QED
  BY <1>9, <1>14, <1>15, <1>16 DEF TableInv

\* The opcodes that need an argument are pairwise different.
LEMMA OpcodeKinds ==
    /\ \A op \in PushOps : op # OP.JUMPDEST /\ op # OP.PC /\ op \notin GasDependent
    /\ \A op \in GasDependent : op # OP.JUMPDEST /\ op # OP.PC
    /\ OP.PC # OP.JUMPDEST
    /\ OP.JUMPDEST \notin Terminators /\ OP.JUMPDEST \in Byte
BY DEF PushOps, GasDependent, Terminators, Byte, OP

LEMMA SmallPushTable == AnalysisInv /\ TableInv /\ AnalyzeSmallPush => TableInv'
<1> SUFFICES ASSUME AnalysisInv, TableInv, AnalyzeSmallPush PROVE TableInv'
  OBVIOUS
<1> DEFINE data == PushData(PushSize(opcode))
           i == [instruction(opcode_info.fn) EXCEPT !.small_push_value = data]
<1>1. /\ InLoop /\ opcode \in PushOps /\ PushSize(opcode) <= SmallPushMax
      /\ Emit(i, AfterPush) /\ push_values' = push_values
      /\ jumpdest_offsets' = jumpdest_offsets
      /\ jumpdest_targets' = jumpdest_targets
  BY DEF AnalyzeSmallPush
<1>2. /\ PushSize(opcode) \in 1..32 /\ code \in Codes /\ code_pos \in Nat
      /\ opcode_info.fn \in Int /\ Len(push_values) \in Nat
  BY <1>1, LoopFacts, PushFacts
<1>3. data \in Seq(Byte) /\ instruction(opcode_info.fn) \in Instruction
  <2>1. PushSize(opcode) \in Nat
    <3>1. PushSize(opcode) \in 1..32
      BY <1>1, PushFacts
    <3> QED
      BY <3>1
  <2> HIDE DEF data
  <2> QED
    BY <2>1, <1>2, PushDataType, InstructionType DEF data
<1> HIDE DEF data
<1>4. i \in Instruction /\ i.fn = opcode_info.fn /\ i.small_push_value = data
  BY <1>3 DEF Instruction, instruction
<1>5. /\ AfterAt(code_pos) = AfterPush /\ DataAt(code_pos) = data
      /\ OpAt(code_pos) = opcode
  BY <1>1 DEF AfterAt, AfterPush, DataAt, PushData, OpAt, opcode, data
<1> HIDE DEF i
<1>6. ArgumentOf(i, Origin(block, code_pos, AfterAt(code_pos), opcode_info),
                 push_values')
  <2>1. opcode # OP.PC /\ opcode \notin GasDependent
    BY <1>1, OpcodeKinds
  <2>0. ~(PushSize(opcode) > SmallPushMax)
    <3>1. PushSize(opcode) \in 1..32 /\ SmallPushMax \in 1..32
      BY <1>1, PushFacts, LimitsAssumption
    <3> QED
      BY <3>1, <1>1
  <2> QED
    BY <2>0, <2>1, <1>4, <1>5 DEF ArgumentOf, Origin
<1>7. Extends(push_values, push_values')
  BY <1>1, <1>2 DEF Extends
<1>8. opcode # OP.JUMPDEST
  BY <1>1, OpcodeKinds
<1> QED
  BY <1>1, <1>4, <1>5, <1>6, <1>7, <1>8, EmitTable

LEMMA LargePushTable == AnalysisInv /\ TableInv /\ AnalyzeLargePush => TableInv'
<1> SUFFICES ASSUME AnalysisInv, TableInv, AnalyzeLargePush PROVE TableInv'
  OBVIOUS
<1> DEFINE data == PushData(PushSize(opcode))
           m == Len(push_values)
           i == [instruction(opcode_info.fn) EXCEPT
                   !.push_value = Len(push_values')]
<1>1. /\ InLoop /\ opcode \in PushOps /\ PushSize(opcode) > SmallPushMax
      /\ Emit(i, AfterPush) /\ push_values' = Append(push_values, data)
      /\ jumpdest_offsets' = jumpdest_offsets
      /\ jumpdest_targets' = jumpdest_targets
  BY DEF AnalyzeLargePush
<1>2. /\ PushSize(opcode) \in 1..32 /\ code \in Codes /\ code_pos \in Nat
      /\ opcode_info.fn \in Int /\ m \in Nat /\ push_values \in Seq(Seq(Byte))
  BY <1>1, LoopFacts, PushFacts
<1>3. data \in Seq(Byte) /\ instruction(opcode_info.fn) \in Instruction
  <2>1. PushSize(opcode) \in Nat
    <3>1. PushSize(opcode) \in 1..32
      BY <1>1, PushFacts
    <3> QED
      BY <3>1
  <2> HIDE DEF data
  <2> QED
    BY <2>1, <1>2, PushDataType, InstructionType DEF data
<1> HIDE DEF data
<1>4. /\ Len(push_values') = m + 1 /\ push_values'[m + 1] = data
      /\ \A k \in 1..m : push_values'[k] = push_values[k]
  BY <1>1, <1>2, <1>3
<1>5. i \in Instruction /\ i.fn = opcode_info.fn /\ i.push_value = m + 1
  <2>1. m + 1 \in Nat /\ i = [instruction(opcode_info.fn) EXCEPT
                                  !.push_value = m + 1]
    BY <1>2, <1>4
  <2> QED
    BY <2>1, <1>3 DEF Instruction, instruction
<1>6. /\ AfterAt(code_pos) = AfterPush /\ DataAt(code_pos) = data
      /\ OpAt(code_pos) = opcode
  BY <1>1 DEF AfterAt, AfterPush, DataAt, PushData, OpAt, opcode, data
<1> HIDE DEF i, m
<1>7. ArgumentOf(i, Origin(block, code_pos, AfterAt(code_pos), opcode_info),
                 push_values')
  <2>1. opcode # OP.PC /\ opcode \notin GasDependent
    BY <1>1, OpcodeKinds
  <2>0. ~(PushSize(opcode) <= SmallPushMax)
    <3>1. PushSize(opcode) \in 1..32 /\ SmallPushMax \in 1..32
      BY <1>1, PushFacts, LimitsAssumption
    <3>2. PushSize(opcode) > SmallPushMax
      BY <1>1
    <3> QED
      BY <3>1, <3>2
  <2>2. m + 1 \in 1..Len(push_values')
    BY <1>2, <1>4
  <2> QED
    BY <2>0, <2>1, <2>2, <1>4, <1>5, <1>6 DEF ArgumentOf, Origin
<1>8. Extends(push_values, push_values')
  BY <1>2, <1>4 DEF Extends, m
<1>9. opcode # OP.JUMPDEST
  BY <1>1, OpcodeKinds
<1> QED
  BY <1>1, <1>5, <1>6, <1>7, <1>8, <1>9, EmitTable

\* The iterations that emit an instruction of one byte.
LEMMA OneByteTable ==
    ASSUME AnalysisInv, TableInv, InLoop, opcode # OP.JUMPDEST,
           opcode \notin PushOps,
           NEW i \in Instruction, i.fn = opcode_info.fn,
           opcode \in GasDependent
             => i.number = block.gas_cost + opcode_info.gas_cost,
           opcode = OP.PC => i.number = code_pos,
           Emit(i, code_pos + 1),
           UNCHANGED <<push_values, jumpdest_offsets, jumpdest_targets>>
    PROVE  TableInv'
<1>1. AfterAt(code_pos) = code_pos + 1 /\ OpAt(code_pos) = opcode
  BY DEF AfterAt, OpAt, opcode
<1>2. Extends(push_values, push_values')
  BY LoopFacts DEF Extends
<1>3. ArgumentOf(i, Origin(block, code_pos, AfterAt(code_pos), opcode_info),
                 push_values')
  BY <1>1 DEF ArgumentOf, Origin, Cost
<1> QED
  BY <1>1, <1>2, <1>3, EmitTable

LEMMA GasDependentTable ==
    AnalysisInv /\ TableInv /\ AnalyzeGasDependent => TableInv'
<1> SUFFICES ASSUME AnalysisInv, TableInv, AnalyzeGasDependent PROVE TableInv'
  OBVIOUS
<1> DEFINE number == block.gas_cost + opcode_info.gas_cost
           i == [instruction(opcode_info.fn) EXCEPT !.number = number]
<1>1. InLoop /\ opcode \in GasDependent
  BY DEF AnalyzeGasDependent
<1>2. instruction(opcode_info.fn) \in Instruction /\ number \in Nat
  <2>1. /\ block.gas_cost \in Nat /\ opcode_info.gas_cost \in Nat
        /\ opcode_info.fn \in Int
    BY <1>1, LoopFacts
  <2> QED
    BY <2>1, InstructionType
<1> HIDE DEF number
<1>3. i \in Instruction /\ i.fn = opcode_info.fn /\ i.number = number
  BY <1>2 DEF Instruction, instruction
<1>4. opcode # OP.JUMPDEST /\ opcode # OP.PC /\ opcode \notin PushOps
  BY <1>1, OpcodeKinds
<1>5. /\ Emit(i, code_pos + 1)
      /\ UNCHANGED <<push_values, jumpdest_offsets, jumpdest_targets>>
  BY DEF AnalyzeGasDependent, number
<1> HIDE DEF i
<1> QED
  BY <1>1, <1>3, <1>4, <1>5, OneByteTable DEF number

LEMMA PcTable == AnalysisInv /\ TableInv /\ AnalyzePc => TableInv'
<1> SUFFICES ASSUME AnalysisInv, TableInv, AnalyzePc PROVE TableInv'
  OBVIOUS
<1> DEFINE i == [instruction(opcode_info.fn) EXCEPT !.number = code_pos]
<1>1. InLoop /\ opcode = OP.PC
  BY DEF AnalyzePc
<1>2. instruction(opcode_info.fn) \in Instruction /\ code_pos \in Nat
  BY <1>1, LoopFacts, InstructionType
<1>3. i \in Instruction /\ i.fn = opcode_info.fn /\ i.number = code_pos
  BY <1>2 DEF Instruction, instruction
<1>4. opcode # OP.JUMPDEST /\ opcode \notin GasDependent /\ opcode \notin PushOps
  BY <1>1, OpcodeKinds
<1>5. /\ Emit(i, code_pos + 1)
      /\ UNCHANGED <<push_values, jumpdest_offsets, jumpdest_targets>>
  BY DEF AnalyzePc
<1> HIDE DEF i
<1> QED
  BY <1>1, <1>3, <1>4, <1>5, OneByteTable

LEMMA OtherTable == AnalysisInv /\ TableInv /\ AnalyzeOther => TableInv'
<1> SUFFICES ASSUME AnalysisInv, TableInv, AnalyzeOther PROVE TableInv'
  OBVIOUS
<1> DEFINE i == instruction(opcode_info.fn)
<1>1. InLoop /\ opcode \notin PushOps \cup GasDependent \cup {OP.PC, OP.JUMPDEST}
  BY DEF AnalyzeOther
<1>2. i \in Instruction /\ i.fn = opcode_info.fn
  <2>1. opcode_info.fn \in Int
    BY <1>1, LoopFacts
  <2> QED
    BY <2>1, InstructionType DEF instruction
<1>3. /\ Emit(i, code_pos + 1)
      /\ UNCHANGED <<push_values, jumpdest_offsets, jumpdest_targets>>
  BY DEF AnalyzeOther
<1> HIDE DEF i
<1> QED
  BY <1>1, <1>2, <1>3, OneByteTable

LEMMA JumpdestTable == AnalysisInv /\ TableInv /\ AnalyzeJumpdest => TableInv'
<1> SUFFICES ASSUME AnalysisInv, TableInv, AnalyzeJumpdest PROVE TableInv'
  OBVIOUS
<1> DEFINE n == Len(instrs)
           m == Len(jumpdest_offsets)
           next == code_pos + 1
           o == [at[n] EXCEPT !.info = opcode_info, !.next = next]
           h == [at EXCEPT ![n].info = opcode_info, ![n].next = next]
<1>1. /\ InLoop /\ opcode = OP.JUMPDEST /\ Advance(instrs, h, next)
      /\ jumpdest_offsets' = Append(jumpdest_offsets, code_pos)
      /\ jumpdest_targets' = Append(jumpdest_targets, n)
      /\ push_values' = push_values
  BY DEF AnalyzeJumpdest
<1>2. /\ AdvancedAnalysisTypeOK /\ ~analyzed /\ code_pos # Len(code)
      /\ instrs \in Seq(Instruction) /\ at \in Seq(OriginType)
      /\ block \in BlockAnalysis /\ m \in Nat
      /\ jumpdest_offsets \in Seq(Nat) /\ jumpdest_targets \in Seq(Nat)
  BY <1>1 DEF AnalysisInv, AdvancedAnalysisTypeOK, InLoop
<1>3. /\ Len(code) \in Nat /\ code_pos \in Nat /\ code_pos < Len(code)
      /\ opcode_info \in op_table_entry /\ Len(push_values) \in Nat
  BY <1>1, LoopFacts
<1>4. /\ n = Len(at) /\ n \in Nat /\ n > 0 /\ at[n].next = code_pos
      /\ block.begin_block_index \in 1..n
  BY <1>2 DEF AnalysisInv, BlockInv, OpenInv
<1>5. /\ block = block_analysis(n) /\ instrs[n].fn = OPX_BEGINBLOCK
      /\ at[n] = Origin(block, code_pos, code_pos, NoInfo)
  BY <1>1, <1>2 DEF AnalysisInv, BlockInv, JumpdestFirst, Fresh, opcode
<1>6. /\ o \in OriginType /\ o.offset = code_pos /\ o.next = next
      /\ o.begin = n /\ o.info = opcode_info /\ o.gas = 0 /\ o.change = 0
  <2>1. at[n] \in OriginType /\ next \in Nat
    BY <1>2, <1>3, <1>4
  <2>2. /\ at[n].offset = code_pos /\ at[n].begin = n
        /\ at[n].gas = 0 /\ at[n].change = 0
    BY <1>5 DEF Origin, block_analysis
  <2> HIDE DEF next
  <2> QED
    BY <2>1, <2>2, <1>3 DEF OriginType
<1>7. h = [at EXCEPT ![n] = o]
  BY <1>2, <1>4
<1> HIDE DEF o, h
<1>8. /\ h \in Seq(OriginType) /\ Len(h) = n /\ h[n] = o
      /\ \A k \in 1..n : k # n => h[k] = at[k]
  BY <1>2, <1>4, <1>6, <1>7
<1>9. /\ code' = code /\ rev' = rev /\ code_pos' = next /\ analyzed' = FALSE
      /\ next \in 1..Len(code) /\ next > code_pos /\ next \in Nat
  BY <1>1, <1>2, <1>3 DEF Advance
<1>10. Ordered(at, code_pos) /\ Indexed /\ Entries(n)
  BY <1>2 DEF TableInv
<1>11. OfCode(o) /\ OpAt(code_pos) = OP.JUMPDEST
  BY <1>1, <1>6, <1>9 DEF OfCode, OpAt, opcode
<1>12. \A k \in 1..n : h[k].begin = at[k].begin /\ h[k].offset = at[k].offset
  BY <1>5, <1>6, <1>8 DEF Origin, block_analysis
<1> HIDE DEF n, m
<1>13. Ordered(h, next)
  <2>1. \A k \in 1..n : at[k].offset \in Nat /\ at[k].next \in Nat
    <3>1. \A k \in 1..n : at[k] \in OriginType
      BY <1>2, <1>4
    <3> QED
      BY <3>1 DEF OriginType
  <2>2. h[1].offset = 0 /\ h[1].begin = 1
    BY <1>4, <1>12, <1>10 DEF Ordered
  <2>3. \A k \in 1..n : h[k].offset <= h[k].next /\ h[k].next <= next
    BY <2>1, <1>3, <1>4, <1>6, <1>8, <1>9, <1>10 DEF Ordered
  <2>4. \A j, k \in 1..n : j < k => h[j].next <= h[k].offset
    <3> SUFFICES ASSUME NEW j \in 1..n, NEW k \in 1..n, j < k
                 PROVE  h[j].next <= h[k].offset
      OBVIOUS
    <3>1. h[j] = at[j] /\ h[k].offset = at[k].offset
      BY <1>4, <1>8, <1>12
    <3> QED
      BY <3>1, <1>4, <1>10 DEF Ordered
  <2>5. ASSUME NEW k \in 1..n - 1
        PROVE  /\ OfCode(h[k]) /\ OpAt(h[k].offset) \in Terminators
                  => h[k + 1].begin = k + 1
               /\ ~OfCode(h[k]) => h[k + 1].begin # k + 1
    <3>1. h[k] = at[k] /\ h[k + 1].begin = at[k + 1].begin
      BY <1>4, <1>8, <1>12
    <3> QED
      BY <3>1, <1>4, <1>10 DEF Ordered
  <2> QED
    BY <2>2, <2>3, <2>4, <2>5, <1>8 DEF Ordered
<1>14. \A k \in 1..n : EntryOK(instrs[k], h[k], k, push_values')
  <2> TAKE k \in 1..n
  <2>1. CASE k # n
    BY <2>1, <1>1, <1>8, <1>10 DEF Entries
  <2>2. CASE k = n
    <3>1. AfterAt(code_pos) = next
      BY <1>11, OpcodeKinds DEF AfterAt
    <3>2. ArgumentOf(instrs[n], o, push_values')
      BY <1>6, <1>11, OpcodeKinds DEF ArgumentOf
    <3>3. opcode_info = OpTable[rev][OpAt(code_pos)]
      BY DEF opcode_info, opcode, OpAt
    <3>4. Translated(instrs[n], o, n, push_values')
      BY <3>1, <3>2, <3>3, <1>3, <1>5, <1>6, <1>11 DEF Translated
    <3> QED
      BY <3>4, <2>2, <1>8 DEF EntryOK
  <2> QED
    BY <2>1, <2>2
<1>15. Entries(Len(instrs))'
  <2>1. Len(push_values') \in Nat
    BY <1>1, <1>3
  <2> QED
    BY <2>1, <1>1, <1>2, <1>4, <1>8, <1>9, <1>14, AdvanceEntries DEF n
<1>16. Ordered(at, code_pos)' /\ BlockOpen(at)'
  <2>1. OfCode(h[Len(h)]) /\ h[Len(h)].offset = code_pos /\ Len(instrs) = Len(h)
    BY <1>6, <1>8, <1>11 DEF n
  <2> QED
    BY <2>1, <1>1, <1>2, <1>4, <1>8, <1>9, <1>13, AdvanceOrdered DEF n
<1>17. Indexed'
  <2>1. /\ \A k \in 1..n : at'[k] = h[k]
        /\ \/ /\ Len(at') = n + 1
              /\ Injected(instrs'[n + 1], at'[n + 1], n + 1)
              /\ at'[n + 1].offset = next
           \/ Len(at') = n
    BY <1>1, <1>2, <1>4, <1>8, <1>9, AdvanceTable DEF n
  <2>2. /\ m = Len(jumpdest_targets)
        /\ \A j \in 1..m : jumpdest_targets[j] \in 1..n
    BY DEF AnalysisInv, JumpdestInv, JumpdestIndexSound, m, n
  <2>3. /\ Len(jumpdest_offsets') = m + 1
        /\ jumpdest_offsets'[m + 1] = code_pos /\ jumpdest_targets'[m + 1] = n
        /\ \A j \in 1..m : /\ jumpdest_offsets'[j] = jumpdest_offsets[j]
                           /\ jumpdest_targets'[j] = jumpdest_targets[j]
    <3>1. /\ Len(jumpdest_offsets') = m + 1
          /\ jumpdest_offsets'[m + 1] = code_pos
          /\ \A j \in 1..m : jumpdest_offsets'[j] = jumpdest_offsets[j]
      BY <1>1, <1>2, <1>3 DEF m
    <3>2. /\ jumpdest_targets'[m + 1] = n
          /\ \A j \in 1..m : jumpdest_targets'[j] = jumpdest_targets[j]
      BY <1>1, <1>2, <1>4, <2>2
    <3> QED
      BY <3>1, <3>2
  <2>4. ASSUME NEW j \in 1..m + 1
        PROVE  OfCode(at'[jumpdest_targets'[j]])
    <3>1. CASE j = m + 1
      BY <3>1, <2>1, <2>3, <1>4, <1>8, <1>11
    <3>2. CASE j \in 1..m
      <4> DEFINE k == jumpdest_targets[j]
      <4>1. k \in 1..n /\ OfCode(at[k]) /\ jumpdest_targets'[j] = k
        BY <3>2, <2>2, <2>3, <1>10 DEF Indexed, m
      <4> HIDE DEF k
      <4>2. at'[k] = at[k] \/ at'[k] = o
        BY <4>1, <2>1, <1>4, <1>8
      <4> QED
        BY <4>1, <4>2, <1>11
    <3> QED
      BY <3>1, <3>2, <1>2
  <2>5. ASSUME NEW k \in 1..Len(at'), OfCode(at'[k]),
               OpAt(at'[k].offset) = OP.JUMPDEST
        PROVE  \E j \in 1..m + 1 : /\ jumpdest_offsets'[j] = at'[k].offset
                                   /\ jumpdest_targets'[j] = k
    <3>1. CASE k \in 1..n /\ k # n
      <4>1. at'[k] = at[k]
        BY <3>1, <2>1, <1>8
      <4>2. PICK j \in 1..m : /\ jumpdest_offsets[j] = at[k].offset
                              /\ jumpdest_targets[j] = k
        BY <4>1, <3>1, <2>5, <1>4, <1>10 DEF Indexed, m
      <4>3. j \in 1..m + 1
        BY <1>2
      <4> QED
        BY <4>1, <4>2, <4>3, <2>3
    <3>2. CASE k = n
      <4>1. m + 1 \in 1..m + 1
        BY <1>2
      <4> QED
        BY <4>1, <3>2, <2>1, <2>3, <1>4, <1>6, <1>8
    <3>3. CASE k = n + 1 /\ Len(at') = n + 1
      <4>1. ~OfCode(at'[k])
        BY <3>3, <2>1, <1>4, <1>9 DEF Injected, OfCode
      <4> QED
        BY <4>1, <2>5
    <3> QED
      BY <3>1, <3>2, <3>3, <2>1, <1>4
  <2> QED
    BY <2>3, <2>4, <2>5, <1>9 DEF Indexed, OpAt
<1> QED
  BY <1>9, <1>15, <1>16, <1>17 DEF TableInv

LEMMA FinishTable == AnalysisInv /\ TableInv /\ FinishAnalysis => TableInv'
<1> SUFFICES ASSUME AnalysisInv, TableInv, FinishAnalysis PROVE TableInv'
  OBVIOUS
<1> DEFINE n == Len(instrs)
           stop == OpTable[rev][OP.STOP]
           i == instruction(stop.fn)
           o == Origin(block, code_pos, code_pos, stop)
           t == SaveBlock(instrs, block)
<1>1. /\ ~analyzed /\ code_pos = Len(code) /\ analyzed' = TRUE
      /\ instrs' = Append(t, i) /\ at' = Append(at, o)
      /\ UNCHANGED <<code_pos, push_values, jumpdest_offsets,
                     jumpdest_targets, block, code, rev>>
  BY DEF FinishAnalysis, SaveBlock
<1>2. /\ instrs \in Seq(Instruction) /\ at \in Seq(OriginType)
      /\ block \in BlockAnalysis /\ code \in Codes /\ code_pos \in Nat
      /\ Len(push_values) \in Nat
  <2>1. /\ code_pos \in 0..Len(code) /\ push_values \in Seq(Seq(Byte))
        /\ code \in Codes
    BY DEF AnalysisInv, AdvancedAnalysisTypeOK
  <2> QED
    BY <2>1, CodesAssumption DEF AnalysisInv, AdvancedAnalysisTypeOK
<1>3. /\ n = Len(at) /\ n \in Nat /\ n > 0 /\ at[n].next = code_pos
      /\ block.begin_block_index \in 1..n
  BY <1>1, <1>2 DEF AnalysisInv, BlockInv, OpenInv
<1>4. /\ o.offset = code_pos /\ o.next = code_pos /\ o.info = stop
      /\ o.begin = block.begin_block_index /\ i.fn = stop.fn
  BY DEF Origin, instruction
<1> HIDE DEF i, o, stop
<1>5. /\ t \in Seq(Instruction) /\ Len(t) = n
      /\ \A k \in 1..n : SameArgument(t[k], instrs[k])
  BY <1>2, <1>3, SaveBlockTable, SaveBlockSame
<1> HIDE DEF t
<1>6. /\ Len(instrs') = n + 1 /\ Len(at') = n + 1
      /\ instrs'[n + 1] = i /\ at'[n + 1] = o
      /\ \A k \in 1..n : instrs'[k] = t[k] /\ at'[k] = at[k]
  <2>1. /\ Len(instrs') = n + 1 /\ instrs'[n + 1] = i
        /\ \A k \in 1..n : instrs'[k] = t[k]
    BY <1>1, <1>5
  <2>2. /\ Len(at') = n + 1 /\ at'[n + 1] = o
        /\ \A k \in 1..n : at'[k] = at[k]
    BY <1>1, <1>2, <1>3
  <2> QED
    BY <2>1, <2>2
<1>7. Ordered(at, code_pos) /\ Indexed /\ Entries(n) /\ BlockOpen(at)
  BY <1>1 DEF TableInv
<1> HIDE DEF n
<1>8. Ordered(at, code_pos)'
  <2>1. \A k \in 1..n : at[k].offset \in Nat /\ at[k].next \in Nat
    <3>1. \A k \in 1..n : at[k] \in OriginType
      BY <1>2, <1>3
    <3> QED
      BY <3>1 DEF OriginType
  <2>2. at'[1].offset = 0 /\ at'[1].begin = 1
    BY <1>3, <1>6, <1>7 DEF Ordered
  <2>0. /\ \A k \in 1..n : at[k].offset <= at[k].next /\ at[k].next <= code_pos
        /\ \A j, k \in 1..n : j < k => at[j].next <= at[k].offset
    BY <1>3, <1>7 DEF Ordered
  <2>3. ASSUME NEW k \in 1..n + 1
        PROVE  at'[k].offset <= at'[k].next /\ at'[k].next <= code_pos
    <3>1. CASE k \in 1..n
      BY <3>1, <2>0, <1>6
    <3>2. CASE k = n + 1
      BY <3>2, <1>2, <1>4, <1>6
    <3> QED
      BY <3>1, <3>2, <1>3
  <2>4. ASSUME NEW j \in 1..n + 1, NEW k \in 1..n + 1, j < k
        PROVE  at'[j].next <= at'[k].offset
    <3>1. j \in 1..n /\ at'[j] = at[j]
      BY <2>4, <1>3, <1>6
    <3>2. CASE k \in 1..n
      BY <3>1, <3>2, <2>0, <2>4, <1>6
    <3>3. CASE k = n + 1
      BY <3>1, <3>3, <2>0, <1>4, <1>6
    <3> QED
      BY <3>2, <3>3, <1>3
  <2>5. \A k \in 1..n :
          /\ OfCode(at'[k]) /\ OpAt(at'[k].offset) \in Terminators
             => at'[k + 1].begin = k + 1
          /\ ~OfCode(at'[k]) => at'[k + 1].begin # k + 1
    <3> TAKE k \in 1..n
    <3>1. CASE k = n
      BY <3>1, <1>3, <1>4, <1>6, <1>7 DEF BlockOpen
    <3>2. CASE k # n
      <4>1. k \in 1..n - 1 /\ k + 1 \in 1..n
        BY <3>2, <1>3
      <4> QED
        BY <4>1, <1>3, <1>6, <1>7 DEF Ordered
    <3> QED
      BY <3>1, <3>2
  <2>6. \A k \in 1..Len(at') - 1 : k \in 1..n
    BY <1>3, <1>6
  <2> QED
    BY <2>2, <2>3, <2>4, <2>5, <2>6, <1>1, <1>6 DEF Ordered, OpAt
<1>9. Entries(Len(instrs) - 1)'
  <2>1. Len(instrs') - 1 = n
    BY <1>3, <1>6
  <2>2. Extends(push_values, push_values)
    BY <1>2 DEF Extends
  <2>3. \A k \in 1..n : EntryOK(instrs'[k], at'[k], k, push_values')
    BY <2>2, <1>1, <1>5, <1>6, <1>7, EntryKept DEF Entries
  <2> QED
    BY <2>1, <2>3, <1>1, EntryPrimed DEF Entries
<1>10. Appended(instrs[Len(instrs)], at[Len(instrs)], Len(instrs))'
  <2>1. o.begin # n + 1
    BY <1>3, <1>4
  <2>2. Appended(i, o, n + 1)
    BY <2>1, <1>1, <1>4 DEF Appended, stop
  <2> QED
    BY <2>2, <1>1, <1>6 DEF Appended
<1>11. Indexed'
  <2>1. \A j \in 1..Len(jumpdest_offsets) : jumpdest_targets[j] \in 1..n
    BY DEF AnalysisInv, JumpdestInv, JumpdestIndexSound, n
  <2>2. \A j \in 1..Len(jumpdest_offsets) : OfCode(at'[jumpdest_targets[j]])
    BY <2>1, <1>6, <1>7 DEF Indexed
  <2>3. ASSUME NEW k \in 1..n + 1, OfCode(at'[k]),
               OpAt(at'[k].offset) = OP.JUMPDEST
        PROVE  \E j \in 1..Len(jumpdest_offsets) :
                 jumpdest_offsets[j] = at'[k].offset /\ jumpdest_targets[j] = k
    <3>1. CASE k \in 1..n
      BY <3>1, <2>3, <1>3, <1>6, <1>7 DEF Indexed
    <3>2. CASE k = n + 1
      <4>1. ~OfCode(at'[k])
        BY <3>2, <1>2, <1>4, <1>6 DEF OfCode
      <4> QED
        BY <4>1, <2>3
    <3> QED
      BY <3>1, <3>2, <1>3
  <2> QED
    BY <2>2, <2>3, <1>1, <1>6 DEF Indexed, OpAt
<1>12. code_pos' = Len(code') /\ analyzed'
  BY <1>1
<1> QED
  BY <1>8, <1>9, <1>10, <1>11, <1>12 DEF TableInv

LEMMA InitTable == InitBytecode /\ InitAdvancedAnalysis => TableInv
<1> SUFFICES ASSUME InitBytecode, InitAdvancedAnalysis PROVE TableInv
  OBVIOUS
<1> DEFINE i == instruction(OPX_BEGINBLOCK)
           o == Origin(block_analysis(1), 0, 0, NoInfo)
<1>1. /\ code_pos = 0 /\ instrs = <<i>> /\ at = <<o>> /\ analyzed = FALSE
      /\ jumpdest_offsets = << >>
  BY DEF InitAdvancedAnalysis
<1>2. Injected(i, o, 1) /\ o.offset = 0 /\ o.next = 0 /\ o.begin = 1
  BY DEF Injected, instruction, Origin, block_analysis
<1> HIDE DEF i, o
<1>3. Len(instrs) = 1 /\ Len(at) = 1 /\ instrs[1] = i /\ at[1] = o
  BY <1>1
<1>4. ~OfCode(o)
  BY <1>2 DEF OfCode
<1>5. Ordered(at, code_pos)
  BY <1>1, <1>2, <1>3 DEF Ordered
<1>6. Indexed
  BY <1>1, <1>3, <1>4 DEF Indexed
<1>7. Entries(Len(instrs)) /\ BlockOpen(at)
  BY <1>2, <1>3, <1>4 DEF Entries, EntryOK, BlockOpen
<1> QED
  BY <1>1, <1>5, <1>6, <1>7 DEF TableInv

LEMMA StutterTable ==
    TableInv /\ UNCHANGED <<advancedAnalysisVars, code, rev>> => TableInv'
<1> SUFFICES ASSUME TableInv, UNCHANGED <<advancedAnalysisVars, code, rev>>
             PROVE  TableInv'
  OBVIOUS
<1>1. UNCHANGED <<code_pos, instrs, push_values, jumpdest_offsets,
                  jumpdest_targets, analyzed, at, code, rev>>
  BY DEF advancedAnalysisVars
<1>2. Ordered(at, code_pos)' <=> Ordered(at, code_pos)
  BY <1>1 DEF Ordered, OfCode, OpAt
<1>3. Indexed' <=> Indexed
  BY <1>1 DEF Indexed, OfCode, OpAt
<1>4. BlockOpen(at)' <=> BlockOpen(at)
  BY <1>1 DEF BlockOpen, OfCode, OpAt
<1>5. ASSUME NEW CONSTANT k
      PROVE  EntryOK(instrs[k], at[k], k, push_values)'
             <=> EntryOK(instrs[k], at[k], k, push_values)
  <2>1. Injected(instrs[k], at[k], k)' <=> Injected(instrs[k], at[k], k)
    BY <1>1 DEF Injected
  <2>2. ArgumentOf(instrs[k], at[k], push_values)'
        <=> ArgumentOf(instrs[k], at[k], push_values)
    BY <1>1 DEF ArgumentOf, OpAt, DataAt, Cost
  <2>3. Translated(instrs[k], at[k], k, push_values)'
        <=> Translated(instrs[k], at[k], k, push_values)
    BY <1>1, <2>2 DEF Translated, OpAt, AfterAt
  <2> QED
    BY <2>1, <2>3 DEF EntryOK
<1>6. Appended(instrs[Len(instrs)], at[Len(instrs)], Len(instrs))'
      <=> Appended(instrs[Len(instrs)], at[Len(instrs)], Len(instrs))
  BY <1>1 DEF Appended
<1>7. /\ Entries(Len(instrs))' <=> Entries(Len(instrs))
      /\ Entries(Len(instrs) - 1)' <=> Entries(Len(instrs) - 1)
  BY <1>1, <1>5 DEF Entries
<1> QED
  BY <1>1, <1>2, <1>3, <1>4, <1>6, <1>7 DEF TableInv

\* What every iteration of analyze() and its end do to both invariants.
LEMMA TableStep ==
    AnalysisInv /\ TableInv
    /\ [AdvancedAnalyze]_<<advancedAnalysisVars, code, rev>>
    => AnalysisInv' /\ TableInv'
<1>1. AnalysisInv /\ [AdvancedAnalyze]_<<advancedAnalysisVars, code, rev>>
      => AnalysisInv'
  BY JumpdestPreserves, SmallPushPreserves, LargePushPreserves,
     GasDependentPreserves, PcPreserves, OtherPreserves, FinishPreserves,
     StutterPreserves DEF AdvancedAnalyze
<1>2. AnalysisInv /\ TableInv
      /\ [AdvancedAnalyze]_<<advancedAnalysisVars, code, rev>> => TableInv'
  BY JumpdestTable, SmallPushTable, LargePushTable, GasDependentTable, PcTable,
     OtherTable, FinishTable, StutterTable DEF AdvancedAnalyze
<1> QED
  BY <1>1, <1>2

\* Every entry of the table that analyze() builds stands for the instruction of
\* the code where the one before it ends, with its function and the argument
\* the function reads, or starts a block; terminators end blocks; and the index
\* of JUMPDESTs is complete.
THEOREM TableOfCode == AdvancedAnalysisSpec => []TableInv
<1>1. InitBytecode /\ InitAdvancedAnalysis => AnalysisInv /\ TableInv
  BY InitEstablishes, InitTable
<1> QED
  BY <1>1, TableStep, PTL DEF AdvancedAnalysisSpec

-----------------------------------------------------------------------------
(***************************************************************************)
(* What the invariants say once the analysis is done.                      *)
(***************************************************************************)
LEMMA TableFacts ==
    ASSUME AnalysisInv, TableInv
    PROVE  /\ code \in Codes /\ Len(code) \in Nat /\ rev \in Revisions
           /\ Len(at) = Len(instrs) /\ Len(at) \in Nat /\ Len(at) > 0
           /\ \A k \in 1..Len(at) : /\ at[k].offset \in Nat
                                    /\ at[k].next \in Nat
                                    /\ at[k].offset <= at[k].next
                                    /\ at[k].next <= Len(code)
           /\ \A k \in 1..Len(at) - 1 : at[k + 1].offset = at[k].next
           /\ \A n \in 0..Len(code) - 1 : OpAt(n) \in Byte
<1>1. /\ code \in Codes /\ code_pos \in 0..Len(code) /\ at \in Seq(OriginType)
      /\ rev \in Revisions
  BY DEF AnalysisInv, AdvancedAnalysisTypeOK
<1>2. code \in Seq(Byte) /\ Len(code) \in Nat
  BY <1>1, CodesAssumption
<1>3. Len(at) = Len(instrs) /\ Len(at) \in Nat /\ Len(at) > 0 /\ Chain(at)
  BY <1>1 DEF AnalysisInv, BlockInv, OpenInv, DoneInv
<1>4. \A k \in 1..Len(at) : at[k].offset \in Nat /\ at[k].next \in Nat
  <2>1. \A k \in 1..Len(at) : at[k] \in OriginType
    BY <1>1, <1>3
  <2> QED
    BY <2>1 DEF OriginType
<1>5. \A k \in 1..Len(at) : /\ at[k].offset <= at[k].next
                            /\ at[k].next <= Len(code)
  <2>1. \A k \in 1..Len(at) : /\ at[k].offset <= at[k].next
                              /\ at[k].next <= code_pos
    BY DEF TableInv, Ordered
  <2> QED
    BY <2>1, <1>1, <1>2, <1>4
<1>6. \A k \in 1..Len(at) - 1 : at[k + 1].offset = at[k].next
  BY <1>3 DEF Chain, Follows
<1>7. \A n \in 0..Len(code) - 1 : OpAt(n) \in Byte
  BY <1>2 DEF OpAt
<1> QED
  BY <1>1, <1>2, <1>3, <1>4, <1>5, <1>6, <1>7

\* An entry for an instruction of the code, and only that, has a length.
LEMMA TranslatedIsOfCode ==
    ASSUME AnalysisInv, TableInv, NEW k \in 1..Len(at),
           Translated(instrs[k], at[k], k, push_values)
    PROVE  OfCode(at[k])
<1> DEFINE o == at[k]
           op == OpAt(o.offset)
<1>1. /\ o.offset \in Nat /\ Len(code) \in Nat /\ o.offset < Len(code)
      /\ o.next = AfterAt(o.offset)
  BY TableFacts DEF Translated
<1>2. CASE op \in PushOps
  <2> DEFINE size == PushSize(op)
  <2>1. size \in 1..32
    BY <1>2, PushFacts
  <2>2. o.next = Smaller(o.offset + 1 + size, Len(code))
    BY <1>1, <1>2 DEF AfterAt
  <2> HIDE DEF o, op, size
  <2>3. o.next > o.offset
    BY <2>1, <2>2, <1>1 DEF Smaller
  <2> QED
    BY <2>3 DEF OfCode, o
<1>3. CASE op \notin PushOps
  <2>1. o.next = o.offset + 1
    BY <1>1, <1>3 DEF AfterAt
  <2> QED
    BY <2>1, <1>1 DEF OfCode
<1> QED
  BY <1>2, <1>3

\* An entry with a length is one for an instruction of the code, and is
\* followed by another entry.
LEMMA OfCodeIsTranslated ==
    ASSUME AnalysisInv, TableInv, analyzed, NEW k \in 1..Len(at), OfCode(at[k])
    PROVE  /\ k \in 1..Len(at) - 1
           /\ Translated(instrs[k], at[k], k, push_values)
<1>1. Len(at) = Len(instrs) /\ Len(at) \in Nat /\ at[k].offset \in Nat
  BY TableFacts
<1>2. k # Len(at)
  <2>1. CASE k = Len(at)
    <3>1. at[k].offset = Len(code) /\ at[k].next = Len(code)
      BY <2>1, <1>1 DEF TableInv, Appended
    <3> QED
      BY <3>1, <1>1 DEF OfCode
  <2> QED
    BY <2>1
<1>3. k \in 1..Len(at) - 1
  BY <1>1, <1>2
<1>4. EntryOK(instrs[k], at[k], k, push_values)
  BY <1>1, <1>3 DEF TableInv, Entries
<1>5. ~Injected(instrs[k], at[k], k)
  BY <1>1 DEF Injected, OfCode
<1> QED
  BY <1>3, <1>4, <1>5 DEF EntryOK

\* At every boundary before the end of the code there is an instruction: the
\* entry itself or the one after it.
LEMMA InstructionAtBoundary ==
    ASSUME AnalysisInv, TableInv, analyzed, NEW k \in 1..Len(at),
           at[k].offset < Len(code)
    PROVE  \E m \in 1..Len(at) - 1 :
             /\ m = k \/ (m = k + 1 /\ ~OfCode(at[k]))
             /\ at[m].offset = at[k].offset /\ OfCode(at[m])
             /\ Translated(instrs[m], at[m], m, push_values)
<1>1. /\ Len(at) = Len(instrs) /\ Len(at) \in Nat
      /\ \A j \in 1..Len(at) : at[j].offset \in Nat /\ at[j].next \in Nat
      /\ \A j \in 1..Len(at) - 1 : at[j + 1].offset = at[j].next
      /\ \A j \in 1..Len(at) : at[j].offset <= at[j].next
  BY TableFacts
<1>2. CASE OfCode(at[k])
  BY <1>2, OfCodeIsTranslated
<1>3. CASE ~OfCode(at[k])
  <2>1. k # Len(at)
    <3>1. CASE k = Len(at)
      <4>1. at[k].offset = Len(code)
        BY <3>1, <1>1 DEF TableInv, Appended
      <4> QED
        BY <4>1, <1>1
    <3> QED
      BY <3>1
  <2>2. k \in 1..Len(at) - 1 /\ k + 1 \in 1..Len(at)
    BY <2>1, <1>1
  <2>3. at[k + 1].offset = at[k].offset /\ at[k + 1].begin # k + 1
    <3>1. at[k].next = at[k].offset
      BY <1>1, <1>3 DEF OfCode
    <3>2. at[k + 1].begin # k + 1
      BY <1>3, <2>2 DEF TableInv, Ordered
    <3> QED
      BY <3>1, <3>2, <2>2, <1>1
  <2>4. k + 1 # Len(at)
    <3>1. CASE k + 1 = Len(at)
      <4>1. at[k + 1].offset = Len(code)
        BY <3>1, <1>1 DEF TableInv, Appended
      <4> QED
        BY <4>1, <2>3, <1>1
    <3> QED
      BY <3>1
  <2>5. k + 1 \in 1..Len(at) - 1
    BY <2>2, <2>4, <1>1
  <2>6. EntryOK(instrs[k + 1], at[k + 1], k + 1, push_values)
    BY <2>5, <1>1 DEF TableInv, Entries
  <2>7. Translated(instrs[k + 1], at[k + 1], k + 1, push_values)
    BY <2>3, <2>6 DEF EntryOK, Injected
  <2>8. OfCode(at[k + 1])
    BY <2>2, <2>7, TranslatedIsOfCode
  <2> QED
    BY <2>3, <2>5, <2>7, <2>8, <1>3
<1> QED
  BY <1>2, <1>3

\* No entry starts inside an instruction, and instructions do not overlap.
LEMMA NothingInside ==
    ASSUME AnalysisInv, TableInv, NEW k \in 1..Len(at), NEW j \in 1..Len(at)
    PROVE  /\ at[j].offset > at[k].offset => at[j].offset >= at[k].next
           /\ OfCode(at[j]) /\ OfCode(at[k]) /\ at[j].offset = at[k].offset
              => j = k
           /\ OfCode(at[j]) /\ OfCode(at[k]) /\ at[j].next = at[k].next
              => j = k
<1>1. /\ at[j].offset \in Nat /\ at[j].next \in Nat
      /\ at[k].offset \in Nat /\ at[k].next \in Nat
      /\ at[j].offset <= at[j].next /\ at[k].offset <= at[k].next
      /\ j \in Nat /\ k \in Nat
  BY TableFacts
<1>2. /\ j < k => at[j].next <= at[k].offset
      /\ k < j => at[k].next <= at[j].offset
  BY DEF TableInv, Ordered
<1> QED
  BY <1>1, <1>2 DEF OfCode

-----------------------------------------------------------------------------
(***************************************************************************)
(* The scan.                                                               *)
(***************************************************************************)
\* The signed comparison of the scan finds exactly the PUSH opcodes.
LEMMA SignedComparison ==
    ASSUME NEW op \in Byte
    PROVE  /\ Int8(op) >= OP.PUSH1 <=> op \in PushOps
           /\ Int8(op) < OP.PUSH1 <=> op \notin PushOps
           /\ op - (OP.PUSH1 - 1) = PushSize(op)
BY OpcodeFacts DEF Int8, PushOps, PushSize, Byte

\* An iteration of the scan steps over one instruction of the table.
LEMMA ScanOpcodeStep ==
    ASSUME AnalysisInv, TableInv, ScanInv, analyzed, ScanOpcode,
           UNCHANGED advancedAnalysisVars
    PROVE  ScanInv'
<1> DEFINE op == code[scan_pos + 1]
<1>1. /\ UNCHANGED <<at, code, analyzed, prepared>>
      /\ ~prepared /\ scan_pos < Len(code)
      /\ \/ /\ Int8(op) >= OP.PUSH1
            /\ scan_pos' = scan_pos + (op - (OP.PUSH1 - 1)) + 1
            /\ jumpdest_map' = jumpdest_map
         \/ /\ Int8(op) < OP.PUSH1
            /\ scan_pos' = scan_pos + 1
            /\ jumpdest_map' = IF op = OP.JUMPDEST
                               THEN [jumpdest_map EXCEPT ![scan_pos] = TRUE]
                               ELSE jumpdest_map
  BY DEF ScanOpcode, advancedAnalysisVars
<1>2. scan_pos \in Nat /\ Len(code) \in Nat
  BY TableFacts DEF ScanInv
<1>3. PICK k \in 1..Len(at) : at[k].offset = scan_pos
  <2>1. ~PastEnd(scan_pos)
    BY <1>1, <1>2 DEF PastEnd
  <2> QED
    BY <2>1 DEF ScanInv, Boundary
<1>4. PICK m \in 1..Len(at) - 1 :
        /\ at[m].offset = scan_pos /\ OfCode(at[m])
        /\ Translated(instrs[m], at[m], m, push_values)
  BY <1>1, <1>3, InstructionAtBoundary
<1>5. /\ m \in 1..Len(at) /\ m + 1 \in 1..Len(at)
      /\ at[m + 1].offset = at[m].next /\ at[m].next \in Nat
  BY TableFacts
<1>6. op \in Byte /\ op = OpAt(scan_pos)
  <2>1. scan_pos \in 0..Len(code) - 1
    BY <1>1, <1>2
  <2> QED
    BY <2>1, TableFacts DEF OpAt
<1>7. at[m].next = AfterAt(scan_pos)
  BY <1>4 DEF Translated
<1> HIDE DEF op
<1>8. /\ scan_pos' \in Nat /\ scan_pos' > scan_pos
      /\ \/ at[m].next = scan_pos'
         \/ at[m].next = Len(code) /\ scan_pos' > Len(code)
            /\ op \in PushOps /\ scan_pos' = scan_pos + 1 + PushSize(op)
      /\ op \in PushOps => scan_pos' = scan_pos + 1 + PushSize(op)
  <2>1. CASE op \in PushOps
    <3> DEFINE size == PushSize(op)
    <3>1. size \in 1..32
      BY <2>1, PushFacts
    <3>2. scan_pos' = scan_pos + size + 1
      BY <2>1, <1>1, <1>6, SignedComparison
    <3>3. at[m].next = Smaller(scan_pos + 1 + size, Len(code))
      BY <2>1, <1>6, <1>7 DEF AfterAt
    <3> HIDE DEF size
    <3>4. /\ scan_pos' \in Nat /\ scan_pos' > scan_pos
          /\ \/ at[m].next = scan_pos'
             \/ at[m].next = Len(code) /\ scan_pos' > Len(code)
                /\ scan_pos' = scan_pos + 1 + size
          /\ scan_pos' = scan_pos + 1 + size
      BY <3>1, <3>2, <3>3, <1>2 DEF Smaller
    <3> QED
      BY <3>4, <2>1 DEF size
  <2>2. CASE op \notin PushOps
    <3>1. scan_pos' = scan_pos + 1
      BY <2>2, <1>1, <1>6, SignedComparison
    <3>2. at[m].next = scan_pos + 1
      BY <2>2, <1>6, <1>7 DEF AfterAt
    <3> QED
      BY <2>2, <3>1, <3>2, <1>2
  <2> QED
    BY <2>1, <2>2
<1>9. (Boundary(scan_pos) \/ PastEnd(scan_pos))'
  <2>1. CASE at[m].next = scan_pos'
    <3>1. Boundary(scan_pos)'
      BY <2>1, <1>1, <1>5 DEF Boundary
    <3> QED
      BY <3>1
  <2>2. CASE /\ at[m].next = Len(code) /\ scan_pos' > Len(code)
             /\ op \in PushOps /\ scan_pos' = scan_pos + 1 + PushSize(op)
    <3>1. /\ OfCode(at[m]) /\ OpAt(at[m].offset) \in PushOps
          /\ scan_pos' = at[m].offset + 1 + PushSize(OpAt(at[m].offset))
      BY <2>2, <1>4, <1>6
    <3>2. PastEnd(scan_pos)'
      BY <3>1, <2>2, <1>1, <1>5 DEF PastEnd, OpAt
    <3> QED
      BY <3>2
  <2> QED
    BY <2>1, <2>2, <1>8
<1>10. /\ jumpdest_map' \in [0..Len(code) - 1 -> BOOLEAN]
       /\ \A o \in 0..Len(code) - 1 :
            jumpdest_map'[o] <=> \/ jumpdest_map[o]
                                 \/ o = scan_pos /\ op = OP.JUMPDEST
  <2>1. jumpdest_map \in [0..Len(code) - 1 -> BOOLEAN]
    BY DEF ScanInv
  <2>2. CASE op \in PushOps
    <3>1. jumpdest_map' = jumpdest_map /\ op # OP.JUMPDEST
      BY <2>2, <1>1, <1>6, SignedComparison, OpcodeKinds
    <3> QED
      BY <3>1, <2>1
  <2>3. CASE op \notin PushOps
    <3>1. jumpdest_map' = IF op = OP.JUMPDEST
                          THEN [jumpdest_map EXCEPT ![scan_pos] = TRUE]
                          ELSE jumpdest_map
      BY <2>3, <1>1, <1>6, SignedComparison
    <3>2. scan_pos \in 0..Len(code) - 1
      BY <1>1, <1>2
    <3> QED
      BY <3>1, <3>2, <2>1
  <2> QED
    BY <2>2, <2>3
<1>11. ASSUME NEW o \in 0..Len(code) - 1
       PROVE  jumpdest_map'[o] <=> o < scan_pos' /\ IsJumpdest(o)
  <2>1. jumpdest_map[o] <=> o < scan_pos /\ IsJumpdest(o)
    BY DEF ScanInv
  <2>2. CASE o < scan_pos
    BY <2>1, <2>2, <1>2, <1>8, <1>10
  <2>3. CASE o = scan_pos
    <3>1. IsJumpdest(scan_pos) <=> op = OP.JUMPDEST
      BY <1>4, <1>5, <1>6 DEF IsJumpdest
    <3> QED
      BY <3>1, <2>1, <2>3, <1>2, <1>8, <1>10
  <2>4. CASE o > scan_pos
    <3>1. ~(o < scan_pos) /\ ~jumpdest_map'[o]
      BY <2>1, <2>4, <1>2, <1>10
    <3>2. ASSUME o < scan_pos', IsJumpdest(o)
          PROVE  FALSE
      <4>1. PICK j \in 1..Len(at) : at[j].offset = o
        BY <3>2 DEF IsJumpdest
      <4>2. o >= at[m].next
        BY <4>1, <2>4, <1>4, <1>5, NothingInside
      <4> QED
        BY <4>2, <3>2, <1>2, <1>8
    <3> QED
      BY <3>1, <3>2
  <2> QED
    BY <2>2, <2>3, <2>4, <1>2
<1>12. ASSUME NEW CONSTANT o
       PROVE  IsJumpdest(o)' <=> IsJumpdest(o)
  BY <1>1 DEF IsJumpdest, OfCode, OpAt
<1>13. ASSUME scan_pos' = Len(code), NEW j \in 1..Len(at), OfCode(at[j]),
              OpAt(at[j].offset) \in PushOps
       PROVE  at[j].offset + 1 + PushSize(OpAt(at[j].offset)) <= Len(code)
  <2> DEFINE size == PushSize(OpAt(at[j].offset))
  <2>1. size \in 1..32 /\ at[j].offset \in Nat
    BY <1>13, PushFacts, TableFacts
  <2>2. at[j].next = Smaller(at[j].offset + 1 + size, Len(code))
    BY <1>13, <1>1, OfCodeIsTranslated DEF Translated, AfterAt
  <2> HIDE DEF size
  <2>3. CASE at[j].offset + 1 + size > Len(code)
    <3>0. at[m].next = Len(code)
      BY <1>2, <1>8, <1>13
    <3>1. at[j].next = Len(code)
      BY <1>2, <2>1, <2>2, <2>3 DEF Smaller
    <3>2. j = m
      BY <1>4, <1>5, <1>13, <3>0, <3>1, NothingInside
    <3>3. at[j].offset + 1 + size = Len(code)
      BY <1>4, <1>6, <1>8, <1>13, <3>2 DEF size
    <3> QED
      BY <1>2, <2>3, <3>3
  <2>4. CASE at[j].offset + 1 + size <= Len(code)
    BY <2>4 DEF size
  <2>5. \/ at[j].offset + 1 + size > Len(code)
        \/ at[j].offset + 1 + size <= Len(code)
    <3> DEFINE x == at[j].offset
    <3>1. size \in 1..32 /\ x \in Nat
      BY <2>1
    <3> HIDE DEF x
    <3>2. x + 1 + size \in Nat
      BY <3>1
    <3>3. at[j].offset + 1 + size \in Nat
      BY <3>2 DEF x
    <3>4. Len(code) \in Nat
      BY <1>2
    <3> QED
      BY <3>3, <3>4
  <2> QED
    BY <2>3, <2>4, <2>5
<1>14. EndInv'
  BY <1>1, <1>13 DEF EndInv, OfCode, OpAt, PushSize
<1> QED
  BY <1>1, <1>8, <1>9, <1>10, <1>11, <1>12, <1>14 DEF ScanInv

\* Copying and padding the code leaves the scan alone.
LEMMA PadCodeStep ==
    ASSUME AnalysisInv, ScanInv, analyzed, PadCode,
           UNCHANGED advancedAnalysisVars
    PROVE  ScanInv' /\ PaddingInv'
<1>1. /\ UNCHANGED <<at, code, analyzed, scan_pos, jumpdest_map>>
      /\ prepared' = TRUE /\ scan_pos >= Len(code)
  BY DEF PadCode, advancedAnalysisVars
<1>2. scan_pos \in Nat /\ Len(code) \in Nat /\ code \in Seq(Byte)
  BY CodesAssumption DEF ScanInv, AnalysisInv, AdvancedAnalysisTypeOK
<1>3. PICK junk \in [Len(code) + 1..scan_pos - 1 -> JunkBytes] :
        padded_code' = [n \in 0..scan_pos |->
                          CASE n < Len(code) -> code[n + 1]
                            [] n \in {Len(code), scan_pos} -> OP.STOP
                            [] OTHER -> junk[n]]
  BY DEF PadCode
<1>4. DOMAIN padded_code' = 0..scan_pos
  BY <1>3
<1>5. \A n \in 0..Len(code) - 1 : padded_code'[n] = code[n + 1]
  BY <1>1, <1>2, <1>3
<1>6. padded_code'[Len(code)] = OP.STOP /\ padded_code'[scan_pos] = OP.STOP
  BY <1>1, <1>2, <1>3
<1>7. \A n \in 0..scan_pos : padded_code'[n] \in Byte
  <2>1. TAKE n \in 0..scan_pos
  <2>2. CASE n < Len(code)
    BY <2>2, <1>2, <1>5
  <2>3. CASE n \in {Len(code), scan_pos}
    <3>1. padded_code'[n] = 0
      BY <2>3, <1>6, OpcodeFacts
    <3> QED
      BY <3>1 DEF Byte
  <2>4. CASE ~(n < Len(code)) /\ n \notin {Len(code), scan_pos}
    <3>1. padded_code'[n] = junk[n] /\ n \in Len(code) + 1..scan_pos - 1
      BY <2>4, <1>1, <1>2, <1>3
    <3> QED
      BY <3>1, JunkAssumption
  <2> QED
    BY <2>2, <2>3, <2>4
<1>8. PaddingInv'
  BY <1>1, <1>4, <1>5, <1>6, <1>7 DEF PaddingInv
<1>9. (Boundary(scan_pos) \/ PastEnd(scan_pos))'
      <=> Boundary(scan_pos) \/ PastEnd(scan_pos)
  BY <1>1 DEF OfCode, OpAt, Boundary, PastEnd
<1>10. ASSUME NEW CONSTANT o
       PROVE  IsJumpdest(o)' <=> IsJumpdest(o)
  BY <1>1 DEF IsJumpdest, OfCode, OpAt
<1>11. EndInv'
  BY <1>1 DEF ScanInv, EndInv, OfCode, OpAt, PushSize
<1>12. ScanInv'
  BY <1>1, <1>9, <1>10, <1>11 DEF ScanInv
<1> QED
  BY <1>8, <1>12

LEMMA TableNotEmpty == AnalysisInv /\ TableInv => Len(at) \in Nat /\ Len(at) > 0
BY TableFacts

\* The scan starts at a boundary, whatever the table was before it.
LEMMA AnalysisBeforeScan ==
    ASSUME AnalysisInv, TableInv, AnalysisInv', TableInv', ScanInv,
           AdvancedAnalyze, UNCHANGED baselineAnalysisVars
    PROVE  ScanInv'
<1>1. /\ ~analyzed /\ UNCHANGED <<scan_pos, jumpdest_map, prepared, code>>
  BY DEF AdvancedAnalyze, AnalyzeJumpdest, AnalyzeSmallPush, AnalyzeLargePush,
         AnalyzeGasDependent, AnalyzePc, AnalyzeOther, FinishAnalysis, InLoop,
         Emit, Advance, baselineAnalysisVars
<1>2. scan_pos = 0 /\ Len(code) \in Nat
  BY <1>1, TableFacts DEF ScanInv
<1>3. Boundary(scan_pos)'
  <2>1. (Len(at) \in Nat /\ Len(at) > 0)'
    BY TableNotEmpty, PTL
  <2>2. at'[1].offset = 0
    BY DEF TableInv, Ordered
  <2> QED
    BY <2>1, <2>2, <1>1, <1>2 DEF Boundary
<1>4. \A o \in 0..Len(code) - 1 : ~jumpdest_map[o] /\ ~(o < scan_pos)
  BY <1>2 DEF ScanInv
<1>5. EndInv'
  <2> SUFFICES ASSUME scan_pos' = Len(code), NEW k \in 1..Len(at')
               PROVE  ~OfCode(at[k])'
    BY <1>1 DEF EndInv
  <2>1. (TableInv /\ AnalysisInv)'
    OBVIOUS
  <2>2. at'[k].offset \in Nat /\ at'[k].next \in Nat /\ at'[k].next <= code_pos'
        /\ code_pos' \in 0..Len(code')
    <3>1. (at \in Seq(OriginType))' /\ (code_pos \in 0..Len(code))'
      BY <2>1 DEF AnalysisInv, AdvancedAnalysisTypeOK
    <3>2. at'[k].next <= code_pos'
      BY <2>1 DEF TableInv, Ordered
    <3>3. at'[k] \in OriginType
      BY <3>1
    <3> QED
      BY <3>1, <3>2, <3>3 DEF OriginType
  <2>3. Len(code') = 0 /\ code_pos' = 0
    <3>1. Len(code') = 0
      BY <1>1, <1>2
    <3> QED
      BY <3>1, <2>2
  <2>4. at'[k].next = 0 /\ at'[k].offset >= 0
    BY <2>2, <2>3
  <2> QED
    BY <2>2, <2>4 DEF OfCode
<1> QED
  BY <1>1, <1>2, <1>3, <1>4, <1>5 DEF ScanInv

\* The inductive invariant of both analyses.
LEMMA InitAnalysesInv == InitAnalyses => AnalysesInv
<1> SUFFICES ASSUME InitAnalyses
             PROVE  AnalysesInv
  OBVIOUS
<1>1. AnalysisInv /\ TableInv
  BY InitEstablishes, InitTable DEF InitAnalyses
<1>2. Len(code) \in Nat
  BY <1>1, TableFacts
<1>3. ScanInv
  BY <1>2 DEF InitAnalyses, InitBaselineAnalysis, InitAdvancedAnalysis, ScanInv,
              EndInv
<1>4. PaddingInv
  BY DEF InitAnalyses, InitBaselineAnalysis, PaddingInv
<1> QED
  BY <1>1, <1>3, <1>4 DEF AnalysesInv

LEMMA AnalyzeCodeStep ==
    AnalysesInv /\ [AnalyzeCode]_<<analysisVars, code, rev>> => AnalysesInv'
<1> SUFFICES ASSUME AnalysesInv, [AnalyzeCode]_<<analysisVars, code, rev>>
             PROVE  AnalysesInv'
  OBVIOUS
<1>1. AnalysisInv /\ TableInv /\ ScanInv /\ PaddingInv
  BY DEF AnalysesInv
<1>2. AnalysisInv' /\ TableInv'
  <2>1. [AdvancedAnalyze]_<<advancedAnalysisVars, code, rev>>
    BY DEF AnalyzeCode, analysisVars, BaselineAnalyze, ScanOpcode, PadCode
  <2> QED
    BY <1>1, <2>1, TableStep
<1>3. CASE AdvancedAnalyze /\ UNCHANGED baselineAnalysisVars
  <2>1. ScanInv'
    BY <1>1, <1>2, <1>3, AnalysisBeforeScan
  <2>2. ~analyzed
    BY <1>3 DEF AdvancedAnalyze, AnalyzeJumpdest, AnalyzeSmallPush,
                AnalyzeLargePush, AnalyzeGasDependent, AnalyzePc,
                AnalyzeOther, FinishAnalysis, InLoop
  <2>3. ~prepared'
    BY <1>1, <1>3, <2>2 DEF ScanInv, baselineAnalysisVars
  <2> QED
    BY <1>2, <2>1, <2>3 DEF AnalysesInv, PaddingInv
<1>4. CASE analyzed /\ ScanOpcode /\ UNCHANGED advancedAnalysisVars
  <2>1. ScanInv'
    BY <1>1, <1>4, ScanOpcodeStep
  <2>2. PaddingInv'
    BY <1>4 DEF ScanOpcode, PaddingInv
  <2> QED
    BY <1>2, <2>1, <2>2 DEF AnalysesInv
<1>5. CASE analyzed /\ PadCode /\ UNCHANGED advancedAnalysisVars
  BY <1>1, <1>2, <1>5, PadCodeStep DEF AnalysesInv
<1>6. CASE UNCHANGED <<analysisVars, code, rev>>
  <2>1. UNCHANGED <<at, code, analyzed, scan_pos, jumpdest_map, prepared,
                    padded_code>>
    BY <1>6 DEF analysisVars, advancedAnalysisVars, baselineAnalysisVars
  <2>2. (Boundary(scan_pos) \/ PastEnd(scan_pos))'
        <=> Boundary(scan_pos) \/ PastEnd(scan_pos)
    BY <2>1 DEF OfCode, OpAt, Boundary, PastEnd
  <2>3. ASSUME NEW CONSTANT o
        PROVE  IsJumpdest(o)' <=> IsJumpdest(o)
    BY <2>1 DEF IsJumpdest, OfCode, OpAt
  <2>a. EndInv'
    BY <1>1, <2>1 DEF ScanInv, EndInv, OfCode, OpAt, PushSize
  <2>4. ScanInv'
    BY <1>1, <2>1, <2>2, <2>3, <2>a DEF ScanInv
  <2>5. PaddingInv'
    BY <1>1, <2>1 DEF PaddingInv
  <2> QED
    BY <1>2, <2>4, <2>5 DEF AnalysesInv
<1> QED
  BY <1>3, <1>4, <1>5, <1>6 DEF AnalyzeCode, BaselineAnalyze

LEMMA AnalysesInvariant == AnalysesSpec => []AnalysesInv
BY InitAnalysesInv, AnalyzeCodeStep, PTL DEF AnalysesSpec

-----------------------------------------------------------------------------
(***************************************************************************)
(* The jump destinations.                                                  *)
(***************************************************************************)
\* The lower_bound of find_jumpdest finds the offset, on sorted offsets, if it
\* is there.
LEMMA FindJumpdestFinds ==
    ASSUME AnalysisInv, NEW offset \in Nat,
           NEW i \in 1..Len(jumpdest_offsets), jumpdest_offsets[i] = offset
    PROVE  find_jumpdest(offset) = jumpdest_targets[i]
<1> DEFINE n == Len(jumpdest_offsets)
           Bound(k) == /\ \A j \in 1..k - 1 : jumpdest_offsets[j] < offset
                       /\ k <= n => jumpdest_offsets[k] >= offset
           it == CHOOSE k \in 1..n + 1 : Bound(k)
<1>1. /\ n \in Nat /\ i \in 1..n
      /\ \A j \in 1..n : jumpdest_offsets[j] \in Nat
      /\ \A j, k \in 1..n : j < k => jumpdest_offsets[j] < jumpdest_offsets[k]
  <2>1. jumpdest_offsets \in Seq(Nat)
    BY DEF AnalysisInv, AdvancedAnalysisTypeOK
  <2>2. \A j, k \in 1..n : j < k => jumpdest_offsets[j] < jumpdest_offsets[k]
    BY DEF AnalysisInv, JumpdestInv, JumpdestIndexSound
  <2> QED
    BY <2>1, <2>2
<1> HIDE DEF n
<1>2. Bound(i) /\ i \in 1..n + 1
  BY <1>1
<1>3. it \in 1..n + 1 /\ Bound(it)
  <2> HIDE DEF Bound
  <2> QED
    BY <1>2
<1>4. ASSUME NEW k \in 1..n + 1, Bound(k)
      PROVE  k = i
  <2>1. ~(k < i)
    BY <1>1, <1>4
  <2>2. ~(k > i)
    BY <1>1, <1>4
  <2> QED
    BY <2>1, <2>2, <1>1
<1>5. it = i
  BY <1>3, <1>4
<1>6. find_jumpdest(offset) = IF it <= n /\ jumpdest_offsets[it] = offset
                              THEN jumpdest_targets[it] ELSE 0
  BY DEF find_jumpdest, n
<1> HIDE DEF it
<1> QED
  BY <1>1, <1>5, <1>6

\* It finds nothing else.
LEMMA FindJumpdestFails ==
    ASSUME AnalysisInv, NEW offset \in Nat,
           \A i \in 1..Len(jumpdest_offsets) : jumpdest_offsets[i] # offset
    PROVE  find_jumpdest(offset) = 0
<1> DEFINE n == Len(jumpdest_offsets)
           Bound(k) == /\ \A j \in 1..k - 1 : jumpdest_offsets[j] < offset
                       /\ k <= n => jumpdest_offsets[k] >= offset
           it == CHOOSE k \in 1..n + 1 : Bound(k)
<1>1. /\ n \in Nat
      /\ \A j \in 1..n : jumpdest_offsets[j] \in Nat
  BY DEF AnalysisInv, AdvancedAnalysisTypeOK
<1> HIDE DEF n
<1>2. \E k \in 1..n + 1 : Bound(k)
  <2> DEFINE S == {k \in 1..n + 1 : k = n + 1 \/ jumpdest_offsets[k] >= offset}
  <2>1. S \in SUBSET Nat /\ n + 1 \in S
    BY <1>1
  <2>2. PICK x \in S : \A y \in S : x <= y
    <3> HIDE DEF S
    <3> QED
      BY <2>1, LeastElement
  <2>3. Bound(x)
    BY <2>2, <1>1
  <2> QED
    BY <2>2, <2>3
<1>3. it \in 1..n + 1
  <2> HIDE DEF Bound
  <2> QED
    BY <1>2
<1>4. find_jumpdest(offset) = IF it <= n /\ jumpdest_offsets[it] = offset
                              THEN jumpdest_targets[it] ELSE 0
  BY DEF find_jumpdest, n
<1> HIDE DEF it
<1> QED
  BY <1>1, <1>3, <1>4 DEF n

\* find_jumpdest finds exactly the JUMPDESTs of the code.
LEMMA FindJumpdestExact ==
    ASSUME AnalysisInv, TableInv, analyzed, NEW offset \in Nat
    PROVE  (find_jumpdest(offset) # 0) <=> IsJumpdest(offset)
<1>1. CASE \E i \in 1..Len(jumpdest_offsets) : jumpdest_offsets[i] = offset
  <2>1. PICK i \in 1..Len(jumpdest_offsets) : jumpdest_offsets[i] = offset
    BY <1>1
  <2> DEFINE t == jumpdest_targets[i]
  <2>2. find_jumpdest(offset) = t
    BY <2>1, FindJumpdestFinds
  <2>3. /\ t \in 1..Len(instrs) /\ at[t].offset = offset
        /\ code[offset + 1] = OP.JUMPDEST /\ OfCode(at[t])
    BY <2>1 DEF AnalysisInv, JumpdestInv, JumpdestIndexSound, TableInv, Indexed
  <2>4. IsJumpdest(offset)
    BY <2>3, TableFacts DEF IsJumpdest, OpAt
  <2> QED
    BY <2>2, <2>3, <2>4
<1>2. CASE ~ \E i \in 1..Len(jumpdest_offsets) : jumpdest_offsets[i] = offset
  <2>1. find_jumpdest(offset) = 0
    BY <1>2, FindJumpdestFails
  <2>2. ~IsJumpdest(offset)
    BY <1>2 DEF IsJumpdest, TableInv, Indexed
  <2> QED
    BY <2>1, <2>2
<1> QED
  BY <1>1, <1>2

\* The map of Baseline marks exactly the JUMPDESTs of the code.
LEMMA JumpdestMapExact ==
    ASSUME AnalysesInv, analyzed, prepared, NEW offset \in Nat
    PROVE  InJumpdestMap(offset) <=> IsJumpdest(offset)
<1>1. AnalysisInv /\ TableInv /\ ScanInv
  BY DEF AnalysesInv
<1>2. Len(code) \in Nat /\ scan_pos \in Nat /\ scan_pos >= Len(code)
  BY <1>1, TableFacts DEF ScanInv
<1>3. CASE offset < Len(code)
  <2>1. offset \in 0..Len(code) - 1 /\ offset < scan_pos
    BY <1>2, <1>3
  <2> QED
    BY <2>1, <1>1, <1>3 DEF ScanInv, InJumpdestMap
<1>4. CASE ~(offset < Len(code))
  <2>1. ASSUME IsJumpdest(offset)
        PROVE  FALSE
    <3>1. PICK k \in 1..Len(at) : at[k].offset = offset /\ OfCode(at[k])
      BY <2>1 DEF IsJumpdest
    <3>2. at[k].offset < Len(code)
      BY <3>1, <1>1, OfCodeIsTranslated DEF Translated
    <3> QED
      BY <3>1, <3>2, <1>4
  <2> QED
    BY <2>1, <1>4 DEF InJumpdestMap
<1> QED
  BY <1>3, <1>4

\* The Advanced and the Baseline analysis accept the same jump targets, for
\* every code and revision: whatever data a PUSH carries, and wherever the code
\* ends, a jump is valid in one interpreter exactly when it is in the other.
THEOREM SameJumpdests == AnalysesSpec => []JumpdestsAgree
<1>1. AnalysesInv => JumpdestsAgree
  <2> SUFFICES ASSUME AnalysesInv, analyzed, prepared,
                      NEW offset \in 0..Len(code) + 1
               PROVE  (find_jumpdest(offset) # 0) <=> InJumpdestMap(offset)
    BY DEF JumpdestsAgree
  <2>1. AnalysisInv /\ TableInv
    BY DEF AnalysesInv
  <2>2. offset \in Nat
    BY <2>1, TableFacts
  <2> QED
    BY <2>1, <2>2, FindJumpdestExact, JumpdestMapExact
<1> QED
  BY <1>1, AnalysesInvariant, PTL

-----------------------------------------------------------------------------
(***************************************************************************)
(* The gas that a gas dependent instruction adds back.                     *)
(***************************************************************************)
\* The sum of the costs in h of the entries in S, as it is folded.
Folded(h, S, f) ==
    f = [s \in SUBSET S |->
           IF s = {} THEN 0
           ELSE LET x == CHOOSE x \in s : TRUE
                IN  h[x].info.gas_cost + f[s \ {x}]]

\* The same sum counted: the units of gas, numbered in the order they are
\* charged, of the entries in s; c[j] of them are charged up to entry j.
UnitsOf(c, e, s) == {i \in 1..c[e] : \E j \in s : c[j - 1] < i /\ i <= c[j]}

\* The costs of consecutive entries add up to what is charged for them, in
\* whatever order they are summed.
\* c is what is charged up to each of the entries k to e.
Charged(h, k, e, c) ==
    /\ c \in [k..e -> Nat]
    /\ \A j \in (k + 1)..e : /\ h[j].info.gas_cost \in Nat
                             /\ c[j] = c[j - 1] + h[j].info.gas_cost

TotalCost(h, S) == MapThenSumSet(LAMBDA j : h[j].info.gas_cost, S)

LEMMA SumOfCosts ==
    ASSUME NEW h, NEW k \in Nat, NEW e \in Nat, k <= e,
           NEW c, Charged(h, k, e, c)
    PROVE  TotalCost(h, (k + 1)..e) = c[e] - c[k]
<1> DEFINE S == (k + 1)..e
           w == [j \in S |-> h[j].info.gas_cost]
           It == CHOOSE f : Folded(h, S, f)
           U(s) == UnitsOf(c, e, s)
           F == [s \in SUBSET S |-> Cardinality(U(s))]
<1>a. /\ c \in [k..e -> Nat]
      /\ \A j \in S : /\ h[j].info.gas_cost \in Nat
                      /\ c[j] = c[j - 1] + h[j].info.gas_cost
  BY DEF Charged
<1>1. TotalCost(h, S) = It[S]
  BY DEF TotalCost, MapThenSumSet, MapThenFoldSet, Folded
<1>2. \A j \in S : /\ j \in k..e /\ j - 1 \in k..e /\ w[j] \in Nat
                   /\ c[j] = c[j - 1] + w[j] /\ c[j] \in Nat
                   /\ c[j - 1] \in Nat /\ w[j] = h[j].info.gas_cost
  <2> SUFFICES ASSUME NEW j \in S
               PROVE  /\ j \in k..e /\ j - 1 \in k..e /\ w[j] \in Nat
                      /\ c[j] = c[j - 1] + w[j] /\ c[j] \in Nat
                      /\ c[j - 1] \in Nat /\ w[j] = h[j].info.gas_cost
    OBVIOUS
  <2>1. j \in k..e /\ j - 1 \in k..e
    OBVIOUS
  <2> QED
    BY <2>1, <1>a
\* What is charged grows from entry to entry.
<1>3. \A i, j \in k..e : i <= j => c[i] <= c[j]
  <2> SUFFICES ASSUME NEW i \in k..e, NEW z \in k..e, i <= z, ~(c[i] <= c[z])
               PROVE  FALSE
    OBVIOUS
  <2> DEFINE Bad == {j \in i..e : ~(c[i] <= c[j])}
  <2>1. Bad \in SUBSET Nat /\ Bad # {}
    BY <1>2
  <2>2. PICK x \in Bad : \A y \in Bad : x <= y
    <3> HIDE DEF Bad
    <3> QED
      BY <2>1, LeastElement
  <2>3. x # i /\ c[i] \in Nat
    BY <2>2, <1>a
  <2>4. x \in S /\ x - 1 \in i..e /\ x - 1 \notin Bad
    BY <2>2, <2>3
  <2>5. c[i] <= c[x - 1]
    BY <2>4
  <2>6. c[x] = c[x - 1] + w[x] /\ w[x] \in Nat /\ c[x - 1] \in Nat
    BY <2>4, <1>2
  <2>7. c[i] <= c[x]
    <3> HIDE DEF w
    <3> QED
      BY <2>3, <2>5, <2>6
  <2> QED
    BY <2>2, <2>7
<1> HIDE DEF w
<1>4. \A s \in SUBSET S : IsFiniteSet(U(s)) /\ Cardinality(U(s)) \in Nat
  <2> SUFFICES ASSUME NEW s \in SUBSET S
               PROVE  IsFiniteSet(U(s)) /\ Cardinality(U(s)) \in Nat
    OBVIOUS
  <2>1. c[e] \in Nat
    BY <1>a
  <2>2. IsFiniteSet(1..c[e])
    BY <2>1, FS_Interval
  <2>3. U(s) \in SUBSET (1..c[e])
    BY DEF UnitsOf
  <2>4. IsFiniteSet(U(s))
    BY ONLY <2>2, <2>3, FS_Subset
  <2> QED
    BY ONLY <2>4, FS_CardinalityType
\* The units of one entry are apart from those of the others.
<1>5. ASSUME NEW s \in SUBSET S, NEW x \in s
      PROVE  Cardinality(U(s)) = w[x] + Cardinality(U(s \ {x}))
  <2>1. /\ x \in S /\ c[x] = c[x - 1] + w[x] /\ w[x] \in Nat
        /\ c[x - 1] \in Nat /\ c[x] \in Nat /\ c[x] <= c[e] /\ c[e] \in Nat
    <3>1. x \in S
      OBVIOUS
    <3>2. e \in k..e /\ x <= e /\ c[e] \in Nat
      BY <1>a
    <3> QED
      BY <3>1, <3>2, <1>2, <1>3
  <2> DEFINE I == (c[x - 1] + 1)..c[x]
             R == U(s \ {x})
  <2>2. U(s) = I \cup R
    <3>1. I \subseteq 1..c[e]
      BY <2>1
    <3>2. ASSUME NEW i \in U(s)
          PROVE  i \in I \cup R
      <4>1. PICK j \in s : c[j - 1] < i /\ i <= c[j] /\ i \in 1..c[e]
        BY <3>2 DEF UnitsOf
      <4>2. CASE j = x
        BY <4>1, <4>2, <2>1
      <4>3. CASE j # x
        <5>1. j \in s \ {x}
          BY <4>3
        <5> QED
          BY <4>1, <5>1 DEF UnitsOf
      <4> QED
        BY <4>2, <4>3
    <3>3. I \subseteq U(s)
      <4> SUFFICES ASSUME NEW i \in I PROVE i \in U(s)
        OBVIOUS
      <4>1. i \in 1..c[e] /\ c[x - 1] < i /\ i <= c[x]
        BY <3>1, <2>1
      <4> QED
        BY <4>1 DEF UnitsOf
    <3>4. R \subseteq U(s)
      BY DEF UnitsOf
    <3> HIDE DEF I, R, U
    <3> QED
      BY <3>2, <3>3, <3>4
  <2>3. I \cap R = {}
    <3> SUFFICES ASSUME NEW i \in I, i \in R
                 PROVE  FALSE
      OBVIOUS
    <3>1. PICK j \in s \ {x} : c[j - 1] < i /\ i <= c[j]
      BY DEF UnitsOf
    <3>2. /\ j \in S /\ c[j] \in Nat /\ c[j - 1] \in Nat /\ i \in Int
          /\ i > c[x - 1] /\ i <= c[x]
          /\ j \in k..e /\ j - 1 \in k..e /\ x \in k..e /\ x - 1 \in k..e
      <4>1. j \in S /\ x \in S
        OBVIOUS
      <4>2. i \in Int /\ i > c[x - 1] /\ i <= c[x]
        BY ONLY <2>1, i \in I
      <4> HIDE DEF S, U
      <4> QED
        BY <4>1, <4>2, <1>2
    <3>3. CASE j < x
      <4>1. c[j] <= c[x - 1]
        BY <3>2, <3>3, <1>3
      <4> QED
        BY <4>1, <3>1, <3>2, <2>1
    <3>4. CASE j > x
      <4>1. c[x] <= c[j - 1]
        BY <3>2, <3>4, <1>3
      <4> QED
        BY <4>1, <3>1, <3>2, <2>1
    <3> QED
      BY <3>1, <3>2, <3>3, <3>4
  <2>4. IsFiniteSet(I) /\ Cardinality(I) = w[x]
    <3>1. c[x - 1] + 1 \in Int /\ c[x] \in Int
      BY <2>1
    <3>2. PICK a \in Int, b \in Int : a = c[x - 1] + 1 /\ b = c[x]
      BY <3>1
    <3>3. IsFiniteSet(a..b) /\ Cardinality(a..b) = IF a > b THEN 0 ELSE b - a + 1
      BY FS_Interval
    <3> QED
      BY <3>2, <3>3, <2>1
  <2>5. IsFiniteSet(R) /\ Cardinality(R) \in Nat
    BY <1>4
  <2> HIDE DEF I, R
  <2>6. Cardinality(I \cup R) = Cardinality(I) + Cardinality(R)
          - Cardinality(I \cap R)
    BY ONLY <2>4, <2>5, FS_Union
  <2>7. Cardinality(I \cap R) = 0
    BY <2>3, FS_EmptySet
  <2>8. Cardinality(I \cup R) = w[x] + Cardinality(R)
    BY ONLY <2>1, <2>4, <2>5, <2>6, <2>7
  <2> QED
    BY <2>2, <2>8 DEF R
<1>6. Cardinality(U({})) = 0
  <2>1. U({}) = {}
    BY DEF UnitsOf
  <2> QED
    BY <2>1, FS_EmptySet
<1> HIDE DEF U, F
\* The count satisfies the equation of the fold, so the fold does.
<1>7. Folded(h, S, F)
  <2> DEFINE Step(s) == IF s = {} THEN 0
                        ELSE LET x == CHOOSE x \in s : TRUE
                             IN  h[x].info.gas_cost + F[s \ {x}]
  <2>1. ASSUME NEW s \in SUBSET S
        PROVE  Cardinality(U(s)) = Step(s)
    <3>1. CASE s = {}
      BY <3>1, <1>6
    <3>2. CASE s # {}
      <4>1. PICK x \in s : x = CHOOSE z \in s : TRUE
        BY <3>2
      <4>2. s \ {x} \in SUBSET S
        OBVIOUS
      <4>3. F[s \ {x}] = Cardinality(U(s \ {x}))
        BY <4>2 DEF F
      <4>4. Cardinality(U(s)) = w[x] + Cardinality(U(s \ {x}))
        BY <1>5
      <4>5. w[x] = h[x].info.gas_cost
        <5>1. x \in S
          OBVIOUS
        <5> QED
          BY <5>1, <1>2
      <4> HIDE DEF S
      <4> QED
        BY <3>2, <4>1, <4>3, <4>4, <4>5
    <3> QED
      BY <3>1, <3>2
  <2> HIDE DEF Step
  <2>2. F = [s \in SUBSET S |-> Step(s)]
    BY <2>1 DEF F
  <2> QED
    BY <2>2 DEF Step, Folded
<1>8. Folded(h, S, It)
  BY <1>7
<1> HIDE DEF It
<1>9. /\ It[{}] = 0
      /\ \A s \in SUBSET S : s # {} =>
           \E x \in s : It[s] = w[x] + It[s \ {x}]
  <2>1. It[{}] = 0
    BY <1>8 DEF Folded
  <2>2. ASSUME NEW s \in SUBSET S, s # {}
        PROVE  \E x \in s : It[s] = w[x] + It[s \ {x}]
    <3>1. PICK x \in s : x = CHOOSE z \in s : TRUE
      BY <2>2
    <3>2. It[s] = h[x].info.gas_cost + It[s \ {x}]
      <4> HIDE DEF S
      <4> QED
        BY <2>2, <3>1, <1>8 DEF Folded
    <3>3. w[x] = h[x].info.gas_cost
      <4>1. x \in S
        OBVIOUS
      <4> QED
        BY <4>1, <1>2
    <3> QED
      BY <3>2, <3>3
  <2> QED
    BY <2>1, <2>2
\* The two agree: a smallest set on which they differ is not empty, and they
\* differ without the element that the fold takes first.
<1>10. IsFiniteSet(S) /\ \A s \in SUBSET S : IsFiniteSet(s)
                                             /\ Cardinality(s) \in Nat
  <2>1. k + 1 \in Int /\ e \in Int
    OBVIOUS
  <2>2. IsFiniteSet(S)
    BY ONLY <2>1, FS_Interval
  <2>3. \A s \in SUBSET S : IsFiniteSet(s)
    BY ONLY <2>2, FS_Subset
  <2> QED
    BY ONLY <2>2, <2>3, FS_CardinalityType
<1> HIDE DEF S
<1>11. \A s \in SUBSET S : It[s] = Cardinality(U(s))
  <2> SUFFICES ASSUME NEW z \in SUBSET S, It[z] # Cardinality(U(z))
               PROVE  FALSE
    OBVIOUS
  <2> DEFINE Bad == {n \in Nat : \E s \in SUBSET S : /\ Cardinality(s) = n
                                                 /\ It[s] # Cardinality(U(s))}
  <2>1. Bad \in SUBSET Nat /\ Cardinality(z) \in Bad
    BY <1>10
  <2>2. PICK n \in Bad : \A y \in Bad : n <= y
    <3> HIDE DEF Bad
    <3> QED
      BY <2>1, LeastElement
  <2>3. PICK s \in SUBSET S : Cardinality(s) = n /\ It[s] # Cardinality(U(s))
    OBVIOUS
  <2>4. s # {}
    BY <2>3, <1>6, <1>9
  <2>5. PICK x \in s : It[s] = w[x] + It[s \ {x}]
    BY <2>4, <1>9
  <2>6. s \ {x} \in SUBSET S /\ IsFiniteSet(s)
    BY <1>10
  <2>7. Cardinality(s \ {x}) = n - 1 /\ Cardinality(s \ {x}) \in Nat
    <3>1. Cardinality(s \ {x}) = IF x \in s THEN Cardinality(s) - 1
                                 ELSE Cardinality(s)
      BY ONLY <2>6, FS_RemoveElement
    <3> QED
      BY <3>1, <2>3, <2>6, <1>10
  <2>8. It[s \ {x}] # Cardinality(U(s \ {x}))
    BY <2>3, <2>5, <1>5
  <2>9. n - 1 \in Bad
    BY <2>6, <2>7, <2>8
  <2> QED
    BY <2>2, <2>9
\* All the units together are those after entry k.
<1>12. U(S) = (c[k] + 1)..c[e]
  <2>1. c[k] \in Nat /\ c[e] \in Nat
    BY <1>a
  <2>2. ASSUME NEW i \in U(S)
        PROVE  i \in (c[k] + 1)..c[e]
    <3>1. PICK j \in S : c[j - 1] < i /\ i <= c[j] /\ i \in 1..c[e]
      BY <2>2 DEF U, UnitsOf
    <3>2. c[k] <= c[j - 1] /\ c[j - 1] \in Nat
      <4>1. k \in k..e /\ j - 1 \in k..e /\ k <= j - 1
        BY DEF S
      <4> QED
        BY <4>1, <1>2, <1>3
    <3> QED
      BY <3>1, <3>2, <2>1
  <2>3. ASSUME NEW i \in (c[k] + 1)..c[e]
        PROVE  i \in U(S)
    <3> DEFINE T == {j \in k..e : i <= c[j]}
    <3>1. T \in SUBSET Nat /\ e \in T
      BY <2>1
    <3>2. PICK j \in T : \A y \in T : j <= y
      <4> HIDE DEF T
      <4> QED
        BY <3>1, LeastElement
    <3>3. j # k
      BY <2>1, <3>2
    <3>4. j \in S /\ j - 1 \in k..e /\ j - 1 \notin T
      BY <3>2, <3>3 DEF S
    <3>5. c[j - 1] < i /\ i <= c[j]
      BY <3>2, <3>4, <1>2
    <3>6. i \in 1..c[e]
      BY <2>1
    <3> QED
      BY <3>4, <3>5, <3>6 DEF U, UnitsOf
  <2> QED
    BY <2>2, <2>3
<1>13. Cardinality(U(S)) = c[e] - c[k]
  <2>1. PICK a \in Int, b \in Int : a = c[k] + 1 /\ b = c[e]
    BY <1>a
  <2>2. Cardinality(a..b) = IF a > b THEN 0 ELSE b - a + 1
    BY FS_Interval
  <2>3. c[k] <= c[e] /\ c[k] \in Nat /\ c[e] \in Nat
    BY <1>3, <1>a
  <2> QED
    BY <2>1, <2>2, <2>3, <1>12
<1> QED
  BY <1>1, <1>11, <1>13 DEF S

\* A block is consecutive entries: the one before a later entry of it is in it.
LEMMA BlockConsecutive ==
    ASSUME AnalysisInv, TableInv
    PROVE  \A j \in 1..Len(at) :
             /\ at[j].begin \in 1..j
             /\ at[j].begin # j => /\ j - 1 \in 1..Len(at)
                                   /\ at[j - 1].begin = at[j].begin
                                   /\ Cost(at[j]) = Cost(at[j - 1])
                                                      + at[j].info.gas_cost
<1>1. at \in Seq(OriginType) /\ Chain(at) /\ at[1].begin = 1
  BY DEF AnalysisInv, AdvancedAnalysisTypeOK, BlockInv, OpenInv, DoneInv,
         TableInv, Ordered
<1>2. Len(at) \in Nat
  BY <1>1
<1>3. ASSUME NEW j \in 2..Len(at)
      PROVE  Follows(at[j - 1], at[j], j) /\ j - 1 \in 1..Len(at)
  <2>1. j - 1 \in 1..Len(at) - 1 /\ (j - 1) + 1 = j
    BY <1>2
  <2> QED
    BY <1>1, <2>1 DEF Chain
<1> DEFINE Bad == {j \in 1..Len(at) : at[j].begin \notin 1..j}
<1>4. Bad = {}
  <2> SUFFICES ASSUME Bad # {} PROVE FALSE
    OBVIOUS
  <2>1. Bad \in SUBSET Nat
    OBVIOUS
  <2>2. PICK x \in Bad : \A y \in Bad : x <= y
    <3> HIDE DEF Bad
    <3> QED
      BY <2>1, LeastElement
  <2>3. x \in 2..Len(at)
    BY <2>2, <1>1, <1>2
  <2>4. Follows(at[x - 1], at[x], x) /\ x - 1 \in 1..Len(at)
    BY <2>3, <1>3
  <2>5. x - 1 \notin Bad
    BY <2>2, <2>3
  <2>6. at[x - 1].begin \in 1..x - 1
    BY <2>4, <2>5
  <2>7. at[x].begin = x \/ at[x].begin = at[x - 1].begin
    BY <2>4 DEF Follows
  <2> QED
    BY <2>2, <2>3, <2>6, <2>7
<1>5. ASSUME NEW j \in 1..Len(at), at[j].begin # j
      PROVE  /\ j - 1 \in 1..Len(at)
             /\ at[j - 1].begin = at[j].begin
             /\ Cost(at[j]) = Cost(at[j - 1]) + at[j].info.gas_cost
  <2>1. j \in 2..Len(at)
    BY <1>1, <1>2, <1>5
  <2> QED
    BY <2>1, <1>3, <1>5 DEF Follows, Cost
<1> QED
  BY <1>4, <1>5

\* The invariant makes the correction exact: the entries of the block after k
\* are consecutive, and number is the cost up to k.
LEMMA GasCorrectionFromInv == AnalysisInv /\ TableInv => GasCorrectionExact
<1> SUFFICES ASSUME AnalysisInv, TableInv, Len(code) <= max_code_size,
                    NEW b \in ClosedBlocks, NEW k \in Members(b) \ {b},
                    at[k].offset < Len(code),
                    code[at[k].offset + 1] \in GasDependent
             PROVE  instrs[b].block.gas_cost - instrs[k].number
                    = MapThenSumSet(LAMBDA j : at[j].info.gas_cost,
                                    {j \in Members(b) : j > k})
  BY DEF GasCorrectionExact
<1>1. /\ at \in Seq(OriginType) /\ Len(at) = Len(instrs) /\ Len(at) \in Nat
      /\ k \in 1..Len(at) /\ at[k].begin = b /\ k # b
  BY DEF AnalysisInv, AdvancedAnalysisTypeOK, BlockInv, OpenInv, DoneInv,
         Members
<1>2. \A j \in 1..Len(at) : /\ at[j] \in OriginType /\ Cost(at[j]) \in Nat
                            /\ at[j].info.gas_cost \in Nat
  <2> SUFFICES ASSUME NEW j \in 1..Len(at)
               PROVE  /\ at[j] \in OriginType /\ Cost(at[j]) \in Nat
                      /\ at[j].info.gas_cost \in Nat
    OBVIOUS
  <2>1. PICK o \in OriginType : o = at[j]
    BY <1>1
  <2>2. o.info \in op_table_entry
    BY DEF OriginType
  <2>3. Cost(o) \in Nat /\ o.info.gas_cost \in Nat
    BY <2>2, OriginNumbers, EntryNumbers
  <2> QED
    BY <2>1, <2>3
<1>3. instrs[k].number = Cost(at[k])
  <2>1. Translated(instrs[k], at[k], k, push_values)
    <3>1. ~Injected(instrs[k], at[k], k)
      BY <1>1 DEF Injected
    <3>2. k = Len(instrs) => ~Appended(instrs[k], at[k], k)
      <4>1. Len(code) \in Nat
        BY CodesAssumption DEF AnalysisInv, AdvancedAnalysisTypeOK
      <4> QED
        BY <4>1 DEF Appended
    <3> QED
      BY <1>1, <3>1, <3>2 DEF TableInv, Entries, EntryOK, AnalysisInv,
                              AdvancedAnalysisTypeOK
  <2> QED
    BY <2>1 DEF Translated, ArgumentOf, OpAt
<1>4. PICK e \in 1..Len(at) : /\ at[e].begin = b
                              /\ Cost(at[e]) = instrs[b].block.gas_cost
                              /\ \A j \in Members(b) : Cost(at[j]) <= Cost(at[e])
  BY BlockGasFromInv, <1>1 DEF BlockGasExact, Cost, Members
\* The last entry of the block, which costs no more than e.
<1>5. PICK l \in 1..Len(at) : /\ at[l].begin = b
                              /\ \A j \in 1..Len(at) : at[j].begin = b => j <= l
  <2> DEFINE T == {n \in 0..Len(at) : /\ Len(at) - n \in 1..Len(at)
                                      /\ at[Len(at) - n].begin = b}
  <2>1. T \in SUBSET Nat /\ Len(at) - k \in T
    <3>1. Len(at) - k \in 0..Len(at) /\ Len(at) - (Len(at) - k) = k
      BY <1>1
    <3> QED
      BY <1>1, <3>1
  <2>2. PICK x \in T : \A y \in T : x <= y
    <3> HIDE DEF T
    <3> QED
      BY <2>1, LeastElement
  <2>3. PICK l \in 1..Len(at) : l = Len(at) - x /\ at[l].begin = b
    BY <2>2
  <2>4. ASSUME NEW j \in 1..Len(at), at[j].begin = b
        PROVE  j <= l
    <3>1. Len(at) - j \in 0..Len(at) /\ Len(at) - (Len(at) - j) = j
      BY <1>1
    <3>2. Len(at) - j \in T
      BY <2>4, <3>1
    <3>3. x <= Len(at) - j
      BY <3>2, <2>2
    <3> QED
      BY <1>1, <2>2, <2>3, <3>3
  <2> QED
    BY <2>3, <2>4
<1>6. /\ b <= k /\ b \in Nat \ {0} /\ k <= l /\ k \in Nat /\ l \in Nat
      /\ l <= Len(at)
  <2>1. b \in 1..k
    BY <1>1, BlockConsecutive
  <2> QED
    BY <1>1, <1>5, <2>1
<1>7. \A j \in b..l : j \in 1..Len(at) /\ at[j].begin = b
  <2> DEFINE Bad == {n \in 0..l : l - n >= b /\ at[l - n].begin # b}
  <2>1. Bad = {}
    <3> SUFFICES ASSUME Bad # {} PROVE FALSE
      OBVIOUS
    <3>1. Bad \in SUBSET Nat
      OBVIOUS
    <3>2. PICK x \in Bad : \A y \in Bad : x <= y
      <4> HIDE DEF Bad
      <4> QED
        BY <3>1, LeastElement
    <3>3. x # 0
      BY <3>2, <1>5
    <3>4. x - 1 \in 0..l /\ x - 1 \notin Bad /\ l - (x - 1) = (l - x) + 1
          /\ l - x \in Nat /\ l - x >= b
      <4>1. x \in 1..l /\ l - x >= b
        BY <3>2, <3>3, <1>6
      <4>2. x - 1 \in Nat /\ x - 1 < x
        BY <4>1
      <4>3. x - 1 \notin Bad
        <5> HIDE DEF Bad
        <5> QED
          BY <3>2, <4>1, <4>2
      <4> QED
        BY <4>1, <4>3, <1>6
    <3>5. PICK i \in Nat : i = l - x
      BY <3>4
    <3>6. at[i + 1].begin = b /\ i >= b /\ i + 1 \in 1..Len(at) /\ i + 1 # b
      BY <3>2, <3>4, <3>5, <1>1, <1>5, <1>6
    <3>7. at[(i + 1) - 1].begin = b
      BY <3>6, BlockConsecutive
    <3> QED
      BY <3>2, <3>5, <3>7
  <2>2. ASSUME NEW j \in b..l
        PROVE  j \in 1..Len(at) /\ at[j].begin = b
    <3>1. /\ l - j \in 0..l /\ l - (l - j) = j /\ j >= b
          /\ j \in 1..Len(at)
      <4>1. b \in 1..k
        BY <1>1, BlockConsecutive
      <4> QED
        BY <1>1, <1>5, <4>1
    <3> QED
      BY <2>1, <3>1
  <2> QED
    BY <2>2
<1>8. PICK c \in [k..l -> Nat] : \A j \in k..l : c[j] = Cost(at[j])
  <2>1. \A j \in k..l : Cost(at[j]) \in Nat
    <3>1. \A j \in k..l : j \in 1..Len(at)
      BY <1>1, <1>6
    <3> QED
      BY <1>2, <3>1
  <2>2. [j \in k..l |-> Cost(at[j])] \in [k..l -> Nat]
    BY <2>1
  <2> QED
    BY <2>2
<1>9. \A j \in (k + 1)..l : /\ at[j].info.gas_cost \in Nat
                            /\ c[j] = c[j - 1] + at[j].info.gas_cost
  <2> SUFFICES ASSUME NEW j \in (k + 1)..l
               PROVE  /\ at[j].info.gas_cost \in Nat
                      /\ c[j] = c[j - 1] + at[j].info.gas_cost
    OBVIOUS
  <2>1. j \in b..l /\ j \in k..l /\ j - 1 \in k..l /\ j # b
    BY <1>6
  <2>2. j \in 1..Len(at) /\ at[j].begin = b
    BY <2>1, <1>7
  <2>3. Cost(at[j]) = Cost(at[j - 1]) + at[j].info.gas_cost
    BY <2>1, <2>2, BlockConsecutive
  <2> QED
    BY <2>1, <2>2, <2>3, <1>2, <1>8
<1>10. k <= l /\ k \in Nat /\ l \in Nat
  BY <1>6
<1>11. TotalCost(at, (k + 1)..l) = c[l] - c[k]
  <2>1. Charged(at, k, l, c)
    BY <1>9 DEF Charged
  <2> QED
    BY ONLY <2>1, <1>10, SumOfCosts
<1>12. {j \in Members(b) : j > k} = (k + 1)..l
  BY <1>1, <1>5, <1>6, <1>7, <1>10 DEF Members
\* No entry after e costs anything.
<1>13. Cost(at[l]) = Cost(at[e])
  <2>1. Cost(at[l]) <= Cost(at[e])
    BY <1>1, <1>4, <1>5 DEF Members
  <2>2. e \in b..l
    BY <1>4, <1>5, BlockConsecutive
  <2> DEFINE Bad == {j \in e..l : ~(Cost(at[e]) <= Cost(at[j]))}
  <2>3. Bad = {}
    <3> SUFFICES ASSUME Bad # {} PROVE FALSE
      OBVIOUS
    <3>1. Bad \in SUBSET Nat
      OBVIOUS
    <3>2. PICK x \in Bad : \A y \in Bad : x <= y
      <4> HIDE DEF Bad
      <4> QED
        BY <3>1, LeastElement
    <3>3. x # e
      BY <3>2, <1>2
    <3>4. x - 1 \in e..l /\ x - 1 \notin Bad /\ x \in b..l /\ x # b
      BY <3>2, <3>3, <2>2, <1>6
    <3>5. x \in 1..Len(at) /\ at[x].begin = b
      BY <3>4, <1>7
    <3>6. /\ Cost(at[x]) = Cost(at[x - 1]) + at[x].info.gas_cost
          /\ x - 1 \in 1..Len(at)
      BY <3>4, <3>5, BlockConsecutive
    <3>7. Cost(at[e]) <= Cost(at[x - 1])
      BY <3>4
    <3>8. /\ Cost(at[e]) \in Nat /\ Cost(at[x]) \in Nat
          /\ Cost(at[x - 1]) \in Nat /\ at[x].info.gas_cost \in Nat
      BY <3>5, <3>6, <1>2
    <3>9. Cost(at[e]) <= Cost(at[x])
      BY ONLY <3>6, <3>7, <3>8
    <3> QED
      BY <3>2, <3>9
  <2>4. Cost(at[e]) <= Cost(at[l])
    <3>1. l \in e..l
      BY <2>2
    <3> QED
      BY <2>3, <3>1
  <2> QED
    BY <2>1, <2>4, <1>2
<1>14. c[l] = instrs[b].block.gas_cost /\ c[k] = instrs[k].number
  BY <1>3, <1>4, <1>8, <1>10, <1>13
<1>15. TotalCost(at, {j \in Members(b) : j > k})
       = instrs[b].block.gas_cost - instrs[k].number
  BY <1>11, <1>12, <1>14
<1> QED
  BY <1>15 DEF TotalCost

\* What op_gas, op_sstore, op_call and op_create add back to the gas left, the
\* block's cost minus the argument of the instruction, is exactly what was
\* charged at the entry of the block for the instructions still to come.
THEOREM GasCorrected == AdvancedAnalysisSpec => []GasCorrectionExact
<1>1. InitBytecode /\ InitAdvancedAnalysis => AnalysisInv /\ TableInv
  BY InitEstablishes, InitTable
<1>2. /\ AnalysisInv /\ TableInv
      /\ [AdvancedAnalyze]_<<advancedAnalysisVars, code, rev>>
      => (AnalysisInv /\ TableInv)'
  BY TableStep
<1> QED
  BY <1>1, <1>2, GasCorrectionFromInv, PTL DEF AdvancedAnalysisSpec

=============================================================================
