------------------------- MODULE InterpretersProofs --------------------------
(***************************************************************************)
(* Both interpreters, for every code within max_code_size and every        *)
(* message, environment, revision and limit: neither touches anything      *)
(* outside of its stack, memory and return data, what they promise of gas, *)
(* padding, return data and static mode, and that they go the same way,    *)
(* instruction by instruction, to the same result.                         *)
(***************************************************************************)
EXTENDS Interpreters, CodeAnalysesProofs, InstructionsProofs

\* Baseline is at an instruction of the code, at its end, or at the STOP after
\* the data of a push that runs past it.
BaselineInv ==
    /\ Sound(baseline)
    /\ code_it # NoPosition =>
         /\ Succeeded(baseline)
         /\ Boundary(code_it) \/ code_it = scan_pos

\* Inside of a block: the stack the block was entered with, of height h, had
\* passed its check, and the gas it was charged ahead had been there.
Inside ==
    LET o == at[instr_it]
        h == Len(advanced.stack) - o.change
    IN  /\ o.begin \in 1..Len(instrs) /\ at[o.begin].begin = o.begin
        /\ h \in 0..StackLimit
        /\ PassesStackCheck(instrs[o.begin].block, h)
        /\ current_block_cost = instrs[o.begin].block.gas_cost
        /\ advanced.gas_left + (current_block_cost - o.gas) <= Int64Max

AdvancedInv ==
    /\ Sound(advanced)
    /\ instr_it \in 0..Len(instrs)
    /\ current_block_cost \in 0..BlockGasMax
    /\ instr_it # 0 => Succeeded(advanced)
    /\ instr_it # 0 /\ at[instr_it].begin # instr_it => Inside

\* The inductive invariant of an execution.
ExecutionInv ==
    /\ AnalysesInv
    /\ started \in BOOLEAN
    /\ started => /\ analyzed /\ prepared
                  /\ Context_ /\ BaselineInv /\ AdvancedInv

-----------------------------------------------------------------------------
(***************************************************************************)
(* The tables.                                                             *)
(***************************************************************************)
LEMMA TraitsBounded ==
    ASSUME NEW op \in Byte
    PROVE  /\ StackTraits(op)[1] \in Nat /\ StackTraits(op)[2] \in Int
           /\ StackTraits(op)[2] <= 1
<1>1. StackTraits(op)[1] \in Nat
  BY DEF Byte, StackTraits, OP, PushOps, DupOps, SwapOps, LogOps
<1>2. CASE op \in LogOps
  <2>1. StackTraits(op)[2] = -(op - OP.LOG0 + 2) /\ op - OP.LOG0 \in Nat
    BY <1>2, TraitsOfFamilies DEF LogOps, OP
  <2> QED
    BY <1>1, <2>1
<1>3. CASE op \notin LogOps
  <2>1. StackTraits(op)[2] \in {-6, -5, -4, -3, -2, -1, 0, 1}
    BY <1>3 DEF StackTraits
  <2> QED
    BY <1>1, <2>1
<1> QED
  BY <1>2, <1>3

\* The entry of an opcode in the table of Baseline.
LEMMA BaselineEntry ==
    ASSUME rev \in Revisions, NEW op \in Byte
    PROVE  LET m == BaselineTable[rev][op]
           IN  /\ m.gas_cost = gas_costs[rev][op]
               /\ m.stack_height_required = StackTraits(op)[1]
               /\ m.can_overflow_stack <=> StackTraits(op)[2] > 0
<1>1. rev \in AllRevisions
  BY RevisionsAssumption
<1>2. BaselineTable[rev][op] = get_baseline_instruction_table[rev][op]
  BY BaselineTableAssumption
<1>3. BaselineTable[rev][op] =
        [gas_cost |-> gas_costs[rev][op],
         stack_height_required |-> traits[op].stack_height_required,
         can_overflow_stack |-> traits[op].stack_height_change > 0]
  BY <1>1, <1>2 DEF get_baseline_instruction_table
<1>4. /\ traits[op].stack_height_required = StackTraits(op)[1]
      /\ traits[op].stack_height_change = StackTraits(op)[2]
  BY DEF traits
<1>5. BaselineTable[rev][op].can_overflow_stack
        <=> traits[op].stack_height_change > 0
  <2>1. BaselineTable[rev][op].can_overflow_stack
          = (traits[op].stack_height_change > 0)
    BY <1>3
  <2> QED
    BY <2>1
<1> QED
  BY <1>3, <1>4, <1>5

\* No instruction of the code needs more than a full stack has.
LEMMA RequirementsMet ==
    ASSUME AnalysisInv, TableInv, NEW op \in Byte,
           op = OP.STOP \/ \E n \in 0..Len(code) - 1 : op = OpAt(n)
    PROVE  StackTraits(op)[1] <= StackLimit
<1>1. CASE op = OP.STOP
  <2>1. StackTraits(op) = <<0, 0>>
    BY <1>1, TraitsOf
  <2> QED
    BY <2>1, StackLimitAssumption
<1>2. ASSUME NEW n \in 0..Len(code) - 1, op = OpAt(n)
      PROVE  StackTraits(op)[1] <= StackLimit
  <2>1. code \in Codes /\ Len(code) \in Nat
    BY TableFacts
  <2>2. n + 1 \in 1..Len(code) /\ code[n + 1] = op
    BY <1>2, <2>1 DEF OpAt
  <2>3. traits[code[n + 1]].stack_height_required <= StackLimit
    BY <2>1, <2>2, RequirementsAssumption
  <2> QED
    BY <2>2, <2>3 DEF traits
<1> QED
  BY <1>1, <1>2

-----------------------------------------------------------------------------
(***************************************************************************)
(* Baseline.                                                               *)
(***************************************************************************)
\* What check_requirements lets through.
LEMMA RequirementsRuns ==
    ASSUME rev \in Revisions, NEW s, Sound(s), Succeeded(s), NEW op \in Byte,
           StackTraits(op)[1] <= StackLimit, NEW t,
           t = check_requirements(BaselineTable[rev][op], s)
    PROVE  /\ Runs(s, t, Len(s.stack))
           /\ Only(s, t, {"gas_left", "status"})
           /\ Succeeded(t) => /\ gas_costs[rev][op] \in Nat /\ op \in KnownOps
                              /\ op \notin FreeOps => gas_costs[rev][op] > 0
                              /\ t.gas_left = s.gas_left - gas_costs[rev][op]
                              /\ Fits(op, t)
<1> DEFINE m == BaselineTable[rev][op]
           cost == gas_costs[rev][op]
           req == StackTraits(op)[1]
           change == StackTraits(op)[2]
           c == Charge(s, m.gas_cost)
           checked == IF stack_size(c) = StackLimit
                      THEN IF m.can_overflow_stack
                           THEN Fail(c, "STACK_OVERFLOW") ELSE c
                      ELSE IF stack_size(c) < m.stack_height_required
                      THEN Fail(c, "STACK_UNDERFLOW") ELSE c
<1>1. /\ m.gas_cost = cost /\ m.stack_height_required = req
      /\ m.can_overflow_stack <=> change > 0
  BY BaselineEntry
<1>2. req \in Nat /\ change \in Int /\ change <= 1
  BY TraitsBounded
<1>3. rev \in AllRevisions
  BY RevisionsAssumption
<1>4. t = IF m.gas_cost = undefined THEN Fail(s, "UNDEFINED_INSTRUCTION")
          ELSE IF Succeeded(c) THEN checked ELSE c
  BY DEF check_requirements, Then
<1>5. CASE cost = undefined
  BY <1>1, <1>4, <1>5, FailRuns, OnlyMore
<1>6. CASE cost # undefined
  <2>1. /\ cost \in Nat /\ op \in KnownOps /\ (op \notin FreeOps => cost > 0)
    BY <1>3, <1>6, CostFacts
  <2> HIDE DEF m, cost, req, change
  <2>2. /\ Runs(s, c, Len(s.stack))
        /\ Only(s, c, {"gas_left", "status"})
        /\ c.gas_left = s.gas_left - cost
    BY <1>1, <2>1, ChargeRuns
  <2>3. Sound(c) /\ c.stack = s.stack
    BY <2>2 DEF Runs, Only, Fields
  <2>4. t = IF Succeeded(c) THEN checked ELSE c
    BY <1>1, <1>4, <1>6
  <2> HIDE DEF c
  <2>5. CASE ~Succeeded(c)
    BY <2>2, <2>4, <2>5
  <2>6. CASE Succeeded(c) /\ checked # c
    <3>1. PICK e \in {"STACK_OVERFLOW", "STACK_UNDERFLOW"} :
             t = Fail(c, e)
      BY <2>4, <2>6
    <3>2. /\ Runs(c, t, Len(s.stack)) /\ ~Succeeded(t)
          /\ Only(c, t, {"status"})
      BY <2>3, <3>1, FailRuns
    <3>3. Runs(s, t, Len(s.stack))
      BY <2>2, <2>6, <3>2, RunsThen
    <3>4. Only(s, t, {"gas_left", "status"})
      BY <2>2, <3>2, OnlyMore, OnlyTwice
    <3> QED
      BY <3>2, <3>3, <3>4
  <2>7. CASE Succeeded(c) /\ checked = c
    <3>1. t = c
      BY <2>4, <2>7
    <3>2. Len(c.stack) \in Nat /\ Len(c.stack) <= StackLimit
      BY <2>3 DEF Sound
    <3>3. Len(c.stack) >= req /\ Len(c.stack) + change <= StackLimit
      <4>1. ASSUME NEW e
            PROVE  Succeeded(c) => Fail(c, "STACK_OVERFLOW") # c
                                   /\ Fail(c, "STACK_UNDERFLOW") # c
        <5>1. /\ ~Succeeded(Fail(c, "STACK_OVERFLOW"))
              /\ ~Succeeded(Fail(c, "STACK_UNDERFLOW"))
          BY <2>3, FailRuns
        <5> QED
          BY <5>1
      <4>2. CASE stack_size(c) = StackLimit
        <5>1. ~(change > 0)
          BY <1>1, <2>7, <4>1, <4>2
        <5> QED
          BY <1>2, <3>2, <4>2, <5>1, StackLimitAssumption
             DEF stack_size, req
      <4>3. CASE stack_size(c) # StackLimit
        <5>1. ~(stack_size(c) < req)
          BY <1>1, <2>7, <4>1, <4>3
        <5> QED
          BY <1>2, <3>2, <4>3, <5>1, StackLimitAssumption DEF stack_size
      <4> QED
        BY <4>2, <4>3
    <3>4. Fits(op, c)
      BY <2>3, <2>7, <3>3 DEF Fits, Ready, req, change
    <3> QED
      BY <2>1, <2>2, <3>1, <3>4 DEF cost
  <2> QED
    BY <2>1, <2>5, <2>6, <2>7 DEF cost
<1> QED
  BY <1>5, <1>6

\* What the loop fetches: the STOP at the end of the code or of the padding, or
\* an instruction of the table.
LEMMA Fetch ==
    ASSUME AnalysesInv, analyzed, prepared, NEW pos,
           Boundary(pos) \/ pos = scan_pos
    PROVE  /\ pos \in Nat /\ padded_code[pos] \in Byte
           /\ pos \in 0..Len(code) \cup {scan_pos}
           /\ \/ padded_code[pos] = OP.STOP
              \/ /\ pos \in 0..Len(code) - 1 /\ padded_code[pos] = OpAt(pos)
                 /\ \E m \in 1..Len(at) - 1 :
                      /\ at[m].offset = pos /\ OfCode(at[m])
                      /\ Translated(instrs[m], at[m], m, push_values)
<1>1. /\ AnalysisInv /\ TableInv /\ ScanInv /\ PaddingInv
  BY DEF AnalysesInv
<1>2. /\ Len(code) \in Nat /\ scan_pos \in Nat /\ scan_pos >= Len(code)
      /\ Len(at) \in Nat
  BY <1>1, TableFacts DEF ScanInv
<1>3. /\ \A n \in 0..scan_pos : padded_code[n] \in Byte
      /\ \A n \in 0..Len(code) - 1 : padded_code[n] = code[n + 1]
      /\ padded_code[Len(code)] = OP.STOP
      /\ padded_code[scan_pos] = OP.STOP
  BY <1>1 DEF PaddingInv
<1>4. CASE pos = scan_pos
  BY <1>2, <1>3, <1>4
<1>5. CASE Boundary(pos)
  <2>1. PICK k \in 1..Len(at) : at[k].offset = pos
    BY <1>5 DEF Boundary
  <2>2. pos \in Nat /\ pos <= Len(code)
    <3>1. /\ at[k].offset \in Nat /\ at[k].next \in Nat
          /\ at[k].offset <= at[k].next /\ at[k].next <= Len(code)
      BY <1>1, TableFacts
    <3> QED
      BY <2>1, <3>1, <1>2
  <2>3. padded_code[pos] \in Byte
    BY <1>2, <1>3, <2>2
  <2>4. CASE pos = Len(code)
    BY <1>2, <1>3, <2>2, <2>3, <2>4
  <2>5. CASE pos < Len(code)
    <3>1. \E m \in 1..Len(at) - 1 :
             /\ at[m].offset = at[k].offset /\ OfCode(at[m])
             /\ Translated(instrs[m], at[m], m, push_values)
      BY <1>1, <2>1, <2>5, InstructionAtBoundary
    <3>2. pos \in 0..Len(code) - 1
      BY <1>2, <2>2, <2>5
    <3>3. padded_code[pos] = OpAt(pos)
      BY <1>3, <3>2 DEF OpAt
    <3> QED
      BY <1>2, <2>1, <2>2, <2>3, <3>1, <3>2, <3>3
  <2> QED
    BY <1>2, <2>2, <2>4, <2>5
<1> QED
  BY <1>4, <1>5

\* Where the loop goes on after an instruction, jumps aside.
LEMMA NextPosition ==
    ASSUME AnalysesInv, analyzed, prepared, NEW m \in 1..Len(at) - 1,
           OfCode(at[m]), Translated(instrs[m], at[m], m, push_values)
    PROVE  LET pos == at[m].offset
               op == OpAt(pos)
           IN  /\ op \notin PushOps => /\ Boundary(pos + 1)
                                       /\ at[m].next = pos + 1
               /\ op \in PushOps => /\ \/ Boundary(pos + PushSize(op) + 1)
                                       \/ pos + PushSize(op) + 1 = scan_pos
                                    /\ pos + PushSize(op) <= scan_pos
<1> DEFINE pos == at[m].offset
           op == OpAt(pos)
           size == PushSize(op)
<1>1. /\ AnalysisInv /\ TableInv /\ ScanInv
  BY DEF AnalysesInv
<1>2. /\ Len(code) \in Nat /\ scan_pos \in Nat /\ scan_pos >= Len(code)
      /\ Len(at) \in Nat /\ m \in 1..Len(at) /\ m + 1 \in 1..Len(at)
      /\ at[m].offset \in Nat /\ at[m + 1].offset = at[m].next
  BY <1>1, TableFacts DEF ScanInv
<1>3. at[m].next = AfterAt(pos)
  BY DEF Translated
<1>4. Boundary(at[m].next)
  BY <1>2 DEF Boundary
<1>5. ASSUME op \notin PushOps
      PROVE  Boundary(pos + 1) /\ at[m].next = pos + 1
  BY <1>3, <1>4, <1>5 DEF AfterAt
<1>6. ASSUME op \in PushOps
      PROVE  /\ Boundary(pos + size + 1) \/ pos + size + 1 = scan_pos
             /\ pos + size <= scan_pos
  <2>1. size \in 1..32
    BY <1>6, PushFacts
  <2>2. at[m].next = Smaller(pos + 1 + size, Len(code))
    BY <1>3, <1>6 DEF AfterAt
  <2>3. pos \in Nat
    BY <1>2
  <2> HIDE DEF pos, size, op
  <2>4. size \in Nat
    BY <2>1
  <2>5. pos + 1 + size = pos + size + 1 /\ pos + 1 + size \in Nat
    BY <2>3, <2>4
  <2>6. CASE pos + 1 + size <= Len(code)
    <3>1. at[m].next = pos + size + 1
      BY <2>2, <2>5, <2>6 DEF Smaller
    <3>2. pos + size <= scan_pos
      BY <1>2, <2>3, <2>4, <2>6
    <3> QED
      BY <1>4, <3>1, <3>2
  <2>7. CASE pos + 1 + size > Len(code)
    <3>1. at[m].next = Len(code)
      BY <1>2, <2>2, <2>5, <2>7 DEF Smaller
    <3>2. ~Boundary(scan_pos)
      <4> SUFFICES ASSUME Boundary(scan_pos)
                   PROVE  FALSE
        OBVIOUS
      <4>1. PICK k \in 1..Len(at) : at[k].offset = scan_pos
        BY DEF Boundary
      <4>2. at[k].offset \in Nat /\ at[k].offset <= at[k].next
            /\ at[k].next \in Nat /\ at[k].next <= Len(code)
        BY <1>1, TableFacts
      <4>3. scan_pos = Len(code)
        BY <1>2, <4>1, <4>2
      <4>4. pos + 1 + size <= Len(code)
        BY <1>1, <1>2, <1>6, <4>3 DEF ScanInv, EndInv, pos, size, op
      <4> QED
        BY <1>2, <2>5, <2>7, <4>4
    <3>3. PICK k \in 1..Len(at) :
             /\ OfCode(at[k]) /\ OpAt(at[k].offset) \in PushOps
             /\ scan_pos = at[k].offset + 1 + PushSize(OpAt(at[k].offset))
             /\ scan_pos > Len(code)
      BY <1>1, <3>2 DEF ScanInv, PastEnd
    <3>4. at[k].next = Len(code)
      <4>1. at[k].next
              = Smaller(at[k].offset + 1 + PushSize(OpAt(at[k].offset)),
                        Len(code))
        BY <1>1, <3>3, OfCodeIsTranslated DEF Translated, AfterAt
      <4> QED
        BY <1>2, <3>3, <4>1 DEF Smaller
    <3>5. k = m
      BY <1>1, <1>2, <3>1, <3>3, <3>4, NothingInside
    <3>6. scan_pos = pos + 1 + size
      BY <3>3, <3>5 DEF pos, size, op
    <3>7. pos + size <= scan_pos
      BY <2>3, <2>4, <3>6
    <3> QED
      BY <2>5, <3>6, <3>7
  <2> QED
    BY <1>2, <2>5, <2>6, <2>7
<1> QED
  BY <1>5, <1>6

\* A jump lands on a JUMPDEST of the table.
LEMMA JumpLands ==
    ASSUME AnalysesInv, analyzed, prepared, NEW s, NEW dst \in Nat,
           Sound(s), Succeeded(s), NEW next, next = jump_impl(s, dst)
    PROVE  /\ Runs(s, next.state, Len(s.stack))
           /\ Only(s, next.state, {"status"})
           /\ next.pos # NoPosition => /\ next.state = s /\ next.pos = dst
                                       /\ IsJumpdest(dst) /\ Boundary(dst)
           /\ next.pos = NoPosition <=> ~IsJumpdest(dst)
           /\ next.pos = NoPosition
                => next.state.status = "BAD_JUMP_DESTINATION"
<1>1. /\ Len(code) \in Nat
  BY TableFacts DEF AnalysesInv
<1>2. InJumpdestMap(dst) <=> IsJumpdest(dst)
  BY JumpdestMapExact
<1>3. CASE dst >= Len(code) \/ ~jumpdest_map[dst]
  <2>1. next = [state |-> Fail(s, "BAD_JUMP_DESTINATION"), pos |-> NoPosition]
    BY <1>3 DEF jump_impl, Exit
  <2>2. ~IsJumpdest(dst)
    BY <1>1, <1>2, <1>3 DEF InJumpdestMap
  <2>3. s = [f \in Fields |-> s[f]]
    BY DEF Sound
  <2>4. Fail(s, "BAD_JUMP_DESTINATION").status = "BAD_JUMP_DESTINATION"
    BY <2>3 DEF Fail, Fields
  <2> QED
    BY <2>1, <2>2, <2>4, FailRuns
<1>4. CASE ~(dst >= Len(code) \/ ~jumpdest_map[dst])
  <2>1. next = [state |-> s, pos |-> dst]
    BY <1>4 DEF jump_impl, At
  <2>2. IsJumpdest(dst)
    BY <1>1, <1>2, <1>4 DEF InJumpdestMap
  <2>3. Boundary(dst)
    BY <2>2 DEF IsJumpdest, Boundary
  <2>4. dst # NoPosition
    BY DEF NoPosition
  <2> QED
    BY <2>1, <2>2, <2>3, <2>4, RunsSame
<1> QED
  BY <1>3, <1>4

\* What invoke does for each kind of instruction.
LEMMA InvokeIs ==
    ASSUME NEW op \in KnownOps, NEW s, NEW pos
    PROVE  LET next == invoke(op, s, pos)
           IN  /\ op = OP.STOP => next = Exit(s)
               /\ op = OP.JUMP => next = jump(s)
               /\ op = OP.JUMPI => next = jumpi(s, pos)
               /\ op = OP.PC => next = At(Push(s, pos), pos + 1)
               /\ op = OP.GAS => next = At(Push(s, s.gas_left), pos + 1)
               /\ op = OP.JUMPDEST => next = At(s, pos + 1)
               /\ op \in PushOps => next = push(s, pos, PushSize(op))
               /\ op = OP.SSTORE => next = At(sstore(s), pos + 1)
               /\ op \in CallOps \cup CreateOps
                    => next = At(CallOrCreate(op, s), pos + 1)
               /\ op = OP.RETURN => next = Exit(return_(s, "SUCCESS"))
               /\ op = OP.REVERT => next = Exit(return_(s, "REVERT"))
               /\ op = OP.INVALID
                    => next = Exit(Fail(s, "INVALID_INSTRUCTION"))
               /\ op = OP.SELFDESTRUCT => next = Exit(selfdestruct(s))
               /\ op \in GenericOps => next = At(Generic(op, s), pos + 1)
<1>1. ASSUME op \in {OP.STOP, OP.JUMP, OP.JUMPI, OP.PC, OP.GAS, OP.JUMPDEST,
                     OP.SSTORE, OP.RETURN, OP.REVERT, OP.INVALID,
                     OP.SELFDESTRUCT}
      PROVE  op \notin PushOps /\ op \notin CallOps \cup CreateOps
             /\ op \notin GenericOps
  BY <1>1 DEF OP, PushOps, CallOps, CreateOps, GenericOps
<1>2. ASSUME op \in PushOps
      PROVE  op \notin CallOps \cup CreateOps /\ op \notin GenericOps
  BY <1>2 DEF OP, PushOps, CallOps, CreateOps, GenericOps
<1>3. ASSUME op \in CallOps \cup CreateOps
      PROVE  op \notin GenericOps
  BY <1>3 DEF GenericOps
<1>4. OP.STOP = 0 /\ OP.JUMP = 86 /\ OP.JUMPI = 87 /\ OP.PC = 88 /\ OP.GAS = 90
      /\ OP.JUMPDEST = 91 /\ OP.SSTORE = 85 /\ OP.RETURN = 243
      /\ OP.REVERT = 253 /\ OP.INVALID = 254 /\ OP.SELFDESTRUCT = 255
  BY DEF OP
<1> QED
  BY <1>1, <1>2, <1>3, <1>4 DEF invoke, GenericOps

LEMMA KindsApart ==
    ASSUME NEW op
    PROVE  /\ op = OP.PC \/ op = OP.GAS
                => op \notin PushOps /\ op \notin FreeOps
           /\ op \in CallOps \cup CreateOps
                => op \notin PushOps /\ op \notin FreeOps
<1>1. CASE op = OP.PC
  BY <1>1 DEF OP, PushOps, FreeOps, CallOps, CreateOps
<1>2. CASE op = OP.GAS
  BY <1>2 DEF OP, PushOps, FreeOps, CallOps, CreateOps
<1>3. CASE op \in CallOps \cup CreateOps
  <2>1. op \in {240, 241, 242, 244, 245, 250}
    BY <1>3 DEF OP, CallOps, CreateOps
  <2>2. op \notin PushOps
    BY <2>1 DEF OP, PushOps
  <2>3. op \notin FreeOps
    BY <2>1 DEF OP, FreeOps
  <2>4. op # OP.PC /\ op # OP.GAS
    BY <2>1 DEF OP
  <2> QED
    BY <2>2, <2>3, <2>4
<1> QED
  BY <1>1, <1>2, <1>3

\* A position the loop may be at.
OnPath(pos) == Boundary(pos) \/ pos = scan_pos

\* next is where an instruction that runs on s leaves the loop.
Goes(s, next) ==
    /\ Sound(next.state) /\ next.state.gas_left <= s.gas_left
    /\ next.pos # NoPosition => Succeeded(next.state) /\ OnPath(next.pos)

LEMMA AtGoes ==
    ASSUME NEW s, NEW t, NEW n, Runs(s, t, n), NEW pos, OnPath(pos), NEW next,
           next = At(t, pos)
    PROVE  /\ Goes(s, next) /\ next.state = t
           /\ next.pos # NoPosition => Succeeded(t)
<1>1. next = [state |-> t, pos |-> IF Succeeded(t) THEN pos ELSE NoPosition]
  BY DEF At
<1> QED
  BY <1>1 DEF Goes, Runs

LEMMA ExitGoes ==
    ASSUME NEW s, NEW t, Ends(s, t), NEW next, next = Exit(t)
    PROVE  Goes(s, next) /\ next.pos = NoPosition
<1>1. next = [state |-> t, pos |-> NoPosition]
  BY DEF Exit
<1> QED
  BY <1>1 DEF Goes, Ends

LEMMA JumpGoes ==
    ASSUME AnalysesInv, analyzed, prepared, NEW s, NEW t, NEW n, Runs(s, t, n),
           Succeeded(t), Sound(s), NEW dst \in Nat, NEW next,
           next = jump_impl(t, dst)
    PROVE  Goes(s, next)
<1>1. Sound(t)
  BY DEF Runs
<1>2. /\ Runs(t, next.state, Len(t.stack))
      /\ next.pos # NoPosition => next.state = t /\ next.pos = dst
                                  /\ Boundary(dst)
  BY <1>1, JumpLands
<1>3. /\ next.state.gas_left \in Int /\ t.gas_left \in Int
      /\ s.gas_left \in Int /\ Sound(next.state)
      /\ next.state.gas_left <= t.gas_left /\ t.gas_left <= s.gas_left
  BY <1>1, <1>2 DEF Runs, Sound
<1>4. next.state.gas_left <= s.gas_left
  BY <1>3
<1> QED
  BY <1>2, <1>3, <1>4 DEF Goes, OnPath

\* The value of a push is a word, whatever the padding holds.
LEMMA PushedIsWord ==
    ASSUME AnalysesInv, analyzed, prepared, NEW pos \in Nat, NEW n \in Nat,
           pos + n <= scan_pos
    PROVE  be_load([k \in 1..n |-> padded_code[pos + k]]) \in Word
<1>1. scan_pos \in Nat
  BY DEF AnalysesInv, ScanInv
<1>2. \A k \in 1..n : pos + k \in 0..scan_pos
  BY <1>1
<1>3. \A k \in 1..n : padded_code[pos + k] \in Byte
  BY <1>2 DEF AnalysesInv, PaddingInv
<1>4. [k \in 1..n |-> padded_code[pos + k]] \in Seq(Byte)
  BY <1>3
<1> QED
  BY <1>4, BytesAreNumbers

LEMMA InvokeGoes ==
    ASSUME Context_, AnalysesInv, analyzed, prepared, NEW op \in KnownOps,
           NEW s, Fits(op, s), NEW pos \in Nat,
           \/ op = OP.STOP
           \/ \E m \in 1..Len(at) - 1 :
                /\ at[m].offset = pos /\ OfCode(at[m]) /\ op = OpAt(pos)
                /\ Translated(instrs[m], at[m], m, push_values),
           NEW next, next = invoke(op, s, pos)
    PROVE  /\ Goes(s, next)
           /\ next.pos # NoPosition /\ op \in FreeOps
                => next.state.gas_left < s.gas_left
<1>1. /\ Sound(s) /\ Succeeded(s) /\ Len(s.stack) \in Nat
      /\ s.gas_left \in Int
  BY DEF Fits, Ready, Sound
<1>2. CASE op = OP.STOP
  <2>1. next = Exit(s) /\ Ends(s, s)
    BY <1>1, <1>2, InvokeIs, RunsSame, RunsEnds
  <2> QED
    BY <2>1, ExitGoes
<1>3. CASE op # OP.STOP
  <2>1. PICK m \in 1..Len(at) - 1 :
           /\ at[m].offset = pos /\ OfCode(at[m]) /\ op = OpAt(pos)
           /\ Translated(instrs[m], at[m], m, push_values)
    BY <1>3
  <2>2. /\ op \notin PushOps => OnPath(pos + 1)
        /\ op \in PushOps => /\ OnPath(pos + PushSize(op) + 1)
                             /\ pos + PushSize(op) <= scan_pos
    BY <2>1, NextPosition DEF OnPath
  <2>3. CASE op \in PushOps
    <3> DEFINE n == PushSize(op)
               x == be_load([k \in 1..n |-> padded_code[pos + k]])
    <3>1. next = At(Push(s, x), pos + n + 1)
      BY <2>3, InvokeIs DEF push
    <3>9. n \in 1..32
      BY <2>3, PushFacts
    <3>10. pos + n <= scan_pos
      BY <2>2, <2>3
    <3> HIDE DEF n
    <3>2. n \in Nat /\ pos + n <= scan_pos
      BY <3>9, <3>10
    <3>3. x \in Word
      BY <3>2, PushedIsWord
    <3> HIDE DEF x
    <3>4. StackTraits(op) = <<0, 1>>
      BY <2>3, TraitsOf
    <3>5. Ready(s, 0) /\ Len(s.stack) + 1 <= StackLimit
      BY <3>4, FitsAs
    <3>6. Runs(s, Push(s, x), Len(s.stack) + 1)
      BY <1>1, <3>3, <3>5, PushRuns, StackLimitAssumption
    <3>7. OnPath(pos + n + 1)
      BY <2>2, <2>3 DEF n
    <3>8. op \notin FreeOps
      BY <2>3 DEF FreeOps, PushOps, OP
    <3> QED
      BY <3>1, <3>6, <3>7, <3>8, AtGoes
  <2>4. CASE op = OP.PC \/ op = OP.GAS
    <3>1. StackTraits(op) = <<0, 1>> /\ op \notin PushOps /\ op \notin FreeOps
      <4>1. op \notin PushOps /\ op \notin FreeOps
        BY <2>4, KindsApart
      <4> QED
        BY <2>4, <4>1, TraitsOf
    <3>2. Ready(s, 0) /\ Len(s.stack) < StackLimit
      <4>1. Ready(s, 0) /\ Len(s.stack) + 1 <= StackLimit
        BY <3>1, FitsAs
      <4> QED
        BY <1>1, <4>1, StackLimitAssumption
    <3>3. pos \in Word
      <4>1. Len(code) \in Nat /\ Len(code) < WordMod /\ WordMod \in Nat
        BY TableFacts, WordModFacts
           DEF AnalysesInv, Context_, IsBuffer, Word
      <4>2. pos < Len(code)
        BY <2>1 DEF Translated
      <4> QED
        BY <4>1, <4>2 DEF Word
    <3>4. s.gas_left \in Word
      BY <1>1, SizesAreWords
    <3>5. /\ Runs(s, Push(s, pos), Len(s.stack) + 1)
          /\ Runs(s, Push(s, s.gas_left), Len(s.stack) + 1)
      BY <3>2, <3>3, <3>4, PushRuns
    <3>6. next = At(Push(s, pos), pos + 1)
          \/ next = At(Push(s, s.gas_left), pos + 1)
      BY <2>4, InvokeIs
    <3> QED
      BY <2>2, <3>1, <3>5, <3>6, AtGoes
  <2>5. CASE op = OP.JUMP
    <3>1. StackTraits(op) = <<1, -1>>
      BY <2>5, TraitsOf
    <3>2. Ready(s, 1)
      BY <3>1, FitsAs
    <3>3. Runs(s, Drop(s, 1), Len(s.stack) - 1) /\ Succeeded(Drop(s, 1))
      BY <3>2, DropRuns
    <3>4. Item(s, 0) \in Nat
      BY <1>1, ItemIsWord
    <3>5. next = jump_impl(Drop(s, 1), Item(s, 0))
      BY <2>5, InvokeIs DEF jump
    <3>6. op \notin FreeOps
      BY <2>5 DEF FreeOps, OP
    <3> QED
      BY <1>1, <3>3, <3>4, <3>5, <3>6, JumpGoes
  <2>6. CASE op = OP.JUMPI
    <3>1. StackTraits(op) = <<2, -2>>
      BY <2>6, TraitsOf
    <3>2. Ready(s, 2)
      BY <3>1, FitsAs
    <3>3. Runs(s, Drop(s, 2), Len(s.stack) - 2) /\ Succeeded(Drop(s, 2))
      BY <3>2, DropRuns
    <3>4. Item(s, 0) \in Nat
      BY <1>1, ItemIsWord
    <3>5. next = IF Item(s, 1) # 0 THEN jump_impl(Drop(s, 2), Item(s, 0))
                 ELSE At(Drop(s, 2), pos + 1)
      BY <2>6, InvokeIs DEF jumpi
    <3>6. op \notin FreeOps /\ op \notin PushOps
      BY <2>6 DEF FreeOps, PushOps, OP
    <3>7. CASE Item(s, 1) # 0
      BY <1>1, <3>3, <3>4, <3>5, <3>6, <3>7, JumpGoes
    <3>8. CASE Item(s, 1) = 0
      BY <2>2, <3>3, <3>5, <3>6, <3>8, AtGoes
    <3> QED
      BY <3>7, <3>8
  <2>7. CASE op = OP.JUMPDEST
    <3>1. op \notin FreeOps /\ op \notin PushOps
      BY <2>7 DEF FreeOps, PushOps, OP
    <3>2. next = At(s, pos + 1)
      BY <2>7, InvokeIs
    <3> QED
      BY <1>1, <2>2, <3>1, <3>2, RunsSame, AtGoes
  <2>8. CASE op = OP.SSTORE
    <3>1. StackTraits(op) = <<2, -2>>
      BY <2>8, TraitsOf
    <3>2. Ready(s, 2)
      BY <3>1, FitsAs
    <3>3. /\ Runs(s, sstore(s), Len(s.stack) - 2)
          /\ Succeeded(sstore(s)) => sstore(s).gas_left < s.gas_left
      BY <3>2, SstoreRuns
    <3>4. next = At(sstore(s), pos + 1)
      BY <2>8, InvokeIs
    <3>5. op \notin PushOps
      BY <2>8 DEF PushOps, OP
    <3> QED
      BY <2>2, <3>3, <3>4, <3>5, AtGoes
  <2>9. CASE op \in CallOps \cup CreateOps
    <3>1. op \notin FreeOps /\ op \notin PushOps
      BY <2>9, KindsApart
    <3>2. next = At(CallOrCreate(op, s), pos + 1)
      BY <2>9, InvokeIs
    <3>3. Runs(s, CallOrCreate(op, s), HeightAfter(op, s))
      BY <2>9, CallOrCreateRuns
    <3> QED
      BY <2>2, <3>1, <3>2, <3>3, AtGoes
  <2>10. CASE op = OP.RETURN \/ op = OP.REVERT
    <3>1. StackTraits(op) = <<2, -2>>
      BY <2>10, TraitsOf
    <3>2. Ready(s, 2)
      BY <3>1, FitsAs
    <3>3. /\ Ends(s, return_(s, "SUCCESS")) /\ Ends(s, return_(s, "REVERT"))
      BY <3>2, ReturnEnds
    <3>4. next = Exit(return_(s, "SUCCESS")) \/ next = Exit(return_(s, "REVERT"))
      BY <2>10, InvokeIs
    <3> QED
      BY <3>3, <3>4, ExitGoes
  <2>11. CASE op = OP.INVALID
    <3>1. next = Exit(Fail(s, "INVALID_INSTRUCTION"))
      BY <2>11, InvokeIs
    <3>2. Ends(s, Fail(s, "INVALID_INSTRUCTION"))
      BY <1>1, FailRuns, RunsEnds
    <3> QED
      BY <3>1, <3>2, ExitGoes
  <2>12. CASE op = OP.SELFDESTRUCT
    <3>1. StackTraits(op) = <<1, -1>>
      BY <2>12, TraitsOf
    <3>2. Ready(s, 1)
      BY <3>1, FitsAs
    <3>3. Ends(s, selfdestruct(s))
      BY <3>2, SelfdestructRuns, RunsEnds
    <3>4. next = Exit(selfdestruct(s))
      BY <2>12, InvokeIs
    <3> QED
      BY <3>3, <3>4, ExitGoes
  <2>13. CASE op \in GenericOps
    <3>1. op \notin FreeOps /\ op \notin PushOps
      BY <2>13 DEF FreeOps, GenericOps
    <3>2. next = At(Generic(op, s), pos + 1)
      BY <2>13, InvokeIs
    <3>3. Runs(s, Generic(op, s), HeightAfter(op, s))
      BY <2>13, GenericRuns
    <3> QED
      BY <2>2, <3>1, <3>2, <3>3, AtGoes
  <2> QED
    BY <1>3, <2>3, <2>4, <2>5, <2>6, <2>7, <2>8, <2>9, <2>10, <2>11, <2>12,
       <2>13 DEF GenericOps
<1> QED
  BY <1>2, <1>3

\* Executions change neither the analyses nor the message.
ContextKept == UNCHANGED <<code, rev, analysisVars, msg, env>>

LEMMA SoundKept ==
    ASSUME ContextKept, NEW CONSTANT s
    PROVE  Sound(s)' <=> Sound(s)
BY DEF ContextKept, Sound, SoundHost, Pure

LEMMA OnPathKept ==
    ASSUME ContextKept, NEW CONSTANT pos
    PROVE  OnPath(pos)' <=> OnPath(pos)
BY DEF ContextKept, OnPath, Boundary, analysisVars, advancedAnalysisVars,
       baselineAnalysisVars

\* A step of Baseline leads to a state it may be in, and is never free.
LEMMA BaselineStepGoes ==
    ASSUME AnalysesInv, analyzed, prepared, Context_, BaselineInv,
           BaselineStep, ContextKept
    PROVE  /\ BaselineInv'
           /\ code_it' # NoPosition => baseline'.gas_left < baseline.gas_left
<1> DEFINE op == padded_code[code_it]
           c == check_requirements(BaselineTable[rev][op], baseline)
<1>1. PICK next : /\ next = Iteration(op, baseline, code_it)
                  /\ baseline' = next.state /\ code_it' = next.pos
  BY DEF BaselineStep
<1>2. /\ Sound(baseline) /\ Succeeded(baseline) /\ OnPath(code_it)
      /\ rev \in Revisions
  BY DEF BaselineStep, BaselineInv, OnPath, Context_
<1>3. /\ code_it \in Nat /\ op \in Byte
      /\ \/ op = OP.STOP
         \/ /\ code_it \in 0..Len(code) - 1 /\ op = OpAt(code_it)
            /\ \E m \in 1..Len(at) - 1 :
                 /\ at[m].offset = code_it /\ OfCode(at[m])
                 /\ Translated(instrs[m], at[m], m, push_values)
  BY <1>2, Fetch DEF OnPath
<1>4. StackTraits(op)[1] <= StackLimit
  BY <1>3, RequirementsMet DEF AnalysesInv
<1>5. next = IF Succeeded(c) THEN invoke(op, c, code_it) ELSE Exit(c)
  BY <1>1 DEF Iteration, Run
<1> HIDE DEF op
<1>6. /\ Runs(baseline, c, Len(baseline.stack))
      /\ Succeeded(c) => /\ gas_costs[rev][op] \in Nat /\ op \in KnownOps
                         /\ op \notin FreeOps => gas_costs[rev][op] > 0
                         /\ c.gas_left = baseline.gas_left - gas_costs[rev][op]
                         /\ Fits(op, c)
  BY <1>2, <1>3, <1>4, RequirementsRuns
<1> HIDE DEF c
<1>7. Goes(baseline, next)
      /\ (next.pos # NoPosition => next.state.gas_left < baseline.gas_left)
  <2>1. CASE ~Succeeded(c)
    BY <1>5, <1>6, <2>1, RunsEnds, ExitGoes
  <2>2. CASE Succeeded(c)
    <3>1. next = invoke(op, c, code_it)
      BY <1>5, <2>2
    <3>2. /\ Goes(c, next)
          /\ next.pos # NoPosition /\ op \in FreeOps
               => next.state.gas_left < c.gas_left
      BY <1>3, <1>6, <2>2, <3>1, InvokeGoes
    <3> DEFINE g == gas_costs[rev][op]
               x == c.gas_left
               y == next.state.gas_left
               z == baseline.gas_left
    <3>3. /\ g \in Nat /\ x \in Int /\ y \in Int /\ z \in Int
          /\ y <= x /\ x = z - g
          /\ op \notin FreeOps => g > 0
          /\ next.pos # NoPosition /\ op \in FreeOps => y < x
      <4>1. x \in Int /\ z \in Int
        BY <1>2, <1>6 DEF Runs, Sound
      <4>2. y \in Int /\ y <= x
        BY <3>2 DEF Goes, Sound
      <4> QED
        BY <1>6, <2>2, <3>2, <4>1, <4>2
    <3> HIDE DEF g, x, y, z
    <3>4. y <= z /\ (next.pos # NoPosition => y < z)
      BY <3>3
    <3> QED
      BY <3>2, <3>4 DEF Goes, y, z
  <2> QED
    BY <2>1, <2>2
<1>8. Sound(next.state)' /\ (next.pos # NoPosition => OnPath(next.pos)')
  <2>1. Sound(next.state)' <=> Sound(next.state)
    BY SoundKept
  <2>2. OnPath(next.pos)' <=> OnPath(next.pos)
    BY OnPathKept
  <2> QED
    BY <1>7, <2>1, <2>2 DEF Goes
<1>9. Sound(baseline)'
  BY <1>1, <1>8 DEF Sound, SoundHost, Pure
<1>10. code_it' # NoPosition => OnPath(code_it)' /\ Succeeded(baseline)'
  BY <1>1, <1>7, <1>8 DEF Goes, OnPath, Boundary, Succeeded
<1>11. BaselineInv'
  BY <1>9, <1>10 DEF BaselineInv, OnPath
<1> QED
  BY <1>1, <1>7, <1>11

-----------------------------------------------------------------------------
(***************************************************************************)
(* Advanced.                                                               *)
(***************************************************************************)
\* Instruction k of the table is that of opcode op, defined in the revision.
Defined(k, op) ==
    /\ op \in KnownOps /\ op # OP.JUMPDEST
    /\ instrs[k].fn = op
    /\ at[k].info.gas_cost = gas_costs[rev][op]
    /\ at[k].info.stack_req = StackTraits(op)[1]
    /\ at[k].info.stack_change = StackTraits(op)[2]

\* The entry of an opcode in the table of Advanced.
LEMMA AdvancedEntry ==
    ASSUME rev \in Revisions, NEW op \in Byte
    PROVE  LET e == OpTable[rev][op]
           IN  /\ gas_costs[rev][op] = undefined =>
                    /\ e.fn = op_undefined /\ e.gas_cost = 0
                    /\ e.stack_req = 0 /\ e.stack_change = 0
               /\ gas_costs[rev][op] # undefined =>
                    /\ e.fn = op /\ op \in KnownOps
                    /\ e.gas_cost = gas_costs[rev][op]
                    /\ e.stack_req = StackTraits(op)[1]
                    /\ e.stack_change = StackTraits(op)[2]
<1>1. rev \in AllRevisions
  BY RevisionsAssumption
<1>2. OpTable[rev][op] = get_op_table[rev][op]
  BY OpTableIsGetOpTable
<1>3. /\ traits[op].stack_height_required = StackTraits(op)[1]
      /\ traits[op].stack_height_change = StackTraits(op)[2]
  BY DEF traits
<1>4. CASE gas_costs[rev][op] = undefined
  BY <1>1, <1>2, <1>4 DEF get_op_table
<1>5. CASE gas_costs[rev][op] # undefined
  <2>1. op \in KnownOps
    BY <1>1, <1>5, CostFacts
  <2>2. OpTable[rev][op] = [fn |-> op, gas_cost |-> gas_costs[rev][op],
                            stack_req |-> traits[op].stack_height_required,
                            stack_change |-> traits[op].stack_height_change]
    BY <1>1, <1>2, <1>5 DEF get_op_table
  <2> QED
    BY <1>3, <1>5, <2>1, <2>2
<1> QED
  BY <1>4, <1>5

\* STOP is defined in every revision.
LEMMA StopDefined ==
    ASSUME rev \in Revisions
    PROVE  gas_costs[rev][OP.STOP] # undefined
<1>1. OP.STOP = 0 /\ OP.STOP \in Byte
  BY DEF OP, Byte
<1>2. rev \in AllRevisions
  BY RevisionsAssumption
<1>3. \A q \in 0..rev : \A c \in CostChanges(q) : c[1] # OP.STOP
  BY DEF CostChanges, OP, REV
<1>4. {q \in 0..rev : \E c \in CostChanges(q) : c[1] = OP.STOP} = {}
  BY <1>3
<1>5. gas_costs[rev][OP.STOP] = FrontierCost(OP.STOP)
  BY <1>1, <1>2, <1>4 DEF gas_costs
<1>6. FrontierCost(OP.STOP) = 0
  BY DEF FrontierCost, OP, PushOps, DupOps, SwapOps, LogOps
<1> QED
  BY <1>5, <1>6 DEF undefined

\* The instructions of the analyzed table: the beginning of a block, an
\* undefined one, one of the code, or the STOP at the end.
LEMMA EntryKinds ==
    ASSUME AnalysesInv, analyzed, NEW k \in 1..Len(at)
    PROVE  /\ at[k].begin = k => /\ instrs[k].fn = OPX_BEGINBLOCK
                                 /\ k + 1 \in 1..Len(at)
                                 /\ at[k].gas = 0 /\ at[k].change = 0
                                 /\ at[k].info.stack_change = 0
           /\ at[k].begin # k => \/ instrs[k].fn = op_undefined
                                 \/ /\ OfCode(at[k]) /\ k + 1 \in 1..Len(at)
                                    /\ Defined(k, OpAt(at[k].offset))
                                 \/ k = Len(at) /\ Defined(k, OP.STOP)
<1>1. AnalysisInv /\ TableInv
  BY DEF AnalysesInv
<1>2. /\ rev \in Revisions /\ Len(at) = Len(instrs) /\ Len(at) \in Nat
      /\ Len(code) \in Nat
      /\ \A n \in 0..Len(code) - 1 : OpAt(n) \in Byte
  BY <1>1, TableFacts
<1>3. CASE k = Len(at)
  <2>1. Appended(instrs[k], at[k], k)
    BY <1>1, <1>2, <1>3 DEF TableInv
  <2>2. OP.STOP \in Byte
    BY DEF OP, Byte
  <2>3. Defined(k, OP.STOP)
    <3>1. OP.STOP # OP.JUMPDEST
      BY DEF OP
    <3> QED
      BY <1>2, <2>1, <2>2, <3>1, StopDefined, AdvancedEntry
         DEF Appended, Defined
  <2> QED
    BY <1>3, <2>1, <2>3 DEF Appended
<1>4. CASE k # Len(at)
  <2>1. k + 1 \in 1..Len(at) /\ k \in 1..Len(instrs) - 1
    BY <1>2, <1>4
  <2>2. EntryOK(instrs[k], at[k], k, push_values)
    BY <1>1, <2>1 DEF TableInv, Entries
  <2>3. CASE Injected(instrs[k], at[k], k)
    BY <2>1, <2>3 DEF Injected, NoInfo
  <2>4. CASE Translated(instrs[k], at[k], k, push_values)
    <3> DEFINE op == OpAt(at[k].offset)
    <3>1. OfCode(at[k])
      BY <1>1, <2>4, TranslatedIsOfCode
    <3>2. op \in Byte
      <4>1. at[k].offset \in Nat /\ at[k].offset < Len(code)
        BY <1>1, <2>4, TableFacts DEF Translated
      <4> QED
        BY <1>2, <4>1
    <3>3. /\ at[k].info = OpTable[rev][op]
          /\ op = OP.JUMPDEST => /\ instrs[k].fn = OPX_BEGINBLOCK
                                 /\ at[k].begin = k
                                 /\ at[k].gas = 0 /\ at[k].change = 0
          /\ op # OP.JUMPDEST => /\ instrs[k].fn = at[k].info.fn
                                 /\ at[k].begin # k
      BY <2>4 DEF Translated
    <3> HIDE DEF op
    <3>4. CASE op = OP.JUMPDEST
      <4>1. StackTraits(op) = <<0, 0>>
        BY <3>4, TraitsOf
      <4>2. at[k].info.stack_change = 0
        BY <1>2, <3>2, <3>3, <4>1, AdvancedEntry
      <4> QED
        BY <2>1, <3>3, <3>4, <4>2
    <3>5. CASE op # OP.JUMPDEST /\ gas_costs[rev][op] = undefined
      BY <1>2, <3>2, <3>3, <3>5, AdvancedEntry
    <3>6. CASE op # OP.JUMPDEST /\ gas_costs[rev][op] # undefined
      <4>1. Defined(k, op)
        BY <1>2, <3>2, <3>3, <3>6, AdvancedEntry DEF Defined
      <4> QED
        BY <2>1, <3>1, <3>3, <3>6, <4>1 DEF op
    <3> QED
      BY <3>4, <3>5, <3>6
  <2> QED
    BY <2>2, <2>3, <2>4 DEF EntryOK
<1> QED
  BY <1>3, <1>4

\* The instruction Advanced runs inside of a block finds its operands on the
\* stack and has room, and the block has been charged for it.
LEMMA InsideFits ==
    ASSUME AnalysesInv, analyzed, AdvancedInv, instr_it # 0,
           at[instr_it].begin # instr_it, NEW op, Defined(instr_it, op)
    PROVE  LET o == at[instr_it]
           IN  /\ Fits(op, advanced)
               /\ HeightAfter(op, advanced)
                    = Len(advanced.stack) + o.info.stack_change
               /\ o.gas \in Nat /\ o.info.gas_cost \in Nat
               /\ current_block_cost - Cost(o) \in Nat
               /\ Cost(o) = o.gas + o.info.gas_cost
               /\ current_block_cost \in Nat
<1> DEFINE o == at[instr_it]
           b == o.begin
           h == Len(advanced.stack) - o.change
<1>1. AnalysisInv /\ TableInv /\ Inside /\ Sound(advanced) /\ Succeeded(advanced)
  BY DEF AnalysesInv, AdvancedInv
<1>2. /\ instr_it \in 1..Len(at) /\ Len(at) = Len(instrs)
      /\ at \in Seq(OriginType) /\ code \in Codes
  <2>1. Len(at) = Len(instrs) /\ Len(at) \in Nat /\ code \in Codes
    BY <1>1, TableFacts
  <2>2. at \in Seq(OriginType)
    BY <1>1 DEF AnalysisInv, AdvancedAnalysisTypeOK
  <2> QED
    BY <2>1, <2>2 DEF AdvancedInv
<1>3. b \in ClosedBlocks /\ instr_it \in Members(b)
  BY <1>1, <1>2 DEF Inside, ClosedBlocks, Members
<1>4. h \in 0..StackLimit /\ PassesStackCheck(instrs[b].block, h)
  BY <1>1 DEF Inside
<1>5. RunsWithin(instr_it, h)
  <2>1. BlockStackCheckExact
    BY <1>1, StackCheckFromInv
  <2> QED
    BY <1>3, <1>4, <2>1 DEF BlockStackCheckExact
<1>6. Cost(o) <= current_block_cost
  <2>1. BlockGasExact
    BY <1>1, BlockGasFromInv
  <2>2. Len(code) <= max_code_size
    BY <1>2, CodeSizeAssumption
  <2>3. o.gas + o.info.gas_cost <= instrs[b].block.gas_cost
    BY <1>3, <2>1, <2>2 DEF BlockGasExact
  <2> QED
    BY <1>1, <2>3 DEF Inside, Cost
<1>7. o \in OriginType
  BY <1>2
<1>8. /\ o.gas \in Nat /\ o.info.gas_cost \in Nat /\ o.change \in Int
      /\ o.info.stack_req \in Nat /\ o.info.stack_change \in Int
  BY <1>7, EntryNumbers DEF OriginType
<1>9. Len(advanced.stack) \in Nat
  BY <1>1 DEF Sound
<1>10. /\ h + o.change >= o.info.stack_req
       /\ h + o.change + o.info.stack_change <= StackLimit
  BY <1>5 DEF RunsWithin
<1>11. h + o.change = Len(advanced.stack)
  BY <1>8, <1>9
<1>12. /\ o.info.stack_req = StackTraits(op)[1]
       /\ o.info.stack_change = StackTraits(op)[2]
  BY DEF Defined
<1> HIDE DEF h
<1>13. Fits(op, advanced)
  BY <1>1, <1>10, <1>11, <1>12 DEF Fits, Ready
<1>14. current_block_cost \in Nat
  BY LimitFacts DEF AdvancedInv
<1>15. current_block_cost - Cost(o) \in Nat
  BY <1>6, <1>8, <1>14 DEF Cost
<1> QED
  BY <1>8, <1>12, <1>13, <1>14, <1>15 DEF HeightAfter, Cost

AdvancedKept == ContextKept /\ current_block_cost' = current_block_cost

\* Going on to the next instruction of the table.
LEMMA Onward ==
    ASSUME AnalysesInv, analyzed, AdvancedInv, instr_it # 0,
           at[instr_it].begin # instr_it, instr_it + 1 \in 1..Len(at),
           NEW op, Defined(instr_it, op), NEW CONSTANT t, Sound(t),
           Succeeded(t) =>
             /\ Len(t.stack) = HeightAfter(op, advanced)
             /\ t.gas_left + (current_block_cost - Cost(at[instr_it]))
                  <= Int64Max,
           AdvancedKept, advanced' = t,
           instr_it' = IF Succeeded(t) THEN instr_it + 1 ELSE 0
    PROVE  AdvancedInv'
<1> DEFINE o == at[instr_it]
           n == at[instr_it + 1]
<1>1. AnalysisInv /\ TableInv /\ Inside
  BY DEF AnalysesInv, AdvancedInv
<1>2. /\ UNCHANGED <<at, instrs, msg, env>>
      /\ current_block_cost' = current_block_cost
  BY DEF AdvancedKept, ContextKept, analysisVars, advancedAnalysisVars
<1>3. Len(at) = Len(instrs) /\ Len(at) \in Nat
  BY <1>1, TableFacts
<1>4. Sound(advanced)'
  <2>1. Sound(t)'
    BY SoundKept DEF AdvancedKept
  <2> QED
    BY <2>1 DEF Sound, SoundHost, Pure
<1>5. /\ instr_it' \in 0..Len(instrs') /\ current_block_cost' \in 0..BlockGasMax
      /\ (instr_it' # 0 => Succeeded(advanced)')
  BY <1>2, <1>3 DEF AdvancedInv, Succeeded
<1>6. ASSUME instr_it' # 0, at'[instr_it'].begin # instr_it'
      PROVE  Inside'
  <2>1. Succeeded(t) /\ instr_it' = instr_it + 1
    BY <1>6
  <2>2. instr_it \in 1..Len(at) - 1
    BY <1>3 DEF AdvancedInv
  <2>3. Follows(o, n, instr_it + 1)
    <3>1. Chain(at)
      BY <1>1 DEF AnalysisInv, BlockInv, DoneInv
    <3> QED
      BY <2>2, <3>1 DEF Chain
  <2>4. n.begin = o.begin /\ n.gas = Cost(o) /\ n.change = Height(o)
    BY <1>2, <1>6, <2>1, <2>3 DEF Follows
  <2>5. Len(t.stack) - n.change = Len(advanced.stack) - o.change
    <3>1. /\ Len(t.stack) = Len(advanced.stack) + o.info.stack_change
          /\ Len(advanced.stack) \in Nat
      <4>1. HeightAfter(op, advanced)
              = Len(advanced.stack) + o.info.stack_change
        BY InsideFits
      <4>2. Len(t.stack) = HeightAfter(op, advanced)
        BY <2>1
      <4>3. Len(advanced.stack) \in Nat
        BY DEF AdvancedInv, Sound
      <4> QED
        BY <4>1, <4>2, <4>3
    <3>2. o \in OriginType
      <4>1. at \in Seq(OriginType)
        BY <1>1 DEF AnalysisInv, AdvancedAnalysisTypeOK
      <4> QED
        BY <2>2, <1>3, <4>1
    <3>3. o.change \in Int /\ o.info.stack_change \in Int
      BY <3>2, EntryNumbers DEF OriginType
    <3> QED
      BY <2>4, <3>1, <3>3 DEF Height
  <2>6. t.gas_left + (current_block_cost - n.gas) <= Int64Max
    BY <2>1, <2>4
  <2>7. at'[instr_it'] = n /\ advanced' = t
    BY <1>2, <2>1
  <2> HIDE DEF n, o
  <2>8. /\ o.begin \in 1..Len(instrs) /\ at[o.begin].begin = o.begin
        /\ Len(advanced.stack) - o.change \in 0..StackLimit
        /\ PassesStackCheck(instrs[o.begin].block,
                            Len(advanced.stack) - o.change)
        /\ current_block_cost = instrs[o.begin].block.gas_cost
    BY <1>1 DEF Inside, o
  <2> QED
    BY <1>2, <2>4, <2>5, <2>6, <2>7, <2>8 DEF Inside, PassesStackCheck
<1> QED
  BY <1>4, <1>5, <1>6 DEF AdvancedInv

\* Most instructions only ever cost gas.
LEMMA OnwardRuns ==
    ASSUME AnalysesInv, analyzed, AdvancedInv, instr_it # 0,
           at[instr_it].begin # instr_it, instr_it + 1 \in 1..Len(at),
           NEW op, Defined(instr_it, op), NEW CONSTANT t,
           Runs(advanced, t, HeightAfter(op, advanced)), ContextKept,
           Continue(t)
    PROVE  AdvancedInv'
<1> DEFINE o == at[instr_it]
<1>1. /\ advanced' = t /\ AdvancedKept
      /\ instr_it' = IF Succeeded(t) THEN instr_it + 1 ELSE 0
  BY DEF Continue, AdvancedKept
<1>2. /\ Sound(t) /\ Succeeded(t) => Len(t.stack) = HeightAfter(op, advanced)
      /\ t.gas_left <= advanced.gas_left /\ t.gas_left \in Int
      /\ advanced.gas_left \in Int
  BY DEF Runs, Sound, AdvancedInv
<1>3. t.gas_left + (current_block_cost - Cost(o)) <= Int64Max
  <2> DEFINE c == current_block_cost
             x == o.gas
             y == o.info.gas_cost
             g == advanced.gas_left
             r == t.gas_left
  <2>1. /\ x \in Nat /\ y \in Nat /\ c \in Nat /\ Cost(o) = x + y
    BY InsideFits
  <2>2. g + (c - x) <= Int64Max
    BY DEF AdvancedInv, Inside
  <2>3. Int64Max \in Nat /\ r <= g /\ r \in Int /\ g \in Int
    BY <1>2, LimitsFacts
  <2> HIDE DEF c, x, y, g, r
  <2>4. r + (c - (x + y)) <= Int64Max
    BY <2>1, <2>2, <2>3
  <2> QED
    BY <2>1, <2>4 DEF c, r
<1>4. Sound(t)
  BY DEF Runs
<1>5. Succeeded(t) => /\ Len(t.stack) = HeightAfter(op, advanced)
                      /\ t.gas_left + (current_block_cost - Cost(o))
                           <= Int64Max
  BY <1>3 DEF Runs
<1> QED
  BY <1>1, <1>4, <1>5, Onward

\* The execution ends.
LEMMA ExitInv ==
    ASSUME AdvancedInv, NEW CONSTANT t, Sound(t), ContextKept,
           advanced' = t, instr_it' = 0,
           current_block_cost' = current_block_cost,
           Len(instrs) \in Nat
    PROVE  AdvancedInv'
<1>1. UNCHANGED <<at, instrs>>
  BY DEF ContextKept, analysisVars, advancedAnalysisVars
<1>2. Sound(advanced)'
  <2>1. Sound(t)'
    BY SoundKept
  <2> QED
    BY <2>1 DEF Sound, SoundHost, Pure
<1> QED
  BY <1>1, <1>2 DEF AdvancedInv

\* Going on at the beginning of a block.
LEMMA EnterInv ==
    ASSUME AdvancedInv, NEW CONSTANT t, Sound(t), Succeeded(t), ContextKept,
           NEW CONSTANT k \in 1..Len(instrs), at[k].begin = k,
           advanced' = t, instr_it' = k,
           current_block_cost' = current_block_cost
    PROVE  AdvancedInv'
<1>1. UNCHANGED <<at, instrs>>
  BY DEF ContextKept, analysisVars, advancedAnalysisVars
<1>2. Sound(advanced)'
  <2>1. Sound(t)'
    BY SoundKept
  <2> QED
    BY <2>1 DEF Sound, SoundHost, Pure
<1> QED
  BY <1>1, <1>2 DEF AdvancedInv, Succeeded

\* The exact gas of the instructions that must know it.
LEMMA ExactSound ==
    ASSUME AnalysesInv, analyzed, AdvancedInv, instr_it # 0,
           at[instr_it].begin # instr_it, NEW op, Defined(instr_it, op),
           instr.number = Cost(at[instr_it]), NEW e, e = exact
    PROVE  /\ Sound(e) /\ Succeeded(e) /\ Fits(op, e)
           /\ HeightAfter(op, e) = HeightAfter(op, advanced)
           /\ Only(advanced, e, {"gas_left"})
           /\ e.gas_left = advanced.gas_left
                             + (current_block_cost - Cost(at[instr_it]))
           /\ gas_left_correction \in Nat
           /\ gas_left_correction = current_block_cost - Cost(at[instr_it])
<1> DEFINE o == at[instr_it]
           corr == current_block_cost - Cost(o)
<1>1. gas_left_correction = corr
  BY DEF gas_left_correction
<1>2. /\ Fits(op, advanced) /\ corr \in Nat /\ Cost(o) = o.gas + o.info.gas_cost
      /\ o.gas \in Nat /\ o.info.gas_cost \in Nat /\ current_block_cost \in Nat
  BY InsideFits
<1>3. Sound(advanced) /\ Succeeded(advanced) /\ advanced.gas_left \in Nat
  BY DEF AdvancedInv, Sound
<1>4. advanced = [f \in Fields |-> advanced[f]]
  BY <1>3 DEF Sound
<1> HIDE DEF corr
<1>5. e = [advanced EXCEPT !.gas_left = advanced.gas_left + corr]
  BY <1>1 DEF exact
<1>6. /\ e = [f \in Fields |-> e[f]] /\ e.gas_left = advanced.gas_left + corr
      /\ \A f \in Fields \ {"gas_left"} : e[f] = advanced[f]
  BY <1>4, <1>5 DEF Fields
<1>7. Only(advanced, e, {"gas_left"})
  BY <1>6 DEF Only
<1>8. e.status = advanced.status /\ e.stack = advanced.stack
  BY <1>6 DEF Fields
<1>9. advanced.gas_left + corr <= Int64Max
  <2>1. advanced.gas_left + (current_block_cost - o.gas) <= Int64Max
    BY DEF AdvancedInv, Inside
  <2>2. corr = current_block_cost - (o.gas + o.info.gas_cost)
    BY <1>2 DEF corr
  <2> HIDE DEF o
  <2>3. Int64Max \in Nat
    BY LimitsFacts
  <2> QED
    BY <1>2, <1>3, <2>1, <2>2, <2>3
<1>10. Only(advanced, e, {"gas_left", "status"})
  BY <1>7, OnlyMore
<1>11. e.gas_left \in Int /\ e.gas_left <= Int64Max /\ e.gas_left >= 0
  BY <1>2, <1>3, <1>6, <1>9
<1>12. Sound(e)
  BY <1>3, <1>10, <1>11, GasChanged
<1>13. Succeeded(e) /\ Fits(op, e)
       /\ HeightAfter(op, e) = HeightAfter(op, advanced)
  BY <1>2, <1>3, <1>8, <1>12 DEF Succeeded, Fits, Ready, HeightAfter
<1> QED
  BY <1>1, <1>2, <1>6, <1>7, <1>12, <1>13 DEF corr

LEMMA TakeBackRuns ==
    ASSUME NEW e, NEW u, NEW n, Sound(e), Runs(e, u, n), NEW corr \in Nat,
           NEW t, t = TakeBack(u, corr)
    PROVE  /\ Runs(e, t, n)
           /\ ~Succeeded(u) => t = u
           /\ Succeeded(u) => /\ t.gas_left = u.gas_left - corr
                              /\ Only(u, t, {"gas_left", "status"})
                              /\ Succeeded(t) <=> u.gas_left >= corr
           /\ Succeeded(t) => Succeeded(u)
<1>1. t = IF Succeeded(u) THEN Charge(u, corr) ELSE u
  BY DEF TakeBack, Then
<1>2. CASE ~Succeeded(u)
  BY <1>1, <1>2
<1>3. CASE Succeeded(u)
  <2> DEFINE v == Charge(u, corr)
  <2>1. Sound(u) /\ Len(u.stack) = n
    BY <1>3 DEF Runs
  <2>2. /\ Runs(u, v, Len(u.stack)) /\ v.gas_left = u.gas_left - corr
        /\ Only(u, v, {"gas_left", "status"})
        /\ Succeeded(v) <=> u.gas_left >= corr
    BY <1>3, <2>1, ChargeRuns
  <2>3. t = v
    BY <1>1, <1>3
  <2> HIDE DEF v
  <2>4. Runs(e, t, n)
    BY <1>3, <2>1, <2>2, <2>3, RunsThen
  <2> QED
    BY <1>3, <2>2, <2>3, <2>4
<1> QED
  BY <1>2, <1>3

\* An instruction that runs with the exact gas, and takes the correction back.
LEMMA OnwardCorrected ==
    ASSUME AnalysesInv, analyzed, AdvancedInv, instr_it # 0,
           at[instr_it].begin # instr_it, instr_it + 1 \in 1..Len(at),
           NEW op, Defined(instr_it, op), instr.number = Cost(at[instr_it]),
           NEW CONSTANT u, Runs(exact, u, HeightAfter(op, exact)),
           ContextKept, Continue(Corrected(u))
    PROVE  AdvancedInv'
<1>1. PICK e : e = exact
  OBVIOUS
<1>2. PICK t : t = Corrected(u)
  OBVIOUS
<1>3. PICK corr : corr = gas_left_correction
  OBVIOUS
<1>4. /\ Sound(e) /\ HeightAfter(op, e) = HeightAfter(op, advanced)
      /\ corr \in Nat /\ corr = current_block_cost - Cost(at[instr_it])
  BY <1>1, <1>3, ExactSound
<1>5. /\ Runs(e, t, HeightAfter(op, advanced))
      /\ Succeeded(t) => Succeeded(u) /\ t.gas_left = u.gas_left - corr
  BY <1>1, <1>2, <1>3, <1>4, TakeBackRuns DEF Corrected
<1>6. Sound(t) /\ (Succeeded(t) => Len(t.stack) = HeightAfter(op, advanced))
  BY <1>5 DEF Runs
<1>7. Succeeded(t) => t.gas_left + corr <= Int64Max
  <2>1. u.gas_left \in Int /\ u.gas_left <= Int64Max
    BY DEF Runs, Sound
  <2> QED
    BY <1>4, <1>5, <2>1, LimitsFacts
<1>8. /\ advanced' = t /\ AdvancedKept
      /\ instr_it' = IF Succeeded(t) THEN instr_it + 1 ELSE 0
  BY <1>2 DEF Continue, AdvancedKept
<1> QED
  BY <1>4, <1>6, <1>7, <1>8, Onward

\* BEGINBLOCK: charge and check the block, and go on inside of it.
LEMMA BeginblockInv ==
    ASSUME AnalysesInv, analyzed, AdvancedInv, instr_it # 0,
           at[instr_it].begin = instr_it, opx_beginblock, ContextKept
    PROVE  AdvancedInv'
<1> DEFINE k == instr_it
           info == instrs[k].block
           cost == info.gas_cost
           c == Charge(advanced, cost)
           checked == IF stack_size(c) < info.stack_req
                      THEN Fail(c, "STACK_UNDERFLOW")
                      ELSE IF stack_size(c) + info.stack_max_growth > StackLimit
                      THEN Fail(c, "STACK_OVERFLOW") ELSE c
<1>1. AnalysisInv /\ TableInv /\ Sound(advanced) /\ Succeeded(advanced)
  BY DEF AnalysesInv, AdvancedInv
<1>2. PICK t : t = IF Succeeded(c) THEN checked ELSE c
  OBVIOUS
<1>3. /\ advanced' = t
      /\ instr_it' = IF Succeeded(t) THEN k + 1 ELSE 0
      /\ current_block_cost' = IF Succeeded(t) THEN cost
                               ELSE current_block_cost
  BY <1>2 DEF opx_beginblock, Then, instr
<1>4. /\ k \in 1..Len(at) /\ k \in 1..Len(instrs) /\ Len(at) = Len(instrs)
      /\ Len(at) \in Nat /\ k + 1 \in 1..Len(at)
      /\ at[k].gas = 0 /\ at[k].change = 0 /\ at[k].info.stack_change = 0
  <2>1. Len(at) = Len(instrs) /\ Len(at) \in Nat
    BY <1>1, TableFacts
  <2>2. k \in 1..Len(at)
    BY <2>1 DEF AdvancedInv
  <2> QED
    BY <2>1, <2>2, EntryKinds
<1>5. /\ cost \in Nat /\ cost \in 0..BlockGasMax
      /\ info.stack_req \in Nat /\ info.stack_max_growth \in Nat
  <2>1. instrs \in Seq(Instruction)
    BY <1>1 DEF AnalysisInv, AdvancedAnalysisTypeOK
  <2>3. instrs[k] \in Instruction
    BY <1>4, <2>1
  <2>2. info \in block_info
    BY <2>3 DEF Instruction
  <2> QED
    BY <2>2, LimitFacts DEF block_info
<1> HIDE DEF info, cost
<1>6. /\ Runs(advanced, c, Len(advanced.stack))
      /\ Only(advanced, c, {"gas_left", "status"})
      /\ c.gas_left = advanced.gas_left - cost
  BY <1>1, <1>5, ChargeRuns
<1>7. Sound(c) /\ c.stack = advanced.stack
  BY <1>6 DEF Runs, Only, Fields
<1> HIDE DEF c
<1>8. Sound(t) /\ (Succeeded(t) => t = c)
  <2>1. CASE ~Succeeded(c)
    BY <1>2, <1>7, <2>1
  <2>2. CASE Succeeded(c) /\ checked = c
    BY <1>2, <1>7, <2>2
  <2>3. CASE Succeeded(c) /\ checked # c
    <3>1. PICK e \in {"STACK_OVERFLOW", "STACK_UNDERFLOW"} : t = Fail(c, e)
      BY <1>2, <2>3
    <3>2. Runs(c, t, 0) /\ ~Succeeded(t)
      BY <1>7, <3>1, FailRuns
    <3> QED
      BY <3>2 DEF Runs
  <2> QED
    BY <2>1, <2>2, <2>3
<1>9. UNCHANGED <<at, instrs>>
  BY DEF ContextKept, analysisVars, advancedAnalysisVars
<1>10. Sound(advanced)'
  <2>1. Sound(t)'
    BY <1>8, SoundKept
  <2> QED
    BY <1>3, <2>1 DEF Sound, SoundHost, Pure
<1>11. /\ instr_it' \in 0..Len(instrs') /\ current_block_cost' \in 0..BlockGasMax
       /\ (instr_it' # 0 => Succeeded(advanced)')
  BY <1>3, <1>4, <1>5, <1>9 DEF AdvancedInv, Succeeded
<1>12. ASSUME instr_it' # 0, at'[instr_it'].begin # instr_it'
       PROVE  Inside'
  <2> DEFINE n == at[k + 1]
             h == Len(advanced.stack)
  <2>1. Succeeded(t) /\ instr_it' = k + 1 /\ t = c /\ Succeeded(c)
        /\ current_block_cost' = cost
    BY <1>3, <1>8, <1>12
  <2>2. checked = c
    BY <1>2, <2>1
  <2>3. h \in 0..StackLimit /\ h \in Nat
    BY <1>1 DEF Sound
  <2>4. PassesStackCheck(info, h)
    <3>1. /\ ~Succeeded(Fail(c, "STACK_OVERFLOW"))
          /\ ~Succeeded(Fail(c, "STACK_UNDERFLOW"))
      BY <1>7, FailRuns
    <3>2. ~(h < info.stack_req)
      BY <1>7, <2>1, <2>2, <3>1 DEF stack_size
    <3>3. ~(h + info.stack_max_growth > StackLimit)
      BY <1>7, <2>1, <2>2, <3>1, <3>2 DEF stack_size
    <3> QED
      BY <1>5, <2>3, <3>2, <3>3, StackLimitAssumption DEF PassesStackCheck
  <2>5. Follows(at[k], n, k + 1)
    <3>1. Chain(at) /\ k \in 1..Len(at) - 1
      BY <1>1, <1>4 DEF AnalysisInv, BlockInv, DoneInv
    <3> QED
      BY <3>1 DEF Chain
  <2>6. n.begin = at[k].begin /\ n.gas = Cost(at[k]) /\ n.change = Height(at[k])
    BY <1>9, <1>12, <2>1, <2>5 DEF Follows
  <2>7. n.begin = k /\ n.change = 0 /\ n.gas \in Nat
    <3>1. at[k] \in OriginType
      BY <1>1, <1>4 DEF AnalysisInv, AdvancedAnalysisTypeOK
    <3>2. at[k].info.gas_cost \in Nat
      BY <3>1, EntryNumbers DEF OriginType
    <3> QED
      BY <1>4, <2>6, <3>2 DEF Cost, Height
  <2>8. t.gas_left + (cost - n.gas) <= Int64Max
    <3>1. advanced.gas_left \in Int /\ advanced.gas_left <= Int64Max
      BY <1>1 DEF Sound
    <3> QED
      BY <1>5, <1>6, <2>1, <2>7, <3>1, LimitsFacts
  <2>9. at'[instr_it'] = n
    BY <1>9, <2>1
  <2> HIDE DEF n
  <2>10. Len(t.stack) - n.change = h
    BY <1>7, <2>1, <2>3, <2>7
  <2> QED
    BY <1>3, <1>4, <1>9, <2>1, <2>3, <2>4, <2>7, <2>8, <2>9, <2>10
       DEF Inside, PassesStackCheck, info, cost
<1> QED
  BY <1>10, <1>11, <1>12 DEF AdvancedInv

\* A jump goes to the beginning of a block or fails.
LEMMA JumpToInv ==
    ASSUME AnalysesInv, analyzed, AdvancedInv, NEW CONSTANT s, Sound(s),
           Succeeded(s), NEW CONSTANT dst \in Nat, JumpTo(s, dst), ContextKept
    PROVE  AdvancedInv'
<1>1. AnalysisInv /\ TableInv /\ Len(instrs) \in Nat
  BY TableFacts DEF AnalysesInv
<1>2. PICK pc : pc = IF IntMax < dst THEN 0 ELSE find_jumpdest(dst)
  OBVIOUS
<1>3. /\ advanced' = IF pc = 0 THEN Fail(s, "BAD_JUMP_DESTINATION") ELSE s
      /\ instr_it' = pc /\ current_block_cost' = current_block_cost
  BY <1>2 DEF JumpTo
<1>4. CASE pc = 0
  <2>1. Sound(Fail(s, "BAD_JUMP_DESTINATION"))
    BY FailRuns DEF Runs
  <2> QED
    BY <1>1, <1>3, <1>4, <2>1, ExitInv
<1>5. CASE pc # 0
  <2>1. find_jumpdest(dst) = pc
    BY <1>2, <1>5
  <2>2. PICK i \in 1..Len(jumpdest_offsets) : jumpdest_offsets[i] = dst
    BY <1>1, <1>5, <2>1, FindJumpdestFails
  <2>3. pc = jumpdest_targets[i]
    BY <1>1, <2>1, <2>2, FindJumpdestFinds
  <2>4. pc \in 1..Len(instrs) /\ at[pc].begin = pc
    BY <1>1, <2>2, <2>3 DEF AnalysisInv, JumpdestInv, JumpdestIndexSound
  <2> QED
    BY <1>3, <1>5, <2>4, EnterInv
<1> QED
  BY <1>4, <1>5

\* The RETURN of Advanced leaves what that of Baseline leaves, but for the
\* offset of an empty output.
LEMMA OpReturnSound ==
    ASSUME NEW s, Ready(s, 2), NEW c, c \in {"SUCCESS", "REVERT"}, NEW t,
           LET u == check_memory(Needs(s, 2), Item(s, 0), Item(s, 1))
           IN  t = IF Succeeded(u)
                   THEN [TouchMemory(u, size_t(Item(s, 0)), Item(s, 1)) EXCEPT
                           !.output_size = size_t(Item(s, 1)),
                           !.output_offset = IF size_t(Item(s, 1)) # 0
                                             THEN size_t(Item(s, 0)) ELSE @,
                           !.status = c]
                   ELSE u
    PROVE  Ends(s, t)
<1> DEFINE offset == Item(s, 0)
           size == Item(s, 1)
           u == check_memory(s, offset, size)
<1>1. Sound(s) /\ Succeeded(s) /\ Needs(s, 2) = s
  BY NeedsMet DEF Ready
<1>2. offset \in Nat /\ size \in Nat
  BY <1>1, ItemIsWord
<1>3. t = IF Succeeded(u)
          THEN [TouchMemory(u, size_t(offset), size) EXCEPT
                  !.output_size = size_t(size),
                  !.output_offset = IF size_t(size) # 0
                                    THEN size_t(offset) ELSE @,
                  !.status = c]
          ELSE u
  BY <1>1
<1> HIDE DEF offset, size
<1>4. /\ Runs(s, u, Len(s.stack))
      /\ Succeeded(u) => Covered(u, offset, size)
  BY <1>1, <1>2, CheckRuns
<1> HIDE DEF u
<1>5. CASE ~Succeeded(u)
  BY <1>3, <1>4, <1>5, RunsEnds
<1>6. CASE Succeeded(u)
  <2> DEFINE x == IF size_t(size) # 0 THEN size_t(offset) ELSE u.output_offset
             y == size_t(size)
             v == [u EXCEPT !.output_offset = x, !.output_size = y,
                            !.status = c]
  <2>1. Sound(u) /\ TouchMemory(u, size_t(offset), size) = u
    BY <1>2, <1>4, <1>6, TouchCovered DEF Runs
  <2>2. t = v
    <3>1. u = [f \in Fields |-> u[f]]
      BY <2>1 DEF Sound
    <3> QED
      BY <1>3, <1>6, <2>1, <3>1 DEF Fields
  <2>3. x \in Nat /\ y \in Nat
    <3>1. size_t(size) \in Nat /\ size_t(offset) \in Nat
      BY <1>2, LimitsFacts DEF size_t
    <3> QED
      BY <2>1, <3>1 DEF Sound
  <2> HIDE DEF x, y
  <2>4. Ends(u, v)
    BY <1>6, <2>1, <2>3, OutputSound
  <2> HIDE DEF v
  <2> QED
    BY <1>1, <1>4, <1>6, <2>2, <2>4, EndsThen
<1> QED
  BY <1>5, <1>6

\* The functions of the instructions.
LEMMA FunctionKinds ==
    /\ OPX_BEGINBLOCK = 91 /\ op_undefined = -1
    /\ OP.STOP = 0 /\ OP.SSTORE = 85 /\ OP.JUMP = 86 /\ OP.JUMPI = 87
    /\ OP.PC = 88 /\ OP.GAS = 90 /\ OP.RETURN = 243 /\ OP.REVERT = 253
    /\ OP.INVALID = 254 /\ OP.SELFDESTRUCT = 255
    /\ PushOps = 96..127
    /\ CallOps = {241, 242, 244, 250} /\ CreateOps = {240, 245}
BY DEF OPX_BEGINBLOCK, op_undefined, OP, PushOps, CallOps, CreateOps

\* Only opx_beginblock runs at the beginning of a block.
LEMMA AtBlock ==
    ASSUME AdvancedStep, instr.fn = OPX_BEGINBLOCK
    PROVE  opx_beginblock
<1>1. instr.fn = 91
  BY FunctionKinds
<1>2. /\ ~op_sstore /\ ~op_call /\ ~op_create /\ ~op_gas /\ ~op_jump /\ ~op_jumpi
      /\ ~op_pc /\ ~op_stop /\ ~op_return /\ ~op_invalid /\ ~op_undefined_
      /\ ~op_selfdestruct
  BY <1>1, FunctionKinds
     DEF op_sstore, op_call, op_create, op_gas, op_jump, op_jumpi, op_pc,
         op_stop, op_return, op_invalid, op_undefined_, op_selfdestruct
<1>3. ~op_push_small /\ ~op_push_full
  BY <1>1, FunctionKinds DEF op_push_small, op_push_full
<1>4. ~op_generic
  BY DEF op_generic, OwnFunction
<1> QED
  BY <1>2, <1>3, <1>4 DEF AdvancedStep

\* The step of an undefined instruction.
LEMMA AtUndefined ==
    ASSUME AdvancedStep, instr.fn = op_undefined
    PROVE  op_undefined_
<1>1. instr.fn = -1
  BY FunctionKinds
<1>2. /\ ~op_sstore /\ ~op_call /\ ~op_create /\ ~op_gas /\ ~op_jump /\ ~op_jumpi
      /\ ~op_pc /\ ~op_stop /\ ~op_return /\ ~op_invalid /\ ~opx_beginblock
      /\ ~op_selfdestruct
  BY <1>1, FunctionKinds
     DEF op_sstore, op_call, op_create, op_gas, op_jump, op_jumpi, op_pc,
         op_stop, op_return, op_invalid, opx_beginblock, op_selfdestruct
<1>3. ~op_push_small /\ ~op_push_full
  BY <1>1, FunctionKinds DEF op_push_small, op_push_full
<1>4. ~op_generic
  BY DEF op_generic, OwnFunction
<1> QED
  BY <1>2, <1>3, <1>4 DEF AdvancedStep

\* The step of a defined instruction op of the code.
LEMMA AtDefined ==
    ASSUME AdvancedStep, NEW op, Defined(instr_it, op)
    PROVE  /\ op = OP.STOP => exit(advanced)
           /\ op = OP.SSTORE => Continue(Corrected(sstore(exact)))
           /\ op \in CallOps \cup CreateOps
                => Continue(Corrected(CallOrCreate(op, exact)))
           /\ op = OP.GAS => Continue(Push(advanced, advanced.gas_left
                                                       + gas_left_correction))
           /\ op = OP.JUMP => JumpTo(Drop(advanced, 1), Item(advanced, 0))
           /\ op = OP.JUMPI =>
                \/ /\ Item(advanced, 1) # 0
                   /\ JumpTo(Drop(advanced, 2), Item(advanced, 0))
                \/ Item(advanced, 1) = 0 /\ Continue(Drop(advanced, 2))
           /\ op = OP.PC => Continue(Push(advanced, instr.number))
           /\ op \in PushOps =>
                \/ /\ PushSize(op) <= SmallPushMax
                   /\ Continue(Push(advanced, be_load(instr.small_push_value)))
                \/ /\ PushSize(op) > SmallPushMax
                   /\ Continue(Push(advanced,
                                    be_load(push_values[instr.push_value])))
           /\ op \in {OP.RETURN, OP.REVERT} => op_return
           /\ op = OP.INVALID => exit(Fail(advanced, "INVALID_INSTRUCTION"))
           /\ op = OP.SELFDESTRUCT => exit(selfdestruct(advanced))
           /\ op \in GenericOps => Continue(Generic(op, advanced))
<1>1. instr.fn = op /\ op \in KnownOps /\ op # OP.JUMPDEST
  BY DEF Defined, instr
<1>2. op # OPX_BEGINBLOCK /\ op # op_undefined
  <2>1. op # op_undefined
    <3>1. op \in Nat
      BY <1>1 DEF KnownOps, OP, ContextOps, TxContextOps, PushOps, DupOps,
                  SwapOps, LogOps, CallOps, CreateOps
    <3> QED
      BY <3>1 DEF op_undefined
  <2> QED
    BY <1>1, <2>1 DEF OPX_BEGINBLOCK
<1>3. ~opx_beginblock /\ ~op_undefined_
  BY <1>1, <1>2 DEF opx_beginblock, op_undefined_
<1>4. op \in GenericOps =>
        /\ op \notin {OP.SSTORE, OP.GAS, OP.JUMP, OP.JUMPI, OP.PC, OP.STOP,
                      OP.RETURN, OP.REVERT, OP.INVALID, OP.SELFDESTRUCT}
        /\ op \notin PushOps /\ op \notin CallOps /\ op \notin CreateOps
  BY DEF GenericOps
<1>5. op \in GenericOps => Continue(Generic(op, advanced))
  BY <1>1, <1>3, <1>4
     DEF AdvancedStep, op_sstore, op_call, op_create, op_gas, op_jump,
         op_jumpi, op_pc, op_stop, op_return, op_invalid, op_selfdestruct,
         op_push_small, op_push_full, op_generic
<1>6. op \notin GenericOps => ~op_generic
  BY <1>1, <1>2 DEF op_generic, OwnFunction, GenericOps, OPX_BEGINBLOCK
<1>7. /\ op_sstore => op = 85 /\ Continue(Corrected(sstore(exact)))
      /\ op_call => /\ op \in {241, 242, 244, 250}
                    /\ Continue(Corrected(CallOrCreate(op, exact)))
      /\ op_create => /\ op \in {240, 245}
                      /\ Continue(Corrected(CallOrCreate(op, exact)))
      /\ op_gas => op = 90 /\ Continue(Push(advanced, advanced.gas_left
                                                        + gas_left_correction))
      /\ op_jump => op = 86 /\ JumpTo(Drop(advanced, 1), Item(advanced, 0))
      /\ op_pc => op = 88 /\ Continue(Push(advanced, instr.number))
  BY <1>1, FunctionKinds DEF op_sstore, op_call, op_create, op_gas, op_jump,
                             op_pc
<1>8. /\ op_jumpi => op = 87 /\ (\/ /\ Item(advanced, 1) # 0
                                    /\ JumpTo(Drop(advanced, 2),
                                              Item(advanced, 0))
                                 \/ /\ Item(advanced, 1) = 0
                                    /\ Continue(Drop(advanced, 2)))
      /\ op_push_small => /\ op \in 96..127
                          /\ PushSize(op) <= SmallPushMax
                          /\ Continue(Push(advanced,
                                           be_load(instr.small_push_value)))
      /\ op_push_full => /\ op \in 96..127
                         /\ PushSize(op) > SmallPushMax
                         /\ Continue(Push(advanced,
                                    be_load(push_values[instr.push_value])))
      /\ op_stop => op = 0 /\ exit(advanced)
      /\ op_return => op \in {243, 253}
      /\ op_invalid => op = 254 /\ exit(Fail(advanced, "INVALID_INSTRUCTION"))
      /\ op_selfdestruct => op = 255 /\ exit(selfdestruct(advanced))
  BY <1>1, FunctionKinds DEF op_jumpi, op_push_small, op_push_full, op_stop,
                             op_return, op_invalid, op_selfdestruct
<1>9. \/ op_sstore \/ op_call \/ op_create \/ op_gas \/ op_jump \/ op_jumpi
      \/ op_pc \/ op_push_small \/ op_push_full \/ op_stop \/ op_return
      \/ op_invalid \/ op_selfdestruct \/ op_generic
  BY <1>3 DEF AdvancedStep
<1>10. op \in {OP.SSTORE, OP.GAS, OP.JUMP, OP.JUMPI, OP.PC, OP.STOP,
               OP.RETURN, OP.REVERT, OP.INVALID, OP.SELFDESTRUCT}
         \/ op \in PushOps \/ op \in CallOps \cup CreateOps
       => op \notin GenericOps
  BY <1>4
<1> QED
  BY <1>5, <1>6, <1>7, <1>8, <1>9, <1>10, FunctionKinds

\* The data of a push is a word, zeros past the end of the code.
LEMMA DataIsWord ==
    ASSUME AnalysisInv, TableInv, NEW offset \in Nat,
           OpAt(offset) \in PushOps
    PROVE  be_load(DataAt(offset)) \in Word
<1> DEFINE n == PushSize(OpAt(offset))
<1>1. code \in Seq(Byte) /\ Len(code) \in Nat
  BY CodesAssumption, TableFacts
<1>2. n \in 1..32
  BY PushFacts
<1>3. DataAt(offset) = [k \in 1..n |-> IF offset + 1 + k <= Len(code)
                                       THEN code[offset + 1 + k] ELSE 0]
  BY DEF DataAt
<1> HIDE DEF n
<1>4. n \in Nat
  BY <1>2
<1>5. \A k \in 1..n : (IF offset + 1 + k <= Len(code)
                       THEN code[offset + 1 + k] ELSE 0) \in Byte
  <2> SUFFICES ASSUME NEW k \in 1..n
               PROVE  (IF offset + 1 + k <= Len(code)
                       THEN code[offset + 1 + k] ELSE 0) \in Byte
    OBVIOUS
  <2>1. CASE offset + 1 + k <= Len(code)
    <3>1. offset + 1 + k \in 1..Len(code)
      BY <1>1, <1>4, <2>1
    <3> QED
      BY <1>1, <2>1, <3>1
  <2>2. CASE ~(offset + 1 + k <= Len(code))
    BY <2>2 DEF Byte
  <2> QED
    BY <2>1, <2>2
<1>6. DataAt(offset) \in Seq(Byte)
  BY <1>3, <1>4, <1>5
<1> QED
  BY <1>6, BytesAreNumbers

\* What Advanced and Baseline push is a word.
LEMMA ArgumentsTyped ==
    ASSUME AnalysesInv, analyzed, Context_, NEW k \in 1..Len(at),
           OfCode(at[k]), NEW op, op = OpAt(at[k].offset)
    PROVE  /\ op \in PushOps /\ PushSize(op) <= SmallPushMax
                => be_load(instrs[k].small_push_value) \in Word
           /\ op \in PushOps /\ PushSize(op) > SmallPushMax
                => be_load(push_values[instrs[k].push_value]) \in Word
           /\ op = OP.PC => /\ instrs[k].number \in Word
                            /\ instrs[k].number = at[k].offset
           /\ op \in GasDependent => instrs[k].number = Cost(at[k])
<1>1. AnalysisInv /\ TableInv
  BY DEF AnalysesInv
<1>2. Translated(instrs[k], at[k], k, push_values)
  BY <1>1, OfCodeIsTranslated
<1>3. ArgumentOf(instrs[k], at[k], push_values) /\ at[k].offset < Len(code)
  BY <1>2 DEF Translated
<1>4. at[k].offset \in Nat /\ Len(code) \in Nat
  BY <1>1, TableFacts
<1>5. op \in PushOps => be_load(DataAt(at[k].offset)) \in Word
  BY <1>1, <1>4, DataIsWord
<1>6. at[k].offset \in Word
  <2>1. Len(code) < WordMod /\ WordMod \in Nat
    BY WordModFacts DEF Context_, IsBuffer, Word
  <2> QED
    BY <1>3, <1>4, <2>1 DEF Word
<1> QED
  BY <1>3, <1>5, <1>6 DEF ArgumentOf

\* The state after an instruction of the code.
LEMMA DefinedInv ==
    ASSUME AnalysesInv, analyzed, Context_, AdvancedInv, AdvancedStep,
           ContextKept, instr_it # 0, at[instr_it].begin # instr_it,
           OfCode(at[instr_it]), instr_it + 1 \in 1..Len(at),
           NEW op, op = OpAt(at[instr_it].offset), Defined(instr_it, op)
    PROVE  AdvancedInv'
<1>1. /\ Sound(advanced) /\ Succeeded(advanced) /\ Fits(op, advanced)
      /\ Len(advanced.stack) \in Nat /\ op \in KnownOps
  <2>1. Sound(advanced) /\ Succeeded(advanced)
    BY DEF AdvancedInv
  <2>2. Fits(op, advanced)
    BY InsideFits
  <2>3. Len(advanced.stack) \in Nat
    BY <2>1 DEF Sound
  <2>4. op \in KnownOps
    BY DEF Defined
  <2> QED
    BY <2>1, <2>2, <2>3, <2>4
<1>2. instr_it \in 1..Len(at) /\ Len(instrs) \in Nat
  <2>1. Len(at) = Len(instrs) /\ Len(at) \in Nat
    BY TableFacts DEF AnalysesInv
  <2> QED
    BY <2>1 DEF AdvancedInv
<1>3. /\ op \in PushOps /\ PushSize(op) <= SmallPushMax
           => be_load(instr.small_push_value) \in Word
      /\ op \in PushOps /\ PushSize(op) > SmallPushMax
           => be_load(push_values[instr.push_value]) \in Word
      /\ op = OP.PC => instr.number \in Word
      /\ op \in GasDependent => instr.number = Cost(at[instr_it])
  BY <1>2, ArgumentsTyped DEF instr
<1>4. CASE op = OP.STOP
  BY <1>1, <1>2, <1>4, AtDefined, ExitInv DEF exit
<1>5. CASE op = OP.SSTORE
  <2>1. PICK e : e = exact
    OBVIOUS
  <2>2. PICK u : u = sstore(e)
    OBVIOUS
  <2>3. instr.number = Cost(at[instr_it])
    BY <1>3, <1>5 DEF GasDependent
  <2>4. Fits(op, e)
    BY <2>1, <2>3, ExactSound
  <2>5. StackTraits(op) = <<2, -2>>
    BY <1>5, TraitsOf
  <2>6. Ready(e, 2) /\ HeightAfter(op, e) = Len(e.stack) - 2
    <3>1. Ready(e, 2) /\ HeightAfter(op, e) = Len(e.stack) + (-2)
          /\ Len(e.stack) \in Nat
      BY <2>4, <2>5, FitsAs
    <3> QED
      BY <3>1
  <2>7. Runs(e, u, HeightAfter(op, e))
    BY <2>2, <2>6, SstoreRuns
  <2>8. Continue(Corrected(u))
    BY <1>5, <2>1, <2>2, AtDefined
  <2> QED
    BY <2>1, <2>3, <2>7, <2>8, OnwardCorrected
<1>6. CASE op \in CallOps \cup CreateOps
  <2>1. PICK e : e = exact
    OBVIOUS
  <2>2. PICK u : u = CallOrCreate(op, e)
    OBVIOUS
  <2>3. instr.number = Cost(at[instr_it])
    BY <1>3, <1>6 DEF GasDependent, CallOps, CreateOps
  <2>4. Fits(op, e)
    BY <2>1, <2>3, ExactSound
  <2>5. Runs(e, u, HeightAfter(op, e))
    BY <1>6, <2>2, <2>4, CallOrCreateRuns
  <2>6. Continue(Corrected(u))
    BY <1>6, <2>1, <2>2, AtDefined
  <2> QED
    BY <2>1, <2>3, <2>5, <2>6, OnwardCorrected
<1>7. CASE op \in PushOps \cup {OP.GAS, OP.PC}
  <2>1. PICK x \in Word : Continue(Push(advanced, x))
    <3>1. CASE op \in PushOps
      BY <1>3, <3>1, AtDefined
    <3>2. CASE op = OP.PC
      BY <1>3, <3>2, AtDefined
    <3>3. CASE op = OP.GAS
      <4>1. instr.number = Cost(at[instr_it])
        BY <1>3, <3>3 DEF GasDependent
      <4>2. PICK e : e = exact
        OBVIOUS
      <4>3. /\ Sound(e) /\ Succeeded(e)
            /\ e.gas_left = advanced.gas_left + gas_left_correction
        BY <4>1, <4>2, ExactSound
      <4>4. e.gas_left \in Word
        BY <4>3, SizesAreWords
      <4> QED
        BY <3>3, <4>3, <4>4, AtDefined
    <3> QED
      BY <1>7, <3>1, <3>2, <3>3
  <2>2. StackTraits(op) = <<0, 1>>
    BY <1>7, TraitsOf
  <2>3. /\ Ready(advanced, 0) /\ Len(advanced.stack) + 1 <= StackLimit
        /\ HeightAfter(op, advanced) = Len(advanced.stack) + 1
    BY <1>1, <2>2, FitsAs
  <2>4. Len(advanced.stack) < StackLimit
    BY <1>1, <2>3, StackLimitAssumption
  <2>5. PICK t : t = Push(advanced, x)
    OBVIOUS
  <2>6. Runs(advanced, t, HeightAfter(op, advanced))
    BY <2>3, <2>4, <2>5, PushRuns
  <2>7. Continue(t)
    BY <2>1, <2>5
  <2> QED
    BY <2>6, <2>7, OnwardRuns
<1>8. CASE op = OP.JUMP
  <2>1. StackTraits(op) = <<1, -1>>
    BY <1>8, TraitsOf
  <2>2. Ready(advanced, 1)
    BY <1>1, <2>1, FitsAs
  <2>3. PICK t : t = Drop(advanced, 1)
    OBVIOUS
  <2>4. PICK dst : dst = Item(advanced, 0)
    OBVIOUS
  <2>5. Sound(t) /\ Succeeded(t) /\ dst \in Nat
    BY <1>1, <2>2, <2>3, <2>4, DropRuns, ItemIsWord DEF Runs
  <2>6. JumpTo(t, dst)
    BY <1>8, <2>3, <2>4, AtDefined
  <2> QED
    BY <2>5, <2>6, JumpToInv
<1>9. CASE op = OP.JUMPI
  <2>1. StackTraits(op) = <<2, -2>>
    BY <1>9, TraitsOf
  <2>2. Ready(advanced, 2) /\ HeightAfter(op, advanced) = Len(advanced.stack) - 2
    <3>1. /\ Ready(advanced, 2)
          /\ HeightAfter(op, advanced) = Len(advanced.stack) + (-2)
      BY <1>1, <2>1, FitsAs
    <3> QED
      BY <1>1, <3>1
  <2>3. PICK t : t = Drop(advanced, 2)
    OBVIOUS
  <2>4. PICK dst : dst = Item(advanced, 0)
    OBVIOUS
  <2>5. /\ Runs(advanced, t, HeightAfter(op, advanced))
        /\ Succeeded(t) /\ dst \in Nat
    BY <1>1, <2>2, <2>3, <2>4, DropRuns, ItemIsWord
  <2>6. JumpTo(t, dst) \/ Continue(t)
    BY <1>9, <2>3, <2>4, AtDefined
  <2>7. CASE JumpTo(t, dst)
    BY <2>5, <2>7, JumpToInv DEF Runs
  <2>8. CASE Continue(t)
    BY <2>5, <2>8, OnwardRuns
  <2> QED
    BY <2>6, <2>7, <2>8
<1>10. CASE op \in {OP.RETURN, OP.REVERT}
  <2>1. StackTraits(op) = <<2, -2>>
    BY <1>10, TraitsOf
  <2>2. Ready(advanced, 2)
    BY <1>1, <2>1, FitsAs
  <2>3. op_return
    BY <1>10, AtDefined
  <2>4. PICK t : /\ exit(t) /\ Ends(advanced, t)
    <3> DEFINE u == check_memory(Needs(advanced, 2), Item(advanced, 0),
                                 Item(advanced, 1))
               c == IF instr.fn = OP.RETURN THEN "SUCCESS" ELSE "REVERT"
               v == IF Succeeded(u)
                    THEN [TouchMemory(u, size_t(Item(advanced, 0)),
                                      Item(advanced, 1)) EXCEPT
                            !.output_size = size_t(Item(advanced, 1)),
                            !.output_offset = IF size_t(Item(advanced, 1)) # 0
                                              THEN size_t(Item(advanced, 0))
                                              ELSE @,
                            !.status = c]
                    ELSE u
    <3>1. exit(v)
      BY <2>3 DEF op_return, Then
    <3>2. c \in {"SUCCESS", "REVERT"}
      OBVIOUS
    <3> HIDE DEF c
    <3>3. Ends(advanced, v)
      BY <2>2, <3>2, OpReturnSound
    <3> QED
      BY <3>1, <3>3
  <2> QED
    BY <1>2, <2>4, ExitInv DEF exit, Ends
<1>11. CASE op = OP.INVALID
  <2>1. PICK t : t = Fail(advanced, "INVALID_INSTRUCTION")
    OBVIOUS
  <2>2. Sound(t)
    BY <1>1, <2>1, FailRuns DEF Runs
  <2>3. exit(t)
    BY <1>11, <2>1, AtDefined
  <2> QED
    BY <1>2, <2>2, <2>3, ExitInv DEF exit
<1>12. CASE op = OP.SELFDESTRUCT
  <2>1. StackTraits(op) = <<1, -1>>
    BY <1>12, TraitsOf
  <2>2. Ready(advanced, 1)
    BY <1>1, <2>1, FitsAs
  <2>3. PICK t : t = selfdestruct(advanced)
    OBVIOUS
  <2>4. Sound(t)
    BY <2>2, <2>3, SelfdestructRuns DEF Runs
  <2>5. exit(t)
    BY <1>12, <2>3, AtDefined
  <2> QED
    BY <1>2, <2>4, <2>5, ExitInv DEF exit
<1>13. CASE op \in GenericOps
  <2>1. PICK t : t = Generic(op, advanced)
    OBVIOUS
  <2>2. Runs(advanced, t, HeightAfter(op, advanced))
    BY <1>1, <1>13, <2>1, GenericRuns
  <2>3. Continue(t)
    BY <1>13, <2>1, AtDefined
  <2> QED
    BY <2>2, <2>3, OnwardRuns
<1>14. op # OP.JUMPDEST
  BY DEF Defined
<1> QED
  BY <1>1, <1>4, <1>5, <1>6, <1>7, <1>8, <1>9, <1>10, <1>11, <1>12, <1>13,
     <1>14 DEF GenericOps

\* A step of Advanced leads to a state it may be in.
LEMMA AdvancedStepInv ==
    ASSUME AnalysesInv, analyzed, Context_, AdvancedInv, AdvancedStep,
           ContextKept
    PROVE  AdvancedInv'
<1>1. instr_it # 0 /\ Sound(advanced)
  BY DEF AdvancedStep, AdvancedInv
<1>2. instr_it \in 1..Len(at) /\ Len(instrs) \in Nat
  <2>1. Len(at) = Len(instrs) /\ Len(at) \in Nat
    BY TableFacts DEF AnalysesInv
  <2> QED
    BY <1>1, <2>1 DEF AdvancedInv
<1>3. CASE at[instr_it].begin = instr_it
  <2>1. instr.fn = OPX_BEGINBLOCK
    BY <1>2, <1>3, EntryKinds DEF instr
  <2> QED
    BY <1>1, <1>3, <2>1, AtBlock, BeginblockInv
<1>4. CASE at[instr_it].begin # instr_it /\ instr.fn = op_undefined
  <2>1. PICK t : t = Fail(advanced, "UNDEFINED_INSTRUCTION")
    OBVIOUS
  <2>2. Sound(t)
    BY <1>1, <2>1, FailRuns DEF Runs
  <2>3. exit(t)
    BY <1>4, <2>1, AtUndefined DEF op_undefined_
  <2> QED
    BY <1>2, <2>2, <2>3, ExitInv DEF exit
<1>5. CASE /\ at[instr_it].begin # instr_it /\ OfCode(at[instr_it])
           /\ instr_it + 1 \in 1..Len(at)
           /\ Defined(instr_it, OpAt(at[instr_it].offset))
  BY <1>1, <1>5, DefinedInv
<1>6. CASE at[instr_it].begin # instr_it /\ Defined(instr_it, OP.STOP)
  <2>1. exit(advanced)
    BY <1>6, AtDefined
  <2>2. PICK t : t = advanced
    OBVIOUS
  <2> QED
    BY <1>1, <1>2, <2>1, <2>2, ExitInv DEF exit
<1> QED
  BY <1>2, <1>3, <1>4, <1>5, <1>6, EntryKinds DEF instr

-----------------------------------------------------------------------------
(***************************************************************************)
(* The execution.                                                          *)
(***************************************************************************)
LEMMA AnalyzeOnlyBefore ==
    AnalyzeCode => ~(analyzed /\ prepared)
BY DEF AnalyzeCode, AdvancedAnalyze, AnalyzeJumpdest, AnalyzeSmallPush,
       AnalyzeLargePush, AnalyzeGasDependent, AnalyzePc, AnalyzeOther,
       FinishAnalysis, InLoop, BaselineAnalyze, ScanOpcode, PadCode

\* The table starts with the block of the first instruction of the code.
LEMMA FirstEntry ==
    ASSUME AnalysesInv
    PROVE  /\ 1 \in 1..Len(at) /\ Len(at) = Len(instrs)
           /\ at[1].offset = 0 /\ at[1].begin = 1
<1>1. AnalysisInv /\ TableInv
  BY DEF AnalysesInv
<1>2. /\ Len(at) \in Nat /\ Len(at) > 0 /\ Len(at) = Len(instrs)
  BY <1>1, TableFacts
<1>3. at[1].offset = 0 /\ at[1].begin = 1
  BY <1>1 DEF TableInv, Ordered
<1> QED
  BY <1>2, <1>3

\* A new execution state is sound.
LEMMA NewStateSound ==
    ASSUME NEW m, NEW e, ValidMessage(m), ValidEnvironment(e),
           NEW s, s = NewExecutionState(m, InitialHost(e)),
           msg' = m, env' = e
    PROVE  Sound(s)' /\ Succeeded(s)
<1> DEFINE h == InitialHost(e)
<1>1. s = [f \in Fields |-> s[f]]
  BY DEF NewExecutionState, Fields
<1>2. /\ s.gas_left = m.gas /\ s.stack = << >> /\ s.memory = << >>
      /\ s.return_data = << >> /\ s.status = "SUCCESS"
      /\ s.output_offset = 0 /\ s.output_size = 0 /\ s.host = h
      /\ s.fault = FALSE
  BY DEF NewExecutionState
<1>3. /\ h = [f \in HostFields |-> h[f]]
      /\ h.storage = e.storage /\ h.effects = << >>
  BY DEF InitialHost, HostFields
<1>4. SoundHost(h)'
  <2>1. \A entry \in DOMAIN h.storage : h.storage[entry] \in Word
    BY <1>3 DEF ValidEnvironment
  <2>2. h.effects \in Seq(Int) /\ Len(h.effects) = 0
    <3>1. << >> \in Seq(Int) /\ Len(<< >>) = 0
      OBVIOUS
    <3> HIDE DEF h
    <3> QED
      BY <1>3, <3>1
  <2>3. (msg' = m /\ env' = e) => Pure(h)'
    BY <1>3, <2>2 DEF Pure
  <2> HIDE DEF h
  <2> QED
    BY <1>3, <2>1, <2>2, <2>3 DEF SoundHost
<1>5. s.gas_left \in Int /\ s.gas_left <= Int64Max /\ s.gas_left >= 0
  BY <1>2, LimitsFacts DEF ValidMessage
<1>6. s.stack \in Seq(Word) /\ Len(s.stack) <= StackLimit
  BY <1>2, LimitsFacts
<1>7. /\ s.memory \in Seq(Byte) /\ Len(s.memory) = 0
      /\ 0 % WordSize = 0 /\ 0 <= MemoryLimit
  BY <1>2, LimitsFacts
<1>8. IsBuffer(s.return_data)
  BY <1>2, WordModFacts DEF IsBuffer, Word
<1> HIDE DEF h
<1> QED
  BY <1>1, <1>2, <1>4, <1>5, <1>6, <1>7, <1>8 DEF Sound, Succeeded

\* Both states are created in a context the assumptions vouch for.
LEMMA StartInv ==
    ASSUME AnalysesInv, Start
    PROVE  Context_' /\ BaselineInv' /\ AdvancedInv'
<1>1. PICK m \in Messages, e \in Environments :
        /\ msg' = m /\ env' = e
        /\ StartAdvanced(m, InitialHost(e))
        /\ StartBaseline(m, InitialHost(e))
  BY DEF Start
<1>2. ValidMessage(m) /\ ValidEnvironment(e)
  BY MessagesAssumption, EnvironmentsAssumption
<1>3. UNCHANGED <<code, rev, at, instrs>>
  BY DEF Start, analysisVars, advancedAnalysisVars
<1>4. PICK s : s = NewExecutionState(m, InitialHost(e))
  OBVIOUS
<1>5. Sound(s)' /\ Succeeded(s)
  BY <1>1, <1>2, <1>4, NewStateSound
<1>6. /\ advanced' = s /\ instr_it' = 1 /\ current_block_cost' = 0
      /\ baseline' = s /\ code_it' = 0
  BY <1>1, <1>4 DEF StartAdvanced, StartBaseline
<1>7. /\ 1 \in 1..Len(at) /\ Len(at) = Len(instrs)
      /\ at[1].offset = 0 /\ at[1].begin = 1
  BY FirstEntry
<1>8. Context_'
  <2>1. code \in Codes /\ Len(code) \in Nat /\ rev \in Revisions
    BY TableFacts DEF AnalysesInv
  <2>2. code \in Seq(Byte)
    BY <2>1, CodesAssumption
  <2>3. Len(code) \in Word
    BY <2>1, CodeSizeAssumption, WordModFacts, LimitsAssumption DEF Word
  <2>4. IsBuffer(code)'
    BY <1>3, <2>2, <2>3 DEF IsBuffer
  <2>5. ValidMessage(msg)'
    BY <1>1, <1>2 DEF ValidMessage, IsBuffer
  <2>6. ValidEnvironment(env)'
    BY <1>1, <1>2 DEF ValidEnvironment, IsBuffer
  <2> QED
    BY <1>3, <2>1, <2>4, <2>5, <2>6 DEF Context_
<1>9. BaselineInv'
  <2>1. Sound(baseline)' /\ Succeeded(baseline)'
    BY <1>5, <1>6 DEF Sound, SoundHost, Pure, Succeeded
  <2>2. Boundary(code_it)'
    BY <1>3, <1>6, <1>7 DEF Boundary
  <2> QED
    BY <2>1, <2>2 DEF BaselineInv
<1>10. AdvancedInv'
  <2>1. Sound(advanced)' /\ Succeeded(advanced)'
    BY <1>5, <1>6 DEF Sound, SoundHost, Pure, Succeeded
  <2>2. (instr_it \in 0..Len(instrs))'
    BY <1>3, <1>6, <1>7
  <2>3. at'[instr_it'].begin = instr_it'
    BY <1>3, <1>6, <1>7
  <2>4. current_block_cost' \in 0..BlockGasMax
    BY <1>6, LimitsAssumption
  <2> QED
    BY <2>1, <2>2, <2>3, <2>4 DEF AdvancedInv
<1> QED
  BY <1>8, <1>9, <1>10

LEMMA StutterInv ==
    ASSUME AnalysesInv, ContextKept, Context_, BaselineInv, AdvancedInv
    PROVE  /\ Context_'
           /\ UNCHANGED baselineVars => BaselineInv'
           /\ UNCHANGED advancedVars => AdvancedInv'
<1>1. UNCHANGED <<code, rev, msg, env, at, instrs, scan_pos>>
  BY DEF ContextKept, analysisVars, advancedAnalysisVars, baselineAnalysisVars
<1>2. Context_'
  BY <1>1 DEF Context_, ValidMessage, ValidEnvironment, IsBuffer
<1>3. ASSUME UNCHANGED baselineVars
      PROVE  BaselineInv'
  <2>1. UNCHANGED baseline /\ UNCHANGED code_it
    BY <1>3 DEF baselineVars
  <2>2. PICK s : s = baseline
    OBVIOUS
  <2>3. Sound(s)'
    BY <2>2, SoundKept DEF BaselineInv
  <2>4. Sound(baseline)'
    BY <2>1, <2>2, <2>3 DEF Sound, SoundHost, Pure, Succeeded
  <2>5. code_it # NoPosition => Succeeded(baseline)'
    BY <2>1 DEF BaselineInv, Succeeded
  <2>6. code_it # NoPosition => (Boundary(code_it) \/ code_it = scan_pos)'
    BY <1>1, <2>1 DEF BaselineInv, Boundary
  <2> QED
    BY <2>1, <2>4, <2>5, <2>6 DEF BaselineInv
<1>4. ASSUME UNCHANGED advancedVars
      PROVE  AdvancedInv'
  <2>1. UNCHANGED advanced /\ UNCHANGED instr_it /\ UNCHANGED current_block_cost
    BY <1>4 DEF advancedVars
  <2>2. PICK s : s = advanced
    OBVIOUS
  <2>3. Sound(s)'
    BY <2>2, SoundKept DEF AdvancedInv
  <2>4. Sound(advanced)'
    BY <2>1, <2>2, <2>3 DEF Sound, SoundHost, Pure, Succeeded
  <2>5. Inside' <=> Inside
    BY <1>1, <2>1 DEF Inside, PassesStackCheck
  <2> QED
    BY <1>1, <2>1, <2>4, <2>5 DEF AdvancedInv, Succeeded
<1> QED
  BY <1>2, <1>3, <1>4

LEMMA InitInv == Init => ExecutionInv
BY InitAnalysesInv DEF Init, ExecutionInv

\* Every step keeps the invariant, and every step of Baseline that lets it go
\* on costs gas.
LEMMA ExecuteInv ==
    ASSUME ExecutionInv, Execute
    PROVE  /\ ExecutionInv'
           /\ BaselineRunning /\ BaselineRunning' /\ baselineVars' # baselineVars
                => baseline'.gas_left < baseline.gas_left
<1>1. /\ started /\ started' = started /\ ContextKept
      /\ UNCHANGED <<analysisVars, code, rev>>
  BY DEF Execute, ContextKept
<1>2. /\ AnalysesInv /\ analyzed /\ prepared /\ Context_
      /\ BaselineInv /\ AdvancedInv
  BY <1>1 DEF ExecutionInv
<1>3. AnalysesInv'
  BY <1>1, <1>2, AnalyzeCodeStep
<1>4. analyzed' /\ prepared'
  BY <1>1, <1>2 DEF analysisVars, advancedAnalysisVars, baselineAnalysisVars
<1>5. BaselineStep => /\ BaselineInv'
                      /\ code_it' # NoPosition
                           => baseline'.gas_left < baseline.gas_left
  BY <1>1, <1>2, BaselineStepGoes
<1>6. AdvancedStep => AdvancedInv'
  BY <1>1, <1>2, AdvancedStepInv
<1>7. /\ Context_'
      /\ UNCHANGED baselineVars => BaselineInv'
      /\ UNCHANGED advancedVars => AdvancedInv'
  BY <1>1, <1>2, StutterInv
<1>8. /\ BaselineStep \/ UNCHANGED baselineVars
      /\ AdvancedStep \/ UNCHANGED advancedVars
  BY DEF Execute, StepBoth, StepAdvanced, StepBaseline
<1>9. ExecutionInv'
  <2>1. BaselineInv' /\ AdvancedInv'
    BY <1>5, <1>6, <1>7, <1>8
  <2>2. started' \in BOOLEAN
    BY <1>1 DEF ExecutionInv
  <2> QED
    BY <1>3, <1>4, <1>7, <2>1, <2>2 DEF ExecutionInv
<1> QED
  BY <1>5, <1>8, <1>9 DEF BaselineRunning

LEMMA NextInv == ExecutionInv /\ [Next]_vars => ExecutionInv'
<1> SUFFICES ASSUME ExecutionInv, [Next]_vars
             PROVE  ExecutionInv'
  OBVIOUS
<1>1. AnalysesInv /\ started \in BOOLEAN
  BY DEF ExecutionInv
<1>2. CASE Analyze
  <2>1. ~started
    BY <1>2, AnalyzeOnlyBefore DEF Analyze, ExecutionInv
  <2>2. AnalysesInv' /\ started' = started
    BY <1>1, <1>2, AnalyzeCodeStep DEF Analyze, executionVars
  <2> QED
    BY <1>1, <2>1, <2>2 DEF ExecutionInv
<1>3. CASE Start
  <2>1. AnalysesInv'
    BY <1>1, <1>3, AnalyzeCodeStep DEF Start
  <2>2. analyzed' /\ prepared' /\ started' = TRUE
    BY <1>3 DEF Start, analysisVars, advancedAnalysisVars,
                baselineAnalysisVars
  <2>3. Context_' /\ BaselineInv' /\ AdvancedInv'
    BY <1>1, <1>3, StartInv
  <2> QED
    BY <2>1, <2>2, <2>3 DEF ExecutionInv
<1>4. CASE Execute
  BY <1>4, ExecuteInv
<1>5. CASE UNCHANGED vars
  <2>1. /\ UNCHANGED <<analysisVars, code, rev>> /\ ContextKept
        /\ UNCHANGED baselineVars /\ UNCHANGED advancedVars
        /\ UNCHANGED started
    BY <1>5 DEF vars, executionVars, ContextKept
  <2>2. AnalysesInv'
    BY <1>1, <2>1, AnalyzeCodeStep
  <2>3. started => Context_' /\ BaselineInv' /\ AdvancedInv'
    BY <1>1, <2>1, StutterInv DEF ExecutionInv
  <2>4. analyzed' = analyzed /\ prepared' = prepared
    BY <2>1 DEF analysisVars, advancedAnalysisVars, baselineAnalysisVars
  <2> QED
    BY <2>1, <2>2, <2>3, <2>4 DEF ExecutionInv
<1> QED
  BY <1>2, <1>3, <1>4, <1>5 DEF Next

\* The inductive invariant of an execution holds in every state.
THEOREM ExecutionsSound == Spec => []ExecutionInv
BY InitInv, NextInv, PTL DEF Spec

-----------------------------------------------------------------------------
(***************************************************************************)
(* The theorems.                                                           *)
(***************************************************************************)
LEMMA SoundIsValid ==
    ASSUME NEW s, Sound(s)
    PROVE  ValidState(s)
<1>1. /\ s.stack \in Seq(Word) /\ s.memory \in Seq(Byte)
      /\ s.gas_left \in Int /\ Len(s.memory) % WordSize = 0
      /\ s.output_offset \in Nat /\ s.output_size \in Nat
  BY DEF Sound
<1>2. \A n \in 1..Len(s.stack) : s.stack[n] \in Word
  BY <1>1
<1>3. \A n \in 1..Len(s.memory) : s.memory[n] \in Byte
  BY <1>1
<1> QED
  BY <1>1, <1>2, <1>3 DEF ValidState

LEMMA InvTypeOK == ExecutionInv => TypeOK
<1> SUFFICES ASSUME ExecutionInv, started
             PROVE  /\ ValidState(advanced) /\ ValidState(baseline)
                    /\ instr_it \in 0..Len(instrs)
                    /\ current_block_cost \in 0..BlockGasMax
  BY DEF TypeOK
<1>1. BaselineInv /\ AdvancedInv
  BY DEF ExecutionInv
<1>2. Sound(advanced) /\ Sound(baseline)
  BY <1>1 DEF BaselineInv, AdvancedInv
<1> QED
  BY <1>1, <1>2, SoundIsValid DEF AdvancedInv

LEMMA InvNoFault == ExecutionInv => NoFault
BY DEF ExecutionInv, BaselineInv, AdvancedInv, Sound, NoFault

LEMMA InvPaddingNotExecuted == ExecutionInv => PaddingNotExecuted
<1> SUFFICES ASSUME ExecutionInv, started, code_it # NoPosition
             PROVE  code_it \in 0..Len(code) \cup {scan_pos}
  BY DEF PaddingNotExecuted, BaselineRunning
<1>1. AnalysesInv /\ analyzed /\ prepared /\ BaselineInv
  BY DEF ExecutionInv
<1>2. Boundary(code_it) \/ code_it = scan_pos
  BY <1>1 DEF BaselineInv
<1> QED
  BY <1>1, <1>2, Fetch

LEMMA InvStaticModeRespected == ExecutionInv => StaticModeRespected
<1> SUFFICES ASSUME ExecutionInv, started, msg.static,
                    NEW s \in {advanced, baseline}
             PROVE  /\ s.host.storage = env.storage
                    /\ \A n \in 1..Len(s.host.effects) :
                         StaticCall(s.host.effects[n])
  BY DEF StaticModeRespected, StaticCall
<1>1. Sound(s)
  BY DEF ExecutionInv, BaselineInv, AdvancedInv
<1> QED
  BY <1>1 DEF Sound, SoundHost, Pure

\* The execution states of both interpreters keep their types: the stack holds
\* words, the memory bytes and whole words of them, as Memory::grow asserts.
THEOREM StatesTyped == Spec => []TypeOK
BY ExecutionsSound, InvTypeOK, PTL

\* No instruction of either interpreter reads or writes outside of the stack
\* space and the memory, or reads past the return data: one check of the stack
\* per block, or per instruction, is enough, and so is the one of the offset
\* and size before each access to the memory and the return data.
THEOREM NothingOutOfBounds == Spec => []NoFault
BY ExecutionsSound, InvNoFault, PTL

\* The loop of Baseline never dispatches on the uninitialized bytes of the
\* padded code.
THEOREM PaddingNeverRuns == Spec => []PaddingNotExecuted
BY ExecutionsSound, InvPaddingNotExecuted, PTL

\* An execution in static mode changes nothing: neither sstore, log, create and
\* selfdestruct nor a CALL with value gets past the check of the message's flag,
\* and all calls are static.
THEOREM StaticModeHolds == Spec => []StaticModeRespected
BY ExecutionsSound, InvStaticModeRespected, PTL

\* An iteration of the loop of Baseline after which it goes on has taken gas.
LEMMA NextCosts ==
    ExecutionInv /\ [Next]_vars =>
        [BaselineRunning /\ BaselineRunning' /\ baselineVars' # baselineVars
           => baseline'.gas_left < baseline.gas_left]_vars
<1> SUFFICES ASSUME ExecutionInv, Next,
                    BaselineRunning, BaselineRunning',
                    baselineVars' # baselineVars
             PROVE  baseline'.gas_left < baseline.gas_left
  OBVIOUS
<1>1. CASE Analyze
  BY <1>1 DEF Analyze, executionVars
<1>2. CASE Start
  BY <1>2 DEF Start, BaselineRunning
<1>3. CASE Execute
  BY <1>3, ExecuteInv
<1> QED
  BY <1>1, <1>2, <1>3 DEF Next

\* Every instruction that lets Baseline go on costs gas, whatever the callee or
\* the stipend gives back.
THEOREM GasRunsDown == Spec => EveryStepCosts
<1>1. Spec => []ExecutionInv
  BY ExecutionsSound
<1>2. Spec => [][Next]_vars
  BY PTL DEF Spec
<1> QED
  BY <1>1, <1>2, NextCosts, PTL DEF EveryStepCosts

-----------------------------------------------------------------------------
(***************************************************************************)
(* The return data after a call or create.                                 *)
(***************************************************************************)
Hosted(s) == /\ s = [f \in Fields |-> s[f]]
             /\ s.host = [f \in HostFields |-> s.host[f]]

\* From s to t the host has not been called nor told of a log.
Quiet(s, t) == Hosted(t) /\ t.host.effects = s.host.effects

LEMMA QuietParts ==
    ASSUME NEW s, Hosted(s)
    PROVE  /\ \A x : Quiet(s, Push(s, x))
           /\ \A n : Quiet(s, Drop(s, n))
           /\ \A c : Quiet(s, Fail(s, c))
           /\ \A c : Quiet(s, Charge(s, c))
           /\ \A a : Quiet(s, access_account(s, a))
           /\ \A o, n : Quiet(s, TouchMemory(s, o, n))
           /\ \A g : Quiet(s, [s EXCEPT !.gas_left = g])
           /\ \A g : Quiet(s, [s EXCEPT !.memory = g])
           /\ Quiet(s, ReturnDataCleared(s))
           /\ ReturnDataCleared(s).return_data = << >>
<1>1. \A x : Quiet(s, Push(s, x))
  BY DEF Hosted, Quiet, Push, Fields
<1>2. \A n : Quiet(s, Drop(s, n))
  BY DEF Hosted, Quiet, Drop, Needs, Fields
<1>3. \A c : Quiet(s, Fail(s, c))
  BY DEF Hosted, Quiet, Fail, Fields
<1>4. \A g : Quiet(s, [s EXCEPT !.gas_left = g])
  BY DEF Hosted, Quiet, Fields
<1>5. \A c : Quiet(s, Charge(s, c))
  BY DEF Hosted, Quiet, Charge, Fail, Fields
<1>6. \A a : Quiet(s, access_account(s, a))
  BY DEF Hosted, Quiet, access_account, Fields, HostFields
<1>7. \A o, n : Quiet(s, TouchMemory(s, o, n))
  <2>1. ASSUME NEW v PROVE Quiet(s, [s EXCEPT !.fault = v])
    BY DEF Hosted, Quiet, Fields
  <2> QED
    BY <2>1 DEF TouchMemory
<1>8. \A g : Quiet(s, [s EXCEPT !.memory = g])
  BY DEF Hosted, Quiet, Fields
<1>9. Quiet(s, ReturnDataCleared(s)) /\ ReturnDataCleared(s).return_data = << >>
  BY DEF Hosted, Quiet, ReturnDataCleared, Fields
<1> QED
  BY <1>1, <1>2, <1>3, <1>4, <1>5, <1>6, <1>7, <1>8, <1>9

LEMMA QuietThen ==
    ASSUME NEW s, NEW t, NEW u, Quiet(s, t), Hosted(t) => Quiet(t, u)
    PROVE  Quiet(s, u)
BY DEF Quiet

LEMMA QuietMemory ==
    ASSUME NEW s, Hosted(s), NEW offset, NEW size
    PROVE  Quiet(s, check_memory(s, offset, size))
<1>1. Quiet(s, s)
  BY DEF Quiet
<1>2. Quiet(s, Fail(s, "OUT_OF_GAS"))
  BY QuietParts
<1>3. Quiet(s, grow_memory(s, offset + size))
  <2> DEFINE words == num_words(offset + size)
             c == MemoryCost(words) - MemoryCost(Len(s.memory) \div WordSize)
             t == Charge(s, c)
             g == [k \in 1..words * WordSize |->
                     IF k <= Len(t.memory) THEN t.memory[k] ELSE 0]
  <2>1. grow_memory(s, offset + size)
          = IF Succeeded(t) THEN [t EXCEPT !.memory = g] ELSE t
    BY DEF grow_memory, Then
  <2>2. Quiet(s, t)
    BY QuietParts
  <2> HIDE DEF t, g
  <2>3. Hosted(t) => Quiet(t, [t EXCEPT !.memory = g])
    BY QuietParts
  <2> QED
    BY <2>1, <2>2, <2>3, QuietThen
<1> QED
  BY <1>1, <1>2, <1>3 DEF check_memory, check_memory_small

\* What a call or create has done before it calls the host, or returns
\* without.
Leaves(s, r) ==
    /\ ~r.calls /\ Succeeded(r.state)
         => Quiet(s, r.state) /\ r.state.return_data = << >>
    /\ r.calls => /\ Hosted(r.state)
                  /\ r.state.host.effects = Append(s.host.effects, r.message)

LEMMA NoCallLeaves ==
    ASSUME NEW s, NEW u,
           Succeeded(u) => Quiet(s, u) /\ u.return_data = << >>
    PROVE  Leaves(s, NoCall(u))
BY DEF Leaves, NoCall

LEMMA RequestLeaves ==
    ASSUME NEW s, NEW t, Quiet(s, t), NEW m, NEW offset, NEW size
    PROVE  Leaves(s, Request(t, m, offset, size))
<1>1. /\ Hosted(Effect(t, m))
      /\ Effect(t, m).host.effects = Append(t.host.effects, m)
  BY DEF Quiet, Hosted, Effect, Fields, HostFields
<1> QED
  BY <1>1 DEF Leaves, Request, Quiet

LEMMA CallLeaves ==
    ASSUME NEW s, Hosted(s), NEW Kind, NEW Static, NEW r,
           r = call_request(s, Kind, Static)
    PROVE  Leaves(s, r)
<1> DEFINE n == IF Static \/ Kind = "DELEGATECALL" THEN 2 ELSE 3
           no_value == Static \/ Kind = "DELEGATECALL"
           requested == SmallerOf(Item(s, 0), Int64Max)
           dst == trunc_address(Item(s, 1))
           value == IF no_value THEN 0 ELSE Item(s, 2)
           has_value == value # 0
           io == Item(s, n)
           is == Item(s, n + 1)
           oo == Item(s, n + 2)
           os == Item(s, n + 3)
           d == Drop(s, n + 4)
           e == Push(d, 0)
           x == access_account(e, dst)
           y == Charge(x, additional_cold_account_access_cost)
           a == ChargeColdAccount(Replace(s, n + 4, 0), dst,
                                  additional_cold_account_access_cost)
           b == IF Succeeded(a) THEN check_memory(a, io, is) ELSE a
           w == IF Succeeded(b) THEN check_memory(b, oo, os) ELSE b
           cost == CallCost(Kind, has_value, dst)
           forbidden == Kind = "CALL" /\ has_value /\ msg.static
           p == IF Succeeded(w)
                THEN IF forbidden THEN Fail(w, "STATIC_MODE_VIOLATION")
                     ELSE Charge(w, cost)
                ELSE w
           f == IF Succeeded(p)
                THEN IF rev < REV.TANGERINE_WHISTLE /\ requested > p.gas_left
                     THEN Fail(p, "OUT_OF_GAS") ELSE p
                ELSE p
           stipend == IF has_value THEN call_stipend ELSE 0
           g == [f EXCEPT !.gas_left = @ + stipend]
           ready == ReturnDataCleared(g)
           m == [kind |-> Kind, static |-> CalleeStatic(Static),
                 depth |-> msg.depth + 1,
                 recipient |-> IF Kind = "CALL" THEN dst ELSE msg.recipient,
                 code_address |-> dst,
                 sender |-> IF Kind = "DELEGATECALL" THEN msg.sender
                            ELSE msg.recipient,
                 value |-> IF Kind = "DELEGATECALL" THEN msg.value ELSE value,
                 input |-> ReadMemory(ready, size_t(io), is),
                 gas |-> CallGas(requested, f.gas_left) + stipend]
           t == TouchMemory(ready, size_t(io), is)
<1>1. r = IF ~Succeeded(f) THEN NoCall(f)
          ELSE IF IsRefused(value) THEN NoCall(ready)
          ELSE Request(t, m, size_t(oo), os)
  BY DEF call_request, Then
<1>2. a = IF rev < REV.BERLIN THEN e
          ELSE IF IsColdAccount(e, dst) THEN y ELSE e
  BY DEF ChargeColdAccount, Replace
<1> HIDE DEF n, m, value, requested, dst, io, is, oo, os, stipend, cost,
             forbidden
<1>3. Quiet(s, a)
  <2>1. Quiet(s, d) /\ Hosted(d)
    BY QuietParts DEF Quiet
  <2> HIDE DEF d
  <2>2. Quiet(d, e)
    BY <2>1, QuietParts
  <2>3. Quiet(s, e) /\ Hosted(e)
    BY <2>1, <2>2, QuietThen DEF Quiet
  <2> HIDE DEF e
  <2>4. Quiet(e, x)
    BY <2>3, QuietParts
  <2>5. Quiet(s, x) /\ Hosted(x)
    BY <2>3, <2>4, QuietThen DEF Quiet
  <2> HIDE DEF x, a
  <2>6. Quiet(x, y)
    BY <2>5, QuietParts
  <2>7. Quiet(s, y)
    BY <2>5, <2>6, QuietThen
  <2> HIDE DEF y
  <2> QED
    BY <1>2, <2>3, <2>7
<1> HIDE DEF a
<1>4. Quiet(s, b)
  <2>1. Hosted(a) => Quiet(a, check_memory(a, io, is))
    BY QuietMemory
  <2>2. Quiet(s, check_memory(a, io, is))
    BY <1>3, <2>1, QuietThen
  <2> QED
    BY <1>3, <2>2
<1> HIDE DEF b
<1>5. Quiet(s, w)
  <2>1. Hosted(b) => Quiet(b, check_memory(b, oo, os))
    BY QuietMemory
  <2>2. Quiet(s, check_memory(b, oo, os))
    BY <1>4, <2>1, QuietThen
  <2> QED
    BY <1>4, <2>2
<1> HIDE DEF w
<1>6. Quiet(s, p)
  <2>1. Hosted(w) => /\ Quiet(w, Fail(w, "STATIC_MODE_VIOLATION"))
                     /\ Quiet(w, Charge(w, cost))
    BY QuietParts
  <2>2. /\ Quiet(s, Fail(w, "STATIC_MODE_VIOLATION"))
        /\ Quiet(s, Charge(w, cost))
    BY <1>5, <2>1, QuietThen
  <2> QED
    BY <1>5, <2>2
<1> HIDE DEF p
<1>7. Quiet(s, f)
  <2>1. Hosted(p) => Quiet(p, Fail(p, "OUT_OF_GAS"))
    BY QuietParts
  <2>2. Quiet(s, Fail(p, "OUT_OF_GAS"))
    BY <1>6, <2>1, QuietThen
  <2> QED
    BY <1>6, <2>2
<1> HIDE DEF f
<1>8. Quiet(s, g)
  <2>1. Hosted(f) => Quiet(f, g)
    BY QuietParts
  <2> QED
    BY <1>7, <2>1, QuietThen
<1> HIDE DEF g
<1>9. Quiet(s, ready) /\ ready.return_data = << >> /\ Hosted(ready)
  <2>1. Hosted(g)
    BY <1>8 DEF Quiet
  <2>2. Quiet(g, ready) /\ ready.return_data = << >>
    BY <2>1, QuietParts
  <2> QED
    BY <1>8, <2>2, QuietThen DEF Quiet
<1> HIDE DEF ready
<1>10. Quiet(s, t)
  <2>1. Quiet(ready, t)
    BY <1>9, QuietParts
  <2> QED
    BY <1>9, <2>1, QuietThen
<1> HIDE DEF t
<1>11. ~Succeeded(f) => Leaves(s, NoCall(f))
  BY NoCallLeaves
<1>12. Leaves(s, NoCall(ready))
  BY <1>9, NoCallLeaves
<1>13. Leaves(s, Request(t, m, size_t(oo), os))
  BY <1>10, RequestLeaves
<1> QED
  BY <1>1, <1>11, <1>12, <1>13

LEMMA CreateLeaves ==
    ASSUME NEW s, Hosted(s), NEW Kind, NEW r, r = create_request(s, Kind)
    PROVE  Leaves(s, r)
<1> DEFINE endowment == Item(s, 0)
           io == Item(s, 1)
           is == Item(s, 2)
           salt == IF Kind = "CREATE2" THEN Item(s, 3) ELSE 0
           cost == IF Kind = "CREATE2" THEN num_words(is) * 6 ELSE 0
           items == IF Kind = "CREATE2" THEN 1 ELSE 0
           d == Drop(s, 3)
           c == check_memory(d, io, is)
           e == Drop(c, items)
           p == IF Succeeded(c) THEN Charge(e, cost) ELSE c
           q == Push(p, 0)
           ready == ReturnDataCleared(q)
           m == [kind |-> Kind, static |-> FALSE, depth |-> msg.depth + 1,
                 recipient |-> 0, code_address |-> 0,
                 sender |-> msg.recipient, value |-> endowment,
                 salt |-> salt, input |-> ReadMemory(ready, size_t(io), is),
                 gas |-> IF rev >= REV.TANGERINE_WHISTLE
                         THEN all_but_64th(ready.gas_left)
                         ELSE ready.gas_left]
           t == TouchMemory(ready, size_t(io), is)
           z == Fail(s, "STATIC_MODE_VIOLATION")
<1>1. r = IF msg.static THEN NoCall(z)
          ELSE IF ~Succeeded(p) THEN NoCall(p)
          ELSE IF IsRefused(endowment) THEN NoCall(ready)
          ELSE Request(t, m, 0, 0)
  BY DEF create_request, Then
<1>2. ~Succeeded(z)
  BY DEF Hosted, Fail, Succeeded, Fields
<1> HIDE DEF z, m, endowment, io, is, salt, cost, items
<1>3. Quiet(s, d) /\ Hosted(d)
  BY QuietParts DEF Quiet
<1> HIDE DEF d
<1>4. Quiet(s, c) /\ Hosted(c)
  <2>1. Quiet(d, c)
    BY <1>3, QuietMemory
  <2> QED
    BY <1>3, <2>1, QuietThen DEF Quiet
<1> HIDE DEF c
<1>5. Quiet(s, e) /\ Hosted(e)
  <2>1. Quiet(c, e)
    BY <1>4, QuietParts
  <2> QED
    BY <1>4, <2>1, QuietThen DEF Quiet
<1> HIDE DEF e
<1>6. Quiet(s, p) /\ Hosted(p)
  <2>1. Quiet(e, Charge(e, cost))
    BY <1>5, QuietParts
  <2>2. Quiet(s, Charge(e, cost))
    BY <1>5, <2>1, QuietThen
  <2> QED
    BY <1>4, <2>2 DEF Quiet
<1> HIDE DEF p
<1>7. Quiet(s, q) /\ Hosted(q)
  <2>1. Quiet(p, q)
    BY <1>6, QuietParts
  <2> QED
    BY <1>6, <2>1, QuietThen DEF Quiet
<1> HIDE DEF q
<1>8. Quiet(s, ready) /\ ready.return_data = << >> /\ Hosted(ready)
  <2>1. Quiet(q, ready) /\ ready.return_data = << >>
    BY <1>7, QuietParts
  <2> QED
    BY <1>7, <2>1, QuietThen DEF Quiet
<1> HIDE DEF ready
<1>9. Quiet(s, t)
  <2>1. Quiet(ready, t)
    BY <1>8, QuietParts
  <2> QED
    BY <1>8, <2>1, QuietThen
<1> HIDE DEF t
<1>10. Leaves(s, NoCall(z)) /\ (~Succeeded(p) => Leaves(s, NoCall(p)))
  BY <1>2, NoCallLeaves
<1>11. Leaves(s, NoCall(ready))
  BY <1>8, NoCallLeaves
<1>12. Leaves(s, Request(t, m, 0, 0))
  BY <1>9, RequestLeaves
<1> QED
  BY <1>1, <1>10, <1>11, <1>12

\* A call or create that lets the execution go on.
LEMMA ReturnDataLeft ==
    ASSUME NEW op \in CallOps \cup CreateOps, NEW s, Sound(s), NEW u,
           u = CallOrCreate(op, s), Succeeded(u)
    PROVE  u.return_data = IF u.host.effects = s.host.effects THEN << >>
                           ELSE env.reply.output
<1>1. Hosted(s) /\ \E E : s.host.effects \in Seq(E)
  BY DEF Sound, SoundHost, Hosted
<1>2. PICK r : r = RequestOf(op, s)
  OBVIOUS
<1>3. Leaves(s, r)
  <2>1. op \in {OP.CALL, OP.CALLCODE, OP.DELEGATECALL, OP.STATICCALL,
                OP.CREATE, OP.CREATE2}
    BY DEF CallOps, CreateOps
  <2>2. CASE op = OP.CALL
    <3>1. r = call_request(s, "CALL", FALSE)
      BY <1>2, <2>2 DEF RequestOf, OP
    <3> QED
      BY <1>1, <3>1, CallLeaves
  <2>3. CASE op = OP.CALLCODE
    <3>1. r = call_request(s, "CALLCODE", FALSE)
      BY <1>2, <2>3 DEF RequestOf, OP
    <3> QED
      BY <1>1, <3>1, CallLeaves
  <2>4. CASE op = OP.DELEGATECALL
    <3>1. r = call_request(s, "DELEGATECALL", FALSE)
      BY <1>2, <2>4 DEF RequestOf, OP
    <3> QED
      BY <1>1, <3>1, CallLeaves
  <2>5. CASE op = OP.STATICCALL
    <3>1. r = call_request(s, "CALL", TRUE)
      BY <1>2, <2>5 DEF RequestOf, OP
    <3> QED
      BY <1>1, <3>1, CallLeaves
  <2>6. CASE op = OP.CREATE
    <3>1. r = create_request(s, "CREATE")
      BY <1>2, <2>6 DEF RequestOf, OP
    <3> QED
      BY <1>1, <3>1, CreateLeaves
  <2>7. CASE op = OP.CREATE2
    <3>1. r = create_request(s, "CREATE2")
      BY <1>2, <2>7 DEF RequestOf, OP
    <3> QED
      BY <1>1, <3>1, CreateLeaves
  <2> QED
    BY <2>1, <2>2, <2>3, <2>4, <2>5, <2>6, <2>7
<1>4. u = IF r.calls THEN Answered(op, r, call_result(r.message)) ELSE r.state
  BY <1>2 DEF CallOrCreate, AnsweredAtOnce
<1>5. CASE ~r.calls
  BY <1>3, <1>4, <1>5 DEF Leaves, Quiet
<1>6. CASE r.calls
  <2>1. Hosted(r.state)
        /\ r.state.host.effects = Append(s.host.effects, r.message)
    BY <1>3, <1>6 DEF Leaves
  <2>2. r.state.host.effects # s.host.effects
    BY <1>1, <2>1
  <2>3. PICK result : result = call_result(r.message)
    OBVIOUS
  <2>a. result.output = env.reply.output
    BY <2>3 DEF call_result
  <2>4. u \in {call_return(r, result), create_return(r, result)}
    BY <1>4, <1>6, <2>3 DEF Answered
  <2>5. CASE u = create_return(r, result)
    BY <2>1, <2>2, <2>a, <2>5 DEF create_return, Hosted, Fields
  <2>6. CASE u = call_return(r, result)
    <3> DEFINE truth == Truth(result.status_code = "SUCCESS")
               d == Replace(r.state, 1, truth)
               gas == d.gas_left - (r.message.gas - result.gas_left)
               e == [d EXCEPT !.return_data = result.output, !.gas_left = gas]
               out == SubSeq(result.output, 1,
                             SmallerOf(r.output_size, Len(result.output)))
    <3>1. u = WriteMemory(e, r.output_offset, out)
      BY <2>6 DEF call_return
    <3>2. Quiet(r.state, d)
      <4>1. PICK x : x = Drop(r.state, 1)
        OBVIOUS
      <4>2. Quiet(r.state, x) /\ Hosted(x)
        BY <2>1, <4>1, QuietParts DEF Quiet
      <4>3. Quiet(x, Push(x, truth))
        BY <4>2, QuietParts
      <4> QED
        BY <4>1, <4>2, <4>3, QuietThen DEF Replace
    <3> HIDE DEF d, gas, out
    <3>3. Quiet(r.state, e) /\ e.return_data = result.output
      BY <3>2 DEF Quiet, Hosted, Fields
    <3> HIDE DEF e
    <3>4. PICK x : x = TouchMemory(e, r.output_offset, Len(out))
      OBVIOUS
    <3>5. /\ x = [f \in Fields |-> x[f]] /\ x.host = e.host
          /\ x.return_data = e.return_data
      BY <3>3, <3>4 DEF TouchMemory, Quiet, Hosted, Fields
    <3>6. \A v : /\ [x EXCEPT !.memory = v].host = x.host
                 /\ [x EXCEPT !.memory = v].return_data = x.return_data
      BY <3>5 DEF Fields
    <3>7. \E v : u = [x EXCEPT !.memory = v]
      BY <3>1, <3>4 DEF WriteMemory
    <3>8. u.host = e.host /\ u.return_data = e.return_data
      BY <3>5, <3>6, <3>7
    <3> QED
      BY <2>1, <2>2, <2>a, <3>3, <3>8 DEF Quiet
  <2> QED
    BY <2>4, <2>5, <2>6
<1> QED
  BY <1>5, <1>6

\* A call or create of Baseline after which its loop goes on.
LEMMA BaselineReturnData ==
    ASSUME AnalysesInv, analyzed, prepared, Context_, BaselineInv,
           BaselineStep, code_it' # NoPosition,
           padded_code[code_it] \in CallOps \cup CreateOps
    PROVE  baseline'.return_data =
             IF baseline'.host.effects = baseline.host.effects THEN << >>
             ELSE env.reply.output
<1>1. PICK op : op = padded_code[code_it]
  OBVIOUS
<1>2. PICK c : c = check_requirements(BaselineTable[rev][op], baseline)
  OBVIOUS
<1>3. PICK next : /\ next = Iteration(op, baseline, code_it)
                  /\ baseline' = next.state /\ code_it' = next.pos
  BY <1>1 DEF BaselineStep
<1>4. /\ Sound(baseline) /\ Succeeded(baseline) /\ OnPath(code_it)
      /\ rev \in Revisions
  BY DEF BaselineStep, BaselineInv, OnPath, Context_
<1>5. /\ op \in Byte
      /\ \/ op = OP.STOP
         \/ /\ code_it \in 0..Len(code) - 1 /\ op = OpAt(code_it)
            /\ \E k \in 1..Len(at) - 1 :
                 /\ at[k].offset = code_it /\ OfCode(at[k])
                 /\ Translated(instrs[k], at[k], k, push_values)
  BY <1>1, <1>4, Fetch DEF OnPath
<1>6. StackTraits(op)[1] <= StackLimit
  BY <1>5, RequirementsMet DEF AnalysesInv
<1>7. /\ Runs(baseline, c, Len(baseline.stack))
      /\ Only(baseline, c, {"gas_left", "status"})
      /\ Succeeded(c) => op \in KnownOps
  BY <1>2, <1>4, <1>5, <1>6, RequirementsRuns
<1>8. next = IF Succeeded(c) THEN invoke(op, c, code_it) ELSE Exit(c)
  BY <1>2, <1>3 DEF Iteration, Run
<1>9. Succeeded(c)
  BY <1>3, <1>8 DEF Exit
<1>10. PICK u : u = CallOrCreate(op, c)
  OBVIOUS
<1>11. next = At(u, code_it + 1)
  BY <1>1, <1>7, <1>8, <1>9, <1>10, InvokeIs
<1>12. baseline' = u /\ Succeeded(u)
  BY <1>3, <1>11 DEF At
<1>13. Sound(c) /\ c.host = baseline.host
  BY <1>7 DEF Runs, Only, Fields
<1> QED
  BY <1>1, <1>10, <1>12, <1>13, ReturnDataLeft

LEMMA NextReturnData ==
    ExecutionInv /\ [Next]_vars =>
        [BaselineRunning /\ BaselineRunning' /\ baselineVars' # baselineVars
           /\ padded_code[code_it] \in CallOps \cup CreateOps
           => baseline'.return_data =
                IF baseline'.host.effects = baseline.host.effects THEN << >>
                ELSE env.reply.output]_vars
<1> SUFFICES ASSUME ExecutionInv, Next,
                    BaselineRunning, BaselineRunning',
                    baselineVars' # baselineVars,
                    padded_code[code_it] \in CallOps \cup CreateOps
             PROVE  baseline'.return_data =
                      IF baseline'.host.effects = baseline.host.effects
                      THEN << >> ELSE env.reply.output
  OBVIOUS
<1>1. CASE Analyze
  BY <1>1 DEF Analyze, executionVars
<1>2. CASE Start
  BY <1>2 DEF Start, BaselineRunning
<1>3. CASE Execute
  <2>1. BaselineStep /\ code_it' # NoPosition
    BY <1>3 DEF Execute, StepBoth, StepAdvanced, StepBaseline,
                BaselineRunning, baselineVars
  <2>2. /\ AnalysesInv /\ analyzed /\ prepared /\ Context_ /\ BaselineInv
    BY DEF ExecutionInv, BaselineRunning
  <2> QED
    BY <2>1, <2>2, BaselineReturnData
<1> QED
  BY <1>1, <1>2, <1>3 DEF Next

\* What RETURNDATASIZE and RETURNDATACOPY find after a call or create is what
\* that one left: the output of its callee, or nothing when the depth or the
\* balance kept the host from being called.  An earlier output never shows.
THEOREM ReturnDataFresh == Spec => ReturnDataOfThisCall
<1>1. Spec => []ExecutionInv
  BY ExecutionsSound
<1>2. Spec => [][Next]_vars
  BY PTL DEF Spec
<1> QED
  BY <1>1, <1>2, NextReturnData, PTL DEF ReturnDataOfThisCall

-----------------------------------------------------------------------------
(***************************************************************************)
(* The blocks of the table.                                                *)
(***************************************************************************)
\* An instruction continues the block of the one before it or begins a block.
LEMMA BlockFacts ==
    ASSUME AnalysesInv, analyzed
    PROVE  /\ Len(at) \in Nat /\ Len(at) > 0 /\ Len(at) = Len(instrs)
           /\ \A k \in 1..Len(at) : at[k] \in OriginType
           /\ \A k \in 1..Len(at) - 1 : Follows(at[k], at[k + 1], k + 1)
           /\ \A k \in 1..Len(at) : at[k].begin \in 1..k
           /\ \A k \in 1..Len(at) : at[at[k].begin].begin = at[k].begin
<1>1. AnalysisInv /\ TableInv
  BY DEF AnalysesInv
<1>2. /\ Len(at) \in Nat /\ Len(at) > 0 /\ Len(at) = Len(instrs)
  BY <1>1, TableFacts
<1>3. \A k \in 1..Len(at) : at[k] \in OriginType
  <2>1. at \in Seq(OriginType)
    BY <1>1 DEF AnalysisInv, AdvancedAnalysisTypeOK
  <2> QED
    BY <2>1
<1>4. \A k \in 1..Len(at) - 1 : Follows(at[k], at[k + 1], k + 1)
  <2>1. Chain(at)
    BY <1>1 DEF AnalysisInv, BlockInv, DoneInv
  <2> QED
    BY <2>1 DEF Chain
<1>5. at[1].begin = 1
  BY <1>1 DEF TableInv, Ordered
<1>6. ASSUME NEW k \in 1..Len(at), at[k].begin # k
      PROVE  /\ k - 1 \in 1..Len(at) /\ k # 1
             /\ at[k].begin = at[k - 1].begin
  <2>1. k # 1
    BY <1>5, <1>6
  <2>2. k - 1 \in 1..Len(at) - 1 /\ k - 1 + 1 = k
    BY <1>2, <2>1
  <2>3. Follows(at[k - 1], at[k - 1 + 1], k - 1 + 1)
    BY <1>4, <2>2
  <2> QED
    BY <1>2, <1>6, <2>1, <2>2, <2>3 DEF Follows
<1>7. \A k \in 1..Len(at) : at[k].begin \in 1..k
  <2> DEFINE S == {k \in 1..Len(at) : at[k].begin \notin 1..k}
  <2> SUFFICES ASSUME S # {}
               PROVE  FALSE
    OBVIOUS
  <2>1. S \in SUBSET Nat
    BY <1>2
  <2>2. PICK x \in S : \A y \in S : x <= y
    BY <2>1, LeastElement
  <2>3. x \in 1..Len(at) /\ x \in Nat /\ at[x].begin \notin 1..x
    BY <1>2, <2>2
  <2>4. at[x].begin # x
    BY <2>3
  <2>5. x - 1 \in 1..Len(at) /\ at[x].begin = at[x - 1].begin
    BY <1>6, <2>3, <2>4
  <2>6. x - 1 \notin S
    BY <2>2, <2>3
  <2>7. at[x - 1].begin \in 1..x - 1
    BY <2>5, <2>6
  <2> QED
    BY <2>3, <2>5, <2>7
<1>8. \A k \in 1..Len(at) : at[at[k].begin].begin = at[k].begin
  <2> DEFINE S == {k \in 1..Len(at) : at[at[k].begin].begin # at[k].begin}
  <2> SUFFICES ASSUME S # {}
               PROVE  FALSE
    OBVIOUS
  <2>1. S \in SUBSET Nat
    BY <1>2
  <2>2. PICK x \in S : \A y \in S : x <= y
    BY <2>1, LeastElement
  <2>3. /\ x \in 1..Len(at) /\ x \in Nat
        /\ at[at[x].begin].begin # at[x].begin
    BY <1>2, <2>2
  <2>4. at[x].begin # x
    BY <2>3
  <2>5. x - 1 \in 1..Len(at) /\ at[x].begin = at[x - 1].begin
    BY <1>6, <2>3, <2>4
  <2>6. x - 1 \notin S
    BY <2>2, <2>3
  <2> QED
    BY <2>3, <2>5, <2>6
<1> QED
  BY <1>2, <1>3, <1>4, <1>7, <1>8

\* The numbers of an entry.
LEMMA EntryFacts ==
    ASSUME AnalysesInv, analyzed, NEW k \in 1..Len(at)
    PROVE  /\ at[k].gas \in Nat /\ at[k].change \in Int
           /\ at[k].info.gas_cost \in Nat /\ at[k].info.stack_req \in Nat
           /\ at[k].info.stack_change \in Int
           /\ Cost(at[k]) \in Nat
           /\ Cost(at[k]) = at[k].gas + at[k].info.gas_cost
           /\ Height(at[k]) = at[k].change + at[k].info.stack_change
           /\ Cost(at[k]) >= at[k].gas
           /\ at[k].begin \in 1..Len(at)
<1>1. at[k] \in OriginType /\ at[k].begin \in 1..k /\ Len(at) \in Nat
  BY BlockFacts
<1>2. at[k].info \in op_table_entry /\ at[k].gas \in Nat /\ at[k].change \in Int
  BY <1>1 DEF OriginType
<1> DEFINE x == at[k].gas
           y == at[k].info.gas_cost
<1>3. x \in Nat /\ y \in Nat /\ Cost(at[k]) = x + y
  BY <1>2, EntryNumbers DEF Cost
<1> HIDE DEF x, y
<1>4. Cost(at[k]) >= x /\ Cost(at[k]) \in Nat
  BY <1>3
<1> QED
  BY <1>1, <1>2, <1>3, <1>4, EntryNumbers DEF Height, x, y

\* What follows the beginning of a block belongs to no block before it.
LEMMA BlockAfter ==
    ASSUME AnalysesInv, analyzed, NEW k \in 1..Len(at) - 1,
           at[k + 1].begin = k + 1, NEW m \in k + 1..Len(at)
    PROVE  at[m].begin # at[k].begin
<1> DEFINE S == {i \in k + 1..Len(at) : at[i].begin <= k}
<1>1. /\ Len(at) \in Nat /\ k \in Nat
      /\ \A i \in 1..Len(at) - 1 : Follows(at[i], at[i + 1], i + 1)
      /\ \A i \in 1..Len(at) : at[i].begin \in 1..i
  BY BlockFacts
<1>2. S = {}
  <2> SUFFICES ASSUME S # {}
               PROVE  FALSE
    OBVIOUS
  <2>1. S \in SUBSET Nat
    BY <1>1
  <2>2. PICK x \in S : \A y \in S : x <= y
    BY <2>1, LeastElement
  <2>3. x \in k + 1..Len(at) /\ x \in Nat /\ at[x].begin <= k
    BY <1>1, <2>2
  <2>4. x # k + 1
    BY <1>1, <2>3
  <2>5. /\ x - 1 \in k + 1..Len(at) /\ x - 1 \in 1..Len(at) - 1
        /\ x - 1 + 1 = x
    BY <1>1, <2>3, <2>4
  <2>6. x - 1 \notin S
    BY <2>2, <2>3
  <2>7. at[x - 1].begin \in Nat /\ at[x - 1].begin > k
    BY <1>1, <2>5, <2>6
  <2>8. at[x].begin = x \/ at[x].begin = at[x - 1].begin
    <3>1. Follows(at[x - 1], at[x - 1 + 1], x - 1 + 1)
      BY <1>1, <2>5
    <3> QED
      BY <2>5, <3>1 DEF Follows
  <2> QED
    BY <1>1, <2>3, <2>7, <2>8
<1>3. m \notin S
  BY <1>2
<1>4. m \in 1..Len(at) /\ k \in 1..Len(at)
  BY <1>1
<1>5. at[m].begin \in Nat /\ at[m].begin > k
  BY <1>1, <1>3, <1>4
<1> QED
  BY <1>1, <1>4, <1>5

\* Within a block the costs add up.
LEMMA CostsGrow ==
    ASSUME AnalysesInv, analyzed, NEW m \in 1..Len(at), NEW j \in m + 1..Len(at),
           at[j].begin = at[m].begin
    PROVE  at[j].gas >= Cost(at[m])
<1> DEFINE S == {i \in m + 1..Len(at) : /\ at[i].begin = at[m].begin
                                        /\ ~(at[i].gas >= Cost(at[m]))}
<1>1. /\ Len(at) \in Nat /\ m \in Nat
      /\ \A i \in 1..Len(at) - 1 : Follows(at[i], at[i + 1], i + 1)
      /\ at[m].begin \in 1..m
  BY BlockFacts
<1>2. \A i \in 1..Len(at) : /\ at[i].gas \in Nat /\ Cost(at[i]) \in Nat
                            /\ Cost(at[i]) >= at[i].gas
  BY EntryFacts
<1> SUFFICES ASSUME S # {}
             PROVE  FALSE
  OBVIOUS
<1>3. S \in SUBSET Nat
  BY <1>1
<1>4. PICK x \in S : \A y \in S : x <= y
  BY <1>3, LeastElement
<1>5. /\ x \in m + 1..Len(at) /\ x \in Nat /\ at[x].begin = at[m].begin
      /\ ~(at[x].gas >= Cost(at[m]))
  BY <1>1, <1>4
<1>6. /\ x - 1 \in 1..Len(at) - 1 /\ x - 1 + 1 = x /\ x - 1 \in m..Len(at)
      /\ x - 1 \in 1..Len(at)
  BY <1>1, <1>5
<1>7. at[x].begin = at[x - 1].begin /\ at[x].gas = Cost(at[x - 1])
  <2>1. Follows(at[x - 1], at[x - 1 + 1], x - 1 + 1)
    BY <1>1, <1>6
  <2>2. at[x].begin # x
    BY <1>1, <1>5
  <2> QED
    BY <1>6, <2>1, <2>2 DEF Follows
<1>8. CASE x - 1 = m
  BY <1>2, <1>5, <1>7, <1>8
<1>9. CASE x - 1 # m
  <2>1. x - 1 \in m + 1..Len(at)
    BY <1>1, <1>6, <1>9
  <2>2. x - 1 \notin S
    BY <1>4, <1>5
  <2>3. at[x - 1].gas >= Cost(at[m])
    BY <1>5, <1>7, <2>1, <2>2
  <2>4. /\ at[x - 1].gas \in Nat /\ Cost(at[x - 1]) \in Nat /\ Cost(at[m]) \in Nat
        /\ Cost(at[x - 1]) >= at[x - 1].gas
    BY <1>2, <1>6
  <2> QED
    BY <1>5, <1>7, <2>3, <2>4
<1> QED
  BY <1>8, <1>9

\* The last instruction of the block of entry k.
LastOfBlock(k) == k = Len(at) \/ at[k + 1].begin = k + 1

\* A block is charged for what it costs up to its last instruction.
LEMMA BlockCost ==
    ASSUME AnalysesInv, analyzed, NEW k \in 1..Len(at)
    PROVE  LET cost == instrs[at[k].begin].block.gas_cost
           IN  /\ cost \in Nat /\ Cost(at[k]) <= cost
               /\ LastOfBlock(k) => Cost(at[k]) = cost
<1> DEFINE b == at[k].begin
           cost == instrs[b].block.gas_cost
<1>1. AnalysisInv /\ TableInv
  BY DEF AnalysesInv
<1>2. /\ Len(at) \in Nat /\ Len(at) = Len(instrs) /\ b \in 1..k
      /\ at[b].begin = b /\ b \in 1..Len(instrs) /\ k \in 1..Len(instrs)
  <2>1. /\ Len(at) \in Nat /\ Len(at) = Len(instrs) /\ b \in 1..k
        /\ at[b].begin = b
    BY BlockFacts
  <2> QED
    BY <2>1
<1>3. b \in ClosedBlocks /\ k \in Members(b)
  BY <1>2 DEF ClosedBlocks, Members
<1>4. /\ \A m \in Members(b) : Cost(at[m]) <= cost
      /\ \E m \in Members(b) : Cost(at[m]) = cost
  <2>1. BlockGasExact
    BY <1>1, BlockGasFromInv
  <2>2. Len(code) <= max_code_size
    BY <1>1, TableFacts, CodeSizeAssumption
  <2> QED
    BY <1>3, <2>1, <2>2 DEF BlockGasExact, Cost
<1>5. PICK m \in Members(b) : Cost(at[m]) = cost
  BY <1>4
<1>6. m \in 1..Len(at) /\ at[m].begin = b
  BY <1>2, <1>5 DEF Members
<1>7. Cost(at[m]) \in Nat /\ Cost(at[k]) \in Nat /\ at[k].gas \in Nat
      /\ Cost(at[k]) >= at[k].gas
  BY <1>6, EntryFacts
<1>8. cost \in Nat /\ Cost(at[k]) <= cost
  BY <1>3, <1>4, <1>5, <1>7
<1>9. ASSUME LastOfBlock(k)
      PROVE  Cost(at[k]) = cost
  <2>1. m <= k
    <3>1. CASE k = Len(at)
      BY <1>2, <1>6, <3>1
    <3>2. CASE k # Len(at)
      <4>1. k \in 1..Len(at) - 1 /\ at[k + 1].begin = k + 1
        BY <1>2, <1>9, <3>2 DEF LastOfBlock
      <4>2. m \notin k + 1..Len(at)
        BY <1>6, <4>1, BlockAfter
      <4> QED
        BY <1>2, <1>6, <4>2
    <3> QED
      BY <3>1, <3>2
  <2>2. CASE m = k
    BY <1>5, <2>2
  <2>3. CASE m # k
    <3>1. k \in m + 1..Len(at)
      BY <1>2, <1>6, <2>1, <2>3
    <3>2. at[k].gas >= Cost(at[m])
      BY <1>6, <3>1, CostsGrow
    <3> QED
      BY <1>5, <1>7, <1>8, <3>2
  <2> QED
    BY <2>2, <2>3
<1> QED
  BY <1>8, <1>9

-----------------------------------------------------------------------------
(***************************************************************************)
(* Both interpreters side by side.                                         *)
(***************************************************************************)
Failed(s) == s.status \notin {"SUCCESS", "REVERT"}

\* With this gas and height before entry k, its block cannot be run to its end:
\* the gas does not last, or an instruction from k on fails its stack check.
Short(k, gas, height) ==
    LET b == at[k].begin
    IN  \/ gas < instrs[b].block.gas_cost - at[k].gas
        \/ \E m \in k..Len(at) : /\ at[m].begin = b
                                 /\ ~RunsWithin(m, height - at[k].change)

\* The interpreters are at the same instruction in the same state, but for the
\* gas Advanced was charged ahead.
Together == /\ code_it = at[instr_it].offset
            /\ baseline = More(advanced, ChargedAhead)

\* They have run a PUSH that the end of the code cuts off. Its value may
\* differ, and there is nothing left to run but STOP.
CutOff ==
    /\ code_it = scan_pos /\ scan_pos > Len(code)
    /\ at[instr_it].offset = Len(code)
    /\ ChargedAhead = 0
    /\ Only(advanced, baseline, {"stack"})
    /\ Drop(advanced, 1).stack = Drop(baseline, 1).stack

\* Advanced has failed at the beginning of a block or in its middle, and
\* Baseline is on its way to the failure in the same block.
Alone ==
    /\ Failed(advanced)
    /\ advanced.output_size = 0 /\ baseline.output_size = 0
    /\ \E k \in 1..Len(at) - 1 :
         /\ OfCode(at[k]) /\ code_it = at[k].offset
         /\ Short(k, baseline.gas_left, Len(baseline.stack))

\* Both have failed, or both give the same result.
Over ==
    \/ /\ Failed(advanced) /\ Failed(baseline)
       /\ advanced.output_size = 0 /\ baseline.output_size = 0
    \/ /\ ~Failed(advanced) /\ Result(advanced) = Result(baseline)
       /\ advanced.host = baseline.host

\* The invariant of both states together.
Joint ==
    /\ instr_it # 0 => /\ code_it # NoPosition /\ advanced.output_size = 0
                       /\ Together \/ CutOff
    /\ instr_it = 0 /\ code_it # NoPosition => Alone
    /\ instr_it = 0 /\ code_it = NoPosition => Over

JointInv == started => Joint

\* Running the instruction at entry k, one with the gas and the height for it
\* but short of what the block needs, leads on in the block, and is still short.
LEMMA ShortOn ==
    ASSUME AnalysesInv, analyzed, NEW k \in 1..Len(at), NEW gas \in Int,
           NEW height \in Int, Short(k, gas, height),
           height >= at[k].info.stack_req,
           height + at[k].info.stack_change <= StackLimit,
           NEW rest \in Nat, rest <= gas - at[k].info.gas_cost
    PROVE  /\ k + 1 \in 1..Len(at) /\ at[k + 1].begin = at[k].begin
           /\ Short(k + 1, rest, height + at[k].info.stack_change)
<1> DEFINE b == at[k].begin
           cost == instrs[b].block.gas_cost
           h == height - at[k].change
           up == height + at[k].info.stack_change
           g == at[k].gas
           i == at[k].info.gas_cost
           c == at[k].change
           e == at[k].info.stack_change
           n == at[k + 1].change
           q == at[k + 1].gas
<1>1. Len(at) \in Nat /\ k \in Nat
  BY BlockFacts
<1>2. /\ g \in Nat /\ i \in Nat /\ c \in Int /\ e \in Int
      /\ at[k].info.stack_req \in Nat
      /\ Cost(at[k]) = g + i /\ Height(at[k]) = c + e
  BY EntryFacts
<1>3. cost \in Nat /\ Cost(at[k]) <= cost
      /\ (LastOfBlock(k) => Cost(at[k]) = cost)
  BY BlockCost
<1>4. RunsWithin(k, h)
  <2>1. h + at[k].change = height
    BY <1>2
  <2> HIDE DEF h
  <2> QED
    BY <2>1 DEF RunsWithin
<1>5. \/ gas < cost - g
      \/ \E m \in k..Len(at) : at[m].begin = b /\ ~RunsWithin(m, h)
  BY DEF Short
<1> HIDE DEF b, cost, h, g, i
<1>6. ~LastOfBlock(k)
  <2> SUFFICES ASSUME LastOfBlock(k)
               PROVE  FALSE
    OBVIOUS
  <2>1. ~(gas < cost - g)
    <3>1. cost = g + i /\ rest <= gas - i
      BY <1>2, <1>3 DEF i
    <3> QED
      BY <1>2, <3>1
  <2>2. PICK m \in k..Len(at) : at[m].begin = b /\ ~RunsWithin(m, h)
    BY <1>5, <2>1
  <2>3. m # k
    BY <1>4, <2>2
  <2>4. m \in k + 1..Len(at) /\ k # Len(at)
    BY <1>1, <2>2, <2>3
  <2>5. k \in 1..Len(at) - 1 /\ at[k + 1].begin = k + 1
    BY <1>1, <2>4 DEF LastOfBlock
  <2> QED
    BY <2>2, <2>4, <2>5, BlockAfter DEF b
<1>7. k \in 1..Len(at) - 1 /\ k + 1 \in 1..Len(at) /\ at[k + 1].begin # k + 1
  BY <1>1, <1>6 DEF LastOfBlock
<1>8. /\ at[k + 1].begin = b /\ q = Cost(at[k]) /\ n = Height(at[k])
  <2>1. Follows(at[k], at[k + 1], k + 1)
    BY <1>7, BlockFacts
  <2> QED
    BY <1>7, <2>1 DEF Follows, b
<1> HIDE DEF c, e, n, q
<1>9. up - n = h
  <2>1. up = height + e /\ h = height - c /\ n = c + e
    BY <1>2, <1>8 DEF h, e, c
  <2> HIDE DEF up
  <2> QED
    BY <1>2, <2>1
<1> HIDE DEF up
<1>10. CASE gas < cost - g
  <2>1. rest < cost - q
    <3>1. rest <= gas - i /\ q = g + i
      BY <1>2, <1>8 DEF i
    <3>2. /\ g \in Int /\ i \in Int /\ cost \in Int /\ gas \in Int
          /\ rest \in Int /\ gas < cost - g
      BY <1>2, <1>3, <1>10
    <3> QED
      BY ONLY <3>1, <3>2
  <2> QED
    BY <1>7, <1>8, <2>1 DEF Short, up, cost, b, q
<1>11. ASSUME NEW m \in k..Len(at), at[m].begin = b, ~RunsWithin(m, h)
       PROVE  Short(k + 1, rest, up)
  <2>1. m # k
    BY <1>4, <1>11
  <2>2. m \in k + 1..Len(at)
    BY <1>1, <2>1
  <2>3. ~RunsWithin(m, up - at[k + 1].change)
    BY <1>9, <1>11 DEF n
  <2> QED
    BY <1>8, <1>11, <2>2, <2>3 DEF Short
<1> QED
  BY <1>5, <1>7, <1>8, <1>10, <1>11 DEF up, b

\* The last entry, a STOP, is never short of anything.
LEMMA ShortNotLast ==
    ASSUME AnalysesInv, analyzed, NEW gas \in Nat, NEW height \in Nat,
           height <= StackLimit
    PROVE  ~Short(Len(at), gas, height)
<1> DEFINE k == Len(at)
<1>1. AnalysisInv /\ TableInv
  BY DEF AnalysesInv
<1>2. k \in Nat /\ k > 0 /\ k = Len(instrs) /\ rev \in Revisions
  BY <1>1, TableFacts
<1>3. at[k].info = OpTable[rev][OP.STOP]
  BY <1>1, <1>2 DEF TableInv, Appended
<1>4. /\ at[k].info.gas_cost = 0 /\ at[k].info.stack_req = 0
      /\ at[k].info.stack_change = 0
  BY <1>2, <1>3, StopAssumption
<1>5. k \in 1..Len(at) /\ k + 1 \notin 1..Len(at)
  BY <1>2
<1>6. /\ height >= at[k].info.stack_req
      /\ height + at[k].info.stack_change <= StackLimit
      /\ gas <= gas - at[k].info.gas_cost
  BY <1>4, StackLimitAssumption
<1>7. gas \in Int /\ height \in Int
  OBVIOUS
<1> HIDE DEF k
<1>8. ~Short(k, gas, height)
  BY <1>5, <1>6, <1>7, ShortOn
<1> QED
  BY <1>8 DEF k

\* An entry that begins no block is an instruction of the code or the last one.
LEMMA NotBeginning ==
    ASSUME AnalysesInv, analyzed, NEW k \in 1..Len(at) - 1, at[k].begin # k
    PROVE  /\ Translated(instrs[k], at[k], k, push_values) /\ OfCode(at[k])
           /\ at[k].offset < Len(code)
<1>1. AnalysisInv /\ TableInv
  BY DEF AnalysesInv
<1>2. Len(at) = Len(instrs) /\ Len(at) \in Nat /\ k \in 1..Len(at)
  BY <1>1, TableFacts
<1>3. EntryOK(instrs[k], at[k], k, push_values)
  BY <1>1, <1>2 DEF TableInv, Entries
<1>4. Translated(instrs[k], at[k], k, push_values)
  BY <1>3 DEF EntryOK, Injected
<1> QED
  BY <1>1, <1>2, <1>4, TranslatedIsOfCode DEF Translated

\* The entry of an instruction of the code in both tables.
LEMMA TranslatedEntry ==
    ASSUME AnalysesInv, analyzed, NEW k \in 1..Len(at) - 1, OfCode(at[k]),
           NEW op, op = OpAt(at[k].offset), gas_costs[rev][op] \in Nat
    PROVE  /\ at[k].info.gas_cost = gas_costs[rev][op]
           /\ at[k].info.stack_req = StackTraits(op)[1]
           /\ at[k].info.stack_change = StackTraits(op)[2]
           /\ op \in Byte
<1>1. AnalysisInv /\ TableInv
  BY DEF AnalysesInv
<1>2. /\ rev \in Revisions /\ Len(code) \in Nat /\ k \in 1..Len(at)
      /\ at[k].offset \in Nat
      /\ \A n \in 0..Len(code) - 1 : OpAt(n) \in Byte
  BY <1>1, TableFacts
<1>3. Translated(instrs[k], at[k], k, push_values)
  BY <1>1, <1>2, OfCodeIsTranslated
<1>4. at[k].info = OpTable[rev][op] /\ at[k].offset < Len(code)
  BY <1>3 DEF Translated
<1>5. op \in Byte
  BY <1>2, <1>4
<1>6. gas_costs[rev][op] # undefined
  BY DEF undefined
<1> QED
  BY <1>2, <1>4, <1>5, <1>6, AdvancedEntry

LEMMA AtIs ==
    ASSUME NEW t, NEW pos \in Nat, NEW next, next = At(t, pos)
    PROVE  /\ next.state = t
           /\ next.pos = NoPosition <=> ~Succeeded(t)
           /\ next.pos # NoPosition => next.pos = pos
<1>1. next = [state |-> t, pos |-> IF Succeeded(t) THEN pos ELSE NoPosition]
  BY DEF At
<1>2. pos # NoPosition
  BY DEF NoPosition
<1> QED
  BY <1>1, <1>2

\* Where a push leads: to the next instruction of the code, or past its end.
LEMMA AfterPushed ==
    ASSUME AnalysesInv, analyzed, prepared, NEW k \in 1..Len(at) - 1,
           OfCode(at[k]), OpAt(at[k].offset) \in PushOps
    PROVE  LET pos == at[k].offset
               n == PushSize(OpAt(pos))
           IN  /\ pos \in Nat /\ n \in 1..32 /\ pos + n + 1 \in Nat
               /\ pos + n <= scan_pos
               /\ \/ /\ pos + n + 1 = at[k].next /\ pos + n + 1 <= Len(code)
                  \/ /\ pos + n + 1 = scan_pos /\ scan_pos > Len(code)
                     /\ at[k].next = Len(code)
<1> DEFINE pos == at[k].offset
           n == PushSize(OpAt(pos))
<1>1. AnalysisInv /\ TableInv
  BY DEF AnalysesInv
<1>2. /\ Len(code) \in Nat /\ k \in 1..Len(at) /\ pos \in Nat
      /\ \A j \in 1..Len(at) : at[j].offset \in Nat /\ at[j].next \in Nat
                               /\ at[j].offset <= at[j].next
                               /\ at[j].next <= Len(code)
  BY <1>1, TableFacts
<1>3. Translated(instrs[k], at[k], k, push_values)
  BY <1>1, <1>2, OfCodeIsTranslated
<1>4. n \in 1..32
  BY PushFacts
<1>5. at[k].next = Smaller(pos + 1 + n, Len(code))
  BY <1>3 DEF Translated, AfterAt
<1>6. /\ Boundary(pos + n + 1) \/ pos + n + 1 = scan_pos
      /\ pos + n <= scan_pos
  BY <1>3, NextPosition
<1> HIDE DEF pos, n
<1>7. n \in Nat /\ pos + n + 1 \in Nat /\ pos + 1 + n = pos + n + 1
  BY <1>2, <1>4
<1>8. CASE pos + n + 1 <= Len(code)
  <2>1. at[k].next = pos + n + 1
    BY <1>2, <1>5, <1>7, <1>8 DEF Smaller
  <2> QED
    BY <1>2, <1>4, <1>6, <1>7, <1>8, <2>1 DEF pos, n
<1>9. CASE pos + n + 1 > Len(code)
  <2>1. at[k].next = Len(code)
    BY <1>2, <1>5, <1>7, <1>9 DEF Smaller
  <2>2. ~Boundary(pos + n + 1)
    <3> SUFFICES ASSUME NEW j \in 1..Len(at), at[j].offset = pos + n + 1
                 PROVE  FALSE
      BY DEF Boundary
    <3>1. at[j].offset \in Nat /\ at[j].offset <= Len(code)
      BY <1>2
    <3> QED
      BY <1>2, <1>7, <1>9, <3>1
  <2> QED
    BY <1>2, <1>4, <1>6, <1>7, <1>9, <2>1, <2>2 DEF pos, n
<1> QED
  BY <1>2, <1>7, <1>8, <1>9

\* An instruction of the code that ends no block fails or leads on to the next.
LEMMA InvokeOnward ==
    ASSUME Context_, AnalysesInv, analyzed, prepared,
           NEW k \in 1..Len(at) - 1, OfCode(at[k]), NEW op \in KnownOps,
           op = OpAt(at[k].offset), op \notin Terminators, NEW s, Fits(op, s),
           NEW next, next = invoke(op, s, at[k].offset)
    PROVE  /\ Runs(s, next.state, HeightAfter(op, s))
           /\ next.pos = NoPosition <=> ~Succeeded(next.state)
           /\ next.pos # NoPosition =>
                \/ next.pos = at[k].next
                \/ at[k].next = Len(code) /\ op \in PushOps
<1> DEFINE pos == at[k].offset
<1>1. AnalysisInv /\ TableInv /\ Len(code) \in Nat /\ k \in 1..Len(at)
      /\ pos \in Nat
  BY TableFacts DEF AnalysesInv
<1>2. Translated(instrs[k], at[k], k, push_values) /\ pos < Len(code)
  BY <1>1, OfCodeIsTranslated DEF Translated
<1>3. op \notin PushOps => at[k].next = pos + 1
  BY <1>2, NextPosition
<1>4. /\ Sound(s) /\ Succeeded(s) /\ Len(s.stack) \in Nat
      /\ s.gas_left \in Int
  BY DEF Fits, Ready, Sound
<1> HIDE DEF pos
<1>5. pos + 1 \in Nat
  BY <1>1
<1>6. ASSUME NEW t, Runs(s, t, HeightAfter(op, s)), next = At(t, pos + 1),
             op \notin PushOps
      PROVE  /\ Runs(s, next.state, HeightAfter(op, s))
             /\ next.pos = NoPosition <=> ~Succeeded(next.state)
             /\ next.pos # NoPosition => next.pos = at[k].next
  BY <1>3, <1>5, <1>6, AtIs
<1>7. CASE op \in PushOps
  <2> DEFINE n == PushSize(op)
             x == be_load([j \in 1..n |-> padded_code[pos + j]])
  <2>1. next = At(Push(s, x), pos + n + 1)
    BY <1>7, InvokeIs DEF push, pos
  <2>2. /\ n \in 1..32 /\ pos + n + 1 \in Nat /\ pos + n <= scan_pos
        /\ \/ pos + n + 1 = at[k].next
           \/ at[k].next = Len(code)
    BY <1>7, AfterPushed DEF pos
  <2> HIDE DEF n
  <2>3. n \in Nat
    BY <2>2
  <2>4. x \in Word
    BY <1>1, <2>2, <2>3, PushedIsWord
  <2> HIDE DEF x
  <2>5. StackTraits(op) = <<0, 1>>
    BY <1>7, TraitsOf
  <2>6. /\ Ready(s, 0) /\ Len(s.stack) + 1 <= StackLimit
        /\ HeightAfter(op, s) = Len(s.stack) + 1
    BY <2>5, FitsAs
  <2>7. Runs(s, Push(s, x), HeightAfter(op, s))
    <3>1. Len(s.stack) < StackLimit
      BY <1>4, <2>6, StackLimitAssumption
    <3> QED
      BY <2>4, <2>6, <3>1, PushRuns
  <2> QED
    BY <1>7, <2>1, <2>2, <2>7, AtIs
<1>8. CASE op = OP.PC \/ op = OP.GAS
  <2>1. StackTraits(op) = <<0, 1>> /\ op \notin PushOps
    <3>1. op \notin PushOps
      BY <1>8, KindsApart
    <3> QED
      BY <1>8, <3>1, TraitsOf
  <2>2. /\ Ready(s, 0) /\ Len(s.stack) + 1 <= StackLimit
        /\ HeightAfter(op, s) = Len(s.stack) + 1
    BY <2>1, FitsAs
  <2>3. pos \in Word /\ s.gas_left \in Word
    <3>1. Len(code) < WordMod /\ WordMod \in Nat
      BY WordModFacts DEF Context_, IsBuffer, Word
    <3>2. pos \in Word
      BY <1>1, <1>2, <3>1 DEF Word, pos
    <3> QED
      BY <1>4, <3>2, SizesAreWords
  <2>4. Len(s.stack) < StackLimit
    BY <1>4, <2>2, StackLimitAssumption
  <2>5. /\ Runs(s, Push(s, pos), HeightAfter(op, s))
        /\ Runs(s, Push(s, s.gas_left), HeightAfter(op, s))
    BY <2>2, <2>3, <2>4, PushRuns
  <2>6. next = At(Push(s, pos), pos + 1)
        \/ next = At(Push(s, s.gas_left), pos + 1)
    BY <1>8, InvokeIs DEF pos
  <2> QED
    BY <1>6, <2>1, <2>5, <2>6
<1>9. CASE op = OP.JUMPDEST
  <2>1. op \notin PushOps
    BY <1>9 DEF PushOps, OP
  <2>2. StackTraits(op) = <<0, 0>>
    BY <1>9, TraitsOf
  <2>3. HeightAfter(op, s) = Len(s.stack) + 0
    BY <2>2, FitsAs
  <2>4. Runs(s, s, HeightAfter(op, s))
    BY <1>4, <2>3, RunsSame
  <2>5. next = At(s, pos + 1)
    BY <1>9, InvokeIs DEF pos
  <2> QED
    BY <1>6, <2>1, <2>4, <2>5
<1>10. CASE op = OP.SSTORE
  <2>1. StackTraits(op) = <<2, -2>>
    BY <1>10, TraitsOf
  <2>2. Ready(s, 2) /\ HeightAfter(op, s) = Len(s.stack) + (-2)
    BY <2>1, FitsAs
  <2>3. Runs(s, sstore(s), HeightAfter(op, s))
    <3>1. Runs(s, sstore(s), Len(s.stack) - 2)
      BY <2>2, SstoreRuns
    <3>2. Len(s.stack) + (-2) = Len(s.stack) - 2
      BY <1>4
    <3> QED
      BY <2>2, <3>1, <3>2
  <2>4. next = At(sstore(s), pos + 1)
    BY <1>10, InvokeIs DEF pos
  <2>5. op \notin PushOps
    BY <1>10 DEF PushOps, OP
  <2> QED
    BY <1>6, <2>3, <2>4, <2>5
<1>11. CASE op \in CallOps \cup CreateOps
  <2>1. op \notin PushOps
    BY <1>11, KindsApart
  <2>2. next = At(CallOrCreate(op, s), pos + 1)
    BY <1>11, InvokeIs DEF pos
  <2>3. Runs(s, CallOrCreate(op, s), HeightAfter(op, s))
    BY <1>11, CallOrCreateRuns
  <2> QED
    BY <1>6, <2>1, <2>2, <2>3
<1>12. CASE op = OP.INVALID
  <2>1. next = Exit(Fail(s, "INVALID_INSTRUCTION"))
    BY <1>12, InvokeIs DEF pos
  <2>2. next.state = Fail(s, "INVALID_INSTRUCTION") /\ next.pos = NoPosition
    BY <2>1 DEF Exit
  <2> QED
    BY <1>4, <2>2, FailRuns
<1>13. CASE op \in GenericOps
  <2>1. op \notin PushOps
    BY <1>13 DEF GenericOps
  <2>2. next = At(Generic(op, s), pos + 1)
    BY <1>13, InvokeIs DEF pos
  <2>3. Runs(s, Generic(op, s), HeightAfter(op, s))
    BY <1>13, GenericRuns
  <2> QED
    BY <1>6, <2>1, <2>2, <2>3
<1> QED
  BY <1>7, <1>8, <1>9, <1>10, <1>11, <1>12, <1>13 DEF GenericOps, Terminators

\* A failure to run leaves no output and is no revert.
LEMMA RunsFailed ==
    ASSUME NEW s, NEW t, NEW n, Runs(s, t, n)
    PROVE  /\ t.output_size = s.output_size
           /\ ~Succeeded(t) => Failed(t)
BY DEF Runs, Failed, Succeeded

\* What Baseline does at an instruction of the code.
LEMMA IterationOfCode ==
    ASSUME Context_, AnalysesInv, analyzed, prepared, BaselineInv, BaselineStep,
           NEW k \in 1..Len(at) - 1, OfCode(at[k]), code_it = at[k].offset,
           NEW op, op = OpAt(at[k].offset), NEW c,
           c = check_requirements(BaselineTable[rev][op], baseline)
    PROVE  /\ op \in Byte /\ code_it \in Nat
           /\ LET next == Iteration(op, baseline, code_it)
              IN  baseline' = next.state /\ code_it' = next.pos
           /\ Iteration(op, baseline, code_it)
                = IF Succeeded(c) THEN invoke(op, c, code_it) ELSE Exit(c)
           /\ Sound(baseline) /\ Succeeded(baseline)
           /\ Runs(baseline, c, Len(baseline.stack))
           /\ Only(baseline, c, {"gas_left", "status"})
           /\ Succeeded(c) =>
                /\ op \in KnownOps /\ Fits(op, c)
                /\ c.gas_left = baseline.gas_left - at[k].info.gas_cost
                /\ at[k].info.stack_req = StackTraits(op)[1]
                /\ at[k].info.stack_change = StackTraits(op)[2]
<1>1. AnalysisInv /\ TableInv /\ Len(code) \in Nat /\ k \in 1..Len(at)
      /\ at[k].offset \in Nat /\ rev \in Revisions
      /\ \A n \in 0..Len(code) - 1 : OpAt(n) \in Byte
  BY TableFacts DEF AnalysesInv
<1>2. at[k].offset < Len(code)
  BY <1>1, OfCodeIsTranslated DEF Translated
<1>3. code_it \in 0..Len(code) - 1 /\ code_it # NoPosition
  BY <1>1, <1>2 DEF NoPosition
<1>4. padded_code[code_it] = op
  BY <1>3 DEF AnalysesInv, PaddingInv, OpAt
<1>5. op \in Byte
  BY <1>1, <1>3
<1>6. Sound(baseline) /\ Succeeded(baseline)
  BY <1>3 DEF BaselineInv
<1>7. StackTraits(op)[1] <= StackLimit
  BY <1>1, <1>3, <1>5, RequirementsMet
<1>8. /\ Runs(baseline, c, Len(baseline.stack))
      /\ Only(baseline, c, {"gas_left", "status"})
      /\ Succeeded(c) => /\ gas_costs[rev][op] \in Nat /\ op \in KnownOps
                         /\ c.gas_left = baseline.gas_left - gas_costs[rev][op]
                         /\ Fits(op, c)
  BY <1>1, <1>5, <1>6, <1>7, RequirementsRuns
<1>9. Succeeded(c) => /\ at[k].info.gas_cost = gas_costs[rev][op]
                      /\ at[k].info.stack_req = StackTraits(op)[1]
                      /\ at[k].info.stack_change = StackTraits(op)[2]
  BY <1>8, TranslatedEntry
<1>10. LET next == Iteration(op, baseline, code_it)
       IN  baseline' = next.state /\ code_it' = next.pos
  BY <1>4 DEF BaselineStep
<1>11. Iteration(op, baseline, code_it)
         = IF Succeeded(c) THEN invoke(op, c, code_it) ELSE Exit(c)
  BY DEF Iteration, Run
<1> QED
  BY <1>1, <1>5, <1>6, <1>8, <1>9, <1>10, <1>11

\* Baseline, once Advanced has failed, stays in the block in which it must fail.
LEMMA ShortStep ==
    ASSUME Context_, AnalysesInv, analyzed, prepared, BaselineInv, BaselineStep,
           NEW k \in 1..Len(at) - 1, OfCode(at[k]), code_it = at[k].offset,
           Short(k, baseline.gas_left, Len(baseline.stack))
    PROVE  /\ baseline'.output_size = baseline.output_size
           /\ code_it' = NoPosition => Failed(baseline')
           /\ code_it' # NoPosition =>
                \E n \in 1..Len(at) - 1 :
                  /\ OfCode(at[n]) /\ code_it' = at[n].offset
                  /\ Short(n, baseline'.gas_left, Len(baseline'.stack))
<1>1. PICK op : op = OpAt(at[k].offset)
  OBVIOUS
<1>2. PICK c : c = check_requirements(BaselineTable[rev][op], baseline)
  OBVIOUS
<1>3. PICK next : next = Iteration(op, baseline, code_it)
  OBVIOUS
<1>4. /\ op \in Byte /\ code_it \in Nat
      /\ baseline' = next.state /\ code_it' = next.pos
      /\ next = IF Succeeded(c) THEN invoke(op, c, code_it) ELSE Exit(c)
      /\ Sound(baseline) /\ Succeeded(baseline)
      /\ Runs(baseline, c, Len(baseline.stack))
      /\ Only(baseline, c, {"gas_left", "status"})
      /\ Succeeded(c) =>
           /\ op \in KnownOps /\ Fits(op, c)
           /\ c.gas_left = baseline.gas_left - at[k].info.gas_cost
           /\ at[k].info.stack_req = StackTraits(op)[1]
           /\ at[k].info.stack_change = StackTraits(op)[2]
  BY <1>1, <1>2, <1>3, IterationOfCode
<1>5. CASE ~Succeeded(c)
  <2>1. next.state = c /\ next.pos = NoPosition
    BY <1>4, <1>5 DEF Exit
  <2> QED
    BY <1>4, <1>5, <2>1, RunsFailed
<1>6. CASE Succeeded(c)
  <2> DEFINE gas == baseline.gas_left
             height == Len(baseline.stack)
             cost == at[k].info.gas_cost
             change == at[k].info.stack_change
  <2>1. /\ next = invoke(op, c, at[k].offset) /\ op \in KnownOps /\ Fits(op, c)
        /\ c.stack = baseline.stack /\ c.output_size = baseline.output_size
    BY <1>4, <1>6 DEF Only, Fields
  <2>2. /\ gas \in Int /\ height \in Nat /\ height \in Int /\ cost \in Nat
        /\ change \in Int /\ k \in 1..Len(at) /\ Len(at) \in Nat
    <3>1. Len(at) \in Nat /\ k \in 1..Len(at)
      BY BlockFacts
    <3> QED
      BY <1>4, <3>1, EntryFacts DEF Sound
  <2>3. /\ height >= at[k].info.stack_req /\ height + change <= StackLimit
        /\ c.gas_left = gas - cost
        /\ HeightAfter(op, c) = height + change
        /\ c.gas_left \in Nat
    <3>1. Len(c.stack) >= StackTraits(op)[1]
          /\ Len(c.stack) + StackTraits(op)[2] <= StackLimit
          /\ c.gas_left \in Int /\ c.gas_left >= 0
      BY <1>6, <2>1 DEF Fits, Ready, Sound
    <3> QED
      BY <1>4, <1>6, <2>1, <3>1 DEF HeightAfter
  <2>4. ASSUME NEW rest \in Nat, rest <= c.gas_left
        PROVE  /\ k + 1 \in 1..Len(at) /\ at[k + 1].begin = at[k].begin
               /\ Short(k + 1, rest, height + change)
    <3>1. rest <= gas - cost
      BY <2>3, <2>4
    <3> QED
      BY <2>2, <2>3, <3>1, ShortOn
  <2>5. op \notin Terminators /\ at[k + 1].begin # k + 1
    <3>1. at[k + 1].begin = at[k].begin
      BY <2>3, <2>4
    <3>2. at[k].begin # k + 1
      <4>1. at[k].begin \in 1..k /\ k \in Nat
        BY <2>2, BlockFacts
      <4> QED
        BY <4>1
    <3>3. op \in Terminators => at[k + 1].begin = k + 1
      BY <1>1 DEF AnalysesInv, TableInv, Ordered
    <3> QED
      BY <3>1, <3>2, <3>3
  <2> HIDE DEF gas, height, cost, change
  <2>6. /\ Runs(c, next.state, HeightAfter(op, c))
        /\ next.pos = NoPosition <=> ~Succeeded(next.state)
        /\ next.pos # NoPosition =>
             \/ next.pos = at[k].next
             \/ at[k].next = Len(code) /\ op \in PushOps
    BY <1>1, <2>1, <2>5, InvokeOnward
  <2>7. /\ next.state.output_size = baseline.output_size
        /\ ~Succeeded(next.state) => Failed(next.state)
    BY <2>1, <2>6, RunsFailed
  <2>8. ASSUME next.pos # NoPosition
        PROVE  \E n \in 1..Len(at) - 1 :
                 /\ OfCode(at[n]) /\ next.pos = at[n].offset
                 /\ Short(n, next.state.gas_left, Len(next.state.stack))
    <3>1. /\ next.state.gas_left \in Nat /\ next.state.gas_left <= c.gas_left
          /\ Len(next.state.stack) = height + change
          /\ Len(next.state.stack) \in Nat
          /\ Len(next.state.stack) <= StackLimit
      BY <2>3, <2>6, <2>8 DEF Runs, Sound
    <3>2. /\ k + 1 \in 1..Len(at)
          /\ Short(k + 1, next.state.gas_left, Len(next.state.stack))
      BY <2>4, <3>1
    <3>3. k + 1 # Len(at)
      BY <3>1, <3>2, ShortNotLast
    <3>4. k + 1 \in 1..Len(at) - 1
      BY <2>2, <3>2, <3>3
    <3>5. OfCode(at[k + 1]) /\ at[k + 1].offset < Len(code)
      BY <2>5, <3>4, NotBeginning
    <3>6. at[k + 1].offset = at[k].next /\ Len(code) \in Nat
      BY TableFacts DEF AnalysesInv
    <3>7. next.pos = at[k + 1].offset
      BY <2>6, <2>8, <3>5, <3>6
    <3> QED
      BY <3>2, <3>4, <3>5, <3>7
  <2> QED
    BY <1>4, <2>6, <2>7, <2>8
<1> QED
  BY <1>5, <1>6

\* BEGINBLOCKs are what begins a block.
LEMMA BeginningIs ==
    ASSUME AnalysesInv, analyzed, NEW k \in 1..Len(at)
    PROVE  instrs[k].fn = OPX_BEGINBLOCK <=> at[k].begin = k
<1>1. at[k].begin = k => instrs[k].fn = OPX_BEGINBLOCK
  BY EntryKinds
<1>2. ASSUME at[k].begin # k
      PROVE  instrs[k].fn # OPX_BEGINBLOCK
  <2>1. instrs[k].fn = op_undefined \/ \E op : Defined(k, op)
    BY <1>2, EntryKinds
  <2>2. CASE instrs[k].fn = op_undefined
    BY <2>2, FunctionKinds
  <2>3. CASE \E op : Defined(k, op)
    BY <2>3 DEF Defined, OPX_BEGINBLOCK
  <2> QED
    BY <2>1, <2>2, <2>3
<1> QED
  BY <1>1, <1>2

\* What is charged ahead at instruction k.
LEMMA ChargedAt ==
    ASSUME AnalysesInv, analyzed, instr_it \in 1..Len(at)
    PROVE  ChargedAhead = IF at[instr_it].begin = instr_it THEN 0
                          ELSE current_block_cost - at[instr_it].gas
BY BeginningIs DEF ChargedAhead, instr

LEMMA ChargedAtNext ==
    ASSUME AnalysesInv, analyzed, ContextKept, NEW k \in 1..Len(at),
           instr_it' = k
    PROVE  ChargedAhead' = IF at[k].begin = k THEN 0
                           ELSE current_block_cost' - at[k].gas
<1>1. UNCHANGED <<at, instrs>>
  BY DEF ContextKept, analysisVars, advancedAnalysisVars
<1> QED
  BY <1>1, BeginningIs DEF ChargedAhead, instr

\* After instruction k the rest of its block is charged ahead.
LEMMA ChargedOn ==
    ASSUME AnalysesInv, analyzed, ContextKept, NEW k \in 1..Len(at) - 1,
           instr_it' = k + 1, NEW cost,
           cost = instrs[at[k].begin].block.gas_cost,
           at[k + 1].begin # k + 1 => current_block_cost' = cost
    PROVE  /\ ChargedAhead' = cost - Cost(at[k])
           /\ cost - Cost(at[k]) \in Nat
           /\ at[k + 1].offset = at[k].next
<1>1. /\ Len(at) \in Nat /\ k \in 1..Len(at) /\ k + 1 \in 1..Len(at)
      /\ Follows(at[k], at[k + 1], k + 1)
  <2>1. Len(at) \in Nat /\ Follows(at[k], at[k + 1], k + 1)
    BY BlockFacts
  <2> QED
    BY <2>1
<1>2. /\ cost \in Nat /\ Cost(at[k]) <= cost /\ Cost(at[k]) \in Nat
      /\ LastOfBlock(k) => Cost(at[k]) = cost
  BY <1>1, BlockCost, EntryFacts
<1>3. ChargedAhead' = IF at[k + 1].begin = k + 1 THEN 0
                      ELSE current_block_cost' - at[k + 1].gas
  BY <1>1, ChargedAtNext
<1>4. CASE at[k + 1].begin = k + 1
  BY <1>1, <1>2, <1>3, <1>4 DEF LastOfBlock, Follows
<1>5. CASE at[k + 1].begin # k + 1
  <2>1. at[k + 1].gas = Cost(at[k])
    BY <1>1, <1>5 DEF Follows
  <2>2. ChargedAhead' = cost - Cost(at[k])
    BY <1>3, <1>5, <2>1
  <2>3. at[k + 1].offset = at[k].next
    BY TableFacts DEF AnalysesInv
  <2>4. cost - Cost(at[k]) \in Nat
    BY <1>2
  <2> QED
    BY <2>2, <2>3, <2>4
<1> QED
  BY <1>4, <1>5

LEMMA OnlyBack ==
    ASSUME NEW s, NEW t, NEW F, s = [f \in Fields |-> s[f]], Only(s, t, F)
    PROVE  Only(t, s, F)
BY DEF Only

\* Being short before the instruction at k is being short after it, at the next
\* instruction of the code.
LEMMA StillShort ==
    ASSUME AnalysesInv, analyzed, NEW k \in 1..Len(at), NEW gas \in Int,
           NEW height \in Int, Short(k, gas, height),
           height >= at[k].info.stack_req, NEW up \in Nat,
           up = height + at[k].info.stack_change, up <= StackLimit,
           NEW rest \in Nat, rest <= gas - at[k].info.gas_cost
    PROVE  /\ k + 1 \in 1..Len(at) - 1 /\ OfCode(at[k + 1])
           /\ at[k + 1].offset = at[k].next /\ Short(k + 1, rest, up)
<1>1. /\ k + 1 \in 1..Len(at) /\ at[k + 1].begin = at[k].begin
      /\ Short(k + 1, rest, up)
  BY ShortOn
<1>2. k + 1 # Len(at)
  BY <1>1, ShortNotLast
<1>3. Len(at) \in Nat /\ k \in Nat /\ at[k].begin \in 1..k
  BY BlockFacts
<1>4. k + 1 \in 1..Len(at) - 1 /\ at[k + 1].begin # k + 1 /\ k \in 1..Len(at) - 1
  <2>1. k + 1 \in 1..Len(at) - 1 /\ k \in 1..Len(at) - 1
    <3>1. PICK n : n = Len(at)
      OBVIOUS
    <3>2. n \in Nat /\ k \in Nat /\ k \in 1..n /\ k + 1 \in 1..n /\ k + 1 # n
      BY <1>1, <1>2, <1>3, <3>1
    <3>3. k + 1 \in 1..n - 1 /\ k \in 1..n - 1
      BY ONLY <3>2
    <3> QED
      BY <3>1, <3>3
  <2>2. at[k].begin # k + 1
    BY <1>3
  <2> QED
    BY <1>1, <2>1, <2>2
<1>5. OfCode(at[k + 1])
  BY <1>4, NotBeginning
<1>6. at[k + 1].offset = at[k].next
  BY <1>4, TableFacts DEF AnalysesInv
<1> QED
  BY <1>1, <1>4, <1>5, <1>6

\* BEGINBLOCK charges the block, or the state is short of what it needs.
LEMMA BeginblockIs ==
    ASSUME AnalysesInv, analyzed, AdvancedInv, instr_it # 0,
           at[instr_it].begin = instr_it, opx_beginblock,
           NEW cost, cost = instrs[instr_it].block.gas_cost
    PROVE  /\ cost \in Nat
           /\ advanced'.output_size = advanced.output_size
           /\ instr_it' = 0 =>
                /\ Failed(advanced')
                /\ Short(instr_it, advanced.gas_left, Len(advanced.stack))
           /\ instr_it' # 0 =>
                /\ instr_it' = instr_it + 1 /\ current_block_cost' = cost
                /\ Only(advanced, advanced', {"gas_left"})
                /\ advanced'.gas_left = advanced.gas_left - cost
                /\ advanced'.gas_left \in Nat
                /\ Sound(advanced')
<1> DEFINE k == instr_it
           info == instrs[k].block
           c == Charge(advanced, cost)
           checked == IF stack_size(c) < info.stack_req
                      THEN Fail(c, "STACK_UNDERFLOW")
                      ELSE IF stack_size(c) + info.stack_max_growth > StackLimit
                      THEN Fail(c, "STACK_OVERFLOW") ELSE c
           h == Len(advanced.stack)
<1>1. AnalysisInv /\ TableInv /\ Sound(advanced) /\ Succeeded(advanced)
  BY DEF AnalysesInv, AdvancedInv
<1>2. PICK t : t = IF Succeeded(c) THEN checked ELSE c
  OBVIOUS
<1>3. /\ advanced' = t
      /\ instr_it' = IF Succeeded(t) THEN k + 1 ELSE 0
      /\ current_block_cost' = IF Succeeded(t) THEN cost
                               ELSE current_block_cost
  BY <1>2 DEF opx_beginblock, Then, instr
<1>4. /\ k \in 1..Len(at) /\ k \in 1..Len(instrs) /\ Len(at) = Len(instrs)
      /\ Len(at) \in Nat
      /\ at[k].gas = 0 /\ at[k].change = 0
  <2>1. Len(at) = Len(instrs) /\ Len(at) \in Nat
    BY <1>1, TableFacts
  <2>2. k \in 1..Len(at)
    BY <2>1 DEF AdvancedInv
  <2> QED
    BY <2>1, <2>2, EntryKinds
<1>5. /\ cost \in Nat
      /\ info.stack_req \in Nat /\ info.stack_max_growth \in Nat
  <2>1. instrs \in Seq(Instruction)
    BY <1>1 DEF AnalysisInv, AdvancedAnalysisTypeOK
  <2>3. instrs[k] \in Instruction
    BY <1>4, <2>1
  <2>2. info \in block_info
    BY <2>3 DEF Instruction
  <2> QED
    BY <2>2, LimitFacts DEF block_info
<1> HIDE DEF info
<1>6. /\ Runs(advanced, c, Len(advanced.stack))
      /\ Only(advanced, c, {"gas_left", "status"})
      /\ c.gas_left = advanced.gas_left - cost
      /\ Succeeded(c) <=> advanced.gas_left >= cost
  BY <1>1, <1>5, ChargeRuns
<1>7. Sound(c) /\ c.stack = advanced.stack /\ c.output_size = advanced.output_size
  BY <1>6 DEF Runs, Only, Fields
<1>8. h \in 0..StackLimit /\ h \in Nat /\ advanced.gas_left \in Int
  BY <1>1 DEF Sound
<1> HIDE DEF c
<1>9. CASE ~Succeeded(c)
  <2>1. t = c /\ Failed(c)
    BY <1>2, <1>6, <1>9, RunsFailed
  <2>2. advanced.gas_left < cost - at[k].gas
    BY <1>4, <1>5, <1>6, <1>8, <1>9
  <2>3. Short(k, advanced.gas_left, h)
    BY <2>2 DEF Short
  <2> QED
    BY <1>3, <1>5, <1>7, <1>9, <2>1, <2>3
<1>10. CASE Succeeded(c) /\ PassesStackCheck(info, h)
  <2>1. checked = c
    BY <1>5, <1>7, <1>8, <1>10, StackLimitAssumption
       DEF PassesStackCheck, stack_size
  <2>2. t = c
    BY <1>2, <1>10, <2>1
  <2>3. Only(advanced, c, {"gas_left"})
    <3>1. c.status = advanced.status
      BY <1>1, <1>10 DEF Succeeded
    <3> QED
      BY <1>6, <3>1 DEF Only, Fields
  <2>4. c.gas_left \in Nat
    BY <1>7, <1>10 DEF Sound
  <2>5. k + 1 # 0
    BY <1>4
  <2> QED
    BY <1>3, <1>5, <1>6, <1>7, <1>10, <2>2, <2>3, <2>4, <2>5
<1>11. CASE Succeeded(c) /\ ~PassesStackCheck(info, h)
  <2>1. checked \in {Fail(c, "STACK_UNDERFLOW"), Fail(c, "STACK_OVERFLOW")}
    BY <1>5, <1>7, <1>8, <1>11, StackLimitAssumption
       DEF PassesStackCheck, stack_size
  <2>2. PICK e \in {"STACK_OVERFLOW", "STACK_UNDERFLOW"} : t = Fail(c, e)
    BY <1>2, <1>11, <2>1
  <2>3. Runs(c, t, 0) /\ ~Succeeded(t)
    BY <1>7, <2>2, FailRuns
  <2>4. Failed(t) /\ t.output_size = c.output_size
    BY <2>3, RunsFailed
  <2>5. k \in ClosedBlocks
    BY <1>4 DEF ClosedBlocks
  <2>6. PICK m \in Members(k) : ~RunsWithin(m, h)
    <3>1. BlockStackCheckExact
      BY <1>1, StackCheckFromInv
    <3> QED
      BY <1>8, <1>11, <2>5, <3>1 DEF BlockStackCheckExact, info
  <2>7. m \in k..Len(at) /\ at[m].begin = at[k].begin
    <3>1. m \in 1..Len(at) /\ at[m].begin = k
      BY <1>4, <2>6 DEF Members
    <3>2. k \in 1..m
      BY <3>1, BlockFacts
    <3> QED
      BY <1>4, <3>1, <3>2
  <2>8. h - at[k].change = h
    BY <1>4, <1>8
  <2>9. Short(k, advanced.gas_left, h)
    BY <2>6, <2>7, <2>8 DEF Short
  <2> QED
    BY <1>3, <1>5, <1>7, <2>3, <2>4, <2>9
<1> QED
  BY <1>9, <1>10, <1>11

\* The states after a step, in terms of the table before it.
LEMMA TogetherNext ==
    ASSUME AnalysesInv, analyzed, ContextKept, NEW CONSTANT k \in 1..Len(at),
           instr_it' = k, code_it' = at[k].offset, advanced'.output_size = 0,
           NEW CONSTANT d \in Nat, ChargedAhead' = d,
           baseline' = More(advanced', d)
    PROVE  Joint'
<1>1. at' = at
  BY DEF ContextKept, analysisVars, advancedAnalysisVars
<1>2. Together'
  BY <1>1 DEF Together
<1>3. instr_it' # 0 /\ code_it' # NoPosition
  <2>1. k # 0 /\ at[k].offset \in Nat
    BY TableFacts, BlockFacts DEF AnalysesInv
  <2> QED
    BY <2>1 DEF NoPosition
<1> QED
  BY <1>2, <1>3 DEF Joint

LEMMA AloneNext ==
    ASSUME AnalysesInv, analyzed, ContextKept, NEW k \in 1..Len(at) - 1,
           instr_it' = 0, code_it' = at[k].offset, OfCode(at[k]),
           Failed(advanced'), advanced'.output_size = 0,
           baseline'.output_size = 0,
           Short(k, baseline'.gas_left, Len(baseline'.stack))
    PROVE  Joint'
<1>1. at' = at /\ instrs' = instrs
  BY DEF ContextKept, analysisVars, advancedAnalysisVars
<1>2. PICK n : n = k
  OBVIOUS
<1>3. PICK gas : gas = baseline'.gas_left
  OBVIOUS
<1>4. PICK height : height = Len(baseline'.stack)
  OBVIOUS
<1>5. Short(n, gas, height)
  BY <1>2, <1>3, <1>4
<1>6. Short(n, gas, height)'
  BY <1>1, <1>5 DEF Short, RunsWithin
<1>7. (\E m \in 1..Len(at) - 1 :
         /\ OfCode(at[m]) /\ code_it = at[m].offset
         /\ Short(m, baseline.gas_left, Len(baseline.stack)))'
  BY <1>1, <1>2, <1>3, <1>4, <1>6 DEF OfCode
<1>8. Failed(advanced)'
  BY DEF Failed
<1>9. Alone'
  BY <1>7, <1>8 DEF Alone
<1>10. code_it' # NoPosition
  <2>1. at[k].offset \in Nat
    BY TableFacts, BlockFacts DEF AnalysesInv
  <2> QED
    BY <2>1 DEF NoPosition
<1> QED
  BY <1>9, <1>10 DEF Joint

LEMMA FailedNext ==
    ASSUME instr_it' = 0, code_it' = NoPosition, Failed(advanced'),
           Failed(baseline'), advanced'.output_size = 0,
           baseline'.output_size = 0
    PROVE  Joint'
<1>1. NoPosition' = NoPosition
  BY DEF NoPosition
<1>2. Failed(advanced)' /\ Failed(baseline)'
  BY DEF Failed
<1> QED
  BY <1>1, <1>2 DEF Joint, Over

LEMMA EndedNext ==
    ASSUME instr_it' = 0, code_it' = NoPosition, ~Failed(advanced'),
           NEW CONSTANT a, NEW CONSTANT b, advanced' = a, baseline' = b,
           Result(a) = Result(b), a.host = b.host
    PROVE  Joint'
<1>1. NoPosition' = NoPosition
  BY DEF NoPosition
<1>2. ~Failed(advanced)'
  BY DEF Failed
<1>3. Result(advanced)' = Result(a) /\ Result(baseline)' = Result(b)
  BY DEF Result, ReadMemory, Padded
<1> QED
  BY <1>1, <1>2, <1>3 DEF Joint, Over

\* With the gas and the operands for an instruction, the check of Baseline only
\* takes the gas.
LEMMA CheckPasses ==
    ASSUME rev \in Revisions, NEW s, Sound(s), Succeeded(s), NEW op \in Byte,
           gas_costs[rev][op] \in Nat, s.gas_left >= gas_costs[rev][op],
           Len(s.stack) >= StackTraits(op)[1],
           Len(s.stack) + StackTraits(op)[2] <= StackLimit, NEW t,
           t = check_requirements(BaselineTable[rev][op], s)
    PROVE  /\ Succeeded(t) /\ Only(s, t, {"gas_left"}) /\ Sound(t)
           /\ t.gas_left = s.gas_left - gas_costs[rev][op]
<1> DEFINE m == BaselineTable[rev][op]
           cost == gas_costs[rev][op]
           req == StackTraits(op)[1]
           change == StackTraits(op)[2]
           c == Charge(s, m.gas_cost)
           checked == IF stack_size(c) = StackLimit
                      THEN IF m.can_overflow_stack
                           THEN Fail(c, "STACK_OVERFLOW") ELSE c
                      ELSE IF stack_size(c) < m.stack_height_required
                      THEN Fail(c, "STACK_UNDERFLOW") ELSE c
<1>1. /\ m.gas_cost = cost /\ m.stack_height_required = req
      /\ m.can_overflow_stack <=> change > 0
  BY BaselineEntry
<1>2. req \in Nat /\ change \in Int /\ change <= 1
  BY TraitsBounded
<1>3. t = IF m.gas_cost = undefined THEN Fail(s, "UNDEFINED_INSTRUCTION")
          ELSE IF Succeeded(c) THEN checked ELSE c
  BY DEF check_requirements, Then
<1> HIDE DEF m, cost, req, change
<1>4. /\ Runs(s, c, Len(s.stack)) /\ Only(s, c, {"gas_left", "status"})
      /\ c.gas_left = s.gas_left - cost /\ Succeeded(c)
  BY <1>1, ChargeRuns DEF cost
<1>5. Sound(c) /\ c.stack = s.stack /\ c.status = s.status
  BY <1>4 DEF Runs, Only, Fields, Succeeded
<1>6. cost # undefined
  BY DEF undefined, cost
<1> HIDE DEF c
<1>7. checked = c
  <2>1. Len(s.stack) \in Nat
    BY DEF Sound
  <2>2. Len(s.stack) >= req /\ Len(s.stack) + change <= StackLimit
    BY DEF req, change
  <2>3. Len(s.stack) = StackLimit => ~m.can_overflow_stack
    BY <1>1, <1>2, <2>1, <2>2, StackLimitAssumption
  <2> QED
    BY <1>1, <1>2, <1>5, <2>1, <2>2, <2>3 DEF stack_size
<1>8. t = c
  BY <1>1, <1>3, <1>4, <1>6, <1>7
<1>9. Only(s, c, {"gas_left"})
  BY <1>4, <1>5 DEF Only, Fields
<1> QED
  BY <1>4, <1>5, <1>8, <1>9 DEF cost

\* A BEGINBLOCK that stands for no instruction of the code.
LEMMA InjectedIs ==
    ASSUME AnalysesInv, analyzed, NEW k \in 1..Len(at), at[k].begin = k,
           ~OfCode(at[k])
    PROVE  /\ k \in 1..Len(at) - 1 /\ k + 1 \in 1..Len(at)
           /\ at[k].next = at[k].offset
           /\ at[k].info.gas_cost = 0 /\ at[k].info.stack_req = 0
           /\ at[k].info.stack_change = 0 /\ Cost(at[k]) = 0
           /\ at[k + 1].begin = k /\ at[k + 1].gas = 0
           /\ at[k + 1].offset = at[k].offset
           /\ instrs[at[k].begin].block.gas_cost \in Nat
<1>1. AnalysisInv /\ TableInv /\ Len(at) = Len(instrs) /\ Len(at) \in Nat
  BY TableFacts DEF AnalysesInv
<1>2. k + 1 \in 1..Len(at) /\ at[k].gas = 0
  BY EntryKinds
<1>3. k \in 1..Len(at) - 1
  BY <1>1, <1>2
<1>4. EntryOK(instrs[k], at[k], k, push_values)
  BY <1>1, <1>3 DEF TableInv, Entries
<1>5. Injected(instrs[k], at[k], k)
  BY <1>1, <1>4, TranslatedIsOfCode DEF EntryOK
<1>6. at[k].info = NoInfo /\ at[k].next = at[k].offset
  BY <1>5 DEF Injected
<1>7. /\ at[k].info.gas_cost = 0 /\ at[k].info.stack_req = 0
      /\ at[k].info.stack_change = 0
  BY <1>6 DEF NoInfo
<1>8. Cost(at[k]) = 0
  BY <1>2, <1>7 DEF Cost
<1>9. at[k + 1].begin # k + 1
  BY <1>1, <1>3 DEF TableInv, Ordered
<1>10. Follows(at[k], at[k + 1], k + 1)
  BY <1>3, BlockFacts
<1>11. at[k + 1].begin = k /\ at[k + 1].gas = 0 /\ at[k + 1].offset = at[k].offset
  BY <1>6, <1>8, <1>9, <1>10 DEF Follows
<1> QED
  BY <1>2, <1>3, <1>6, <1>7, <1>8, <1>11, BlockCost

\* The last entry is a STOP that costs nothing.
LEMMA LastIs ==
    ASSUME AnalysesInv, analyzed, NEW k, k = Len(at)
    PROVE  /\ k \in 1..Len(at) /\ at[k].offset = Len(code)
           /\ at[k].begin # k /\ Defined(k, OP.STOP)
           /\ at[k].info.gas_cost = 0 /\ gas_costs[rev][OP.STOP] = 0
<1>1. AnalysisInv /\ TableInv /\ Len(at) = Len(instrs) /\ Len(at) \in Nat
      /\ Len(at) > 0 /\ rev \in Revisions
  BY TableFacts DEF AnalysesInv
<1>2. Appended(instrs[k], at[k], k)
  BY <1>1 DEF TableInv
<1>3. /\ at[k].offset = Len(code) /\ at[k].begin # k
      /\ at[k].info = OpTable[rev][OP.STOP] /\ instrs[k].fn = at[k].info.fn
  BY <1>2 DEF Appended
<1>4. at[k].info.gas_cost = 0
  BY <1>1, <1>3, StopAssumption
<1>5. OP.STOP \in Byte /\ OP.STOP # OP.JUMPDEST
  BY DEF OP, Byte
<1>6. /\ instrs[k].fn = OP.STOP /\ OP.STOP \in KnownOps
      /\ at[k].info.gas_cost = gas_costs[rev][OP.STOP]
      /\ at[k].info.stack_req = StackTraits(OP.STOP)[1]
      /\ at[k].info.stack_change = StackTraits(OP.STOP)[2]
  BY <1>1, <1>3, <1>5, StopDefined, AdvancedEntry
<1>7. k \in 1..Len(at)
  BY <1>1
<1> QED
  BY <1>3, <1>4, <1>5, <1>6, <1>7 DEF Defined

\* The block charged at a BEGINBLOCK of its own: while Baseline stays at the
\* instruction after it.
LEMMA InjectedTogether ==
    ASSUME AnalysesInv, analyzed, AdvancedInv, ContextKept, instr_it # 0,
           at[instr_it].begin = instr_it, ~OfCode(at[instr_it]),
           opx_beginblock, UNCHANGED baselineVars, advanced.output_size = 0,
           Together
    PROVE  Joint'
<1>1. PICK k : k = instr_it
  OBVIOUS
<1>2. PICK cost : cost = instrs[k].block.gas_cost
  OBVIOUS
<1>3. /\ k \in 1..Len(at) /\ Sound(advanced) /\ Succeeded(advanced)
      /\ Len(at) \in Nat
  BY <1>1, BlockFacts DEF AdvancedInv
<1>4. /\ k \in 1..Len(at) - 1 /\ k + 1 \in 1..Len(at)
      /\ at[k].next = at[k].offset /\ at[k].begin = k
      /\ at[k].info.gas_cost = 0 /\ at[k].info.stack_req = 0
      /\ at[k].info.stack_change = 0 /\ Cost(at[k]) = 0
      /\ at[k + 1].offset = at[k].offset
  BY <1>1, <1>3, InjectedIs
<1>5. Shaped(advanced)
  BY <1>3 DEF Sound, Shaped
<1>6. baseline = advanced /\ code_it = at[k].offset
  <2>1. ChargedAhead = 0
    BY <1>1, <1>3, ChargedAt
  <2> QED
    BY <1>1, <1>5, <2>1, MoreNothing DEF Together
<1>7. baseline' = advanced /\ code_it' = at[k].offset
  BY <1>6 DEF baselineVars
<1>8. /\ cost \in Nat /\ advanced'.output_size = 0
      /\ instr_it' = 0 => /\ Failed(advanced')
                          /\ Short(k, advanced.gas_left, Len(advanced.stack))
      /\ instr_it' # 0 =>
           /\ instr_it' = k + 1 /\ current_block_cost' = cost
           /\ Only(advanced, advanced', {"gas_left"})
           /\ advanced'.gas_left = advanced.gas_left - cost
           /\ Sound(advanced')
  BY <1>1, <1>2, BeginblockIs
<1>9. CASE instr_it' = 0
  <2>1. /\ advanced.gas_left \in Nat /\ Len(advanced.stack) \in Nat
        /\ Len(advanced.stack) <= StackLimit
    BY <1>3 DEF Sound
  <2>2. PICK gas : gas = advanced.gas_left
    OBVIOUS
  <2>3. PICK height : height = Len(advanced.stack)
    OBVIOUS
  <2>4. /\ gas \in Nat /\ height \in Nat /\ gas \in Int /\ height \in Int
        /\ height <= StackLimit /\ Short(k, gas, height)
    BY <1>8, <1>9, <2>1, <2>2, <2>3
  <2>5. /\ height >= at[k].info.stack_req
        /\ height = height + at[k].info.stack_change
        /\ gas <= gas - at[k].info.gas_cost
    BY <1>4, <2>4
  <2>6. /\ k + 1 \in 1..Len(at) - 1 /\ OfCode(at[k + 1])
        /\ at[k + 1].offset = at[k].next /\ Short(k + 1, gas, height)
    BY <1>3, <2>4, <2>5, StillShort
  <2> QED
    BY <1>4, <1>7, <1>8, <1>9, <2>2, <2>3, <2>6, AloneNext
<1>10. CASE instr_it' # 0
  <2>1. Shaped(advanced')
    BY <1>8, <1>10 DEF Sound, Shaped
  <2>2. Only(advanced', advanced, {"gas_left"})
    BY <1>5, <1>8, <1>10, OnlyBack DEF Shaped
  <2>3. advanced.gas_left = advanced'.gas_left + cost
    <3>1. advanced.gas_left \in Int
      BY <1>5 DEF Shaped
    <3> QED
      BY <1>8, <1>10, <3>1
  <2>4. advanced = More(advanced', cost)
    BY <1>8, <2>1, <2>2, <2>3, MoreOf
  <2>5. ChargedAhead' = cost - Cost(at[k])
    BY <1>2, <1>4, <1>8, <1>10, ChargedOn
  <2>6. ChargedAhead' = cost
    BY <1>4, <1>8, <2>5
  <2> QED
    BY <1>4, <1>7, <1>8, <1>10, <2>4, <2>6, TogetherNext
<1> QED
  BY <1>9, <1>10

\* The block of the STOP at the end costs nothing and needs nothing.
LEMMA InjectedCutOff ==
    ASSUME AnalysesInv, analyzed, AdvancedInv, ContextKept, instr_it # 0,
           at[instr_it].begin = instr_it, ~OfCode(at[instr_it]),
           opx_beginblock, UNCHANGED baselineVars, advanced.output_size = 0,
           CutOff, code_it # NoPosition
    PROVE  Joint'
<1>1. PICK k : k = instr_it
  OBVIOUS
<1>2. PICK cost : cost = instrs[k].block.gas_cost
  OBVIOUS
<1>3. /\ k \in 1..Len(at) /\ Sound(advanced) /\ Succeeded(advanced)
      /\ Len(at) \in Nat /\ k \in Nat
  BY <1>1, BlockFacts DEF AdvancedInv
<1>4. /\ k \in 1..Len(at) - 1 /\ k + 1 \in 1..Len(at)
      /\ at[k].info.gas_cost = 0 /\ at[k].info.stack_req = 0
      /\ at[k].info.stack_change = 0 /\ Cost(at[k]) = 0 /\ at[k].begin = k
      /\ at[k + 1].offset = at[k].offset
      /\ at[k + 1].begin = k /\ at[k + 1].gas = 0
  BY <1>1, <1>3, InjectedIs
<1>5. at[k].offset = Len(code) /\ Len(code) \in Nat
  BY <1>1, TableFacts DEF CutOff, AnalysesInv
<1>6. k + 1 = Len(at)
  <2> SUFFICES ASSUME k + 1 # Len(at)
               PROVE  FALSE
    OBVIOUS
  <2>1. k + 1 \in 1..Len(at) - 1
    BY <1>3, <1>4
  <2>2. at[k + 1].begin # k + 1
    BY <1>3, <1>4
  <2>3. at[k + 1].offset < Len(code)
    BY <2>1, <2>2, NotBeginning
  <2> QED
    BY <1>4, <1>5, <2>3
<1>7. cost = 0
  <2>1. at[k + 1].info.gas_cost = 0
    BY <1>6, LastIs
  <2>2. Cost(at[k + 1]) = 0
    BY <1>4, <2>1 DEF Cost
  <2>3. LastOfBlock(k + 1)
    BY <1>6 DEF LastOfBlock
  <2>4. Cost(at[k + 1]) = instrs[at[k + 1].begin].block.gas_cost
    BY <1>4, <2>3, BlockCost
  <2> QED
    BY <1>2, <1>4, <2>2, <2>4
<1>8. /\ advanced'.output_size = 0
      /\ instr_it' = 0 => Short(k, advanced.gas_left, Len(advanced.stack))
      /\ instr_it' # 0 =>
           /\ instr_it' = k + 1 /\ current_block_cost' = cost
           /\ Only(advanced, advanced', {"gas_left"})
           /\ advanced'.gas_left = advanced.gas_left - cost
  BY <1>1, <1>2, BeginblockIs
<1>9. instr_it' # 0
  <2> SUFFICES ASSUME instr_it' = 0
               PROVE  FALSE
    OBVIOUS
  <2>1. /\ advanced.gas_left \in Nat /\ Len(advanced.stack) \in Nat
        /\ Len(advanced.stack) <= StackLimit
    BY <1>3 DEF Sound
  <2>2. PICK gas : gas = advanced.gas_left
    OBVIOUS
  <2>3. PICK height : height = Len(advanced.stack)
    OBVIOUS
  <2>4. /\ gas \in Nat /\ height \in Nat /\ gas \in Int /\ height \in Int
        /\ height <= StackLimit /\ Short(k, gas, height)
    BY <1>8, <2>1, <2>2, <2>3
  <2>5. /\ height >= at[k].info.stack_req
        /\ height = height + at[k].info.stack_change
        /\ gas <= gas - at[k].info.gas_cost
    BY <1>4, <2>4
  <2>6. k + 1 \in 1..Len(at) - 1
    BY <1>3, <2>4, <2>5, StillShort
  <2> QED
    BY <1>3, <1>6, <2>6
<1>10. advanced' = advanced
  <2>1. advanced = [f \in Fields |-> advanced[f]] /\ advanced.gas_left \in Int
    BY <1>3 DEF Sound
  <2>2. advanced'.gas_left = advanced.gas_left
    BY <1>7, <1>8, <1>9, <2>1
  <2>3. \A f \in Fields : advanced'[f] = advanced[f]
    BY <1>8, <1>9, <2>2 DEF Only
  <2>4. advanced' = [f \in Fields |-> advanced'[f]]
    BY <1>8, <1>9 DEF Only
  <2> QED
    BY <2>1, <2>3, <2>4
<1>11. ChargedAhead' = 0
  <2>1. ChargedAhead' = cost - Cost(at[k])
    BY <1>2, <1>4, <1>8, <1>9, ChargedOn
  <2> QED
    BY <1>4, <1>7, <2>1
<1>12. CutOff'
  <2>1. /\ at' = at /\ code' = code /\ scan_pos' = scan_pos
        /\ baseline' = baseline /\ code_it' = code_it
    BY DEF ContextKept, analysisVars, advancedAnalysisVars,
           baselineAnalysisVars, baselineVars
  <2>2. (at[instr_it].offset = Len(code))'
    BY <1>4, <1>5, <1>8, <1>9, <2>1
  <2>3. Only(advanced, baseline, {"stack"})'
    BY <1>10, <2>1 DEF CutOff, Only
  <2>4. (Drop(advanced, 1).stack = Drop(baseline, 1).stack)'
    BY <1>10, <2>1 DEF CutOff, Drop, Needs
  <2> QED
    BY <1>11, <2>1, <2>2, <2>3, <2>4 DEF CutOff
<1>13. (code_it # NoPosition)' /\ (instr_it # 0)' /\ (advanced.output_size = 0)'
  BY <1>8, <1>9 DEF baselineVars, NoPosition
<1> QED
  BY <1>12, <1>13 DEF Joint

\* JUMPDEST is defined in every revision.
LEMMA JumpdestDefined ==
    ASSUME rev \in Revisions
    PROVE  /\ gas_costs[rev][OP.JUMPDEST] \in Nat
           /\ StackTraits(OP.JUMPDEST) = <<0, 0>>
           /\ OP.JUMPDEST \in KnownOps
<1>1. OP.JUMPDEST = 91 /\ OP.JUMPDEST \in Byte
  BY DEF OP, Byte
<1>2. rev \in AllRevisions
  BY RevisionsAssumption
<1>3. \A q \in 0..rev : \A c \in CostChanges(q) : c[1] # OP.JUMPDEST
  BY DEF CostChanges, OP, REV
<1>4. {q \in 0..rev : \E c \in CostChanges(q) : c[1] = OP.JUMPDEST} = {}
  BY <1>3
<1>5. gas_costs[rev][OP.JUMPDEST] = FrontierCost(OP.JUMPDEST)
  BY <1>1, <1>2, <1>4 DEF gas_costs
<1>6. FrontierCost(OP.JUMPDEST) = 1
  BY DEF FrontierCost, OP, PushOps, DupOps, SwapOps, LogOps
<1>7. StackTraits(OP.JUMPDEST) = <<0, 0>>
  BY TraitsOf
<1> QED
  BY <1>5, <1>6, <1>7 DEF KnownOps

\* A JUMPDEST, which Advanced runs as BEGINBLOCK.
LEMMA JumpdestTogether ==
    ASSUME Context_, AnalysesInv, analyzed, prepared, AdvancedInv, BaselineInv,
           ContextKept, instr_it # 0, at[instr_it].begin = instr_it,
           OfCode(at[instr_it]), opx_beginblock, BaselineStep,
           advanced.output_size = 0, Together
    PROVE  Joint'
<1>1. PICK k : k = instr_it
  OBVIOUS
<1>2. PICK cost : cost = instrs[k].block.gas_cost
  OBVIOUS
<1>3. PICK op : op = OpAt(at[k].offset)
  OBVIOUS
<1>4. PICK c : c = check_requirements(BaselineTable[rev][op], baseline)
  OBVIOUS
<1>5. /\ k \in 1..Len(at) /\ Sound(advanced) /\ Succeeded(advanced)
      /\ Len(at) \in Nat /\ AnalysisInv /\ TableInv /\ rev \in Revisions
  BY <1>1, BlockFacts, TableFacts DEF AdvancedInv, AnalysesInv
<1>6. /\ k \in 1..Len(at) - 1 /\ k + 1 \in 1..Len(at)
      /\ Translated(instrs[k], at[k], k, push_values) /\ at[k].begin = k
  <2>1. /\ k \in 1..Len(at) - 1
        /\ Translated(instrs[k], at[k], k, push_values)
    BY <1>1, <1>5, OfCodeIsTranslated
  <2>2. k + 1 \in 1..Len(at)
    BY <1>5, <2>1
  <2> QED
    BY <1>1, <2>1, <2>2
<1>7. op = OP.JUMPDEST /\ at[k].gas = 0
  BY <1>3, <1>6 DEF Translated
<1>8. Shaped(advanced)
  BY <1>5 DEF Sound, Shaped
<1>9. baseline = advanced /\ code_it = at[k].offset
  <2>1. ChargedAhead = 0
    BY <1>1, <1>5, ChargedAt
  <2> QED
    BY <1>1, <1>8, <2>1, MoreNothing DEF Together
<1>10. /\ cost \in Nat /\ advanced'.output_size = 0
       /\ instr_it' = 0 => /\ Failed(advanced')
                           /\ Short(k, advanced.gas_left, Len(advanced.stack))
       /\ instr_it' # 0 =>
            /\ instr_it' = k + 1 /\ current_block_cost' = cost
            /\ Only(advanced, advanced', {"gas_left"})
            /\ advanced'.gas_left = advanced.gas_left - cost
            /\ advanced'.gas_left \in Nat
            /\ Sound(advanced')
  BY <1>1, <1>2, BeginblockIs
<1>11. CASE instr_it' = 0
  <2>1. /\ baseline'.output_size = baseline.output_size
        /\ code_it' = NoPosition => Failed(baseline')
        /\ code_it' # NoPosition =>
             \E n \in 1..Len(at) - 1 :
               /\ OfCode(at[n]) /\ code_it' = at[n].offset
               /\ Short(n, baseline'.gas_left, Len(baseline'.stack))
    BY <1>1, <1>6, <1>9, <1>10, <1>11, ShortStep
  <2>2. baseline'.output_size = 0
    BY <1>9, <2>1
  <2>3. CASE code_it' = NoPosition
    BY <1>10, <1>11, <2>1, <2>2, <2>3, FailedNext
  <2>4. CASE code_it' # NoPosition
    BY <1>10, <1>11, <2>1, <2>2, <2>4, AloneNext
  <2> QED
    BY <2>3, <2>4
<1>12. CASE instr_it' # 0
  <2> DEFINE g == at[k].info.gas_cost
             gas == advanced.gas_left
             left == advanced'.gas_left
  <2>1. /\ gas_costs[rev][op] \in Nat /\ StackTraits(op) = <<0, 0>>
        /\ op \in KnownOps
    BY <1>5, <1>7, JumpdestDefined
  <2>2. g = gas_costs[rev][op] /\ op \in Byte
    BY <1>1, <1>3, <1>6, <2>1, TranslatedEntry
  <2>3. Cost(at[k]) = g /\ g <= cost /\ g \in Nat
    <3>1. Cost(at[k]) = g
      BY <1>7, <2>1, <2>2 DEF Cost
    <3>2. Cost(at[k]) <= cost
      BY <1>2, <1>5, <1>6, BlockCost
    <3> QED
      BY <2>1, <2>2, <3>1, <3>2
  <2>4. /\ left = gas - cost /\ left \in Nat /\ gas \in Int
    BY <1>8, <1>10, <1>12 DEF Shaped
  <2> HIDE DEF g, gas, left
  <2>5. gas >= g /\ gas - g = left + (cost - g) /\ cost - g \in Nat
    BY <1>10, <2>3, <2>4
  <2>6. /\ Succeeded(c) /\ Only(advanced, c, {"gas_left"})
        /\ c.gas_left = gas - g /\ Sound(c)
    <3>1. /\ Len(advanced.stack) >= StackTraits(op)[1]
          /\ Len(advanced.stack) + StackTraits(op)[2] <= StackLimit
      BY <1>5, <2>1 DEF Sound
    <3>2. advanced.gas_left >= gas_costs[rev][op]
      BY <2>2, <2>5 DEF gas
    <3> QED
      BY <1>4, <1>5, <1>9, <2>1, <2>2, <3>1, <3>2, CheckPasses DEF gas
  <2>7. PICK next : next = Iteration(op, baseline, code_it)
    OBVIOUS
  <2>8. /\ baseline' = next.state /\ code_it' = next.pos
        /\ next = invoke(op, c, code_it)
    BY <1>1, <1>3, <1>4, <1>6, <1>9, <2>6, <2>7, IterationOfCode
  <2>9. next = At(c, code_it + 1)
    BY <1>7, <2>1, <2>8, InvokeIs
  <2>10. baseline' = c /\ code_it' = code_it + 1
    BY <2>6, <2>8, <2>9 DEF At
  <2>11. code_it + 1 = at[k].next
    <3>1. op \notin PushOps
      BY <1>7, OpcodeKinds
    <3> QED
      BY <1>1, <1>3, <1>6, <1>9, <3>1, NextPosition
  <2>12. Only(advanced', c, {"gas_left"})
    <3>1. Only(advanced', advanced, {"gas_left"})
      BY <1>8, <1>10, <1>12, OnlyBack DEF Shaped
    <3> QED
      BY <2>6, <3>1, OnlyTwice
  <2>13. c = More(advanced', cost - g)
    <3>1. Shaped(advanced')
      BY <1>10, <1>12 DEF Sound, Shaped
    <3>2. c.gas_left = advanced'.gas_left + (cost - g)
      BY <2>5, <2>6 DEF left
    <3> QED
      BY <2>5, <2>12, <3>1, <3>2, MoreOf
  <2>14. ChargedAhead' = cost - Cost(at[k]) /\ at[k + 1].offset = at[k].next
    BY <1>2, <1>6, <1>10, <1>12, ChargedOn
  <2>15. ChargedAhead' = cost - g
    BY <2>3, <2>14
  <2> QED
    BY <1>6, <1>10, <1>12, <2>5, <2>10, <2>11, <2>13, <2>14, <2>15,
       TogetherNext
<1> QED
  BY <1>11, <1>12

\* An undefined instruction ends both.
LEMMA UndefinedTogether ==
    ASSUME Context_, AnalysesInv, analyzed, prepared, AdvancedInv, BaselineInv,
           instr_it # 0, at[instr_it].begin # instr_it,
           instrs[instr_it].fn = op_undefined, op_undefined_, BaselineStep,
           advanced.output_size = 0, Together \/ CutOff
    PROVE  Joint'
<1>1. PICK k : k = instr_it
  OBVIOUS
<1>2. PICK op : op = OpAt(at[k].offset)
  OBVIOUS
<1>3. PICK c : c = check_requirements(BaselineTable[rev][op], baseline)
  OBVIOUS
<1>4. /\ k \in 1..Len(at) /\ Sound(advanced) /\ Succeeded(advanced)
      /\ Len(at) \in Nat /\ rev \in Revisions /\ Len(code) \in Nat
      /\ at[k].offset \in Nat
      /\ \A n \in 0..Len(code) - 1 : OpAt(n) \in Byte
  BY <1>1, BlockFacts, TableFacts DEF AdvancedInv, AnalysesInv
<1>5. k # Len(at)
  <2>1. OP.STOP # op_undefined
    BY FunctionKinds
  <2> QED
    BY <1>1, <2>1, LastIs DEF Defined
<1>6. k \in 1..Len(at) - 1
  BY <1>4, <1>5
<1>7. /\ Translated(instrs[k], at[k], k, push_values) /\ OfCode(at[k])
      /\ at[k].offset < Len(code)
  BY <1>1, <1>6, NotBeginning
<1>8. op \in Byte
  BY <1>2, <1>4, <1>7
<1>9. gas_costs[rev][op] = undefined
  <2>1. op # OP.JUMPDEST /\ at[k].info = OpTable[rev][op]
        /\ instrs[k].fn = at[k].info.fn
    BY <1>1, <1>2, <1>7 DEF Translated
  <2>2. op # op_undefined
    BY <1>8, FunctionKinds DEF Byte
  <2> QED
    BY <1>1, <1>4, <1>8, <2>1, <2>2, AdvancedEntry
<1>10. c = Fail(baseline, "UNDEFINED_INSTRUCTION")
  BY <1>3, <1>4, <1>8, <1>9, BaselineEntry DEF check_requirements
<1>11. Together
  <2>1. CutOff => at[k].offset = Len(code)
    BY <1>1 DEF CutOff
  <2> QED
    BY <1>4, <1>7, <2>1
<1>12. code_it = at[k].offset
  BY <1>1, <1>11 DEF Together
<1>13. PICK next : next = Iteration(op, baseline, code_it)
  OBVIOUS
<1>14. /\ baseline' = next.state /\ code_it' = next.pos /\ Sound(baseline)
       /\ next = IF Succeeded(c) THEN invoke(op, c, code_it) ELSE Exit(c)
  BY <1>1, <1>2, <1>3, <1>6, <1>7, <1>12, <1>13, IterationOfCode
<1>15. /\ ~Succeeded(c) /\ Failed(c) /\ c.output_size = baseline.output_size
  <2>1. Runs(baseline, c, 0) /\ ~Succeeded(c)
    BY <1>10, <1>14, FailRuns
  <2> QED
    BY <2>1, RunsFailed
<1>16. baseline.output_size = 0
  <2>1. baseline = [advanced EXCEPT !.gas_left = @ + ChargedAhead]
    BY <1>11 DEF Together, More
  <2> QED
    BY <1>4, <2>1 DEF Sound, Fields
<1>17. baseline' = c /\ code_it' = NoPosition
  BY <1>14, <1>15 DEF Exit
<1>18. /\ advanced' = Fail(advanced, "UNDEFINED_INSTRUCTION") /\ instr_it' = 0
  BY DEF op_undefined_, exit
<1>19. Failed(advanced') /\ advanced'.output_size = 0
  <2>1. PICK t : t = Fail(advanced, "UNDEFINED_INSTRUCTION")
    OBVIOUS
  <2>2. Runs(advanced, t, 0) /\ ~Succeeded(t)
    BY <1>4, <2>1, FailRuns
  <2>3. Failed(t) /\ t.output_size = 0
    BY <2>2, RunsFailed
  <2> QED
    BY <1>18, <2>1, <2>3
<1> QED
  BY <1>15, <1>16, <1>17, <1>18, <1>19, FailedNext

\* Inside of a block an instruction passes the check of Baseline, and runs on
\* the same state in both but for what is charged ahead after it.
LEMMA InsideChecked ==
    ASSUME Context_, AnalysesInv, analyzed, prepared, AdvancedInv, BaselineInv,
           BaselineStep, instr_it # 0, NEW k, k = instr_it, at[k].begin # k,
           OfCode(at[k]), NEW op, op = OpAt(at[k].offset), Defined(k, op),
           Together, NEW d, d = current_block_cost - Cost(at[k]),
           NEW c, c = More(advanced, d), NEW next,
           next = invoke(op, c, code_it)
    PROVE  /\ k \in 1..Len(at) - 1 /\ k \in 1..Len(at) /\ k + 1 \in 1..Len(at)
           /\ code_it = at[k].offset /\ code_it \in Nat
           /\ d \in Nat /\ Fits(op, advanced) /\ Fits(op, c)
           /\ Shaped(advanced) /\ Ready(advanced, 0)
           /\ HeightAfter(op, c) = HeightAfter(op, advanced)
           /\ baseline' = next.state /\ code_it' = next.pos
           /\ current_block_cost = instrs[at[k].begin].block.gas_cost
           /\ LastOfBlock(k) => d = 0
<1> DEFINE g == at[k].info.gas_cost
           gas == advanced.gas_left
           o == at[k].gas
<1>1. /\ k \in 1..Len(at) /\ Sound(advanced) /\ Succeeded(advanced)
      /\ Len(at) \in Nat /\ AnalysisInv /\ TableInv /\ rev \in Revisions
  BY BlockFacts, TableFacts DEF AdvancedInv, AnalysesInv
<1>2. k \in 1..Len(at) - 1
  BY <1>1, OfCodeIsTranslated
<1>3. k + 1 \in 1..Len(at)
  BY <1>1, <1>2
<1>4. /\ Fits(op, advanced) /\ o \in Nat /\ g \in Nat /\ d \in Nat
      /\ Cost(at[k]) = o + g /\ current_block_cost \in Nat
  BY InsideFits
<1>5. current_block_cost = instrs[at[k].begin].block.gas_cost
  BY DEF AdvancedInv, Inside
<1>6. LastOfBlock(k) => d = 0
  BY <1>1, <1>4, <1>5, BlockCost
<1>7. Shaped(advanced) /\ gas \in Int /\ gas >= 0 /\ Ready(advanced, 0)
  <2>1. Len(advanced.stack) >= 0
    BY <1>1 DEF Sound
  <2> QED
    BY <1>1, <2>1 DEF Sound, Shaped, Ready
<1>8. code_it = at[k].offset /\ code_it \in Nat
  BY <1>1, TableFacts DEF Together
<1>9. ChargedAhead = current_block_cost - o
  BY <1>1, ChargedAt
<1> HIDE DEF g, gas, o
<1>10. ChargedAhead = d + g /\ d + g \in Nat /\ gas + (d + g) - g = gas + d
       /\ gas + (d + g) >= g
  <2>1. current_block_cost - o = d + g
    BY <1>4
  <2> QED
    BY <1>4, <1>7, <1>9, <2>1
<1>11. baseline = More(advanced, d + g)
  BY <1>10 DEF Together
<1>12. /\ baseline.gas_left = gas + (d + g) /\ baseline.stack = advanced.stack
       /\ Succeeded(baseline)
  BY <1>1, <1>7, <1>10, <1>11, MoreIs DEF gas
<1>13. Sound(baseline)
  BY DEF BaselineInv
<1>14. PICK t : t = check_requirements(BaselineTable[rev][op], baseline)
  OBVIOUS
<1>15. op \in Byte /\ gas_costs[rev][op] = g
  <2>1. op \in Byte
    BY <1>1, <1>2, OfCodeIsTranslated, IterationOfCode, <1>8, <1>14
  <2> QED
    BY <2>1 DEF Defined, g
<1>16. /\ Succeeded(t) /\ Only(baseline, t, {"gas_left"}) /\ Sound(t)
       /\ t.gas_left = baseline.gas_left - g
  <2>1. /\ Len(baseline.stack) >= StackTraits(op)[1]
        /\ Len(baseline.stack) + StackTraits(op)[2] <= StackLimit
    BY <1>4, <1>12 DEF Fits, Ready
  <2>2. baseline.gas_left >= gas_costs[rev][op]
    BY <1>10, <1>12, <1>15
  <2> QED
    BY <1>1, <1>4, <1>12, <1>13, <1>14, <1>15, <2>1, <2>2, CheckPasses
<1>17. t = c
  <2>1. Only(advanced, baseline, {"gas_left"})
    BY <1>7, <1>11 DEF More, Only, Fields, Shaped
  <2>2. Only(advanced, t, {"gas_left"})
    BY <1>16, <2>1, OnlyTwice
  <2>3. t.gas_left = advanced.gas_left + d
    <3>1. t.gas_left = gas + d
      <4>1. t.gas_left = (gas + (d + g)) - g
        BY <1>12, <1>16
      <4> HIDE DEF gas, g
      <4> QED
        BY <1>4, <1>7, <4>1
    <3> QED
      BY <3>1 DEF gas
  <2> QED
    BY <1>4, <1>7, <2>2, <2>3, MoreOf
<1>18. /\ c.stack = advanced.stack /\ Fits(op, c)
       /\ HeightAfter(op, c) = HeightAfter(op, advanced)
  <2>1. c.stack = advanced.stack
    BY <1>4, <1>7, MoreIs
  <2> QED
    BY <1>4, <1>16, <1>17, <2>1 DEF Fits, Ready, HeightAfter
<1>19. baseline' = next.state /\ code_it' = next.pos
  <2>1. PICK i : i = Iteration(op, baseline, code_it)
    OBVIOUS
  <2>2. /\ baseline' = i.state /\ code_it' = i.pos
        /\ i = IF Succeeded(t) THEN invoke(op, t, code_it) ELSE Exit(t)
    BY <1>2, <1>8, <1>14, <2>1, IterationOfCode
  <2> QED
    BY <1>16, <1>17, <2>2
<1> QED
  BY <1>1, <1>2, <1>3, <1>4, <1>5, <1>6, <1>7, <1>8, <1>18, <1>19

\* An instruction whose outcomes agree leaves both at the next one, ends both,
\* or leaves Baseline alone in a block it cannot pay for.
LEMMA OnwardBoth ==
    ASSUME Context_, AnalysesInv, analyzed, prepared, ContextKept,
           NEW CONSTANT k \in 1..Len(at) - 1, instr_it = k, OfCode(at[k]),
           NEW op \in KnownOps, op = OpAt(at[k].offset),
           op \notin Terminators, op \notin PushOps,
           NEW CONSTANT d \in Nat, d = current_block_cost - Cost(at[k]),
           current_block_cost = instrs[at[k].begin].block.gas_cost,
           NEW c, Fits(op, c), c.output_size = 0,
           NEW CONSTANT next, next = invoke(op, c, at[k].offset),
           NEW CONSTANT t, Shaped(t), t.output_size = 0, t.status # "REVERT",
           Continue(t),
           baseline' = next.state, code_it' = next.pos,
           Agree(t, next.state, d)
    PROVE  Joint'
<1>1. PICK cost : cost = current_block_cost
  OBVIOUS
<1>2. /\ Len(at) \in Nat /\ k \in Nat /\ k \in 1..Len(at) /\ k + 1 \in 1..Len(at)
      /\ k + 1 # 0
  <2>1. Len(at) \in Nat
    BY BlockFacts
  <2> QED
    BY <2>1
<1>3. PICK r : r = next.state
  OBVIOUS
<1>4. /\ Runs(c, r, HeightAfter(op, c))
      /\ next.pos = NoPosition <=> ~Succeeded(r)
      /\ next.pos # NoPosition => next.pos = at[k].next
  BY <1>3, InvokeOnward
<1>5. r.output_size = 0 /\ (~Succeeded(r) => Failed(r)) /\ Sound(r)
  BY <1>4, RunsFailed DEF Runs
<1>6. ~Succeeded(t) => Failed(t)
  BY DEF Failed, Succeeded
<1>7. /\ advanced' = t /\ instr_it' = IF Succeeded(t) THEN k + 1 ELSE 0
      /\ current_block_cost' = cost
  BY <1>1 DEF Continue
<1>8. at[k + 1].offset = at[k].next
  BY TableFacts DEF AnalysesInv
<1>9. CASE Succeeded(t) /\ r = More(t, d)
  <2>1. Succeeded(r)
    BY <1>9, MoreIs
  <2>2. instr_it' = k + 1 /\ code_it' = at[k + 1].offset
    BY <1>4, <1>7, <1>8, <1>9, <2>1
  <2>3. ChargedAhead' = d
    <3>1. ChargedAhead' = cost - Cost(at[k])
      BY <1>1, <1>7, <2>2, ChargedOn
    <3> QED
      BY <1>1, <3>1
  <2> QED
    BY <1>2, <1>3, <1>7, <1>9, <2>2, <2>3, TogetherNext
<1>10. CASE ~Succeeded(t) /\ ~Succeeded(r)
  <2>1. /\ instr_it' = 0 /\ code_it' = NoPosition /\ Failed(advanced')
        /\ Failed(baseline') /\ advanced'.output_size = 0
        /\ baseline'.output_size = 0
    BY <1>3, <1>4, <1>5, <1>6, <1>7, <1>10
  <2> QED
    BY <2>1, FailedNext
<1>11. CASE ~Succeeded(t) /\ Succeeded(r) /\ r.gas_left < d
  <2> DEFINE gas == r.gas_left
             height == Len(r.stack)
  <2>1. /\ gas \in Nat /\ height \in Nat /\ height <= StackLimit
    BY <1>5, <1>11 DEF Sound
  <2>2. ~LastOfBlock(k)
    <3>1. LastOfBlock(k) => Cost(at[k]) = cost /\ cost \in Nat
      BY <1>1, <1>2, BlockCost
    <3>2. d # 0
      BY <1>11, <2>1
    <3> QED
      BY <1>1, <3>1, <3>2
  <2>3. /\ at[k + 1].begin # k + 1 /\ at[k + 1].begin = at[k].begin
        /\ at[k + 1].gas = Cost(at[k])
    <3>1. at[k + 1].begin # k + 1
      BY <2>2 DEF LastOfBlock
    <3>2. Follows(at[k], at[k + 1], k + 1)
      BY BlockFacts
    <3> QED
      BY <3>1, <3>2 DEF Follows
  <2>4. Short(k + 1, gas, height)
    <3>1. gas < instrs[at[k + 1].begin].block.gas_cost - at[k + 1].gas
      BY <1>1, <1>11, <2>3
    <3> QED
      BY <3>1 DEF Short
  <2> HIDE DEF gas, height
  <2>5. k + 1 # Len(at)
    BY <2>1, <2>4, ShortNotLast
  <2>6. k + 1 \in 1..Len(at) - 1
    BY <1>2, <2>5
  <2>7. OfCode(at[k + 1])
    BY <2>3, <2>6, NotBeginning
  <2>8. code_it' = at[k + 1].offset /\ instr_it' = 0
    BY <1>4, <1>7, <1>8, <1>11
  <2>9. /\ Failed(advanced') /\ advanced'.output_size = 0
        /\ baseline'.output_size = 0
    BY <1>3, <1>5, <1>6, <1>7, <1>11
  <2>10. Short(k + 1, baseline'.gas_left, Len(baseline'.stack))
    BY <1>3, <2>4 DEF gas, height
  <2> QED
    BY <2>6, <2>7, <2>8, <2>9, <2>10, AloneNext
<1>12. \/ Succeeded(t) /\ r = More(t, d)
       \/ ~Succeeded(t) /\ ~Succeeded(r)
       \/ ~Succeeded(t) /\ r.gas_left < d
  BY <1>3 DEF Agree
<1> QED
  BY <1>9, <1>10, <1>11, <1>12

\* An instruction that runs with the exact gas and takes the correction back.
LEMMA TakeBackAgrees ==
    ASSUME NEW e, NEW u, NEW n, Sound(e), Runs(e, u, n), NEW d \in Nat,
           NEW t, t = TakeBack(u, d)
    PROVE  /\ Agree(t, u, d) /\ t.output_size = e.output_size
           /\ t.status # "REVERT" /\ Shaped(t)
<1>1. /\ Runs(e, t, n)
      /\ ~Succeeded(u) => t = u
      /\ Succeeded(u) => /\ t.gas_left = u.gas_left - d
                         /\ Only(u, t, {"gas_left", "status"})
                         /\ Succeeded(t) <=> u.gas_left >= d
  BY TakeBackRuns
<1>2. Sound(t) /\ Sound(u)
  BY <1>1 DEF Runs
<1>3. Shaped(t) /\ Shaped(u)
  BY <1>2 DEF Sound, Shaped
<1>4. CASE ~Succeeded(u)
  BY <1>1, <1>3, <1>4 DEF Agree, Runs
<1>5. CASE Succeeded(u) /\ Succeeded(t)
  <2>1. Only(u, t, {"gas_left"})
    BY <1>1, <1>5 DEF Only, Fields, Succeeded
  <2>2. Only(t, u, {"gas_left"})
    BY <1>3, <2>1, OnlyBack DEF Shaped
  <2>3. u.gas_left = t.gas_left + d
    BY <1>1, <1>3, <1>5 DEF Shaped
  <2>4. u = More(t, d)
    BY <1>3, <2>2, <2>3, MoreOf
  <2> QED
    BY <1>1, <1>3, <1>5, <2>4 DEF Agree, Runs
<1>6. CASE Succeeded(u) /\ ~Succeeded(t)
  <2>1. u.gas_left < d
    BY <1>1, <1>3, <1>6 DEF Shaped
  <2> QED
    BY <1>1, <1>3, <1>6, <2>1 DEF Agree, Runs
<1> QED
  BY <1>4, <1>5, <1>6

\* The instructions that end no block and push no data.
LEMMA PlainTogether ==
    ASSUME Context_, AnalysesInv, analyzed, prepared, AdvancedInv, BaselineInv,
           ContextKept, AdvancedStep, BaselineStep, instr_it # 0, NEW CONSTANT k,
           k = instr_it, at[k].begin # k, OfCode(at[k]), NEW CONSTANT op,
           op = OpAt(at[k].offset), Defined(k, op), op \notin Terminators,
           op \notin PushOps, advanced.output_size = 0, Together
    PROVE  Joint'
<1>1. PICK d : d = current_block_cost - Cost(at[k])
  OBVIOUS
<1>2. PICK c : c = More(advanced, d)
  OBVIOUS
<1>3. PICK next : next = invoke(op, c, code_it)
  OBVIOUS
<1>4. /\ k \in 1..Len(at) - 1 /\ k \in 1..Len(at)
      /\ code_it = at[k].offset /\ code_it \in Nat
      /\ d \in Nat /\ Fits(op, advanced) /\ Fits(op, c)
      /\ Shaped(advanced) /\ Ready(advanced, 0)
      /\ baseline' = next.state /\ code_it' = next.pos
      /\ current_block_cost = instrs[at[k].begin].block.gas_cost
  BY <1>1, <1>2, <1>3, InsideChecked
<1>5. op \in KnownOps /\ op # OP.JUMPDEST
  BY DEF Defined
<1>6. Sound(advanced) /\ Succeeded(advanced) /\ Sound(c) /\ Succeeded(c)
  BY <1>4 DEF Fits, Ready
<1>7. c.output_size = 0 /\ c.gas_left = advanced.gas_left + d
  BY <1>2, <1>4, MoreIs
<1>8. ASSUME NEW CONSTANT t, Shaped(t), t.output_size = 0, t.status # "REVERT",
             Continue(t), Agree(t, next.state, d)
      PROVE  Joint'
  BY <1>1, <1>3, <1>4, <1>5, <1>7, <1>8, OnwardBoth
<1>9. ASSUME NEW CONSTANT t, NEW n, Runs(advanced, t, n), Continue(t),
             Agree(t, next.state, d)
      PROVE  Joint'
  <2>1. Shaped(t) /\ t.output_size = 0 /\ t.status # "REVERT"
    BY <1>9 DEF Runs, Sound, Shaped
  <2> QED
    BY <1>8, <1>9, <2>1
<1>10. op \in GasDependent => /\ instr.number = Cost(at[k])
                              /\ gas_left_correction = d /\ exact = c
  <2>1. op \in GasDependent => instr.number = Cost(at[k])
    BY <1>4, ArgumentsTyped DEF instr
  <2> QED
    BY <1>1, <1>2, <2>1 DEF gas_left_correction, exact, More
<1>11. ASSUME NEW CONSTANT u, NEW n, Runs(exact, u, n), next.state = u,
              Continue(Corrected(u)), op \in GasDependent
       PROVE  Joint'
  <2>1. PICK t : t = TakeBack(u, d)
    OBVIOUS
  <2>2. Runs(c, u, n) /\ Continue(t)
    BY <1>10, <1>11, <2>1 DEF Corrected
  <2>3. /\ Agree(t, u, d) /\ t.output_size = 0 /\ t.status # "REVERT"
        /\ Shaped(t)
    BY <1>4, <1>6, <1>7, <2>1, <2>2, TakeBackAgrees
  <2> QED
    BY <1>8, <1>11, <2>2, <2>3
<1>12. CASE op \in GenericOps
  <2>1. PICK t : t = Generic(op, advanced)
    OBVIOUS
  <2>2. Continue(t)
    BY <1>12, <2>1, AtDefined
  <2>3. Runs(advanced, t, HeightAfter(op, advanced))
    BY <1>4, <1>12, <2>1, GenericRuns
  <2>4. next.state = Generic(op, c)
    BY <1>3, <1>5, <1>12, InvokeIs DEF At
  <2>5. Agree(t, next.state, d)
    BY <1>2, <1>4, <1>12, <2>1, <2>4, GenericAgrees
  <2> QED
    BY <1>9, <2>2, <2>3, <2>5
<1>13. CASE op = OP.SSTORE
  <2>1. PICK u : u = sstore(exact)
    OBVIOUS
  <2>2. Continue(Corrected(u))
    BY <1>13, <2>1, AtDefined
  <2>3. op \in GasDependent
    BY <1>13 DEF GasDependent
  <2>4. u = sstore(c)
    BY <1>10, <2>1, <2>3
  <2>5. Runs(exact, u, HeightAfter(op, c))
    BY <1>4, <1>10, <1>13, <2>3, <2>4, SstoreRuns, TraitsOf, FitsAs
  <2>6. next.state = u
    BY <1>3, <1>5, <1>13, <2>4, InvokeIs DEF At
  <2> QED
    BY <1>11, <2>2, <2>3, <2>5, <2>6
<1>14. CASE op \in CallOps \cup CreateOps
  <2>1. PICK u : u = CallOrCreate(op, exact)
    OBVIOUS
  <2>2. Continue(Corrected(u))
    BY <1>14, <2>1, AtDefined
  <2>3. op \in GasDependent
    BY <1>14 DEF GasDependent, CallOps, CreateOps
  <2>4. u = CallOrCreate(op, c)
    BY <1>10, <2>1, <2>3
  <2>5. Runs(exact, u, HeightAfter(op, c))
    BY <1>4, <1>10, <1>14, <2>3, <2>4, CallOrCreateRuns
  <2>6. next.state = u
    BY <1>3, <1>5, <1>14, <2>4, InvokeIs DEF At
  <2> QED
    BY <1>11, <2>2, <2>3, <2>5, <2>6
<1>15. ASSUME NEW CONSTANT x \in Word, Continue(Push(advanced, x)),
              next.state = Push(c, x), StackTraits(op) = <<0, 1>>
       PROVE  Joint'
  <2>1. PICK t : t = Push(advanced, x)
    OBVIOUS
  <2>2. Len(advanced.stack) + 1 <= StackLimit /\ Len(advanced.stack) \in Nat
    BY <1>4, <1>15, FitsAs
  <2>3. Len(advanced.stack) < StackLimit
    BY <2>2, StackLimitAssumption
  <2>4. Runs(advanced, t, Len(advanced.stack) + 1)
    BY <1>4, <2>1, <2>3, PushRuns
  <2>5. Agree(t, next.state, d)
    BY <1>2, <1>4, <1>6, <1>15, <2>1, ReplaceAgrees
  <2> QED
    BY <1>9, <1>15, <2>1, <2>4, <2>5
<1>16. CASE op = OP.GAS
  <2>1. PICK x : x = c.gas_left
    OBVIOUS
  <2>2. x \in Word
    BY <1>6, <2>1, SizesAreWords
  <2>3. op \in GasDependent
    BY <1>16 DEF GasDependent
  <2>4. Continue(Push(advanced, x))
    <3>1. Continue(Push(advanced, advanced.gas_left + gas_left_correction))
      BY <1>16, AtDefined
    <3> QED
      BY <1>7, <1>10, <2>1, <2>3, <3>1
  <2>5. next.state = Push(c, x)
    BY <1>3, <1>5, <1>16, <2>1, InvokeIs DEF At
  <2>6. StackTraits(op) = <<0, 1>>
    BY <1>16, TraitsOf
  <2> QED
    BY <1>15, <2>2, <2>4, <2>5, <2>6
<1>17. CASE op = OP.PC
  <2>1. PICK x : x = code_it
    OBVIOUS
  <2>2. x \in Word /\ instr.number = x
    BY <1>4, <1>17, <2>1, ArgumentsTyped DEF instr
  <2>3. Continue(Push(advanced, x))
    BY <1>17, <2>2, AtDefined
  <2>4. next.state = Push(c, x)
    BY <1>3, <1>5, <1>17, <2>1, InvokeIs DEF At
  <2>5. StackTraits(op) = <<0, 1>>
    BY <1>17, TraitsOf
  <2> QED
    BY <1>15, <2>2, <2>3, <2>4, <2>5
<1>18. CASE op = OP.INVALID
  <2>1. PICK t : t = Fail(advanced, "INVALID_INSTRUCTION")
    OBVIOUS
  <2>2. Runs(advanced, t, 0) /\ ~Succeeded(t)
    BY <1>6, <2>1, FailRuns
  <2>3. exit(t)
    BY <1>18, <2>1, AtDefined
  <2>4. Continue(t)
    BY <2>2, <2>3 DEF Continue, exit
  <2>5. next.state = Fail(c, "INVALID_INSTRUCTION")
    BY <1>3, <1>5, <1>18, InvokeIs DEF Exit
  <2>6. Agree(t, next.state, d)
    BY <1>2, <1>4, <2>1, <2>5, MoreFail
  <2> QED
    BY <1>9, <2>2, <2>4, <2>6
<1>19. \/ op \in GenericOps \/ op = OP.SSTORE \/ op \in CallOps \cup CreateOps
       \/ op = OP.GAS \/ op = OP.PC \/ op = OP.INVALID
  BY <1>5 DEF GenericOps, Terminators
<1> QED
  BY <1>12, <1>13, <1>14, <1>16, <1>17, <1>18, <1>19

\* Both interpreters push the same data, unless the end of the code cuts it off.
LEMMA SameData ==
    ASSUME AnalysesInv, analyzed, prepared, NEW k \in 1..Len(at) - 1,
           OfCode(at[k]), NEW pos, pos = at[k].offset, NEW n,
           OpAt(pos) \in PushOps, n = PushSize(OpAt(pos)),
           pos + n + 1 <= Len(code)
    PROVE  [j \in 1..n |-> padded_code[pos + j]] = DataAt(pos)
<1>1. pos \in Nat /\ n \in 1..32 /\ Len(code) \in Nat
  BY AfterPushed, TableFacts DEF AnalysesInv
<1>2. \A j \in 0..Len(code) - 1 : padded_code[j] = code[j + 1]
  BY DEF AnalysesInv, PaddingInv
<1>3. ASSUME NEW j \in 1..n
      PROVE  padded_code[pos + j] = DataAt(pos)[j]
  <2>1. /\ pos + j \in 0..Len(code) - 1 /\ pos + 1 + j <= Len(code)
        /\ pos + 1 + j = pos + j + 1
    <3>1. PICK size : size = Len(code)
      OBVIOUS
    <3>2. /\ pos \in Nat /\ n \in Nat /\ j \in Nat /\ j <= n /\ size \in Nat
          /\ pos + n + 1 <= size
      <4>1. n \in 1..32 /\ j \in 1..n
        BY <1>1
      <4>2. n \in Nat /\ j \in Nat /\ j <= n
        BY ONLY <4>1
      <4> QED
        BY <1>1, <3>1, <4>2
    <3>3. /\ pos + j \in 0..size - 1 /\ pos + 1 + j <= size
          /\ pos + 1 + j = pos + j + 1
      BY ONLY <3>2
    <3> QED
      BY <3>1, <3>3
  <2>2. padded_code[pos + j] = code[pos + 1 + j]
    BY <1>2, <2>1
  <2> QED
    BY <2>1, <2>2 DEF DataAt
<1> QED
  BY <1>3 DEF DataAt

\* Nothing is charged for after a push that the end of the code cuts off.
LEMMA NothingAhead ==
    ASSUME AnalysesInv, analyzed, NEW k \in 1..Len(at) - 1,
           at[k].next = Len(code)
    PROVE  /\ at[k + 1].offset = Len(code)
           /\ Cost(at[k]) = instrs[at[k].begin].block.gas_cost
<1>1. /\ Len(at) \in Nat /\ k \in Nat /\ k \in 1..Len(at) /\ k + 1 \in 1..Len(at)
      /\ Len(code) \in Nat /\ at[k + 1].offset = Len(code)
  <2>1. Len(at) \in Nat /\ Len(code) \in Nat /\ at[k + 1].offset = Len(code)
    BY TableFacts DEF AnalysesInv
  <2> QED
    BY <2>1
<1>2. CASE at[k + 1].begin = k + 1
  BY <1>1, <1>2, BlockCost DEF LastOfBlock
<1>3. CASE at[k + 1].begin # k + 1
  <2>1. k + 1 = Len(at)
    <3> SUFFICES ASSUME k + 1 # Len(at)
                 PROVE  FALSE
      OBVIOUS
    <3>1. k + 1 \in 1..Len(at) - 1
      BY <1>1
    <3>2. at[k + 1].offset < Len(code)
      BY <1>3, <3>1, NotBeginning
    <3> QED
      BY <1>1, <3>2
  <2>2. Follows(at[k], at[k + 1], k + 1)
    BY BlockFacts
  <2>3. at[k + 1].begin = at[k].begin /\ at[k + 1].gas = Cost(at[k])
    BY <1>3, <2>2 DEF Follows
  <2>4. at[k + 1].info.gas_cost = 0
    BY <2>1, LastIs
  <2>5. Cost(at[k + 1]) = Cost(at[k])
    <3>1. Cost(at[k]) \in Nat
      BY <1>1, EntryFacts
    <3>2. Cost(at[k + 1]) = at[k + 1].gas + at[k + 1].info.gas_cost
      BY DEF Cost
    <3> QED
      BY <2>3, <2>4, <3>1, <3>2
  <2>6. LastOfBlock(k + 1)
    BY <2>1 DEF LastOfBlock
  <2> QED
    BY <1>1, <2>3, <2>5, <2>6, BlockCost
<1> QED
  BY <1>1, <1>2, <1>3

LEMMA DropPushed ==
    ASSUME NEW s, Sound(s), NEW x \in Word, Len(s.stack) < StackLimit,
           NEW t, t = Push(s, x)
    PROVE  Drop(t, 1).stack = s.stack
<1>1. Sound(t) /\ t.stack = Append(s.stack, x) /\ Len(t.stack) = Len(s.stack) + 1
  BY PushSound
<1>2. s.stack \in Seq(Word) /\ Len(s.stack) \in Nat
  BY DEF Sound
<1>3. Drop(t, 1).stack = SubSeq(t.stack, 1, Len(t.stack) - 1)
  <2>1. Len(t.stack) >= 1
    BY <1>1, <1>2
  <2> QED
    BY <1>1, <2>1, DropSound
<1>4. Len(t.stack) - 1 = Len(s.stack)
  BY <1>1, <1>2
<1>5. SubSeq(Append(s.stack, x), 1, Len(s.stack)) = s.stack
  <2>1. PICK q \in Seq(Word) : q = s.stack
    BY <1>2
  <2>2. SubSeq(Append(q, x), 1, Len(q)) = q
    OBVIOUS
  <2> QED
    BY <2>1, <2>2
<1> QED
  BY <1>1, <1>3, <1>4, <1>5

\* PUSH.
LEMMA PushTogether ==
    ASSUME Context_, AnalysesInv, analyzed, prepared, AdvancedInv, BaselineInv,
           ContextKept, AdvancedStep, BaselineStep, instr_it # 0, NEW CONSTANT k,
           k = instr_it, at[k].begin # k, OfCode(at[k]), NEW CONSTANT op,
           op = OpAt(at[k].offset), Defined(k, op), op \in PushOps,
           advanced.output_size = 0, Together
    PROVE  Joint'
<1>1. PICK d : d = current_block_cost - Cost(at[k])
  OBVIOUS
<1>2. PICK c : c = More(advanced, d)
  OBVIOUS
<1>3. PICK next : next = invoke(op, c, code_it)
  OBVIOUS
<1>4. /\ k \in 1..Len(at) - 1 /\ k \in 1..Len(at) /\ k + 1 \in 1..Len(at)
      /\ code_it = at[k].offset /\ code_it \in Nat
      /\ d \in Nat /\ Fits(op, advanced) /\ Fits(op, c)
      /\ Shaped(advanced) /\ Ready(advanced, 0)
      /\ baseline' = next.state /\ code_it' = next.pos
      /\ current_block_cost = instrs[at[k].begin].block.gas_cost
  BY <1>1, <1>2, <1>3, InsideChecked
<1>5. op \in KnownOps /\ AnalysisInv /\ TableInv
  BY DEF Defined, AnalysesInv
<1>6. Sound(advanced) /\ Succeeded(advanced) /\ Sound(c) /\ Succeeded(c)
  BY <1>4 DEF Fits, Ready
<1>7. PICK n : n = PushSize(op)
  OBVIOUS
<1>8. PICK pos : pos = at[k].offset
  OBVIOUS
<1>9. PICK x : x = be_load(DataAt(pos))
  OBVIOUS
<1>10. PICK y : y = be_load([j \in 1..n |-> padded_code[pos + j]])
  OBVIOUS
<1>11. /\ pos \in Nat /\ n \in 1..32 /\ pos + n + 1 \in Nat
       /\ pos + n <= scan_pos
       /\ \/ /\ pos + n + 1 = at[k].next /\ pos + n + 1 <= Len(code)
          \/ /\ pos + n + 1 = scan_pos /\ scan_pos > Len(code)
             /\ at[k].next = Len(code)
  BY <1>4, <1>7, <1>8, AfterPushed
<1>12. x \in Word
  BY <1>5, <1>8, <1>9, <1>11, DataIsWord
<1>13. y \in Word
  <2>1. n \in Nat
    <3>1. n \in 1..32
      BY <1>11
    <3> QED
      BY ONLY <3>1
  <2> QED
    BY <1>10, <1>11, <2>1, PushedIsWord
<1>14. PICK t : t = Push(advanced, x)
  OBVIOUS
<1>15. PICK r : r = Push(c, y)
  OBVIOUS
<1>16. /\ Len(advanced.stack) < StackLimit /\ Len(c.stack) < StackLimit
       /\ c.stack = advanced.stack
  <2>1. StackTraits(op) = <<0, 1>>
    BY TraitsOf
  <2>2. Len(advanced.stack) + 1 <= StackLimit /\ Len(advanced.stack) \in Nat
    BY <1>4, <2>1, FitsAs
  <2>3. c.stack = advanced.stack
    BY <1>2, <1>4, MoreIs
  <2> QED
    BY <2>2, <2>3, StackLimitAssumption
<1>17. /\ Runs(advanced, t, Len(advanced.stack) + 1) /\ Succeeded(t)
       /\ t.output_size = 0 /\ Only(advanced, t, {"stack"}) /\ Sound(t)
  <2>1. Only(advanced, t, {"stack"}) /\ Sound(t)
    BY <1>6, <1>12, <1>14, <1>16, PushSound
  <2>2. Runs(advanced, t, Len(advanced.stack) + 1)
    BY <1>4, <1>12, <1>14, <1>16, PushRuns
  <2>3. t.status = advanced.status
    BY <2>1 DEF Only, Fields
  <2> QED
    BY <1>6, <2>1, <2>2, <2>3 DEF Runs, Succeeded
<1>18. Only(c, r, {"stack"}) /\ Sound(r) /\ Succeeded(r)
  <2>1. Only(c, r, {"stack"}) /\ Sound(r)
    BY <1>6, <1>13, <1>15, <1>16, PushSound
  <2>2. r.status = c.status
    BY <2>1 DEF Only, Fields
  <2> QED
    BY <1>6, <2>1, <2>2 DEF Succeeded
<1>19. Continue(t)
  <2>1. Translated(instrs[k], at[k], k, push_values)
    BY <1>4, <1>5, OfCodeIsTranslated
  <2>2. /\ n <= SmallPushMax => instr.small_push_value = DataAt(pos)
        /\ n > SmallPushMax => push_values[instr.push_value] = DataAt(pos)
    BY <1>7, <1>8, <2>1 DEF Translated, ArgumentOf, instr
  <2> QED
    BY <1>7, <1>9, <1>14, <2>2, AtDefined
<1>20. /\ advanced' = t /\ instr_it' = k + 1
       /\ current_block_cost' = current_block_cost
  BY <1>17, <1>19 DEF Continue
<1>21. baseline' = r /\ code_it' = pos + n + 1
  <2>1. next = push(c, pos, n)
    BY <1>3, <1>4, <1>5, <1>7, <1>8, InvokeIs
  <2>2. next = At(r, pos + n + 1)
    BY <1>10, <1>15, <2>1 DEF push
  <2>3. next.state = r /\ next.pos = pos + n + 1
    BY <1>18, <2>2 DEF At
  <2> QED
    BY <1>4, <2>3
<1>22. ChargedAhead' = d /\ at[k + 1].offset = at[k].next
  <2>1. PICK cost : cost = current_block_cost
    OBVIOUS
  <2>2. /\ ChargedAhead' = cost - Cost(at[k])
        /\ at[k + 1].offset = at[k].next
    BY <1>4, <1>20, <2>1, ChargedOn
  <2> QED
    BY <1>1, <2>1, <2>2
<1>23. CASE pos + n + 1 = at[k].next /\ pos + n + 1 <= Len(code)
  <2>1. x = y
    <3>1. OpAt(pos) \in PushOps /\ n = PushSize(OpAt(pos))
      BY <1>7, <1>8
    <3>2. pos + n + 1 <= Len(code)
      BY <1>23
    <3>3. [j \in 1..n |-> padded_code[pos + j]] = DataAt(pos)
      BY ONLY AnalysesInv, analyzed, prepared, OfCode(at[k]), <1>4, <1>8,
              <3>1, <3>2, SameData
    <3> QED
      BY <1>9, <1>10, <3>3
  <2>2. r = More(t, d)
    BY <1>2, <1>4, <1>14, <1>15, <2>1, MorePush
  <2> QED
    BY <1>4, <1>17, <1>20, <1>21, <1>22, <1>23, <2>2, TogetherNext
<1>24. CASE pos + n + 1 = scan_pos /\ scan_pos > Len(code) /\ at[k].next = Len(code)
  <2>1. d = 0
    <3>1. Cost(at[k]) = current_block_cost
      BY <1>4, <1>24, NothingAhead
    <3>2. Cost(at[k]) \in Nat
      BY <1>4, EntryFacts
    <3> QED
      BY <1>1, <3>1, <3>2
  <2>2. c = advanced
    BY <1>2, <1>4, <2>1, MoreNothing
  <2>3. Only(t, r, {"stack"})
    <3>1. Only(t, advanced, {"stack"})
      BY <1>4, <1>17, OnlyBack DEF Shaped
    <3> QED
      BY <1>18, <2>2, <3>1, OnlyTwice
  <2>4. Drop(t, 1).stack = Drop(r, 1).stack
    BY <1>6, <1>12, <1>13, <1>14, <1>15, <1>16, <2>2, DropPushed
  <2>5. /\ at' = at /\ code' = code /\ scan_pos' = scan_pos
    BY DEF ContextKept, analysisVars, advancedAnalysisVars,
           baselineAnalysisVars
  <2>6. Only(advanced, baseline, {"stack"})'
    BY <1>20, <1>21, <2>3 DEF Only
  <2>7. (Drop(advanced, 1).stack = Drop(baseline, 1).stack)'
    BY <1>20, <1>21, <2>4 DEF Drop, Needs
  <2>8. (at[instr_it].offset = Len(code))'
    BY <1>20, <1>22, <1>24, <2>5
  <2>9. (code_it = scan_pos)' /\ (scan_pos > Len(code))'
    BY <1>21, <1>24, <2>5
  <2>10. CutOff'
    BY <1>22, <2>1, <2>6, <2>7, <2>8, <2>9 DEF CutOff
  <2>11. (instr_it # 0)' /\ (code_it # NoPosition)' /\ (advanced.output_size = 0)'
    BY <1>4, <1>11, <1>17, <1>20, <1>21 DEF NoPosition
  <2> QED
    BY <2>10, <2>11 DEF Joint
<1> QED
  BY <1>11, <1>23, <1>24

\* What op_return of Advanced leaves of a state.
Returned(s, c) ==
    LET offset == Item(s, 0)
        size == Item(s, 1)
        u == check_memory(Needs(s, 2), offset, size)
    IN  IF Succeeded(u)
        THEN [TouchMemory(u, size_t(offset), size) EXCEPT
                !.output_size = size_t(size),
                !.output_offset = IF size_t(size) # 0
                                  THEN size_t(offset) ELSE @,
                !.status = c]
        ELSE u

\* A RETURN or REVERT gives the same result in both; they differ only in the
\* offset they leave for an output without bytes.
LEMMA ReturnsAgree ==
    ASSUME NEW s, Ready(s, 2), s.output_size = 0, NEW c,
           c \in {"SUCCESS", "REVERT"}, NEW t, t = Returned(s, c),
           NEW r, r = return_(s, c)
    PROVE  \/ /\ Failed(t) /\ Failed(r)
              /\ t.output_size = 0 /\ r.output_size = 0
           \/ ~Failed(t) /\ Result(t) = Result(r) /\ t.host = r.host
<1>1. PICK offset : offset = Item(s, 0)
  OBVIOUS
<1>2. PICK size : size = Item(s, 1)
  OBVIOUS
<1>3. PICK u : u = check_memory(Needs(s, 2), offset, size)
  OBVIOUS
<1>4. offset \in Nat /\ size \in Nat /\ Sound(s) /\ Succeeded(s)
  BY <1>1, <1>2, ItemIsWord DEF Ready
<1>5. Needs(s, 2) = s
  BY NeedsMet DEF Ready
<1>6. /\ Runs(s, u, Len(s.stack))
      /\ Succeeded(u) => Covered(u, offset, size)
  BY <1>3, <1>4, <1>5, CheckRuns
<1>7. r = IF Succeeded(u)
          THEN [TouchMemory(u, size_t(offset), size) EXCEPT
                  !.output_offset = size_t(offset),
                  !.output_size = size_t(size), !.status = c]
          ELSE u
  BY <1>1, <1>2, <1>3 DEF return_, Then
<1>8. t = IF Succeeded(u)
          THEN [TouchMemory(u, size_t(offset), size) EXCEPT
                  !.output_size = size_t(size),
                  !.output_offset = IF size_t(size) # 0
                                    THEN size_t(offset) ELSE @,
                  !.status = c]
          ELSE u
  BY <1>1, <1>2, <1>3 DEF Returned
<1>9. CASE ~Succeeded(u)
  BY <1>6, <1>7, <1>8, <1>9, RunsFailed
<1>10. CASE Succeeded(u)
  <2>1. Sound(u)
    BY <1>6 DEF Runs
  <2>2. TouchMemory(u, size_t(offset), size) = u
    BY <1>4, <1>6, <1>10, <2>1, TouchCovered
  <2>3. PICK n : n = size_t(size)
    OBVIOUS
  <2>4. PICK m : m = size_t(offset)
    OBVIOUS
  <2>5. /\ r = [u EXCEPT !.output_offset = m, !.output_size = n, !.status = c]
        /\ t = [u EXCEPT !.output_size = n,
                         !.output_offset = IF n # 0 THEN m ELSE @,
                         !.status = c]
    BY <1>7, <1>8, <1>10, <2>2, <2>3, <2>4
  <2>6. u = [f \in Fields |-> u[f]]
    BY <2>1 DEF Sound
  <2>7. /\ r.status = c /\ r.gas_left = u.gas_left /\ r.output_size = n
        /\ r.output_offset = m /\ r.memory = u.memory /\ r.host = u.host
    BY <2>5, <2>6 DEF Fields
  <2>8. /\ t.status = c /\ t.gas_left = u.gas_left /\ t.output_size = n
        /\ n # 0 => t.output_offset = m
        /\ t.memory = u.memory /\ t.host = u.host
    BY <2>5, <2>6 DEF Fields
  <2>9. Result(t) = Result(r)
    BY <2>7, <2>8 DEF Result, ReadMemory
  <2>10. ~Failed(t)
    BY <2>8 DEF Failed
  <2> QED
    BY <2>7, <2>8, <2>9, <2>10
<1> QED
  BY <1>9, <1>10

\* A jump of both.
LEMMA JumpBoth ==
    ASSUME AnalysesInv, analyzed, prepared, ContextKept, NEW CONSTANT s,
           Sound(s), Succeeded(s), s.output_size = 0, NEW CONSTANT dst \in Nat,
           NEW CONSTANT next, next = jump_impl(s, dst), JumpTo(s, dst),
           baseline' = next.state, code_it' = next.pos
    PROVE  Joint'
<1>1. AnalysisInv /\ TableInv /\ Len(code) \in Nat /\ code \in Codes
      /\ Len(at) = Len(instrs)
  BY TableFacts DEF AnalysesInv
<1>2. PICK pc : pc = IF IntMax < dst THEN 0 ELSE find_jumpdest(dst)
  OBVIOUS
<1>3. /\ advanced' = IF pc = 0 THEN Fail(s, "BAD_JUMP_DESTINATION") ELSE s
      /\ instr_it' = pc
  BY <1>2 DEF JumpTo
<1>4. /\ Runs(s, next.state, Len(s.stack))
      /\ next.pos # NoPosition => next.state = s /\ next.pos = dst
      /\ next.pos = NoPosition <=> ~IsJumpdest(dst)
      /\ next.pos = NoPosition
           => next.state.status = "BAD_JUMP_DESTINATION"
  BY JumpLands
<1>5. find_jumpdest(dst) # 0 <=> IsJumpdest(dst)
  BY <1>1, FindJumpdestExact
<1>6. CASE ~IsJumpdest(dst)
  <2>1. pc = 0
    BY <1>2, <1>5, <1>6
  <2>2. PICK t : t = Fail(s, "BAD_JUMP_DESTINATION")
    OBVIOUS
  <2>3. Runs(s, t, 0) /\ ~Succeeded(t)
    BY <2>2, FailRuns
  <2>4. Failed(t) /\ t.output_size = 0
    BY <2>3, RunsFailed
  <2>5. next.state.output_size = 0 /\ Failed(next.state)
    BY <1>4, <1>6 DEF Runs, Failed
  <2>6. /\ instr_it' = 0 /\ code_it' = NoPosition /\ advanced' = t
    BY <1>3, <1>4, <1>6, <2>1, <2>2
  <2> QED
    BY <2>4, <2>5, <2>6, FailedNext
<1>7. CASE IsJumpdest(dst)
  <2>1. dst <= IntMax
    <3>1. dst <= Len(code)
      BY <1>1, <1>7, TableFacts DEF IsJumpdest, OfCode
    <3>2. /\ Len(code) <= max_code_size /\ max_code_size <= IntMax
          /\ max_code_size \in Nat /\ IntMax \in Nat
      BY <1>1, CodeSizeAssumption, IntMaxAssumption, LimitFacts
    <3> QED
      BY <1>1, <3>1, <3>2
  <2>2. pc = find_jumpdest(dst) /\ pc # 0
    <3>1. ~(IntMax < dst)
      BY <2>1, IntMaxAssumption
    <3> QED
      BY <1>2, <1>5, <1>7, <3>1
  <2>3. PICK i \in 1..Len(jumpdest_offsets) : jumpdest_offsets[i] = dst
    BY <1>1, <2>2, FindJumpdestFails
  <2>4. pc = jumpdest_targets[i]
    BY <1>1, <2>2, <2>3, FindJumpdestFinds
  <2>5. pc \in 1..Len(at) /\ at[pc].begin = pc /\ at[pc].offset = dst
    BY <1>1, <2>3, <2>4 DEF AnalysisInv, JumpdestInv, JumpdestIndexSound
  <2>6. ChargedAhead' = 0
    BY <1>3, <2>5, ChargedAtNext
  <2>7. More(s, 0) = s
    BY MoreNothing DEF Sound, Shaped
  <2>8. /\ baseline' = More(advanced', 0) /\ code_it' = at[pc].offset
        /\ advanced'.output_size = 0
    BY <1>3, <1>4, <1>7, <2>2, <2>5, <2>7
  <2> QED
    BY <1>3, <2>5, <2>6, <2>8, TogetherNext
<1> QED
  BY <1>6, <1>7

\* The instructions that end a block. Nothing is charged ahead after them.
LEMMA TerminatorTogether ==
    ASSUME Context_, AnalysesInv, analyzed, prepared, AdvancedInv, BaselineInv,
           ContextKept, AdvancedStep, BaselineStep, instr_it # 0, NEW CONSTANT k,
           k = instr_it, at[k].begin # k, OfCode(at[k]), NEW CONSTANT op,
           op = OpAt(at[k].offset), Defined(k, op), op \in Terminators,
           advanced.output_size = 0, Together
    PROVE  Joint'
<1>1. PICK d : d = current_block_cost - Cost(at[k])
  OBVIOUS
<1>2. PICK c : c = More(advanced, d)
  OBVIOUS
<1>3. PICK next : next = invoke(op, c, code_it)
  OBVIOUS
<1>4. /\ k \in 1..Len(at) - 1 /\ k \in 1..Len(at) /\ k + 1 \in 1..Len(at)
      /\ code_it = at[k].offset /\ code_it \in Nat
      /\ Fits(op, advanced) /\ Shaped(advanced) /\ Ready(advanced, 0)
      /\ baseline' = next.state /\ code_it' = next.pos
      /\ current_block_cost = instrs[at[k].begin].block.gas_cost
      /\ LastOfBlock(k) => d = 0
  BY <1>1, <1>2, <1>3, InsideChecked
<1>5. d = 0
  <2>1. at[k + 1].begin = k + 1
    BY <1>4 DEF AnalysesInv, TableInv, Ordered
  <2> QED
    BY <1>4, <2>1 DEF LastOfBlock
<1>6. c = advanced
  BY <1>2, <1>4, <1>5, MoreNothing
<1>7. PICK s : s = advanced
  OBVIOUS
<1>8. /\ Sound(s) /\ Succeeded(s) /\ s.output_size = 0 /\ op \in KnownOps
      /\ next = invoke(op, s, code_it)
  BY <1>3, <1>4, <1>6, <1>7 DEF Fits, Ready, Defined
<1>9. CASE op = OP.STOP
  <2>1. advanced' = s /\ instr_it' = 0
    BY <1>7, <1>9, AtDefined DEF exit
  <2>2. baseline' = s /\ code_it' = NoPosition
    BY <1>4, <1>8, <1>9, InvokeIs DEF Exit
  <2>3. ~Failed(s)
    BY <1>8 DEF Failed, Succeeded
  <2> QED
    BY <2>1, <2>2, <2>3, EndedNext
<1>10. CASE op \in {OP.RETURN, OP.REVERT}
  <2>1. PICK e : e = IF op = OP.RETURN THEN "SUCCESS" ELSE "REVERT"
    OBVIOUS
  <2>2. PICK t : t = Returned(s, e)
    OBVIOUS
  <2>3. PICK r : r = return_(s, e)
    OBVIOUS
  <2>4. Ready(s, 2)
    <3>1. StackTraits(op) = <<2, -2>>
      BY <1>10, TraitsOf
    <3> QED
      BY <1>4, <1>7, <3>1, FitsAs
  <2>5. advanced' = t /\ instr_it' = 0
    <3>1. op_return /\ instr.fn = op
      BY <1>10, AtDefined DEF Defined, instr
    <3> QED
      BY <1>7, <2>1, <2>2, <3>1 DEF op_return, exit, Then, Returned
  <2>6. baseline' = r /\ code_it' = NoPosition
    <3>1. OP.RETURN # OP.REVERT
      BY FunctionKinds
    <3>2. next = Exit(r)
      BY <1>8, <1>10, <2>1, <2>3, <3>1, InvokeIs
    <3> QED
      BY <1>4, <3>2 DEF Exit
  <2>7. \/ /\ Failed(t) /\ Failed(r)
           /\ t.output_size = 0 /\ r.output_size = 0
        \/ ~Failed(t) /\ Result(t) = Result(r) /\ t.host = r.host
    <3>1. e \in {"SUCCESS", "REVERT"}
      BY <2>1
    <3> QED
      BY <1>8, <2>2, <2>3, <2>4, <3>1, ReturnsAgree
  <2>8. CASE Failed(t) /\ Failed(r) /\ t.output_size = 0 /\ r.output_size = 0
    BY <2>5, <2>6, <2>8, FailedNext
  <2>9. CASE ~Failed(t) /\ Result(t) = Result(r) /\ t.host = r.host
    BY <2>5, <2>6, <2>9, EndedNext
  <2> QED
    BY <2>7, <2>8, <2>9
<1>11. CASE op = OP.SELFDESTRUCT
  <2>1. PICK t : t = selfdestruct(s)
    OBVIOUS
  <2>2. Ready(s, 1)
    <3>1. StackTraits(op) = <<1, -1>>
      BY <1>11, TraitsOf
    <3> QED
      BY <1>4, <1>7, <3>1, FitsAs
  <2>3. advanced' = t /\ instr_it' = 0
    BY <1>7, <1>11, <2>1, AtDefined DEF exit
  <2>4. baseline' = t /\ code_it' = NoPosition
    BY <1>4, <1>8, <1>11, <2>1, InvokeIs DEF Exit
  <2>5. t.output_size = 0
    <3>1. Runs(s, t, Len(s.stack))
      BY <2>1, <2>2, SelfdestructRuns
    <3> QED
      BY <1>8, <3>1 DEF Runs
  <2>6. CASE Failed(t)
    BY <2>3, <2>4, <2>5, <2>6, FailedNext
  <2>7. CASE ~Failed(t)
    BY <2>3, <2>4, <2>7, EndedNext
  <2> QED
    BY <2>6, <2>7
<1>12. ASSUME NEW n \in Nat, Ready(s, n), NEW t, t = Drop(s, n)
       PROVE  /\ Sound(t) /\ Succeeded(t) /\ t.output_size = 0
              /\ Item(s, 0) \in Nat
  <2>1. Sound(t) /\ Only(s, t, {"stack"})
    BY <1>8, <1>12, DropSound DEF Ready
  <2>2. t.status = s.status /\ t.output_size = s.output_size
    BY <2>1 DEF Only, Fields
  <2> QED
    BY <1>8, <2>1, <2>2, ItemIsWord DEF Succeeded
<1>13. CASE op = OP.JUMP
  <2>1. Ready(s, 1)
    <3>1. StackTraits(op) = <<1, -1>>
      BY <1>13, TraitsOf
    <3> QED
      BY <1>4, <1>7, <3>1, FitsAs
  <2>2. PICK t : t = Drop(s, 1)
    OBVIOUS
  <2>3. PICK dst : dst = Item(s, 0)
    OBVIOUS
  <2>4. Sound(t) /\ Succeeded(t) /\ t.output_size = 0 /\ dst \in Nat
    BY <1>12, <2>1, <2>2, <2>3
  <2>5. JumpTo(t, dst)
    BY <1>7, <1>13, <2>2, <2>3, AtDefined
  <2>6. next = jump_impl(t, dst)
    BY <1>8, <1>13, <2>2, <2>3, InvokeIs DEF jump
  <2> QED
    BY <1>4, <2>4, <2>5, <2>6, JumpBoth
<1>14. CASE op = OP.JUMPI
  <2>1. Ready(s, 2)
    <3>1. StackTraits(op) = <<2, -2>>
      BY <1>14, TraitsOf
    <3> QED
      BY <1>4, <1>7, <3>1, FitsAs
  <2>2. PICK t : t = Drop(s, 2)
    OBVIOUS
  <2>3. PICK dst : dst = Item(s, 0)
    OBVIOUS
  <2>4. Sound(t) /\ Succeeded(t) /\ t.output_size = 0 /\ dst \in Nat
    BY <1>12, <2>1, <2>2, <2>3
  <2>5. next = jumpi(s, code_it)
    BY <1>8, <1>14, InvokeIs
  <2>6. CASE Item(s, 1) # 0
    <3>1. JumpTo(t, dst)
      BY <1>7, <1>14, <2>2, <2>3, <2>6, AtDefined
    <3>2. next = jump_impl(t, dst)
      BY <2>2, <2>3, <2>5, <2>6 DEF jumpi
    <3> QED
      BY <1>4, <2>4, <3>1, <3>2, JumpBoth
  <2>7. CASE Item(s, 1) = 0
    <3>1. Continue(t)
      BY <1>7, <1>14, <2>2, <2>7, AtDefined
    <3>2. next = At(t, code_it + 1)
      BY <2>2, <2>5, <2>7 DEF jumpi
    <3>3. baseline' = t /\ code_it' = code_it + 1
      BY <1>4, <2>4, <3>2 DEF At
    <3>4. /\ advanced' = t /\ instr_it' = k + 1
          /\ current_block_cost' = current_block_cost
      BY <2>4, <3>1 DEF Continue
    <3>5. code_it + 1 = at[k].next
      <4>1. op \notin PushOps
        BY <1>14, FunctionKinds
      <4>2. Translated(instrs[k], at[k], k, push_values)
        BY <1>4, OfCodeIsTranslated DEF AnalysesInv
      <4> QED
        BY <1>4, <4>1, <4>2, NextPosition
    <3>6. ChargedAhead' = 0 /\ at[k + 1].offset = at[k].next
      <4>1. PICK cost : cost = current_block_cost
        OBVIOUS
      <4>2. /\ ChargedAhead' = cost - Cost(at[k])
            /\ at[k + 1].offset = at[k].next
        BY <1>4, <3>4, <4>1, ChargedOn
      <4> QED
        BY <1>1, <1>5, <4>1, <4>2
    <3>7. More(t, 0) = t
      BY <2>4, MoreNothing DEF Sound, Shaped
    <3> QED
      BY <1>4, <2>4, <3>3, <3>4, <3>5, <3>6, <3>7, TogetherNext
  <2> QED
    BY <2>6, <2>7
<1> QED
  BY <1>9, <1>10, <1>11, <1>13, <1>14 DEF Terminators

\* The STOP after the code, and the one after the data of a push it cuts off.
LEMMA StopBoth ==
    ASSUME Context_, AnalysesInv, analyzed, prepared, AdvancedInv, BaselineInv,
           AdvancedStep, BaselineStep, instr_it = Len(at),
           instr_it # 0, code_it # NoPosition, advanced.output_size = 0,
           Together \/ CutOff
    PROVE  Joint'
<1>1. PICK k : k = instr_it
  OBVIOUS
<1>2. /\ k \in 1..Len(at) /\ at[k].offset = Len(code) /\ at[k].begin # k
      /\ Defined(k, OP.STOP)
      /\ at[k].info.gas_cost = 0 /\ gas_costs[rev][OP.STOP] = 0
  BY <1>1, LastIs
<1>3. /\ Sound(advanced) /\ Succeeded(advanced) /\ Sound(baseline)
      /\ Succeeded(baseline) /\ rev \in Revisions
  BY DEF AdvancedInv, BaselineInv, Context_
<1>4. advanced' = advanced /\ instr_it' = 0
  BY <1>1, <1>2, AtDefined DEF exit
<1>5. ChargedAhead = 0
  <2>1. ChargedAhead = current_block_cost - at[k].gas
    BY <1>1, <1>2, ChargedAt
  <2>2. current_block_cost = instrs[at[k].begin].block.gas_cost
    BY <1>1, <1>2 DEF AdvancedInv, Inside
  <2>3. Cost(at[k]) = current_block_cost
    BY <1>1, <1>2, <2>2, BlockCost DEF LastOfBlock
  <2>4. at[k].gas \in Nat /\ Cost(at[k]) = at[k].gas + at[k].info.gas_cost
    BY <1>2, EntryFacts
  <2>5. Cost(at[k]) = at[k].gas
    BY <1>2, <2>4
  <2> QED
    BY <2>1, <2>3, <2>4, <2>5
<1>6. Only(advanced, baseline, {"stack"})
  <2>1. CASE Together
    <3>1. baseline = advanced
      BY <1>3, <1>5, <2>1, MoreNothing DEF Together, Sound, Shaped
    <3> QED
      BY <1>3, <3>1 DEF Only, Sound
  <2>2. CASE CutOff
    BY <2>2 DEF CutOff
  <2> QED
    BY <2>1, <2>2
<1>7. padded_code[code_it] = OP.STOP
  <2>1. code_it = Len(code) \/ code_it = scan_pos
    BY <1>1, <1>2 DEF Together, CutOff
  <2> QED
    BY <2>1 DEF AnalysesInv, PaddingInv
<1>8. PICK c : c = check_requirements(BaselineTable[rev][OP.STOP], baseline)
  OBVIOUS
<1>9. c = baseline
  <2>1. OP.STOP \in Byte /\ StackTraits(OP.STOP) = <<0, 0>>
    BY TraitsOf DEF OP, Byte
  <2>2. /\ Len(baseline.stack) >= StackTraits(OP.STOP)[1]
        /\ Len(baseline.stack) + StackTraits(OP.STOP)[2] <= StackLimit
        /\ baseline.gas_left >= 0 /\ baseline.gas_left \in Int
    BY <1>3, <2>1 DEF Sound
  <2>3. /\ Succeeded(c) /\ Only(baseline, c, {"gas_left"})
        /\ c.gas_left = baseline.gas_left - 0
    BY <1>2, <1>3, <1>8, <2>1, <2>2, CheckPasses
  <2>4. c.gas_left = baseline.gas_left
    BY <2>2, <2>3
  <2>5. baseline = [f \in Fields |-> baseline[f]]
    BY <1>3 DEF Sound
  <2> QED
    BY <2>3, <2>4, <2>5 DEF Only
<1>10. baseline' = baseline /\ code_it' = NoPosition
  <2>1. PICK next : next = Iteration(OP.STOP, baseline, code_it)
    OBVIOUS
  <2>2. next = invoke(OP.STOP, baseline, code_it)
    BY <1>3, <1>8, <1>9, <2>1 DEF Iteration, Run
  <2>3. next = Exit(baseline)
    BY <1>2, <2>2, InvokeIs DEF Defined
  <2>4. baseline' = next.state /\ code_it' = next.pos
    BY <1>7, <2>1 DEF BaselineStep
  <2> QED
    BY <2>3, <2>4 DEF Exit
<1>11. PICK a : a = advanced
  OBVIOUS
<1>12. PICK b : b = baseline
  OBVIOUS
<1>13. /\ a.status = b.status /\ a.gas_left = b.gas_left /\ a.host = b.host
       /\ a.output_size = 0 /\ b.output_size = 0 /\ ~Failed(a)
  BY <1>3, <1>6, <1>11, <1>12 DEF Only, Fields, Failed, Succeeded
<1>14. Result(a) = Result(b)
  BY <1>13 DEF Result
<1> QED
  BY <1>4, <1>10, <1>11, <1>12, <1>13, <1>14, EndedNext

\* The blocks that Advanced enters alone.
LEMMA InjectedBlock ==
    ASSUME AnalysesInv, analyzed, NEW k, k = instr_it, k \in 1..Len(at)
    PROVE  AtInjectedBlock <=> at[k].begin = k /\ ~OfCode(at[k])
<1>1. AnalysisInv /\ TableInv
  BY DEF AnalysesInv
<1>2. /\ Len(jumpdest_targets) = Len(jumpdest_offsets)
      /\ DOMAIN jumpdest_targets = 1..Len(jumpdest_targets)
  BY <1>1 DEF AnalysisInv, JumpdestInv, JumpdestIndexSound,
              AdvancedAnalysisTypeOK
<1>3. instr.fn = OPX_BEGINBLOCK <=> at[k].begin = k
  BY BeginningIs DEF instr
<1>4. ASSUME at[k].begin = k, OfCode(at[k])
      PROVE  k \in Range(jumpdest_targets)
  <2>1. Translated(instrs[k], at[k], k, push_values)
    BY <1>1, <1>4, OfCodeIsTranslated
  <2>2. OpAt(at[k].offset) = OP.JUMPDEST
    BY <1>4, <2>1 DEF Translated
  <2>3. PICK j \in 1..Len(jumpdest_offsets) : jumpdest_targets[j] = k
    BY <1>1, <1>4, <2>2 DEF TableInv, Indexed
  <2> QED
    BY <1>2, <2>3 DEF Range
<1>5. ASSUME k \in Range(jumpdest_targets)
      PROVE  OfCode(at[k])
  BY <1>1, <1>2, <1>5 DEF Range, TableInv, Indexed
<1> QED
  BY <1>3, <1>4, <1>5 DEF AtInjectedBlock

\* Both interpreters run the same instruction.
LEMMA StepBothJoint ==
    ASSUME Context_, AnalysesInv, analyzed, prepared, AdvancedInv, BaselineInv,
           ContextKept, Joint, instr_it # 0, ~AtInjectedBlock, AdvancedStep,
           BaselineStep
    PROVE  Joint'
<1>1. PICK k : k = instr_it
  OBVIOUS
<1>2. PICK op : op = OpAt(at[k].offset)
  OBVIOUS
<1>3. /\ k \in 1..Len(at) /\ Len(at) \in Nat /\ Len(code) \in Nat
      /\ AnalysisInv /\ TableInv /\ at[k].offset \in Nat
  BY <1>1, BlockFacts, TableFacts DEF AdvancedInv, AnalysesInv
<1>4. /\ code_it # NoPosition /\ advanced.output_size = 0
      /\ Together \/ CutOff
  BY DEF Joint
<1>5. OfCode(at[k]) => Together
  <2>1. OfCode(at[k]) => at[k].offset < Len(code)
    BY <1>3, OfCodeIsTranslated DEF Translated
  <2>2. CutOff => at[k].offset = Len(code)
    BY <1>1 DEF CutOff
  <2> QED
    BY <1>3, <1>4, <2>1, <2>2
<1>6. CASE at[k].begin = k
  <2>1. OfCode(at[k])
    BY <1>1, <1>3, <1>6, InjectedBlock
  <2>2. opx_beginblock
    BY <1>1, <1>3, <1>6, EntryKinds, AtBlock DEF instr
  <2> QED
    BY <1>1, <1>4, <1>5, <1>6, <2>1, <2>2, JumpdestTogether
<1>7. CASE at[k].begin # k
  <2>1. \/ instrs[k].fn = op_undefined
        \/ OfCode(at[k]) /\ Defined(k, op)
        \/ k = Len(at)
    BY <1>2, <1>3, <1>7, EntryKinds
  <2>2. CASE instrs[k].fn = op_undefined
    <3>1. op_undefined_
      BY <1>1, <2>2, AtUndefined DEF instr
    <3> QED
      BY <1>1, <1>4, <1>7, <2>2, <3>1, UndefinedTogether
  <2>3. CASE OfCode(at[k]) /\ Defined(k, op)
    <3>1. CASE op \in Terminators
      BY <1>1, <1>2, <1>4, <1>5, <1>7, <2>3, <3>1, TerminatorTogether
    <3>2. CASE op \in PushOps
      BY <1>1, <1>2, <1>4, <1>5, <1>7, <2>3, <3>2, PushTogether
    <3>3. CASE op \notin Terminators /\ op \notin PushOps
      BY <1>1, <1>2, <1>4, <1>5, <1>7, <2>3, <3>3, PlainTogether
    <3> QED
      BY <3>1, <3>2, <3>3
  <2>4. CASE k = Len(at)
    BY <1>1, <1>4, <2>4, StopBoth
  <2> QED
    BY <2>1, <2>2, <2>3, <2>4
<1> QED
  BY <1>6, <1>7

LEMMA StepAdvancedJoint ==
    ASSUME AnalysesInv, analyzed, AdvancedInv, ContextKept, Joint,
           instr_it # 0, AtInjectedBlock, AdvancedStep, UNCHANGED baselineVars
    PROVE  Joint'
<1>1. PICK k : k = instr_it
  OBVIOUS
<1>2. k \in 1..Len(at)
  BY <1>1, BlockFacts DEF AdvancedInv
<1>3. at[k].begin = k /\ ~OfCode(at[k])
  BY <1>1, <1>2, InjectedBlock
<1>4. opx_beginblock
  BY AtBlock DEF AtInjectedBlock
<1>5. /\ code_it # NoPosition /\ advanced.output_size = 0
      /\ Together \/ CutOff
  BY DEF Joint
<1> QED
  BY <1>1, <1>3, <1>4, <1>5, InjectedTogether, InjectedCutOff

LEMMA StepBaselineJoint ==
    ASSUME Context_, AnalysesInv, analyzed, prepared, BaselineInv, ContextKept,
           Joint, instr_it = 0, code_it # NoPosition, BaselineStep,
           UNCHANGED advancedVars
    PROVE  Joint'
<1>1. Alone
  BY DEF Joint
<1>2. /\ Failed(advanced) /\ advanced.output_size = 0
      /\ baseline.output_size = 0
  BY <1>1 DEF Alone
<1>3. PICK k \in 1..Len(at) - 1 :
         /\ OfCode(at[k]) /\ code_it = at[k].offset
         /\ Short(k, baseline.gas_left, Len(baseline.stack))
  BY <1>1 DEF Alone
<1>4. /\ baseline'.output_size = baseline.output_size
      /\ code_it' = NoPosition => Failed(baseline')
      /\ code_it' # NoPosition =>
           \E n \in 1..Len(at) - 1 :
             /\ OfCode(at[n]) /\ code_it' = at[n].offset
             /\ Short(n, baseline'.gas_left, Len(baseline'.stack))
  BY <1>3, ShortStep
<1>5. /\ instr_it' = 0 /\ Failed(advanced') /\ advanced'.output_size = 0
      /\ baseline'.output_size = 0
  BY <1>2, <1>4 DEF advancedVars
<1>6. CASE code_it' = NoPosition
  BY <1>4, <1>5, <1>6, FailedNext
<1>7. CASE code_it' # NoPosition
  BY <1>4, <1>5, <1>7, AloneNext
<1> QED
  BY <1>6, <1>7

\* Both execution states start the same.
LEMMA StartJoint ==
    ASSUME AnalysesInv, Start
    PROVE  Joint'
<1>1. PICK m \in Messages, e \in Environments :
         StartAdvanced(m, InitialHost(e)) /\ StartBaseline(m, InitialHost(e))
  BY DEF Start
<1>2. PICK s : s = NewExecutionState(m, InitialHost(e))
  OBVIOUS
<1>3. /\ advanced' = s /\ instr_it' = 1 /\ baseline' = s /\ code_it' = 0
  BY <1>1, <1>2 DEF StartAdvanced, StartBaseline
<1>4. at' = at /\ instrs' = instrs /\ analyzed
  BY DEF Start, analysisVars, advancedAnalysisVars
<1>5. 1 \in 1..Len(at) /\ at[1].offset = 0 /\ at[1].begin = 1
  BY FirstEntry
<1>6. ChargedAhead' = 0
  <2>1. instrs[1].fn = OPX_BEGINBLOCK
    BY <1>4, <1>5, EntryKinds
  <2> QED
    BY <1>3, <1>4, <2>1 DEF ChargedAhead, instr
<1>7. More(s, 0) = s
  <2>1. ValidMessage(m)
    BY MessagesAssumption
  <2>2. m.gas \in Int
    BY <2>1 DEF ValidMessage
  <2>3. Shaped(s)
    BY <1>2, <2>2 DEF NewExecutionState, Shaped, Fields
  <2> QED
    BY <2>3, MoreNothing
<1>8. Together'
  BY <1>3, <1>4, <1>5, <1>6, <1>7 DEF Together
<1>9. (instr_it # 0)' /\ (code_it # NoPosition)' /\ (advanced.output_size = 0)'
  BY <1>2, <1>3 DEF NoPosition, NewExecutionState
<1> QED
  BY <1>8, <1>9 DEF Joint

\* Nothing that both states depend on changes.
LEMMA StutterJoint ==
    ASSUME Joint, UNCHANGED vars
    PROVE  Joint'
<1>1. /\ code' = code /\ at' = at /\ instrs' = instrs /\ scan_pos' = scan_pos
      /\ advanced' = advanced /\ baseline' = baseline /\ instr_it' = instr_it
      /\ code_it' = code_it /\ current_block_cost' = current_block_cost
  BY DEF vars, executionVars, analysisVars, advancedAnalysisVars,
         baselineAnalysisVars, advancedVars, baselineVars
<1>2. Together' <=> Together
  BY <1>1 DEF Together, More, ChargedAhead, instr
<1>3. CutOff' <=> CutOff
  BY <1>1 DEF CutOff, Only, Drop, Needs, ChargedAhead, instr
<1>4. Alone' <=> Alone
  BY <1>1 DEF Alone, Short, RunsWithin, OfCode, Failed
<1>5. Over' <=> Over
  BY <1>1 DEF Over, Failed, Result, ReadMemory, Padded
<1> QED
  BY <1>1, <1>2, <1>3, <1>4, <1>5 DEF Joint, NoPosition

LEMMA ExecuteJoint ==
    ASSUME ExecutionInv, JointInv, Execute
    PROVE  JointInv'
<1>1. /\ started /\ ContextKept /\ started'
      /\ StepBoth \/ StepAdvanced \/ StepBaseline
  BY DEF Execute, ContextKept
<1>2. /\ AnalysesInv /\ analyzed /\ prepared /\ Context_ /\ BaselineInv
      /\ AdvancedInv /\ Joint
  BY <1>1 DEF ExecutionInv, JointInv
<1>3. CASE StepBoth
  BY <1>1, <1>2, <1>3, StepBothJoint
     DEF StepBoth, BothRunning, AdvancedRunning, JointInv
<1>4. CASE StepAdvanced
  <2>1. instr_it # 0 /\ AtInjectedBlock /\ AdvancedStep /\ UNCHANGED baselineVars
    BY <1>1, <1>2, <1>4
       DEF StepAdvanced, AdvancedRunning, BaselineRunning, Joint
  <2> QED
    BY <1>1, <1>2, <2>1, StepAdvancedJoint DEF JointInv
<1>5. CASE StepBaseline
  BY <1>1, <1>2, <1>5, StepBaselineJoint
     DEF StepBaseline, BaselineRunning, AdvancedRunning, JointInv
<1> QED
  BY <1>1, <1>3, <1>4, <1>5

LEMMA NextJoint == ExecutionInv /\ JointInv /\ [Next]_vars => JointInv'
<1> SUFFICES ASSUME ExecutionInv, JointInv, [Next]_vars
             PROVE  JointInv'
  OBVIOUS
<1>1. CASE Analyze
  <2>1. ~started /\ started' = started
    BY <1>1, AnalyzeOnlyBefore DEF Analyze, ExecutionInv, executionVars
  <2> QED
    BY <2>1 DEF JointInv
<1>2. CASE Start
  BY <1>2, StartJoint DEF ExecutionInv, JointInv
<1>3. CASE Execute
  BY <1>3, ExecuteJoint
<1>4. CASE UNCHANGED vars
  <2>1. started' = started
    BY <1>4 DEF vars, executionVars
  <2> QED
    BY <1>4, <2>1, StutterJoint DEF JointInv
<1> QED
  BY <1>1, <1>2, <1>3, <1>4 DEF Next

\* The joint invariant holds in every state.
THEOREM InterpretersInStep == Spec => []JointInv
<1>1. Init => JointInv
  BY DEF Init, JointInv
<1> QED
  BY <1>1, NextJoint, ExecutionsSound, PTL DEF Spec

LEMMA InvSideBySide == ExecutionInv /\ JointInv => SideBySide
<1> SUFFICES ASSUME ExecutionInv, JointInv, BothRunning
             PROVE  /\ advanced.gas_left + ChargedAhead = baseline.gas_left
                    /\ advanced.memory = baseline.memory
                    /\ advanced.return_data = baseline.return_data
                    /\ advanced.host = baseline.host
                    /\ \/ /\ code_it = at[instr_it].offset
                          /\ advanced.stack = baseline.stack
                       \/ /\ code_it > Len(code)
                          /\ at[instr_it].offset = Len(code)
                          /\ Drop(advanced, 1).stack = Drop(baseline, 1).stack
  BY DEF SideBySide
<1>1. Together \/ CutOff
  BY DEF JointInv, Joint, BothRunning, AdvancedRunning
<1>2. advanced = [f \in Fields |-> advanced[f]] /\ advanced.gas_left \in Int
  BY DEF ExecutionInv, AdvancedInv, Sound, BothRunning, AdvancedRunning
<1>3. CASE Together
  <2>1. baseline = [advanced EXCEPT !.gas_left = @ + ChargedAhead]
        /\ code_it = at[instr_it].offset
    BY <1>3 DEF Together, More
  <2> QED
    BY <1>2, <2>1 DEF Fields
<1>4. CASE CutOff
  <2>1. /\ Only(advanced, baseline, {"stack"}) /\ ChargedAhead = 0
        /\ code_it > Len(code) /\ at[instr_it].offset = Len(code)
        /\ Drop(advanced, 1).stack = Drop(baseline, 1).stack
    BY <1>4 DEF CutOff
  <2>2. /\ advanced.gas_left = baseline.gas_left
        /\ advanced.memory = baseline.memory
        /\ advanced.return_data = baseline.return_data
        /\ advanced.host = baseline.host
    BY <2>1 DEF Only, Fields
  <2>3. advanced.gas_left + ChargedAhead = baseline.gas_left
    BY <1>2, <2>1, <2>2
  <2> QED
    BY <2>1, <2>2, <2>3
<1> QED
  BY <1>1, <1>3, <1>4

LEMMA InvResultsAgree == JointInv => ResultsAgree
<1> SUFFICES ASSUME JointInv, BothDone
             PROVE  LET a == Result(advanced)
                        b == Result(baseline)
                    IN  IF {a.status, b.status} \cap {"SUCCESS", "REVERT"} # {}
                        THEN a = b /\ advanced.host = baseline.host
                        ELSE \A r \in {a, b} : r.gas_left = 0 /\ r.output = << >>
  BY DEF ResultsAgree
<1>1. Over
  BY DEF JointInv, Joint, BothDone, AdvancedRunning, BaselineRunning
<1>2. /\ Result(advanced).status = advanced.status
      /\ Result(baseline).status = baseline.status
  BY DEF Result
<1>3. CASE /\ Failed(advanced) /\ Failed(baseline)
           /\ advanced.output_size = 0 /\ baseline.output_size = 0
  <2>1. /\ Result(advanced).gas_left = 0 /\ Result(advanced).output = << >>
        /\ Result(baseline).gas_left = 0 /\ Result(baseline).output = << >>
    BY <1>3 DEF Result, Failed
  <2>2. {Result(advanced).status, Result(baseline).status}
           \cap {"SUCCESS", "REVERT"} = {}
    BY <1>2, <1>3 DEF Failed
  <2> QED
    BY <2>1, <2>2
<1>4. CASE /\ ~Failed(advanced) /\ Result(advanced) = Result(baseline)
           /\ advanced.host = baseline.host
  <2>1. advanced.status \in {"SUCCESS", "REVERT"}
    BY <1>4 DEF Failed
  <2>2. {Result(advanced).status, Result(baseline).status}
           \cap {"SUCCESS", "REVERT"} # {}
    BY <1>2, <2>1
  <2> QED
    BY <1>4, <2>2
<1> QED
  BY <1>1, <1>3, <1>4 DEF Over

\* Advanced, which charges and checks a block at its beginning, and Baseline,
\* which charges and checks every instruction, stay at the same instruction in
\* the same state: GAS, SSTORE, CALL and CREATE see the same exact gas, jumps
\* land at the same place, and Advanced is behind by what it charged ahead.
THEOREM StepByStep == Spec => []SideBySide
BY ExecutionsSound, InterpretersInStep, InvSideBySide, PTL

\* Both interpreters give the same result for every code within max_code_size,
\* message, environment and revision: the same success or revert with the same gas, output and
\* effects, or a failure of both, although Advanced finds a failure earlier.
THEOREM SameResults == Spec => []ResultsAgree
BY InterpretersInStep, InvResultsAgree, PTL

=============================================================================
