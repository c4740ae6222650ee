---------------------------- MODULE MemoryProofs ----------------------------
(***************************************************************************)
(* Memory keeps its promises for every word size, page size, set of byte   *)
(* values and sequence of sizes: it lies inside its allocation, which at   *)
(* least doubles when it grows, and it implements ByteMemory.  And the     *)
(* input pointer of a call message stays valid, for any interleaving of    *)
(* calls with the growth, the writes and the reuse of the caller's memory. *)
(***************************************************************************)
EXTENDS CallBuffers, TLAPS

LEMMA Multiple ==
    ASSUME NEW q \in Nat, NEW p \in Nat \ {0}
    PROVE  q * p \in Nat /\ (q * p) % p = 0
  OBVIOUS

\* The rounding of grow(): the pages for n bytes hold them.
LEMMA WholePages ==
    ASSUME NEW n \in Nat, NEW p \in Nat \ {0}
    PROVE  LET c == ((n + (p - 1)) \div p) * p
           IN  c \in Nat /\ c >= n /\ c % p = 0
<1> DEFINE q == (n + (p - 1)) \div p
<1>1. q \in Nat
  OBVIOUS
<1>2. q * p >= n
  OBVIOUS
<1>3. q * p \in Nat /\ (q * p) % p = 0
  BY <1>1, Multiple
<1>4. QED
  BY <1>2, <1>3

LEMMA DoubledPages ==
    ASSUME NEW c \in Nat, NEW p \in Nat \ {0}, c % p = 0
    PROVE  (2 * c) % p = 0
<1> DEFINE q == c \div p
<1>1. q \in Nat /\ c = q * p
  OBVIOUS
<1>2. PICK r \in Nat : 2 * c = r * p
  <2>1. 2 * q \in Nat /\ 2 * c = (2 * q) * p
    BY <1>1
  <2>2. QED
    BY <2>1
<1>3. QED
  BY <1>2, Multiple

\* The inductive invariant: WithinAllocation with the types it needs.
AllocationInv ==
    /\ m_size \in Nat /\ m_capacity \in Nat
    /\ m_data \in [0..m_capacity - 1 -> ByteValues]
    /\ m_size <= m_capacity
    /\ m_capacity % page_size = 0

\* The new capacity suffices, is whole pages, and is the old one or at least
\* twice as much.
LEMMA CapacityFor ==
    ASSUME AllocationInv, NEW new_size \in Nat
    PROVE  /\ capacity_for(new_size) \in Nat
           /\ capacity_for(new_size) >= new_size
           /\ capacity_for(new_size) % page_size = 0
           /\ \/ capacity_for(new_size) = m_capacity
              \/ capacity_for(new_size) >= 2 * m_capacity
<1>1. page_size \in Nat \ {0}
  BY MemoryAssumption
<1>2. CASE new_size <= m_capacity
  BY <1>1, <1>2 DEF AllocationInv, capacity_for
<1>3. CASE new_size > m_capacity /\ 2 * m_capacity >= new_size
  <2>1. (2 * m_capacity) % page_size = 0
    BY <1>1, DoubledPages DEF AllocationInv
  <2>2. capacity_for(new_size) = 2 * m_capacity
    BY <1>3 DEF AllocationInv, capacity_for
  <2>3. QED
    BY <1>3, <2>1, <2>2 DEF AllocationInv
<1>4. CASE new_size > m_capacity /\ 2 * m_capacity < new_size
  <2> DEFINE c == ((new_size + (page_size - 1)) \div page_size) * page_size
  <2>1. c \in Nat /\ c >= new_size /\ c % page_size = 0
    BY <1>1, WholePages
  <2>2. capacity_for(new_size) = c
    BY <1>4 DEF AllocationInv, capacity_for
  <2>3. QED
    BY <1>4, <2>1, <2>2 DEF AllocationInv
<1>5. QED
  BY <1>2, <1>3, <1>4 DEF AllocationInv

\* What grow() leaves in the allocation.
LEMMA GrowData ==
    ASSUME AllocationInv, NEW new_size \in Nat, grow(new_size)
    PROVE  /\ m_data' \in [0..m_capacity' - 1 -> ByteValues]
           /\ \A k \in 0..m_size - 1 : m_data'[k] = m_data[k]
           /\ \A k \in m_size..new_size - 1 : m_data'[k] = 0
<1> DEFINE c == capacity_for(new_size)
<1>1. c \in Nat /\ c >= new_size /\ c >= m_capacity
  <2>1. /\ c \in Nat /\ c >= new_size
        /\ c = m_capacity \/ c >= 2 * m_capacity
    BY CapacityFor
  <2>2. m_capacity \in Nat
    BY DEF AllocationInv
  <2>3. QED
    BY <2>1, <2>2
<1>2. PICK data \in allocate_capacity(c) :
        m_data' = [k \in DOMAIN data |->
                     IF k \in m_size..new_size - 1 THEN 0 ELSE data[k]]
  BY DEF grow
<1>3. PICK junk \in [m_capacity..c - 1 -> ByteValues] :
        data = [k \in 0..c - 1 |-> IF k < m_capacity THEN m_data[k]
                                   ELSE junk[k]]
  BY <1>2 DEF allocate_capacity
<1>4. DOMAIN data = 0..c - 1
  BY <1>3
<1>5. \A k \in 0..c - 1 : data[k] \in ByteValues
  <2>1. \A k \in 0..c - 1 : k < m_capacity => m_data[k] \in ByteValues
    BY <1>1 DEF AllocationInv
  <2>2. \A k \in 0..c - 1 : ~(k < m_capacity) => junk[k] \in ByteValues
    BY <1>1, <1>3 DEF AllocationInv
  <2>3. QED
    BY <1>3, <2>1, <2>2
<1>6. m_capacity' = c
  BY DEF grow
<1>7. m_data' \in [0..c - 1 -> ByteValues]
  BY <1>2, <1>4, <1>5, MemoryAssumption
<1>8. \A k \in 0..m_size - 1 : m_data'[k] = m_data[k]
  BY <1>1, <1>2, <1>3, <1>4 DEF AllocationInv
<1>9. \A k \in m_size..new_size - 1 : m_data'[k] = 0
  BY <1>1, <1>2, <1>4 DEF AllocationInv
<1>10. QED
  BY <1>6, <1>7, <1>8, <1>9

LEMMA AllocationInit == InitMemory => AllocationInv
<1>1. page_size \in Nat \ {0} /\ page_size % page_size = 0
  BY MemoryAssumption
<1>2. QED
  BY <1>1 DEF InitMemory, AllocationInv

LEMMA AllocationStep == AllocationInv /\ [NextMemory]_memoryVars => AllocationInv'
<1> SUFFICES ASSUME AllocationInv, [NextMemory]_memoryVars
             PROVE  AllocationInv'
  OBVIOUS
<1>1. ASSUME NEW new_size \in Sizes, grow(new_size)
      PROVE  AllocationInv'
  <2>1. new_size \in Nat
    BY MemoryAssumption
  <2>2. m_data' \in [0..m_capacity' - 1 -> ByteValues]
    BY <1>1, <2>1, GrowData
  <2>3. QED
    BY <1>1, <2>1, <2>2, CapacityFor DEF AllocationInv, grow
<1>2. ASSUME NEW offset \in 0..m_size - 1, NEW byte \in ByteValues,
             write(offset, 1, byte)
      PROVE  AllocationInv'
  BY <1>2 DEF AllocationInv, write
<1>3. CASE clear
  BY <1>3 DEF AllocationInv, clear
<1>4. CASE UNCHANGED memoryVars
  BY <1>4 DEF AllocationInv, memoryVars
<1>5. QED
  BY <1>1, <1>2, <1>3, <1>4 DEF NextMemory

LEMMA AllocationInvariant == SpecMemory => []AllocationInv
<1>1. QED
  BY AllocationInit, AllocationStep, PTL DEF SpecMemory

\* The memory always lies inside its allocation, which is whole pages: no
\* offset below the size leads operator[] out of what realloc returned.
THEOREM MemoryAllocated == SpecMemory => []WithinAllocation
<1>1. AllocationInv => WithinAllocation
  BY DEF AllocationInv, WithinAllocation
<1>2. QED
  BY <1>1, AllocationInvariant, PTL

\* Every reallocation of grow() at least doubles the capacity.
THEOREM MemoryDoubles == SpecMemory => CapacityDoubles
<1>1. AllocationInv /\ [NextMemory]_memoryVars =>
        [m_capacity' = m_capacity \/ m_capacity' >= 2 * m_capacity]_memoryVars
  <2> SUFFICES ASSUME AllocationInv, NextMemory
               PROVE  m_capacity' = m_capacity \/ m_capacity' >= 2 * m_capacity
    OBVIOUS
  <2>1. ASSUME NEW new_size \in Sizes, grow(new_size)
        PROVE  m_capacity' = m_capacity \/ m_capacity' >= 2 * m_capacity
    <3>1. new_size \in Nat
      BY MemoryAssumption
    <3>2. QED
      BY <2>1, <3>1, CapacityFor DEF grow
  <2>2. QED
    BY <2>1 DEF NextMemory, write, clear
<1>2. QED
  BY <1>1, AllocationInvariant, PTL DEF SpecMemory, CapacityDoubles

\* Memory implements ByteMemory: whatever the allocation holds, and however
\* often the memory was cleared and grown again, new bytes are 0 and old ones
\* are kept.
THEOREM MemoryRefines == SpecMemory => ImplementsByteMemory
<1> DEFINE content == [k \in 0..m_size - 1 |-> m_data[k]]
<1>1. InitMemory => Bytes!Init
  BY DEF InitMemory, Bytes!Init
<1>2. AllocationInv /\ [NextMemory]_memoryVars => [Bytes!Next]_(Bytes!byteVars)
  <2> SUFFICES ASSUME AllocationInv, [NextMemory]_memoryVars
               PROVE  [Bytes!Next]_(Bytes!byteVars)
    OBVIOUS
  <2>1. ASSUME NEW new_size \in Sizes, grow(new_size)
        PROVE  Bytes!Grow
    <3>1. new_size \in Nat /\ new_size % WordSize = 0
      BY MemoryAssumption
    <3>2. m_size' = new_size /\ new_size > m_size
      BY <2>1 DEF grow
    <3>3. \A k \in 0..new_size - 1 :
            m_data'[k] = IF k < m_size THEN m_data[k] ELSE 0
      BY <2>1, <3>1, GrowData DEF AllocationInv
    <3>4. content' = [k \in 0..m_size' - 1 |->
                        IF k < m_size THEN content[k] ELSE 0]
      BY <3>1, <3>2, <3>3 DEF AllocationInv
    <3>5. QED
      BY <3>1, <3>2, <3>4 DEF Bytes!Grow
  <2>2. ASSUME NEW offset \in 0..m_size - 1, NEW byte \in ByteValues,
               write(offset, 1, byte)
        PROVE  Bytes!Write
    <3>1. m_size' = m_size
      BY <2>2 DEF write
    <3>2. \A k \in 0..m_size - 1 : m_data'[k] \in ByteValues
      <4>1. /\ m_size \in Nat /\ m_capacity \in Nat
            /\ m_size <= m_capacity
        BY DEF AllocationInv
      <4>2. m_data' \in [0..m_capacity - 1 -> ByteValues]
        BY <2>2 DEF AllocationInv, write
      <4>3. QED
        BY <4>1, <4>2
    <3>3. content' = [k \in 0..m_size - 1 |-> m_data'[k]]
      BY <3>1
    <3>4. QED
      BY <3>1, <3>2, <3>3 DEF Bytes!Write
  <2>3. CASE clear
    BY <2>3 DEF clear, Bytes!Clear, Bytes!Next
  <2>4. CASE UNCHANGED memoryVars
    BY <2>4 DEF memoryVars, Bytes!byteVars
  <2>5. QED
    BY <2>1, <2>2, <2>3, <2>4 DEF NextMemory, Bytes!Next
<1>3. QED
  BY <1>1, <1>2, AllocationInvariant, PTL
  DEF SpecMemory, ImplementsByteMemory, Bytes!Spec

-----------------------------------------------------------------------------
(***************************************************************************)
(* The buffers of calls.                                                   *)
(***************************************************************************)
Range == [offset : Nat, size : Nat]

\* A range that was checked: it is empty, or lies inside the memory.
Checked(range) == range.size = 0 \/ range.offset + range.size <= m_size

\* The inductive invariant: where the call instruction is decides which of its
\* ranges are checked and that a message exists only while the callee runs.
CallInv ==
    /\ AllocationInv
    /\ allocation \in Nat
    /\ pc \in {"idle", "check_input", "check_output", "take_input", "callee"}
    /\ input \in Range /\ output \in Range
    /\ pc \in {"check_output", "take_input", "callee"} => Checked(input)
    /\ pc \in {"take_input", "callee"} => Checked(output)
    /\ pc # "callee" => input_data = NoPointer
    /\ pc = "callee" /\ input.size > 0 =>
         input_data = allocation /\ sent = Reads(input)
    /\ pc = "callee" /\ input.size = 0 => input_data = NoPointer

LEMMA RangesTyped == Ranges \subseteq Range /\ NoRange \in Range
  BY RangesAssumption DEF Range, NoRange

\* The words for n bytes hold them.
LEMMA WordsFor ==
    ASSUME NEW n \in Nat
    PROVE  num_words(n) * WordSize \in Nat /\ num_words(n) * WordSize >= n
<1>1. WordSize \in Nat \ {0}
  BY MemoryAssumption
<1>2. QED
  BY <1>1, WholePages DEF num_words

\* grow() keeps the allocation invariant for any size, one of Sizes or the
\* rounded end of a range.
LEMMA GrowKeepsAllocation ==
    ASSUME AllocationInv, NEW new_size \in Nat, grow(new_size)
    PROVE  AllocationInv' /\ m_size' = new_size /\ m_size' > m_size
<1>1. m_data' \in [0..m_capacity' - 1 -> ByteValues]
  BY GrowData
<1>2. QED
  BY <1>1, CapacityFor DEF AllocationInv, grow

\* What check_memory leaves: the range is checked, and a range that was
\* checked before still is.
LEMMA CheckMemory ==
    ASSUME AllocationInv, allocation \in Nat, NEW range \in Range,
           check_memory(range)
    PROVE  /\ AllocationInv' /\ allocation' \in Nat
           /\ m_size' \in Nat /\ m_size' >= m_size
           /\ range.size = 0 \/ range.offset + range.size <= m_size'
<1>1. range.size \in Nat /\ range.offset \in Nat /\ m_size \in Nat
  BY DEF Range, AllocationInv
<1> DEFINE n == num_words(range.offset + range.size) * WordSize
<1>2. CASE /\ range.size > 0 /\ range.offset + range.size > m_size
           /\ grow(n) /\ MayMove
  <2>1. n \in Nat /\ n >= range.offset + range.size
    BY <1>1, WordsFor
  <2>2. AllocationInv' /\ m_size' = n /\ m_size' > m_size
    BY <1>2, <2>1, GrowKeepsAllocation
  <2>3. allocation' \in Nat
    BY <1>2 DEF MayMove
  <2>4. QED
    BY <1>1, <2>1, <2>2, <2>3
<1>3. CASE /\ range.size = 0 \/ range.offset + range.size <= m_size
           /\ UNCHANGED <<memoryVars, allocation>>
  BY <1>1, <1>3 DEF AllocationInv, memoryVars
<1>4. QED
  BY <1>2, <1>3 DEF check_memory

LEMMA CallInit == Init => CallInv
<1> SUFFICES ASSUME Init PROVE CallInv
  OBVIOUS
<1>1. AllocationInv
  BY AllocationInit DEF Init
<1>2. QED
  BY <1>1, RangesTyped DEF Init, InitCall, CallInv

LEMMA CallStep == CallInv /\ [Next]_vars => CallInv'
<1> SUFFICES ASSUME CallInv, [Next]_vars
             PROVE  CallInv'
  OBVIOUS
<1>0. AllocationInv /\ allocation \in Nat
  BY DEF CallInv
<1>1. CASE BeginCall
  <2>1. AllocationInv'
    BY <1>0, <1>1 DEF BeginCall, memoryVars, AllocationInv
  <2>2. input' \in Range /\ output' \in Range
    BY <1>1, RangesTyped DEF BeginCall
  <2>3. QED
    BY <1>1, <2>1, <2>2 DEF CallInv, BeginCall
<1>2. CASE CheckInput
  <2>1. input \in Range /\ check_memory(input)
    BY <1>2 DEF CallInv, CheckInput
  <2>2. /\ AllocationInv' /\ allocation' \in Nat
        /\ input.size = 0 \/ input.offset + input.size <= m_size'
    BY <1>0, <2>1, CheckMemory
  <2>3. QED
    BY <1>2, <2>2 DEF CallInv, CheckInput, Checked
<1>3. CASE CheckOutput
  <2>1. input \in Range /\ output \in Range /\ check_memory(output)
    BY <1>3 DEF CallInv, CheckOutput
  <2>2. /\ AllocationInv' /\ allocation' \in Nat
        /\ m_size' \in Nat /\ m_size' >= m_size
        /\ output.size = 0 \/ output.offset + output.size <= m_size'
    BY <1>0, <2>1, CheckMemory
  <2>3. input.size = 0 \/ input.offset + input.size <= m_size'
    <3>1. input.offset \in Nat /\ input.size \in Nat /\ m_size \in Nat
      BY <2>1, <1>0 DEF Range, AllocationInv
    <3>2. Checked(input)
      BY <1>3 DEF CallInv, CheckOutput
    <3>3. QED
      BY <2>2, <3>1, <3>2 DEF Checked
  <2>4. QED
    BY <1>3, <2>2, <2>3 DEF CallInv, CheckOutput, Checked
<1>4. CASE TakeInput
  <2>1. AllocationInv'
    BY <1>0, <1>4 DEF TakeInput, memoryVars, AllocationInv
  <2>2. Reads(input)' = Reads(input)
    BY <1>4 DEF TakeInput, memoryVars, Reads
  <2>3. Checked(input)' /\ Checked(output)'
    BY <1>4 DEF TakeInput, memoryVars, Checked, CallInv
  <2>4. input.size \in Nat
    BY DEF CallInv, Range
  <2>5. QED
    BY <1>4, <2>1, <2>2, <2>3, <2>4 DEF CallInv, TakeInput
<1>5. ASSUME NEW result_size \in 0..2, NEW byte \in ByteValues,
             CopyOutput(result_size, byte)
      PROVE  CallInv'
  <2>1. AllocationInv'
    <3>1. CASE UNCHANGED memoryVars
      BY <1>0, <3>1 DEF memoryVars, AllocationInv
    <3>2. ASSUME NEW n, write(output.offset, n, byte)
          PROVE  AllocationInv'
      BY <1>0, <3>2 DEF write, AllocationInv
    <3>3. QED
      BY <1>5, <3>1, <3>2 DEF CopyOutput
  <2>2. QED
    BY <1>5, <2>1, RangesTyped DEF CallInv, CopyOutput
<1>6. CASE Other
  <2>1. AllocationInv' /\ allocation' \in Nat
    <3>1. ASSUME NEW new_size \in Sizes, grow(new_size), MayMove
          PROVE  AllocationInv' /\ allocation' \in Nat
      <4>1. new_size \in Nat
        BY MemoryAssumption
      <4>2. QED
        BY <1>0, <3>1, <4>1, GrowKeepsAllocation DEF MayMove
    <3>2. CASE clear /\ UNCHANGED allocation
      BY <1>0, <3>2 DEF clear, AllocationInv
    <3>3. QED
      BY <1>6, <3>1, <3>2 DEF Other
  <2>2. QED
    BY <1>6, <2>1 DEF CallInv, Other, callVars
<1>7. CASE UNCHANGED vars
  <2>1. AllocationInv'
    BY <1>0, <1>7 DEF vars, memoryVars, AllocationInv
  <2>2. Reads(input)' = Reads(input)
    BY <1>7 DEF vars, callVars, memoryVars, Reads
  <2>3. QED
    BY <1>7, <2>1, <2>2 DEF CallInv, vars, callVars, memoryVars, Checked
<1>8. QED
  BY <1>1, <1>2, <1>3, <1>4, <1>5, <1>6, <1>7 DEF Next

LEMMA CallInvariant == Spec => []CallInv
<1>1. QED
  BY CallInit, CallStep, PTL DEF Spec

\* While a callee runs, the pointer to its input leads into the allocation the
\* caller's memory has now, inside the memory, to the bytes the message was
\* made for, for all operands of the call and wherever realloc moves the
\* memory.
THEOREM CallInputValid == Spec => []InputPointerValid
<1>1. CallInv => InputPointerValid
  <2> SUFFICES ASSUME CallInv, input_data # NoPointer
               PROVE  /\ input_data = allocation
                      /\ input.offset + input.size <= m_size
                      /\ Reads(input) = sent
    BY DEF InputPointerValid
  <2>1. pc = "callee" /\ input.size \in Nat /\ input.size # 0
    BY DEF CallInv, Range
  <2>2. QED
    BY <2>1 DEF CallInv, Checked
<1>2. QED
  BY <1>1, CallInvariant, PTL

\* While a call runs the memory of its caller stays inside its allocation,
\* also when check_memory grows it by a range and not by one of Sizes.
THEOREM CallMemoryAllocated == Spec => []WithinAllocation
<1>1. CallInv => WithinAllocation
  BY DEF CallInv, AllocationInv, WithinAllocation
<1>2. QED
  BY <1>1, CallInvariant, PTL

=============================================================================
