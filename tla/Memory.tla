------------------------------- MODULE Memory --------------------------------
(***************************************************************************)
(* The memory of an execution, class Memory of execution_state.hpp: an     *)
(* allocation that is larger than the memory, grows by doubling, and is    *)
(* kept with its bytes when the memory is cleared for a new execution.     *)
(* Allocated bytes that were never written hold anything.                  *)
(***************************************************************************)
EXTENDS Integers

CONSTANTS WordSize,    \* bytes of a word: 32
          page_size,   \* the initial allocation: 4096
          ByteValues,  \* the values of a byte
          Sizes        \* the sizes the memory is grown to

ASSUME MemoryAssumption ==
    /\ {WordSize, page_size} \subseteq Nat \ {0}
    /\ Sizes \subseteq {n \in Nat : n % WordSize = 0}
    /\ 0 \in ByteValues

VARIABLES m_data,     \* the allocated bytes, by offset
          m_size,     \* the size of the memory
          m_capacity  \* the size of the allocation

memoryVars == <<m_data, m_size, m_capacity>>

InitMemory ==
    /\ m_size = 0
    /\ m_capacity = page_size
    /\ m_data \in [0..page_size - 1 -> ByteValues]

\* Mutant: grows to what is needed, in pages.
PagesFor(new_size) ==
    IF new_size <= m_capacity THEN m_capacity
    ELSE ((new_size + (page_size - 1)) \div page_size) * page_size

\* Mutant: doubling is taken to be enough.
DoubledFor(new_size) == IF new_size <= m_capacity THEN m_capacity
                        ELSE 2 * m_capacity

\* The capacity is doubled, or if this is not enough is what is required,
\* rounded up to whole pages.
capacity_for(new_size) ==
    IF new_size <= m_capacity THEN m_capacity
    ELSE IF 2 * m_capacity >= new_size THEN 2 * m_capacity
    ELSE ((new_size + (page_size - 1)) \div page_size) * page_size

\* The allocations realloc may give: the bytes up to the old capacity are kept.
allocate_capacity(capacity) ==
    {[k \in 0..capacity - 1 |-> IF k < m_capacity THEN m_data[k] ELSE junk[k]] :
       junk \in [m_capacity..capacity - 1 -> ByteValues]}

\* Mutant: the new bytes are not cleared.
GrowUncleared(new_size) ==
    /\ new_size > m_size
    /\ m_data' \in allocate_capacity(capacity_for(new_size))
    /\ m_capacity' = capacity_for(new_size)
    /\ m_size' = new_size

grow(new_size) ==
    /\ new_size > m_size
    /\ \E data \in allocate_capacity(capacity_for(new_size)) :
         m_data' = [k \in DOMAIN data |->
                      IF k \in m_size..new_size - 1 THEN 0 ELSE data[k]]
    /\ m_capacity' = capacity_for(new_size)
    /\ m_size' = new_size

\* An instruction writes bytes inside the memory, from offset on.
write(offset, n, byte) ==
    /\ offset + n <= m_size
    /\ m_data' = [k \in DOMAIN m_data |->
                    IF k \in offset..offset + n - 1 THEN byte ELSE m_data[k]]
    /\ UNCHANGED <<m_size, m_capacity>>

clear == m_size' = 0 /\ UNCHANGED <<m_data, m_capacity>>

NextMemory ==
    \/ \E new_size \in Sizes : grow(new_size)
    \/ \E offset \in 0..m_size - 1, byte \in ByteValues :
         write(offset, 1, byte)
    \/ clear

SpecMemory == InitMemory /\ [][NextMemory]_memoryVars

-----------------------------------------------------------------------------
\* The memory lies inside its allocation, which is whole pages: what
\* operator[] reaches without a check is allocated.
WithinAllocation ==
    /\ m_size <= m_capacity
    /\ m_capacity % page_size = 0
    /\ DOMAIN m_data = 0..m_capacity - 1

\* The class comment: the capacity grows "with 2x factor". However the sizes
\* come, a reallocation at least doubles it, so that the bytes copied by all
\* reallocations are fewer than the final capacity; and it never shrinks.
CapacityDoubles ==
    [][m_capacity' = m_capacity \/ m_capacity' >= 2 * m_capacity]_memoryVars

\* The memory is the abstract one, whatever the allocation holds: what an
\* execution grows into is 0, also where an earlier one on the same state
\* has written.
Bytes == INSTANCE ByteMemory
           WITH size <- m_size, content <- [k \in 0..m_size - 1 |-> m_data[k]]
ImplementsByteMemory == Bytes!Spec

=============================================================================
