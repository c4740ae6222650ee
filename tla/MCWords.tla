------------------------------- MODULE MCWords -------------------------------
(***************************************************************************)
(* WordOperands for TLC, with words of two bytes.                          *)
(***************************************************************************)
EXTENDS WordOperands

\* Around the number of bytes and of bits, and at the ends of the range.
MCCounts == 0..WordSize + 1 \cup word_bits - 2..word_bits + 1
              \cup {WordMod - word_bits, WordMod - 2, WordMod - 1}
\* Every byte low and high, and their combinations at the edges.
Edges == {0, 1, 126, 127, 128, 129, 254, 255}
MCValues == { 256 * a + b : a \in Edges, b \in 0..255 }
              \cup { 256 * a + b : a \in 0..255, b \in Edges }

=============================================================================
