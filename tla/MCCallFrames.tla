----------------------------- MODULE MCCallFrames ----------------------------
(***************************************************************************)
(* CallFrames for TLC, which has to be given the frames a step may lead    *)
(* to: all that differ from the current ones in one frame and its gas.     *)
(***************************************************************************)
EXTENDS CallFrames

CONSTANT MaxGas   \* bound: the gas of a frame

ASSUME MaxGasAssumption == MaxGas \in Nat

Gas == 0..MaxGas
SomeFrames == [gas : Gas, start : Gas, depth : 0..MaxDepth, static : BOOLEAN]

Changed(s) == { [s EXCEPT ![Len(s)].gas = g] : g \in Gas }

Candidates ==
    { << >> } \cup { << f >> : f \in SomeFrames }
      \cup (IF top > 0
            THEN Changed(frames)
                   \cup { Append(s, f) : s \in Changed(frames), f \in SomeFrames }
            ELSE {})
      \cup (IF top > 1 THEN Changed(callers) ELSE {})

MCSpec == Init /\ [][\E f \in Candidates : frames' = f /\ Next]_frames

=============================================================================
