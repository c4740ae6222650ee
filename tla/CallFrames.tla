----------------------------- MODULE CallFrames ------------------------------
(***************************************************************************)
(* What nested executions promise each other and the one who pays, without *)
(* any instruction: a frame spends its gas, lends part of it to a callee   *)
(* and gets back what the callee leaves; depth and static mode are handed  *)
(* down.  A caller keeps the gas it has lent on its account until the      *)
(* callee returns, as call() and create() do.                              *)
(***************************************************************************)
EXTENDS Integers, Sequences

CONSTANT MaxDepth   \* the depth from which no call is made: 1024

ASSUME MaxDepthAssumption == MaxDepth \in Nat

VARIABLE frames   \* the live frames, the outermost first

Frame == [gas : Nat, start : Nat, depth : 0..MaxDepth, static : BOOLEAN]

Init == frames = << >>

top == Len(frames)
callers == SubSeq(frames, 1, top - 1)

\* An execution begins with all of its gas.
Begin == /\ frames = << >>
         /\ Len(frames') = 1
         /\ frames'[1] \in Frame
         /\ frames'[1].gas = frames'[1].start
         /\ frames' = << frames'[1] >>

\* The innermost frame spends gas, all of it when it fails.
Work == /\ frames # << >> /\ top' = top
        /\ frames'[top].gas \in Nat
        /\ frames'[top].gas < frames[top].gas
        /\ frames' = [frames EXCEPT ![top].gas = frames'[top].gas]

\* Mutant: the caller need not have what it lends.
LentUnpaid(callee, caller) == callee.gas = callee.start

\* The callee starts with gas that its caller has.
IsLent(callee, caller) == /\ callee.gas = callee.start
                          /\ callee.start <= caller.gas

HandsDown(caller, callee) == /\ callee.depth = caller.depth + 1
                             /\ caller.static => callee.static

\* It spends gas and lends no more than the rest to a callee.
Call == /\ frames # << >> /\ top' = top + 1
        /\ frames[top].depth < MaxDepth
        /\ LET callee == frames'[top + 1]
               caller == frames'[top]
           IN  /\ caller.gas \in Nat /\ caller.gas < frames[top].gas
               /\ callee \in Frame
               /\ IsLent(callee, caller)
               /\ HandsDown(frames[top], callee)
               /\ frames' = Append([frames EXCEPT ![top].gas = caller.gas],
                                   callee)

\* Mutant: gives back what was never taken.
LeftAndLent(caller, callee) == caller.gas + callee.gas

\* What a caller has left: what the callee was lent and has not left is used.
LeftAfter(caller, callee) == caller.gas - (callee.start - callee.gas)

\* It returns, and the caller goes on or fails at once.
Return == /\ top > 1 /\ top' = top - 1
          /\ LET left == frames'[top - 1].gas
             IN  /\ left \in {0, LeftAfter(frames[top - 1], frames[top])}
                 /\ frames' = [callers EXCEPT ![top - 1].gas = left]

End == top = 1 /\ frames' = << >>

Next == Begin \/ Work \/ Call \/ Return \/ End

Spec == Init /\ [][Next]_frames

-----------------------------------------------------------------------------
\* Every frame has gas to lose what it has lent, and no more gas than it was
\* given; depths count up to at most the limit.
Solvent ==
    /\ frames \in Seq(Frame)
    /\ \A i \in 1..top : frames[i].gas <= frames[i].start
    /\ \A i \in 1..top - 1 : /\ frames[i + 1].start <= frames[i].gas
                             /\ frames[i + 1].depth = frames[i].depth + 1

\* No frame, inner or outer, ever gains gas: what is given back to a caller
\* was its own.
GasNeverGrows ==
    [][\A i \in 1..top : i <= top' => frames'[i].gas <= frames[i].gas]_frames

=============================================================================
