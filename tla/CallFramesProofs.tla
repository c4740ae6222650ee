-------------------------- MODULE CallFramesProofs ---------------------------
(***************************************************************************)
(* The promises of CallFrames hold for frames of any gas, any number of    *)
(* them and any limit.                                                     *)
(***************************************************************************)
EXTENDS CallFrames, SequenceTheorems, TLAPS

\* Frame h is frame f with another gas.
Spent(f, h) == h.start = f.start /\ h.depth = f.depth

\* Frames t are frames s with another gas of frame i.
SpentAt(s, t, i, g) ==
    /\ t \in Seq(Frame) /\ Len(t) = Len(s)
    /\ t[i].gas = g /\ Spent(s[i], t[i])
    /\ \A j \in 1..Len(s) : j # i => t[j] = s[j]

\* The invariants of a sequence of frames, by pairs of frames.
Lends(f, h) == h.start <= f.gas /\ h.depth = f.depth + 1
Sound(s) ==
    /\ s \in Seq(Frame)
    /\ \A i \in 1..Len(s) : s[i].gas <= s[i].start
    /\ \A i \in 1..Len(s) - 1 : Lends(s[i], s[i + 1])

\* The fields of a frame are numbers.
LEMMA Numbers ==
  ASSUME NEW s \in Seq(Frame), NEW i \in 1..Len(s)
  PROVE  /\ s[i] \in Frame
         /\ s[i].gas \in Nat /\ s[i].start \in Nat /\ s[i].depth \in Nat
<1>1. s[i] \in Frame
  BY ElementOfSeq
<1>. QED
  BY <1>1, MaxDepthAssumption DEF Frame

\* A change of the gas of a frame leaves the rest of the frames alone.
LEMMA ChangeGas ==
  ASSUME NEW s \in Seq(Frame), NEW i \in 1..Len(s), NEW g \in Nat
  PROVE  SpentAt(s, [s EXCEPT ![i].gas = g], i, g)
<1> DEFINE f == [s[i] EXCEPT !.gas = g]
           t == [s EXCEPT ![i] = f]
<1>1. s[i] \in Frame
  BY ElementOfSeq
<1>2. f \in Frame /\ f.gas = g /\ Spent(s[i], f)
  BY <1>1 DEF Frame, Spent
<1>3. [s EXCEPT ![i].gas = g] = t
  BY Zenon
<1>. HIDE DEF f
<1>4. /\ t \in Seq(Frame)
      /\ Len(t) = Len(s)
      /\ \A j \in 1..Len(s) : t[j] = IF j = i THEN f ELSE s[j]
  BY <1>2, ExceptSeq
<1>. HIDE DEF t
<1>5. t[i] = f /\ \A j \in 1..Len(s) : j # i => t[j] = s[j]
  BY <1>4
<1>. QED
  BY <1>2, <1>3, <1>4, <1>5, Zenon DEF SpentAt

-----------------------------------------------------------------------------
\* What each step does, in terms of the frames before and after.
LEMMA BeginFrames ==
  ASSUME Begin
  PROVE  /\ frames' \in Seq(Frame)
         /\ Len(frames') = 1 /\ Len(frames) = 0
         /\ frames'[1].gas = frames'[1].start
<1>1. ASSUME NEW f \in Frame PROVE << f >> \in Seq(Frame)
  OBVIOUS
<1>2. << frames'[1] >> \in Seq(Frame)
  BY <1>1 DEF Begin
<1>3. frames' = << frames'[1] >>
  BY DEF Begin
<1>4. frames' \in Seq(Frame)
  BY <1>2, <1>3, Zenon
<1>5. Len(frames) = 0
  BY EmptySeq DEF Begin
<1>. QED
  BY <1>4, <1>5 DEF Begin

\* Only the innermost frame has spent gas.
LEMMA WorkFrames ==
  ASSUME Work, frames \in Seq(Frame)
  PROVE  /\ Len(frames) \in 1..Len(frames)
         /\ frames'[Len(frames)].gas \in Nat
         /\ frames'[Len(frames)].gas < frames[Len(frames)].gas
         /\ SpentAt(frames, frames', Len(frames), frames'[Len(frames)].gas)
<1>1. Len(frames) \in 1..Len(frames)
  BY EmptySeq DEF Work
<1>2. /\ frames'[Len(frames)].gas \in Nat
      /\ frames'[Len(frames)].gas < frames[Len(frames)].gas
      /\ frames' = [frames EXCEPT ![Len(frames)].gas = frames'[Len(frames)].gas]
  BY Zenon DEF Work, top
<1>3. ASSUME NEW g \in Nat
      PROVE  SpentAt(frames, [frames EXCEPT ![Len(frames)].gas = g],
                     Len(frames), g)
  BY <1>1, ChangeGas
<1>4. SpentAt(frames, frames', Len(frames), frames'[Len(frames)].gas)
  BY <1>2, <1>3, Zenon
<1>. QED
  BY <1>1, <1>2, <1>4, Zenon

\* The frames of a call before the callee is added.
LEMMA CallFramesStep ==
  ASSUME Call, frames \in Seq(Frame)
  PROVE  \E caller \in Seq(Frame), callee \in Frame, g \in Nat :
           /\ Len(frames) \in 1..Len(frames)
           /\ g < frames[Len(frames)].gas
           /\ SpentAt(frames, caller, Len(frames), g)
           /\ callee.gas = callee.start /\ callee.start <= g
           /\ callee.depth = frames[Len(frames)].depth + 1
           /\ frames' = Append(caller, callee)
<1> DEFINE n == Len(frames)
           g == frames'[n].gas
           callee == frames'[n + 1]
           caller == [frames EXCEPT ![n].gas = g]
<1>1. n \in 1..n
  BY EmptySeq DEF Call
<1>2. /\ g \in Nat /\ g < frames[n].gas
      /\ callee \in Frame
      /\ callee.gas = callee.start /\ callee.start <= g
      /\ callee.depth = frames[n].depth + 1
      /\ frames' = Append(caller, callee)
  BY Zenon DEF Call, top, IsLent, HandsDown
<1>3. ASSUME NEW h \in Nat
      PROVE  SpentAt(frames, [frames EXCEPT ![n].gas = h], n, h)
  BY <1>1, ChangeGas
<1>4. SpentAt(frames, caller, n, g)
  BY <1>2, <1>3, Zenon
<1>5. caller \in Seq(Frame)
  BY <1>4, Zenon DEF SpentAt
<1>. HIDE DEF n, g, callee, caller
<1>. QED
  BY <1>1, <1>2, <1>4, <1>5, Zenon DEF n

-----------------------------------------------------------------------------
\* Sound frames stay sound when the innermost one has less gas, ...
LEMMA SpendingSound ==
  ASSUME NEW s, Sound(s), Len(s) > 0, NEW g \in Nat, g <= s[Len(s)].gas,
         NEW t, SpentAt(s, t, Len(s), g)
  PROVE  Sound(t)
<1> DEFINE n == Len(s)
<1>1. /\ s \in Seq(Frame) /\ n \in Nat /\ n \in 1..n
      /\ t \in Seq(Frame) /\ Len(t) = n
      /\ t[n].gas = g /\ Spent(s[n], t[n])
      /\ \A j \in 1..n : j # n => t[j] = s[j]
  BY DEF Sound, SpentAt
<1>. HIDE DEF n
<1>2. ASSUME NEW i \in 1..n PROVE Spent(s[i], t[i])
  BY <1>1 DEF Spent
<1>3. ASSUME NEW i \in 1..n PROVE t[i].gas <= t[i].start
  <2>1. s[i].gas \in Nat /\ s[i].start \in Nat /\ s[i].gas <= s[i].start
    BY <1>1, Numbers DEF Sound, n
  <2>2. CASE i = n
    BY <2>1, <2>2, <1>1 DEF Spent, n
  <2>3. CASE i # n
    BY <2>1, <2>3, <1>1
  <2>. QED
    BY <2>2, <2>3
<1>4. ASSUME NEW i \in 1..n - 1 PROVE Lends(t[i], t[i + 1])
  <2>1. i \in 1..n /\ i # n /\ i + 1 \in 1..n /\ i \in 1..Len(s) - 1
    BY <1>1 DEF n
  <2>2. t[i] = s[i] /\ Spent(s[i + 1], t[i + 1])
    BY <1>1, <1>2, <2>1
  <2>3. Lends(s[i], s[i + 1])
    BY <2>1 DEF Sound
  <2>. QED
    BY <2>2, <2>3, Zenon DEF Lends, Spent
<1>. QED
  BY <1>1, <1>3, <1>4, Zenon DEF Sound

\* ... when a callee is added that is lent no more than that, ...
LEMMA CallingSound ==
  ASSUME NEW s, Sound(s), Len(s) > 0, NEW f \in Frame,
         f.gas = f.start, Lends(s[Len(s)], f)
  PROVE  Sound(Append(s, f))
<1> DEFINE n == Len(s)
           t == Append(s, f)
<1>1. /\ s \in Seq(Frame) /\ n \in Nat /\ n \in 1..n
      /\ t \in Seq(Frame) /\ Len(t) = n + 1
      /\ \A j \in 1..n : t[j] = s[j]
      /\ t[n + 1] = f
  BY AppendProperties DEF Sound
<1>. HIDE DEF n, t
<1>2. ASSUME NEW i \in 1..n + 1 PROVE t[i].gas <= t[i].start
  <2>1. CASE i = n + 1
    BY <2>1, <1>1 DEF Frame
  <2>2. CASE i # n + 1
    BY <2>2, <1>1 DEF Sound, n
  <2>. QED
    BY <2>1, <2>2
<1>3. ASSUME NEW i \in 1..n PROVE Lends(t[i], t[i + 1])
  <2>1. CASE i = n
    BY <2>1, <1>1 DEF n
  <2>2. CASE i # n
    <3>1. i + 1 \in 1..n /\ i \in 1..Len(s) - 1
      BY <2>2, <1>1 DEF n
    <3>. QED
      BY <3>1, <1>1 DEF Sound
  <2>. QED
    BY <2>1, <2>2
<1>4. \A i \in 1..Len(t) - 1 : Lends(t[i], t[i + 1])
  BY <1>1, <1>3
<1>5. Sound(t)
  BY <1>1, <1>2, <1>4, Zenon DEF Sound
<1>. QED
  BY <1>5 DEF t

\* ... and when the innermost frame is removed.
LEMMA ReturningSound ==
  ASSUME NEW s, Sound(s), Len(s) > 1,
         NEW c \in Seq(Frame), Len(c) = Len(s) - 1,
         \A j \in 1..Len(c) : c[j] = s[j]
  PROVE  Sound(c)
<1>1. Len(s) \in Nat /\ Len(c) \in Nat
  BY DEF Sound
<1>2. \A i \in 1..Len(c) : c[i].gas <= c[i].start
  BY <1>1 DEF Sound
<1>3. \A i \in 1..Len(c) - 1 : Lends(c[i], c[i + 1])
  BY <1>1 DEF Sound
<1>. QED
  BY <1>2, <1>3, Zenon DEF Sound

\* The frames of a return after the callee is removed.  What is left of the
\* gas of the caller is a natural number because the frames are sound.
LEMMA ReturnFrames ==
  ASSUME Return, Sound(frames)
  PROVE  \E c \in Seq(Frame), g \in Nat :
           /\ Len(frames) > 1
           /\ Len(c) = Len(frames) - 1
           /\ \A j \in 1..Len(c) : c[j] = frames[j]
           /\ g <= frames[Len(c)].gas
           /\ SpentAt(c, frames', Len(c), g)
<1> DEFINE n == Len(frames)
           g == frames'[n - 1].gas
           c == SubSeq(frames, 1, n - 1)
<1>1. frames \in Seq(Frame) /\ n \in Nat /\ n > 1
  BY DEF Return, Sound, top
<1>2. \A j \in 1..n : frames[j] \in Frame
  BY <1>1, ElementOfSeq
<1>3. /\ c \in Seq(Frame) /\ Len(c) = n - 1
      /\ \A j \in 1..n - 1 : c[j] = frames[j]
  BY <1>1, <1>2, SubSeqProperties
<1>4. /\ g \in {0, frames[n - 1].gas - (frames[n].start - frames[n].gas)}
      /\ frames' = [c EXCEPT ![n - 1].gas = g]
  BY Zenon DEF Return, top, callers, LeftAfter
<1>. HIDE DEF g, c
<1>5. /\ frames[n - 1].gas \in Nat /\ frames[n].start \in Nat
      /\ frames[n].gas \in Nat
  BY <1>1, Numbers
<1>6. frames[n].start <= frames[n - 1].gas /\ frames[n].gas <= frames[n].start
  <2>1. n - 1 \in 1..n - 1 /\ n \in 1..n /\ (n - 1) + 1 = n
    BY <1>1
  <2>2. Lends(frames[n - 1], frames[(n - 1) + 1])
    BY <2>1, Zenon DEF Sound
  <2>3. frames[n].gas <= frames[n].start
    BY <2>1, Zenon DEF Sound
  <2>. QED
    BY <2>1, <2>2, <2>3 DEF Lends
<1>7. g \in Nat /\ g <= frames[n - 1].gas
  BY <1>4, <1>5, <1>6
<1>8. ASSUME NEW h \in Nat
      PROVE  SpentAt(c, [c EXCEPT ![n - 1].gas = h], n - 1, h)
  BY <1>1, <1>3, ChangeGas
<1>9. SpentAt(c, frames', n - 1, g)
  BY <1>4, <1>7, <1>8, Zenon
<1>. QED
  BY <1>1, <1>3, <1>7, <1>9

-----------------------------------------------------------------------------
\* The invariant speaks of the frames in the terms of the lemmas.
LEMMA InvariantIsSound == Solvent <=> Sound(frames)
BY Zenon DEF Solvent, Sound, Lends, top

\* There are no frames in the beginning.
LEMMA FramesInit == Init => Solvent
BY EmptySeq DEF Init, Solvent, top

\* Every step keeps the frames sound.
LEMMA SoundStep ==
  ASSUME Sound(frames), [Next]_frames
  PROVE  Sound(frames')
<1>0. frames \in Seq(Frame) /\ Len(frames) \in Nat
  BY DEF Sound
<1>1. CASE Begin
  <2>1. frames' \in Seq(Frame) /\ Len(frames') = 1
    BY <1>1, BeginFrames
  <2>2. frames'[1].gas <= frames'[1].start
    <3>1. ASSUME NEW s \in Seq(Frame), Len(s) = 1, s[1].gas = s[1].start
          PROVE  s[1].gas <= s[1].start
      <4>1. 1 \in 1..Len(s)
        BY <3>1
      <4>2. s[1].start \in Nat
        BY <4>1, Numbers
      <4>. QED
        BY <4>2, <3>1
    <3>. QED
      BY <3>1, <2>1, <1>1, BeginFrames, Zenon
  <2>. QED
    BY <2>1, <2>2 DEF Sound
<1>2. CASE Work
  <2>1. PICK g \in Nat : /\ g < frames[Len(frames)].gas
                         /\ Len(frames) \in 1..Len(frames)
                         /\ SpentAt(frames, frames', Len(frames), g)
    BY <1>2, <1>0, WorkFrames, Zenon
  <2>2. Len(frames) > 0 /\ g <= frames[Len(frames)].gas
    BY <2>1, <1>0, Numbers
  <2>. QED
    BY <2>1, <2>2, SpendingSound, Zenon
<1>3. CASE Call
  <2> DEFINE n == Len(frames)
  <2>1. PICK caller \in Seq(Frame), callee \in Frame, g \in Nat :
           /\ n \in 1..n
           /\ g < frames[n].gas
           /\ SpentAt(frames, caller, n, g)
           /\ callee.gas = callee.start /\ callee.start <= g
           /\ callee.depth = frames[n].depth + 1
           /\ frames' = Append(caller, callee)
    BY <1>3, <1>0, CallFramesStep, Zenon
  <2>2. n > 0 /\ g <= frames[n].gas
    BY <2>1, <1>0, Numbers
  <2>3. Sound(caller)
    BY <2>1, <2>2, SpendingSound, Zenon
  <2>4. Len(caller) = n /\ caller[n].gas = g /\ Spent(frames[n], caller[n])
    BY <2>1, Zenon DEF SpentAt
  <2>5. Lends(caller[Len(caller)], callee)
    BY <2>1, <2>4, Zenon DEF Lends, Spent
  <2>. QED
    BY <2>1, <2>2, <2>3, <2>4, <2>5, CallingSound, Zenon
<1>4. CASE Return
  <2>1. PICK c \in Seq(Frame), g \in Nat :
           /\ Len(frames) > 1
           /\ Len(c) = Len(frames) - 1
           /\ \A j \in 1..Len(c) : c[j] = frames[j]
           /\ g <= frames[Len(c)].gas
           /\ SpentAt(c, frames', Len(c), g)
    BY <1>4, ReturnFrames, Zenon
  <2>2. Sound(c)
    BY <2>1, ReturningSound
  <2>3. Len(c) > 0 /\ c[Len(c)] = frames[Len(c)]
    BY <2>1, <1>0
  <2>4. g <= c[Len(c)].gas
    BY <2>1, <2>3, Zenon
  <2>. QED
    BY <2>1, <2>2, <2>3, <2>4, SpendingSound, Zenon
<1>5. CASE End
  <2>1. ASSUME NEW s, s = << >> PROVE Sound(s)
    BY <2>1, EmptySeq DEF Sound
  <2>. QED
    BY <1>5, <2>1 DEF End
<1>6. CASE UNCHANGED frames
  BY <1>6, Zenon
<1>. QED
  BY <1>1, <1>2, <1>3, <1>4, <1>5, <1>6 DEF Next

\* The invariant is inductive.
LEMMA FramesStep == Solvent /\ [Next]_frames => Solvent'
<1>1. (Solvent <=> Sound(frames))'
  BY Zenon DEF Solvent, Sound, Lends, top
<1>. QED
  BY <1>1, InvariantIsSound, SoundStep, Zenon

-----------------------------------------------------------------------------
\* A frame can always pay for what it has lent, and never has more gas than it
\* was given, at any depth up to any limit.
THEOREM FramesSolvent == Spec => []Solvent
BY FramesInit, FramesStep, PTL DEF Spec

\* No step of any frame adds gas to a frame, the return of a callee included.
THEOREM NoGasGained == Spec => GasNeverGrows
<1> DEFINE Kept == \A i \in 1..top : i <= top' => frames'[i].gas <= frames[i].gas
<1>1. ASSUME Solvent, [Next]_frames
      PROVE  [Kept]_frames
  <2>0. /\ frames \in Seq(Frame) /\ Len(frames) \in Nat
        /\ \A j \in 1..Len(frames) : frames[j].gas \in Nat
    <3>1. Sound(frames)
      BY <1>1, InvariantIsSound, Zenon
    <3>2. frames \in Seq(Frame)
      BY <3>1 DEF Sound
    <3>. QED
      BY <3>2, Numbers
  <2>1. CASE Begin
    BY <2>1, BeginFrames DEF top
  <2>2. CASE Work
    <3> DEFINE n == Len(frames)
    <3>1. /\ n \in 1..n /\ frames'[n].gas \in Nat
          /\ frames'[n].gas < frames[n].gas
          /\ \A j \in 1..n : j # n => frames'[j] = frames[j]
      BY <2>2, <2>0, WorkFrames, Zenon DEF SpentAt
    <3>. QED
      BY <3>1, <2>0 DEF top
  <2>3. CASE Call
    <3> DEFINE n == Len(frames)
    <3>1. PICK caller \in Seq(Frame), callee \in Frame, g \in Nat :
             /\ n \in 1..n /\ g < frames[n].gas
             /\ SpentAt(frames, caller, n, g)
             /\ frames' = Append(caller, callee)
      BY <2>3, <2>0, CallFramesStep, Zenon
    <3>2. /\ caller[n].gas = g /\ Len(caller) = n
          /\ \A j \in 1..n : j # n => caller[j] = frames[j]
      BY <3>1, Zenon DEF SpentAt
    <3>3. \A j \in 1..n : frames'[j] = caller[j]
      BY <3>1, <3>2, AppendProperties
    <3>. QED
      BY <3>1, <3>2, <3>3, <2>0 DEF top
  <2>4. CASE Return
    <3>1. PICK c \in Seq(Frame), g \in Nat :
             /\ Len(frames) > 1
             /\ Len(c) = Len(frames) - 1
             /\ \A j \in 1..Len(c) : c[j] = frames[j]
             /\ g <= frames[Len(c)].gas
             /\ SpentAt(c, frames', Len(c), g)
      BY <1>1, <2>4, ReturnFrames, InvariantIsSound, Zenon
    <3>2. /\ Len(frames') = Len(c) /\ frames'[Len(c)].gas = g
          /\ \A j \in 1..Len(c) : j # Len(c) => frames'[j] = c[j]
      BY <3>1, Zenon DEF SpentAt
    <3>. QED
      BY <3>1, <3>2, <2>0 DEF top
  <2>5. CASE End
    BY <2>5, EmptySeq DEF End, top
  <2>6. CASE UNCHANGED frames
    BY <2>6
  <2>. QED
    BY <1>1, <2>1, <2>2, <2>3, <2>4, <2>5, <2>6 DEF Next
<1>. QED
  BY <1>1, FramesSolvent, PTL DEF Spec, GasNeverGrows

=============================================================================
