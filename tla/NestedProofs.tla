---------------------------- MODULE NestedProofs -----------------------------
(***************************************************************************)
(* Nested executions, of any depth, with any options at any time.          *)
(***************************************************************************)
EXTENDS NestedExecution, WordsProofs

(***************************************************************************)
(* The traced frames of a sequence of frames.                              *)
(***************************************************************************)
\* The recursion of TracedOf: selected[n] are those of the first n frames.
Selects(frames, selected) ==
    /\ DOMAIN selected = 0..Len(frames)
    /\ selected[0] = << >>
    /\ \A n \in 1..Len(frames) :
         selected[n] = IF frames[n].traced
                       THEN Append(selected[n - 1], Traced(frames[n]))
                       ELSE selected[n - 1]

LEMMA TracedOfSelects ==
    ASSUME NEW frames, Len(frames) \in Nat,
           NEW S, \A n \in 1..Len(frames) : Traced(frames[n]) \in S
    PROVE  \E selected \in [0..Len(frames) -> Seq(S)] :
             /\ Selects(frames, selected)
             /\ TracedOf(frames) = selected[Len(frames)]
<1> DEFINE N == Len(frames)
           Sel(n, q) == IF frames[n].traced
                        THEN Append(q, Traced(frames[n])) ELSE q
           Body(f) == [n \in 0..N |-> IF n = 0 THEN << >>
                         ELSE Sel(n, f[n - 1])]
           select == CHOOSE f : f = Body(f)
           G == [n \in 1..N |-> [q \in Seq(S) |-> Sel(n, q)]]
<1>1. TracedOf(frames) = select[N]
  BY DEF TracedOf
<1>2. N \in Nat /\ << >> \in Seq(S)
  OBVIOUS
<1>3. \A n \in 1..N, q \in Seq(S) : Sel(n, q) \in Seq(S)
  OBVIOUS
<1>11. ASSUME NEW f, DOMAIN f = 0..N, f[0] = << >>,
              \A n \in 1..N : f[n] = Sel(n, f[n - 1])
       PROVE  Selects(frames, f)
  BY <1>11 DEF Selects
<1> HIDE DEF N, Sel
<1>4. G \in [1..N -> [Seq(S) -> Seq(S)]]
  BY <1>3
<1>5. PICK f \in [0..N -> Seq(S)] :
        f[0] = << >> /\ \A n \in 1..N : f[n] = G[n][f[n - 1]]
  <2> HIDE DEF G
  <2>1. Recursive(N, Seq(S), << >>, G)
    BY <1>2, <1>4, Recursion
  <2> QED
    BY <2>1 DEF Recursive
<1>6. ASSUME NEW n \in 1..N
      PROVE  f[n] = Sel(n, f[n - 1])
  <2>1. n - 1 \in 0..N
    BY <1>2
  <2>2. f[n - 1] \in Seq(S)
    BY <2>1, <1>5
  <2>3. G[n][f[n - 1]] = Sel(n, f[n - 1])
    BY <2>2
  <2> QED
    BY <2>3, <1>5
<1>7. f = Body(f)
  BY <1>2, <1>5, <1>6
<1>8. select = Body(select)
  BY <1>7
<1> HIDE DEF select
<1>9. DOMAIN select = 0..N /\ select[0] = << >>
  BY <1>8, <1>2
<1>10. \A n \in 1..N : select[n] = Sel(n, select[n - 1])
  BY <1>8, <1>2
<1>12. \A n \in 0..N : select[n] \in Seq(S)
  <2> DEFINE P == {n \in 0..N : select[n] \in Seq(S)}
  <2>1. 0 \in P
    <3>1. 0 \in 0..N /\ select[0] \in Seq(S)
      BY <1>2, <1>9
    <3> QED
      BY <3>1
  <2>2. ASSUME NEW n \in 1..N, n - 1 \in P
        PROVE  n \in P
    <3>1. select[n - 1] \in Seq(S)
      BY <2>2
    <3>2. select[n] \in Seq(S)
      BY <3>1, <1>3, <1>10
    <3> QED
      BY <3>2, <1>2
  <2>3. 0..N \subseteq P
    <3> HIDE DEF P
    <3> QED
      BY <1>2, <2>1, <2>2, RangeInduction
  <2> QED
    BY <2>3
<1>13. select \in [0..N -> Seq(S)]
  BY <1>8, <1>12
<1>14. Selects(frames, select)
  BY <1>9, <1>10, <1>11
<1> QED
  BY <1>1, <1>13, <1>14 DEF N

\* Two recursions over the same frames agree.
LEMMA SelectsAgree ==
    ASSUME NEW frames, NEW more, Len(frames) \in Nat, Len(more) \in Nat,
           Len(frames) <= Len(more),
           \A n \in 1..Len(frames) : frames[n] = more[n],
           NEW f, Selects(frames, f), NEW g, Selects(more, g)
    PROVE  \A n \in 0..Len(frames) : f[n] = g[n]
<1> DEFINE N == Len(frames)
           P == {n \in 0..N : f[n] = g[n]}
<1>1. N \in Nat
  OBVIOUS
<1>2. 0 \in P
  BY DEF Selects
<1>3. ASSUME NEW n \in 1..N, n - 1 \in P
      PROVE  n \in P
  <2>1. n \in 1..Len(more) /\ frames[n] = more[n] /\ f[n - 1] = g[n - 1]
    BY <1>3
  <2>2. f[n] = g[n]
    BY <2>1 DEF Selects
  <2> QED
    BY <2>2
<1>4. 0..N \subseteq P
  <2> HIDE DEF P, N
  <2> QED
    BY <1>1, <1>2, <1>3, RangeInduction
<1> QED
  BY <1>4

LEMMA TracedOfAppend ==
    ASSUME NEW S, NEW frames \in Seq(S), NEW frame
    PROVE  TracedOf(Append(frames, frame)) =
             IF frame.traced THEN Append(TracedOf(frames), Traced(frame))
             ELSE TracedOf(frames)
<1> DEFINE more == Append(frames, frame)
           T == {Traced(more[n]) : n \in 1..Len(more)}
<1>1. /\ Len(frames) \in Nat /\ Len(more) = Len(frames) + 1
      /\ Len(more) \in Nat
      /\ more[Len(frames) + 1] = frame
      /\ \A n \in 1..Len(frames) : frames[n] = more[n]
  <2>1. more \in Seq(S \cup {frame})
    OBVIOUS
  <2> QED
    BY <2>1
<1>2. \A n \in 1..Len(more) : Traced(more[n]) \in T
  OBVIOUS
<1>3. \A n \in 1..Len(frames) : Traced(frames[n]) \in T
  BY <1>1
<1> HIDE DEF more, T
<1>4. PICK f : Selects(frames, f) /\ TracedOf(frames) = f[Len(frames)]
  BY <1>1, <1>3, TracedOfSelects
<1>5. PICK g : Selects(more, g) /\ TracedOf(more) = g[Len(more)]
  BY <1>1, <1>2, TracedOfSelects
<1>6. g[Len(frames)] = TracedOf(frames)
  <2>2. Len(frames) <= Len(more)
    BY <1>1
  <2>1. \A n \in 0..Len(frames) : f[n] = g[n]
    BY <2>2, <1>1, <1>4, <1>5, SelectsAgree
  <2> QED
    BY <2>1, <1>1, <1>4
<1>7. Len(more) \in 1..Len(more) /\ Len(more) - 1 = Len(frames)
  BY <1>1
<1>8. g[Len(more)] = IF frame.traced
                     THEN Append(g[Len(frames)], Traced(frame))
                     ELSE g[Len(frames)]
  BY <1>1, <1>5, <1>7 DEF Selects
<1> QED
  BY <1>5, <1>6, <1>8 DEF more

\* They are a sequence, and empty when no frame is traced.
LEMMA TracedOfIsSeq ==
    ASSUME NEW S, NEW frames \in Seq(S)
    PROVE  \E T : TracedOf(frames) \in Seq(T)
<1> DEFINE T == {Traced(frames[n]) : n \in 1..Len(frames)}
<1>1. Len(frames) \in Nat /\ \A n \in 1..Len(frames) : Traced(frames[n]) \in T
  OBVIOUS
<1> HIDE DEF T
<1>2. PICK f \in [0..Len(frames) -> Seq(T)] : TracedOf(frames) = f[Len(frames)]
  BY <1>1, TracedOfSelects
<1>3. f[Len(frames)] \in Seq(T)
  BY <1>1
<1> QED
  BY <1>2, <1>3

LEMMA TracedOfNone ==
    ASSUME NEW S, NEW frames \in Seq(S),
           \A n \in DOMAIN frames : ~frames[n].traced
    PROVE  TracedOf(frames) = << >>
<1> DEFINE T == {Traced(frames[n]) : n \in 1..Len(frames)}
<1>1. Len(frames) \in Nat /\ \A n \in 1..Len(frames) : Traced(frames[n]) \in T
  OBVIOUS
<1> HIDE DEF T
<1>2. PICK f : Selects(frames, f) /\ TracedOf(frames) = f[Len(frames)]
  BY <1>1, TracedOfSelects
<1> DEFINE N == Len(frames)
           P == {n \in 0..N : f[n] = << >>}
<1>3. 0 \in P
  BY <1>1, <1>2 DEF Selects
<1>4. ASSUME NEW n \in 1..N, n - 1 \in P
      PROVE  n \in P
  <2>1. ~frames[n].traced /\ f[n - 1] = << >>
    BY <1>4
  <2>2. f[n] = << >>
    BY <2>1, <1>2 DEF Selects
  <2> QED
    BY <2>2, <1>1
<1>5. 0..N \subseteq P
  <2> HIDE DEF P, N
  <2>1. N \in Nat
    BY <1>1 DEF N
  <2> QED
    BY <2>1, <1>3, <1>4, RangeInduction
<1> QED
  BY <1>1, <1>2, <1>5

-----------------------------------------------------------------------------
(***************************************************************************)
(* The contexts of the tracers.                                            *)
(***************************************************************************)
\* The sequence operations of a stack.
LEMMA AppendFacts ==
    ASSUME NEW S, NEW s \in Seq(S), NEW x
    PROVE  /\ Append(s, x) \in Seq(S \cup {x})
           /\ Len(s) \in Nat /\ Len(Append(s, x)) = Len(s) + 1
           /\ \A k \in 1..Len(s) : Append(s, x)[k] = s[k]
           /\ Append(s, x)[Len(s) + 1] = x
           /\ Append(s, x) # << >>
           /\ pop(Append(s, x)) = s /\ top(Append(s, x)) = x
<1>1. /\ Append(s, x) \in Seq(S \cup {x}) /\ s \in Seq(S \cup {x})
      /\ Len(s) \in Nat /\ Len(Append(s, x)) = Len(s) + 1
      /\ \A k \in 1..Len(s) : Append(s, x)[k] = s[k]
      /\ Append(s, x)[Len(s) + 1] = x
      /\ Append(s, x) # << >>
  <2>1. s \in Seq(S \cup {x})
    OBVIOUS
  <2>2. /\ Append(s, x) \in Seq(S \cup {x})
        /\ Len(s) \in Nat /\ Len(Append(s, x)) = Len(s) + 1
    BY <2>1
  <2>3. \A k \in 1..Len(s) : Append(s, x)[k] = s[k]
    BY <2>1
  <2>4. Append(s, x)[Len(s) + 1] = x
    BY <2>1
  <2>5. Append(s, x) # << >>
    BY <2>2
  <2> QED
    BY <2>1, <2>2, <2>3, <2>4, <2>5
<1>2. pop(Append(s, x)) = s
  <2> DEFINE q == Append(s, x)
  <2>1. pop(q) = SubSeq(q, 1, Len(s)) /\ Len(s) <= Len(q)
    BY <1>1 DEF pop
  <2>2. /\ SubSeq(q, 1, Len(s)) \in Seq(S \cup {x})
        /\ Len(SubSeq(q, 1, Len(s))) = Len(s)
        /\ \A k \in 1..Len(s) : SubSeq(q, 1, Len(s))[k] = q[k]
    <3> HIDE DEF q
    <3>1. q \in Seq(S \cup {x})
      BY <1>1 DEF q
    <3> QED
      BY <1>1, <2>1, <3>1
  <2> HIDE DEF q
  <2>3. \A k \in 1..Len(s) : SubSeq(q, 1, Len(s))[k] = s[k]
    BY <2>2, <1>1 DEF q
  <2> QED
    BY <2>1, <2>2, <2>3, <1>1 DEF q
<1>3. top(Append(s, x)) = x
  BY <1>1 DEF top
<1> QED
  BY <1>1, <1>2, <1>3

LEMMA PopFacts ==
    ASSUME NEW S, NEW s \in Seq(S), s # << >>
    PROVE  /\ pop(s) \in Seq(S) /\ Len(pop(s)) = Len(s) - 1
           /\ Len(s) \in Nat \ {0}
           /\ \A k \in 1..Len(s) - 1 : pop(s)[k] = s[k]
           /\ s = Append(pop(s), top(s))
<1>1. Len(s) \in Nat \ {0}
  OBVIOUS
<1>2. /\ pop(s) \in Seq(S) /\ Len(pop(s)) = Len(s) - 1
      /\ \A k \in 1..Len(s) - 1 : pop(s)[k] = s[k]
  <2>1. Len(s) - 1 \in Nat /\ Len(s) - 1 <= Len(s)
    BY <1>1
  <2>2. pop(s) \in Seq(S) /\ Len(pop(s)) = Len(s) - 1
    <3>1. PICK n \in Nat : n = Len(s) - 1
      BY <2>1
    <3>2. n \in 0..Len(s)
      BY <2>1, <3>1
    <3>3. SubSeq(s, 1, n) \in Seq(S)
      <4>1. \A k \in 1..n : k \in 1..Len(s)
        BY <3>2
      <4> QED
        BY <4>1, <3>2
    <3>4. Len(SubSeq(s, 1, n)) = n
      BY <3>2
    <3> QED
      BY <3>1, <3>3, <3>4 DEF pop
  <2>3. \A k \in 1..Len(s) - 1 : pop(s)[k] = s[k]
    BY <1>1, <2>1 DEF pop
  <2> QED
    BY <2>2, <2>3
<1>3. s = Append(pop(s), top(s))
  <2>1. top(s) \in S
    BY <1>1 DEF top
  <2>2. Append(pop(s), top(s)) \in Seq(S)
    BY <2>1, <1>2
  <2>3. Len(Append(pop(s), top(s))) = Len(s)
    BY <1>1, <1>2, <2>1
  <2>4. \A k \in 1..Len(s) : Append(pop(s), top(s))[k] = s[k]
    BY <1>1, <1>2, <2>1 DEF top
  <2> QED
    BY <2>2, <2>3, <2>4
<1> QED
  BY <1>1, <1>2, <1>3

IsTracer(t) ==
    /\ t = [kind |-> t.kind, contexts |-> t.contexts,
            opcode_names |-> t.opcode_names, out |-> t.out, late |-> t.late,
            misused |-> t.misused]
    /\ t.late \in BOOLEAN /\ t.misused \in BOOLEAN
    /\ \E S : t.contexts \in Seq(S)

\* Context ctx of tracer t is that of the traced frame f.
ContextOf(t, ctx, f) ==
    /\ ctx.code = f.code
    /\ IF IsHistogram(t)
       THEN /\ ctx = [depth |-> ctx.depth, code |-> ctx.code,
                      opcode_names |-> ctx.opcode_names,
                      counts |-> ctx.counts]
            /\ ctx.depth = f.msg.depth /\ ctx.counts = f.executed
       ELSE ctx.start_gas = f.msg.gas

\* The tracer t has a context for each of the traced frames.
Mirrors(t, frames) ==
    /\ ~t.misused
    /\ Len(t.contexts) = Len(frames)
    /\ \A k \in 1..Len(frames) : ContextOf(t, t.contexts[k], frames[k])
    /\ ~IsHistogram(t) => /\ frames # << >> => t.opcode_names = rev
                          /\ frames = << >> => t.opcode_names = NoNames

IsTracers(list, frames) ==
    /\ \E T : frames \in Seq(T)
    /\ \E S : list \in Seq(S)
    /\ \A n \in DOMAIN list : IsTracer(list[n])
    /\ \A n \in DOMAIN list : list[n].late \/ Mirrors(list[n], frames)

\* A traced execution of f starts.
LEMMA TracerStarts ==
    ASSUME NEW t, IsTracer(t), NEW T, NEW frames \in Seq(T),
           t.late \/ Mirrors(t, frames), NEW m, NEW c,
           NEW u, u = IF IsHistogram(t) THEN HistogramStart(t, rev, m, c)
                      ELSE InstructionStart(t, rev, m, c),
           NEW f, f.msg = m, f.code = c, f.executed = EmptyBag
    PROVE  /\ IsTracer(u) /\ u.late = t.late
           /\ u.late \/ Mirrors(u, Append(frames, f))
<1> DEFINE ctx == IF IsHistogram(t)
                  THEN [depth |-> m.depth, code |-> c, opcode_names |-> rev,
                        counts |-> EmptyBag]
                  ELSE [code |-> c, start_gas |-> m.gas]
<1>1. /\ u = [kind |-> t.kind, contexts |-> Append(t.contexts, ctx),
              opcode_names |-> IF ~IsHistogram(t) /\ t.contexts = << >>
                               THEN rev ELSE t.opcode_names,
              out |-> t.out, late |-> t.late, misused |-> t.misused]
  BY DEF HistogramStart, InstructionStart, IsTracer
<1>2. ContextOf(t, ctx, f)
  BY DEF ContextOf
<1> HIDE DEF ctx
<1>3. PICK S : t.contexts \in Seq(S)
  BY DEF IsTracer
<1>4. /\ u.contexts \in Seq(S \cup {ctx})
      /\ Len(u.contexts) = Len(t.contexts) + 1
      /\ Len(t.contexts) \in Nat
      /\ \A k \in 1..Len(t.contexts) : u.contexts[k] = t.contexts[k]
      /\ u.contexts[Len(t.contexts) + 1] = ctx
  <2>1. u.contexts = Append(t.contexts, ctx)
    BY <1>1
  <2> QED
    BY ONLY <2>1, <1>3, AppendFacts
<1>5. /\ u.kind = t.kind /\ u.late = t.late /\ u.misused = t.misused
      /\ IsHistogram(u) = IsHistogram(t)
  BY <1>1 DEF IsHistogram
<1>6. IsTracer(u)
  BY <1>1, <1>4, <1>5 DEF IsTracer
<1>7. ASSUME ~t.late
      PROVE  Mirrors(u, Append(frames, f))
  <2>1. Mirrors(t, frames)
    BY <1>7
  <2>2. /\ Len(Append(frames, f)) = Len(frames) + 1 /\ Len(frames) \in Nat
        /\ \A k \in 1..Len(frames) : Append(frames, f)[k] = frames[k]
        /\ Append(frames, f)[Len(frames) + 1] = f
        /\ Append(frames, f) # << >>
    BY ONLY frames \in Seq(T), AppendFacts
  <2>3. \A k \in 1..Len(Append(frames, f)) :
          ContextOf(u, u.contexts[k], Append(frames, f)[k])
    <3>1. ASSUME NEW k \in 1..Len(Append(frames, f))
          PROVE  ContextOf(t, u.contexts[k], Append(frames, f)[k])
      <4>1. CASE k = Len(frames) + 1
        BY <4>1, <2>1, <2>2, <1>2, <1>4 DEF Mirrors
      <4>2. CASE k # Len(frames) + 1
        <5>1. k \in 1..Len(frames)
          BY <4>2, <2>2
        <5> QED
          BY <5>1, <2>1, <2>2, <1>4 DEF Mirrors
      <4> QED
        BY <4>1, <4>2
    <3> QED
      BY <3>1, <1>5 DEF ContextOf
  <2>4. ~IsHistogram(t) => u.opcode_names = rev
    <3>1. CASE t.contexts = << >>
      BY <3>1, <1>1
    <3>2. CASE t.contexts # << >>
      <4>1. frames # << >>
        BY <3>2, <1>3, <2>1 DEF Mirrors
      <4> QED
        BY <4>1, <3>2, <2>1, <1>1 DEF Mirrors
    <3> QED
      BY <3>1, <3>2
  <2> QED
    BY <2>1, <2>2, <2>3, <2>4, <1>4, <1>5 DEF Mirrors
<1> QED
  BY <1>5, <1>6, <1>7 DEF IsTracer

\* Tracer t is u when it has been told of the instruction at pc.
IsTold(t, u, pc) ==
    u = IF IsHistogram(t) THEN HistogramInstruction(t, pc)
        ELSE InstructionInstruction(t, pc)

\* The execution f has counted its instruction at pc in g.
OneMore(f, g, pc) ==
    /\ g.msg = f.msg /\ g.code = f.code
    /\ g.executed = f.executed (+) SetToBag({f.code[pc + 1]})

\* The instruction at pc of the execution of f, with code c, is told: f is g
\* then.
LEMMA TracerCounts ==
    ASSUME NEW t, IsTracer(t), NEW T, NEW frames \in Seq(T), NEW f,
           t.late \/ Mirrors(t, Append(frames, f)), NEW pc,
           pc < Len(f.code), rev # NoNames,
           NEW u, IsTold(t, u, pc), NEW g, OneMore(f, g, pc)
    PROVE  /\ IsTracer(u) /\ u.late = t.late
           /\ u.late \/ Mirrors(u, Append(frames, g))
<1> USE DEF IsTold, OneMore
<1> DEFINE N == Len(t.contexts)
           ctx == t.contexts[N]
           counted == [ctx EXCEPT !.counts =
                         @ (+) SetToBag({ctx.code[pc + 1]})]
<1>1. PICK S : t.contexts \in Seq(S)
  BY DEF IsTracer
<1>2. /\ u = [kind |-> t.kind, contexts |-> u.contexts,
              opcode_names |-> u.opcode_names, out |-> u.out,
              late |-> u.late, misused |-> u.misused]
      /\ u.late = t.late /\ u.kind = t.kind
      /\ u.opcode_names = t.opcode_names
      /\ u.misused \in BOOLEAN
      /\ \/ u.contexts = t.contexts
         \/ /\ IsHistogram(t)
            /\ u.contexts = [t.contexts EXCEPT ![N] = counted]
            /\ t.contexts # << >>
  BY DEF HistogramInstruction, InstructionInstruction, Misused, IsTracer, top,
         HasByte
<1>3. IsHistogram(u) = IsHistogram(t)
  BY <1>2 DEF IsHistogram
<1>4. \E Q : u.contexts \in Seq(Q)
  <2>1. CASE u.contexts = t.contexts
    BY <2>1, <1>1
  <2>2. CASE u.contexts = [t.contexts EXCEPT ![N] = counted]
    <3> HIDE DEF counted
    <3>1. ASSUME NEW q \in Seq(S), NEW n, NEW x
          PROVE  [q EXCEPT ![n] = x] \in Seq(S \cup {x})
      <4>1. q \in [1..Len(q) -> S] /\ Len(q) \in Nat
        OBVIOUS
      <4>2. [q EXCEPT ![n] = x] \in [1..Len(q) -> S \cup {x}]
        BY <4>1
      <4> QED
        BY <4>1, <4>2
    <3>2. [t.contexts EXCEPT ![N] = counted] \in Seq(S \cup {counted})
      BY <1>1, <3>1
    <3> QED
      BY <2>2, <3>2
  <2> QED
    BY <1>2, <2>1, <2>2
<1>5. IsTracer(u)
  BY <1>2, <1>4 DEF IsTracer
<1>6. ASSUME ~t.late
      PROVE  Mirrors(u, Append(frames, g))
  <2>1. Mirrors(t, Append(frames, f))
    BY <1>6
  <2>2. /\ Len(Append(frames, f)) = Len(frames) + 1 /\ Len(frames) \in Nat
        /\ Len(Append(frames, g)) = Len(frames) + 1
        /\ \A k \in 1..Len(frames) : /\ Append(frames, f)[k] = frames[k]
                                     /\ Append(frames, g)[k] = frames[k]
        /\ Append(frames, f)[Len(frames) + 1] = f
        /\ Append(frames, g)[Len(frames) + 1] = g
        /\ Append(frames, f) # << >> /\ Append(frames, g) # << >>
    BY ONLY frames \in Seq(T), AppendFacts
  <2>3. /\ N = Len(frames) + 1 /\ ContextOf(t, ctx, f)
        /\ \A k \in 1..Len(frames) : ContextOf(t, t.contexts[k], frames[k])
        /\ ~t.misused
        /\ ~IsHistogram(t) => t.opcode_names = rev
    <3>1. N = Len(frames) + 1
      BY <2>1, <2>2 DEF Mirrors
    <3>2. \A k \in 1..Len(frames) + 1 :
            ContextOf(t, t.contexts[k], Append(frames, f)[k])
      BY <2>1, <2>2 DEF Mirrors
    <3>3. Len(frames) + 1 \in 1..Len(frames) + 1
          /\ \A k \in 1..Len(frames) : k \in 1..Len(frames) + 1
      BY <2>2
    <3>4. ContextOf(t, ctx, f)
      BY <3>1, <3>2, <3>3, <2>2
    <3>5. \A k \in 1..Len(frames) : ContextOf(t, t.contexts[k], frames[k])
      BY <3>2, <3>3, <2>2
    <3> QED
      BY <3>1, <3>4, <3>5, <2>1, <2>2 DEF Mirrors
  <2>4. HasByte(t, pc)
    <3>1. top(t.contexts).code = f.code
      BY <2>3 DEF ContextOf, top
    <3>2. t.contexts # << >>
      BY <2>2, <2>3, <1>1
    <3> QED
      BY <3>1, <3>2 DEF HasByte
  <2>5. CASE IsHistogram(t)
    <3>1. u = [t EXCEPT !.contexts = [t.contexts EXCEPT ![N] = counted]]
      BY <2>4, <2>5 DEF HistogramInstruction, top
    <3>2. u.contexts = [t.contexts EXCEPT ![N] = counted] /\ ~u.misused
      BY <3>1, <2>3 DEF IsTracer
    <3>3. ContextOf(t, counted, g)
      <4>1. counted = [depth |-> ctx.depth, code |-> ctx.code,
                       opcode_names |-> ctx.opcode_names,
                       counts |-> f.executed (+) SetToBag({f.code[pc + 1]})]
        BY <2>3, <2>5 DEF ContextOf
      <4> HIDE DEF counted
      <4> QED
        BY <4>1, <2>3, <2>5 DEF ContextOf
    <3> HIDE DEF counted, ctx
    <3>4. /\ Len(u.contexts) = N /\ u.contexts[N] = counted
          /\ \A k \in 1..Len(frames) : u.contexts[k] = t.contexts[k]
      BY <3>2, <2>2, <2>3, <1>1
    <3>5. \A k \in 1..Len(frames) + 1 :
            ContextOf(t, u.contexts[k], Append(frames, g)[k])
      <4>1. ASSUME NEW k \in 1..Len(frames) + 1
            PROVE  ContextOf(t, u.contexts[k], Append(frames, g)[k])
        <5>1. CASE k = Len(frames) + 1
          BY <5>1, <3>3, <3>4, <2>2, <2>3
        <5>2. CASE k # Len(frames) + 1
          <6>1. k \in 1..Len(frames)
            BY <5>2, <2>2
          <6> QED
            BY <6>1, <3>4, <2>2, <2>3
        <5> QED
          BY <5>1, <5>2
      <4> QED
        BY <4>1
    <3>6. \A k \in 1..Len(frames) + 1 :
            ContextOf(u, u.contexts[k], Append(frames, g)[k])
      BY <3>5, <1>3 DEF ContextOf
    <3> QED
      BY <3>2, <3>4, <3>6, <2>2, <2>3, <2>5, <1>3 DEF Mirrors
  <2>6. CASE ~IsHistogram(t)
    <3>1. u = t
      BY <2>3, <2>4, <2>6 DEF InstructionInstruction
    <3>2. \A k \in 1..Len(frames) + 1 :
            ContextOf(t, t.contexts[k], Append(frames, g)[k])
      <4>1. ContextOf(t, ctx, g)
        BY <2>3, <2>6 DEF ContextOf
      <4>2. ASSUME NEW k \in 1..Len(frames) + 1
            PROVE  ContextOf(t, t.contexts[k], Append(frames, g)[k])
        <5> HIDE DEF ctx
        <5>1. CASE k = Len(frames) + 1
          BY <5>1, <4>1, <2>2, <2>3 DEF ctx
        <5>2. CASE k # Len(frames) + 1
          <6>1. k \in 1..Len(frames)
            BY <5>2, <2>2
          <6> QED
            BY <6>1, <2>2, <2>3
        <5> QED
          BY <5>1, <5>2
      <4> QED
        BY <4>2
    <3> QED
      BY <3>1, <3>2, <2>2, <2>3, <2>6 DEF Mirrors
  <2> QED
    BY <2>5, <2>6
<1> QED
  BY <1>2, <1>5, <1>6 DEF IsTracer

\* The execution of f ends, with some result.
LEMMA TracerEnds ==
    ASSUME NEW t, IsTracer(t), NEW T, NEW frames \in Seq(T), NEW f,
           t.late \/ Mirrors(t, Append(frames, f)), NEW result,
           NEW u, u = IF IsHistogram(t) THEN HistogramEnd(t)
                      ELSE InstructionEnd(t, result)
    PROVE  /\ IsTracer(u) /\ u.late = t.late
           /\ u.late \/ Mirrors(u, frames)
           /\ u.late \/
              IF IsHistogram(t)
              THEN u.out = [depth |-> f.msg.depth, counts |-> f.executed]
              ELSE u.out = [gas |-> result.gas_left,
                            gasUsed |-> f.msg.gas - result.gas_left]
<1> DEFINE N == Len(t.contexts)
           ctx == t.contexts[N]
           report == IF IsHistogram(t)
                     THEN [depth |-> ctx.depth, counts |-> ctx.counts]
                     ELSE [gas |-> result.gas_left,
                           gasUsed |-> ctx.start_gas - result.gas_left]
           ended == [kind |-> t.kind, contexts |-> pop(t.contexts),
                     opcode_names |-> IF ~IsHistogram(t) /\ N = 1 THEN NoNames
                                      ELSE t.opcode_names,
                     out |-> report, late |-> t.late,
                     misused |-> t.misused]
<1>1. PICK S : t.contexts \in Seq(S)
  BY DEF IsTracer
<1>2. CASE t.contexts = << >>
  <2>1. u = [kind |-> t.kind, contexts |-> t.contexts,
             opcode_names |-> t.opcode_names, out |-> t.out, late |-> t.late,
             misused |-> TRUE]
    BY <1>2 DEF HistogramEnd, InstructionEnd, Misused, IsTracer
  <2>2. t.late
    <3>1. Len(Append(frames, f)) # 0
      BY ONLY frames \in Seq(T), AppendFacts
    <3>2. Len(t.contexts) = 0
      BY <1>2
    <3> QED
      BY <3>1, <3>2 DEF Mirrors
  <2>3. u.late /\ u.contexts = t.contexts
    BY <2>1, <2>2
  <2>4. IsTracer(u)
    <3>2. u.misused = TRUE /\ u.late = t.late
      BY <2>1
    <3>1. u.late \in BOOLEAN /\ u.misused \in BOOLEAN
      BY <3>2, Zenon DEF IsTracer
    <3> QED
      BY <2>1, <1>1, <2>3, <3>1 DEF IsTracer
  <2> QED
    BY <2>2, <2>3, <2>4 DEF IsTracer
<1>3. CASE t.contexts # << >>
  <2>1. u = ended
    BY <1>3 DEF HistogramEnd, InstructionEnd, IsTracer, top
  <2>2. /\ u.late = t.late /\ u.misused = t.misused /\ u.out = report
        /\ u.contexts = pop(t.contexts) /\ IsHistogram(u) = IsHistogram(t)
        /\ ~IsHistogram(t) =>
             u.opcode_names = IF N = 1 THEN NoNames ELSE t.opcode_names
    BY <2>1 DEF IsHistogram
  <2>3. /\ pop(t.contexts) \in Seq(S) /\ Len(pop(t.contexts)) = N - 1
        /\ N \in Nat \ {0}
        /\ \A k \in 1..N - 1 : pop(t.contexts)[k] = t.contexts[k]
    BY <1>1, <1>3, PopFacts
  <2>4. IsTracer(u)
    BY <2>1, <2>3 DEF IsTracer
  <2>5. ASSUME ~t.late
        PROVE  /\ Mirrors(u, frames)
               /\ IF IsHistogram(t)
                  THEN u.out = [depth |-> f.msg.depth, counts |-> f.executed]
                  ELSE u.out = [gas |-> result.gas_left,
                                gasUsed |-> f.msg.gas - result.gas_left]
    <3>1. Mirrors(t, Append(frames, f))
      BY <2>5
    <3>2. /\ Len(Append(frames, f)) = Len(frames) + 1 /\ Len(frames) \in Nat
          /\ \A k \in 1..Len(frames) : Append(frames, f)[k] = frames[k]
          /\ Append(frames, f)[Len(frames) + 1] = f
          /\ Append(frames, f) # << >>
      BY ONLY frames \in Seq(T), AppendFacts
    <3>3. N = Len(frames) + 1
      BY <3>1, <3>2 DEF Mirrors
    <3>4. \A k \in 1..Len(frames) + 1 :
            ContextOf(t, t.contexts[k], Append(frames, f)[k])
      BY <3>1, <3>2 DEF Mirrors
    <3>5. Len(frames) + 1 \in 1..Len(frames) + 1
          /\ \A k \in 1..Len(frames) : k \in 1..Len(frames) + 1
      BY <3>2
    <3>6. ContextOf(t, ctx, f)
      BY <3>2, <3>3, <3>4, <3>5
    <3>7. \A k \in 1..Len(frames) : ContextOf(t, t.contexts[k], frames[k])
      BY <3>2, <3>4, <3>5
    <3>8. \A k \in 1..Len(frames) : ContextOf(u, u.contexts[k], frames[k])
      <4>1. \A k \in 1..Len(frames) : u.contexts[k] = t.contexts[k]
        BY <2>2, <2>3, <3>2, <3>3
      <4> QED
        BY <4>1, <3>7, <2>2 DEF ContextOf
    <3>9. ~IsHistogram(t) => /\ frames # << >> => u.opcode_names = rev
                             /\ frames = << >> => u.opcode_names = NoNames
      <4>1. ~IsHistogram(t) => t.opcode_names = rev
        BY <3>1, <3>2 DEF Mirrors
      <4>2. frames = << >> <=> N = 1
        BY <3>2, <3>3
      <4> QED
        BY <4>1, <4>2, <2>2
    <3>10. Len(u.contexts) = Len(frames)
      BY <2>2, <2>3, <3>2, <3>3
    <3>11. Mirrors(u, frames)
      BY <3>1, <3>8, <3>9, <3>10, <2>2 DEF Mirrors
    <3>12. IF IsHistogram(t)
           THEN u.out = [depth |-> f.msg.depth, counts |-> f.executed]
           ELSE u.out = [gas |-> result.gas_left,
                         gasUsed |-> f.msg.gas - result.gas_left]
      BY <2>2, <3>6 DEF ContextOf
    <3> QED
      BY <3>11, <3>12
  <2> QED
    BY <2>2, <2>4, <2>5 DEF IsTracer
<1> QED
  BY <1>2, <1>3

-----------------------------------------------------------------------------
\* What the tracers know, and what it rests on.
TracingInv ==
    /\ rev \in Revisions
    /\ \E S : callers \in Seq(S)
    /\ control = "idle" => callers = << >>
    /\ IsTracers(tracers, LiveTraced)

LEMMA InitTracing == Init => TracingInv
<1> SUFFICES ASSUME Init PROVE TracingInv
  OBVIOUS
<1>1. rev \in Revisions /\ callers = << >> /\ tracers = << >>
      /\ control = "idle"
  BY DEF Init, InitVM
<1>2. callers \in Seq({}) /\ tracers \in Seq({})
  BY <1>1
<1>3. \A n \in DOMAIN callers : ~callers[n].traced
  BY <1>1
<1>4. TracedOf(callers) = << >>
  BY <1>2, <1>3, TracedOfNone
<1>5. LiveTraced = << >>
  BY <1>1, <1>4 DEF LiveTraced
<1>6. << >> \in Seq({}) /\ \A n \in DOMAIN tracers : FALSE
  BY <1>1
<1>7. IsTracers(tracers, LiveTraced)
  BY <1>2, <1>5, <1>6 DEF IsTracers
<1> QED
  BY <1>1, <1>2, <1>7 DEF TracingInv

\* The notifications keep a list a list.
LEMMA SameLength ==
    ASSUME NEW S, NEW s \in Seq(S), NEW f, f = [n \in DOMAIN s |-> f[n]]
    PROVE  \E R : f \in Seq(R)
<1> DEFINE R == {f[n] : n \in 1..Len(s)}
<1>1. Len(s) \in Nat /\ DOMAIN s = 1..Len(s)
  OBVIOUS
<1>2. f \in [1..Len(s) -> R]
  BY <1>1
<1> HIDE DEF R
<1>3. f \in Seq(R)
  BY <1>1, <1>2
<1> QED
  BY <1>3

\* A loop begins: the frame is added to the traced ones or runs untraced.
LEMMA BeginLoopTracing ==
    ASSUME TracingInv, BeginLoop, control # "frame",
           UNCHANGED <<rev, callers, msg, code>>
    PROVE  TracingInv'
<1>1. PICK S : callers \in Seq(S)
  BY DEF TracingInv
<1>2. LiveTraced = TracedOf(callers)
  BY DEF LiveTraced
<1>3. TracedOf(callers)' = TracedOf(callers)
  BY DEF TracedOf, Traced
<1>4. PICK T : TracedOf(callers) \in Seq(T)
  BY <1>1, TracedOfIsSeq
<1>5. CASE interpreter = "baseline" /\ HasTracer
  <2>1. LiveTraced' = Append(TracedOf(callers), Innermost')
    BY <1>5, <1>3 DEF BeginLoop, LiveTraced
  <2>2. /\ Innermost'.msg = msg /\ Innermost'.code = code
        /\ Innermost'.executed = EmptyBag
    BY DEF Innermost, BeginLoop
  <2>3. PICK f : f = Innermost'
    OBVIOUS
  <2>4. tracers' = notify_execution_start(tracers, rev, msg, code)
    BY <1>5 DEF BeginLoop
  <2>5. IsTracers(tracers', Append(TracedOf(callers), f))
    <3>1. DOMAIN tracers' = DOMAIN tracers
      BY <2>4 DEF notify_execution_start
    <3>2. PICK Q : tracers \in Seq(Q)
      BY DEF TracingInv, IsTracers
    <3>3. ASSUME NEW n \in DOMAIN tracers
          PROVE  /\ IsTracer(tracers'[n])
                 /\ \/ tracers'[n].late
                    \/ Mirrors(tracers'[n], Append(TracedOf(callers), f))
      <4>1. /\ IsTracer(tracers[n])
            /\ tracers[n].late \/ Mirrors(tracers[n], TracedOf(callers))
        BY <1>2 DEF TracingInv, IsTracers
      <4>2. tracers'[n] = IF IsHistogram(tracers[n])
                          THEN HistogramStart(tracers[n], rev, msg, code)
                          ELSE InstructionStart(tracers[n], rev, msg, code)
        BY <2>4 DEF notify_execution_start
      <4> QED
        BY <4>1, <4>2, <2>2, <2>3, <1>4, TracerStarts
    <3>4. \E R : tracers' \in Seq(R)
      <4>1. tracers' = [n \in DOMAIN tracers |-> tracers'[n]]
        BY <2>4 DEF notify_execution_start
      <4> QED
        BY <4>1, <3>2, SameLength
    <3>5. Append(TracedOf(callers), f) \in Seq(T \cup {f})
      BY <1>4, AppendFacts
    <3> QED
      BY <3>1, <3>3, <3>4, <3>5 DEF IsTracers
  <2>6. IsTracers(tracers, LiveTraced)'
    BY <2>1, <2>3, <2>5 DEF IsTracers, IsTracer, Mirrors
  <2> QED
    BY <2>6, <1>1 DEF TracingInv, BeginLoop
<1>6. CASE ~(interpreter = "baseline" /\ HasTracer)
  <2>1. LiveTraced' = TracedOf(callers)
    BY <1>6, <1>3 DEF BeginLoop, LiveTraced
  <2>2. tracers' = tracers
    BY <1>6 DEF BeginLoop, HasTracer, notify_execution_start
  <2>3. IsTracers(tracers, LiveTraced)'
    BY <2>1, <2>2, <1>2 DEF IsTracers, IsTracer, Mirrors, TracingInv
  <2> QED
    BY <2>3, <1>1 DEF TracingInv, BeginLoop
<1> QED
  BY <1>5, <1>6

\* An iteration of the Baseline loop: its instruction is told and counted
\* before it runs, also if it then waits for a callee.
LEMMA CountedTracing ==
    ASSUME TracingInv, control = "frame", traced,
           NEW m, NEW c, m = msg, c = code, NEW pc, pc < Len(code),
           NEW counted,
           counted = executed (+) SetToBag({code[pc + 1]}),
           UNCHANGED rev,
           tracers' = notify_instruction_start(tracers, pc)
    PROVE  IsTracers(tracers',
             Append(TracedOf(callers),
                    [msg |-> m, code |-> c, executed |-> counted]))
<1> DEFINE g == [msg |-> m, code |-> c, executed |-> counted]
<1>1. PICK S : callers \in Seq(S)
  BY DEF TracingInv
<1>2. LiveTraced = Append(TracedOf(callers), Innermost)
  BY DEF LiveTraced
<1>3. PICK T : TracedOf(callers) \in Seq(T)
  BY <1>1, TracedOfIsSeq
<1>4. rev # NoNames
  BY RevisionsAssumption DEF TracingInv, NoNames, AllRevisions
<1>5. PICK f : f = Innermost
  OBVIOUS
<1>6. f.msg = m /\ f.code = c /\ f.executed = executed
  BY <1>5 DEF Innermost
<1>7. PICK Q : tracers \in Seq(Q)
  BY DEF TracingInv, IsTracers
<1>8. ASSUME NEW n \in DOMAIN tracers
      PROVE  /\ IsTracer(tracers'[n])
             /\ tracers'[n].late \/ Mirrors(tracers'[n], Append(TracedOf(callers), g))
  <2>1. /\ IsTracer(tracers[n])
        /\ \/ tracers[n].late
           \/ Mirrors(tracers[n], Append(TracedOf(callers), f))
    BY <1>2, <1>5 DEF TracingInv, IsTracers
  <2>2. tracers'[n] = IF IsHistogram(tracers[n])
                      THEN HistogramInstruction(tracers[n], pc)
                      ELSE InstructionInstruction(tracers[n], pc)
    BY DEF notify_instruction_start
  <2>3. OneMore(f, g, pc) /\ pc < Len(f.code)
    BY <1>6 DEF OneMore
  <2> HIDE DEF g
  <2> QED
    <3>1. PICK t, u, frames : t = tracers[n] /\ u = tracers'[n]
                                /\ frames = TracedOf(callers)
      OBVIOUS
    <3>2. IsTracer(t) /\ frames \in Seq(T)
      BY <3>1, <2>1, <1>3
    <3>3. t.late \/ Mirrors(t, Append(frames, f))
      BY <3>1, <2>1
    <3>4. IsTold(t, u, pc)
      BY <3>1, <2>2 DEF IsTold
    <3>5. IsTracer(u) /\ (u.late \/ Mirrors(u, Append(frames, g)))
      BY ONLY <3>2, <3>3, <3>4, <2>3, <1>4, TracerCounts
    <3> QED
      BY <3>1, <3>5
<1>9. \E R : tracers' \in Seq(R)
  <2>1. tracers' = [n \in DOMAIN tracers |-> tracers'[n]]
    BY DEF notify_instruction_start
  <2> QED
    BY <2>1, <1>7, SameLength
<1>10. DOMAIN tracers' = DOMAIN tracers
  BY DEF notify_instruction_start
<1> HIDE DEF g
<1>11. Append(TracedOf(callers), g) \in Seq(T \cup {g})
  BY <1>3, AppendFacts
<1>12. IsTracers(tracers', Append(TracedOf(callers), g))
  BY <1>8, <1>9, <1>10, <1>11 DEF IsTracers
<1> QED
  BY <1>12 DEF g

\* A loop ends: the traced frame is forgotten and reported.
LEMMA EndOfLoopTracing ==
    ASSUME TracingInv, control = "frame", EndOfLoop, UNCHANGED rev
    PROVE  /\ IsTracers(tracers', TracedOf(callers))
           /\ traced => \A n \in DOMAIN tracers :
                \/ tracers[n].late
                \/ IF IsHistogram(tracers[n])
                   THEN tracers'[n].out = [depth |-> msg.depth,
                                           counts |-> executed]
                   ELSE tracers'[n].out.gasUsed =
                          msg.gas - Result(state).gas_left
<1>1. PICK S : callers \in Seq(S)
  BY DEF TracingInv
<1>3. PICK T : TracedOf(callers) \in Seq(T)
  BY <1>1, TracedOfIsSeq
<1>4. CASE traced
  <2>1. LiveTraced = Append(TracedOf(callers), Innermost)
    BY <1>4 DEF LiveTraced
  <2>2. PICK f : f = Innermost
    OBVIOUS
  <2>3. f.msg = msg /\ f.code = code /\ f.executed = executed
    BY <2>2 DEF Innermost
  <2>4. PICK result : result = Result(state)
    OBVIOUS
  <2>5. tracers' = notify_execution_end(tracers, result)
    BY <1>4, <2>4 DEF EndOfLoop
  <2>6. PICK Q : tracers \in Seq(Q)
    BY DEF TracingInv, IsTracers
  <2>7. ASSUME NEW n \in DOMAIN tracers
        PROVE  /\ IsTracer(tracers'[n])
               /\ tracers'[n].late \/ Mirrors(tracers'[n], TracedOf(callers))
               /\ \/ tracers[n].late
                  \/ IF IsHistogram(tracers[n])
                     THEN tracers'[n].out = [depth |-> msg.depth,
                                             counts |-> executed]
                     ELSE tracers'[n].out.gasUsed = msg.gas - result.gas_left
    <3>1. /\ IsTracer(tracers[n])
          /\ \/ tracers[n].late
             \/ Mirrors(tracers[n], Append(TracedOf(callers), f))
      BY <2>1, <2>2 DEF TracingInv, IsTracers
    <3>2. tracers'[n] = IF IsHistogram(tracers[n])
                        THEN HistogramEnd(tracers[n])
                        ELSE InstructionEnd(tracers[n], result)
      BY <2>5 DEF notify_execution_end
    <3>3. /\ IsTracer(tracers'[n]) /\ tracers'[n].late = tracers[n].late
          /\ tracers'[n].late \/ Mirrors(tracers'[n], TracedOf(callers))
          /\ tracers'[n].late \/
             IF IsHistogram(tracers[n])
             THEN tracers'[n].out = [depth |-> f.msg.depth,
                                     counts |-> f.executed]
             ELSE tracers'[n].out = [gas |-> result.gas_left,
                                     gasUsed |-> f.msg.gas - result.gas_left]
      BY <3>1, <3>2, <1>3, TracerEnds
    <3> QED
      BY <3>3, <2>3
  <2>8. \E R : tracers' \in Seq(R)
    <3>1. tracers' = [n \in DOMAIN tracers |-> tracers'[n]]
      BY <2>5 DEF notify_execution_end
    <3> QED
      BY <3>1, <2>6, SameLength
  <2>9. DOMAIN tracers' = DOMAIN tracers
    BY <2>5 DEF notify_execution_end
  <2>10. IsTracers(tracers', TracedOf(callers))
    BY <2>7, <2>8, <2>9, <1>3 DEF IsTracers
  <2> QED
    BY <2>10, <2>7, <2>4
<1>5. CASE ~traced
  <2>1. LiveTraced = TracedOf(callers)
    BY <1>5 DEF LiveTraced
  <2>2. tracers' = tracers
    BY <1>5 DEF EndOfLoop
  <2> QED
    BY <2>1, <2>2, <1>5 DEF TracingInv
<1> QED
  BY <1>4, <1>5

\* The list of tracers and the frames are as before.
LEMMA KeepTracing ==
    ASSUME TracingInv, UNCHANGED <<rev, callers, tracers>>,
           control' # "idle" \/ control = "idle", LiveTraced' = LiveTraced
    PROVE  TracingInv'
<1>1. PICK S : callers \in Seq(S)
  BY DEF TracingInv
<1>2. IsTracers(tracers, LiveTraced)'
  BY DEF IsTracers, IsTracer, Mirrors, TracingInv
<1> QED
  BY <1>1, <1>2 DEF TracingInv

LEMMA SetOptionTracing ==
    ASSUME TracingInv, SetOption
    PROVE  TracingInv'
<1>1. PICK S : callers \in Seq(S)
  BY DEF TracingInv
<1>2. TracedOf(callers)' = TracedOf(callers)
  BY DEF SetOption, TracedOf, Traced
<1>3. LiveTraced' = LiveTraced /\ LiveTraced = TracedOf(callers)
  BY <1>2 DEF SetOption, LiveTraced
<1>4. UNCHANGED <<rev, callers, control>>
  BY DEF SetOption, hostVars
<1>5. CASE tracers' = tracers
  BY <1>3, <1>4, <1>5, KeepTracing
<1>6. CASE tracers' # tracers
  <2>1. PICK name : tracers' = Append(tracers, Tracer(name, TracedWaits))
    BY <1>6 DEF SetOption, set_option, add_tracer
  <2>2. PICK t : t = Tracer(name, TracedWaits)
    OBVIOUS
  <2>3. PICK Q : tracers \in Seq(Q)
    BY DEF TracingInv, IsTracers
  <2>4. /\ tracers' \in Seq(Q \cup {t})
        /\ Len(tracers) \in Nat /\ Len(tracers') = Len(tracers) + 1
        /\ \A k \in 1..Len(tracers) : tracers'[k] = tracers[k]
        /\ tracers'[Len(tracers) + 1] = t
    BY <2>1, <2>2, <2>3, AppendFacts
  <2>5. /\ DOMAIN tracers' = 1..Len(tracers) + 1
        /\ DOMAIN tracers = 1..Len(tracers)
    BY <2>3, <2>4
  <2>6. TracedWaits \in BOOLEAN
    BY Zenon DEF TracedWaits
  <2>7. /\ t.late = TracedWaits /\ t.misused = FALSE /\ t.contexts = << >>
        /\ t.opcode_names = NoNames
        /\ t = [kind |-> t.kind, contexts |-> t.contexts,
                opcode_names |-> t.opcode_names, out |-> t.out,
                late |-> t.late, misused |-> t.misused]
    BY <2>2 DEF Tracer
  <2>8. IsTracer(t)
    <3>1. t.late \in BOOLEAN /\ t.misused \in BOOLEAN
      BY <2>6, <2>7, Zenon
    <3>2. t.contexts \in Seq({})
      BY <2>7
    <3> QED
      BY <2>7, <3>1, <3>2 DEF IsTracer
  <2>9. t.late \/ Mirrors(t, LiveTraced)
    <3>1. CASE TracedWaits
      BY <3>1, <2>7
    <3>2. CASE ~TracedWaits
      <4>1. LiveTraced = << >>
        BY <3>2, <1>1, <1>3, TracedOfNone DEF TracedWaits
      <4>2. Len(t.contexts) = 0 /\ Len(<< >>) = 0 /\ ~t.misused
        BY <2>7
      <4> QED
        BY <4>1, <4>2, <2>7 DEF Mirrors
    <3> QED
      BY <3>1, <3>2
  <2>10. ASSUME NEW n \in DOMAIN tracers'
         PROVE  /\ IsTracer(tracers'[n])
                /\ tracers'[n].late \/ Mirrors(tracers'[n], LiveTraced)
    <3>1. CASE n = Len(tracers) + 1
      BY <3>1, <2>4, <2>8, <2>9
    <3>2. CASE n # Len(tracers) + 1
      <4>1. n \in DOMAIN tracers /\ tracers'[n] = tracers[n]
        BY <3>2, <2>4, <2>5
      <4> QED
        BY <4>1 DEF TracingInv, IsTracers
    <3> QED
      BY <3>1, <3>2
  <2>11. IsTracers(tracers', LiveTraced)
    BY <2>4, <2>10 DEF IsTracers, TracingInv
  <2>12. IsTracers(tracers, LiveTraced)'
    BY <2>11, <1>3, <1>4 DEF IsTracers, IsTracer, Mirrors
  <2> QED
    BY <2>12, <1>1, <1>4 DEF TracingInv
<1> QED
  BY <1>5, <1>6

LEMMA SuspendTracing ==
    ASSUME NEW request, Suspend(request), NEW S, callers \in Seq(S)
    PROVE  /\ \E Q : callers' \in Seq(Q)
           /\ control' = "host"
           /\ LiveTraced' =
                IF traced THEN Append(TracedOf(callers),
                                      [msg |-> msg, code |-> code,
                                       executed |-> executed'])
                ELSE TracedOf(callers)
<1>1. PICK f : callers' = Append(callers, f) /\ f.traced = traced
                 /\ f.msg = msg /\ f.code = code /\ f.executed = executed'
  BY DEF Suspend
<1>2. callers' \in Seq(S \cup {f})
  BY <1>1, AppendFacts
<1>3. control' = "host"
  BY DEF Suspend
<1>4. LiveTraced' = TracedOf(callers')
  BY <1>3 DEF LiveTraced
<1>5. TracedOf(callers') = IF traced THEN Append(TracedOf(callers), Traced(f))
                           ELSE TracedOf(callers)
  BY <1>1, TracedOfAppend
<1>6. Traced(f) = [msg |-> msg, code |-> code, executed |-> executed']
  BY <1>1 DEF Traced
<1> QED
  BY <1>2, <1>3, <1>4, <1>5, <1>6

LEMMA BaselineFrameTracing ==
    ASSUME TracingInv, BaselineFrame
    PROVE  TracingInv'
<1>1. PICK S : callers \in Seq(S)
  BY DEF TracingInv
<1>2. control = "frame" /\ UNCHANGED <<code, rev, traced>>
  BY DEF BaselineFrame, hostVars
<1> DEFINE now == [msg |-> msg, code |-> code, executed |-> executed']
           live == IF traced THEN Append(TracedOf(callers), now)
                   ELSE TracedOf(callers)
<1>3. IsTracers(tracers', live)
  <2>1. CASE traced /\ code_it < Len(code)
    <3>1. /\ tracers' = notify_instruction_start(tracers, code_it)
          /\ executed' = executed (+) SetToBag({code[code_it + 1]})
      BY <2>1 DEF BaselineFrame
    <3> QED
      BY <3>1, <2>1, <1>2, CountedTracing
  <2>2. CASE ~(traced /\ code_it < Len(code))
    <3>1. tracers' = tracers
      BY <2>2 DEF BaselineFrame
    <3>2. live = LiveTraced
      <4>1. CASE traced
        <5>1. executed' = executed
          BY <4>1, <2>2 DEF BaselineFrame
        <5> QED
          BY <5>1, <4>1, <1>2 DEF LiveTraced, Innermost
      <4>2. CASE ~traced
        BY <4>2, <1>2 DEF LiveTraced
      <4> QED
        BY <4>1, <4>2
    <3> QED
      BY <3>1, <3>2 DEF TracingInv
  <2> QED
    BY <2>1, <2>2
<1> DEFINE Goes == /\ \E Q : callers' \in Seq(Q)
                   /\ control' # "idle" /\ LiveTraced' = live
<1>4. Goes
  <2>1. ASSUME NEW request, Suspend(request)
        PROVE  Goes
    BY <2>1, <1>1, SuspendTracing
  <2>2. ASSUME RunOn
        PROVE  Goes
    <3>1. UNCHANGED <<callers, msg, control>>
      BY <2>2 DEF RunOn
    <3>2. TracedOf(callers)' = TracedOf(callers)
      BY <3>1 DEF TracedOf, Traced
    <3> QED
      BY <3>1, <3>2, <1>1, <1>2 DEF LiveTraced, Innermost
  <2>3. (\E request : Suspend(request)) \/ RunOn
    BY DEF BaselineFrame
  <2> QED
    BY <2>1, <2>2, <2>3
<1> HIDE DEF live
<1>5. IsTracers(tracers, LiveTraced)'
  BY <1>2, <1>3, <1>4 DEF IsTracers, IsTracer, Mirrors
<1> QED
  BY <1>2, <1>4, <1>5 DEF TracingInv

LEMMA AdvancedFrameTracing ==
    ASSUME TracingInv, AdvancedFrame
    PROVE  TracingInv'
<1>1. PICK S : callers \in Seq(S)
  BY DEF TracingInv
<1>2. control = "frame" /\ UNCHANGED <<code, rev, traced, tracers, executed>>
  BY DEF AdvancedFrame, hostVars, vmVars
<1> DEFINE Goes == /\ \E Q : callers' \in Seq(Q)
                   /\ control' # "idle" /\ LiveTraced' = LiveTraced
<1>3. Goes
  <2>1. ASSUME NEW request, Suspend(request)
        PROVE  Goes
    <3>1. [msg |-> msg, code |-> code, executed |-> executed'] = Innermost
      BY <1>2 DEF Innermost
    <3> QED
      BY <2>1, <3>1, <1>1, <1>2, SuspendTracing DEF LiveTraced
  <2>2. ASSUME RunOn
        PROVE  Goes
    <3>1. UNCHANGED <<callers, msg, control>>
      BY <2>2 DEF RunOn
    <3>2. TracedOf(callers)' = TracedOf(callers)
      BY <3>1 DEF TracedOf, Traced
    <3> QED
      BY <3>1, <3>2, <1>1, <1>2 DEF LiveTraced, Innermost
  <2>3. (\E request : Suspend(request)) \/ RunOn
    BY DEF AdvancedFrame
  <2> QED
    BY <2>1, <2>2, <2>3
<1>4. IsTracers(tracers, LiveTraced)'
  BY <1>2, <1>3 DEF IsTracers, IsTracer, Mirrors, TracingInv
<1> QED
  BY <1>2, <1>3, <1>4 DEF TracingInv

LEMMA ReturnTracing ==
    ASSUME TracingInv, ReturnToCaller
    PROVE  TracingInv'
<1>1. PICK S : callers \in Seq(S)
  BY DEF TracingInv
<1>2. PICK f : f = top(callers)
  OBVIOUS
<1>3. /\ control = "frame" /\ control' = "frame" /\ UNCHANGED rev
      /\ callers # << >> /\ EndOfLoop /\ callers' = pop(callers)
      /\ traced' = f.traced /\ msg' = f.msg /\ code' = f.code
      /\ executed' = f.executed
  BY <1>2 DEF ReturnToCaller, Resume, hostVars
<1>4. callers' \in Seq(S) /\ callers = Append(callers', f)
  BY <1>1, <1>2, <1>3, PopFacts
<1>5. TracedOf(callers) = IF f.traced THEN Append(TracedOf(callers'), Traced(f))
                          ELSE TracedOf(callers')
  BY <1>4, TracedOfAppend
<1>6. Innermost' = Traced(f)
  BY <1>3 DEF Innermost, Traced
<1>7. LiveTraced' = IF traced' THEN Append(TracedOf(callers'), Innermost')
                    ELSE TracedOf(callers')
  BY <1>3 DEF LiveTraced
<1>8. LiveTraced' = TracedOf(callers)
  BY <1>3, <1>5, <1>6, <1>7
<1>9. IsTracers(tracers', TracedOf(callers))
  BY <1>3, EndOfLoopTracing
<1>10. IsTracers(tracers, LiveTraced)'
  BY <1>3, <1>8, <1>9 DEF IsTracers, IsTracer, Mirrors
<1> QED
  BY <1>3, <1>4, <1>10 DEF TracingInv

LEMMA FinishTracing ==
    ASSUME TracingInv, FinishJob
    PROVE  TracingInv'
<1>1. PICK S : callers \in Seq(S)
  BY DEF TracingInv
<1>2. /\ control = "frame" /\ control' = "idle" /\ UNCHANGED <<rev, callers>>
      /\ callers = << >> /\ EndOfLoop
  BY DEF FinishJob
<1>3. TracedOf(callers)' = TracedOf(callers)
  BY <1>2 DEF TracedOf, Traced
<1>4. LiveTraced' = TracedOf(callers)
  BY <1>2, <1>3 DEF LiveTraced
<1>5. IsTracers(tracers', TracedOf(callers))
  BY <1>2, EndOfLoopTracing
<1>6. IsTracers(tracers, LiveTraced)'
  BY <1>2, <1>4, <1>5 DEF IsTracers, IsTracer, Mirrors
<1> QED
  BY <1>1, <1>2, <1>6 DEF TracingInv

LEMMA NextTracing == TracingInv /\ [Next]_vars => TracingInv'
<1> SUFFICES ASSUME TracingInv, [Next]_vars
             PROVE  TracingInv'
  OBVIOUS
<1>1. ASSUME control \notin {"frame"}, control' \notin {"frame", "idle"},
             UNCHANGED <<rev, callers, tracers>>
      PROVE  TracingInv'
  <2>1. TracedOf(callers)' = TracedOf(callers)
    BY <1>1 DEF TracedOf, Traced
  <2>2. LiveTraced' = LiveTraced
    BY <2>1, <1>1 DEF LiveTraced
  <2> QED
    BY <2>2, <1>1, KeepTracing
<1>2. CASE SetOption
  BY <1>2, SetOptionTracing
<1>3. CASE ExecuteJob
  BY <1>3, <1>1 DEF ExecuteJob, Enter
<1>4. CASE ExecuteCallee
  BY <1>4, <1>1 DEF ExecuteCallee, Enter, hostVars
<1>5. CASE Analyze
  BY <1>5, <1>1 DEF Analyze, hostVars, vmVars
<1>6. CASE StartFrame
  BY <1>6, BeginLoopTracing DEF StartFrame, hostVars
<1>7. CASE ResetAndExecute
  BY <1>7, BeginLoopTracing DEF ResetAndExecute
<1>8. CASE BaselineFrame
  BY <1>8, BaselineFrameTracing
<1>9. CASE AdvancedFrame
  BY <1>9, AdvancedFrameTracing
<1>10. CASE ReturnToCaller
  BY <1>10, ReturnTracing
<1>11. CASE FinishJob
  BY <1>11, FinishTracing
<1>12. CASE UNCHANGED vars
  <2>1. /\ UNCHANGED <<rev, callers, tracers, control, traced, msg, code>>
        /\ UNCHANGED executed
    BY <1>12 DEF vars, vmVars, hostVars, frameVars
  <2>2. TracedOf(callers)' = TracedOf(callers)
    BY <2>1 DEF TracedOf, Traced
  <2>3. LiveTraced' = LiveTraced
    BY <2>1, <2>2 DEF LiveTraced, Innermost
  <2> QED
    BY <2>1, <2>3, KeepTracing
<1> QED
  BY <1>2, <1>3, <1>4, <1>5, <1>6, <1>7, <1>8, <1>9, <1>10, <1>11, <1>12
     DEF Next, Step

\* At any time each tracer that was there when the traced executions started
\* has exactly their contexts, the innermost on top, with the depth, the start
\* gas and the counts of each, and has never used a context, a byte or a table
\* of names that it does not have.
THEOREM ContextsMirrorFramesAlways == Spec => []ContextsMirrorFrames
<1>1. TracingInv => ContextsMirrorFrames
  <2> SUFFICES ASSUME TracingInv, NEW n \in DOMAIN tracers, ~tracers[n].late
               PROVE  /\ ~tracers[n].misused
                      /\ Len(tracers[n].contexts) = Len(LiveTraced)
                      /\ \A k \in DOMAIN tracers[n].contexts :
                           LET ctx == tracers[n].contexts[k]
                               f == LiveTraced[k]
                           IN  /\ ctx.code = f.code
                               /\ IF IsHistogram(tracers[n])
                                  THEN /\ ctx.depth = f.msg.depth
                                       /\ ctx.counts = f.executed
                                  ELSE ctx.start_gas = f.msg.gas
                      /\ ~IsHistogram(tracers[n]) =>
                           (tracers[n].opcode_names = rev) = (LiveTraced # << >>)
    BY DEF ContextsMirrorFrames
  <2>1. IsTracer(tracers[n]) /\ Mirrors(tracers[n], LiveTraced)
    BY DEF TracingInv, IsTracers
  <2>2. DOMAIN tracers[n].contexts = 1..Len(LiveTraced)
    BY <2>1 DEF IsTracer, Mirrors
  <2>3. rev # NoNames
    BY RevisionsAssumption DEF TracingInv, NoNames, AllRevisions
  <2>4. \A k \in DOMAIN tracers[n].contexts :
          LET ctx == tracers[n].contexts[k]
              f == LiveTraced[k]
          IN  /\ ctx.code = f.code
              /\ IF IsHistogram(tracers[n])
                 THEN ctx.depth = f.msg.depth /\ ctx.counts = f.executed
                 ELSE ctx.start_gas = f.msg.gas
    BY <2>1, <2>2 DEF Mirrors, ContextOf
  <2>5. ~IsHistogram(tracers[n]) =>
          (tracers[n].opcode_names = rev) = (LiveTraced # << >>)
    BY <2>1, <2>3 DEF Mirrors
  <2> QED
    BY <2>1, <2>4, <2>5 DEF Mirrors
<1> QED
  BY <1>1, InitTracing, NextTracing, PTL DEF Spec

-----------------------------------------------------------------------------
(***************************************************************************)
(* What a caller hands down to its callees.                                *)
(***************************************************************************)
HandInv ==
    /\ \E S : callers \in Seq(S)
    /\ job \in Messages
    /\ control = "idle" => callers = << >>
    /\ FramesHandDown

\* The message of a request that calls: neither a call nor a create gets to
\* the host at the greatest depth, and no create does in static mode.
LEMMA RequestHandsDown ==
    ASSUME NEW op \in CallOps \cup CreateOps, NEW s, NEW r,
           r = RequestOf(op, s), r.calls
    PROVE  /\ r.message.depth = msg.depth + 1
           /\ ~(msg.depth >= max_call_depth)
           /\ msg.static => r.message.static
<1>1. ASSUME NEW f, NEW g, NEW v, NEW t, NEW m, NEW a, NEW b,
             r = IF ~Succeeded(f) THEN NoCall(f)
                 ELSE IF IsRefused(v) THEN NoCall(g)
                 ELSE Request(t, m, a, b)
      PROVE  ~(msg.depth >= max_call_depth) /\ r.message = m
  BY <1>1 DEF NoCall, Request, IsRefused
<1>2. ASSUME NEW Kind, NEW Static, r = call_request(s, Kind, Static)
      PROVE  /\ r.message.depth = msg.depth + 1
             /\ ~(msg.depth >= max_call_depth)
             /\ msg.static => r.message.static
  <2> DEFINE no_value == Static \/ Kind = "DELEGATECALL"
             n == IF no_value THEN 2 ELSE 3
             requested == SmallerOf(Item(s, 0), Int64Max)
             dst == trunc_address(Item(s, 1))
             value == IF no_value THEN 0 ELSE Item(s, 2)
             has_value == value # 0
             io == Item(s, n)
             is == Item(s, n + 1)
             oo == Item(s, n + 2)
             os == Item(s, n + 3)
             a == ChargeColdAccount(Replace(s, n + 4, 0), dst,
                                    additional_cold_account_access_cost)
             w == Then(Then(a, LAMBDA t : check_memory(t, io, is)),
                       LAMBDA t : check_memory(t, oo, os))
             p == Then(w, LAMBDA t :
                    IF Kind = "CALL" /\ has_value /\ msg.static
                    THEN Fail(t, "STATIC_MODE_VIOLATION")
                    ELSE Charge(t, CallCost(Kind, has_value, dst)))
             f == Then(p, LAMBDA t :
                    IF rev < REV.TANGERINE_WHISTLE /\ requested > t.gas_left
                    THEN Fail(t, "OUT_OF_GAS") ELSE t)
             stipend == IF has_value THEN call_stipend ELSE 0
             ready == ReturnDataCleared([f EXCEPT !.gas_left = @ + stipend])
             m == [kind |-> Kind, static |-> CalleeStatic(Static),
                   depth |-> msg.depth + 1,
                   recipient |-> IF Kind = "CALL" THEN dst ELSE msg.recipient,
                   code_address |-> dst,
                   sender |-> IF Kind = "DELEGATECALL" THEN msg.sender
                              ELSE msg.recipient,
                   value |-> IF Kind = "DELEGATECALL" THEN msg.value
                             ELSE value,
                   input |-> ReadMemory(ready, size_t(io), is),
                   gas |-> CallGas(requested, f.gas_left) + stipend]
  <2>1. r = IF ~Succeeded(f) THEN NoCall(f)
            ELSE IF IsRefused(value) THEN NoCall(ready)
            ELSE Request(TouchMemory(ready, size_t(io), is), m,
                         size_t(oo), os)
    BY <1>2 DEF call_request
  <2>2. /\ m.depth = msg.depth + 1
        /\ msg.static => m.static
    BY DEF CalleeStatic
  <2> HIDE DEF f, ready, value, m, io, is, oo, os
  <2> QED
    BY <1>1, <2>1, <2>2
<1>3. ASSUME NEW Kind, r = create_request(s, Kind)
      PROVE  /\ r.message.depth = msg.depth + 1
             /\ ~(msg.depth >= max_call_depth)
             /\ msg.static => r.message.static
  BY <1>3 DEF create_request, NoCall, Request, IsRefused
<1>4. op \in {OP.CALL, OP.CALLCODE, OP.DELEGATECALL, OP.STATICCALL,
              OP.CREATE, OP.CREATE2}
  BY DEF CallOps, CreateOps
<1>5. \/ r = call_request(s, "CALL", FALSE)
      \/ r = call_request(s, "CALLCODE", FALSE)
      \/ r = call_request(s, "DELEGATECALL", FALSE)
      \/ r = call_request(s, "CALL", TRUE)
      \/ r = create_request(s, "CREATE") \/ r = create_request(s, "CREATE2")
  <2>1. CASE op = OP.CALL
    BY <2>1 DEF RequestOf, OP
  <2>2. CASE op = OP.CALLCODE
    BY <2>2 DEF RequestOf, OP
  <2>3. CASE op = OP.DELEGATECALL
    BY <2>3 DEF RequestOf, OP
  <2>4. CASE op = OP.STATICCALL
    BY <2>4 DEF RequestOf, OP
  <2>5. CASE op = OP.CREATE
    BY <2>5 DEF RequestOf, OP
  <2>6. CASE op = OP.CREATE2
    BY <2>6 DEF RequestOf, OP
  <2> QED
    BY <1>4, <2>1, <2>2, <2>3, <2>4, <2>5, <2>6
<1> QED
  BY <1>2, <1>3, <1>5

LEMMA JobFacts ==
    ASSUME HandInv
    PROVE  /\ job.depth \in Nat /\ job.depth <= max_call_depth
           /\ max_call_depth \in Nat /\ Len(callers) \in Nat
<1>1. job.depth \in 0..max_call_depth
  BY JobsAssumption DEF HandInv
<1>2. max_call_depth \in Nat
  BY DEF max_call_depth
<1>3. Len(callers) \in Nat
  BY DEF HandInv
<1> QED
  BY <1>1, <1>2, <1>3

\* An action that leaves the frames alone.
LEMMA KeepHand ==
    ASSUME HandInv, UNCHANGED <<callers, job, msg>>,
           control' = "idle" => callers = << >>
    PROVE  HandInv'
BY DEF HandInv, FramesHandDown, HandedDown

\* The host executes the message, or executes it again.
LEMMA JobHand ==
    ASSUME HandInv, control = "idle", callers' = callers, job' = job,
           control' # "idle", msg' = job \/ msg' = msg
    PROVE  HandInv'
<1>1. callers = << >> /\ Len(callers) = 0 /\ job \in Messages
  BY DEF HandInv
<1>2. msg'.depth = job.depth
  <2>1. msg.depth = job.depth + 0
    BY <1>1 DEF HandInv, FramesHandDown, HandedDown
  <2> QED
    BY <2>1, JobFacts
<1>3. HandedDown(callers, msg)'
  BY <1>1, <1>2, JobFacts DEF HandedDown
<1> QED
  BY <1>1, <1>3 DEF HandInv, FramesHandDown

\* A frame waits for its callee.
LEMMA SuspendHand ==
    ASSUME HandInv, NEW op \in CallOps \cup CreateOps, NEW s, NEW request,
           request = RequestOf(op, s), request.calls, Suspend(request),
           job' = job
    PROVE  HandInv'
<1>1. PICK S : callers \in Seq(S)
  BY DEF HandInv
<1>2. /\ request.message.depth = msg.depth + 1
      /\ ~(msg.depth >= max_call_depth)
      /\ msg.static => request.message.static
  BY RequestHandsDown
<1>3. PICK f : /\ callers' = Append(callers, f) /\ f.msg = msg
               /\ msg' = HostMessage(request.message) /\ control' = "host"
  BY DEF Suspend
<1>4. /\ msg'.depth = request.message.depth
      /\ msg'.static = request.message.static
  <2>1. CASE msg' = request.message
    BY <2>1
  <2>2. CASE msg' = [request.message EXCEPT !.recipient = env.create_address]
    BY <2>2
  <2> QED
    BY <1>3, <2>1, <2>2 DEF HostMessage
<1>5. /\ callers' \in Seq(S \cup {f}) /\ Len(callers') = Len(callers) + 1
      /\ \A k \in 1..Len(callers) : callers'[k] = callers[k]
      /\ callers'[Len(callers) + 1] = f
  BY <1>1, <1>3, AppendFacts
<1> DEFINE N == Len(callers)
<1>6. /\ \A n \in 1..N : /\ callers[n].msg.depth = job.depth + n - 1
                         /\ callers[n].msg.depth < max_call_depth
                         /\ callers[n].msg.static => msg.static
      /\ \A k, n \in 1..N : k < n /\ callers[k].msg.static
                              => callers[n].msg.static
      /\ msg.depth = job.depth + N
  BY DEF HandInv, FramesHandDown, HandedDown
<1>7. N \in Nat /\ job.depth \in Nat /\ max_call_depth \in Nat
      /\ N + 1 \in Nat
  BY JobFacts
<1>8. f.msg.depth = job.depth + (N + 1) - 1 /\ f.msg.depth < max_call_depth
      /\ msg'.depth = job.depth + (N + 1) /\ msg'.depth <= max_call_depth
  BY <1>2, <1>3, <1>4, <1>6, <1>7
<1>9. Len(callers') = N + 1
  BY <1>5
<1>10. \A k \in 1..N + 1 : (k \in 1..N /\ callers'[k] = callers[k])
                           \/ (k = N + 1 /\ callers'[k] = f)
  BY <1>5, <1>7
<1> HIDE DEF N
<1>11. ASSUME NEW n \in 1..N + 1
       PROVE  /\ callers'[n].msg.depth = job.depth + n - 1
              /\ callers'[n].msg.depth < max_call_depth
              /\ callers'[n].msg.static => msg'.static
  <2>1. CASE n \in 1..N /\ callers'[n] = callers[n]
    BY <2>1, <1>2, <1>4, <1>6
  <2>2. CASE n = N + 1 /\ callers'[n] = f
    BY <2>2, <1>2, <1>3, <1>4, <1>8
  <2> QED
    BY <1>10, <2>1, <2>2
<1>12. ASSUME NEW k \in 1..N + 1, NEW n \in 1..N + 1, k < n,
              callers'[k].msg.static
       PROVE  callers'[n].msg.static
  <2>1. k \in 1..N /\ callers'[k] = callers[k]
    BY <1>7, <1>10, <1>12
  <2>2. CASE n \in 1..N /\ callers'[n] = callers[n]
    BY <1>6, <1>12, <2>1, <2>2
  <2>3. CASE n = N + 1 /\ callers'[n] = f
    BY <1>3, <1>6, <1>12, <2>1, <2>3
  <2> QED
    BY <1>10, <2>2, <2>3
<1>13. HandedDown(callers', msg')
  BY <1>8, <1>9, <1>11, <1>12 DEF HandedDown
<1>14. HandedDown(callers', msg') => HandedDown(callers, msg)'
  BY DEF HandedDown
<1> QED
  BY <1>3, <1>5, <1>13, <1>14 DEF HandInv, FramesHandDown

\* It goes on when the callee has returned.
LEMMA ReturnHand ==
    ASSUME HandInv, ReturnToCaller
    PROVE  HandInv'
<1>1. PICK S : callers \in Seq(S)
  BY DEF HandInv
<1>2. PICK f : f = top(callers)
  OBVIOUS
<1>3. /\ control = "frame" /\ control' = "frame" /\ job' = job
      /\ callers # << >> /\ callers' = pop(callers) /\ msg' = f.msg
  BY <1>2 DEF ReturnToCaller, Resume, hostVars
<1> DEFINE N == Len(callers)
<1>4. /\ callers' \in Seq(S) /\ Len(callers') = N - 1
      /\ \A k \in 1..N - 1 : callers'[k] = callers[k]
      /\ f = callers[N] /\ N \in Nat /\ N > 0
  BY <1>1, <1>2, <1>3, PopFacts DEF top
<1>5. /\ \A n \in 1..N : /\ callers[n].msg.depth = job.depth + n - 1
                         /\ callers[n].msg.depth < max_call_depth
      /\ \A k, n \in 1..N : k < n /\ callers[k].msg.static
                              => callers[n].msg.static
  BY DEF HandInv, FramesHandDown, HandedDown
<1>6. job.depth \in Nat /\ max_call_depth \in Nat
  BY JobFacts
<1> HIDE DEF N
<1>7. N \in 1..N /\ \A k \in 1..N - 1 : k \in 1..N /\ k < N
  BY <1>4
<1>8. /\ msg'.depth = job.depth + (N - 1) /\ msg'.depth <= max_call_depth
  <2>1. f.msg.depth = job.depth + N - 1 /\ f.msg.depth < max_call_depth
    BY <1>4, <1>5, <1>7
  <2> QED
    BY <1>3, <1>4, <1>6, <2>1
<1>9. \A n \in 1..N - 1 : /\ callers'[n].msg.depth = job.depth + n - 1
                          /\ callers'[n].msg.depth < max_call_depth
                          /\ callers'[n].msg.static => msg'.static
  BY <1>3, <1>4, <1>5, <1>7
<1>10. \A k, n \in 1..N - 1 : k < n /\ callers'[k].msg.static
                                => callers'[n].msg.static
  BY <1>4, <1>5, <1>7
<1>11. HandedDown(callers', msg')
  BY <1>4, <1>8, <1>9, <1>10 DEF HandedDown
<1>12. job' = job /\ HandedDown(callers', msg') => HandedDown(callers, msg)'
  BY DEF HandedDown
<1> QED
  BY <1>3, <1>4, <1>11, <1>12 DEF HandInv, FramesHandDown

LEMMA NextHand == HandInv /\ [Next]_vars => HandInv'
<1> SUFFICES ASSUME HandInv, [Next]_vars
             PROVE  HandInv'
  OBVIOUS
<1>1. CASE SetOption
  BY <1>1, KeepHand DEF SetOption, hostVars, HandInv
<1>2. CASE ExecuteJob
  BY <1>2, JobHand DEF ExecuteJob, Enter
<1>3. CASE ExecuteCallee
  <2>1. UNCHANGED <<callers, job, msg>> /\ control' = "analysis"
    BY <1>3 DEF ExecuteCallee, Enter, hostVars
  <2> QED
    BY <2>1, KeepHand
<1>4. CASE Analyze
  BY <1>4, KeepHand DEF Analyze, hostVars
<1>5. CASE StartFrame
  BY <1>5, KeepHand DEF StartFrame, BeginLoop, hostVars
<1>6. CASE ResetAndExecute
  BY <1>6, JobHand DEF ResetAndExecute, BeginLoop
<1>7. CASE BaselineFrame
  <2>1. PICK request \in {BaselineRequest} :
          \/ request.calls /\ Suspend(request)
          \/ ~request.calls /\ RunOn
    BY <1>7 DEF BaselineFrame
  <2>2. control = "frame" /\ job' = job
    BY <1>7 DEF BaselineFrame, hostVars
  <2>3. CASE ~request.calls /\ RunOn
    BY <2>2, <2>3, KeepHand DEF RunOn
  <2>4. CASE request.calls /\ Suspend(request)
    <3>1. ~NoRequest.calls
      BY DEF NoRequest, NoCall
    <3>2. \E op \in CallOps \cup CreateOps : \E s : request = RequestOf(op, s)
      BY <2>1, <2>4, <3>1 DEF BaselineRequest
    <3> QED
      BY <2>2, <2>4, <3>2, SuspendHand
  <2> QED
    BY <2>1, <2>3, <2>4
<1>8. CASE AdvancedFrame
  <2>1. PICK request \in {AdvancedRequest} :
          \/ request.calls /\ Suspend(request)
          \/ ~request.calls /\ RunOn
    BY <1>8 DEF AdvancedFrame
  <2>2. control = "frame" /\ job' = job
    BY <1>8 DEF AdvancedFrame, hostVars
  <2>3. CASE ~request.calls /\ RunOn
    BY <2>2, <2>3, KeepHand DEF RunOn
  <2>4. CASE request.calls /\ Suspend(request)
    <3>1. ~NoRequest.calls
      BY DEF NoRequest, NoCall
    <3>2. \E op \in CallOps \cup CreateOps : \E s : request = RequestOf(op, s)
      BY <2>1, <2>4, <3>1 DEF AdvancedRequest
    <3> QED
      BY <2>2, <2>4, <3>2, SuspendHand
  <2> QED
    BY <2>1, <2>3, <2>4
<1>9. CASE ReturnToCaller
  BY <1>9, ReturnHand
<1>10. CASE FinishJob
  BY <1>10, KeepHand DEF FinishJob
<1>11. CASE UNCHANGED vars
  BY <1>11, KeepHand DEF vars, hostVars, HandInv
<1> QED
  BY <1>1, <1>2, <1>3, <1>4, <1>5, <1>6, <1>7, <1>8, <1>9, <1>10, <1>11
     DEF Next, Step

\* Through any chain of calls and creates, whichever interpreters run them, a
\* callee is one deeper than its caller, no frame is deeper than
\* max_call_depth, so that the interpreters recurse only so far, and static
\* mode is never left below a static frame, though the message of a create is
\* never static.
THEOREM FramesAlwaysHandDown == Spec => []FramesHandDown
<1>1. Init => HandInv
  <2> SUFFICES ASSUME Init
               PROVE  HandInv
    OBVIOUS
  <2>1. /\ callers = << >> /\ Len(callers) = 0 /\ callers \in Seq({})
        /\ job \in Messages /\ msg = job
    BY DEF Init
  <2>2. job.depth \in Nat /\ job.depth <= max_call_depth
    <3>1. job.depth \in 0..max_call_depth
      BY <2>1, JobsAssumption
    <3> QED
      BY <3>1 DEF max_call_depth
  <2>3. HandedDown(callers, msg)
    BY <2>1, <2>2 DEF HandedDown
  <2> QED
    BY <2>1, <2>3 DEF HandInv, FramesHandDown
<1>2. HandInv => FramesHandDown
  BY DEF HandInv
<1> QED
  BY <1>1, <1>2, NextHand, PTL DEF Spec

=============================================================================
