--------------------------- MODULE MCReactiveGraph ---------------------------
EXTENDS ReactiveGraph, TLC

CONSTANTS s1, s2, m1, m2, m3, e1, e2

\* m1 and m2 depend on s1, m2 through m1 too, and m3 joins them under e1.
\* With m2 coarse and m3 gated, m2 may be unchanged when m1 changed, and m3
\* reads m2 and m1 only while s2 is odd.
DiamondReads == m1 :> <<s1>> @@ m2 :> <<s1, m1>> @@ m3 :> <<s2, m2, m1>> @@ e1 :> <<m3>>
NoWrites == [e \in Effects |-> {}]

\* Two effects on one signal, the first of which sets the second signal.
EffectReads == e1 :> <<s1, s2>> @@ e2 :> <<s2, s1>>
FirstWrites == e1 :> {s2} @@ e2 :> {}

\* An effect reads a memo that may be unchanged, then the source of that memo.
MemoThenSource == m1 :> <<s1>> @@ m2 :> <<m1>> @@ e1 :> <<m2, m1>>

\* Two effects and a memo on one signal.
EffectsAndMemoReads == EffectReads @@ m1 :> <<s1>>

\* Any thread may run any effect: threads are interchangeable.
ThreadSymmetry == Permutations(Threads)

=============================================================================
