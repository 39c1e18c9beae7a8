----------------------------- MODULE GraphProofs -----------------------------
(***************************************************************************)
(* Theorems about ReactiveGraph: its types, the values under read guards,  *)
(* and that an effect that reads signals ends up having seen them.         *)
(***************************************************************************)
EXTENDS ReactiveGraph, FiniteSetTheorems, SequenceTheorems,
        WellFoundedInduction, TLAPS

-----------------------------------------------------------------------------
(* The stack of calls *)

Rank == CHOOSE rank \in [Memos -> 0..Cardinality(Memos)] : IsRank(rank)

Marks == Subscribers \X {"dirty", "check"}

\* Where a call can be, and what it is about.
MarkOK(f) ==
  /\ f.pc \in {"clone", "mark"} /\ f.node \in Sources
  /\ f.pc = "clone" => f.node \in Signals
  /\ f.todo \in Seq(Marks)
UpdateOK(f) ==
  /\ f.pc \in {"state", "sources", "own", "clean", "begin", "clear", "commit", "value",
               "changed"}
  /\ f.node \in Memos
  /\ f.todo \in Seq(ToSet(Reads[f.node]))
RunOK(f) ==
  /\ f.pc \in {"next", "track", "read"} /\ f.node \in Subscribers
  /\ Len(f.vals) <= ReadCount(f.node, f.vals)
  /\ f.pc # "next" => Len(f.vals) < ReadCount(f.node, f.vals)
TaskOK(f) ==
  /\ f.pc \in {"dirty", "sources", "run", "end"} /\ f.node \in Effects
  /\ f.todo \in Seq(ToSet(Reads[f.node]))
GetOK(f) == f.pc = "read" /\ f.node \in Memos

FrameOK(f) ==
  /\ f \in Frames
  /\ f.op = "mark" => MarkOK(f)
  /\ f.op = "update" => UpdateOK(f)
  /\ f.op = "run" => RunOK(f)
  /\ f.op = "task" => TaskOK(f)
  /\ f.op = "get" => GetOK(f)

\* f may have called g.
Calls(f, g) ==
  \/ f.op = "get" /\ g.op = "update" /\ g.node = f.node
  \/ f.op = "update" /\ f.pc = "own" /\ g.op = "update" /\ g.node \in ToSet(Reads[f.node])
  \/ f.op = "update" /\ f.pc = "commit" /\ g.op = "run" /\ g.node = f.node
  \/ f.op = "update" /\ f.pc = "changed" /\ g.op = "mark" /\ g.node = f.node
  \/ f.op = "run" /\ f.pc = "read" /\ g.op = "update" /\ g.node = NextRead(f)
  \/ f.op = "task" /\ f.pc = "sources" /\ g.op = "update"
  \/ f.op = "task" /\ f.pc = "end" /\ g.op = "run" /\ g.node = f.node
  \/ f.op = "task" /\ f.pc = "end" /\ g.op = "mark" /\ g.node \in Signals

\* What a stack starts with.
Root(f) == f.op \in {"mark", "task", "get"} /\ (f.op = "mark" => f.node \in Signals)

\* f is computed by way of g: f's memo reads g's, maybe through others.
Above(f, g) ==
  f.op \in {"update", "run"} /\ f.node \in Memos /\ g.op = "update"
  => Rank[g.node] < Rank[f.node]

StackOK(s) ==
  /\ s \in Seq(Frames)
  /\ \A i \in 1..Len(s) : FrameOK(s[i])
  /\ Len(s) > 0 => Root(s[1])
  /\ \A i \in 1..Len(s) : i < Len(s) => Calls(s[i], s[i + 1])
  /\ \A i, j \in 1..Len(s) : i < j => Above(s[i], s[j])

StackInv == \A t \in Threads : StackOK(stack[t])

-----------------------------------------------------------------------------
(* Values and guards *)

StateInv ==
  /\ value \in [Sources -> Nat \cup {NoValue}] /\ \A s \in Signals : value[s] \in Nat
  /\ state \in [Memos -> {"Clean", "Check", "Dirty"}]
  /\ sources \in [Subscribers -> Seq(Sources)]
  /\ \A n \in Subscribers : sources[n] \in Seq(ToSet(Reads[n]))
  /\ subs \in [Sources -> Seq(Subscribers)]
  /\ rlock \in [Memos -> Threads \cup {Nobody}]
  /\ dirty \in [Effects -> BOOLEAN] /\ notified \in [Effects -> BOOLEAN]
  /\ first \in [Effects -> BOOLEAN] /\ paused \in [Effects -> BOOLEAN]
  /\ missed \in [Effects -> BOOLEAN]
  /\ seen \in [Subscribers -> Seq(Nat)]
  /\ stack \in [Threads -> Seq(Frames)]
  /\ guards \in [Threads -> SUBSET Memos]

\* A memo has a value from its first computation on, and is updated before it is read.
Known(f, top) ==
  /\ f.op = "update" /\ f.pc \in {"sources", "own", "clean", "changed"} => value[f.node] \in Nat
  /\ top /\ f.op = "run" /\ f.pc = "read" => value[NextRead(f)] \in Nat
  /\ top /\ f.op = "get" => value[f.node] \in Nat
ValueInv ==
  /\ \A m \in Memos : state[m] # "Dirty" => value[m] \in Nat
  /\ \A t \in Threads : \A m \in guards[t] : value[m] \in Nat
  /\ \A t \in Threads : \A i \in 1..Len(stack[t]) : Known(stack[t][i], i = Len(stack[t]))

\* A memo is computed only by a thread that has no guard on it.
Unguarded(f, gs) ==
  f.op = "update" /\ f.pc \in {"clear", "commit", "value"} => f.node \notin gs
GuardInv ==
  \A t \in Threads : \A i \in 1..Len(stack[t]) : Unguarded(stack[t][i], guards[t])

GraphInv == StateInv /\ StackInv /\ ValueInv /\ GuardInv

-----------------------------------------------------------------------------
(* Numbers and sequences *)

\* A set of natural numbers has a least one.
LEMMA LeastNat ==
  ASSUME NEW S \in SUBSET Nat, S # {} PROVE \E x \in S : \A y \in S : x <= y
<1> DEFINE R == OpToRel(<, Nat)
<1>1. IsWellFoundedOn(R, Nat) BY NatLessThanWellFounded, Zenon
<1>2. \A x, y \in Nat : x < y => <<x, y>> \in R BY DEF OpToRel
<1> HIDE DEF R
<1>3. PICK x \in S : \A y \in S : ~ (<<y, x>> \in R)
  BY <1>1, WFMin
<1>4. \A y \in S : ~(y < x) BY <1>2, <1>3
<1> QED BY <1>4

\* Induction over the natural numbers, for a set.
LEMMA SetInduction ==
  ASSUME NEW S, 0 \in S, \A n \in Nat : n \in S => n + 1 \in S PROVE Nat \subseteq S
<1> SUFFICES ASSUME Nat \ S # {} PROVE FALSE OBVIOUS
<1>1. PICK x \in Nat \ S : \A y \in Nat \ S : x <= y BY LeastNat
<1>2. x # 0 /\ x - 1 \in Nat OBVIOUS
<1>3. x - 1 \in S BY <1>1, <1>2
<1> QED BY <1>2, <1>3, <1>1

\* A sum of natural numbers is one.
LEMMA SumIsNat ==
  ASSUME NEW vals \in Seq(Nat) PROVE FoldSeq(LAMBDA x, y : x + y, 0, vals) \in Nat
<1> DEFINE D == DOMAIN vals
           pick(s) == CHOOSE x \in s : TRUE
           Body(f, s) == IF s = {} THEN 0 ELSE vals[pick(s)] + f[s \ {pick(s)}]
           Part(k) == \E f \in [SUBSET D -> Nat] :
                        \A s \in SUBSET D : Cardinality(s) < k => f[s] = Body(f, s)
           iter == CHOOSE f : f = [s \in SUBSET D |-> Body(f, s)]
<1>0. /\ IsFiniteSet(D) /\ Cardinality(D) \in Nat
      /\ \A i \in D : vals[i] \in Nat
      /\ \A s \in SUBSET D : /\ IsFiniteSet(s) /\ Cardinality(s) \in Nat
                            /\ Cardinality(s) <= Cardinality(D)
  <2>1. D = 1..Len(vals) /\ Len(vals) \in Nat OBVIOUS
  <2>2. IsFiniteSet(D) BY <2>1, FS_Interval
  <2>3. \A s \in SUBSET D : IsFiniteSet(s) /\ Cardinality(s) <= Cardinality(D)
    BY <2>2, FS_Subset
  <2>4. \A s \in SUBSET D : Cardinality(s) \in Nat BY <2>3, FS_CardinalityType
  <2>5. Cardinality(D) \in Nat BY <2>2, FS_CardinalityType
  <2>6. \A i \in D : vals[i] \in Nat BY <2>1
  <2> QED BY <2>2, <2>3, <2>4, <2>5, <2>6
<1>1. \A s \in SUBSET D : s # {} =>
        /\ pick(s) \in D /\ s \ {pick(s)} \in SUBSET D
        /\ Cardinality(s \ {pick(s)}) = Cardinality(s) - 1
  <2> TAKE s \in SUBSET D
  <2> HAVE s # {}
  <2>1. pick(s) \in s OBVIOUS
  <2>2. Cardinality(s \ {pick(s)}) = Cardinality(s) - 1 BY <2>1, <1>0, FS_RemoveElement
  <2> QED BY <2>1, <2>2
<1> HIDE DEF D, pick
<1>2. \A k \in Nat : Part(k)
  <2> DEFINE S == {k \in Nat : Part(k)}
  <2>1. 0 \in S
    <3>1. [s \in SUBSET D |-> 0] \in [SUBSET D -> Nat] OBVIOUS
    <3>2. \A s \in SUBSET D : ~(Cardinality(s) < 0) BY <1>0
    <3> QED BY <3>1, <3>2
  <2>2. ASSUME NEW k \in Nat, k \in S PROVE k + 1 \in S
    <3>1. PICK f \in [SUBSET D -> Nat] :
             \A s \in SUBSET D : Cardinality(s) < k => f[s] = Body(f, s)
      BY <2>2
    <3> DEFINE g == [s \in SUBSET D |-> IF Cardinality(s) < k THEN f[s] ELSE Body(f, s)]
    <3>2. \A s \in SUBSET D : Body(f, s) \in Nat
      <4> TAKE s \in SUBSET D
      <4>1. CASE s = {} BY <4>1
      <4>2. CASE s # {}
        <5>1. vals[pick(s)] \in Nat /\ f[s \ {pick(s)}] \in Nat BY <4>2, <1>0, <1>1
        <5> QED BY <5>1, <4>2
      <4> QED BY <4>1, <4>2
    <3>3. g \in [SUBSET D -> Nat] BY <3>2
    <3>4. ASSUME NEW s \in SUBSET D, Cardinality(s) < k + 1 PROVE g[s] = Body(g, s)
      <4>1. g[s] = Body(f, s) BY <3>1
      <4>2. CASE s = {} BY <4>1, <4>2
      <4>3. CASE s # {}
        <5> DEFINE r == s \ {pick(s)}
        <5>0. r \in SUBSET D /\ Cardinality(r) = Cardinality(s) - 1 BY <4>3, <1>1
        <5>3. Cardinality(s) \in Nat BY <1>0
        <5>1. Cardinality(r) < k /\ r \in SUBSET D
          <6> HIDE DEF r
          <6> QED BY <5>0, <5>3, <3>4
        <5>2. g[s \ {pick(s)}] = f[s \ {pick(s)}] BY <5>1
        <5> QED BY <4>1, <4>3, <5>2
      <4> QED BY <4>2, <4>3
    <3> HIDE DEF g
    <3>5. k + 1 \in Nat OBVIOUS
    <3> QED BY <3>3, <3>4, <3>5
  <2> HIDE DEF S
  <2>3. Nat \subseteq S BY <2>1, <2>2, SetInduction
  <2> QED BY <2>3 DEF S
<1>3. iter = [s \in SUBSET D |-> Body(iter, s)]
  <2>1. PICK f \in [SUBSET D -> Nat] : \A s \in SUBSET D :
           Cardinality(s) < Cardinality(D) + 1 => f[s] = Body(f, s)
    <3>1. Cardinality(D) + 1 \in Nat BY <1>0
    <3> QED BY <3>1, <1>2
  <2>2. \A s \in SUBSET D : Cardinality(s) < Cardinality(D) + 1 BY <1>0
  <2>3. \A s \in SUBSET D : f[s] = Body(f, s) BY <2>1, <2>2
  <2>4. f = [s \in SUBSET D |-> Body(f, s)]
    <3> HIDE DEF Body
    <3> QED BY <2>1, <2>3
  <2> QED BY <2>4
<1>4. \A k \in Nat : \A s \in SUBSET D : Cardinality(s) = k => iter[s] \in Nat
  <2> DEFINE S == {k \in Nat : \A s \in SUBSET D : Cardinality(s) = k => iter[s] \in Nat}
  <2> HIDE DEF iter
  <2>1. 0 \in S
    <3>1. \A s \in SUBSET D : Cardinality(s) = 0 => s = {} BY <1>0, FS_EmptySet
    <3> QED BY <3>1, <1>3
  <2>2. ASSUME NEW k \in Nat, k \in S PROVE k + 1 \in S
    <3> SUFFICES ASSUME NEW s \in SUBSET D, Cardinality(s) = k + 1 PROVE iter[s] \in Nat
      OBVIOUS
    <3>1. s # {} BY FS_EmptySet
    <3> DEFINE r == s \ {pick(s)}
    <3>2. r \in SUBSET D /\ Cardinality(r) = Cardinality(s) - 1 /\ pick(s) \in D
      BY <3>1, <1>1
    <3>3. iter[r] \in Nat
      <4> HIDE DEF r
      <4> QED BY <3>2, <2>2
    <3>4. vals[pick(s)] \in Nat BY <3>2, <1>0
    <3>5. iter[s] = vals[pick(s)] + iter[r] BY <3>1, <1>3
    <3> QED BY <3>3, <3>4, <3>5
  <2> HIDE DEF S
  <2>3. Nat \subseteq S BY <2>1, <2>2, SetInduction
  <2> QED BY <2>3 DEF S
<1>5. iter[D] \in Nat BY <1>0, <1>4
<1>6. FoldSeq(LAMBDA x, y : x + y, 0, vals) = iter[D]
  BY Zenon DEF FoldSeq, FoldFunction, FoldFunctionOnSet, MapThenFoldSet, D, pick
<1> QED BY <1>5, <1>6, Zenon

\* What Append, Front and their combinations on the stack give, element by element.
LEMMA PopSeq ==
  ASSUME NEW F, NEW s \in Seq(F), s # <<>>
  PROVE  /\ Front(s) \in Seq(F) /\ Len(s) \in Nat /\ Len(s) > 0 /\ Len(Front(s)) = Len(s) - 1
         /\ \A i \in 1..(Len(s) - 1) : Front(s)[i] = s[i]
         /\ s[Len(s)] \in F
<1>1. Len(s) \in Nat /\ Len(s) > 0 /\ s[Len(s)] \in F OBVIOUS
<1>2. SubSeq(s, 1, Len(s) - 1) \in Seq(F) /\ Len(SubSeq(s, 1, Len(s) - 1)) = Len(s) - 1
  <2>1. 1 \in Int /\ Len(s) - 1 \in Int /\ \A i \in 1..(Len(s) - 1) : s[i] \in F BY <1>1
  <2> DEFINE n == Len(s) - 1
  <2> HIDE DEF n
  <2>2. /\ SubSeq(s, 1, n) \in Seq(F)
        /\ Len(SubSeq(s, 1, n)) = IF 1 <= n THEN n - 1 + 1 ELSE 0
    BY <2>1, SubSeqProperties DEF n
  <2>3. n \in Int /\ n >= 0 BY <1>1 DEF n
  <2>4. SubSeq(s, 1, n) \in Seq(F) /\ Len(SubSeq(s, 1, n)) = n BY <2>2, <2>3
  <2> QED BY <2>4, Zenon DEF n
<1>3. \A i \in 1..(Len(s) - 1) : SubSeq(s, 1, Len(s) - 1)[i] = s[i] BY <1>1
<1> QED BY <1>1, <1>2, <1>3 DEF Front

LEMMA PushSeq ==
  ASSUME NEW F, NEW s \in Seq(F), NEW f \in F
  PROVE  /\ Append(s, f) \in Seq(F) /\ Len(Append(s, f)) = Len(s) + 1
         /\ \A i \in 1..Len(s) : Append(s, f)[i] = s[i]
         /\ Append(s, f)[Len(s) + 1] = f
         /\ Append(s, f) # <<>>
OBVIOUS

LEMMA GotoSeq ==
  ASSUME NEW F, NEW s \in Seq(F), s # <<>>, NEW f \in F
  PROVE  /\ Append(Front(s), f) \in Seq(F) /\ Len(Append(Front(s), f)) = Len(s)
         /\ \A i \in 1..Len(s) : Append(Front(s), f)[i] = IF i = Len(s) THEN f ELSE s[i]
         /\ Append(Front(s), f) # <<>>
<1>1. /\ Front(s) \in Seq(F) /\ Len(s) \in Nat /\ Len(s) > 0 /\ Len(Front(s)) = Len(s) - 1
      /\ \A i \in 1..(Len(s) - 1) : Front(s)[i] = s[i]
  BY PopSeq
<1> DEFINE r == Front(s)
<1> HIDE DEF r
<1>2. /\ Append(r, f) \in Seq(F) /\ Len(Append(r, f)) = Len(r) + 1
      /\ \A i \in 1..Len(r) : Append(r, f)[i] = r[i]
      /\ Append(r, f)[Len(r) + 1] = f /\ Append(r, f) # <<>>
  BY <1>1, PushSeq DEF r
<1> QED BY <1>1, <1>2 DEF r

\* Two calls at once are one after the other.
LEMMA CallSeq ==
  ASSUME NEW F, NEW s \in Seq(F), s # <<>>, NEW f \in F, NEW g \in F
  PROVE  Front(s) \o <<f, g>> = Append(Append(Front(s), f), g)
<1>1. Front(s) \in Seq(F) BY PopSeq
<1> DEFINE r == Front(s)
<1> HIDE DEF r
<1>2. r \o <<f, g>> = Append(Append(r, f), g) BY <1>1 DEF r
<1> QED BY <1>2 DEF r

\* Unsubscribing takes one place out of the sequence.
LEMMA UnsubscribeForm ==
  ASSUME NEW F, NEW q \in Seq(F), NEW n \in ToSet(q)
  PROVE  \E k \in 1..Len(q) :
           /\ q[k] = n /\ Unsubscribe(q, n) \in Seq(F) /\ Len(Unsubscribe(q, n)) = Len(q) - 1
           /\ \A i \in 1..(Len(q) - 1) :
                Unsubscribe(q, n)[i] = IF i < k THEN q[i] ELSE q[i + 1]
<1> DEFINE k == CHOOSE i \in DOMAIN q : q[i] = n
<1>1. k \in 1..Len(q) /\ q[k] = n BY DEF ToSet
<1> HIDE DEF k
<1> DEFINE a == SubSeq(q, 1, k - 1)
           b == SubSeq(q, k + 1, Len(q))
           r == a \o b
<1>2. Unsubscribe(q, n) = r BY DEF Unsubscribe, RemoveAt, k
<1>3. /\ a \in Seq(F) /\ Len(a) = k - 1 /\ \A i \in 1..(k - 1) : a[i] = q[i]
  BY <1>1
<1>4. /\ b \in Seq(F) /\ Len(b) = Len(q) - k /\ \A i \in 1..(Len(q) - k) : b[i] = q[k + i]
  BY <1>1
<1> HIDE DEF a, b
<1>5. /\ r \in Seq(F) /\ Len(r) = Len(q) - 1
      /\ \A i \in 1..(Len(q) - 1) : r[i] = IF i < k THEN q[i] ELSE q[i + 1]
  <2>1. r \in Seq(F) /\ Len(r) = Len(q) - 1
    <3>1. r \in Seq(F) /\ Len(r) = Len(a) + Len(b) BY <1>3, <1>4, ConcatProperties
    <3> QED BY <3>1, <1>1, <1>3, <1>4
  <2>2. ASSUME NEW i \in 1..(Len(q) - 1)
        PROVE  r[i] = IF i < k THEN q[i] ELSE q[i + 1]
    <3>1. CASE i < k
      <4>1. i \in 1..Len(a) BY <3>1, <1>1, <1>3
      <4>2. r[i] = a[i] BY <4>1, <1>3, <1>4
      <4> QED BY <3>1, <4>2, <1>1, <1>3
    <3>2. CASE ~(i < k)
      <4>0. /\ k \in Nat /\ i \in Nat /\ Len(q) \in Nat /\ k <= i /\ i <= Len(q) - 1
            /\ Len(b) = Len(q) - k /\ Len(a) = k - 1
        BY <3>2, <1>1, <1>3, <1>4
      <4>1. i - (k - 1) \in 1..Len(b) BY <4>0
      <4>2. r[i] = b[i - (k - 1)]
        <5>1. i \in 1..(Len(a) + Len(b)) /\ ~(i <= Len(a)) /\ i - Len(a) = i - (k - 1)
          BY <4>0
        <5>2. r[i] = b[i - Len(a)]
          <6>1. \A j \in 1..(Len(a) + Len(b)) :
                  (a \o b)[j] = IF j <= Len(a) THEN a[j] ELSE b[j - Len(a)]
            BY <1>3, <1>4, ConcatProperties
          <6> QED BY <5>1, <6>1
        <5> QED BY <5>1, <5>2
      <4>3. b[i - (k - 1)] = q[k + (i - (k - 1))] BY <4>1, <1>4
      <4>4. k + (i - (k - 1)) = i + 1 BY <1>1
      <4> QED BY <3>2, <4>2, <4>3, <4>4
    <3> QED BY <3>1, <3>2
  <2> QED BY <2>1, <2>2
<1> HIDE DEF r
<1> QED BY <1>1, <1>2, <1>5

\* Unsubscribing removes the one and keeps the others.
LEMMA UnsubscribeSeq ==
  ASSUME NEW F, NEW q \in Seq(F), NEW n
  PROVE  /\ Unsubscribe(q, n) \in Seq(F)
         /\ ToSet(Unsubscribe(q, n)) \subseteq ToSet(q)
         /\ \A x \in ToSet(q) : x # n => x \in ToSet(Unsubscribe(q, n))
<1>1. CASE n \notin ToSet(q) BY <1>1 DEF Unsubscribe
<1>2. CASE n \in ToSet(q)
  <2> DEFINE r == Unsubscribe(q, n)
  <2>1. PICK k \in 1..Len(q) :
          /\ q[k] = n /\ r \in Seq(F) /\ Len(r) = Len(q) - 1
          /\ \A i \in 1..(Len(q) - 1) : r[i] = IF i < k THEN q[i] ELSE q[i + 1]
    BY <1>2, UnsubscribeForm
  <2> HIDE DEF r
  <2>2. ToSet(r) \subseteq ToSet(q) BY <2>1 DEF ToSet
  <2>3. ASSUME NEW x \in ToSet(q), x # n PROVE x \in ToSet(r)
    <3>1. PICK i \in 1..Len(q) : q[i] = x BY DEF ToSet
    <3>2. i # k BY <3>1, <2>1, <2>3
    <3>3. CASE i < k
      <4>1. i \in 1..Len(r) /\ r[i] = x BY <3>1, <3>3, <2>1
      <4> QED BY <4>1, <2>1 DEF ToSet
    <3>4. CASE i > k
      <4>1. i - 1 \in 1..Len(r) /\ r[i - 1] = x BY <3>1, <3>4, <2>1
      <4> QED BY <4>1, <2>1 DEF ToSet
    <3> QED BY <3>1, <3>2, <3>3, <3>4, <2>1
  <2> QED BY <2>1, <2>2, <2>3 DEF r
<1> QED BY <1>1, <1>2

\* Subscribing adds the one.
LEMMA SubscribeSeq ==
  ASSUME NEW F, NEW q \in Seq(F), NEW n \in F
  PROVE  /\ Subscribe(q, n) \in Seq(F)
         /\ ToSet(Subscribe(q, n)) = ToSet(q) \cup {n}
<1>1. CASE n \in ToSet(q) BY <1>1 DEF Subscribe
<1>2. CASE n \notin ToSet(q)
  <2> DEFINE r == Append(q, n)
  <2>1. /\ r \in Seq(F) /\ Len(r) = Len(q) + 1 /\ Len(q) \in Nat
        /\ \A i \in 1..Len(q) : r[i] = q[i]
        /\ r[Len(q) + 1] = n
    OBVIOUS
  <2> HIDE DEF r
  <2>2. ToSet(r) = ToSet(q) \cup {n}
    <3>1. ASSUME NEW x \in ToSet(r) PROVE x \in ToSet(q) \cup {n} BY <2>1 DEF ToSet
    <3>2. n \in ToSet(r) BY <2>1 DEF ToSet
    <3>3. ASSUME NEW x \in ToSet(q) PROVE x \in ToSet(r) BY <2>1 DEF ToSet
    <3> QED BY <3>1, <3>2, <3>3
  <2> QED BY <1>2, <2>1, <2>2 DEF Subscribe, r
<1> QED BY <1>1, <1>2

-----------------------------------------------------------------------------
(* Ranks and frames *)

LEMMA RankFacts == Rank \in [Memos -> Nat] /\ IsRank(Rank)
<1>1. Cardinality(Memos) \in Nat BY RankAssumption, FS_CardinalityType
<1>2. Rank \in [Memos -> 0..Cardinality(Memos)] /\ IsRank(Rank) BY RankAssumption DEF Rank
<1> QED BY <1>1, <1>2

LEMMA RankFalls ==
  ASSUME NEW m \in Memos, NEW x \in Memos, x \in ToSet(Reads[m])
  PROVE  Rank[x] < Rank[m] /\ Rank[x] \in Nat /\ Rank[m] \in Nat
BY RankFacts DEF IsRank

LEMMA ReadsFacts ==
  ASSUME NEW n \in Subscribers
  PROVE  /\ Reads[n] \in Seq(Sources) /\ Len(Reads[n]) \in Nat
         /\ \A j \in 1..Len(Reads[n]) : Reads[n][j] \in Sources /\ Reads[n][j] \in ToSet(Reads[n])
         /\ ToSet(Reads[n]) \subseteq Sources
BY GraphAssumption DEF ToSet

\* A function makes at most as many reads as it has.
LEMMA ReadCountFacts ==
  ASSUME NEW n \in Subscribers, NEW vals \in Seq(Nat)
  PROVE  /\ ReadCount(n, vals) \in Nat
         /\ Len(vals) < ReadCount(n, vals) => Len(vals) < Len(Reads[n])
         /\ vals = <<>> => ReadCount(n, vals) = Len(Reads[n])
         /\ vals # <<>> => ReadCount(n, vals) >= 1 \/ ReadCount(n, vals) = Len(Reads[n])
<1>1. Len(Reads[n]) \in Nat BY ReadsFacts
<1>2. Len(vals) \in Nat /\ (vals # <<>> => Len(vals) >= 1) OBVIOUS
<1>3. ReadCount(n, vals) \in {1, Len(Reads[n])} BY DEF ReadCount
<1>4. vals = <<>> => ReadCount(n, vals) = Len(Reads[n]) BY DEF ReadCount
<1>5. ReadCount(n, vals) # Len(Reads[n]) => vals # <<>> /\ ReadCount(n, vals) = 1
  BY <1>3, <1>4
<1> QED BY <1>1, <1>2, <1>3, <1>4, <1>5

\* What a function reads next is one of its reads.
LEMMA NextReadFacts ==
  ASSUME NEW f \in Frames, f.op = "run", RunOK(f),
         f.pc # "next" \/ Len(f.vals) < ReadCount(f.node, f.vals)
  PROVE  /\ NextRead(f) \in Sources /\ NextRead(f) \in ToSet(Reads[f.node])
         /\ Len(f.vals) + 1 \in 1..Len(Reads[f.node])
<1>1. f.node \in Subscribers /\ f.vals \in Seq(Nat) /\ Len(f.vals) < ReadCount(f.node, f.vals)
  BY DEF RunOK, Frames
<1>2. Len(f.vals) < Len(Reads[f.node]) /\ Len(f.vals) \in Nat /\ Len(Reads[f.node]) \in Nat
  BY <1>1, ReadCountFacts, ReadsFacts
<1>3. Len(f.vals) + 1 \in 1..Len(Reads[f.node]) BY <1>2
<1> QED BY <1>1, <1>3, ReadsFacts DEF NextRead

-----------------------------------------------------------------------------
(* Stacks *)

LEMMA PushOK ==
  ASSUME NEW s, StackOK(s), s # <<>>, NEW g, FrameOK(g), Calls(Last(s), g)
  PROVE  StackOK(Append(s, g))
<1> DEFINE n == Len(s)
           r == Append(s, g)
<1>1. s \in Seq(Frames) /\ g \in Frames /\ n \in Nat /\ n > 0 BY DEF StackOK, FrameOK
<1>2. /\ r \in Seq(Frames) /\ Len(r) = n + 1 /\ r[n + 1] = g
      /\ \A i \in 1..n : r[i] = s[i]
  BY <1>1, PushSeq
<1>3. /\ \A i \in 1..n : FrameOK(s[i])
      /\ Root(s[1])
      /\ \A i \in 1..n : i < n => Calls(s[i], s[i + 1])
      /\ \A i, j \in 1..n : i < j => Above(s[i], s[j])
  BY <1>1 DEF StackOK
<1>4. Calls(s[n], g) BY DEF Last
<1> HIDE DEF n, r
<1>5. ASSUME NEW i \in 1..n PROVE Above(s[i], g)
  <2> SUFFICES ASSUME s[i].op \in {"update", "run"}, s[i].node \in Memos, g.op = "update"
               PROVE  Rank[g.node] < Rank[s[i].node]
    BY DEF Above
  <2>1. g.node \in Memos BY DEF FrameOK, UpdateOK
  <2>2. FrameOK(s[n]) /\ FrameOK(s[i]) BY <1>1, <1>3
  <2>3. CASE s[n].op = "update"
    <3>1. g.node \in ToSet(Reads[s[n].node]) /\ s[n].node \in Memos
      BY <2>3, <1>4, <2>2 DEF Calls, FrameOK, UpdateOK
    <3>2. Rank[g.node] < Rank[s[n].node] /\ Rank[g.node] \in Nat /\ Rank[s[n].node] \in Nat
      BY <3>1, <2>1, RankFalls
    <3>3. i # n => Rank[s[n].node] < Rank[s[i].node] BY <2>3, <1>1, <1>3 DEF Above
    <3>4. Rank[s[i].node] \in Nat BY RankFacts
    <3> QED BY <3>2, <3>3, <3>4
  <2>4. CASE s[n].op = "run"
    <3>1. g.node = NextRead(s[n]) /\ s[n].pc = "read" BY <2>4, <1>4 DEF Calls
    <3>2. n > 1 BY <2>4, <1>1, <1>3 DEF Root
    <3>3. Calls(s[n - 1], s[n]) /\ FrameOK(s[n - 1])
      <4>1. n - 1 \in 1..n /\ n - 1 < n /\ n - 1 + 1 = n BY <1>1, <3>2
      <4> QED BY <4>1, <1>3
    <3>4. g.node \in ToSet(Reads[s[n].node])
      BY <3>1, <2>2, <2>4, NextReadFacts DEF FrameOK
    <3>5. CASE s[n - 1].op = "update"
      <4>1. s[n].node = s[n - 1].node /\ s[n - 1].node \in Memos
        BY <3>5, <3>3, <2>4 DEF Calls, FrameOK, UpdateOK
      <4>2. Rank[g.node] < Rank[s[n].node] /\ Rank[g.node] \in Nat /\ Rank[s[n].node] \in Nat
        BY <4>1, <3>4, <2>1, RankFalls
      <4>3. i < n - 1 => Rank[s[n - 1].node] < Rank[s[i].node]
        BY <3>5, <3>2, <1>1, <1>3 DEF Above
      <4>4. Rank[s[i].node] \in Nat BY RankFacts
      <4>5. i = n \/ i = n - 1 \/ i < n - 1 BY <1>1
      <4> QED BY <4>1, <4>2, <4>3, <4>4, <4>5
    <3>6. CASE s[n - 1].op # "update"
      <4>1. s[n - 1].op = "task" /\ s[n].node = s[n - 1].node BY <3>6, <3>3, <2>4 DEF Calls
      <4>2. n - 1 = 1
        <5> SUFFICES ASSUME n - 1 # 1 PROVE FALSE OBVIOUS
        <5>1. n - 2 \in 1..n /\ n - 2 < n /\ n - 2 + 1 = n - 1 BY <3>2, <1>1
        <5>2. Calls(s[n - 2], s[n - 1]) BY <5>1, <1>3
        <5> QED BY <5>2, <4>1 DEF Calls
      <4>3. s[n].node \in Effects BY <4>1, <3>3 DEF FrameOK, TaskOK
      <4>4. i = n \/ i = n - 1 BY <4>2, <1>1
      <4> QED BY <4>1, <4>3, <4>4, KindsAssumption DEF Sources
    <3> QED BY <3>5, <3>6
  <2>5. CASE s[n].op \in {"task", "get"}
    <3>1. n = 1
      <4> SUFFICES ASSUME n # 1 PROVE FALSE OBVIOUS
      <4>1. n - 1 \in 1..n /\ n - 1 < n /\ n - 1 + 1 = n BY <1>1
      <4>2. Calls(s[n - 1], s[n]) BY <4>1, <1>3
      <4> QED BY <4>2, <2>5 DEF Calls
    <3> QED BY <3>1, <2>5
  <2> QED BY <2>3, <2>4, <2>5, <1>4 DEF Calls
<1>6. \A i \in 1..(n + 1) : FrameOK(r[i]) BY <1>1, <1>2, <1>3
<1>7. Root(r[1]) BY <1>1, <1>2, <1>3
<1>8. ASSUME NEW i \in 1..(n + 1), i < n + 1 PROVE Calls(r[i], r[i + 1])
  <2>1. CASE i = n BY <2>1, <1>1, <1>2, <1>4
  <2>2. CASE i < n
    <3>1. i \in 1..n /\ i + 1 \in 1..n BY <2>2, <1>1
    <3>2. r[i] = s[i] /\ r[i + 1] = s[i + 1] BY <3>1, <1>2
    <3>3. Calls(s[i], s[i + 1]) BY <3>1, <2>2, <1>3
    <3> QED BY <3>2, <3>3
  <2> QED BY <2>1, <2>2, <1>1, <1>8
<1>9. ASSUME NEW i \in 1..(n + 1), NEW j \in 1..(n + 1), i < j PROVE Above(r[i], r[j])
  <2>1. i \in 1..n /\ r[i] = s[i] BY <1>1, <1>2, <1>9
  <2>2. CASE j = n + 1 BY <2>1, <2>2, <1>2, <1>5
  <2>3. CASE j # n + 1 BY <2>1, <2>3, <1>1, <1>2, <1>3, <1>9
  <2> QED BY <2>2, <2>3
<1> QED BY <1>1, <1>2, <1>6, <1>7, <1>8, <1>9 DEF StackOK, r

LEMMA PopOK ==
  ASSUME NEW s, StackOK(s), s # <<>>
  PROVE  StackOK(Front(s))
<1> DEFINE n == Len(s)
           r == Front(s)
<1>1. s \in Seq(Frames) BY DEF StackOK
<1>2. /\ r \in Seq(Frames) /\ n \in Nat /\ n > 0 /\ Len(r) = n - 1
      /\ \A i \in 1..(n - 1) : r[i] = s[i]
  BY <1>1, PopSeq
<1> HIDE DEF n, r
<1>3. /\ \A i \in 1..n : FrameOK(s[i])
      /\ Root(s[1])
      /\ \A i \in 1..n : i < n => Calls(s[i], s[i + 1])
      /\ \A i, j \in 1..n : i < j => Above(s[i], s[j])
  BY <1>2 DEF StackOK, n
<1>4. \A i \in 1..(n - 1) : FrameOK(r[i]) BY <1>2, <1>3
<1>5. n - 1 > 0 => Root(r[1]) BY <1>2, <1>3
<1>6. \A i \in 1..(n - 1) : i < n - 1 => Calls(r[i], r[i + 1]) BY <1>2, <1>3
<1>7. \A i, j \in 1..(n - 1) : i < j => Above(r[i], r[j]) BY <1>2, <1>3
<1> QED BY <1>2, <1>4, <1>5, <1>6, <1>7 DEF StackOK, r

\* f is a later stage of the same call.
Same(f, g) == f.op = g.op /\ f.node = g.node

LEMMA GotoOK ==
  ASSUME NEW s, StackOK(s), s # <<>>, NEW f, FrameOK(f), Same(f, Last(s))
  PROVE  StackOK(Append(Front(s), f)) /\ Append(Front(s), f) # <<>> /\ Last(Append(Front(s), f)) = f
<1> DEFINE n == Len(s)
           r == Append(Front(s), f)
<1>1. s \in Seq(Frames) /\ f \in Frames BY DEF StackOK, FrameOK
<1>2. /\ r \in Seq(Frames) /\ n \in Nat /\ n > 0 /\ Len(r) = n /\ r # <<>>
      /\ \A i \in 1..n : r[i] = IF i = n THEN f ELSE s[i]
  BY <1>1, GotoSeq, PopSeq
<1>3. /\ \A i \in 1..n : FrameOK(s[i])
      /\ Root(s[1])
      /\ \A i \in 1..n : i < n => Calls(s[i], s[i + 1])
      /\ \A i, j \in 1..n : i < j => Above(s[i], s[j])
  BY <1>2 DEF StackOK
<1>4. f.op = s[n].op /\ f.node = s[n].node BY DEF Same, Last
<1> HIDE DEF n, r
<1>5. \A i \in 1..n : FrameOK(r[i]) BY <1>2, <1>3
<1>6. Root(r[1]) BY <1>2, <1>3, <1>4 DEF Root
<1>7. ASSUME NEW i \in 1..n, i < n PROVE Calls(r[i], r[i + 1])
  <2>1. Calls(s[i], s[i + 1]) /\ r[i] = s[i] BY <1>2, <1>3, <1>7
  <2>2. r[i + 1].op = s[i + 1].op /\ r[i + 1].node = s[i + 1].node BY <1>2, <1>4, <1>7
  <2> QED BY <2>1, <2>2 DEF Calls
<1>8. ASSUME NEW i \in 1..n, NEW j \in 1..n, i < j PROVE Above(r[i], r[j])
  <2>1. Above(s[i], s[j]) /\ r[i] = s[i] BY <1>2, <1>3, <1>8
  <2>2. r[j].op = s[j].op /\ r[j].node = s[j].node BY <1>2, <1>4
  <2> QED BY <2>1, <2>2 DEF Above
<1>9. StackOK(r) BY <1>2, <1>5, <1>6, <1>7, <1>8 DEF StackOK
<1>10. Last(r) = f BY <1>2 DEF Last
<1> QED BY <1>2, <1>9, <1>10 DEF r

-----------------------------------------------------------------------------
(* What a step does to the stack of its thread *)

Depth(t) == Len(stack[t])

OthersKept(t) ==
  /\ stack' \in [Threads -> Seq(Frames)]
  /\ \A u \in Threads : u # t => stack'[u] = stack[u]
Entered(t, f) ==
  OthersKept(t) /\ Depth(t) = 0 /\ Depth(t)' = 1 /\ stack'[t][1] = f
Replaced(t, f) ==
  /\ OthersKept(t) /\ Depth(t) \in Nat /\ Depth(t) > 0 /\ Depth(t)' = Depth(t)
  /\ stack'[t][Depth(t)] = f
  /\ \A i \in 1..Depth(t) : i # Depth(t) => stack'[t][i] = stack[t][i]
Called(t, f, g) ==
  /\ OthersKept(t) /\ Depth(t) \in Nat /\ Depth(t) > 0 /\ Depth(t)' = Depth(t) + 1
  /\ stack'[t][Depth(t)] = f /\ stack'[t][Depth(t) + 1] = g
  /\ \A i \in 1..Depth(t) : i # Depth(t) => stack'[t][i] = stack[t][i]
Popped(t) ==
  /\ OthersKept(t) /\ Depth(t) \in Nat /\ Depth(t) > 0 /\ Depth(t)' = Depth(t) - 1
  /\ \A i \in 1..(Depth(t) - 1) : stack'[t][i] = stack[t][i]
Returned(t, h) ==
  /\ OthersKept(t) /\ Depth(t) \in Nat /\ Depth(t) > 1 /\ Depth(t)' = Depth(t) - 1
  /\ stack'[t][Depth(t) - 1] = h
  /\ \A i \in 1..(Depth(t) - 1) : i # Depth(t) - 1 => stack'[t][i] = stack[t][i]

LEMMA TopFacts ==
  ASSUME StackInv, NEW t \in Threads, ~Idle(t)
  PROVE  /\ stack[t] \in Seq(Frames) /\ stack[t] # <<>> /\ StackOK(stack[t])
         /\ Depth(t) \in Nat /\ Depth(t) > 0
         /\ Top(t) = stack[t][Depth(t)] /\ Last(stack[t]) = Top(t)
         /\ FrameOK(Top(t)) /\ Top(t) \in Frames
<1>1. StackOK(stack[t]) /\ stack[t] # <<>> BY DEF StackInv, Idle
<1>2. stack[t] \in Seq(Frames) BY <1>1 DEF StackOK
<1>3. Depth(t) \in Nat /\ Depth(t) > 0 BY <1>1, <1>2 DEF Depth
<1>4. Top(t) = stack[t][Depth(t)] BY DEF Top, Last, Depth
<1>5. FrameOK(stack[t][Depth(t)]) BY <1>1, <1>3 DEF StackOK, Depth
<1> QED BY <1>1, <1>2, <1>3, <1>4, <1>5 DEF FrameOK, Top

LEMMA IdleFacts ==
  ASSUME StackInv, NEW t \in Threads
  PROVE  Idle(t) <=> Depth(t) = 0
BY DEF StackInv, StackOK, Idle, Depth

LEMMA BelowFacts ==
  ASSUME StackInv, NEW t \in Threads, ~Idle(t), Top(t).op \in {"update", "run"}
  PROVE  /\ Depth(t) > 1 /\ Calls(stack[t][Depth(t) - 1], Top(t))
         /\ FrameOK(stack[t][Depth(t) - 1])
         /\ Last(Front(stack[t])) = stack[t][Depth(t) - 1]
         /\ Front(stack[t]) # <<>>
<1> DEFINE s == stack[t]
           n == Len(s)
<1>1. /\ s \in Seq(Frames) /\ s # <<>> /\ StackOK(s) /\ n \in Nat /\ n > 0 /\ Top(t) = s[n]
  BY TopFacts DEF Depth
<1>2. Root(s[1]) /\ \A i \in 1..n : i < n => Calls(s[i], s[i + 1]) BY <1>1 DEF StackOK
<1>3. n > 1 BY <1>1, <1>2 DEF Root
<1>4. n - 1 \in 1..n /\ n - 1 < n /\ n - 1 + 1 = n BY <1>1, <1>3
<1>5. Calls(s[n - 1], s[n]) /\ FrameOK(s[n - 1]) BY <1>1, <1>2, <1>4 DEF StackOK
<1>6. /\ Front(s) \in Seq(Frames) /\ Len(Front(s)) = n - 1
      /\ \A i \in 1..(n - 1) : Front(s)[i] = s[i]
  BY <1>1, PopSeq
<1>7. Last(Front(s)) = s[n - 1] BY <1>3, <1>1, <1>6 DEF Last
<1>8. Front(s) # <<>> BY <1>3, <1>1, <1>6
<1> QED BY <1>1, <1>3, <1>5, <1>7, <1>8 DEF Depth

LEMMA OthersOK ==
  ASSUME StackInv, stack \in [Threads -> Seq(Frames)], NEW t \in Threads, NEW s, StackOK(s),
         stack' = [stack EXCEPT ![t] = s]
  PROVE  StackInv' /\ OthersKept(t) /\ stack'[t] = s
<1>1. s \in Seq(Frames) BY DEF StackOK
<1>2. OthersKept(t) /\ stack'[t] = s BY <1>1 DEF OthersKept
<1>3. ASSUME NEW u \in Threads PROVE StackOK(stack'[u]) BY <1>2 DEF StackInv, OthersKept
<1> QED BY <1>2, <1>3 DEF StackInv

LEMMA GotoStep ==
  ASSUME StackInv, stack \in [Threads -> Seq(Frames)], NEW t \in Threads, ~Idle(t),
         NEW f, FrameOK(f), Same(f, Top(t)), Goto(t, f)
  PROVE  StackInv' /\ Replaced(t, f)
<1> DEFINE s == stack[t]
           r == Append(Front(s), f)
<1>1. /\ s \in Seq(Frames) /\ s # <<>> /\ StackOK(s) /\ Last(s) = Top(t) BY TopFacts
<1>2. StackOK(r) BY <1>1, GotoOK
<1>3. stack' = [stack EXCEPT ![t] = r] BY DEF Goto
<1>4. StackInv' /\ OthersKept(t) /\ stack'[t] = r
  <2> HIDE DEF r
  <2> QED BY <1>2, <1>3, OthersOK
<1>5. f \in Frames BY DEF FrameOK
<1>6. /\ Len(s) \in Nat /\ Len(s) > 0 /\ Len(r) = Len(s)
      /\ \A i \in 1..Len(s) : r[i] = IF i = Len(s) THEN f ELSE s[i]
  BY <1>1, <1>5, GotoSeq, PopSeq
<1> HIDE DEF r
<1> QED BY <1>4, <1>6 DEF Replaced, Depth

LEMMA CallStep ==
  ASSUME StackInv, stack \in [Threads -> Seq(Frames)], NEW t \in Threads, ~Idle(t),
         NEW f, FrameOK(f), Same(f, Top(t)), NEW g, FrameOK(g), Calls(f, g), Call(t, f, g)
  PROVE  StackInv' /\ Called(t, f, g)
<1> DEFINE s == stack[t]
           q == Append(Front(s), f)
           r == Append(q, g)
<1>1. /\ s \in Seq(Frames) /\ s # <<>> /\ StackOK(s) /\ Last(s) = Top(t) BY TopFacts
<1>2. StackOK(q) /\ q # <<>> /\ Last(q) = f BY <1>1, GotoOK
<1>3. StackOK(r)
  <2> HIDE DEF q
  <2> QED BY <1>2, PushOK
<1>4. f \in Frames /\ g \in Frames BY DEF FrameOK
<1>5. stack' = [stack EXCEPT ![t] = r]
  <2>1. Front(s) \o <<f, g>> = r BY <1>1, <1>4, CallSeq
  <2> QED BY <2>1 DEF Call
<1>6. /\ q \in Seq(Frames) /\ Len(s) \in Nat /\ Len(s) > 0 /\ Len(q) = Len(s)
      /\ \A i \in 1..Len(s) : q[i] = IF i = Len(s) THEN f ELSE s[i]
  BY <1>1, <1>4, GotoSeq, PopSeq
<1> HIDE DEF q
<1>7. /\ Len(r) = Len(s) + 1 /\ r[Len(s) + 1] = g /\ \A i \in 1..Len(s) : r[i] = q[i]
  BY <1>4, <1>6, PushSeq
<1> HIDE DEF r
<1>8. StackInv' /\ OthersKept(t) /\ stack'[t] = r BY <1>3, <1>5, OthersOK
<1> QED BY <1>6, <1>7, <1>8 DEF Called, Depth

LEMMA PopStep ==
  ASSUME StackInv, stack \in [Threads -> Seq(Frames)], NEW t \in Threads, ~Idle(t), Pop(t)
  PROVE  StackInv' /\ Popped(t)
<1> DEFINE s == stack[t]
           r == Front(s)
<1>1. /\ s \in Seq(Frames) /\ s # <<>> /\ StackOK(s) BY TopFacts
<1>2. StackOK(r) BY <1>1, PopOK
<1>3. /\ Len(s) \in Nat /\ Len(s) > 0 /\ Len(r) = Len(s) - 1
      /\ \A i \in 1..(Len(s) - 1) : r[i] = s[i]
  BY <1>1, PopSeq
<1>4. stack' = [stack EXCEPT ![t] = r] BY DEF Pop
<1> HIDE DEF r
<1>5. StackInv' /\ OthersKept(t) /\ stack'[t] = r BY <1>2, <1>4, OthersOK
<1> QED BY <1>3, <1>5 DEF Popped, Depth

LEMMA ReturnStep ==
  ASSUME StackInv, stack \in [Threads -> Seq(Frames)], NEW t \in Threads, ~Idle(t),
         Top(t).op \in {"update", "run"}, NEW h, FrameOK(h), Same(h, stack[t][Depth(t) - 1]),
         stack' = [stack EXCEPT ![t] = Append(Front(Front(@)), h)]
  PROVE  StackInv' /\ Returned(t, h)
<1> DEFINE s == stack[t]
           q == Front(s)
           r == Append(Front(q), h)
<1>1. /\ s \in Seq(Frames) /\ s # <<>> /\ StackOK(s) BY TopFacts
<1>2. q # <<>> /\ Last(q) = s[Len(s) - 1] /\ Len(s) > 1 BY BelowFacts DEF Depth
<1>3. StackOK(q) BY <1>1, PopOK
<1>4. /\ q \in Seq(Frames) /\ Len(s) \in Nat /\ Len(q) = Len(s) - 1
      /\ \A i \in 1..(Len(s) - 1) : q[i] = s[i]
  BY <1>1, PopSeq
<1>5. stack' = [stack EXCEPT ![t] = r] OBVIOUS
<1> HIDE DEF q
<1>6. StackOK(r) BY <1>2, <1>3, GotoOK DEF Depth, Same
<1>7. h \in Frames BY DEF FrameOK
<1>8. /\ Len(r) = Len(q) /\ \A i \in 1..Len(q) : r[i] = IF i = Len(q) THEN h ELSE q[i]
  BY <1>2, <1>4, <1>7, GotoSeq
<1> HIDE DEF r
<1>9. StackInv' /\ OthersKept(t) /\ stack'[t] = r BY <1>5, <1>6, OthersOK
<1> QED BY <1>2, <1>4, <1>8, <1>9 DEF Returned, Depth

LEMMA EnterStep ==
  ASSUME StackInv, stack \in [Threads -> Seq(Frames)], NEW t \in Threads, Idle(t),
         NEW f, FrameOK(f), Root(f), Enter(t, f)
  PROVE  StackInv' /\ Entered(t, f)
<1> DEFINE r == Append(stack[t], f)
<1>1. f \in Frames /\ stack[t] = <<>> BY DEF FrameOK, Idle
<1>2. r \in Seq(Frames) /\ Len(r) = 1 /\ r[1] = f BY <1>1
<1> HIDE DEF r
<1>3. StackOK(r) BY <1>2 DEF StackOK
<1>4. stack' = [stack EXCEPT ![t] = r] BY DEF Enter, r
<1>5. StackInv' /\ OthersKept(t) /\ stack'[t] = r BY <1>3, <1>4, OthersOK
<1> QED BY <1>1, <1>2, <1>5 DEF Entered, Depth

-----------------------------------------------------------------------------
(* Frames of the next stage *)

Todos == Seq(Sources \cup (Subscribers \X {"dirty", "check"}))

Is(h, op, n, pc, todo, vals, ret) ==
  h.op = op /\ h.node = n /\ h.pc = pc /\ h.todo = todo /\ h.vals = vals /\ h.ret = ret

\* The call that waits for the running one.
Below(t) == stack[t][Depth(t) - 1]

\* A frame with another result.
LEMMA RetFrame ==
  ASSUME NEW f, FrameOK(f), NEW ret \in BOOLEAN
  PROVE  /\ FrameOK([f EXCEPT !.ret = ret])
         /\ [f EXCEPT !.ret = ret].op = f.op /\ [f EXCEPT !.ret = ret].node = f.node
         /\ [f EXCEPT !.ret = ret].pc = f.pc /\ [f EXCEPT !.ret = ret].todo = f.todo
         /\ [f EXCEPT !.ret = ret].vals = f.vals /\ [f EXCEPT !.ret = ret].ret = ret
<1> DEFINE h == [f EXCEPT !.ret = ret]
<1>1. f \in Frames BY DEF FrameOK
<1>2. /\ h \in Frames /\ h.op = f.op /\ h.node = f.node /\ h.pc = f.pc /\ h.todo = f.todo
      /\ h.vals = f.vals /\ h.ret = ret
  BY <1>1 DEF Frames
<1> HIDE DEF h
<1>3. FrameOK(h) BY <1>2 DEF FrameOK, MarkOK, UpdateOK, RunOK, TaskOK, GetOK
<1> QED BY <1>2, <1>3 DEF h

LEMMA ResultStep ==
  ASSUME StackInv, stack \in [Threads -> Seq(Frames)], NEW t \in Threads, ~Idle(t),
         Top(t).op \in {"update", "run"}, NEW ret \in BOOLEAN, Result(t, ret)
  PROVE  /\ StackInv' /\ Calls(Below(t), Top(t)) /\ FrameOK(Below(t))
         /\ \E h : /\ Returned(t, h) /\ FrameOK(h)
                   /\ Is(h, Below(t).op, Below(t).node, Below(t).pc, Below(t).todo,
                         Below(t).vals, ret)
<1> DEFINE f == stack[t][Depth(t) - 1]
           h == [f EXCEPT !.ret = ret]
<1>1. FrameOK(f) /\ Last(Front(stack[t])) = f BY BelowFacts
<1>2. FrameOK(h) /\ Same(h, f) BY <1>1, RetFrame DEF Same
<1>3. stack' = [stack EXCEPT ![t] = Append(Front(Front(@)), h)] BY <1>1 DEF Result
<1>4. Is(h, f.op, f.node, f.pc, f.todo, f.vals, ret) BY <1>1, RetFrame DEF Is
<1>5. Calls(f, Top(t)) BY BelowFacts
<1> HIDE DEF h
<1>6. StackInv' /\ Returned(t, h) BY <1>2, <1>3, ReturnStep
<1> QED BY <1>1, <1>2, <1>4, <1>5, <1>6 DEF Below

LEMMA TodoTypes ==
  /\ \A q \in Seq(Marks) : q \in Todos
  /\ \A n \in Subscribers : \A q \in Seq(ToSet(Reads[n])) : q \in Todos
  /\ \A q : <<>> \in Seq(q)
<1>1. \A q \in Seq(Marks) : q \in Todos BY DEF Todos, Marks
<1>2. ASSUME NEW n \in Subscribers, NEW q \in Seq(ToSet(Reads[n])) PROVE q \in Todos
  BY ReadsFacts DEF Todos
<1> QED BY <1>1, <1>2

LEMMA MarkAllFacts ==
  ASSUME NEW q \in Seq(Subscribers), NEW how \in {"dirty", "check"}
  PROVE  /\ MarkAll(q, how) \in Seq(Marks) /\ Len(MarkAll(q, how)) = Len(q)
         /\ \A k \in 1..Len(q) : MarkAll(q, how)[k] = <<q[k], how>>
<1>1. Len(q) \in Nat /\ DOMAIN q = 1..Len(q) /\ \A k \in 1..Len(q) : q[k] \in Subscribers
  OBVIOUS
<1>2. MarkAll(q, how) = [k \in 1..Len(q) |-> <<q[k], how>>] BY <1>1 DEF MarkAll
<1>3. \A k \in 1..Len(q) : <<q[k], how>> \in Marks BY <1>1 DEF Marks
<1>4. MarkAll(q, how) \in [1..Len(q) -> Marks] BY <1>2, <1>3
<1>5. MarkAll(q, how) \in Seq(Marks) BY <1>1, <1>4, IsASeq
<1> QED BY <1>1, <1>2, <1>4, <1>5

LEMMA HeadTail ==
  ASSUME NEW F, NEW q \in Seq(F), q # <<>>
  PROVE  /\ Head(q) \in F /\ Head(q) = q[1] /\ Tail(q) \in Seq(F) /\ Len(Tail(q)) = Len(q) - 1
         /\ Len(q) \in Nat /\ Len(q) > 0
         /\ \A k \in 1..(Len(q) - 1) : Tail(q)[k] = q[k + 1]
         /\ ToSet(q) = {Head(q)} \cup ToSet(Tail(q))
<1>1. /\ Head(q) \in F /\ Head(q) = q[1] /\ Tail(q) \in Seq(F) /\ Len(Tail(q)) = Len(q) - 1
      /\ Len(q) \in Nat /\ Len(q) > 0
      /\ \A k \in 1..(Len(q) - 1) : Tail(q)[k] = q[k + 1]
  OBVIOUS
<1> DEFINE r == Tail(q)
<1> HIDE DEF r
<1>2. DOMAIN q = 1..Len(q) /\ DOMAIN r = 1..(Len(q) - 1) BY <1>1 DEF r
<1>3. ASSUME NEW x \in ToSet(q) PROVE x = q[1] \/ x \in ToSet(r)
  <2>1. PICK k \in 1..Len(q) : q[k] = x BY <1>2 DEF ToSet
  <2>2. CASE k = 1 BY <2>1, <2>2
  <2>3. CASE k # 1
    <3>1. k - 1 \in 1..(Len(q) - 1) /\ k - 1 + 1 = k BY <2>3, <1>1
    <3>2. r[k - 1] = x BY <3>1, <2>1, <1>1 DEF r
    <3> QED BY <3>1, <3>2, <1>2 DEF ToSet
  <2> QED BY <2>2, <2>3
<1>4. ASSUME NEW x \in ToSet(r) PROVE x \in ToSet(q)
  <2>1. PICK k \in 1..(Len(q) - 1) : r[k] = x BY <1>2 DEF ToSet
  <2>2. k + 1 \in 1..Len(q) /\ q[k + 1] = x BY <2>1, <1>1 DEF r
  <2> QED BY <2>2, <1>2 DEF ToSet
<1>5. q[1] \in ToSet(q) BY <1>1, <1>2 DEF ToSet
<1> QED BY <1>1, <1>3, <1>4, <1>5 DEF r

-----------------------------------------------------------------------------
(* The shape of each action *)

LEMMA NewFrame ==
  ASSUME NEW op \in {"mark", "update", "run", "task", "get"}, NEW n \in Sources \cup Subscribers,
         NEW pc \in {"clone", "mark", "state", "next", "dirty", "read"}
  PROVE  Frame(op, n, pc) \in Frames /\ Is(Frame(op, n, pc), op, n, pc, <<>>, <<>>, FALSE)
BY DEF Frame, Frames, Is

\* New frames are as they should be.
LEMMA NewUpdate ==
  ASSUME NEW m \in Memos
  PROVE  /\ FrameOK(Frame("update", m, "state"))
         /\ Is(Frame("update", m, "state"), "update", m, "state", <<>>, <<>>, FALSE)
<1> DEFINE g == Frame("update", m, "state")
<1>1. g \in Frames /\ Is(g, "update", m, "state", <<>>, <<>>, FALSE)
  BY DEF Frame, Frames, Is, Sources
<1> HIDE DEF g
<1>2. FrameOK(g) BY <1>1, TodoTypes DEF FrameOK, UpdateOK, Is
<1> QED BY <1>1, <1>2 DEF g

LEMMA NewRun ==
  ASSUME NEW n \in Subscribers
  PROVE  /\ FrameOK(Frame("run", n, "next"))
         /\ Is(Frame("run", n, "next"), "run", n, "next", <<>>, <<>>, FALSE)
<1> DEFINE g == Frame("run", n, "next")
<1>1. g \in Frames /\ Is(g, "run", n, "next", <<>>, <<>>, FALSE)
  BY DEF Frame, Frames, Is, Sources
<1> HIDE DEF g
<1>4. << >> \in Seq(Nat) OBVIOUS
<1>2. ReadCount(n, <<>>) \in Nat BY <1>4, ReadCountFacts
<1>3. FrameOK(g) BY <1>1, <1>2 DEF FrameOK, RunOK, Is
<1> QED BY <1>1, <1>3 DEF g

LEMMA NewMark ==
  ASSUME NEW s \in Signals
  PROVE  /\ FrameOK(Frame("mark", s, "clone"))
         /\ Is(Frame("mark", s, "clone"), "mark", s, "clone", <<>>, <<>>, FALSE)
<1> DEFINE g == Frame("mark", s, "clone")
<1>1. g \in Frames /\ Is(g, "mark", s, "clone", <<>>, <<>>, FALSE)
  BY DEF Frame, Frames, Is, Sources
<1> HIDE DEF g
<1>3. FrameOK(g) BY <1>1, TodoTypes DEF FrameOK, MarkOK, Is, Sources
<1> QED BY <1>1, <1>3 DEF g

LEMMA SetShape ==
  ASSUME StateInv, StackInv, NEW t \in Threads, NEW s \in Signals, Set(t, s)
  PROVE  /\ StackInv' /\ Idle(t)
         /\ \E h : Entered(t, h) /\ Is(h, "mark", s, "clone", <<>>, <<>>, FALSE)
<1> DEFINE f == Frame("mark", s, "clone")
<1>1. FrameOK(f) /\ Is(f, "mark", s, "clone", <<>>, <<>>, FALSE) BY NewMark
<1>2. Idle(t) /\ Enter(t, f) BY DEF Set
<1> HIDE DEF f
<1>3. Root(f) BY <1>1 DEF Root, Is
<1> QED BY <1>1, <1>2, <1>3, EnterStep DEF StateInv

LEMMA CloneShape ==
  ASSUME StateInv, StackInv, NEW t \in Threads, CloneSubscribers(t)
  PROVE  LET f == Top(t) IN
         /\ StackInv' /\ At(t, "mark", "clone") /\ f.node \in Signals
         /\ \E h : /\ Replaced(t, h)
                   /\ Is(h, "mark", f.node, "mark", MarkAll(subs[f.node], "dirty"), f.vals, f.ret)
<1> DEFINE f == Top(t)
           todo == MarkAll(subs[f.node], "dirty")
           h == [f EXCEPT !.pc = "mark", !.todo = todo]
<1>1. ~Idle(t) /\ At(t, "mark", "clone") /\ f.op = "mark" /\ f.pc = "clone" /\ Goto(t, h)
  BY DEF CloneSubscribers, At
<1>2. FrameOK(f) /\ f \in Frames BY <1>1, TopFacts
<1>3. f.node \in Signals /\ f.node \in Sources BY <1>1, <1>2 DEF FrameOK, MarkOK
<1>4. todo \in Seq(Marks) /\ todo \in Todos
  BY <1>3, MarkAllFacts, TodoTypes DEF StateInv
<1> HIDE DEF f, todo
<1>5. h \in Frames /\ Is(h, f.op, f.node, "mark", todo, f.vals, f.ret)
  BY <1>2, <1>4 DEF Frames, Todos, Is
<1> HIDE DEF h
<1>6. FrameOK(h) BY <1>1, <1>3, <1>4, <1>5 DEF FrameOK, MarkOK, Is
<1>7. StackInv' /\ Replaced(t, h) BY <1>1, <1>5, <1>6, GotoStep DEF StateInv, Same, f, Is
<1> QED BY <1>1, <1>3, <1>5, <1>7 DEF f, todo

LEMMA MarkMemoShape ==
  ASSUME StateInv, StackInv, NEW t \in Threads, MarkMemo(t)
  PROVE  LET f == Top(t)
             m == Head(f.todo)[1]
         IN /\ StackInv' /\ At(t, "mark", "mark") /\ f.todo \in Seq(Marks) /\ f.todo # <<>>
            /\ m \in Memos /\ f.node \in Sources
            /\ \E h : /\ Replaced(t, h)
                      /\ Is(h, "mark", f.node, "mark", MarkAll(subs[m], "check") \o Tail(f.todo),
                            f.vals, f.ret)
<1> DEFINE f == Top(t)
           m == Head(f.todo)[1]
           todo == MarkAll(subs[m], "check") \o Tail(f.todo)
           h == [f EXCEPT !.todo = todo]
<1>1. /\ ~Idle(t) /\ At(t, "mark", "mark") /\ f.op = "mark" /\ f.pc = "mark"
      /\ f.todo # <<>> /\ m \in Memos /\ Goto(t, h)
  BY DEF MarkMemo, At
<1>2. FrameOK(f) /\ f \in Frames BY <1>1, TopFacts
<1>3. f.todo \in Seq(Marks) /\ f.node \in Sources BY <1>1, <1>2 DEF FrameOK, MarkOK
<1>4. todo \in Seq(Marks) /\ todo \in Todos
  <2>1. MarkAll(subs[m], "check") \in Seq(Marks) BY <1>1, MarkAllFacts DEF StateInv, Sources
  <2>2. Tail(f.todo) \in Seq(Marks) BY <1>1, <1>3, HeadTail
  <2>3. todo \in Seq(Marks) BY <2>1, <2>2, ConcatProperties
  <2> QED BY <2>3, TodoTypes
<1> HIDE DEF f, m, todo
<1>5. h \in Frames /\ Is(h, f.op, f.node, f.pc, todo, f.vals, f.ret)
  BY <1>2, <1>4 DEF Frames, Todos, Is
<1> HIDE DEF h
<1>6. FrameOK(h) BY <1>1, <1>2, <1>4, <1>5 DEF FrameOK, MarkOK, Is
<1>7. StackInv' /\ Replaced(t, h) BY <1>1, <1>5, <1>6, GotoStep DEF StateInv, Same, f, Is
<1> QED BY <1>1, <1>3, <1>5, <1>7 DEF f, m, todo

LEMMA MarkEffectShape ==
  ASSUME StateInv, StackInv, NEW t \in Threads, MarkEffect(t)
  PROVE  LET f == Top(t)
         IN /\ StackInv' /\ At(t, "mark", "mark") /\ f.todo \in Seq(Marks) /\ f.todo # <<>>
            /\ Head(f.todo)[1] \in Effects /\ f.node \in Sources
            /\ \E h : Replaced(t, h) /\ Is(h, "mark", f.node, "mark", Tail(f.todo), f.vals, f.ret)
<1> DEFINE f == Top(t)
           todo == Tail(f.todo)
           h == [f EXCEPT !.todo = todo]
<1>1. /\ ~Idle(t) /\ At(t, "mark", "mark") /\ f.op = "mark" /\ f.pc = "mark" /\ f.todo # <<>>
      /\ Head(f.todo)[1] \in Effects /\ Goto(t, h)
  BY DEF MarkEffect, At
<1>2. FrameOK(f) /\ f \in Frames BY <1>1, TopFacts
<1>3. f.todo \in Seq(Marks) /\ f.node \in Sources BY <1>1, <1>2 DEF FrameOK, MarkOK
<1>4. todo \in Seq(Marks) /\ todo \in Todos BY <1>1, <1>3, HeadTail, TodoTypes
<1> HIDE DEF f, todo
<1>5. h \in Frames /\ Is(h, f.op, f.node, f.pc, todo, f.vals, f.ret)
  BY <1>2, <1>4 DEF Frames, Todos, Is
<1> HIDE DEF h
<1>6. FrameOK(h) BY <1>1, <1>2, <1>4, <1>5 DEF FrameOK, MarkOK, Is
<1>7. StackInv' /\ Replaced(t, h) BY <1>1, <1>5, <1>6, GotoStep DEF StateInv, Same, f, Is
<1> QED BY <1>1, <1>3, <1>5, <1>7 DEF f, todo

LEMMA MarkDoneShape ==
  ASSUME StateInv, StackInv, NEW t \in Threads, MarkDone(t)
  PROVE  StackInv' /\ At(t, "mark", "mark") /\ Popped(t) /\ Top(t).todo = <<>>
<1>1. At(t, "mark", "mark") /\ Top(t).todo = <<>> /\ Pop(t) BY DEF MarkDone
<1>2. ~Idle(t) BY <1>1 DEF At
<1> QED BY <1>1, <1>2, PopStep DEF StateInv

\* An update is of a memo that its caller asked for.
LEMMA UpdateTop ==
  ASSUME StackInv, NEW t \in Threads, ~Idle(t), Top(t).op = "update"
  PROVE  /\ FrameOK(Top(t)) /\ Top(t) \in Frames /\ UpdateOK(Top(t))
         /\ Top(t).node \in Memos /\ Top(t).node \in Sources /\ Top(t).node \in Subscribers
         /\ Top(t).todo \in Seq(ToSet(Reads[Top(t).node])) /\ Top(t).todo \in Todos
         /\ Top(t).vals \in Seq(Nat) /\ Top(t).ret \in BOOLEAN
<1>1. FrameOK(Top(t)) /\ Top(t) \in Frames BY TopFacts
<1>2. UpdateOK(Top(t)) BY <1>1 DEF FrameOK
<1> QED BY <1>1, <1>2 DEF UpdateOK, Sources, Subscribers, Frames, Todos

LEMMA NeedsUpdateShape ==
  ASSUME StateInv, StackInv, NEW t \in Threads, NeedsUpdate(t)
  PROVE  LET f == Top(t)
             m == f.node
         IN /\ StackInv' /\ At(t, "update", "state") /\ m \in Memos
            /\ \E h : /\ Replaced(t, h)
                      /\ Is(h, "update", m, Needed(m),
                            IF state[m] = "Check" THEN sources[m] ELSE <<>>, f.vals, f.ret)
<1> DEFINE f == Top(t)
           m == f.node
           todo == IF state[m] = "Check" THEN sources[m] ELSE <<>>
           pc == Needed(m)
           h == [f EXCEPT !.pc = pc, !.todo = todo]
<1>1. /\ ~Idle(t) /\ At(t, "update", "state") /\ f.op = "update" /\ Goto(t, h)
  BY DEF NeedsUpdate, At
<1>2. FrameOK(f) /\ f \in Frames /\ m \in Memos /\ m \in Subscribers BY <1>1, UpdateTop
<1>3. pc \in {"clean", "begin", "sources"}
  <2>1. state[m] \in {"Clean", "Check", "Dirty"} BY <1>2 DEF StateInv
  <2> HIDE DEF m
  <2> QED BY <2>1 DEF Needed
<1>4. todo \in Seq(ToSet(Reads[m])) /\ todo \in Todos
  <2>1. sources[m] \in Seq(ToSet(Reads[m])) BY <1>2 DEF StateInv
  <2>2. todo \in Seq(ToSet(Reads[m])) BY <2>1, TodoTypes
  <2> QED BY <2>2, <1>2, TodoTypes
<1> HIDE DEF f, m, todo, pc
<1>5. h \in Frames /\ Is(h, f.op, f.node, pc, todo, f.vals, f.ret)
  BY <1>2, <1>3, <1>4 DEF Frames, Todos, Is
<1> HIDE DEF h
<1>6. FrameOK(h) BY <1>1, <1>2, <1>3, <1>4, <1>5 DEF FrameOK, UpdateOK, Is, m
<1>7. StackInv' /\ Replaced(t, h) BY <1>1, <1>5, <1>6, GotoStep DEF StateInv, Same, f, Is
<1> QED BY <1>1, <1>2, <1>5, <1>7 DEF f, m, todo, pc

LEMMA CheckSourceShape ==
  ASSUME StateInv, StackInv, NEW t \in Threads, CheckSource(t)
  PROVE  LET f == Top(t)
             m == f.node
         IN /\ StackInv' /\ At(t, "update", "sources") /\ m \in Memos
            /\ f.todo \in Seq(ToSet(Reads[m]))
            /\ \/ f.todo = <<>> /\ \E h : /\ Replaced(t, h)
                                          /\ Is(h, "update", m, "clean", <<>>, f.vals, f.ret)
               \/ /\ f.todo # <<>> /\ Head(f.todo) \in Signals
                  /\ \E h : /\ Replaced(t, h)
                            /\ Is(h, "update", m, "own", Tail(f.todo), f.vals, FALSE)
               \/ /\ f.todo # <<>> /\ Head(f.todo) \in Memos
                  /\ \E h, g : /\ Called(t, h, g)
                               /\ Is(h, "update", m, "own", Tail(f.todo), f.vals, FALSE)
                               /\ Is(g, "update", Head(f.todo), "state", <<>>, <<>>, FALSE)
<1> DEFINE f == Top(t)
           m == f.node
           h0 == [f EXCEPT !.pc = "clean"]
           h == [f EXCEPT !.pc = "own", !.todo = Tail(f.todo), !.ret = FALSE]
           g == Frame("update", Head(f.todo), "state")
<1>1. /\ ~Idle(t) /\ At(t, "update", "sources") /\ f.op = "update" /\ f.pc = "sources"
      /\ IF f.todo = <<>> THEN Goto(t, h0)
         ELSE IF Head(f.todo) \in Memos THEN Call(t, h, g) ELSE Goto(t, h)
  BY DEF CheckSource, At
<1>2. /\ FrameOK(f) /\ f \in Frames /\ m \in Memos /\ m \in Subscribers
      /\ f.todo \in Seq(ToSet(Reads[m])) /\ f.todo \in Todos
  BY <1>1, UpdateTop
<1> HIDE DEF f
<1>3. CASE f.todo = <<>>
  <2>1. h0 \in Frames /\ Is(h0, "update", m, "clean", <<>>, f.vals, f.ret)
    BY <1>1, <1>2, <1>3 DEF Frames, Is
  <2>2. Goto(t, h0) BY <1>1, <1>3
  <2> HIDE DEF h0
  <2>3. FrameOK(h0) BY <1>1, <1>2, <2>1, TodoTypes DEF FrameOK, UpdateOK, Is
  <2>4. StackInv' /\ Replaced(t, h0) BY <1>1, <2>1, <2>2, <2>3, GotoStep DEF StateInv, Same, f, Is
  <2> QED BY <1>1, <1>2, <1>3, <2>1, <2>4 DEF f
<1>4. CASE f.todo # <<>>
  <2>0. /\ Head(f.todo) \in ToSet(Reads[m]) /\ Tail(f.todo) \in Seq(ToSet(Reads[m]))
        /\ Tail(f.todo) \in Todos
    BY <1>2, <1>4, HeadTail, TodoTypes
  <2>1. h \in Frames /\ Is(h, "update", m, "own", Tail(f.todo), f.vals, FALSE)
    BY <1>1, <1>2, <2>0 DEF Frames, Is, Todos
  <2> HIDE DEF h
  <2>3. FrameOK(h) BY <1>1, <1>2, <2>0, <2>1 DEF FrameOK, UpdateOK, Is
  <2>4. CASE Head(f.todo) \in Memos
    <3>1. Call(t, h, g) BY <1>1, <1>4, <2>4
    <3>2. FrameOK(g) /\ Is(g, "update", Head(f.todo), "state", <<>>, <<>>, FALSE)
      BY <2>4, NewUpdate
    <3> HIDE DEF g
    <3>3. Calls(h, g) BY <2>0, <2>1, <3>2 DEF Calls, Is
    <3>4. StackInv' /\ Called(t, h, g)
      BY <1>1, <2>1, <2>3, <3>1, <3>2, <3>3, CallStep DEF StateInv, Same, f, Is
    <3> QED BY <1>1, <1>2, <1>4, <2>1, <2>4, <3>2, <3>4 DEF f
  <2>5. CASE Head(f.todo) \notin Memos
    <3>1. Goto(t, h) BY <1>1, <1>4, <2>5
    <3>2. Head(f.todo) \in Signals BY <2>0, <2>5, <1>2, ReadsFacts DEF Sources
    <3>3. StackInv' /\ Replaced(t, h)
      BY <1>1, <2>1, <2>3, <3>1, GotoStep DEF StateInv, Same, f, Is
    <3> QED BY <1>1, <1>2, <1>4, <2>1, <3>2, <3>3 DEF f
  <2> QED BY <2>4, <2>5
<1> QED BY <1>3, <1>4

LEMMA CheckOwnShape ==
  ASSUME StateInv, StackInv, NEW t \in Threads, CheckOwn(t)
  PROVE  LET f == Top(t)
             m == f.node
         IN /\ StackInv' /\ At(t, "update", "own") /\ m \in Memos
            /\ \E h : /\ Replaced(t, h)
                      /\ Is(h, "update", m, IF ChangedOrDirty(f) THEN "begin" ELSE "sources",
                            f.todo, f.vals, f.ret)
<1> DEFINE f == Top(t)
           pc == IF ChangedOrDirty(f) THEN "begin" ELSE "sources"
           h == [f EXCEPT !.pc = pc]
<1>1. ~Idle(t) /\ At(t, "update", "own") /\ f.op = "update" /\ Goto(t, h)
  BY DEF CheckOwn, At
<1>2. FrameOK(f) /\ f \in Frames /\ f.node \in Memos BY <1>1, UpdateTop
<1>3. pc \in {"begin", "sources"} OBVIOUS
<1> HIDE DEF f, pc
<1>5. h \in Frames /\ Is(h, f.op, f.node, pc, f.todo, f.vals, f.ret)
  BY <1>2, <1>3 DEF Frames, Is
<1> HIDE DEF h
<1>6. FrameOK(h) BY <1>1, <1>2, <1>3, <1>5 DEF FrameOK, UpdateOK, Is
<1>7. StackInv' /\ Replaced(t, h) BY <1>1, <1>5, <1>6, GotoStep DEF StateInv, Same, f, Is
<1> QED BY <1>1, <1>2, <1>5, <1>7 DEF f, pc

\* An update gives its answer to its caller.
Answered(t, ret) ==
  \E h : /\ Returned(t, h) /\ FrameOK(h)
         /\ Is(h, Below(t).op, Below(t).node, Below(t).pc, Below(t).todo, Below(t).vals, ret)

LEMMA SetCleanShape ==
  ASSUME StateInv, StackInv, NEW t \in Threads, SetClean(t)
  PROVE  /\ StackInv' /\ At(t, "update", "clean") /\ Top(t).node \in Memos
         /\ Calls(Below(t), Top(t)) /\ FrameOK(Below(t)) /\ Answered(t, FALSE)
<1>1. ~Idle(t) /\ At(t, "update", "clean") /\ Top(t).op = "update" /\ Result(t, FALSE)
  BY DEF SetClean, At
<1> QED BY <1>1, UpdateTop, ResultStep DEF StateInv, Answered

LEMMA ReturnChangedShape ==
  ASSUME StateInv, StackInv, NEW t \in Threads, ReturnChanged(t)
  PROVE  /\ StackInv' /\ At(t, "update", "changed") /\ Top(t).node \in Memos
         /\ Calls(Below(t), Top(t)) /\ FrameOK(Below(t)) /\ Answered(t, TRUE)
<1>1. ~Idle(t) /\ At(t, "update", "changed") /\ Top(t).op = "update" /\ Result(t, TRUE)
  BY DEF ReturnChanged, At
<1> QED BY <1>1, UpdateTop, ResultStep DEF StateInv, Answered

LEMMA BeginShape ==
  ASSUME StateInv, StackInv, NEW t \in Threads, Begin(t)
  PROVE  LET f == Top(t)
             m == f.node
         IN /\ StackInv' /\ At(t, "update", "begin") /\ m \in Memos
            /\ Calls(Below(t), f) /\ FrameOK(Below(t))
            /\ \/ Reading(t, m) /\ Answered(t, FALSE)
               \/ /\ ~Reading(t, m)
                  /\ \E h : Replaced(t, h) /\ Is(h, "update", m, "clear", f.todo, f.vals, f.ret)
<1> DEFINE f == Top(t)
           h == [f EXCEPT !.pc = "clear"]
<1>1. /\ ~Idle(t) /\ At(t, "update", "begin") /\ f.op = "update"
      /\ IF Reading(t, f.node) THEN Result(t, FALSE) ELSE Goto(t, h)
  BY DEF Begin, At
<1>2. FrameOK(f) /\ f \in Frames /\ f.node \in Memos BY <1>1, UpdateTop
<1>9. Calls(Below(t), f) /\ FrameOK(Below(t)) BY <1>1, BelowFacts DEF Below
<1>3. CASE Reading(t, f.node)
  <2>1. Result(t, FALSE) BY <1>1, <1>3
  <2>2. StackInv' /\ Answered(t, FALSE) BY <1>1, <2>1, ResultStep DEF StateInv, Answered
  <2> QED BY <1>1, <1>2, <1>3, <1>9, <2>2
<1>4. CASE ~Reading(t, f.node)
  <2>1. Goto(t, h) BY <1>1, <1>4
  <2> HIDE DEF f
  <2>5. h \in Frames /\ Is(h, f.op, f.node, "clear", f.todo, f.vals, f.ret)
    BY <1>2 DEF Frames, Is
  <2> HIDE DEF h
  <2>6. FrameOK(h) BY <1>1, <1>2, <2>5 DEF FrameOK, UpdateOK, Is
  <2>7. StackInv' /\ Replaced(t, h)
    BY <1>1, <2>1, <2>5, <2>6, GotoStep DEF StateInv, Same, f, Is
  <2> QED BY <1>1, <1>2, <1>4, <1>9, <2>5, <2>7 DEF f
<1> QED BY <1>3, <1>4

LEMMA StartMemoShape ==
  ASSUME StateInv, StackInv, NEW t \in Threads, StartMemo(t)
  PROVE  LET f == Top(t)
             m == f.node
         IN /\ StackInv' /\ At(t, "update", "clear") /\ m \in Memos
            /\ \E h, g : /\ Called(t, h, g) /\ Is(h, "update", m, "commit", f.todo, f.vals, f.ret)
                         /\ Is(g, "run", m, "next", <<>>, <<>>, FALSE)
<1> DEFINE f == Top(t)
           h == [f EXCEPT !.pc = "commit"]
           g == Frame("run", f.node, "next")
<1>1. /\ ~Idle(t) /\ At(t, "update", "clear") /\ f.op = "update" /\ Call(t, h, g)
  BY DEF StartMemo, At
<1>2. FrameOK(f) /\ f \in Frames /\ f.node \in Memos /\ f.node \in Subscribers
  BY <1>1, UpdateTop
<1>3. FrameOK(g) /\ Is(g, "run", f.node, "next", <<>>, <<>>, FALSE) BY <1>2, NewRun
<1> HIDE DEF f, g
<1>5. h \in Frames /\ Is(h, f.op, f.node, "commit", f.todo, f.vals, f.ret)
  BY <1>2 DEF Frames, Is
<1> HIDE DEF h
<1>6. FrameOK(h) BY <1>1, <1>2, <1>5 DEF FrameOK, UpdateOK, Is
<1>7. Calls(h, g) BY <1>1, <1>3, <1>5 DEF Calls, Is
<1>8. StackInv' /\ Called(t, h, g)
  BY <1>1, <1>3, <1>5, <1>6, <1>7, CallStep DEF StateInv, Same, f, Is
<1> QED BY <1>1, <1>2, <1>3, <1>5, <1>8 DEF f

LEMMA LockMemoShape ==
  ASSUME StateInv, StackInv, NEW t \in Threads, LockMemo(t)
  PROVE  LET f == Top(t)
         IN /\ StackInv' /\ At(t, "update", "commit") /\ f.node \in Memos
            /\ \E h : Replaced(t, h) /\ Is(h, "update", f.node, "value", f.todo, f.vals, f.ret)
<1> DEFINE f == Top(t)
           h == [f EXCEPT !.pc = "value"]
<1>1. ~Idle(t) /\ At(t, "update", "commit") /\ f.op = "update" /\ Goto(t, h)
  BY DEF LockMemo, At
<1>2. FrameOK(f) /\ f \in Frames /\ f.node \in Memos BY <1>1, UpdateTop
<1> HIDE DEF f
<1>5. h \in Frames /\ Is(h, f.op, f.node, "value", f.todo, f.vals, f.ret)
  BY <1>2 DEF Frames, Is
<1> HIDE DEF h
<1>6. FrameOK(h) BY <1>1, <1>2, <1>5 DEF FrameOK, UpdateOK, Is
<1>7. StackInv' /\ Replaced(t, h) BY <1>1, <1>5, <1>6, GotoStep DEF StateInv, Same, f, Is
<1> QED BY <1>1, <1>2, <1>5, <1>7 DEF f

LEMMA ToMarkSeq ==
  ASSUME StateInv, NEW t \in Threads, NEW m \in Memos
  PROVE  /\ ToMark(t, m) \in Seq(Subscribers) /\ ToSet(ToMark(t, m)) \subseteq ToSet(subs[m])
         /\ \A x \in ToSet(subs[m]) : x # Observer(t) => x \in ToSet(ToMark(t, m))
<1>1. subs[m] \in Seq(Subscribers) BY DEF StateInv, Sources
<1> QED BY <1>1, UnsubscribeSeq DEF ToMark

LEMMA CommitMemoShape ==
  ASSUME StateInv, StackInv, NEW t \in Threads, CommitMemo(t)
  PROVE  LET f == Top(t)
             m == f.node
         IN /\ StackInv' /\ At(t, "update", "value") /\ m \in Memos /\ f.vals \in Seq(Nat)
            /\ Calls(Below(t), f) /\ FrameOK(Below(t))
            /\ \/ ~f.ret /\ Answered(t, FALSE)
               \/ /\ f.ret
                  /\ \E h, g : /\ Called(t, h, g)
                               /\ Is(h, "update", m, "changed", f.todo, f.vals, f.ret)
                               /\ Is(g, "mark", m, "mark", MarkAll(ToMark(t, m), "dirty"), <<>>,
                                     FALSE)
<1> DEFINE f == Top(t)
           m == f.node
           todo == MarkAll(ToMark(t, m), "dirty")
           h == [f EXCEPT !.pc = "changed"]
           g == [Frame("mark", m, "mark") EXCEPT !.todo = todo]
<1>1. /\ ~Idle(t) /\ At(t, "update", "value") /\ f.op = "update"
      /\ IF f.ret THEN Call(t, h, g) ELSE Result(t, FALSE)
  BY DEF CommitMemo, At
<1>2. /\ FrameOK(f) /\ f \in Frames /\ m \in Memos /\ m \in Sources /\ f.ret \in BOOLEAN
      /\ f.vals \in Seq(Nat)
  BY <1>1, UpdateTop
<1>9. Calls(Below(t), f) /\ FrameOK(Below(t)) BY <1>1, BelowFacts DEF Below
<1>3. CASE ~f.ret
  <2>1. Result(t, FALSE) BY <1>1, <1>3
  <2>2. StackInv' /\ Answered(t, FALSE) BY <1>1, <2>1, ResultStep DEF StateInv, Answered
  <2> QED BY <1>1, <1>2, <1>3, <1>9, <2>2
<1>4. CASE f.ret
  <2>1. Call(t, h, g) BY <1>1, <1>4
  <2>2. todo \in Seq(Marks) /\ todo \in Todos BY <1>2, ToMarkSeq, MarkAllFacts, TodoTypes
  <2> HIDE DEF f, todo
  <2>3. g \in Frames /\ Is(g, "mark", m, "mark", todo, <<>>, FALSE)
    <3> DEFINE r == Frame("mark", m, "mark")
    <3>1. r \in Frames /\ Is(r, "mark", m, "mark", <<>>, <<>>, FALSE)
      BY <1>2 DEF Frames, Frame, Is
    <3> HIDE DEF r
    <3>2. [r EXCEPT !.todo = todo] \in Frames BY <3>1, <2>2 DEF Frames, Todos
    <3>3. Is([r EXCEPT !.todo = todo], "mark", m, "mark", todo, <<>>, FALSE)
      BY <3>1, <2>2 DEF Frames, Is
    <3> QED BY <3>2, <3>3 DEF r
  <2> HIDE DEF g
  <2>4. FrameOK(g) BY <1>2, <2>2, <2>3 DEF FrameOK, MarkOK, Is
  <2>5. h \in Frames /\ Is(h, f.op, f.node, "changed", f.todo, f.vals, f.ret)
    BY <1>2 DEF Frames, Is
  <2> HIDE DEF h
  <2>6. FrameOK(h) BY <1>1, <1>2, <2>5 DEF FrameOK, UpdateOK, Is
  <2>7. Calls(h, g) BY <1>1, <2>3, <2>5 DEF Calls, Is
  <2>8. StackInv' /\ Called(t, h, g)
    BY <1>1, <2>1, <2>4, <2>5, <2>6, <2>7, CallStep DEF StateInv, Same, f, Is
  <2> QED BY <1>1, <1>2, <1>4, <1>9, <2>3, <2>5, <2>8 DEF f, todo
<1> QED BY <1>3, <1>4

LEMMA RunTop ==
  ASSUME StackInv, NEW t \in Threads, ~Idle(t), Top(t).op = "run"
  PROVE  /\ FrameOK(Top(t)) /\ Top(t) \in Frames /\ RunOK(Top(t))
         /\ Top(t).node \in Subscribers /\ Top(t).vals \in Seq(Nat)
<1>1. FrameOK(Top(t)) /\ Top(t) \in Frames BY TopFacts
<1>2. RunOK(Top(t)) BY <1>1 DEF FrameOK
<1> QED BY <1>1, <1>2 DEF RunOK, Frames

LEMMA AddSourceShape ==
  ASSUME StateInv, StackInv, NEW t \in Threads, AddSource(t)
  PROVE  LET f == Top(t)
         IN /\ StackInv' /\ At(t, "run", "next") /\ f.node \in Subscribers
            /\ NextRead(f) \in Sources /\ NextRead(f) \in ToSet(Reads[f.node])
            /\ Len(f.vals) < ReadCount(f.node, f.vals)
            /\ \E h : Replaced(t, h) /\ Is(h, "run", f.node, "track", f.todo, f.vals, f.ret)
<1> DEFINE f == Top(t)
           h == [f EXCEPT !.pc = "track"]
<1>1. /\ ~Idle(t) /\ At(t, "run", "next") /\ f.op = "run" /\ f.pc = "next" /\ Goto(t, h)
      /\ Len(f.vals) < ReadCount(f.node, f.vals)
  BY DEF AddSource, At
<1>2. FrameOK(f) /\ f \in Frames /\ f.node \in Subscribers /\ RunOK(f) BY <1>1, RunTop
<1> HIDE DEF f
<1>3. NextRead(f) \in Sources /\ NextRead(f) \in ToSet(Reads[f.node])
  BY <1>1, <1>2, NextReadFacts
<1>5. h \in Frames /\ Is(h, f.op, f.node, "track", f.todo, f.vals, f.ret)
  BY <1>2 DEF Frames, Is
<1> HIDE DEF h
<1>6. FrameOK(h) BY <1>1, <1>2, <1>5 DEF FrameOK, RunOK, Is
<1>7. StackInv' /\ Replaced(t, h) BY <1>1, <1>5, <1>6, GotoStep DEF StateInv, Same, f, Is
<1> QED BY <1>1, <1>2, <1>3, <1>5, <1>7 DEF f

LEMMA AddSubscriberShape ==
  ASSUME StateInv, StackInv, NEW t \in Threads, AddSubscriber(t)
  PROVE  LET f == Top(t)
             x == NextRead(f)
         IN /\ StackInv' /\ At(t, "run", "track") /\ f.node \in Subscribers
            /\ x \in Sources /\ x \in ToSet(Reads[f.node])
            /\ \/ /\ x \in Signals
                  /\ \E h : Replaced(t, h) /\ Is(h, "run", f.node, "read", f.todo, f.vals, f.ret)
               \/ /\ x \in Memos
                  /\ \E h, g : /\ Called(t, h, g)
                               /\ Is(h, "run", f.node, "read", f.todo, f.vals, f.ret)
                               /\ Is(g, "update", x, "state", <<>>, <<>>, FALSE)
<1> DEFINE f == Top(t)
           x == NextRead(f)
           h == [f EXCEPT !.pc = "read"]
           g == Frame("update", x, "state")
<1>1. /\ ~Idle(t) /\ At(t, "run", "track") /\ f.op = "run" /\ f.pc = "track"
      /\ IF x \in Memos THEN Call(t, h, g) ELSE Goto(t, h)
  BY DEF AddSubscriber, At, ReadUpdates
<1>2. FrameOK(f) /\ f \in Frames /\ f.node \in Subscribers /\ RunOK(f) BY <1>1, RunTop
<1> HIDE DEF f
<1>3. x \in Sources /\ x \in ToSet(Reads[f.node]) BY <1>1, <1>2, NextReadFacts
<1>5. h \in Frames /\ Is(h, f.op, f.node, "read", f.todo, f.vals, f.ret)
  BY <1>2 DEF Frames, Is
<1> HIDE DEF h
<1>6. FrameOK(h) BY <1>1, <1>2, <1>5 DEF FrameOK, RunOK, Is
<1>7. NextRead(h) = x BY <1>5 DEF NextRead, Is
<1> HIDE DEF x
<1>8. CASE x \in Memos
  <2>1. Call(t, h, g) BY <1>1, <1>8
  <2>2. FrameOK(g) /\ Is(g, "update", x, "state", <<>>, <<>>, FALSE) BY <1>8, NewUpdate
  <2> HIDE DEF g
  <2>3. Calls(h, g) BY <1>1, <1>5, <1>7, <2>2 DEF Calls, Is
  <2>4. StackInv' /\ Called(t, h, g)
    BY <1>1, <1>5, <1>6, <2>1, <2>2, <2>3, CallStep DEF StateInv, Same, f, Is
  <2> QED BY <1>1, <1>2, <1>3, <1>5, <1>8, <2>2, <2>4 DEF f, x
<1>9. CASE x \notin Memos
  <2>1. Goto(t, h) /\ x \in Signals BY <1>1, <1>3, <1>9 DEF Sources
  <2>2. StackInv' /\ Replaced(t, h)
    BY <1>1, <1>5, <1>6, <2>1, GotoStep DEF StateInv, Same, f, Is
  <2> QED BY <1>1, <1>2, <1>3, <1>5, <2>1, <2>2 DEF f, x
<1> QED BY <1>8, <1>9

\* Whether a function reads on is settled by its first read.
LEMMA ReadCountGrows ==
  ASSUME NEW n \in Subscribers, NEW vals \in Seq(Nat), NEW v \in Nat,
         Len(vals) < ReadCount(n, vals)
  PROVE  Len(Append(vals, v)) <= ReadCount(n, Append(vals, v))
<1> DEFINE w == Append(vals, v)
<1>1. w \in Seq(Nat) /\ Len(w) = Len(vals) + 1 /\ Len(vals) \in Nat /\ w # <<>> OBVIOUS
<1>2. CASE vals = <<>>
  <2>1. Len(vals) = 0 BY <1>2
  <2>2. Len(Reads[n]) \in Nat /\ Len(Reads[n]) > 0
    BY <1>2, <2>1, ReadCountFacts, ReadsFacts
  <2>3. ReadCount(n, w) \in {1, Len(Reads[n])} BY DEF ReadCount
  <2> HIDE DEF w
  <2> QED BY <1>1, <2>1, <2>2, <2>3 DEF w
<1>3. CASE vals # <<>>
  <2>1. w[1] = vals[1] BY <1>3
  <2> HIDE DEF w
  <2>2. ReadCount(n, w) = ReadCount(n, vals) BY <1>1, <1>3, <2>1 DEF ReadCount
  <2>3. ReadCount(n, vals) \in Nat BY ReadCountFacts
  <2> QED BY <1>1, <2>2, <2>3 DEF w
<1> QED BY <1>2, <1>3

LEMMA ReadValueShape ==
  ASSUME StateInv, StackInv, ValueInv, NEW t \in Threads, ReadValue(t)
  PROVE  LET f == Top(t)
             x == NextRead(f)
         IN /\ StackInv' /\ At(t, "run", "read") /\ f.node \in Subscribers
            /\ x \in Sources /\ x \in ToSet(Reads[f.node]) /\ value[x] \in Nat
            /\ Len(f.vals) + 1 \in 1..Len(Reads[f.node]) /\ f.vals \in Seq(Nat)
            /\ \E h : /\ Replaced(t, h)
                      /\ Is(h, "run", f.node, "next", f.todo, Append(f.vals, value[x]), f.ret)
<1> DEFINE f == Top(t)
           x == NextRead(f)
           w == Append(f.vals, value[x])
           h == [f EXCEPT !.pc = "next", !.vals = w]
<1>1. ~Idle(t) /\ At(t, "run", "read") /\ f.op = "run" /\ f.pc = "read" /\ Goto(t, h)
  <2>1. h = [f EXCEPT !.pc = "next", !.vals = Append(@, value[NextRead(f)])] OBVIOUS
  <2> QED BY <2>1, Zenon DEF ReadValue, At
<1>2. /\ FrameOK(f) /\ f \in Frames /\ f.node \in Subscribers /\ RunOK(f) /\ f.vals \in Seq(Nat)
  BY <1>1, RunTop
<1>9. value[x] \in Nat
  <2>1. Depth(t) \in 1..Len(stack[t]) /\ f = stack[t][Depth(t)] BY <1>1, TopFacts DEF Depth
  <2>2. Known(f, Depth(t) = Len(stack[t])) BY <2>1 DEF ValueInv
  <2> QED BY <1>1, <2>2 DEF Known, Depth
<1> HIDE DEF f
<1>3. /\ x \in Sources /\ x \in ToSet(Reads[f.node])
      /\ Len(f.vals) + 1 \in 1..Len(Reads[f.node])
  BY <1>1, <1>2, NextReadFacts
<1> HIDE DEF x
<1>4. w \in Seq(Nat) /\ Len(w) <= ReadCount(f.node, w)
  <2>1. Len(f.vals) < ReadCount(f.node, f.vals) BY <1>1, <1>2 DEF RunOK
  <2> QED BY <1>2, <1>9, <2>1, ReadCountGrows
<1> HIDE DEF w
<1>5. h \in Frames /\ Is(h, f.op, f.node, "next", f.todo, w, f.ret)
  BY <1>2, <1>4 DEF Frames, Is
<1> HIDE DEF h
<1>6. FrameOK(h) BY <1>1, <1>2, <1>4, <1>5 DEF FrameOK, RunOK, Is
<1>7. StackInv' /\ Replaced(t, h) BY <1>1, <1>5, <1>6, GotoStep DEF StateInv, Same, f, Is
<1> QED BY <1>1, <1>2, <1>3, <1>5, <1>7, <1>9 DEF f, x, w

LEMMA EndMemoShape ==
  ASSUME StateInv, StackInv, NEW t \in Threads, EndMemo(t)
  PROVE  LET f == Top(t)
             m == f.node
         IN /\ StackInv' /\ At(t, "run", "next") /\ m \in Memos /\ f.vals \in Seq(Nat)
            /\ Len(f.vals) = ReadCount(m, f.vals)
            /\ Below(t).op = "update" /\ Below(t).pc = "commit" /\ Below(t).node = m
            /\ \E h : /\ Returned(t, h)
                      /\ Is(h, "update", m, "commit", Below(t).todo, f.vals,
                            Compute(m, f.vals) # value[m])
<1> DEFINE f == Top(t)
           b == Below(t)
           ret == Compute(f.node, f.vals) # value[f.node]
           h == [b EXCEPT !.ret = ret, !.vals = f.vals]
<1>1. /\ ~Idle(t) /\ At(t, "run", "next") /\ f.op = "run" /\ f.node \in Memos
      /\ Len(f.vals) >= ReadCount(f.node, f.vals) /\ Return(t, ret, f.vals)
  BY DEF EndMemo, Ended, At
<1>2. FrameOK(f) /\ f \in Frames /\ f.vals \in Seq(Nat) /\ RunOK(f) /\ f.node \in Subscribers
  BY <1>1, RunTop
<1>3. /\ Calls(b, f) /\ FrameOK(b) /\ Last(Front(stack[t])) = b BY <1>1, BelowFacts DEF Below
<1>4. b.op = "update" /\ b.pc = "commit" /\ b.node = f.node
  BY <1>1, <1>3, KindsAssumption DEF Calls, FrameOK, TaskOK, Sources
<1>9. Len(f.vals) = ReadCount(f.node, f.vals)
  <2>1. Len(f.vals) \in Nat /\ ReadCount(f.node, f.vals) \in Nat BY <1>2, ReadCountFacts
  <2> QED BY <1>1, <1>2, <2>1 DEF RunOK
<1>10. ret \in BOOLEAN OBVIOUS
<1>11. stack' = [stack EXCEPT ![t] = Append(Front(Front(@)), h)] BY <1>1, <1>3 DEF Return
<1> HIDE DEF f, b, ret
<1>5. h \in Frames /\ Is(h, b.op, b.node, b.pc, b.todo, f.vals, ret)
  BY <1>2, <1>3, <1>10 DEF Frames, Is, FrameOK
<1> HIDE DEF h
<1>6. FrameOK(h) BY <1>1, <1>3, <1>4, <1>5 DEF FrameOK, UpdateOK, Is
<1>12. Same(h, b) BY <1>5 DEF Is, Same
<1>7. StackInv' /\ Returned(t, h)
  BY <1>1, <1>6, <1>11, <1>12, ReturnStep DEF StateInv, f, b, Below
<1>13. Is(h, "update", f.node, "commit", b.todo, f.vals, ret) BY <1>4, <1>5 DEF Is
<1> QED BY <1>1, <1>2, <1>4, <1>7, <1>9, <1>13 DEF f, b, ret

\* A task, and a read by user code, is the outermost call.
LEMMA RootIndex ==
  ASSUME StackInv, NEW t \in Threads, NEW i \in 1..Depth(t), stack[t][i].op \in {"task", "get"}
  PROVE  i = 1
<1> SUFFICES ASSUME i # 1 PROVE FALSE OBVIOUS
<1>1. /\ StackOK(stack[t]) /\ Len(stack[t]) \in Nat BY DEF StackInv, StackOK
<1>2. i - 1 \in 1..Len(stack[t]) /\ i - 1 < Len(stack[t]) /\ i - 1 + 1 = i BY <1>1 DEF Depth
<1>3. Calls(stack[t][i - 1], stack[t][i]) BY <1>1, <1>2 DEF StackOK
<1> QED BY <1>3 DEF Calls

LEMMA TaskTop ==
  ASSUME StackInv, NEW t \in Threads, ~Idle(t), Top(t).op = "task"
  PROVE  /\ FrameOK(Top(t)) /\ Top(t) \in Frames /\ TaskOK(Top(t)) /\ Depth(t) = 1
         /\ Top(t).node \in Effects /\ Top(t).node \in Subscribers
         /\ Top(t).todo \in Seq(ToSet(Reads[Top(t).node])) /\ Top(t).todo \in Todos
<1>1. /\ FrameOK(Top(t)) /\ Top(t) \in Frames /\ Depth(t) \in Nat /\ Depth(t) > 0
      /\ Top(t) = stack[t][Depth(t)]
  BY TopFacts
<1>2. TaskOK(Top(t)) BY <1>1 DEF FrameOK
<1>3. Depth(t) \in 1..Depth(t) BY <1>1
<1>4. Depth(t) = 1 BY <1>1, <1>3, RootIndex
<1> QED BY <1>1, <1>2, <1>4 DEF TaskOK, Subscribers, Frames, Todos

LEMMA EndEffectShape ==
  ASSUME StateInv, StackInv, NEW t \in Threads, EndEffect(t)
  PROVE  LET f == Top(t)
             e == f.node
         IN /\ StackInv' /\ At(t, "run", "next") /\ e \in Effects /\ f.vals \in Seq(Nat)
            /\ Len(f.vals) = ReadCount(e, f.vals) /\ Depth(t) = 2
            /\ Below(t).op = "task" /\ Below(t).pc = "end" /\ Below(t).node = e
            /\ \/ Popped(t) /\ value' = value
               \/ \E s \in Signals : \E h :
                    /\ value[s] < MaxWrites /\ value' = [value EXCEPT ![s] = @ + 1]
                    /\ Replaced(t, h) /\ Is(h, "mark", s, "clone", <<>>, <<>>, FALSE)
<1> DEFINE f == Top(t)
           b == Below(t)
           W == {s \in Writes[f.node] : value[s] < MaxWrites}
<1>1. /\ ~Idle(t) /\ At(t, "run", "next") /\ f.op = "run" /\ f.node \in Effects
      /\ Len(f.vals) >= ReadCount(f.node, f.vals)
      /\ \/ W = {} /\ Pop(t) /\ UNCHANGED value
         \/ \E s \in W : /\ value' = [value EXCEPT ![s] = @ + 1]
                         /\ Goto(t, Frame("mark", s, "clone"))
  BY DEF EndEffect, Ended, At
<1>2. FrameOK(f) /\ f \in Frames /\ f.vals \in Seq(Nat) /\ RunOK(f) /\ f.node \in Subscribers
  BY <1>1, RunTop
<1>3. /\ Calls(b, f) /\ FrameOK(b) /\ Last(Front(stack[t])) = b /\ Front(stack[t]) # <<>>
      /\ Depth(t) > 1
  BY <1>1, BelowFacts DEF Below
<1>4. b.op = "task" /\ b.pc = "end" /\ b.node = f.node
  BY <1>1, <1>3, KindsAssumption DEF Calls, FrameOK, UpdateOK, Sources
<1>9. Len(f.vals) = ReadCount(f.node, f.vals)
  <2>1. Len(f.vals) \in Nat /\ ReadCount(f.node, f.vals) \in Nat BY <1>2, ReadCountFacts
  <2> QED BY <1>1, <1>2, <2>1 DEF RunOK
<1>10. Depth(t) = 2 /\ stack[t] \in Seq(Frames) /\ stack[t] # <<>> /\ StackOK(stack[t])
  <2>1. /\ Depth(t) \in Nat /\ stack[t] \in Seq(Frames) /\ stack[t] # <<>> /\ StackOK(stack[t])
    BY <1>1, TopFacts
  <2>2. Depth(t) - 1 \in 1..Depth(t) BY <1>3, <2>1
  <2>3. Depth(t) - 1 = 1 BY <1>4, <2>2, RootIndex DEF Below
  <2> QED BY <2>1, <2>3
<1>5. CASE Pop(t) /\ UNCHANGED value
  <2>1. StackInv' /\ Popped(t) BY <1>1, <1>5, PopStep DEF StateInv
  <2> QED BY <1>1, <1>2, <1>4, <1>5, <1>9, <1>10, <2>1
<1>6. CASE ~(Pop(t) /\ UNCHANGED value)
  <2>1. PICK s \in W : value' = [value EXCEPT ![s] = @ + 1] /\ Goto(t, Frame("mark", s, "clone"))
    BY <1>1, <1>6
  <2>2. s \in Signals /\ value[s] < MaxWrites
    <3>1. Writes[f.node] \subseteq Signals BY <1>1, GraphAssumption
    <3> QED BY <3>1
  <2> DEFINE g == Frame("mark", s, "clone")
             q == Front(stack[t])
             r == Append(q, g)
  <2>3. FrameOK(g) /\ Is(g, "mark", s, "clone", <<>>, <<>>, FALSE) BY <2>2, NewMark
  <2>4. stack' = [stack EXCEPT ![t] = r] BY <2>1 DEF Goto
  <2> HIDE DEF g
  <2>5. Calls(b, g) BY <1>4, <2>2, <2>3 DEF Calls, Is
  <2>6. StackOK(q) BY <1>10, PopOK
  <2>7. StackOK(r) BY <1>3, <2>3, <2>5, <2>6, PushOK
  <2>8. g \in Frames BY <2>3 DEF FrameOK
  <2>9. /\ Len(stack[t]) \in Nat /\ Len(stack[t]) > 0 /\ Len(r) = Len(stack[t])
        /\ \A i \in 1..Len(stack[t]) : r[i] = IF i = Len(stack[t]) THEN g ELSE stack[t][i]
    BY <1>10, <2>8, GotoSeq, PopSeq
  <2> HIDE DEF r
  <2>10. StackInv' /\ OthersKept(t) /\ stack'[t] = r BY <2>4, <2>7, OthersOK DEF StateInv
  <2>11. Replaced(t, g) BY <2>9, <2>10 DEF Replaced, Depth
  <2> QED BY <1>1, <1>2, <1>4, <1>9, <1>10, <2>1, <2>2, <2>3, <2>10, <2>11
<1> QED BY <1>1, <1>5, <1>6

LEMMA PollShape ==
  ASSUME StateInv, StackInv, NEW t \in Threads, NEW e \in Effects, Poll(t, e)
  PROVE  /\ StackInv' /\ Idle(t)
         /\ \/ paused[e] /\ stack' = stack
            \/ ~paused[e] /\ \E h : Entered(t, h) /\ Is(h, "task", e, "dirty", <<>>, <<>>, FALSE)
<1> DEFINE f == Frame("task", e, "dirty")
<1>0. e \in Subscribers BY DEF Subscribers
<1>1. f \in Frames /\ Is(f, "task", e, "dirty", <<>>, <<>>, FALSE)
  BY <1>0 DEF Frame, Frames, Is
<1>2. Idle(t) /\ IF paused[e] THEN stack' = stack ELSE Enter(t, f) BY DEF Poll
<1> HIDE DEF f
<1>3. FrameOK(f) /\ Root(f) BY <1>1, TodoTypes DEF FrameOK, TaskOK, Root, Is
<1>4. CASE paused[e] BY <1>2, <1>4 DEF StackInv
<1>5. CASE ~paused[e]
  <2>1. StackInv' /\ Entered(t, f) BY <1>2, <1>3, <1>5, EnterStep DEF StateInv
  <2> QED BY <1>1, <1>2, <1>5, <2>1
<1> QED BY <1>4, <1>5

LEMMA TaskDirtyShape ==
  ASSUME StateInv, StackInv, NEW t \in Threads, TaskDirty(t)
  PROVE  LET f == Top(t)
             e == f.node
         IN /\ StackInv' /\ At(t, "task", "dirty") /\ Depth(t) = 1 /\ e \in Effects
            /\ \/ /\ dirty[e]
                  /\ \E h : Replaced(t, h) /\ Is(h, "task", e, "run", f.todo, f.vals, f.ret)
               \/ /\ ~dirty[e]
                  /\ \E h : /\ Replaced(t, h)
                            /\ Is(h, "task", e, "sources", sources[e], f.vals, f.ret)
<1> DEFINE f == Top(t)
           e == f.node
           h1 == [f EXCEPT !.pc = "run"]
           h2 == [f EXCEPT !.pc = "sources", !.todo = sources[e]]
<1>1. /\ ~Idle(t) /\ At(t, "task", "dirty") /\ f.op = "task" /\ f.pc = "dirty"
      /\ Goto(t, IF dirty[e] THEN h1 ELSE h2)
  BY DEF TaskDirty, At
<1>2. FrameOK(f) /\ f \in Frames /\ Depth(t) = 1 /\ e \in Effects /\ e \in Subscribers
  BY <1>1, TaskTop
<1>3. sources[e] \in Seq(ToSet(Reads[e])) /\ sources[e] \in Todos
  BY <1>2, TodoTypes DEF StateInv
<1> HIDE DEF f
<1>4. h1 \in Frames /\ Is(h1, f.op, e, "run", f.todo, f.vals, f.ret) BY <1>2 DEF Frames, Is
<1>5. h2 \in Frames /\ Is(h2, f.op, e, "sources", sources[e], f.vals, f.ret)
  BY <1>2, <1>3 DEF Frames, Is, Todos
<1> HIDE DEF h1, h2
<1>6. FrameOK(h1) BY <1>1, <1>2, <1>4 DEF FrameOK, TaskOK, Is
<1>7. FrameOK(h2) BY <1>1, <1>2, <1>3, <1>5 DEF FrameOK, TaskOK, Is
<1>8. CASE dirty[e]
  <2>1. Goto(t, h1) BY <1>1, <1>8
  <2>2. StackInv' /\ Replaced(t, h1)
    BY <1>1, <1>4, <1>6, <2>1, GotoStep DEF StateInv, Same, f, Is
  <2> QED BY <1>1, <1>2, <1>4, <1>8, <2>2 DEF f
<1>9. CASE ~dirty[e]
  <2>1. Goto(t, h2) BY <1>1, <1>9
  <2>2. StackInv' /\ Replaced(t, h2)
    BY <1>1, <1>5, <1>7, <2>1, GotoStep DEF StateInv, Same, f, Is
  <2> QED BY <1>1, <1>2, <1>5, <1>9, <2>2 DEF f
<1> QED BY <1>8, <1>9

LEMMA TaskSourcesShape ==
  ASSUME StateInv, StackInv, NEW t \in Threads, TaskSources(t)
  PROVE  LET f == Top(t)
             e == f.node
         IN /\ StackInv' /\ At(t, "task", "sources") /\ Depth(t) = 1 /\ e \in Effects
            /\ f.todo \in Seq(ToSet(Reads[e]))
            /\ \/ /\ f.ret \/ first[e]
                  /\ \E h : Replaced(t, h) /\ Is(h, "task", e, "run", f.todo, f.vals, f.ret)
               \/ ~f.ret /\ f.todo = <<>> /\ ~first[e] /\ Popped(t)
               \/ /\ ~f.ret /\ f.todo # <<>> /\ Head(f.todo) \in Signals
                  /\ \E h : /\ Replaced(t, h)
                            /\ Is(h, "task", e, "sources", Tail(f.todo), f.vals, f.ret)
               \/ /\ ~f.ret /\ f.todo # <<>> /\ Head(f.todo) \in Memos
                  /\ \E h, g : /\ Called(t, h, g)
                               /\ Is(h, "task", e, "sources", Tail(f.todo), f.vals, f.ret)
                               /\ Is(g, "update", Head(f.todo), "state", <<>>, <<>>, FALSE)
<1> DEFINE f == Top(t)
           e == f.node
           h1 == [f EXCEPT !.pc = "run"]
           h2 == [f EXCEPT !.todo = Tail(f.todo)]
           g == Frame("update", Head(f.todo), "state")
<1>1. ~Idle(t) /\ At(t, "task", "sources") /\ f.op = "task" /\ f.pc = "sources"
  BY DEF TaskSources, At
<1>2. /\ FrameOK(f) /\ f \in Frames /\ Depth(t) = 1 /\ e \in Effects /\ e \in Subscribers
      /\ f.todo \in Seq(ToSet(Reads[e])) /\ f.todo \in Todos
  BY <1>1, TaskTop
<1>3. \/ f.ret /\ Goto(t, h1)
      \/ ~f.ret /\ f.todo = <<>> /\ first[e] /\ Goto(t, h1)
      \/ ~f.ret /\ f.todo = <<>> /\ ~first[e] /\ Pop(t)
      \/ ~f.ret /\ f.todo # <<>> /\ Head(f.todo) \in Memos /\ Call(t, h2, g)
      \/ ~f.ret /\ f.todo # <<>> /\ Head(f.todo) \notin Memos /\ Goto(t, h2)
  BY DEF TaskSources
<1> HIDE DEF f
<1>4. CASE Goto(t, h1) /\ (f.ret \/ first[e])
  <2>1. h1 \in Frames /\ Is(h1, f.op, e, "run", f.todo, f.vals, f.ret) BY <1>2 DEF Frames, Is
  <2> HIDE DEF h1
  <2>2. FrameOK(h1) BY <1>1, <1>2, <2>1 DEF FrameOK, TaskOK, Is
  <2>3. StackInv' /\ Replaced(t, h1)
    BY <1>1, <1>4, <2>1, <2>2, GotoStep DEF StateInv, Same, f, Is
  <2> QED BY <1>1, <1>2, <1>4, <2>1, <2>3 DEF f
<1>5. CASE ~f.ret /\ f.todo = <<>> /\ ~first[e] /\ Pop(t)
  <2>1. StackInv' /\ Popped(t) BY <1>1, <1>5, PopStep DEF StateInv
  <2> QED BY <1>1, <1>2, <1>5, <2>1 DEF f
<1>6. CASE ~f.ret /\ f.todo # <<>> /\ (Head(f.todo) \in Memos => Call(t, h2, g))
           /\ (Head(f.todo) \notin Memos => Goto(t, h2))
  <2>0. /\ Head(f.todo) \in ToSet(Reads[e]) /\ Tail(f.todo) \in Seq(ToSet(Reads[e]))
        /\ Tail(f.todo) \in Todos
    BY <1>2, <1>6, HeadTail, TodoTypes
  <2>1. h2 \in Frames /\ Is(h2, "task", e, "sources", Tail(f.todo), f.vals, f.ret)
    BY <1>1, <1>2, <2>0 DEF Frames, Is, Todos
  <2> HIDE DEF h2
  <2>3. FrameOK(h2) BY <1>1, <1>2, <2>0, <2>1 DEF FrameOK, TaskOK, Is
  <2>4. CASE Head(f.todo) \in Memos
    <3>1. Call(t, h2, g) BY <1>6, <2>4
    <3>2. FrameOK(g) /\ Is(g, "update", Head(f.todo), "state", <<>>, <<>>, FALSE)
      BY <2>4, NewUpdate
    <3> HIDE DEF g
    <3>3. Calls(h2, g) BY <2>1, <3>2 DEF Calls, Is
    <3>4. StackInv' /\ Called(t, h2, g)
      BY <1>1, <2>1, <2>3, <3>1, <3>2, <3>3, CallStep DEF StateInv, Same, f, Is
    <3> QED BY <1>1, <1>2, <1>6, <2>1, <2>4, <3>2, <3>4 DEF f
  <2>5. CASE Head(f.todo) \notin Memos
    <3>1. Goto(t, h2) BY <1>6, <2>5
    <3>2. Head(f.todo) \in Signals BY <2>0, <2>5, <1>2, ReadsFacts DEF Sources
    <3>3. StackInv' /\ Replaced(t, h2)
      BY <1>1, <2>1, <2>3, <3>1, GotoStep DEF StateInv, Same, f, Is
    <3> QED BY <1>1, <1>2, <1>6, <2>1, <3>2, <3>3 DEF f
  <2> QED BY <2>4, <2>5
<1> QED BY <1>3, <1>4, <1>5, <1>6

LEMMA StartEffectShape ==
  ASSUME StateInv, StackInv, NEW t \in Threads, StartEffect(t)
  PROVE  LET f == Top(t)
             e == f.node
         IN /\ StackInv' /\ At(t, "task", "run") /\ Depth(t) = 1 /\ e \in Effects
            /\ \E h, g : /\ Called(t, h, g) /\ Is(h, "task", e, "end", f.todo, f.vals, f.ret)
                         /\ Is(g, "run", e, "next", <<>>, <<>>, FALSE)
<1> DEFINE f == Top(t)
           h == [f EXCEPT !.pc = "end"]
           g == Frame("run", f.node, "next")
<1>1. /\ ~Idle(t) /\ At(t, "task", "run") /\ f.op = "task" /\ Call(t, h, g)
  BY DEF StartEffect, At
<1>2. FrameOK(f) /\ f \in Frames /\ f.node \in Effects /\ f.node \in Subscribers /\ Depth(t) = 1
  BY <1>1, TaskTop
<1>3. FrameOK(g) /\ Is(g, "run", f.node, "next", <<>>, <<>>, FALSE) BY <1>2, NewRun
<1> HIDE DEF f, g
<1>5. h \in Frames /\ Is(h, f.op, f.node, "end", f.todo, f.vals, f.ret)
  BY <1>2 DEF Frames, Is
<1> HIDE DEF h
<1>6. FrameOK(h) BY <1>1, <1>2, <1>5 DEF FrameOK, TaskOK, Is
<1>7. Calls(h, g) BY <1>1, <1>3, <1>5 DEF Calls, Is
<1>8. StackInv' /\ Called(t, h, g)
  BY <1>1, <1>3, <1>5, <1>6, <1>7, CallStep DEF StateInv, Same, f, Is
<1> QED BY <1>1, <1>2, <1>3, <1>5, <1>8 DEF f

LEMMA TaskEndShape ==
  ASSUME StateInv, StackInv, NEW t \in Threads, TaskEnd(t)
  PROVE  /\ StackInv' /\ At(t, "task", "end") /\ Depth(t) = 1 /\ Top(t).node \in Effects
         /\ Popped(t)
<1>1. At(t, "task", "end") /\ Pop(t) BY DEF TaskEnd
<1>2. ~Idle(t) /\ Top(t).op = "task" BY <1>1 DEF At
<1>3. Top(t).node \in Effects /\ Depth(t) = 1 BY <1>2, TaskTop
<1> QED BY <1>1, <1>2, <1>3, PopStep DEF StateInv

\* A read by user code enters two calls.
Got(t, g, u) ==
  /\ OthersKept(t) /\ Depth(t) = 0 /\ Depth(t)' = 2
  /\ stack'[t][1] = g /\ stack'[t][2] = u

LEMMA GetShape ==
  ASSUME StateInv, StackInv, NEW t \in Threads, NEW m \in Memos, Get(t, m)
  PROVE  /\ StackInv' /\ Idle(t)
         /\ \E g, u : /\ Got(t, g, u) /\ Is(g, "get", m, "read", <<>>, <<>>, FALSE)
                      /\ Is(u, "update", m, "state", <<>>, <<>>, FALSE)
<1> DEFINE g == Frame("get", m, "read")
           u == Frame("update", m, "state")
           q == << g >>
           r == <<g, u>>
<1>1. g \in Frames /\ Is(g, "get", m, "read", <<>>, <<>>, FALSE)
  BY DEF Frame, Frames, Is, Sources
<1>2. FrameOK(u) /\ Is(u, "update", m, "state", <<>>, <<>>, FALSE) BY NewUpdate
<1>3. Idle(t) /\ stack' = [stack EXCEPT ![t] = r] BY DEF Get
<1> HIDE DEF g, u
<1>4. FrameOK(g) /\ Root(g) /\ Calls(g, u) BY <1>1, <1>2 DEF FrameOK, GetOK, Root, Calls, Is
<1>5. q \in Seq(Frames) /\ Len(q) = 1 /\ q[1] = g /\ q # <<>> /\ Last(q) = g BY <1>1 DEF Last
<1>6. StackOK(q)
  <2> HIDE DEF q
  <2> QED BY <1>4, <1>5 DEF StackOK
<1>7. r = Append(q, u) OBVIOUS
<1>8. StackOK(r)
  <2> HIDE DEF q, r
  <2> QED BY <1>2, <1>4, <1>5, <1>6, <1>7, PushOK
<1>9. Len(r) = 2 /\ r[1] = g /\ r[2] = u OBVIOUS
<1> HIDE DEF r
<1>10. StackInv' /\ OthersKept(t) /\ stack'[t] = r BY <1>3, <1>8, OthersOK DEF StateInv
<1>11. Got(t, g, u) BY <1>3, <1>9, <1>10, IdleFacts DEF Got, Depth
<1> QED BY <1>1, <1>2, <1>3, <1>10, <1>11

LEMMA GetValueShape ==
  ASSUME StateInv, StackInv, NEW t \in Threads, GetValue(t)
  PROVE  /\ StackInv' /\ At(t, "get", "read") /\ Depth(t) = 1 /\ Top(t).node \in Memos
         /\ Popped(t)
<1>1. At(t, "get", "read") /\ Pop(t) BY DEF GetValue
<1>2. ~Idle(t) /\ Top(t).op = "get" BY <1>1 DEF At
<1>3. /\ FrameOK(Top(t)) /\ Depth(t) \in Nat /\ Depth(t) > 0 /\ Top(t) = stack[t][Depth(t)]
  BY <1>2, TopFacts
<1>4. Depth(t) \in 1..Depth(t) BY <1>3
<1>5. Depth(t) = 1 BY <1>2, <1>3, <1>4, RootIndex
<1>6. Top(t).node \in Memos BY <1>2, <1>3 DEF FrameOK, GetOK
<1> QED BY <1>1, <1>2, <1>5, <1>6, PopStep DEF StateInv

-----------------------------------------------------------------------------
(* The frames after a step *)

LEMMA EnteredFrames ==
  ASSUME NEW t \in Threads, NEW h, Entered(t, h), NEW u \in Threads, NEW i \in 1..Depth(u)'
  PROVE  \/ u = t /\ i = 1 /\ Depth(u)' = 1 /\ stack'[u][i] = h
         \/ u # t /\ i \in 1..Depth(u) /\ stack'[u][i] = stack[u][i] /\ Depth(u)' = Depth(u)
BY DEF Entered, OthersKept, Depth

LEMMA ReplacedFrames ==
  ASSUME NEW t \in Threads, NEW h, Replaced(t, h), NEW u \in Threads, NEW i \in 1..Depth(u)'
  PROVE  /\ Depth(u)' = Depth(u) /\ i \in 1..Depth(u)
         /\ \/ u = t /\ i = Depth(t) /\ stack'[u][i] = h
            \/ ~(u = t /\ i = Depth(t)) /\ stack'[u][i] = stack[u][i]
BY DEF Replaced, OthersKept, Depth

LEMMA CalledFrames ==
  ASSUME NEW t \in Threads, NEW h, NEW g, Called(t, h, g), NEW u \in Threads,
         NEW i \in 1..Depth(u)'
  PROVE  \/ u = t /\ i = Depth(t) + 1 /\ i = Depth(u)' /\ stack'[u][i] = g
         \/ u = t /\ i = Depth(t) /\ i # Depth(u)' /\ stack'[u][i] = h
         \/ u = t /\ i # Depth(t) /\ i \in 1..Depth(t) /\ i # Depth(u)'
            /\ stack'[u][i] = stack[u][i]
         \/ u # t /\ i \in 1..Depth(u) /\ stack'[u][i] = stack[u][i] /\ Depth(u)' = Depth(u)
<1>1. CASE u # t BY <1>1 DEF Called, OthersKept, Depth
<1>2. CASE u = t
  <2>1. /\ Depth(t) \in Nat /\ Depth(t)' = Depth(t) + 1
        /\ stack'[t][Depth(t)] = h /\ stack'[t][Depth(t) + 1] = g
        /\ \A j \in 1..Depth(t) : j # Depth(t) => stack'[t][j] = stack[t][j]
    BY DEF Called
  <2>2. i \in 1..(Depth(t) + 1) BY <1>2, <2>1
  <2> QED BY <1>2, <2>1, <2>2
<1> QED BY <1>1, <1>2

LEMMA PoppedFrames ==
  ASSUME NEW t \in Threads, Popped(t), NEW u \in Threads, NEW i \in 1..Depth(u)'
  PROVE  /\ i \in 1..Depth(u) /\ stack'[u][i] = stack[u][i]
         /\ \/ u = t /\ i # Depth(u) /\ (i = Depth(u)' <=> i = Depth(u) - 1)
            \/ u # t /\ Depth(u)' = Depth(u)
<1>1. CASE u # t BY <1>1 DEF Popped, OthersKept, Depth
<1>2. CASE u = t
  <2>1. /\ Depth(t) \in Nat /\ Depth(t)' = Depth(t) - 1
        /\ \A j \in 1..(Depth(t) - 1) : stack'[t][j] = stack[t][j]
    BY DEF Popped
  <2>2. i \in 1..(Depth(t) - 1) BY <1>2, <2>1
  <2> QED BY <1>2, <2>1, <2>2
<1> QED BY <1>1, <1>2

LEMMA ReturnedFrames ==
  ASSUME NEW t \in Threads, NEW h, Returned(t, h), NEW u \in Threads, NEW i \in 1..Depth(u)'
  PROVE  /\ i \in 1..Depth(u)
         /\ \/ u = t /\ i = Depth(t) - 1 /\ i = Depth(u)' /\ stack'[u][i] = h
            \/ /\ u = t /\ i \in 1..(Depth(t) - 1) /\ i # Depth(t) - 1 /\ i # Depth(u)'
               /\ stack'[u][i] = stack[u][i]
            \/ u # t /\ Depth(u)' = Depth(u) /\ stack'[u][i] = stack[u][i]
<1>1. CASE u # t BY <1>1 DEF Returned, OthersKept, Depth
<1>2. CASE u = t
  <2>1. /\ Depth(t) \in Nat /\ Depth(t)' = Depth(t) - 1 /\ stack'[t][Depth(t) - 1] = h
        /\ \A j \in 1..(Depth(t) - 1) : j # Depth(t) - 1 => stack'[t][j] = stack[t][j]
    BY DEF Returned
  <2>2. i \in 1..(Depth(t) - 1) BY <1>2, <2>1
  <2> QED BY <1>2, <2>1, <2>2
<1> QED BY <1>1, <1>2

-----------------------------------------------------------------------------
(* The invariant of the values *)

NatKept == \A x \in Sources : value[x] \in Nat => value'[x] \in Nat

Good(f, top, gs) == Known(f, top) /\ Unguarded(f, gs)
OwnOK(t) == \A i \in 1..Depth(t) : Good(stack[t][i], i = Depth(t), guards[t])

LEMMA GoodNow ==
  ASSUME GraphInv, NEW t \in Threads
  PROVE  /\ OwnOK(t) /\ \A i \in 1..Depth(t) : FrameOK(stack[t][i])
         /\ \A m \in guards[t] : value[m] \in Nat
         /\ Depth(t) \in Nat
BY DEF GraphInv, ValueInv, GuardInv, OwnOK, Good, StackInv, StackOK, Depth

\* A frame that is kept stays good.
LEMMA GoodKept ==
  ASSUME NEW f, FrameOK(f), NEW top \in BOOLEAN, NEW gs, Good(f, top, gs), NatKept
  PROVE  Good(f, top, gs)' /\ Good(f, FALSE, gs)'
<1>1. f.op = "update" \/ f.op = "get" => f.node \in Sources
  BY DEF FrameOK, UpdateOK, GetOK, Sources
<1>2. f.op = "run" /\ f.pc = "read" => NextRead(f) \in Sources
  <2> HAVE f.op = "run" /\ f.pc = "read"
  <2>1. f \in Frames /\ RunOK(f) BY DEF FrameOK
  <2> QED BY <2>1, NextReadFacts
<1>3. NextRead(f)' = NextRead(f) BY DEF NextRead
<1> QED BY <1>1, <1>2, <1>3 DEF Good, Known, Unguarded, NatKept

LEMMA InvStep ==
  ASSUME GraphInv, NEW t \in Threads, OthersKept(t), StateInv', StackInv', NatKept,
         \A m \in Memos : state'[m] # "Dirty" => value'[m] \in Nat,
         \A u \in Threads : u # t => guards'[u] = guards[u],
         \A m \in guards'[t] : value'[m] \in Nat,
         OwnOK(t)'
  PROVE  GraphInv'
<1>1. ASSUME NEW u \in Threads PROVE OwnOK(u)' /\ \A m \in guards'[u] : value'[m] \in Nat
  <2>1. CASE u = t BY <2>1
  <2>2. CASE u # t
    <3>1. stack'[u] = stack[u] /\ guards'[u] = guards[u] /\ guards[u] \subseteq Sources
      BY <2>2 DEF OthersKept, GraphInv, StateInv, Sources
    <3>2. /\ OwnOK(u) /\ \A i \in 1..Depth(u) : FrameOK(stack[u][i])
          /\ \A m \in guards[u] : value[m] \in Nat
      BY GoodNow
    <3>3. ASSUME NEW i \in 1..Depth(u)'
          PROVE  Good(stack[u][i], i = Depth(u), guards[u])'
      <4> DEFINE f == stack[u][i]
                 gs == guards[u]
                 top == i = Depth(u)
      <4>1. FrameOK(f) /\ Good(f, top, gs) /\ top \in BOOLEAN BY <3>1, <3>2 DEF OwnOK, Depth
      <4>2. f' = f /\ gs' = gs /\ top' = top BY <3>1 DEF Depth
      <4> HIDE DEF f, gs, top
      <4>3. (\A x \in {f} : \A b \in {top} : \A s \in {gs} : Good(x, b, s)')
        BY <4>1, GoodKept
      <4>4. Good(f, top, gs)' BY <4>2, <4>3 DEF Good, Known, Unguarded, NextRead
      <4> QED BY <4>4 DEF f, gs, top
    <3>4. OwnOK(u)' BY <3>3 DEF OwnOK
    <3> QED BY <3>1, <3>2, <3>4 DEF NatKept
  <2> QED BY <2>1, <2>2
<1>2. ValueInv' BY <1>1 DEF ValueInv, OwnOK, Good, Depth
<1>3. GuardInv' BY <1>1 DEF GuardInv, OwnOK, Good, Depth
<1> QED BY <1>2, <1>3 DEF GraphInv

LEMMA KeptOwn ==
  ASSUME GraphInv, NEW t \in Threads, NatKept, guards'[t] = guards[t],
         NEW i \in 1..Depth(t), stack'[t][i] = stack[t][i], i = Depth(t)' => i = Depth(t)
  PROVE  Good(stack[t][i], i = Depth(t), guards[t])'
<1> DEFINE f == stack[t][i]
           gs == guards[t]
           top == i = Depth(t)
<1>1. FrameOK(f) /\ Good(f, top, gs) /\ top \in BOOLEAN BY GoodNow DEF OwnOK
<1>2. f' = f /\ gs' = gs /\ (top' = top \/ top' = FALSE) OBVIOUS
<1> HIDE DEF f, gs, top
<1>3. \A x \in {f} : \A b \in {top} : \A s \in {gs} : Good(x, b, s)' /\ Good(x, FALSE, s)'
  BY <1>1, GoodKept
<1>4. Good(f, top, gs)' BY <1>2, <1>3 DEF Good, Known, Unguarded, NextRead
<1> QED BY <1>4 DEF f, gs, top

LEMMA OwnReplaced ==
  ASSUME GraphInv, NEW t \in Threads, NatKept, guards'[t] = guards[t], NEW h, Replaced(t, h),
         Good(h, TRUE, guards[t])'
  PROVE  OwnOK(t)'
<1>1. ASSUME NEW i \in 1..Depth(t)' PROVE Good(stack[t][i], i = Depth(t), guards[t])'
  <2>1. Depth(t)' = Depth(t) /\ i \in 1..Depth(t) BY ReplacedFrames
  <2>2. CASE i = Depth(t) /\ stack'[t][i] = h BY <2>1, <2>2 DEF Good, Known, Unguarded, NextRead
  <2>3. CASE i # Depth(t) /\ stack'[t][i] = stack[t][i] BY <2>1, <2>3, KeptOwn
  <2> QED BY <2>2, <2>3, ReplacedFrames
<1> QED BY <1>1 DEF OwnOK

LEMMA OwnCalled ==
  ASSUME GraphInv, NEW t \in Threads, NatKept, guards'[t] = guards[t], NEW h, NEW g,
         Called(t, h, g), Good(h, FALSE, guards[t])', Good(g, TRUE, guards[t])'
  PROVE  OwnOK(t)'
<1>1. ASSUME NEW i \in 1..Depth(t)' PROVE Good(stack[t][i], i = Depth(t), guards[t])'
  <2>1. CASE i = Depth(t)' /\ stack'[t][i] = g BY <2>1 DEF Good, Known, Unguarded, NextRead
  <2>2. CASE i # Depth(t)' /\ stack'[t][i] = h BY <2>2 DEF Good, Known, Unguarded, NextRead
  <2>3. CASE i # Depth(t)' /\ i \in 1..Depth(t) /\ stack'[t][i] = stack[t][i] BY <2>3, KeptOwn
  <2> QED BY <2>1, <2>2, <2>3, CalledFrames
<1> QED BY <1>1 DEF OwnOK

LEMMA OwnReturned ==
  ASSUME GraphInv, NEW t \in Threads, NatKept, guards'[t] = guards[t], NEW h, Returned(t, h),
         Good(h, TRUE, guards[t])'
  PROVE  OwnOK(t)'
<1>1. ASSUME NEW i \in 1..Depth(t)' PROVE Good(stack[t][i], i = Depth(t), guards[t])'
  <2>1. CASE i = Depth(t)' /\ stack'[t][i] = h BY <2>1 DEF Good, Known, Unguarded, NextRead
  <2>2. CASE i # Depth(t)' /\ stack'[t][i] = stack[t][i]
    <3>1. i \in 1..Depth(t) BY ReturnedFrames
    <3> QED BY <2>2, <3>1, KeptOwn
  <2> QED BY <2>1, <2>2, ReturnedFrames
<1> QED BY <1>1 DEF OwnOK

LEMMA OwnPopped ==
  ASSUME GraphInv, NEW t \in Threads, NatKept, guards'[t] = guards[t], Popped(t),
         Depth(t) = 1 \/ Below(t).op = "task" \/ (Below(t).op = "update" /\ Below(t).pc = "changed")
  PROVE  OwnOK(t)'
<1>1. ASSUME NEW i \in 1..Depth(t)' PROVE Good(stack[t][i], i = Depth(t), guards[t])'
  <2>1. i \in 1..Depth(t) /\ stack'[t][i] = stack[t][i] /\ i # Depth(t)
        /\ (i = Depth(t)' <=> i = Depth(t) - 1)
    BY PoppedFrames
  <2>2. CASE i # Depth(t)' BY <2>1, <2>2, KeptOwn
  <2>3. CASE i = Depth(t)'
    <3>1. i = Depth(t) - 1 /\ Depth(t) # 1 BY <2>1, <2>3
    <3> DEFINE f == stack[t][i]
               gs == guards[t]
    <3>2. f = Below(t) /\ FrameOK(f) /\ Good(f, FALSE, gs) BY <2>1, <3>1, GoodNow DEF Below, OwnOK
    <3>3. f' = f /\ gs' = gs BY <2>1
    <3>4. f.op = "task" \/ (f.op = "update" /\ f.pc = "changed") BY <3>1, <3>2
    <3> HIDE DEF f, gs
    <3>5. \A x \in {f} : \A s \in {gs} : Good(x, FALSE, s)' BY <3>2, GoodKept
    <3>6. Good(f, TRUE, gs)' BY <3>3, <3>4, <3>5 DEF Good, Known, Unguarded
    <3> QED BY <2>3, <3>6 DEF f, gs
  <2> QED BY <2>2, <2>3
<1> QED BY <1>1 DEF OwnOK

LEMMA OwnEntered ==
  ASSUME NEW t \in Threads, NEW h, Entered(t, h), h.op \in {"mark", "task"}
  PROVE  OwnOK(t)'
<1>1. ASSUME NEW i \in 1..Depth(t)' PROVE Good(stack[t][i], i = Depth(t), guards[t])'
  <2>1. stack'[t][i] = h BY EnteredFrames
  <2> QED BY <2>1 DEF Good, Known, Unguarded
<1> QED BY <1>1 DEF OwnOK

\* The answer of an update is known to the caller.
LEMMA OwnAnswered ==
  ASSUME GraphInv, NEW t \in Threads, NatKept, guards'[t] = guards[t], NEW ret, Answered(t, ret),
         Top(t).op = "update", Calls(Below(t), Top(t)), FrameOK(Below(t)),
         value'[Top(t).node] \in Nat
  PROVE  OwnOK(t)'
<1> DEFINE b == Below(t)
           f == Top(t)
           gs == guards[t]
<1>1. PICK h : Returned(t, h) /\ Is(h, b.op, b.node, b.pc, b.todo, b.vals, ret) BY DEF Answered
<1>2. Good(b, FALSE, gs)
  <2>1. Depth(t) - 1 \in 1..Depth(t) BY <1>1 DEF Returned
  <2>2. Good(b, Depth(t) - 1 = Depth(t), gs) BY <2>1, GoodNow DEF OwnOK, Below
  <2> QED BY <2>2 DEF Good, Known
<1>3. \A x \in {b} : \A s \in {gs} : Good(x, FALSE, s)' BY <1>2, GoodKept
<1>4. NextRead(h) = NextRead(b) /\ NextRead(h)' = NextRead(h) BY <1>1 DEF NextRead, Is
<1> HIDE DEF b, gs
<1>5. Good(h, TRUE, gs)'
  <2>1. b.op = "get" => value'[b.node] \in Nat BY DEF Calls, b
  <2>2. b.op = "run" => value'[NextRead(b)] \in Nat BY DEF Calls, b
  <2>3. gs' = gs BY DEF gs
  <2> QED BY <1>1, <1>3, <1>4, <2>1, <2>2, <2>3 DEF Good, Known, Unguarded, Is
<1> QED BY <1>1, <1>5, OwnReturned DEF gs

LEMMA StackOnly ==
  ASSUME GraphInv, NEW t \in Threads, OthersKept(t), StackInv',
         UNCHANGED <<graph, effects, seen, guards>>
  PROVE  /\ StateInv' /\ NatKept /\ guards'[t] = guards[t]
         /\ (OwnOK(t)' => GraphInv')
<1>1. StateInv' BY DEF GraphInv, StateInv, OthersKept, graph, effects
<1>2. NatKept /\ guards'[t] = guards[t] BY DEF NatKept, graph
<1>3. OwnOK(t)' => GraphInv'
  <2> HAVE OwnOK(t)'
  <2>1. \A m \in Memos : state'[m] # "Dirty" => value'[m] \in Nat
    BY DEF GraphInv, ValueInv, graph
  <2>2. /\ \A u \in Threads : u # t => guards'[u] = guards[u]
        /\ \A m \in guards'[t] : value'[m] \in Nat
    BY DEF GraphInv, ValueInv, graph
  <2> QED BY <1>1, <1>2, <2>1, <2>2, InvStep
<1> QED BY <1>1, <1>2, <1>3

\* What the top frame satisfies.
LEMMA GoodTop ==
  ASSUME GraphInv, NEW t \in Threads, ~Idle(t)
  PROVE  Good(Top(t), TRUE, guards[t])
<1>1. Depth(t) \in Nat /\ Depth(t) > 0 /\ Top(t) = stack[t][Depth(t)] BY TopFacts DEF GraphInv
<1>2. Good(stack[t][Depth(t)], Depth(t) = Depth(t), guards[t]) BY <1>1, GoodNow DEF OwnOK
<1> QED BY <1>1, <1>2

\* The caller of the running call.
LEMMA CallerFacts ==
  ASSUME StackInv, NEW t \in Threads, ~Idle(t), Depth(t) # 1
  PROVE  Calls(Below(t), Top(t)) /\ FrameOK(Below(t)) /\ Depth(t) - 1 \in 1..Depth(t)
<1>1. /\ StackOK(stack[t]) /\ Depth(t) \in Nat /\ Depth(t) > 0 /\ Top(t) = stack[t][Depth(t)]
  BY TopFacts
<1>2. Depth(t) - 1 \in 1..Depth(t) /\ Depth(t) - 1 < Depth(t) /\ Depth(t) - 1 + 1 = Depth(t)
  BY <1>1
<1> QED BY <1>1, <1>2 DEF StackOK, Below, Depth

LEMMA SetInv ==
  ASSUME GraphInv, NEW t \in Threads, NEW s \in Signals, Set(t, s)
  PROVE  GraphInv'
<1>1. StackInv' /\ \E h : Entered(t, h) /\ Is(h, "mark", s, "clone", <<>>, <<>>, FALSE)
  BY SetShape DEF GraphInv
<1>2. OwnOK(t)' /\ OthersKept(t) BY <1>1, OwnEntered DEF Is, Entered
<1>3. /\ value' = [value EXCEPT ![s] = value[s] + 1]
      /\ UNCHANGED <<state, sources, subs, rlock, effects, seen, guards>>
  BY DEF Set
<1>4. value[s] \in Nat /\ value[s] + 1 \in Nat /\ s \in Sources
  BY DEF GraphInv, StateInv, Sources
<1>5. /\ value' \in [Sources -> Nat \cup {NoValue}] /\ \A x \in Signals : value'[x] \in Nat
      /\ NatKept
  BY <1>3, <1>4 DEF GraphInv, StateInv, NatKept
<1>6. StateInv' BY <1>2, <1>3, <1>5 DEF GraphInv, StateInv, OthersKept, effects
<1>7. \A m \in Memos : state'[m] # "Dirty" => value'[m] \in Nat
  BY <1>3, <1>5 DEF GraphInv, ValueInv, NatKept, Sources
<1>8. \A m \in guards'[t] : value'[m] \in Nat
  BY <1>3, <1>5 DEF GraphInv, StateInv, ValueInv, NatKept, Sources
<1> QED BY <1>1, <1>2, <1>3, <1>5, <1>6, <1>7, <1>8, InvStep

LEMMA CloneInv ==
  ASSUME GraphInv, NEW t \in Threads, CloneSubscribers(t)
  PROVE  GraphInv'
<1>1. StackInv' /\ \E h : Replaced(t, h) /\ h.op = "mark" BY CloneShape DEF GraphInv, Is
<1>2. PICK h : Replaced(t, h) /\ h.op = "mark" BY <1>1
<1>3. UNCHANGED <<graph, effects, seen, guards>> BY DEF CloneSubscribers
<1>4. OthersKept(t) BY <1>2 DEF Replaced
<1>5. NatKept /\ guards'[t] = guards[t] /\ (OwnOK(t)' => GraphInv')
  BY <1>1, <1>3, <1>4, StackOnly
<1>6. Good(h, TRUE, guards[t])' BY <1>2 DEF Good, Known, Unguarded
<1>7. OwnOK(t)' BY <1>2, <1>5, <1>6, OwnReplaced
<1> QED BY <1>5, <1>7

LEMMA MarkMemoInv ==
  ASSUME GraphInv, NEW t \in Threads, MarkMemo(t)
  PROVE  GraphInv'
<1> DEFINE f == Top(t)
           m == Head(f.todo)[1]
           how == Head(f.todo)[2]
<1>1. /\ StackInv' /\ m \in Memos /\ \E h : Replaced(t, h) /\ h.op = "mark"
  BY MarkMemoShape DEF GraphInv, Is
<1>2. PICK h : Replaced(t, h) /\ h.op = "mark" BY <1>1
<1>3. /\ state' = [state EXCEPT ![m] = Marked(m, how)]
      /\ UNCHANGED <<value, sources, subs, rlock, effects, seen, guards>>
  BY DEF MarkMemo
<1> HIDE DEF m, how
<1>4. OthersKept(t) BY <1>2 DEF Replaced
<1>5. Marked(m, how) \in {"Check", "Dirty"} /\ (Marked(m, how) # "Dirty" => state[m] # "Dirty")
  BY DEF Marked
<1>6. StateInv' BY <1>1, <1>3, <1>4, <1>5 DEF GraphInv, StateInv, OthersKept, effects
<1>7. NatKept BY <1>3 DEF NatKept
<1>8. \A x \in Memos : state'[x] # "Dirty" => value'[x] \in Nat
  <2> TAKE x \in Memos
  <2>1. state'[x] # "Dirty" => state[x] # "Dirty"
    <3>1. state'[x] = IF x = m THEN Marked(m, how) ELSE state[x]
      BY <1>1, <1>3 DEF GraphInv, StateInv
    <3> QED BY <3>1, <1>5
  <2> QED BY <2>1, <1>3 DEF GraphInv, ValueInv
<1>9. Good(h, TRUE, guards[t])' BY <1>2 DEF Good, Known, Unguarded
<1>10. OwnOK(t)' BY <1>2, <1>3, <1>7, <1>9, OwnReplaced
<1>11. \A x \in guards'[t] : value'[x] \in Nat BY <1>3 DEF GraphInv, ValueInv
<1> QED BY <1>1, <1>3, <1>4, <1>6, <1>7, <1>8, <1>10, <1>11, InvStep

\* The actions of effects' tasks and marks leave the memos alone.
LEMMA EffectsOnly ==
  ASSUME GraphInv, NEW t \in Threads, OthersKept(t), StackInv',
         UNCHANGED <<value, state, rlock, guards>>,
         /\ sources' \in [Subscribers -> Seq(Sources)]
         /\ \A n \in Subscribers : sources'[n] \in Seq(ToSet(Reads[n])),
         subs' \in [Sources -> Seq(Subscribers)],
         dirty' \in [Effects -> BOOLEAN], notified' \in [Effects -> BOOLEAN],
         first' \in [Effects -> BOOLEAN], paused' \in [Effects -> BOOLEAN],
         missed' \in [Effects -> BOOLEAN], seen' \in [Subscribers -> Seq(Nat)]
  PROVE  NatKept /\ guards'[t] = guards[t] /\ (OwnOK(t)' => GraphInv')
<1>1. StateInv' BY DEF GraphInv, StateInv, OthersKept
<1>2. NatKept /\ guards'[t] = guards[t] BY DEF NatKept
<1>3. OwnOK(t)' => GraphInv'
  <2> HAVE OwnOK(t)'
  <2>1. \A m \in Memos : state'[m] # "Dirty" => value'[m] \in Nat
    BY DEF GraphInv, ValueInv
  <2>2. /\ \A u \in Threads : u # t => guards'[u] = guards[u]
        /\ \A m \in guards'[t] : value'[m] \in Nat
    BY DEF GraphInv, ValueInv
  <2> QED BY <1>1, <1>2, <2>1, <2>2, InvStep
<1> QED BY <1>2, <1>3

LEMMA MarkEffectInv ==
  ASSUME GraphInv, NEW t \in Threads, MarkEffect(t)
  PROVE  GraphInv'
<1> DEFINE e == Head(Top(t).todo)[1]
           how == Head(Top(t).todo)[2]
<1>1. /\ StackInv' /\ e \in Effects /\ \E h : Replaced(t, h) /\ h.op = "mark"
  BY MarkEffectShape DEF GraphInv, Is
<1>2. PICK h : Replaced(t, h) /\ h.op = "mark" BY <1>1
<1>3. /\ dirty' = [dirty EXCEPT ![e] = dirty[e] \/ how = "dirty"]
      /\ notified' = [notified EXCEPT ![e] = notified[e] \/ Notifies(how)]
      /\ UNCHANGED <<graph, first, paused, missed, seen, guards>>
  BY DEF MarkEffect
<1> HIDE DEF e, how
<1>4. OthersKept(t) BY <1>2 DEF Replaced
<1>5. dirty' \in [Effects -> BOOLEAN] /\ notified' \in [Effects -> BOOLEAN]
  BY <1>1, <1>3 DEF GraphInv, StateInv, Notifies
<1>6. NatKept /\ guards'[t] = guards[t] /\ (OwnOK(t)' => GraphInv')
  BY <1>1, <1>3, <1>4, <1>5, EffectsOnly DEF GraphInv, StateInv, graph
<1>7. Good(h, TRUE, guards[t])' BY <1>2 DEF Good, Known, Unguarded
<1>8. OwnOK(t)' BY <1>2, <1>6, <1>7, OwnReplaced
<1> QED BY <1>6, <1>8

LEMMA MarkDoneInv ==
  ASSUME GraphInv, NEW t \in Threads, MarkDone(t)
  PROVE  GraphInv'
<1>1. StackInv' /\ At(t, "mark", "mark") /\ Popped(t) BY MarkDoneShape DEF GraphInv
<1>2. UNCHANGED <<graph, effects, seen, guards>> /\ OthersKept(t) BY <1>1 DEF MarkDone, Popped
<1>3. NatKept /\ guards'[t] = guards[t] /\ (OwnOK(t)' => GraphInv') BY <1>1, <1>2, StackOnly
<1>4. Depth(t) # 1 => Calls(Below(t), Top(t)) BY <1>1, CallerFacts DEF At, GraphInv
<1>5. Depth(t) # 1 => Below(t).op = "task" \/ (Below(t).op = "update" /\ Below(t).pc = "changed")
  BY <1>1, <1>4 DEF Calls, At
<1>6. OwnOK(t)' BY <1>1, <1>3, <1>5, OwnPopped
<1> QED BY <1>3, <1>6

LEMMA NeedsUpdateInv ==
  ASSUME GraphInv, NEW t \in Threads, NeedsUpdate(t)
  PROVE  GraphInv'
<1> DEFINE m == Top(t).node
<1>1. /\ StackInv' /\ m \in Memos
      /\ \E h : Replaced(t, h) /\ h.op = "update" /\ h.node = m /\ h.pc = Needed(m)
  BY NeedsUpdateShape DEF GraphInv, Is
<1>2. PICK h : Replaced(t, h) /\ h.op = "update" /\ h.node = m /\ h.pc = Needed(m) BY <1>1
<1>3. UNCHANGED <<graph, effects, seen, guards>> /\ OthersKept(t)
  BY <1>2 DEF NeedsUpdate, Replaced
<1>4. NatKept /\ guards'[t] = guards[t] /\ (OwnOK(t)' => GraphInv') BY <1>1, <1>3, StackOnly
<1> HIDE DEF m
<1>5. Good(h, TRUE, guards[t])'
  <2>1. state[m] \in {"Clean", "Check", "Dirty"} BY <1>1 DEF GraphInv, StateInv
  <2>2. Needed(m) \in {"clean", "begin", "sources"} /\ (Needed(m) # "begin" => state[m] # "Dirty")
    BY <2>1 DEF Needed
  <2>3. Needed(m) # "begin" => value'[m] \in Nat
    BY <1>1, <1>3, <2>2 DEF GraphInv, ValueInv, graph
  <2> QED BY <1>2, <2>2, <2>3 DEF Good, Known, Unguarded
<1>6. OwnOK(t)' BY <1>2, <1>4, <1>5, OwnReplaced
<1> QED BY <1>4, <1>6

LEMMA CheckSourceInv ==
  ASSUME GraphInv, NEW t \in Threads, CheckSource(t)
  PROVE  GraphInv'
<1> DEFINE m == Top(t).node
<1>1. /\ StackInv' /\ At(t, "update", "sources")
      /\ \/ \E h : Replaced(t, h) /\ h.op = "update" /\ h.node = m /\ h.pc \in {"clean", "own"}
         \/ \E h, g : /\ Called(t, h, g) /\ h.op = "update" /\ h.node = m /\ h.pc = "own"
                      /\ g.op = "update" /\ g.pc = "state"
  BY CheckSourceShape, ZenonT(60) DEF GraphInv, Is
<1>2. UNCHANGED <<graph, effects, seen, guards>> /\ OthersKept(t)
  BY <1>1 DEF CheckSource, Replaced, Called
<1>3. NatKept /\ guards'[t] = guards[t] /\ (OwnOK(t)' => GraphInv') BY <1>1, <1>2, StackOnly
<1>4. value'[m] \in Nat
  <2>1. Good(Top(t), TRUE, guards[t]) BY <1>1, GoodTop DEF At
  <2> QED BY <1>1, <1>2, <2>1 DEF Good, Known, At, graph
<1> HIDE DEF m
<1>5. CASE \E h : Replaced(t, h) /\ h.op = "update" /\ h.node = m /\ h.pc \in {"clean", "own"}
  <2>1. PICK h : Replaced(t, h) /\ h.op = "update" /\ h.node = m /\ h.pc \in {"clean", "own"}
    BY <1>5
  <2>2. Good(h, TRUE, guards[t])' BY <2>1, <1>4 DEF Good, Known, Unguarded
  <2>3. OwnOK(t)' BY <1>3, <2>1, <2>2, OwnReplaced
  <2> QED BY <1>3, <2>3
<1>6. CASE \E h, g : /\ Called(t, h, g) /\ h.op = "update" /\ h.node = m /\ h.pc = "own"
                     /\ g.op = "update" /\ g.pc = "state"
  <2>1. PICK h, g : /\ Called(t, h, g) /\ h.op = "update" /\ h.node = m /\ h.pc = "own"
                    /\ g.op = "update" /\ g.pc = "state"
    BY <1>6
  <2>2. Good(h, FALSE, guards[t])' /\ Good(g, TRUE, guards[t])'
    BY <2>1, <1>4 DEF Good, Known, Unguarded
  <2>3. OwnOK(t)' BY <1>3, <2>1, <2>2, OwnCalled
  <2> QED BY <1>3, <2>3
<1> QED BY <1>1, <1>5, <1>6

LEMMA CheckOwnInv ==
  ASSUME GraphInv, NEW t \in Threads, CheckOwn(t)
  PROVE  GraphInv'
<1> DEFINE m == Top(t).node
<1>1. /\ StackInv' /\ At(t, "update", "own")
      /\ \E h : Replaced(t, h) /\ h.op = "update" /\ h.node = m /\ h.pc \in {"begin", "sources"}
  <2> DEFINE pc == IF ChangedOrDirty(Top(t)) THEN "begin" ELSE "sources"
  <2>1. pc \in {"begin", "sources"} OBVIOUS
  <2>2. /\ StackInv' /\ At(t, "update", "own")
        /\ \E h : Replaced(t, h) /\ h.op = "update" /\ h.node = m /\ h.pc = pc
    BY CheckOwnShape DEF GraphInv, Is
  <2> HIDE DEF pc
  <2> QED BY <2>1, <2>2
<1>2. PICK h : Replaced(t, h) /\ h.op = "update" /\ h.node = m /\ h.pc \in {"begin", "sources"}
  BY <1>1
<1>3. UNCHANGED <<graph, effects, seen, guards>> /\ OthersKept(t)
  BY <1>2 DEF CheckOwn, Replaced
<1>4. NatKept /\ guards'[t] = guards[t] /\ (OwnOK(t)' => GraphInv') BY <1>1, <1>3, StackOnly
<1>5. value'[m] \in Nat
  <2>1. Good(Top(t), TRUE, guards[t]) BY <1>1, GoodTop DEF At
  <2> QED BY <1>1, <1>3, <2>1 DEF Good, Known, At, graph
<1>6. Good(h, TRUE, guards[t])' BY <1>2, <1>5 DEF Good, Known, Unguarded
<1>7. OwnOK(t)' BY <1>2, <1>4, <1>6, OwnReplaced
<1> QED BY <1>4, <1>7

LEMMA AnsweredKept ==
  ASSUME NEW t \in Threads, NEW ret, Answered(t, ret) PROVE OthersKept(t)
BY DEF Answered, Returned

LEMMA SetCleanInv ==
  ASSUME GraphInv, NEW t \in Threads, SetClean(t)
  PROVE  GraphInv'
<1> DEFINE m == Top(t).node
<1>1. /\ StackInv' /\ At(t, "update", "clean") /\ m \in Memos
      /\ Calls(Below(t), Top(t)) /\ FrameOK(Below(t)) /\ Answered(t, FALSE)
  BY SetCleanShape DEF GraphInv
<1>2. OthersKept(t) BY <1>1, AnsweredKept
<1>3. /\ state' = [state EXCEPT ![m] = "Clean"]
      /\ UNCHANGED <<value, sources, subs, rlock, effects, seen, guards>>
  BY DEF SetClean
<1>4. value'[m] \in Nat
  <2>1. Good(Top(t), TRUE, guards[t]) BY <1>1, GoodTop DEF At
  <2> QED BY <1>1, <1>3, <2>1 DEF Good, Known, At
<1>5. StateInv' BY <1>1, <1>2, <1>3 DEF GraphInv, StateInv, OthersKept, effects
<1>6. NatKept BY <1>3 DEF NatKept
<1>7. OwnOK(t)' BY <1>1, <1>3, <1>4, <1>6, OwnAnswered DEF At
<1>8. \A x \in Memos : state'[x] # "Dirty" => value'[x] \in Nat
  BY <1>1, <1>3, <1>4 DEF GraphInv, StateInv, ValueInv
<1>9. \A x \in guards'[t] : value'[x] \in Nat BY <1>3 DEF GraphInv, ValueInv
<1> QED BY <1>1, <1>2, <1>3, <1>5, <1>6, <1>7, <1>8, <1>9, InvStep

LEMMA ReturnChangedInv ==
  ASSUME GraphInv, NEW t \in Threads, ReturnChanged(t)
  PROVE  GraphInv'
<1>1. /\ StackInv' /\ At(t, "update", "changed")
      /\ Calls(Below(t), Top(t)) /\ FrameOK(Below(t)) /\ Answered(t, TRUE)
  BY ReturnChangedShape DEF GraphInv
<1>2. OthersKept(t) /\ UNCHANGED <<graph, effects, seen, guards>>
  BY <1>1, AnsweredKept DEF ReturnChanged
<1>3. NatKept /\ guards'[t] = guards[t] /\ (OwnOK(t)' => GraphInv') BY <1>1, <1>2, StackOnly
<1>4. value'[Top(t).node] \in Nat
  <2>1. Good(Top(t), TRUE, guards[t]) BY <1>1, GoodTop DEF At
  <2> QED BY <1>1, <1>2, <2>1 DEF Good, Known, At, graph
<1>5. OwnOK(t)' BY <1>1, <1>3, <1>4, OwnAnswered DEF At
<1> QED BY <1>3, <1>5

\* A memo whose value the thread is using when it asks for an update has one: no memo is
\* computed on the way to its own update.
LEMMA ReadingByGuard ==
  ASSUME StackInv, NEW t \in Threads, At(t, "update", "begin"), Reading(t, Top(t).node)
  PROVE  Top(t).node \in guards[t]
<1> SUFFICES ASSUME Top(t).node \notin guards[t] PROVE FALSE OBVIOUS
<1> DEFINE m == Top(t).node
           s == stack[t]
<1>1. /\ StackOK(s) /\ Depth(t) \in Nat /\ Depth(t) > 0 /\ Top(t) = s[Depth(t)]
      /\ s \in Seq(Frames) /\ m \in Memos
  BY TopFacts, UpdateTop DEF At
<1>2. PICK i \in 1..Len(s) : /\ s[i].op = "update" /\ s[i].node = m
                             /\ s[i].pc = "clear" \/ (s[i].pc = "commit" /\ i < Len(s))
  BY <1>1 DEF Reading
<1>3. i < Depth(t) BY <1>1, <1>2 DEF At, Depth
<1>4. Above(s[i], s[Depth(t)]) BY <1>1, <1>2, <1>3 DEF StackOK, Depth
<1>5. Rank[m] < Rank[m] BY <1>1, <1>2, <1>4 DEF Above, At
<1>6. Rank[m] \in Nat BY <1>1, RankFacts
<1> QED BY <1>5, <1>6

LEMMA BeginInv ==
  ASSUME GraphInv, NEW t \in Threads, Begin(t)
  PROVE  GraphInv'
<1> DEFINE m == Top(t).node
<1>1. /\ StackInv' /\ At(t, "update", "begin") /\ m \in Memos
      /\ Calls(Below(t), Top(t)) /\ FrameOK(Below(t))
      /\ \/ Reading(t, m) /\ Answered(t, FALSE)
         \/ /\ ~Reading(t, m)
            /\ \E h : Replaced(t, h) /\ h.op = "update" /\ h.node = m /\ h.pc = "clear"
  BY BeginShape DEF GraphInv, Is
<1>2. UNCHANGED <<graph, effects, seen, guards>> BY DEF Begin
<1>3. CASE Reading(t, m) /\ Answered(t, FALSE)
  <2>1. OthersKept(t) BY <1>3, AnsweredKept
  <2>2. NatKept /\ guards'[t] = guards[t] /\ (OwnOK(t)' => GraphInv')
    BY <1>1, <1>2, <2>1, StackOnly
  <2>3. m \in guards[t] BY <1>1, <1>3, ReadingByGuard DEF GraphInv
  <2>4. value'[m] \in Nat BY <1>2, <2>3 DEF GraphInv, ValueInv, graph
  <2>5. OwnOK(t)' BY <1>1, <1>3, <2>2, <2>4, OwnAnswered DEF At
  <2> QED BY <2>2, <2>5
<1>4. CASE ~Reading(t, m)
  <2>1. PICK h : Replaced(t, h) /\ h.op = "update" /\ h.node = m /\ h.pc = "clear"
    BY <1>1, <1>4
  <2>2. OthersKept(t) BY <2>1 DEF Replaced
  <2>3. NatKept /\ guards'[t] = guards[t] /\ (OwnOK(t)' => GraphInv')
    BY <1>1, <1>2, <2>2, StackOnly
  <2>4. m \notin guards[t] BY <1>4 DEF Reading
  <2>5. Good(h, TRUE, guards[t])' BY <2>1, <2>3, <2>4 DEF Good, Known, Unguarded
  <2>6. OwnOK(t)' BY <2>1, <2>3, <2>5, OwnReplaced
  <2> QED BY <2>3, <2>6
<1> QED BY <1>1, <1>3, <1>4

\* Clearing the sources of a subscriber keeps the sets sets.
LEMMA ClearSourcesTypes ==
  ASSUME StateInv, NEW n \in Subscribers, ClearSources(n)
  PROVE  /\ sources' \in [Subscribers -> Seq(Sources)]
         /\ \A x \in Subscribers : sources'[x] = IF x = n THEN <<>> ELSE sources[x]
         /\ \A x \in Subscribers : sources'[x] \in Seq(ToSet(Reads[x]))
         /\ subs' \in [Sources -> Seq(Subscribers)]
         /\ \A x \in Sources : subs'[x] = IF x \in ToSet(sources[n])
                                          THEN Unsubscribe(subs[x], n) ELSE subs[x]
<1>1. sources' = [sources EXCEPT ![n] = <<>>] BY DEF ClearSources
<1>2. /\ sources' \in [Subscribers -> Seq(Sources)]
      /\ \A x \in Subscribers : sources'[x] = IF x = n THEN <<>> ELSE sources[x]
  BY <1>1 DEF StateInv
<1>3. \A x \in Subscribers : sources'[x] \in Seq(ToSet(Reads[x]))
  BY <1>2, TodoTypes DEF StateInv
<1>4. subs' = [x \in Sources |-> IF x \in ToSet(sources[n])
                                 THEN Unsubscribe(subs[x], n) ELSE subs[x]]
  BY DEF ClearSources
<1>5. \A x \in Sources : subs[x] \in Seq(Subscribers) BY DEF StateInv
<1>6. \A x \in Sources : Unsubscribe(subs[x], n) \in Seq(Subscribers) BY <1>5, UnsubscribeSeq
<1> QED BY <1>2, <1>3, <1>4, <1>5, <1>6

LEMMA StartMemoInv ==
  ASSUME GraphInv, NEW t \in Threads, StartMemo(t)
  PROVE  GraphInv'
<1> DEFINE m == Top(t).node
<1>1. /\ StackInv' /\ At(t, "update", "clear") /\ m \in Memos
      /\ \E h, g : /\ Called(t, h, g) /\ h.op = "update" /\ h.node = m /\ h.pc = "commit"
                   /\ g.op = "run" /\ g.pc = "next"
  BY StartMemoShape, ZenonT(60) DEF GraphInv, Is
<1>2. PICK h, g : /\ Called(t, h, g) /\ h.op = "update" /\ h.node = m /\ h.pc = "commit"
                  /\ g.op = "run" /\ g.pc = "next"
  BY <1>1
<1>3. ClearSources(m) /\ UNCHANGED <<value, state, rlock, effects, seen, guards>>
  BY DEF StartMemo
<1>4. OthersKept(t) BY <1>2 DEF Called
<1>5. /\ sources' \in [Subscribers -> Seq(Sources)]
      /\ \A x \in Subscribers : sources'[x] \in Seq(ToSet(Reads[x]))
      /\ subs' \in [Sources -> Seq(Subscribers)]
  BY <1>1, <1>3, ClearSourcesTypes DEF GraphInv, Subscribers
<1>6. NatKept /\ guards'[t] = guards[t] /\ (OwnOK(t)' => GraphInv')
  BY <1>1, <1>3, <1>4, <1>5, EffectsOnly DEF GraphInv, StateInv, effects
<1>7. Good(h, FALSE, guards[t])' /\ Good(g, TRUE, guards[t])'
  <2>1. Good(Top(t), TRUE, guards[t]) BY <1>1, GoodTop DEF At
  <2>2. m \notin guards[t] BY <1>1, <2>1 DEF Good, Unguarded, At
  <2> QED BY <1>2, <1>6, <2>2 DEF Good, Known, Unguarded
<1>8. OwnOK(t)' BY <1>2, <1>6, <1>7, OwnCalled
<1> QED BY <1>6, <1>8

LEMMA LockMemoInv ==
  ASSUME GraphInv, NEW t \in Threads, LockMemo(t)
  PROVE  GraphInv'
<1> DEFINE m == Top(t).node
<1>1. /\ StackInv' /\ At(t, "update", "commit") /\ m \in Memos
      /\ \E h : Replaced(t, h) /\ h.op = "update" /\ h.node = m /\ h.pc = "value"
  BY LockMemoShape DEF GraphInv, Is
<1>2. PICK h : Replaced(t, h) /\ h.op = "update" /\ h.node = m /\ h.pc = "value" BY <1>1
<1>3. /\ rlock' = [rlock EXCEPT ![m] = t]
      /\ UNCHANGED <<value, state, sources, subs, effects, seen, guards>>
  BY DEF LockMemo
<1>4. OthersKept(t) BY <1>2 DEF Replaced
<1>5. StateInv' BY <1>1, <1>3, <1>4 DEF GraphInv, StateInv, OthersKept, effects
<1>6. NatKept BY <1>3 DEF NatKept
<1>7. Good(h, TRUE, guards[t])'
  <2>1. Good(Top(t), TRUE, guards[t]) BY <1>1, GoodTop DEF At
  <2>2. m \notin guards[t] BY <1>1, <2>1 DEF Good, Unguarded, At
  <2> QED BY <1>2, <1>3, <2>2 DEF Good, Known, Unguarded
<1>8. OwnOK(t)' BY <1>2, <1>3, <1>6, <1>7, OwnReplaced
<1>9. /\ \A x \in Memos : state'[x] # "Dirty" => value'[x] \in Nat
      /\ \A x \in guards'[t] : value'[x] \in Nat
  BY <1>3 DEF GraphInv, ValueInv
<1> QED BY <1>1, <1>3, <1>4, <1>5, <1>6, <1>8, <1>9, InvStep

LEMMA ComputeIsNat ==
  ASSUME NEW m \in Memos, NEW vals \in Seq(Nat) PROVE Compute(m, vals) \in Nat
<1> DEFINE sum == FoldSeq(LAMBDA x, y : x + y, 0, vals)
<1>1. sum \in Nat BY SumIsNat, Zenon
<1>2. Compute(m, vals) = IF m \in Coarse /\ sum > 1 THEN 1 ELSE sum BY Zenon DEF Compute
<1> HIDE DEF sum
<1> QED BY <1>1, <1>2

LEMMA CommitMemoInv ==
  ASSUME GraphInv, NEW t \in Threads, CommitMemo(t)
  PROVE  GraphInv'
<1> DEFINE f == Top(t)
           m == f.node
           v == Compute(m, f.vals)
<1>1. /\ StackInv' /\ At(t, "update", "value") /\ m \in Memos /\ f.vals \in Seq(Nat)
      /\ Calls(Below(t), f) /\ FrameOK(Below(t))
      /\ \/ Answered(t, FALSE)
         \/ \E h, g : /\ Called(t, h, g) /\ h.op = "update" /\ h.node = m /\ h.pc = "changed"
                      /\ g.op = "mark"
  BY CommitMemoShape, ZenonT(60) DEF GraphInv, Is
<1>2. /\ value' = [value EXCEPT ![m] = v] /\ state' = [state EXCEPT ![m] = "Clean"]
      /\ rlock' = [rlock EXCEPT ![m] = Nobody] /\ seen' = [seen EXCEPT ![m] = f.vals]
      /\ UNCHANGED <<sources, subs, effects, guards>>
  BY DEF CommitMemo
<1>3. v \in Nat BY <1>1, ComputeIsNat
<1>4. OthersKept(t) BY <1>1, AnsweredKept DEF Called
<1> HIDE DEF v
<1>5. /\ value' \in [Sources -> Nat \cup {NoValue}] /\ \A x \in Signals : value'[x] \in Nat
      /\ NatKept /\ value'[m] \in Nat
  <2>1. m \in Sources BY <1>1 DEF Sources
  <2> HIDE DEF m
  <2> QED BY <1>2, <1>3, <2>1 DEF GraphInv, StateInv, NatKept, Sources
<1>6. StateInv'
  <2>1. m \in Subscribers BY <1>1 DEF Subscribers
  <2>2. /\ state' \in [Memos -> {"Clean", "Check", "Dirty"}]
        /\ rlock' \in [Memos -> Threads \cup {Nobody}] /\ seen' \in [Subscribers -> Seq(Nat)]
    BY <1>1, <1>2, <2>1 DEF GraphInv, StateInv
  <2> QED BY <1>2, <1>4, <1>5, <2>2 DEF GraphInv, StateInv, OthersKept, effects
<1>7. OwnOK(t)'
  <2>1. CASE Answered(t, FALSE) BY <1>1, <1>2, <1>5, <2>1, OwnAnswered DEF At
  <2>2. CASE ~Answered(t, FALSE)
    <3>1. PICK h, g : /\ Called(t, h, g) /\ h.op = "update" /\ h.node = m /\ h.pc = "changed"
                      /\ g.op = "mark"
      BY <1>1, <2>2
    <3>2. Good(h, FALSE, guards[t])' /\ Good(g, TRUE, guards[t])'
      BY <1>5, <3>1 DEF Good, Known, Unguarded
    <3> QED BY <1>2, <1>5, <3>1, <3>2, OwnCalled
  <2> QED BY <2>1, <2>2
<1>8. \A x \in Memos : state'[x] # "Dirty" => value'[x] \in Nat
  <2> TAKE x \in Memos
  <2>1. CASE x = m BY <1>5, <2>1
  <2>2. CASE x # m
    <3>1. state'[x] = state[x] BY <1>2, <2>2
    <3> QED BY <1>5, <3>1 DEF GraphInv, ValueInv, NatKept, Sources
  <2> QED BY <2>1, <2>2
<1>9. \A x \in guards'[t] : value'[x] \in Nat
  BY <1>2, <1>5 DEF GraphInv, StateInv, ValueInv, NatKept, Sources
<1> QED BY <1>1, <1>2, <1>4, <1>5, <1>6, <1>7, <1>8, <1>9, InvStep

LEMMA AddSourceInv ==
  ASSUME GraphInv, NEW t \in Threads, AddSource(t)
  PROVE  GraphInv'
<1> DEFINE f == Top(t)
           n == f.node
           x == NextRead(f)
<1>1. /\ StackInv' /\ n \in Subscribers /\ x \in Sources /\ x \in ToSet(Reads[n])
      /\ \E h : Replaced(t, h) /\ h.op = "run" /\ h.pc = "track"
  BY AddSourceShape DEF GraphInv, Is
<1>2. PICK h : Replaced(t, h) /\ h.op = "run" /\ h.pc = "track" BY <1>1
<1>3. /\ sources' = [sources EXCEPT ![n] = Subscribe(sources[n], x)]
      /\ UNCHANGED <<value, state, subs, rlock, effects, seen, guards>>
  BY DEF AddSource
<1>4. OthersKept(t) BY <1>2 DEF Replaced
<1> HIDE DEF n, x
<1>5. /\ sources' \in [Subscribers -> Seq(Sources)]
      /\ \A y \in Subscribers : sources'[y] \in Seq(ToSet(Reads[y]))
  <2>1. sources[n] \in Seq(Sources) /\ sources[n] \in Seq(ToSet(Reads[n]))
    BY <1>1 DEF GraphInv, StateInv
  <2>2. Subscribe(sources[n], x) \in Seq(Sources) /\ Subscribe(sources[n], x) \in Seq(ToSet(Reads[n]))
    BY <1>1, <2>1, SubscribeSeq
  <2> QED BY <1>1, <1>3, <2>2 DEF GraphInv, StateInv
<1>6. NatKept /\ guards'[t] = guards[t] /\ (OwnOK(t)' => GraphInv')
  BY <1>1, <1>3, <1>4, <1>5, EffectsOnly DEF GraphInv, StateInv, effects
<1>7. Good(h, TRUE, guards[t])' BY <1>2 DEF Good, Known, Unguarded
<1>8. OwnOK(t)' BY <1>2, <1>6, <1>7, OwnReplaced
<1> QED BY <1>6, <1>8

LEMMA AddSubscriberInv ==
  ASSUME GraphInv, NEW t \in Threads, AddSubscriber(t)
  PROVE  GraphInv'
<1> DEFINE f == Top(t)
           n == f.node
           x == NextRead(f)
<1>1. /\ StackInv' /\ n \in Subscribers /\ x \in Sources
      /\ \/ /\ x \in Signals
            /\ \E h : Replaced(t, h) /\ h.op = "run" /\ h.node = n /\ h.vals = f.vals
         \/ \E h, g : /\ Called(t, h, g) /\ h.op = "run" /\ g.op = "update" /\ g.pc = "state"
  BY AddSubscriberShape, ZenonT(60) DEF GraphInv, Is
<1>3. /\ subs' = [subs EXCEPT ![x] = Subscribe(subs[x], n)]
      /\ UNCHANGED <<value, state, sources, rlock, effects, seen, guards>>
  BY DEF AddSubscriber
<1>4. OthersKept(t) BY <1>1 DEF Replaced, Called
<1>5. subs' \in [Sources -> Seq(Subscribers)]
  <2>1. subs[x] \in Seq(Subscribers) BY <1>1 DEF GraphInv, StateInv
  <2>2. Subscribe(subs[x], n) \in Seq(Subscribers) BY <1>1, <2>1, SubscribeSeq
  <2> HIDE DEF n, x
  <2> QED BY <1>1, <1>3, <2>2 DEF GraphInv, StateInv
<1>6. NatKept /\ guards'[t] = guards[t] /\ (OwnOK(t)' => GraphInv')
  BY <1>1, <1>3, <1>4, <1>5, EffectsOnly DEF GraphInv, StateInv, effects
<1>7. CASE x \in Signals /\ \E h : Replaced(t, h) /\ h.op = "run" /\ h.node = n /\ h.vals = f.vals
  <2>1. PICK h : Replaced(t, h) /\ h.op = "run" /\ h.node = n /\ h.vals = f.vals BY <1>7
  <2>2. NextRead(h) = x BY <2>1 DEF NextRead
  <2>3. value'[x] \in Nat BY <1>3, <1>7 DEF GraphInv, StateInv
  <2> HIDE DEF x
  <2>4. Good(h, TRUE, guards[t])'
    <3>1. NextRead(h)' = NextRead(h) BY DEF NextRead
    <3> QED BY <2>1, <2>2, <2>3, <3>1 DEF Good, Known, Unguarded
  <2>5. OwnOK(t)' BY <2>1, <1>6, <2>4, OwnReplaced
  <2> QED BY <1>6, <2>5
<1>8. CASE \E h, g : /\ Called(t, h, g) /\ h.op = "run" /\ g.op = "update" /\ g.pc = "state"
  <2>1. PICK h, g : Called(t, h, g) /\ h.op = "run" /\ g.op = "update" /\ g.pc = "state"
    BY <1>8
  <2>2. Good(h, FALSE, guards[t])' /\ Good(g, TRUE, guards[t])'
    BY <2>1 DEF Good, Known, Unguarded
  <2>3. OwnOK(t)' BY <2>1, <1>6, <2>2, OwnCalled
  <2> QED BY <1>6, <2>3
<1> QED BY <1>1, <1>7, <1>8

LEMMA ReadValueInv ==
  ASSUME GraphInv, NEW t \in Threads, ReadValue(t)
  PROVE  GraphInv'
<1>1. StackInv' /\ \E h : Replaced(t, h) /\ h.op = "run" /\ h.pc = "next"
  BY ReadValueShape DEF GraphInv, Is
<1>2. PICK h : Replaced(t, h) /\ h.op = "run" /\ h.pc = "next" BY <1>1
<1>3. UNCHANGED <<graph, effects, seen, guards>> /\ OthersKept(t)
  BY <1>2 DEF ReadValue, Replaced
<1>4. NatKept /\ guards'[t] = guards[t] /\ (OwnOK(t)' => GraphInv') BY <1>1, <1>3, StackOnly
<1>5. Good(h, TRUE, guards[t])' BY <1>2 DEF Good, Known, Unguarded
<1>6. OwnOK(t)' BY <1>2, <1>4, <1>5, OwnReplaced
<1> QED BY <1>4, <1>6

LEMMA EndMemoInv ==
  ASSUME GraphInv, NEW t \in Threads, EndMemo(t)
  PROVE  GraphInv'
<1> DEFINE m == Top(t).node
<1>1. /\ StackInv' /\ At(t, "run", "next")
      /\ Below(t).op = "update" /\ Below(t).pc = "commit" /\ Below(t).node = m
      /\ \E h : Returned(t, h) /\ h.op = "update" /\ h.node = m /\ h.pc = "commit"
  BY EndMemoShape DEF GraphInv, Is
<1>2. PICK h : Returned(t, h) /\ h.op = "update" /\ h.node = m /\ h.pc = "commit" BY <1>1
<1>3. UNCHANGED <<graph, effects, seen, guards>> /\ OthersKept(t)
  BY <1>2 DEF EndMemo, Returned
<1>4. NatKept /\ guards'[t] = guards[t] /\ (OwnOK(t)' => GraphInv') BY <1>1, <1>3, StackOnly
<1>5. m \notin guards[t]
  <2>1. Depth(t) - 1 \in 1..Depth(t) BY <1>2 DEF Returned
  <2>2. Good(Below(t), Depth(t) - 1 = Depth(t), guards[t]) BY <2>1, GoodNow DEF OwnOK, Below
  <2> QED BY <1>1, <2>2 DEF Good, Unguarded
<1>6. Good(h, TRUE, guards[t])' BY <1>2, <1>4, <1>5 DEF Good, Known, Unguarded
<1>7. OwnOK(t)' BY <1>2, <1>4, <1>6, OwnReturned
<1> QED BY <1>4, <1>7

LEMMA EndEffectInv ==
  ASSUME GraphInv, NEW t \in Threads, EndEffect(t)
  PROVE  GraphInv'
<1> DEFINE f == Top(t)
           e == f.node
<1>1. /\ StackInv' /\ e \in Effects /\ f.vals \in Seq(Nat) /\ Below(t).op = "task"
      /\ \/ Popped(t) /\ value' = value
         \/ \E s \in Signals : \E h : /\ value' = [value EXCEPT ![s] = value[s] + 1]
                                      /\ Replaced(t, h) /\ h.op = "mark"
  BY EndEffectShape, ZenonT(60) DEF GraphInv, Is
<1>2. /\ seen' = [seen EXCEPT ![e] = f.vals]
      /\ UNCHANGED <<state, sources, subs, rlock, effects, guards>>
  BY DEF EndEffect
<1>3. OthersKept(t) BY <1>1 DEF Popped, Replaced
<1>4. seen' \in [Subscribers -> Seq(Nat)]
  <2>1. e \in Subscribers BY <1>1 DEF Subscribers
  <2> QED BY <1>1, <1>2, <2>1 DEF GraphInv, StateInv
<1>5. /\ value' \in [Sources -> Nat \cup {NoValue}] /\ \A x \in Signals : value'[x] \in Nat
      /\ NatKept
  <2>1. CASE value' = value BY <2>1 DEF GraphInv, StateInv, NatKept
  <2>2. CASE value' # value
    <3>1. PICK s \in Signals : value' = [value EXCEPT ![s] = value[s] + 1] BY <1>1, <2>2
    <3>2. value[s] \in Nat /\ value[s] + 1 \in Nat BY DEF GraphInv, StateInv
    <3>3. /\ value \in [Sources -> Nat \cup {NoValue}] /\ s \in Sources
          /\ \A x \in Signals : value[x] \in Nat /\ x \in Sources
      BY DEF GraphInv, StateInv, Sources
    <3>4. \A x \in Sources : value'[x] = IF x = s THEN value[s] + 1 ELSE value[x]
      BY <3>1, <3>3
    <3>5. value' \in [Sources -> Nat \cup {NoValue}] BY <3>1, <3>2, <3>3
    <3> QED BY <3>2, <3>3, <3>4, <3>5 DEF NatKept
  <2> QED BY <2>1, <2>2
<1>6. StateInv' BY <1>2, <1>3, <1>4, <1>5 DEF GraphInv, StateInv, OthersKept, effects
<1>7. OwnOK(t)'
  <2>1. CASE Popped(t) BY <1>1, <1>2, <1>5, <2>1, OwnPopped
  <2>2. CASE ~Popped(t)
    <3>1. PICK h : Replaced(t, h) /\ h.op = "mark" BY <1>1, <2>2
    <3>2. Good(h, TRUE, guards[t])' BY <3>1 DEF Good, Known, Unguarded
    <3> QED BY <1>2, <1>5, <3>1, <3>2, OwnReplaced
  <2> QED BY <2>1, <2>2
<1>8. /\ \A x \in Memos : state'[x] # "Dirty" => value'[x] \in Nat
      /\ \A x \in guards'[t] : value'[x] \in Nat
  BY <1>2, <1>5 DEF GraphInv, StateInv, ValueInv, NatKept, Sources
<1> QED BY <1>1, <1>2, <1>3, <1>5, <1>6, <1>7, <1>8, InvStep

LEMMA PollInv ==
  ASSUME GraphInv, NEW t \in Threads, NEW e \in Effects, Poll(t, e)
  PROVE  GraphInv'
<1>1. /\ StackInv' /\ Idle(t)
      /\ stack' = stack \/ \E h : Entered(t, h) /\ h.op = "task"
  BY PollShape, Zenon DEF GraphInv, Is
<1>2. /\ UNCHANGED <<graph, dirty, first, paused, seen, guards>>
      /\ notified' = [notified EXCEPT ![e] = FALSE]
      /\ missed' = [missed EXCEPT ![e] = TRUE] \/ missed' = missed
  BY DEF Poll
<1>3. OthersKept(t) BY <1>1 DEF Entered, OthersKept, GraphInv, StateInv
<1>4. notified' \in [Effects -> BOOLEAN] /\ missed' \in [Effects -> BOOLEAN]
  BY <1>2 DEF GraphInv, StateInv
<1>5. NatKept /\ guards'[t] = guards[t] /\ (OwnOK(t)' => GraphInv')
  BY <1>1, <1>2, <1>3, <1>4, EffectsOnly DEF GraphInv, StateInv, graph
<1>6. CASE stack' = stack
  <2>1. Depth(t)' = 0 BY <1>1, <1>6 DEF Idle, Depth
  <2>2. OwnOK(t)' BY <2>1 DEF OwnOK
  <2> QED BY <1>5, <2>2
<1>7. CASE stack' # stack BY <1>1, <1>5, <1>7, OwnEntered
<1> QED BY <1>6, <1>7

LEMMA TaskDirtyInv ==
  ASSUME GraphInv, NEW t \in Threads, TaskDirty(t)
  PROVE  GraphInv'
<1> DEFINE e == Top(t).node
<1>1. StackInv' /\ e \in Effects /\ \E h : Replaced(t, h) /\ h.op = "task"
  BY TaskDirtyShape, Zenon DEF GraphInv, Is
<1>2. PICK h : Replaced(t, h) /\ h.op = "task" BY <1>1
<1>3. /\ dirty' = [dirty EXCEPT ![e] = FALSE] /\ OthersKept(t)
      /\ UNCHANGED <<graph, notified, first, paused, missed, seen, guards>>
  BY <1>2 DEF TaskDirty, Replaced
<1>4. dirty' \in [Effects -> BOOLEAN] BY <1>1, <1>3 DEF GraphInv, StateInv
<1>5. NatKept /\ guards'[t] = guards[t] /\ (OwnOK(t)' => GraphInv')
  BY <1>1, <1>3, <1>4, EffectsOnly DEF GraphInv, StateInv, graph
<1>6. Good(h, TRUE, guards[t])' BY <1>2 DEF Good, Known, Unguarded
<1>7. OwnOK(t)' BY <1>2, <1>5, <1>6, OwnReplaced
<1> QED BY <1>5, <1>7

LEMMA TaskSourcesInv ==
  ASSUME GraphInv, NEW t \in Threads, TaskSources(t)
  PROVE  GraphInv'
<1>1. /\ StackInv' /\ Depth(t) = 1
      /\ \/ \E h : Replaced(t, h) /\ h.op = "task"
         \/ Popped(t)
         \/ \E h, g : Called(t, h, g) /\ h.op = "task" /\ g.op = "update" /\ g.pc = "state"
  BY TaskSourcesShape, ZenonT(60) DEF GraphInv, Is
<1>2. UNCHANGED <<graph, effects, seen, guards>> /\ OthersKept(t)
  BY <1>1 DEF TaskSources, Replaced, Called, Popped
<1>3. NatKept /\ guards'[t] = guards[t] /\ (OwnOK(t)' => GraphInv') BY <1>1, <1>2, StackOnly
<1>4. CASE \E h : Replaced(t, h) /\ h.op = "task"
  <2>1. PICK h : Replaced(t, h) /\ h.op = "task" BY <1>4
  <2>2. Good(h, TRUE, guards[t])' BY <2>1 DEF Good, Known, Unguarded
  <2> QED BY <1>3, <2>1, <2>2, OwnReplaced
<1>5. CASE Popped(t) BY <1>1, <1>3, <1>5, OwnPopped
<1>6. CASE \E h, g : Called(t, h, g) /\ h.op = "task" /\ g.op = "update" /\ g.pc = "state"
  <2>1. PICK h, g : Called(t, h, g) /\ h.op = "task" /\ g.op = "update" /\ g.pc = "state"
    BY <1>6
  <2>2. Good(h, FALSE, guards[t])' /\ Good(g, TRUE, guards[t])'
    BY <2>1 DEF Good, Known, Unguarded
  <2> QED BY <1>3, <2>1, <2>2, OwnCalled
<1> QED BY <1>1, <1>4, <1>5, <1>6

LEMMA StartEffectInv ==
  ASSUME GraphInv, NEW t \in Threads, StartEffect(t)
  PROVE  GraphInv'
<1> DEFINE e == Top(t).node
<1>1. /\ StackInv' /\ e \in Effects
      /\ \E h, g : Called(t, h, g) /\ h.op = "task" /\ g.op = "run" /\ g.pc = "next"
  BY StartEffectShape, ZenonT(60) DEF GraphInv, Is
<1>2. PICK h, g : Called(t, h, g) /\ h.op = "task" /\ g.op = "run" /\ g.pc = "next" BY <1>1
<1>3. /\ first' = [first EXCEPT ![e] = FALSE] /\ missed' = [missed EXCEPT ![e] = FALSE]
      /\ ClearSources(e) /\ UNCHANGED <<value, state, rlock, dirty, notified, paused, seen, guards>>
  BY DEF StartEffect
<1>4. OthersKept(t) /\ e \in Subscribers BY <1>1, <1>2 DEF Called, Subscribers
<1>5. /\ sources' \in [Subscribers -> Seq(Sources)]
      /\ \A x \in Subscribers : sources'[x] \in Seq(ToSet(Reads[x]))
      /\ subs' \in [Sources -> Seq(Subscribers)]
  BY <1>3, <1>4, ClearSourcesTypes DEF GraphInv
<1>6. first' \in [Effects -> BOOLEAN] /\ missed' \in [Effects -> BOOLEAN]
  BY <1>1, <1>3 DEF GraphInv, StateInv
<1>7. NatKept /\ guards'[t] = guards[t] /\ (OwnOK(t)' => GraphInv')
  BY <1>1, <1>3, <1>4, <1>5, <1>6, EffectsOnly DEF GraphInv, StateInv
<1>8. Good(h, FALSE, guards[t])' /\ Good(g, TRUE, guards[t])'
  BY <1>2 DEF Good, Known, Unguarded
<1>9. OwnOK(t)' BY <1>2, <1>7, <1>8, OwnCalled
<1> QED BY <1>7, <1>9

LEMMA TaskEndInv ==
  ASSUME GraphInv, NEW t \in Threads, TaskEnd(t)
  PROVE  GraphInv'
<1>1. StackInv' /\ Depth(t) = 1 /\ Popped(t) BY TaskEndShape DEF GraphInv
<1>2. UNCHANGED <<graph, effects, seen, guards>> /\ OthersKept(t) BY <1>1 DEF TaskEnd, Popped
<1>3. NatKept /\ guards'[t] = guards[t] /\ (OwnOK(t)' => GraphInv') BY <1>1, <1>2, StackOnly
<1> QED BY <1>1, <1>3, OwnPopped

LEMMA GetInv ==
  ASSUME GraphInv, NEW t \in Threads, NEW m \in Memos, Get(t, m)
  PROVE  GraphInv'
<1>1. /\ StackInv'
      /\ \E g, u : Got(t, g, u) /\ g.op = "get" /\ u.op = "update" /\ u.pc = "state"
  <2>1. StateInv /\ StackInv BY DEF GraphInv
  <2>2. PICK g, u : /\ Got(t, g, u) /\ Is(g, "get", m, "read", <<>>, <<>>, FALSE)
                    /\ Is(u, "update", m, "state", <<>>, <<>>, FALSE)
    BY <2>1, GetShape
  <2>3. g.op = "get" /\ u.op = "update" /\ u.pc = "state" BY <2>2 DEF Is
  <2> QED BY <2>1, <2>2, <2>3, GetShape
<1>2. PICK g, u : Got(t, g, u) /\ g.op = "get" /\ u.op = "update" /\ u.pc = "state" BY <1>1
<1>3. UNCHANGED <<graph, effects, seen, guards>> /\ OthersKept(t) BY <1>2 DEF Get, Got
<1>4. NatKept /\ guards'[t] = guards[t] /\ (OwnOK(t)' => GraphInv') BY <1>1, <1>3, StackOnly
<1>5. OwnOK(t)'
  <2>1. Depth(t)' = 2 /\ stack'[t][1] = g /\ stack'[t][2] = u BY <1>2 DEF Got
  <2>2. ASSUME NEW i \in 1..Depth(t)' PROVE Good(stack[t][i], i = Depth(t), guards[t])'
    <3>1. i = 1 \/ i = 2 BY <2>1
    <3> QED BY <1>2, <2>1, <3>1 DEF Good, Known, Unguarded
  <2> QED BY <2>2 DEF OwnOK
<1> QED BY <1>4, <1>5

LEMMA GetValueInv ==
  ASSUME GraphInv, NEW t \in Threads, GetValue(t)
  PROVE  GraphInv'
<1> DEFINE m == Top(t).node
<1>1. /\ StackInv' /\ At(t, "get", "read") /\ Depth(t) = 1 /\ m \in Memos /\ Popped(t)
  BY GetValueShape DEF GraphInv
<1>2. /\ UNCHANGED <<graph, effects, seen>> /\ OthersKept(t)
      /\ guards' = guards \/ guards' = [guards EXCEPT ![t] = guards[t] \cup {m}]
  BY <1>1 DEF GetValue, Popped
<1>3. value[m] \in Nat
  <2>1. Good(Top(t), TRUE, guards[t]) BY <1>1, GoodTop DEF At
  <2> QED BY <1>1, <2>1 DEF Good, Known, At
<1>4. /\ guards' \in [Threads -> SUBSET Memos] /\ guards'[t] \subseteq guards[t] \cup {m}
      /\ \A u \in Threads : u # t => guards'[u] = guards[u]
  <2>1. guards \in [Threads -> SUBSET Memos] BY DEF GraphInv, StateInv
  <2>2. CASE guards' = guards BY <2>1, <2>2
  <2>3. CASE guards' = [guards EXCEPT ![t] = guards[t] \cup {m}]
    <3> HIDE DEF m
    <3>1. guards[t] \cup {m} \subseteq Memos BY <1>1, <2>1
    <3> QED BY <2>1, <2>3, <3>1
  <2> QED BY <1>2, <2>2, <2>3
<1>5. StateInv' /\ NatKept
  BY <1>2, <1>4 DEF GraphInv, StateInv, OthersKept, NatKept, graph, effects
<1>6. OwnOK(t)'
  <2>1. Depth(t)' = 0 BY <1>1 DEF Popped
  <2> QED BY <2>1 DEF OwnOK
<1>7. /\ \A x \in Memos : state'[x] # "Dirty" => value'[x] \in Nat
      /\ \A x \in guards'[t] : value'[x] \in Nat
  BY <1>2, <1>3, <1>4 DEF GraphInv, ValueInv, graph
<1> QED BY <1>1, <1>2, <1>4, <1>5, <1>6, <1>7, InvStep

LEMMA DropGuardInv ==
  ASSUME GraphInv, NEW t \in Threads, NEW m \in Memos, DropGuard(t, m)
  PROVE  GraphInv'
<1>2. /\ UNCHANGED <<graph, effects, seen, stack>> /\ Idle(t)
      /\ guards' = [guards EXCEPT ![t] = guards[t] \ {m}]
  BY DEF DropGuard
<1>3. OthersKept(t) /\ StackInv' BY <1>2 DEF OthersKept, GraphInv, StateInv, StackInv
<1>4. /\ guards' \in [Threads -> SUBSET Memos] /\ guards'[t] \subseteq guards[t]
      /\ \A u \in Threads : u # t => guards'[u] = guards[u]
  BY <1>2 DEF GraphInv, StateInv
<1>5. StateInv' /\ NatKept BY <1>2, <1>4 DEF GraphInv, StateInv, NatKept, graph, effects
<1>6. OwnOK(t)'
  <2>1. Depth(t)' = 0 BY <1>2 DEF Idle, Depth
  <2> QED BY <2>1 DEF OwnOK
<1>7. /\ \A x \in Memos : state'[x] # "Dirty" => value'[x] \in Nat
      /\ \A x \in guards'[t] : value'[x] \in Nat
  BY <1>2, <1>4 DEF GraphInv, ValueInv, graph
<1> QED BY <1>3, <1>4, <1>5, <1>6, <1>7, InvStep

LEMMA PauseInv ==
  ASSUME GraphInv, NEW t \in Threads, NEW e \in Effects, PauseOrResume(t, e)
  PROVE  GraphInv'
<1>1. /\ UNCHANGED <<graph, dirty, notified, first, missed, seen, stack, guards>>
      /\ paused' = [paused EXCEPT ![e] = ~paused[e]] /\ Idle(t)
  BY DEF PauseOrResume
<1>2. paused' \in [Effects -> BOOLEAN] BY <1>1 DEF GraphInv, StateInv
<1>3. OthersKept(t) /\ StackInv' BY <1>1 DEF OthersKept, GraphInv, StateInv, StackInv
<1>4. OwnOK(t)' => GraphInv' BY <1>1, <1>2, <1>3, EffectsOnly DEF GraphInv, StateInv, graph
<1>5. OwnOK(t)'
  <2>1. Depth(t)' = 0 BY <1>1 DEF Idle, Depth
  <2> QED BY <2>1 DEF OwnOK
<1> QED BY <1>4, <1>5

-----------------------------------------------------------------------------
(* Types and guarded values *)

LEMMA InitInv == Init => GraphInv
<1> SUFFICES ASSUME Init PROVE GraphInv OBVIOUS
<1>1. StateInv
  <2>1. \A F : <<>> \in Seq(F) OBVIOUS
  <2>2. value \in [Sources -> Nat \cup {NoValue}] /\ \A s \in Signals : value[s] \in Nat
    BY DEF Init, Sources
  <2>3. /\ state \in [Memos -> {"Clean", "Check", "Dirty"}]
        /\ rlock \in [Memos -> Threads \cup {Nobody}]
        /\ dirty \in [Effects -> BOOLEAN] /\ notified \in [Effects -> BOOLEAN]
        /\ first \in [Effects -> BOOLEAN] /\ paused \in [Effects -> BOOLEAN]
        /\ missed \in [Effects -> BOOLEAN] /\ guards \in [Threads -> SUBSET Memos]
    BY DEF Init
  <2>4. /\ sources \in [Subscribers -> Seq(Sources)]
        /\ \A n \in Subscribers : sources[n] \in Seq(ToSet(Reads[n]))
        /\ subs \in [Sources -> Seq(Subscribers)]
        /\ seen \in [Subscribers -> Seq(Nat)] /\ stack \in [Threads -> Seq(Frames)]
    BY <2>1 DEF Init
  <2> QED BY <2>2, <2>3, <2>4 DEF StateInv
<1>2. \A t \in Threads : Len(stack[t]) = 0 /\ guards[t] = {} BY DEF Init
<1>3. StackInv BY <1>1, <1>2 DEF StackInv, StackOK, StateInv
<1>4. ValueInv /\ GuardInv BY <1>2 DEF Init, ValueInv, GuardInv
<1> QED BY <1>1, <1>3, <1>4 DEF GraphInv

\* Every step of a thread is of one of these kinds.
LEMMA NextInv == GraphInv /\ [Next]_vars => GraphInv'
<1> SUFFICES ASSUME GraphInv, [Next]_vars PROVE GraphInv' OBVIOUS
<1>1. ASSUME NEW t \in Threads, Marking(t) PROVE GraphInv'
  BY <1>1, CloneInv, MarkMemoInv, MarkEffectInv, MarkDoneInv DEF Marking
<1>2. ASSUME NEW t \in Threads, Updating(t) PROVE GraphInv'
  BY <1>2, NeedsUpdateInv, CheckSourceInv, CheckOwnInv, SetCleanInv, BeginInv, StartMemoInv,
     LockMemoInv, CommitMemoInv, ReturnChangedInv DEF Updating
<1>3. ASSUME NEW t \in Threads, Function(t) PROVE GraphInv'
  BY <1>3, AddSourceInv, AddSubscriberInv, ReadValueInv, EndMemoInv, EndEffectInv DEF Function
<1>4. ASSUME NEW t \in Threads, Task(t) PROVE GraphInv'
  BY <1>4, TaskDirtyInv, TaskSourcesInv, StartEffectInv, TaskEndInv DEF Task
<1>5. ASSUME NEW t \in Threads, User(t) PROVE GraphInv'
  BY <1>5, SetInv, GetInv, DropGuardInv, PauseInv DEF User
<1>6. ASSUME NEW t \in Threads, NEW e \in Effects, Poll(t, e) PROVE GraphInv'
  BY <1>6, PollInv
<1>7. ASSUME NEW t \in Threads, GetValue(t) PROVE GraphInv' BY <1>7, GetValueInv
<1>8. CASE UNCHANGED vars
  BY <1>8 DEF vars, graph, effects, GraphInv, StateInv, StackInv, ValueInv, Known, GuardInv,
     Unguarded, NextRead
<1> QED BY <1>1, <1>2, <1>3, <1>4, <1>5, <1>6, <1>7, <1>8 DEF Next, Continue, Rest

LEMMA GraphInvariant == Spec => []GraphInv
<1>1. Init => GraphInv BY InitInv
<1>2. GraphInv /\ [Next]_vars => GraphInv' BY NextInv
<1> QED BY <1>1, <1>2, PTL DEF Spec

\* The variables have their types in every state, for every graph and any number of
\* threads: in particular what a function reads is a number, never the missing value of a
\* memo that has not been computed (traits.rs: a read gives a value after
\* update_if_necessary).
THEOREM GraphTypeCorrect == Spec => []TypeOK
<1>1. GraphInv => TypeOK BY DEF GraphInv, StateInv, TypeOK
<1> QED BY <1>1, GraphInvariant, PTL

\* Only a set and a commit change a value, and the commit waits for the other readers.
LEMMA GuardedStep ==
  ASSUME GraphInv, [Next]_vars, NEW t \in Threads, NEW m \in guards[t]
  PROVE  value'[m] = value[m]
<1>1. m \in Memos /\ m \in Sources /\ m \notin Signals
      /\ value \in [Sources -> Nat \cup {NoValue}]
  BY KindsAssumption DEF GraphInv, StateInv, Sources
<1>2. ASSUME NEW u \in Threads, NEW s \in Signals, value' = [value EXCEPT ![s] = value[s] + 1]
      PROVE  value'[m] = value[m]
  BY <1>1, <1>2
<1>3. ASSUME NEW u \in Threads, CommitMemo(u) PROVE value'[m] = value[m]
  <2> DEFINE x == Top(u).node
  <2>1. /\ At(u, "update", "value") /\ value' = [value EXCEPT ![x] = Compute(x, Top(u).vals)]
        /\ \A w \in Threads \ {u} : ~Reading(w, x)
    BY <1>3 DEF CommitMemo
  <2>2. x # m
    <3>1. CASE u = t
      <4>1. Good(Top(u), TRUE, guards[u]) BY <2>1, GoodTop DEF At
      <4> QED BY <2>1, <3>1, <4>1 DEF Good, Unguarded, At
    <3>2. CASE u # t BY <2>1, <3>2 DEF Reading
    <3> QED BY <3>1, <3>2
  <2> QED BY <1>1, <2>1, <2>2
<1>4. ASSUME NEW u \in Threads, EndEffect(u) PROVE value'[m] = value[m]
  <2>1. value' = value \/ \E s \in Signals : value' = [value EXCEPT ![s] = value[s] + 1]
    BY <1>4, EndEffectShape, Zenon DEF GraphInv
  <2> QED BY <1>2, <1>4, <2>1
<1>5. ASSUME NEW u \in Threads, NEW s \in Signals, Set(u, s) PROVE value'[m] = value[m]
  BY <1>2, <1>5 DEF Set
<1>6. ASSUME NEW u \in Threads, Marking(u) PROVE value' = value
  BY <1>6 DEF Marking, CloneSubscribers, MarkMemo, MarkEffect, MarkDone, graph
<1>7. ASSUME NEW u \in Threads, Updating(u), ~CommitMemo(u) PROVE value' = value
  BY <1>7 DEF Updating, NeedsUpdate, CheckSource, CheckOwn, SetClean, Begin, StartMemo,
     LockMemo, ReturnChanged, graph
<1>8. ASSUME NEW u \in Threads, Function(u), ~EndEffect(u) PROVE value' = value
  BY <1>8 DEF Function, AddSource, AddSubscriber, ReadValue, EndMemo, graph
<1>9. ASSUME NEW u \in Threads, Task(u) \/ GetValue(u) PROVE value' = value
  BY <1>9 DEF Task, TaskDirty, TaskSources, StartEffect, TaskEnd, GetValue, graph
<1>10. ASSUME NEW u \in Threads, NEW x \in Memos, Get(u, x) \/ DropGuard(u, x)
       PROVE  value' = value
  BY <1>10 DEF Get, DropGuard, graph
<1>11. ASSUME NEW u \in Threads, NEW e \in Effects, PauseOrResume(u, e) \/ Poll(u, e)
       PROVE  value' = value
  BY <1>11 DEF PauseOrResume, Poll, graph
<1>12. CASE UNCHANGED vars BY <1>12 DEF vars, graph
<1> QED BY <1>3, <1>4, <1>5, <1>6, <1>7, <1>8, <1>9, <1>10, <1>11, <1>12
        DEF Next, Continue, User, Rest

\* The value under a read guard of a memo does not change while the guard is held, however
\* many threads recompute the memo (computed/inner.rs: the write waits for the other
\* threads' readers, and a thread that has a guard itself leaves the memo as it is).
THEOREM GuardedValuesStable == Spec => GuardedValueIsStable
<1>1. GraphInv /\ [Next]_vars => [\A t \in Threads : \A m \in guards[t] : value'[m] = value[m]]_vars
  BY GuardedStep
<1> QED BY <1>1, GraphInvariant, PTL DEF Spec, GuardedValueIsStable

-----------------------------------------------------------------------------
(* What the nodes' values should be *)

LEMMA RankBound ==
  \A m \in Memos : Rank[m] \in Nat /\ Rank[m] <= Cardinality(Memos) /\ Cardinality(Memos) \in Nat
<1>1. Cardinality(Memos) \in Nat BY RankAssumption, FS_CardinalityType
<1>2. Rank \in [Memos -> 0..Cardinality(Memos)] BY RankAssumption DEF Rank
<1> QED BY <1>1, <1>2

\* What n's function would read, and give, if the values were those of f.
ReadIn(f, n) ==
  LET vals == [i \in DOMAIN Reads[n] |-> f[Reads[n][i]]] IN SubSeq(vals, 1, ReadCount(n, vals))
ValueIn(f, x) == IF x \in Signals THEN value[x] ELSE Compute(x, ReadIn(f, x))

LEMMA SameReads ==
  ASSUME NEW n \in Subscribers, NEW f, NEW g, \A x \in ToSet(Reads[n]) : f[x] = g[x]
  PROVE  ReadIn(f, n) = ReadIn(g, n)
<1>1. DOMAIN Reads[n] = 1..Len(Reads[n]) BY ReadsFacts
<1>2. \A i \in DOMAIN Reads[n] : f[Reads[n][i]] = g[Reads[n][i]] BY <1>1, ReadsFacts
<1>3. [i \in DOMAIN Reads[n] |-> f[Reads[n][i]]] = [i \in DOMAIN Reads[n] |-> g[Reads[n][i]]]
  BY <1>2
<1> QED BY <1>3, Zenon DEF ReadIn

\* The equation that defines the value of every node has a solution: memos read memos of
\* lower rank.
LEMMA TruthEquation == \A x \in Sources : TruthOf[x] = ValueIn(TruthOf, x)
<1> DEFINE Level(x) == IF x \in Memos THEN Rank[x] + 1 ELSE 0
           Part(k) == \E f : \A x \in Sources : Level(x) < k => f[x] = ValueIn(f, x)
<1>1. \A x \in Sources : Level(x) \in Nat /\ Level(x) < Cardinality(Memos) + 2
  <2>1. Cardinality(Memos) \in Nat BY RankAssumption, FS_CardinalityType
  <2> QED BY <2>1, RankBound
<1>2. ASSUME NEW m \in Sources, m \notin Signals, NEW x \in ToSet(Reads[m])
      PROVE  x \in Sources /\ Level(x) < Level(m)
  <2>1. m \in Memos /\ m \in Subscribers BY <1>2 DEF Sources, Subscribers
  <2>2. x \in Sources BY <2>1, ReadsFacts
  <2>3. Rank[m] \in Nat BY <2>1, RankBound
  <2>4. x \in Memos => Rank[x] < Rank[m] /\ Rank[x] \in Nat BY <2>1, RankFalls
  <2> QED BY <2>1, <2>2, <2>3, <2>4
<1> HIDE DEF Level
<1>3. ASSUME NEW f, NEW g, NEW x \in Sources,
             \A y \in Sources : Level(y) < Level(x) => f[y] = g[y]
      PROVE  ValueIn(f, x) = ValueIn(g, x)
  <2>1. CASE x \in Signals BY <2>1 DEF ValueIn
  <2>2. CASE x \notin Signals
    <3>1. x \in Subscribers BY <2>2 DEF Sources, Subscribers
    <3>2. \A y \in ToSet(Reads[x]) : f[y] = g[y] BY <1>2, <1>3, <2>2
    <3>3. ReadIn(f, x) = ReadIn(g, x) BY <3>1, <3>2, SameReads
    <3> QED BY <2>2, <3>3 DEF ValueIn
  <2> QED BY <2>1, <2>2
<1>4. \A k \in Nat : Part(k)
  <2> DEFINE S == {k \in Nat : Part(k)}
  <2>1. 0 \in S
    <3>1. \A x \in Sources : ~(Level(x) < 0) BY <1>1
    <3> QED BY <3>1
  <2>2. ASSUME NEW k \in Nat, k \in S PROVE k + 1 \in S
    <3>1. PICK f : \A x \in Sources : Level(x) < k => f[x] = ValueIn(f, x) BY <2>2
    <3> DEFINE g == [x \in Sources |-> IF Level(x) < k THEN f[x] ELSE ValueIn(f, x)]
    <3>2. \A x \in Sources : g[x] = IF Level(x) < k THEN f[x] ELSE ValueIn(f, x) OBVIOUS
    <3> HIDE DEF g
    <3>3. ASSUME NEW x \in Sources, Level(x) < k + 1 PROVE g[x] = ValueIn(g, x)
      <4>1. g[x] = ValueIn(f, x) BY <3>1, <3>2
      <4>2. ASSUME NEW y \in Sources, Level(y) < Level(x) PROVE f[y] = g[y]
        <5>1. Level(y) < k BY <1>1, <3>3, <4>2
        <5> QED BY <5>1, <3>2
      <4>3. ValueIn(f, x) = ValueIn(g, x) BY <1>3, <4>2
      <4> QED BY <4>1, <4>3
    <3>4. k + 1 \in Nat OBVIOUS
    <3> QED BY <3>3, <3>4
  <2> HIDE DEF S
  <2>3. Nat \subseteq S BY <2>1, <2>2, SetInduction
  <2> QED BY <2>3 DEF S
<1> DEFINE K == Cardinality(Memos) + 2
<1>5. K \in Nat
  <2>1. Cardinality(Memos) \in Nat BY RankAssumption, FS_CardinalityType
  <2> QED BY <2>1
<1>6. PICK f : \A x \in Sources : Level(x) < K => f[x] = ValueIn(f, x) BY <1>4, <1>5
<1> DEFINE g == [x \in Sources |-> f[x]]
<1>7. \A x \in Sources : g[x] = f[x] OBVIOUS
<1>8. \A x \in Sources : g[x] = ValueIn(g, x)
  <2> TAKE x \in Sources
  <2>1. \A y \in Sources : f[y] = g[y] BY <1>7
  <2> HIDE DEF g
  <2>2. ValueIn(f, x) = ValueIn(g, x) BY <1>3, <2>1
  <2> QED BY <1>1, <1>6, <2>1, <2>2
<1>9. \E h : h = [x \in Sources |-> ValueIn(h, x)]
  <2>1. g = [x \in Sources |-> ValueIn(g, x)] BY <1>8
  <2> QED BY <2>1
<1> HIDE DEF g
<1> DEFINE T == CHOOSE h : h = [x \in Sources |-> ValueIn(h, x)]
<1>10. T = [x \in Sources |-> ValueIn(T, x)] BY <1>9
<1>11. TruthOf = T BY Zenon DEF TruthOf, ValueIn, ReadIn
<1> HIDE DEF T
<1> QED BY <1>10, <1>11

-----------------------------------------------------------------------------
(* Effects and the signals they read *)

RunsEffect(t, e) == Depth(t) >= 2 /\ stack[t][2].op = "run" /\ stack[t][2].node = e
HasTask(t, e) == Depth(t) >= 1 /\ stack[t][1].op = "task" /\ stack[t][1].node = e
InTask(t, e, pc) == HasTask(t, e) /\ stack[t][1].pc = pc
Running(e) == \E t \in Threads : RunsEffect(t, e)

\* An effect has one task.
OneTask(e) == \A t, u \in Threads : HasTask(t, e) /\ HasTask(u, e) => t = u

\* x has been set, and is about to mark e.
Announces(t, e, x) ==
  /\ ~Idle(t) /\ Top(t).op = "mark"
  /\ \/ Top(t).pc = "clone" /\ Top(t).node = x
     \/ Top(t).pc = "mark" /\ <<e, "dirty">> \in ToSet(Top(t).todo)
Announced(e, x) == \E t \in Threads : Announces(t, e, x)

\* e is dirty, and will find out.
Heard(e) ==
  dirty[e] /\ (notified[e] \/ missed[e] \/ \E t \in Threads : InTask(t, e, "dirty"))

\* Of the signals among its reads e knows the present values, or it will be told.
FreshFor(e, vals) ==
  \A j \in 1..Len(vals) : Reads[e][j] \in Signals =>
    vals[j] = value[Reads[e][j]] \/ Announced(e, Reads[e][j]) \/ Heard(e)

\* e is subscribed to its first k reads.
SubscribedTo(e, k) == \A j \in 1..k : e \in ToSet(subs[Reads[e][j]])

RunInv(e) ==
  \A t \in Threads : RunsEffect(t, e) =>
    LET f == stack[t][2] IN
    /\ ~first[e]
    /\ Len(f.vals) <= Len(Reads[e])
    /\ FreshFor(e, f.vals)
    /\ SubscribedTo(e, IF f.pc = "read" THEN Len(f.vals) + 1 ELSE Len(f.vals))
RestInv(e) ==
  ~Running(e) =>
    /\ Len(seen[e]) <= Len(Reads[e])
    /\ SubscribedTo(e, Len(seen[e]))
    /\ ~first[e] => Len(seen[e]) = ReadCount(e, seen[e])
    /\ (\A t \in Threads : ~InTask(t, e, "run")) => FreshFor(e, seen[e])
FirstInv(e) ==
  /\ first[e] => notified[e] \/ missed[e] \/ \E t \in Threads : HasTask(t, e)
  /\ \A t \in Threads : InTask(t, e, "end") => ~first[e]

EffectInv(e) == OneTask(e) /\ RunInv(e) /\ RestInv(e) /\ FirstInv(e)

\* A step that is none of e's.
NotOf(f, e) == ~(f.op \in {"run", "task"} /\ f.node = e)
RunKept(e) ==
  \A u \in Threads :
    /\ RunsEffect(u, e)' <=> RunsEffect(u, e)
    /\ RunsEffect(u, e) => /\ stack'[u][2].pc = stack[u][2].pc
                           /\ stack'[u][2].vals = stack[u][2].vals
TaskKept(e) ==
  \A u \in Threads : /\ HasTask(u, e)' <=> HasTask(u, e)
                     /\ HasTask(u, e) => stack'[u][1].pc = stack[u][1].pc

LEMMA DepthNat == StackInv => \A u \in Threads : Depth(u) \in Nat
BY DEF StackInv, StackOK, Depth

LEMMA KeptReplaced ==
  ASSUME StackInv, NEW t \in Threads, ~Idle(t), NEW h, Replaced(t, h), NEW e,
         NotOf(Top(t), e), NotOf(h, e)
  PROVE  RunKept(e) /\ TaskKept(e)
<1>1. Top(t) = stack[t][Depth(t)] /\ Depth(t) \in Nat /\ Depth(t) > 0 BY TopFacts
<1>2. ASSUME NEW u \in Threads
      PROVE  /\ Depth(u)' = Depth(u) /\ Depth(u) \in Nat
             /\ \A i \in 1..Depth(u) : \/ stack'[u][i] = stack[u][i]
                                       \/ NotOf(stack[u][i], e) /\ NotOf(stack'[u][i], e)
  <2>1. CASE u # t BY <2>1, DepthNat DEF Replaced, OthersKept, Depth
  <2>2. CASE u = t BY <1>1, <2>2 DEF Replaced
  <2> QED BY <2>1, <2>2
<1> QED BY <1>2 DEF RunKept, TaskKept, RunsEffect, HasTask, NotOf

LEMMA KeptCalled ==
  ASSUME StackInv, NEW t \in Threads, ~Idle(t), NEW h, NEW g, Called(t, h, g), NEW e,
         NotOf(Top(t), e), NotOf(h, e), NotOf(g, e)
  PROVE  RunKept(e) /\ TaskKept(e)
<1>1. Top(t) = stack[t][Depth(t)] /\ Depth(t) \in Nat /\ Depth(t) > 0 BY TopFacts
<1>2. ASSUME NEW u \in Threads
      PROVE  /\ Depth(u)' \in Nat /\ Depth(u) \in Nat /\ Depth(u)' >= Depth(u)
             /\ \A i \in 1..Depth(u) : \/ stack'[u][i] = stack[u][i]
                                       \/ NotOf(stack[u][i], e) /\ NotOf(stack'[u][i], e)
             /\ \A i \in 1..Depth(u)' : i \in 1..Depth(u) \/ NotOf(stack'[u][i], e)
  <2>1. CASE u # t BY <2>1, DepthNat DEF Called, OthersKept, Depth
  <2>2. CASE u = t
    <3>1. /\ Depth(t)' = Depth(t) + 1
          /\ stack'[t][Depth(t)] = h /\ stack'[t][Depth(t) + 1] = g
          /\ \A i \in 1..Depth(t) : i # Depth(t) => stack'[t][i] = stack[t][i]
      BY DEF Called
    <3>2. ASSUME NEW i \in 1..Depth(t)' PROVE i \in 1..Depth(t) \/ NotOf(stack'[t][i], e)
      BY <1>1, <3>1
    <3> QED BY <1>1, <2>2, <3>1, <3>2
  <2> QED BY <2>1, <2>2
<1> QED BY <1>2 DEF RunKept, TaskKept, RunsEffect, HasTask, NotOf

LEMMA KeptPopped ==
  ASSUME StackInv, NEW t \in Threads, ~Idle(t), Popped(t), NEW e, NotOf(Top(t), e)
  PROVE  RunKept(e) /\ TaskKept(e)
<1>1. Top(t) = stack[t][Depth(t)] /\ Depth(t) \in Nat /\ Depth(t) > 0 BY TopFacts
<1>2. ASSUME NEW u \in Threads
      PROVE  /\ Depth(u)' \in Nat /\ Depth(u) \in Nat /\ Depth(u)' <= Depth(u)
             /\ \A i \in 1..Depth(u)' : stack'[u][i] = stack[u][i]
             /\ \A i \in 1..Depth(u) : i \in 1..Depth(u)' \/ NotOf(stack[u][i], e)
  <2>1. CASE u # t BY <2>1, DepthNat DEF Popped, OthersKept, Depth
  <2>2. CASE u = t
    <3>1. /\ Depth(t)' = Depth(t) - 1
          /\ \A i \in 1..(Depth(t) - 1) : stack'[t][i] = stack[t][i]
      BY DEF Popped
    <3>2. ASSUME NEW i \in 1..Depth(t) PROVE i \in 1..Depth(t)' \/ NotOf(stack[t][i], e)
      BY <1>1, <3>1
    <3> QED BY <1>1, <2>2, <3>1, <3>2
  <2> QED BY <2>1, <2>2
<1> QED BY <1>2 DEF RunKept, TaskKept, RunsEffect, HasTask, NotOf

LEMMA KeptReturned ==
  ASSUME StackInv, NEW t \in Threads, ~Idle(t), NEW h, Returned(t, h), NEW e,
         NotOf(Top(t), e),
         \/ h.op = Below(t).op /\ h.node = Below(t).node /\ h.pc = Below(t).pc
            /\ h.vals = Below(t).vals
         \/ NotOf(h, e) /\ NotOf(Below(t), e)
  PROVE  RunKept(e) /\ TaskKept(e)
<1>1. Top(t) = stack[t][Depth(t)] /\ Depth(t) \in Nat /\ Depth(t) > 0 BY TopFacts
<1> DEFINE Like(f, g) == f.op = g.op /\ f.node = g.node /\ f.pc = g.pc /\ f.vals = g.vals
<1>2. ASSUME NEW u \in Threads
      PROVE  /\ Depth(u)' \in Nat /\ Depth(u) \in Nat /\ Depth(u)' <= Depth(u)
             /\ \A i \in 1..Depth(u)' : \/ Like(stack'[u][i], stack[u][i])
                                        \/ NotOf(stack[u][i], e) /\ NotOf(stack'[u][i], e)
             /\ \A i \in 1..Depth(u) : i \in 1..Depth(u)' \/ NotOf(stack[u][i], e)
  <2>1. CASE u # t BY <2>1, DepthNat DEF Returned, OthersKept, Depth
  <2>2. CASE u = t
    <3>1. /\ Depth(t)' = Depth(t) - 1 /\ stack'[t][Depth(t) - 1] = h
          /\ \A i \in 1..(Depth(t) - 1) : i # Depth(t) - 1 => stack'[t][i] = stack[t][i]
      BY DEF Returned
    <3>2. ASSUME NEW i \in 1..Depth(t) PROVE i \in 1..Depth(t)' \/ NotOf(stack[t][i], e)
      BY <1>1, <3>1
    <3>3. ASSUME NEW i \in 1..(Depth(t) - 1)
          PROVE  \/ Like(stack'[t][i], stack[t][i])
                 \/ NotOf(stack[t][i], e) /\ NotOf(stack'[t][i], e)
      <4>1. CASE i = Depth(t) - 1
        <5>1. stack'[t][i] = h /\ stack[t][i] = Below(t) BY <3>1, <4>1 DEF Below
        <5> QED BY <5>1
      <4>2. CASE i # Depth(t) - 1 BY <3>1, <4>2
      <4> QED BY <4>1, <4>2
    <3> QED BY <1>1, <2>2, <3>1, <3>2, <3>3
  <2> QED BY <2>1, <2>2
<1> HIDE DEF Like
<1>3. \A f, g : Like(f, g) => f.op = g.op /\ f.node = g.node /\ f.pc = g.pc /\ f.vals = g.vals
  BY DEF Like
<1> QED BY <1>2, <1>3 DEF RunKept, TaskKept, RunsEffect, HasTask, NotOf

LEMMA KeptEntered ==
  ASSUME StackInv, NEW t \in Threads, NEW h, Entered(t, h), NEW e, NotOf(h, e)
  PROVE  RunKept(e) /\ TaskKept(e)
<1>1. ASSUME NEW u \in Threads, u # t PROVE stack'[u] = stack[u]
  BY <1>1 DEF Entered, OthersKept
<1>2. Depth(t) = 0 /\ Depth(t)' = 1 /\ stack'[t][1] = h BY DEF Entered
<1> QED BY <1>1, <1>2 DEF RunKept, TaskKept, RunsEffect, HasTask, NotOf, Depth

LEMMA KeptGot ==
  ASSUME StackInv, NEW t \in Threads, NEW g, NEW h, Got(t, g, h), NEW e, NotOf(g, e), NotOf(h, e)
  PROVE  RunKept(e) /\ TaskKept(e)
<1>1. ASSUME NEW u \in Threads, u # t PROVE stack'[u] = stack[u]
  BY <1>1 DEF Got, OthersKept
<1>2. Depth(t) = 0 /\ Depth(t)' = 2 /\ stack'[t][1] = g /\ stack'[t][2] = h BY DEF Got
<1> QED BY <1>1, <1>2 DEF RunKept, TaskKept, RunsEffect, HasTask, NotOf, Depth

LEMMA TopAfter ==
  ASSUME NEW t \in Threads, NEW h,
         Replaced(t, h) \/ Entered(t, h) \/ Returned(t, h) \/ \E f : Called(t, f, h)
  PROVE  ~Idle(t)' /\ Top(t)' = h
<1>1. stack'[t][Depth(t)'] = h /\ Depth(t)' # 0
  BY DEF Replaced, Entered, Returned, Called
<1> QED BY <1>1 DEF Idle, Top, Last, Depth

LEMMA AnnouncementKept ==
  ASSUME NEW t \in Threads, OthersKept(t), Idle(t) \/ Top(t).op # "mark", NEW e, NEW x,
         Announced(e, x)
  PROVE  Announced(e, x)'
<1>1. PICK u \in Threads : Announces(u, e, x) BY DEF Announced
<1>2. u # t BY <1>1 DEF Announces
<1>3. stack'[u] = stack[u] BY <1>2 DEF OthersKept
<1>4. Announces(u, e, x)' BY <1>1, <1>3 DEF Announces, Idle, Top
<1> QED BY <1>4 DEF Announced

\* A step that does not take from e what it knows of its sources.
LEMMA InformedStep ==
  ASSUME GraphInv, NEW e \in Effects, EffectInv(e), RunKept(e), OneTask(e)', FirstInv(e)',
         \A x \in Sources : e \in ToSet(subs[x]) => e \in ToSet(subs'[x]),
         seen'[e] = seen[e], first'[e] = first[e],
         (\A t \in Threads : ~InTask(t, e, "run")') => \A t \in Threads : ~InTask(t, e, "run"),
         (Running(e) \/ \A t \in Threads : ~InTask(t, e, "run")') => (Heard(e) => Heard(e)'),
         \A x \in Signals : value'[x] = value[x] \/ Announced(e, x)',
         \A x \in Signals : e \in ToSet(subs[x]) /\ Announced(e, x) => Announced(e, x)' \/ Heard(e)'
  PROVE  EffectInv(e)'
<1>0. e \in Subscribers /\ \A j \in 1..Len(Reads[e]) : Reads[e][j] \in Sources
  BY ReadsFacts DEF Subscribers
<1>3. ASSUME NEW k \in Nat, k <= Len(Reads[e]), SubscribedTo(e, k) PROVE SubscribedTo(e, k)'
  BY <1>0, <1>3, ReadsFacts DEF SubscribedTo
<1>4. ASSUME NEW vals \in Seq(Nat), SubscribedTo(e, Len(vals)), FreshFor(e, vals),
             Heard(e) => Heard(e)'
      PROVE  FreshFor(e, vals)'
  <2> SUFFICES ASSUME NEW j \in 1..Len(vals), Reads[e][j] \in Signals
               PROVE  \/ vals[j] = value'[Reads[e][j]] \/ Announced(e, Reads[e][j])'
                      \/ Heard(e)'
    BY DEF FreshFor
  <2> DEFINE x == Reads[e][j]
  <2>1. e \in ToSet(subs[x]) BY <1>4 DEF SubscribedTo
  <2>2. vals[j] = value[x] \/ Announced(e, x) \/ Heard(e) BY <1>4 DEF FreshFor
  <2>3. x \in Signals OBVIOUS
  <2> HIDE DEF x
  <2>4. vals[j] = value'[x] \/ Announced(e, x)' \/ Heard(e)' BY <1>4, <2>1, <2>2, <2>3
  <2> QED BY <2>4 DEF x
<1>7. RunInv(e)'
  <2> SUFFICES ASSUME NEW t \in Threads, RunsEffect(t, e)'
               PROVE  (LET f == stack[t][2] IN
                       /\ ~first[e]
                       /\ Len(f.vals) <= Len(Reads[e])
                       /\ FreshFor(e, f.vals)
                       /\ SubscribedTo(e, IF f.pc = "read" THEN Len(f.vals) + 1
                                          ELSE Len(f.vals)))'
    BY DEF RunInv
  <2> DEFINE f == stack[t][2]
             k == IF f.pc = "read" THEN Len(f.vals) + 1 ELSE Len(f.vals)
  <2>1. RunsEffect(t, e) /\ f'.pc = f.pc /\ f'.vals = f.vals BY DEF RunKept
  <2>2. ~first[e] /\ Len(f.vals) <= Len(Reads[e]) /\ FreshFor(e, f.vals) /\ SubscribedTo(e, k)
    BY <2>1 DEF EffectInv, RunInv
  <2>3. f \in Frames /\ RunOK(f) /\ f.op = "run" /\ f.node = e
    <3>1. 2 \in 1..Depth(t) BY <2>1, GoodNow DEF RunsEffect
    <3> QED BY <2>1, <3>1, GoodNow DEF RunsEffect, FrameOK
  <2>4. f.vals \in Seq(Nat) /\ Len(f.vals) \in Nat BY <2>3 DEF Frames
  <2>5. k \in Nat /\ k <= Len(Reads[e]) /\ Len(f.vals) <= k
    <3>1. f.pc = "read" => Len(f.vals) + 1 \in 1..Len(Reads[e]) BY <2>3, NextReadFacts
    <3> QED BY <2>2, <2>4, <3>1
  <2>6. SubscribedTo(e, Len(f.vals)) BY <2>2, <2>4, <2>5 DEF SubscribedTo
  <2> HIDE DEF f, k
  <2>12. Heard(e) => Heard(e)' BY <2>1 DEF Running
  <2>7. \A w \in {f.vals} : FreshFor(e, w)' BY <1>4, <2>2, <2>4, <2>6, <2>12
  <2>8. \A n \in {k} : SubscribedTo(e, n)' BY <1>3, <2>2, <2>5
  <2>9. FreshFor(e, f.vals)' BY <2>1, <2>7 DEF FreshFor
  <2>10. k' = k BY <2>1 DEF k
  <2>11. SubscribedTo(e, k)' BY <2>8, <2>10 DEF SubscribedTo
  <2> QED BY <2>1, <2>2, <2>9, <2>11 DEF f, k
<1>8. RestInv(e)'
  <2> SUFFICES ASSUME ~Running(e)'
               PROVE  /\ Len(seen'[e]) <= Len(Reads[e])
                      /\ SubscribedTo(e, Len(seen[e]))'
                      /\ ~first'[e] => Len(seen'[e]) = ReadCount(e, seen'[e])
                      /\ (\A t \in Threads : ~InTask(t, e, "run")') => FreshFor(e, seen[e])'
    BY DEF RestInv, ReadCount
  <2>1. ~Running(e) BY DEF Running, RunKept
  <2>2. /\ Len(seen[e]) <= Len(Reads[e])
        /\ SubscribedTo(e, Len(seen[e]))
        /\ ~first[e] => Len(seen[e]) = ReadCount(e, seen[e])
        /\ (\A t \in Threads : ~InTask(t, e, "run")) => FreshFor(e, seen[e])
    BY <2>1 DEF EffectInv, RestInv
  <2>3. seen[e] \in Seq(Nat) /\ Len(seen[e]) \in Nat BY <1>0 DEF GraphInv, StateInv
  <2>4. \A n \in {Len(seen[e])} : SubscribedTo(e, n)' BY <1>3, <2>2, <2>3
  <2>5. SubscribedTo(e, Len(seen[e]))' BY <2>4 DEF SubscribedTo
  <2>6. ASSUME \A t \in Threads : ~InTask(t, e, "run")' PROVE FreshFor(e, seen[e])'
    <3>1. FreshFor(e, seen[e]) BY <2>2, <2>6
    <3>3. Heard(e) => Heard(e)' BY <2>6
    <3>2. \A w \in {seen[e]} : FreshFor(e, w)' BY <1>4, <2>2, <2>3, <3>1, <3>3
    <3> QED BY <3>2 DEF FreshFor
  <2> QED BY <2>2, <2>5, <2>6
<1> QED BY <1>7, <1>8 DEF EffectInv

\* Whatever is not a step of e leaves e as well informed as it was.
LEMMA QuietStep ==
  ASSUME GraphInv, NEW e \in Effects, EffectInv(e), RunKept(e), TaskKept(e),
         \A x \in Sources : e \in ToSet(subs[x]) => e \in ToSet(subs'[x]),
         seen'[e] = seen[e], first'[e] = first[e],
         dirty[e] => dirty'[e], notified[e] => notified'[e], missed[e] => missed'[e],
         \A x \in Signals : value'[x] = value[x] \/ Announced(e, x)',
         \A x \in Signals : e \in ToSet(subs[x]) /\ Announced(e, x) => Announced(e, x)' \/ Heard(e)'
  PROVE  EffectInv(e)'
<1>1. \A t \in Threads, pc \in {"dirty", "run", "end"} : InTask(t, e, pc)' <=> InTask(t, e, pc)
  BY DEF InTask, TaskKept
<1>2. Heard(e) => Heard(e)' BY <1>1 DEF Heard
<1>3. OneTask(e)' BY DEF EffectInv, OneTask, TaskKept
<1>4. FirstInv(e)' BY <1>1 DEF EffectInv, FirstInv, TaskKept
<1> QED BY <1>1, <1>2, <1>3, <1>4, InformedStep

\* A step of a thread that marks nothing, and changes no signal and nothing of e.
LEMMA QuietForOther ==
  ASSUME GraphInv, NEW e \in Effects, EffectInv(e), RunKept(e), TaskKept(e),
         NEW t \in Threads, OthersKept(t), Idle(t) \/ Top(t).op # "mark",
         \A x \in Sources : e \in ToSet(subs[x]) => e \in ToSet(subs'[x]),
         seen'[e] = seen[e], first'[e] = first[e],
         dirty[e] => dirty'[e], notified[e] => notified'[e], missed[e] => missed'[e],
         \A x \in Signals : value'[x] = value[x] \/ Announced(e, x)'
  PROVE  EffectInv(e)'
<1>1. \A x \in Signals : Announced(e, x) => Announced(e, x)' BY AnnouncementKept
<1> QED BY <1>1, QuietStep

\* The same, when only the stack changes.
LEMMA QuietStack ==
  ASSUME GraphInv, NEW e \in Effects, EffectInv(e), RunKept(e), TaskKept(e),
         NEW t \in Threads, OthersKept(t), Idle(t) \/ Top(t).op # "mark",
         UNCHANGED <<value, subs, dirty, notified, first, missed, seen>>
  PROVE  EffectInv(e)'
BY QuietForOther

LEMMA ConcatSet ==
  ASSUME NEW F, NEW p \in Seq(F), NEW q \in Seq(F)
  PROVE  ToSet(p \o q) = ToSet(p) \cup ToSet(q)
<1> DEFINE r == p \o q
<1>1. /\ r \in Seq(F) /\ Len(r) = Len(p) + Len(q)
      /\ \A i \in 1..(Len(p) + Len(q)) : r[i] = IF i <= Len(p) THEN p[i] ELSE q[i - Len(p)]
  BY ConcatProperties
<1>2. /\ DOMAIN r = 1..(Len(p) + Len(q)) /\ DOMAIN p = 1..Len(p) /\ DOMAIN q = 1..Len(q)
      /\ Len(p) \in Nat /\ Len(q) \in Nat
  BY <1>1
<1> HIDE DEF r
<1>3. ASSUME NEW x \in ToSet(r) PROVE x \in ToSet(p) \cup ToSet(q)
  <2>1. PICK i \in 1..(Len(p) + Len(q)) : r[i] = x BY <1>2 DEF ToSet
  <2>2. CASE i <= Len(p) BY <1>1, <1>2, <2>1, <2>2 DEF ToSet
  <2>3. CASE ~(i <= Len(p))
    <3>1. i - Len(p) \in 1..Len(q) /\ q[i - Len(p)] = x BY <1>1, <1>2, <2>1, <2>3
    <3> QED BY <1>2, <3>1 DEF ToSet
  <2> QED BY <2>2, <2>3
<1>4. ASSUME NEW x \in ToSet(p) PROVE x \in ToSet(r)
  <2>1. PICK i \in 1..Len(p) : p[i] = x BY <1>2 DEF ToSet
  <2>2. i \in 1..(Len(p) + Len(q)) /\ r[i] = x BY <1>1, <1>2, <2>1
  <2> QED BY <1>2, <2>2 DEF ToSet
<1>5. ASSUME NEW x \in ToSet(q) PROVE x \in ToSet(r)
  <2>1. PICK i \in 1..Len(q) : q[i] = x BY <1>2 DEF ToSet
  <2>2. i + Len(p) \in 1..(Len(p) + Len(q)) /\ r[i + Len(p)] = x BY <1>1, <1>2, <2>1
  <2> QED BY <1>2, <2>2 DEF ToSet
<1> QED BY <1>3, <1>4, <1>5 DEF r

LEMMA MarkAllSet ==
  ASSUME NEW q \in Seq(Subscribers), NEW how \in {"dirty", "check"}
  PROVE  ToSet(MarkAll(q, how)) = {<<n, how>> : n \in ToSet(q)}
<1> DEFINE r == MarkAll(q, how)
<1>1. r \in Seq(Marks) /\ Len(r) = Len(q) /\ \A k \in 1..Len(q) : r[k] = <<q[k], how>>
  BY MarkAllFacts
<1> HIDE DEF r
<1>2. DOMAIN r = 1..Len(q) /\ DOMAIN q = 1..Len(q) BY <1>1
<1>3. ASSUME NEW x \in ToSet(r) PROVE x \in {<<n, how>> : n \in ToSet(q)}
  <2>1. PICK k \in 1..Len(q) : r[k] = x BY <1>2 DEF ToSet
  <2>2. x = <<q[k], how>> /\ q[k] \in ToSet(q) BY <1>1, <1>2, <2>1 DEF ToSet
  <2> QED BY <2>2
<1>4. ASSUME NEW n \in ToSet(q) PROVE <<n, how>> \in ToSet(r)
  <2>1. PICK k \in 1..Len(q) : q[k] = n BY <1>2 DEF ToSet
  <2>2. r[k] = <<n, how>> BY <1>1, <2>1
  <2> QED BY <1>2, <2>2 DEF ToSet
<1> QED BY <1>3, <1>4 DEF r

LEMMA SetEffect ==
  ASSUME GraphInv, NEW t \in Threads, NEW s \in Signals, Set(t, s),
         NEW e \in Effects, EffectInv(e)
  PROVE  EffectInv(e)'
<1>1. Idle(t) /\ \E h : Entered(t, h) /\ Is(h, "mark", s, "clone", <<>>, <<>>, FALSE)
  BY SetShape DEF GraphInv
<1>0. PICK h : Entered(t, h) /\ Is(h, "mark", s, "clone", <<>>, <<>>, FALSE) BY <1>1
<1>2. Entered(t, h) /\ h.op = "mark" /\ h.pc = "clone" /\ h.node = s BY <1>0 DEF Is
<1>3. RunKept(e) /\ TaskKept(e) BY <1>2, KeptEntered DEF NotOf, GraphInv
<1>4. OthersKept(t) BY <1>2 DEF Entered
<1>5. /\ value' = [value EXCEPT ![s] = value[s] + 1]
      /\ UNCHANGED <<subs, dirty, notified, first, missed, seen>>
  BY DEF Set, effects
<1>6. Announced(e, s)' BY <1>2, TopAfter DEF Announced, Announces
<1>7. \A x \in Signals : value'[x] = value[x] \/ Announced(e, x)'
  BY <1>5, <1>6 DEF GraphInv, StateInv, Sources
<1> QED BY <1>1, <1>3, <1>4, <1>5, <1>7, QuietForOther

\* A thread that marks goes on to announce what it has announced.
LEMMA CloneEffect ==
  ASSUME GraphInv, NEW t \in Threads, CloneSubscribers(t), NEW e \in Effects, EffectInv(e)
  PROVE  EffectInv(e)'
<1> DEFINE f == Top(t)
<1>1. /\ At(t, "mark", "clone") /\ f.node \in Signals
      /\ \E h : Replaced(t, h) /\ Is(h, "mark", f.node, "mark", MarkAll(subs[f.node], "dirty"),
                                     f.vals, f.ret)
  BY CloneShape DEF GraphInv
<1>2. PICK h : Replaced(t, h) /\ Is(h, "mark", f.node, "mark", MarkAll(subs[f.node], "dirty"),
                                    f.vals, f.ret)
  BY <1>1
<1>3. RunKept(e) /\ TaskKept(e) BY <1>1, <1>2, KeptReplaced DEF NotOf, GraphInv, At, Is
<1>4. OthersKept(t) /\ UNCHANGED <<value, subs, dirty, notified, first, missed, seen>>
  BY <1>2 DEF Replaced, CloneSubscribers, graph, effects
<1>5. ASSUME NEW x \in Signals, e \in ToSet(subs[x]), Announced(e, x) PROVE Announced(e, x)'
  <2>1. PICK u \in Threads : Announces(u, e, x) BY <1>5 DEF Announced
  <2>2. CASE u # t
    <3>1. Announces(u, e, x)' BY <1>4, <2>1, <2>2 DEF Announces, OthersKept, Idle, Top
    <3> QED BY <3>1 DEF Announced
  <2>3. CASE u = t
    <3>1. f.node = x BY <1>1, <2>1, <2>3 DEF Announces, At
    <3>2. subs[x] \in Seq(Subscribers) BY DEF GraphInv, StateInv, Sources
    <3>3. <<e, "dirty">> \in ToSet(MarkAll(subs[x], "dirty")) BY <1>5, <3>2, MarkAllSet
    <3>4. ~Idle(t)' /\ Top(t)' = h BY <1>2, TopAfter
    <3>5. h.op = "mark" /\ h.pc = "mark" /\ <<e, "dirty">> \in ToSet(h.todo)
      BY <1>2, <3>1, <3>3 DEF Is
    <3>6. Announces(t, e, x)' BY <3>4, <3>5 DEF Announces
    <3> QED BY <3>6 DEF Announced
  <2> QED BY <2>2, <2>3
<1> QED BY <1>3, <1>4, <1>5, QuietStep

LEMMA MarkMemoEffect ==
  ASSUME GraphInv, NEW t \in Threads, MarkMemo(t), NEW e \in Effects, EffectInv(e)
  PROVE  EffectInv(e)'
<1> DEFINE f == Top(t)
           m == Head(f.todo)[1]
           todo == MarkAll(subs[m], "check") \o Tail(f.todo)
<1>1. /\ At(t, "mark", "mark") /\ f.todo \in Seq(Marks) /\ f.todo # <<>> /\ m \in Memos
      /\ \E h : Replaced(t, h) /\ Is(h, "mark", f.node, "mark", todo, f.vals, f.ret)
  BY MarkMemoShape DEF GraphInv
<1>2. PICK h : Replaced(t, h) /\ Is(h, "mark", f.node, "mark", todo, f.vals, f.ret)
  BY <1>1
<1>3. RunKept(e) /\ TaskKept(e) BY <1>1, <1>2, KeptReplaced DEF NotOf, GraphInv, At, Is
<1>4. OthersKept(t) /\ UNCHANGED <<value, subs, dirty, notified, first, missed, seen>>
  BY <1>2 DEF Replaced, MarkMemo, effects
<1>5. ASSUME NEW x \in Signals, Announced(e, x) PROVE Announced(e, x)'
  <2>1. PICK u \in Threads : Announces(u, e, x) BY <1>5 DEF Announced
  <2>2. CASE u # t
    <3>1. Announces(u, e, x)' BY <1>4, <2>1, <2>2 DEF Announces, OthersKept, Idle, Top
    <3> QED BY <3>1 DEF Announced
  <2>3. CASE u = t
    <3>1. <<e, "dirty">> \in ToSet(f.todo) BY <1>1, <2>1, <2>3 DEF Announces, At
    <3>2. e # m BY <1>1, KindsAssumption DEF Sources
    <3>3. <<e, "dirty">> \in ToSet(Tail(f.todo)) /\ Tail(f.todo) \in Seq(Marks)
      <4>1. Head(f.todo) # <<e, "dirty">> BY <3>2
      <4> QED BY <1>1, <3>1, <4>1, HeadTail
    <3>4. MarkAll(subs[m], "check") \in Seq(Marks)
      BY <1>1, MarkAllFacts DEF GraphInv, StateInv, Sources
    <3>5. <<e, "dirty">> \in ToSet(todo)
      <4>1. \A p, q \in Seq(Marks) : ToSet(p \o q) = ToSet(p) \cup ToSet(q) BY ConcatSet
      <4>2. ToSet(todo) = ToSet(MarkAll(subs[m], "check")) \cup ToSet(Tail(f.todo))
        BY <3>3, <3>4, <4>1
      <4> QED BY <3>3, <4>2
    <3>6. ~Idle(t)' /\ Top(t)' = h BY <1>2, TopAfter
    <3>7. h.op = "mark" /\ h.pc = "mark" /\ <<e, "dirty">> \in ToSet(h.todo)
      BY <1>2, <3>5 DEF Is
    <3>8. Announces(t, e, x)' BY <3>6, <3>7 DEF Announces
    <3> QED BY <3>8 DEF Announced
  <2> QED BY <2>2, <2>3
<1> QED BY <1>3, <1>4, <1>5, QuietStep

LEMMA MarkEffectEffect ==
  ASSUME GraphInv, NEW t \in Threads, MarkEffect(t), NEW e \in Effects, EffectInv(e)
  PROVE  EffectInv(e)'
<1> DEFINE f == Top(t)
           n == Head(f.todo)[1]
           how == Head(f.todo)[2]
<1>1. /\ At(t, "mark", "mark") /\ f.todo \in Seq(Marks) /\ f.todo # <<>> /\ n \in Effects
      /\ \E h : Replaced(t, h) /\ Is(h, "mark", f.node, "mark", Tail(f.todo), f.vals, f.ret)
  BY MarkEffectShape DEF GraphInv
<1>2. PICK h : Replaced(t, h) /\ Is(h, "mark", f.node, "mark", Tail(f.todo), f.vals, f.ret)
  BY <1>1
<1>3. RunKept(e) /\ TaskKept(e) BY <1>1, <1>2, KeptReplaced DEF NotOf, GraphInv, At, Is
<1>4. OthersKept(t) /\ UNCHANGED <<value, subs, first, missed, seen>>
  BY <1>2 DEF Replaced, MarkEffect, graph
<1>5. /\ dirty' = [dirty EXCEPT ![n] = dirty[n] \/ how = "dirty"]
      /\ notified' = [notified EXCEPT ![n] = notified[n] \/ Notifies(how)]
  BY DEF MarkEffect
<1>6. /\ dirty[e] => dirty'[e]
      /\ notified[e] => notified'[e]
      /\ (n = e /\ how = "dirty") => (dirty'[e] /\ notified'[e])
  <2> HIDE DEF n, how
  <2>1. dirty \in [Effects -> BOOLEAN] /\ notified \in [Effects -> BOOLEAN]
    BY DEF GraphInv, StateInv
  <2> QED BY <1>1, <1>5, <2>1 DEF Notifies
<1>7. ASSUME NEW x \in Signals, Announced(e, x) PROVE Announced(e, x)' \/ Heard(e)'
  <2>1. PICK u \in Threads : Announces(u, e, x) BY <1>7 DEF Announced
  <2>2. CASE u # t
    <3>1. Announces(u, e, x)' BY <1>4, <2>1, <2>2 DEF Announces, OthersKept, Idle, Top
    <3> QED BY <3>1 DEF Announced
  <2>3. CASE u = t /\ Head(f.todo) = <<e, "dirty">>
    <3>1. n = e /\ how = "dirty" BY <2>3
    <3> QED BY <1>6, <3>1 DEF Heard
  <2>4. CASE u = t /\ Head(f.todo) # <<e, "dirty">>
    <3>1. <<e, "dirty">> \in ToSet(f.todo) BY <1>1, <2>1, <2>4 DEF Announces, At
    <3>3. <<e, "dirty">> \in ToSet(Tail(f.todo)) BY <1>1, <2>4, <3>1, HeadTail
    <3>6. ~Idle(t)' /\ Top(t)' = h BY <1>2, TopAfter
    <3>7. h.op = "mark" /\ h.pc = "mark" /\ <<e, "dirty">> \in ToSet(h.todo)
      BY <1>2, <3>3 DEF Is
    <3>8. Announces(t, e, x)' BY <3>6, <3>7 DEF Announces
    <3> QED BY <3>8 DEF Announced
  <2> QED BY <2>2, <2>3, <2>4
<1> QED BY <1>3, <1>4, <1>6, <1>7, QuietStep

LEMMA MarkDoneEffect ==
  ASSUME GraphInv, NEW t \in Threads, MarkDone(t), NEW e \in Effects, EffectInv(e)
  PROVE  EffectInv(e)'
<1>1. At(t, "mark", "mark") /\ Popped(t) /\ Top(t).todo = <<>> BY MarkDoneShape DEF GraphInv
<1>2. RunKept(e) /\ TaskKept(e) BY <1>1, KeptPopped DEF NotOf, GraphInv, At
<1>3. OthersKept(t) /\ UNCHANGED <<value, subs, dirty, notified, first, missed, seen>>
  BY <1>1 DEF Popped, MarkDone, graph, effects
<1>4. ASSUME NEW x \in Signals, Announced(e, x) PROVE Announced(e, x)'
  <2>1. PICK u \in Threads : Announces(u, e, x) BY <1>4 DEF Announced
  <2>2. u # t BY <1>1, <2>1 DEF Announces, At, ToSet
  <2>3. Announces(u, e, x)' BY <1>3, <2>1, <2>2 DEF Announces, OthersKept, Idle, Top
  <2> QED BY <2>3 DEF Announced
<1> QED BY <1>2, <1>3, <1>4, QuietStep

\* The update of a memo is no business of an effect's.
LEMMA KeptByUpdate ==
  ASSUME GraphInv, NEW t \in Threads, NEW e \in Effects, ~Idle(t), Top(t).op = "update",
         \/ \E h : Replaced(t, h) /\ h.op = "update"
         \/ \E h, g : Called(t, h, g) /\ h.op = "update" /\ g.op \in {"update", "mark"}
         \/ \E h, g : /\ Called(t, h, g) /\ h.op = "update" /\ g.op = "run" /\ g.node \in Memos
         \/ \E ret : Answered(t, ret)
  PROVE  RunKept(e) /\ TaskKept(e) /\ OthersKept(t)
<1>1. StackInv /\ NotOf(Top(t), e) BY DEF GraphInv, NotOf
<1>2. CASE \E h : Replaced(t, h) /\ h.op = "update"
  <2>1. PICK h : Replaced(t, h) /\ h.op = "update" BY <1>2
  <2>2. NotOf(h, e) BY <2>1 DEF NotOf
  <2> QED BY <1>1, <2>1, <2>2, KeptReplaced DEF Replaced
<1>3. CASE \E h, g : Called(t, h, g) /\ h.op = "update" /\ g.op \in {"update", "mark"}
  <2>1. PICK h, g : Called(t, h, g) /\ h.op = "update" /\ g.op \in {"update", "mark"} BY <1>3
  <2>2. NotOf(h, e) /\ NotOf(g, e) BY <2>1 DEF NotOf
  <2> QED BY <1>1, <2>1, <2>2, KeptCalled DEF Called
<1>4. CASE \E h, g : /\ Called(t, h, g) /\ h.op = "update" /\ g.op = "run" /\ g.node \in Memos
  <2>1. PICK h, g : Called(t, h, g) /\ h.op = "update" /\ g.op = "run" /\ g.node \in Memos
    BY <1>4
  <2>2. g.node # e BY <2>1, KindsAssumption DEF Sources
  <2>3. NotOf(h, e) /\ NotOf(g, e) BY <2>1, <2>2 DEF NotOf
  <2> QED BY <1>1, <2>1, <2>3, KeptCalled DEF Called
<1>5. CASE \E ret : Answered(t, ret)
  <2>1. PICK ret, h : /\ Returned(t, h)
                      /\ Is(h, Below(t).op, Below(t).node, Below(t).pc, Below(t).todo,
                            Below(t).vals, ret)
    BY <1>5 DEF Answered
  <2>2. h.op = Below(t).op /\ h.node = Below(t).node /\ h.pc = Below(t).pc
        /\ h.vals = Below(t).vals
    BY <2>1 DEF Is
  <2> QED BY <1>1, <2>1, <2>2, KeptReturned DEF Returned
<1> QED BY <1>2, <1>3, <1>4, <1>5

LEMMA UpdatingKeeps ==
  ASSUME GraphInv, NEW t \in Threads, Updating(t), NEW e \in Effects
  PROVE  /\ RunKept(e) /\ TaskKept(e) /\ OthersKept(t)
         /\ ~Idle(t) /\ Top(t).op = "update" /\ Top(t).node \in Memos
<1> USE DEF GraphInv
<1>1. CASE NeedsUpdate(t)
  <2>1. At(t, "update", "state") /\ \E h : Replaced(t, h) /\ h.op = "update"
    BY <1>1, NeedsUpdateShape DEF Is
  <2> QED BY <2>1, KeptByUpdate, UpdateTop DEF At
<1>2. CASE CheckSource(t)
  <2>1. /\ At(t, "update", "sources")
        /\ \/ \E h : Replaced(t, h) /\ h.op = "update"
           \/ \E h, g : Called(t, h, g) /\ h.op = "update" /\ g.op = "update"
    BY <1>2, CheckSourceShape, ZenonT(60) DEF Is
  <2> QED BY <2>1, KeptByUpdate, UpdateTop DEF At
<1>3. CASE CheckOwn(t)
  <2>1. At(t, "update", "own") /\ \E h : Replaced(t, h) /\ h.op = "update"
    BY <1>3, CheckOwnShape DEF Is
  <2> QED BY <2>1, KeptByUpdate, UpdateTop DEF At
<1>4. CASE SetClean(t)
  <2>1. At(t, "update", "clean") /\ Answered(t, FALSE) BY <1>4, SetCleanShape
  <2> QED BY <2>1, KeptByUpdate, UpdateTop DEF At
<1>5. CASE Begin(t)
  <2>1. At(t, "update", "begin")
        /\ (Answered(t, FALSE) \/ \E h : Replaced(t, h) /\ h.op = "update")
    BY <1>5, BeginShape DEF Is
  <2> QED BY <2>1, KeptByUpdate, UpdateTop DEF At
<1>6. CASE StartMemo(t)
  <2>1. /\ At(t, "update", "clear") /\ Top(t).node \in Memos
        /\ \E h, g : Called(t, h, g) /\ h.op = "update" /\ g.op = "run" /\ g.node = Top(t).node
    BY <1>6, StartMemoShape, ZenonT(60) DEF Is
  <2> QED BY <2>1, KeptByUpdate DEF At
<1>7. CASE LockMemo(t)
  <2>1. At(t, "update", "commit") /\ \E h : Replaced(t, h) /\ h.op = "update"
    BY <1>7, LockMemoShape DEF Is
  <2> QED BY <2>1, KeptByUpdate, UpdateTop DEF At
<1>8. CASE CommitMemo(t)
  <2>1. /\ At(t, "update", "value")
        /\ \/ Answered(t, FALSE)
           \/ \E h, g : Called(t, h, g) /\ h.op = "update" /\ g.op = "mark"
    BY <1>8, CommitMemoShape, ZenonT(60) DEF Is
  <2> QED BY <2>1, KeptByUpdate, UpdateTop DEF At
<1>9. CASE ReturnChanged(t)
  <2>1. At(t, "update", "changed") /\ Answered(t, TRUE) BY <1>9, ReturnChangedShape
  <2> QED BY <2>1, KeptByUpdate, UpdateTop DEF At
<1> QED BY <1>1, <1>2, <1>3, <1>4, <1>5, <1>6, <1>7, <1>8, <1>9 DEF Updating

LEMMA UpdatingEffect ==
  ASSUME GraphInv, NEW t \in Threads, Updating(t), NEW e \in Effects, EffectInv(e)
  PROVE  EffectInv(e)'
<1> DEFINE m == Top(t).node
<1>1. /\ RunKept(e) /\ TaskKept(e) /\ OthersKept(t)
      /\ ~Idle(t) /\ Top(t).op = "update" /\ m \in Memos
  BY UpdatingKeeps
<1>2. Top(t).op # "mark" BY <1>1
<1>3. e # m /\ e \in Subscribers /\ m \in Subscribers
  BY <1>1, KindsAssumption DEF Sources, Subscribers
<1>4. CASE UNCHANGED <<value, subs, dirty, notified, first, missed, seen>>
  BY <1>1, <1>2, <1>4, QuietStack
<1>5. CASE StartMemo(t)
  <2>1. ClearSources(m) /\ UNCHANGED <<value, dirty, notified, first, missed, seen>>
    BY <1>5 DEF StartMemo, effects
  <2>2. ASSUME NEW x \in Sources, e \in ToSet(subs[x]) PROVE e \in ToSet(subs'[x])
    <3>1. subs'[x] = subs[x] \/ subs'[x] = Unsubscribe(subs[x], m)
      BY <1>3, <2>1, ClearSourcesTypes DEF GraphInv
    <3>2. subs[x] \in Seq(Subscribers) BY DEF GraphInv, StateInv
    <3>3. e \in ToSet(Unsubscribe(subs[x], m)) BY <1>3, <2>2, <3>2, UnsubscribeSeq
    <3> QED BY <2>2, <3>1, <3>3
  <2> QED BY <1>1, <1>2, <2>1, <2>2, QuietForOther
<1>6. CASE CommitMemo(t)
  <2>1. /\ value' = [value EXCEPT ![m] = Compute(m, Top(t).vals)]
        /\ seen' = [seen EXCEPT ![m] = Top(t).vals]
        /\ UNCHANGED <<subs, dirty, notified, first, missed>>
    BY <1>6 DEF CommitMemo, effects
  <2>2. seen'[e] = seen[e] BY <1>3, <2>1 DEF GraphInv, StateInv
  <2>3. ASSUME NEW x \in Signals PROVE value'[x] = value[x]
    <3>1. x # m /\ x \in Sources BY <1>1, KindsAssumption DEF Sources
    <3> QED BY <2>1, <3>1 DEF GraphInv, StateInv
  <2> QED BY <1>1, <1>2, <2>1, <2>2, <2>3, QuietForOther
<1>7. UNCHANGED <<value, subs, dirty, notified, first, missed, seen>>
      \/ StartMemo(t) \/ CommitMemo(t)
  BY DEF Updating, NeedsUpdate, CheckSource, CheckOwn, SetClean, Begin, LockMemo,
         ReturnChanged, graph, effects
<1> QED BY <1>4, <1>5, <1>6, <1>7

\* The function of an effect runs within its task.
LEMMA RunIsInTask ==
  ASSUME StackInv, NEW u \in Threads, NEW e \in Effects, RunsEffect(u, e)
  PROVE  InTask(u, e, "end") /\ HasTask(u, e)
<1>1. StackOK(stack[u]) /\ Depth(u) \in Nat BY DEF StackInv, StackOK, Depth
<1>2. 1 \in 1..Depth(u) /\ 1 < Depth(u) /\ 2 \in 1..Depth(u) BY <1>1 DEF RunsEffect
<1>3. Calls(stack[u][1], stack[u][2]) /\ FrameOK(stack[u][1]) BY <1>1, <1>2 DEF StackOK, Depth
<1>4. stack[u][1].op = "update" => stack[u][1].node # e
  BY <1>3, KindsAssumption DEF FrameOK, UpdateOK, Sources
<1>5. stack[u][2].op = "run" /\ stack[u][2].node = e BY DEF RunsEffect
<1>6. stack[u][1].op = "task" /\ stack[u][1].pc = "end" /\ stack[u][1].node = e
  BY <1>3, <1>4, <1>5 DEF Calls
<1> QED BY <1>1, <1>2, <1>6 DEF InTask, HasTask

LEMMA EffectRunTop ==
  ASSUME StackInv, NEW t \in Threads, ~Idle(t), NEW e \in Effects, Top(t).op = "run",
         Top(t).node = e
  PROVE  Depth(t) = 2 /\ stack[t][2] = Top(t) /\ RunsEffect(t, e) /\ InTask(t, e, "end")
<1>1. /\ StackOK(stack[t]) /\ Depth(t) \in Nat /\ Depth(t) > 0 /\ Top(t) = stack[t][Depth(t)]
      /\ FrameOK(Top(t))
  BY TopFacts
<1>2. Depth(t) # 1 BY <1>1 DEF StackOK, Root, Depth
<1>3. Calls(Below(t), Top(t)) /\ FrameOK(Below(t)) /\ Depth(t) - 1 \in 1..Depth(t)
  BY <1>2, CallerFacts
<1>4. Below(t).op = "update" => Below(t).node # e
  BY <1>3, KindsAssumption DEF FrameOK, UpdateOK, Sources
<1>5. Below(t).op = "task" BY <1>3, <1>4 DEF Calls
<1>6. Depth(t) - 1 = 1 BY <1>3, <1>5, RootIndex DEF Below
<1>7. Depth(t) = 2 BY <1>1, <1>6
<1>8. RunsEffect(t, e) BY <1>1, <1>7 DEF RunsEffect
<1> QED BY <1>1, <1>7, <1>8, RunIsInTask

\* One step of the function of e.
LEMMA OwnRunStep ==
  ASSUME GraphInv, NEW e \in Effects, EffectInv(e), NEW t \in Threads, ~Idle(t),
         Top(t).op = "run", Top(t).node = e, NEW h, h.op = "run", h.node = e,
         Replaced(t, h) \/ \E g : Called(t, h, g),
         UNCHANGED <<value, dirty, notified, first, missed, seen>>,
         Len(h.vals) <= Len(Reads[e]),
         h.vals \in Seq(Nat), Top(t).vals \in Seq(Nat),
         \A j \in 1..Len(h.vals) : \/ h.vals[j] = value[Reads[e][j]]
                                   \/ j \in 1..Len(Top(t).vals) /\ h.vals[j] = Top(t).vals[j],
         SubscribedTo(e, IF h.pc = "read" THEN Len(h.vals) + 1 ELSE Len(h.vals))'
  PROVE  EffectInv(e)'
<1>1. Depth(t) = 2 /\ stack[t][2] = Top(t) /\ RunsEffect(t, e) /\ InTask(t, e, "end")
  BY EffectRunTop DEF GraphInv
<1>2. /\ OthersKept(t) /\ stack'[t][1] = stack[t][1] /\ stack'[t][2] = h
      /\ Depth(t)' \in Nat /\ Depth(t)' >= 2
  BY <1>1 DEF Replaced, Called
<1>3. TaskKept(e)
  <2> SUFFICES ASSUME NEW u \in Threads
               PROVE  /\ HasTask(u, e)' <=> HasTask(u, e)
                      /\ HasTask(u, e) => stack'[u][1].pc = stack[u][1].pc
    BY DEF TaskKept
  <2>1. CASE u = t BY <1>1, <1>2, <2>1 DEF HasTask
  <2>2. CASE u # t BY <1>2, <2>2 DEF HasTask, OthersKept, Depth
  <2> QED BY <2>1, <2>2
<1>4. RunsEffect(t, e)' /\ Running(e)' BY <1>2 DEF RunsEffect, Running
<1>5. ASSUME NEW u \in Threads, RunsEffect(u, e)' PROVE u = t
  <2> SUFFICES ASSUME u # t PROVE FALSE OBVIOUS
  <2>1. RunsEffect(u, e) BY <1>2, <1>5 DEF RunsEffect, OthersKept, Depth
  <2>2. HasTask(u, e) /\ HasTask(t, e) BY <1>1, <2>1, RunIsInTask DEF GraphInv
  <2> QED BY <2>2 DEF EffectInv, OneTask
<1>6. \A u \in Threads, pc \in {"dirty", "run", "end"} : InTask(u, e, pc)' <=> InTask(u, e, pc)
  BY <1>3 DEF InTask, TaskKept
<1>7. Heard(e) => Heard(e)' BY <1>6 DEF Heard
<1>8. OneTask(e)' /\ FirstInv(e)' BY <1>3, <1>6 DEF EffectInv, OneTask, TaskKept, FirstInv
<1>9. \A x \in Signals : Announced(e, x) => Announced(e, x)'
  BY <1>2, AnnouncementKept
<1>10. ~first[e] /\ FreshFor(e, Top(t).vals) BY <1>1 DEF EffectInv, RunInv
<1>11. FreshFor(e, h.vals)'
  <2>1. ASSUME NEW j \in 1..Len(h.vals), Reads[e][j] \in Signals
        PROVE  h.vals[j] = value'[Reads[e][j]] \/ Announced(e, Reads[e][j])' \/ Heard(e)'
    <3>1. CASE h.vals[j] = value[Reads[e][j]] BY <3>1
    <3>2. CASE j \in 1..Len(Top(t).vals) /\ h.vals[j] = Top(t).vals[j]
      BY <1>7, <1>9, <1>10, <2>1, <3>2 DEF FreshFor
    <3> QED BY <3>1, <3>2
  <2> QED BY <2>1 DEF FreshFor
<1>12. RunInv(e)'
  <2> SUFFICES ASSUME NEW u \in Threads, RunsEffect(u, e)'
               PROVE  (LET f == stack[u][2] IN
                       /\ ~first[e]
                       /\ Len(f.vals) <= Len(Reads[e])
                       /\ FreshFor(e, f.vals)
                       /\ SubscribedTo(e, IF f.pc = "read" THEN Len(f.vals) + 1
                                          ELSE Len(f.vals)))'
    BY DEF RunInv
  <2>1. stack'[u][2] = h /\ ~first'[e] BY <1>2, <1>5, <1>10
  <2> QED BY <1>11, <2>1 DEF FreshFor, SubscribedTo
<1>13. RestInv(e)' BY <1>4 DEF RestInv
<1> QED BY <1>8, <1>12, <1>13 DEF EffectInv

\* A step of another function.
LEMMA OtherRunStep ==
  ASSUME GraphInv, NEW e \in Effects, EffectInv(e), NEW t \in Threads, ~Idle(t),
         Top(t).op = "run", Top(t).node # e, NEW h, h.op = "run", h.node = Top(t).node,
         Replaced(t, h) \/ \E g : Called(t, h, g) /\ g.op = "update",
         UNCHANGED <<value, dirty, notified, first, missed, seen>>,
         \A x \in Sources : e \in ToSet(subs[x]) => e \in ToSet(subs'[x])
  PROVE  EffectInv(e)'
<1>1. NotOf(Top(t), e) /\ NotOf(h, e) /\ StackInv BY DEF NotOf, GraphInv
<1>2. CASE Replaced(t, h)
  <2>1. RunKept(e) /\ TaskKept(e) /\ OthersKept(t) BY <1>1, <1>2, KeptReplaced DEF Replaced
  <2> QED BY <2>1, QuietForOther
<1>3. CASE \E g : Called(t, h, g) /\ g.op = "update"
  <2>1. PICK g : Called(t, h, g) /\ g.op = "update" BY <1>3
  <2>2. NotOf(g, e) BY <2>1 DEF NotOf
  <2>3. RunKept(e) /\ TaskKept(e) /\ OthersKept(t) BY <1>1, <2>1, <2>2, KeptCalled DEF Called
  <2> QED BY <2>3, QuietForOther
<1> QED BY <1>2, <1>3

LEMMA AddSourceEffect ==
  ASSUME GraphInv, NEW t \in Threads, AddSource(t), NEW e \in Effects, EffectInv(e)
  PROVE  EffectInv(e)'
<1> DEFINE f == Top(t)
<1>1. /\ At(t, "run", "next")
      /\ \E h : Replaced(t, h) /\ Is(h, "run", f.node, "track", f.todo, f.vals, f.ret)
  BY AddSourceShape DEF GraphInv
<1>2. PICK h : Replaced(t, h) /\ Is(h, "run", f.node, "track", f.todo, f.vals, f.ret) BY <1>1
<1>3. h.op = "run" /\ h.node = f.node /\ h.pc = "track" /\ h.vals = f.vals BY <1>2 DEF Is
<1>4. ~Idle(t) /\ f.op = "run" /\ f.pc = "next" BY <1>1 DEF At
<1>5. UNCHANGED <<value, subs, dirty, notified, first, missed, seen>>
  BY DEF AddSource, effects
<1>6. f.vals \in Seq(Nat) BY <1>4, RunTop DEF GraphInv
<1>7. CASE f.node = e
  <2>1. RunsEffect(t, e) /\ stack[t][2] = f BY <1>4, <1>7, EffectRunTop DEF GraphInv
  <2>2. Len(f.vals) <= Len(Reads[e]) /\ SubscribedTo(e, Len(f.vals))
    BY <1>4, <2>1 DEF EffectInv, RunInv
  <2>3. SubscribedTo(e, Len(h.vals))' BY <1>3, <1>5, <2>2 DEF SubscribedTo
  <2>4. \A j \in 1..Len(h.vals) : j \in 1..Len(f.vals) /\ h.vals[j] = f.vals[j] BY <1>3
  <2> HIDE DEF f
  <2>5. SubscribedTo(e, IF h.pc = "read" THEN Len(h.vals) + 1 ELSE Len(h.vals))'
    BY <1>3, <2>3
  <2> QED BY <1>2, <1>3, <1>4, <1>5, <1>6, <1>7, <2>2, <2>4, <2>5, OwnRunStep DEF f
<1>8. CASE f.node # e BY <1>2, <1>3, <1>4, <1>5, <1>8, OtherRunStep
<1> QED BY <1>7, <1>8

LEMMA AddSubscriberEffect ==
  ASSUME GraphInv, NEW t \in Threads, AddSubscriber(t), NEW e \in Effects, EffectInv(e)
  PROVE  EffectInv(e)'
<1> DEFINE f == Top(t)
           x == NextRead(f)
<1>1. /\ At(t, "run", "track") /\ f.node \in Subscribers /\ x \in Sources
      /\ \E h : /\ Is(h, "run", f.node, "read", f.todo, f.vals, f.ret)
                /\ Replaced(t, h) \/ \E g : Called(t, h, g) /\ g.op = "update"
  BY AddSubscriberShape, ZenonT(60) DEF GraphInv, Is
<1>2. PICK h : /\ Is(h, "run", f.node, "read", f.todo, f.vals, f.ret)
               /\ Replaced(t, h) \/ \E g : Called(t, h, g) /\ g.op = "update"
  BY <1>1
<1>3. h.op = "run" /\ h.node = f.node /\ h.pc = "read" /\ h.vals = f.vals BY <1>2 DEF Is
<1>4. ~Idle(t) /\ f.op = "run" /\ f.pc = "track" BY <1>1 DEF At
<1>5. /\ UNCHANGED <<value, dirty, notified, first, missed, seen>>
      /\ subs' = [subs EXCEPT ![x] = Subscribe(subs[x], f.node)]
  BY DEF AddSubscriber, effects
<1>6. f.vals \in Seq(Nat) /\ RunOK(f) /\ f \in Frames BY <1>4, RunTop DEF GraphInv
<1>9. /\ \A y \in Sources : \A n \in ToSet(subs[y]) : n \in ToSet(subs'[y])
      /\ f.node \in ToSet(subs'[x])
  <2>1. subs \in [Sources -> Seq(Subscribers)] BY DEF GraphInv, StateInv
  <2>2. ToSet(Subscribe(subs[x], f.node)) = ToSet(subs[x]) \cup {f.node}
    BY <1>1, <2>1, SubscribeSeq
  <2> HIDE DEF f, x
  <2>3. subs'[x] = Subscribe(subs[x], f.node) /\ \A y \in Sources : y # x => subs'[y] = subs[y]
    BY <1>1, <1>5, <2>1
  <2> QED BY <2>2, <2>3
<1>7. CASE f.node = e
  <2>1. RunsEffect(t, e) /\ stack[t][2] = f BY <1>4, <1>7, EffectRunTop DEF GraphInv
  <2>2. Len(f.vals) <= Len(Reads[e]) /\ SubscribedTo(e, Len(f.vals))
    BY <1>4, <2>1 DEF EffectInv, RunInv
  <2>6. Len(f.vals) + 1 \in 1..Len(Reads[e]) /\ x = Reads[e][Len(f.vals) + 1]
    BY <1>4, <1>6, <1>7, NextReadFacts DEF NextRead
  <2>8. e \in Subscribers BY DEF Subscribers
  <2>7. ASSUME NEW j \in 1..(Len(f.vals) + 1) PROVE e \in ToSet(subs'[Reads[e][j]])
    <3>1. CASE j = Len(f.vals) + 1 BY <1>7, <1>9, <2>6, <3>1
    <3>2. CASE j # Len(f.vals) + 1
      <4>1. j \in 1..Len(f.vals) /\ j \in 1..Len(Reads[e]) BY <1>6, <2>6, <3>2
      <4>2. Reads[e][j] \in Sources BY <2>8, <4>1, ReadsFacts
      <4> QED BY <1>9, <2>2, <4>1, <4>2 DEF SubscribedTo
    <3> QED BY <3>1, <3>2
  <2>3. SubscribedTo(e, Len(h.vals) + 1)' BY <1>3, <2>7 DEF SubscribedTo
  <2>4. \A j \in 1..Len(h.vals) : j \in 1..Len(f.vals) /\ h.vals[j] = f.vals[j] BY <1>3
  <2> HIDE DEF f
  <2>5. SubscribedTo(e, IF h.pc = "read" THEN Len(h.vals) + 1 ELSE Len(h.vals))'
    BY <1>3, <2>3
  <2> QED BY <1>2, <1>3, <1>4, <1>5, <1>6, <1>7, <2>2, <2>4, <2>5, OwnRunStep DEF f
<1>8. CASE f.node # e BY <1>2, <1>3, <1>4, <1>5, <1>8, <1>9, OtherRunStep
<1> QED BY <1>7, <1>8

LEMMA ReadValueEffect ==
  ASSUME GraphInv, NEW t \in Threads, ReadValue(t), NEW e \in Effects, EffectInv(e)
  PROVE  EffectInv(e)'
<1> DEFINE f == Top(t)
           x == NextRead(f)
<1>1. /\ At(t, "run", "read") /\ value[x] \in Nat /\ f.vals \in Seq(Nat)
      /\ Len(f.vals) + 1 \in 1..Len(Reads[f.node])
      /\ \E h : /\ Replaced(t, h)
                /\ Is(h, "run", f.node, "next", f.todo, Append(f.vals, value[x]), f.ret)
  BY ReadValueShape DEF GraphInv
<1>2. PICK h : /\ Replaced(t, h)
               /\ Is(h, "run", f.node, "next", f.todo, Append(f.vals, value[x]), f.ret)
  BY <1>1
<1>3. h.op = "run" /\ h.node = f.node /\ h.pc = "next" /\ h.vals = Append(f.vals, value[x])
  BY <1>2 DEF Is
<1>4. ~Idle(t) /\ f.op = "run" /\ f.pc = "read" BY <1>1 DEF At
<1>5. UNCHANGED <<value, subs, dirty, notified, first, missed, seen>>
  BY DEF ReadValue, graph, effects
<1>6. /\ h.vals \in Seq(Nat) /\ Len(h.vals) = Len(f.vals) + 1
      /\ h.vals[Len(f.vals) + 1] = value[x] /\ \A i \in 1..Len(f.vals) : h.vals[i] = f.vals[i]
  BY <1>1, <1>3
<1>7. CASE f.node = e
  <2>1. RunsEffect(t, e) /\ stack[t][2] = f BY <1>4, <1>7, EffectRunTop DEF GraphInv
  <2>2. SubscribedTo(e, Len(f.vals) + 1) BY <1>4, <2>1 DEF EffectInv, RunInv
  <2>3. SubscribedTo(e, Len(h.vals))' BY <1>5, <1>6, <2>2 DEF SubscribedTo
  <2>4. ASSUME NEW j \in 1..Len(h.vals)
        PROVE  \/ h.vals[j] = value[Reads[e][j]]
               \/ j \in 1..Len(f.vals) /\ h.vals[j] = f.vals[j]
    <3>1. CASE j = Len(f.vals) + 1 BY <1>6, <1>7, <3>1 DEF NextRead
    <3>2. CASE j # Len(f.vals) + 1
      <4>1. j \in 1..Len(f.vals) BY <1>1, <1>6, <3>2
      <4> QED BY <1>6, <4>1
    <3> QED BY <3>1, <3>2
  <2>6. Len(h.vals) <= Len(Reads[e]) BY <1>1, <1>6, <1>7
  <2> HIDE DEF f, x
  <2>5. SubscribedTo(e, IF h.pc = "read" THEN Len(h.vals) + 1 ELSE Len(h.vals))'
    BY <1>3, <2>3
  <2> QED BY <1>1, <1>2, <1>3, <1>4, <1>5, <1>6, <1>7, <2>4, <2>5, <2>6, OwnRunStep DEF f
<1>8. CASE f.node # e BY <1>2, <1>3, <1>4, <1>5, <1>8, OtherRunStep
<1> QED BY <1>7, <1>8

LEMMA EndMemoEffect ==
  ASSUME GraphInv, NEW t \in Threads, EndMemo(t), NEW e \in Effects, EffectInv(e)
  PROVE  EffectInv(e)'
<1> DEFINE f == Top(t)
           m == f.node
           ret == Compute(m, f.vals) # value[m]
<1>1. /\ At(t, "run", "next") /\ m \in Memos /\ Below(t).op = "update"
      /\ \E h : Returned(t, h) /\ Is(h, "update", m, "commit", Below(t).todo, f.vals, ret)
  BY EndMemoShape DEF GraphInv
<1>2. PICK h : Returned(t, h) /\ Is(h, "update", m, "commit", Below(t).todo, f.vals, ret)
  BY <1>1
<1>3. h.op = "update" BY <1>2 DEF Is
<1>4. e # m BY <1>1, KindsAssumption DEF Sources
<1>5. ~Idle(t) /\ f.op = "run" BY <1>1 DEF At
<1>6. NotOf(f, e) /\ NotOf(h, e) /\ NotOf(Below(t), e) BY <1>1, <1>3, <1>4, <1>5 DEF NotOf
<1>7. UNCHANGED <<value, subs, dirty, notified, first, missed, seen>>
  BY DEF EndMemo, graph, effects
<1> HIDE DEF f, m, ret
<1>8. RunKept(e) /\ TaskKept(e) BY <1>2, <1>5, <1>6, KeptReturned DEF GraphInv, f
<1>9. OthersKept(t) /\ Top(t).op # "mark" BY <1>2, <1>5 DEF Returned, f
<1> QED BY <1>7, <1>8, <1>9, QuietStack

LEMMA EndEffectEffect ==
  ASSUME GraphInv, NEW t \in Threads, EndEffect(t), NEW e \in Effects, EffectInv(e)
  PROVE  EffectInv(e)'
<1> DEFINE f == Top(t)
<1>1. /\ At(t, "run", "next") /\ f.node \in Effects /\ f.vals \in Seq(Nat) /\ Depth(t) = 2
      /\ Len(f.vals) = ReadCount(f.node, f.vals)
      /\ \/ Popped(t) /\ value' = value
         \/ \E s \in Signals : \E h :
              /\ value[s] < MaxWrites /\ value' = [value EXCEPT ![s] = @ + 1]
              /\ Replaced(t, h) /\ Is(h, "mark", s, "clone", <<>>, <<>>, FALSE)
  BY EndEffectShape DEF GraphInv
<1>2. ~Idle(t) /\ f.op = "run" /\ f.pc = "next" BY <1>1 DEF At
<1>3. /\ seen' = [seen EXCEPT ![f.node] = f.vals]
      /\ UNCHANGED <<subs, dirty, notified, first, missed>>
  BY DEF EndEffect, effects
<1>4. /\ Popped(t) \/ \E h : Replaced(t, h) /\ h.op = "mark"
      /\ \A x \in Signals : value'[x] = value[x] \/ Announced(e, x)'
  <2>1. CASE Popped(t) /\ value' = value BY <2>1
  <2>2. CASE \E s \in Signals : \E h :
              /\ value[s] < MaxWrites /\ value' = [value EXCEPT ![s] = @ + 1]
              /\ Replaced(t, h) /\ Is(h, "mark", s, "clone", <<>>, <<>>, FALSE)
    <3>0. PICK s \in Signals : \E h :
              /\ value' = [value EXCEPT ![s] = @ + 1]
              /\ Replaced(t, h) /\ Is(h, "mark", s, "clone", <<>>, <<>>, FALSE)
      BY <2>2
    <3>1. PICK h :
              /\ value' = [value EXCEPT ![s] = @ + 1]
              /\ Replaced(t, h) /\ Is(h, "mark", s, "clone", <<>>, <<>>, FALSE)
      BY <3>0
    <3>2. h.op = "mark" /\ h.pc = "clone" /\ h.node = s BY <3>1 DEF Is
    <3>3. Announced(e, s)' BY <3>1, <3>2, TopAfter DEF Announced, Announces
    <3>4. \A x \in Signals : x # s => value'[x] = value[x]
      BY <3>1 DEF GraphInv, StateInv, Sources
    <3> QED BY <3>1, <3>2, <3>3, <3>4
  <2> QED BY <1>1, <2>1, <2>2
<1>5. OthersKept(t) BY <1>4 DEF Popped, Replaced
<1>6. CASE f.node # e
  <2>1. NotOf(f, e) BY <1>6 DEF NotOf
  <2>2. RunKept(e) /\ TaskKept(e)
    <3>1. CASE Popped(t) BY <1>2, <2>1, <3>1, KeptPopped DEF GraphInv
    <3>2. CASE \E h : Replaced(t, h) /\ h.op = "mark"
      <4>1. PICK h : Replaced(t, h) /\ h.op = "mark" BY <3>2
      <4>2. NotOf(h, e) BY <4>1 DEF NotOf
      <4> QED BY <1>2, <2>1, <4>1, <4>2, KeptReplaced DEF GraphInv
    <3> QED BY <1>4, <3>1, <3>2
  <2>3. seen'[e] = seen[e]
    <3> HIDE DEF f
    <3> QED BY <1>3, <1>6 DEF GraphInv, StateInv
  <2> QED BY <1>2, <1>3, <1>4, <1>5, <2>2, <2>3, QuietForOther
<1>7. CASE f.node = e
  <2>1. stack[t][2] = f /\ RunsEffect(t, e) /\ InTask(t, e, "end") /\ HasTask(t, e)
    BY <1>2, <1>7, EffectRunTop DEF GraphInv, InTask
  <2>2. /\ stack'[t][1] = stack[t][1] /\ Depth(t)' \in Nat /\ Depth(t)' >= 1
        /\ ~RunsEffect(t, e)'
    <3>1. CASE Popped(t) BY <1>1, <3>1 DEF Popped, RunsEffect
    <3>2. CASE \E h : Replaced(t, h) /\ h.op = "mark"
      BY <1>1, <3>2 DEF Replaced, RunsEffect
    <3> QED BY <1>4, <3>1, <3>2
  <2>3. TaskKept(e)
    <3> SUFFICES ASSUME NEW u \in Threads
                 PROVE  /\ HasTask(u, e)' <=> HasTask(u, e)
                        /\ HasTask(u, e) => stack'[u][1].pc = stack[u][1].pc
      BY DEF TaskKept
    <3>1. CASE u = t BY <1>1, <2>2, <3>1 DEF HasTask
    <3>2. CASE u # t BY <1>5, <3>2 DEF HasTask, OthersKept, Depth
    <3> QED BY <3>1, <3>2
  <2>4. ASSUME NEW u \in Threads, RunsEffect(u, e)' PROVE FALSE
    <3>1. u # t BY <2>2, <2>4
    <3>2. RunsEffect(u, e) BY <1>5, <2>4, <3>1 DEF RunsEffect, OthersKept, Depth
    <3>3. HasTask(u, e) BY <3>2, RunIsInTask DEF GraphInv
    <3> QED BY <2>1, <3>1, <3>3 DEF EffectInv, OneTask
  <2>5. \A u \in Threads, pc \in {"dirty", "run", "end"} : InTask(u, e, pc)' <=> InTask(u, e, pc)
    BY <2>3 DEF InTask, TaskKept
  <2>6. Heard(e) => Heard(e)' BY <1>3, <2>5 DEF Heard
  <2>7. OneTask(e)' /\ FirstInv(e)'
    BY <1>3, <2>3, <2>5 DEF EffectInv, OneTask, TaskKept, FirstInv
  <2>8. \A x \in Signals : Announced(e, x) => Announced(e, x)'
    BY <1>2, <1>5, AnnouncementKept
  <2>9. /\ ~first[e] /\ Len(f.vals) <= Len(Reads[e]) /\ FreshFor(e, f.vals)
        /\ SubscribedTo(e, Len(f.vals))
    BY <1>2, <2>1 DEF EffectInv, RunInv
  <2>10. seen'[e] = f.vals
    <3>1. e \in Subscribers BY DEF Subscribers
    <3> HIDE DEF f
    <3> QED BY <1>3, <1>7, <3>1 DEF GraphInv, StateInv
  <2>11. ASSUME NEW j \in 1..Len(f.vals), Reads[e][j] \in Signals
         PROVE  f.vals[j] = value'[Reads[e][j]] \/ Announced(e, Reads[e][j])' \/ Heard(e)'
    BY <1>4, <2>6, <2>8, <2>9, <2>11 DEF FreshFor
  <2>12. FreshFor(e, seen[e])' BY <2>10, <2>11 DEF FreshFor
  <2>13. SubscribedTo(e, Len(seen[e]))' BY <1>3, <2>9, <2>10 DEF SubscribedTo
  <2>14. Len(seen'[e]) = ReadCount(e, seen'[e]) /\ Len(seen'[e]) <= Len(Reads[e])
    BY <1>1, <1>7, <2>9, <2>10
  <2>15. RestInv(e)' BY <2>12, <2>13, <2>14 DEF RestInv, ReadCount
  <2>16. RunInv(e)' BY <2>4 DEF RunInv
  <2> QED BY <2>7, <2>15, <2>16 DEF EffectInv
<1> QED BY <1>6, <1>7

\* A task of e that is not within its function is the only one, and the function is not run.
LEMMA EffectTaskTop ==
  ASSUME GraphInv, NEW e \in Effects, EffectInv(e), NEW t \in Threads, ~Idle(t),
         Top(t).op = "task", Top(t).node = e
  PROVE  /\ Depth(t) = 1 /\ stack[t][1] = Top(t) /\ HasTask(t, e) /\ ~Running(e)
         /\ \A u \in Threads : HasTask(u, e) => u = t
<1>1. Depth(t) = 1 /\ Top(t) = stack[t][Depth(t)] BY TaskTop, TopFacts DEF GraphInv
<1>2. HasTask(t, e) BY <1>1 DEF HasTask
<1>3. \A u \in Threads : HasTask(u, e) => u = t BY <1>2 DEF EffectInv, OneTask
<1>4. ASSUME NEW u \in Threads, RunsEffect(u, e) PROVE FALSE
  <2>1. u = t BY <1>3, <1>4, RunIsInTask DEF GraphInv
  <2> QED BY <1>1, <1>4, <2>1 DEF RunsEffect
<1> QED BY <1>1, <1>2, <1>3, <1>4 DEF Running

\* A step of the task of e, before the function is started.
LEMMA OwnTaskStep ==
  ASSUME GraphInv, NEW e \in Effects, EffectInv(e), NEW t \in Threads, ~Idle(t),
         Top(t).op = "task", Top(t).node = e, Top(t).pc # "run",
         \/ Popped(t)
         \/ \E h : /\ h.op = "task" /\ h.node = e /\ h.pc # "end"
                   /\ Replaced(t, h) \/ \E g : Called(t, h, g) /\ g.op = "update",
         Popped(t) => ~first[e],
         UNCHANGED <<value, subs, notified, first, missed, seen>>,
         \/ dirty'[e] = dirty[e] /\ Top(t).pc # "dirty"
         \/ ~dirty[e]
         \/ \E h : Replaced(t, h) /\ h.op = "task" /\ h.node = e /\ h.pc = "run"
  PROVE  EffectInv(e)'
<1>1. /\ Depth(t) = 1 /\ stack[t][1] = Top(t) /\ HasTask(t, e) /\ ~Running(e)
      /\ \A u \in Threads : HasTask(u, e) => u = t
  BY EffectTaskTop
<1>2. OthersKept(t) BY DEF Popped, Replaced, Called
<1>3. ASSUME NEW u \in Threads, u # t
      PROVE  (HasTask(u, e)' <=> HasTask(u, e)) /\ (RunsEffect(u, e)' <=> RunsEffect(u, e))
  BY <1>2, <1>3 DEF OthersKept, HasTask, RunsEffect, Depth
<1>4. \A u \in Threads : HasTask(u, e)' => u = t BY <1>1, <1>3
<1>5. OneTask(e)' BY <1>4 DEF OneTask
<1>6. /\ ~RunsEffect(t, e)'
      /\ \/ Depth(t)' = 0
         \/ \E h : /\ h.op = "task" /\ h.node = e /\ h.pc # "end" /\ stack'[t][1] = h
                   /\ Depth(t)' \in Nat /\ Depth(t)' >= 1
  <2>1. CASE Popped(t) BY <1>1, <2>1 DEF Popped, RunsEffect
  <2>2. CASE \E h : /\ h.op = "task" /\ h.node = e /\ h.pc # "end"
                    /\ Replaced(t, h) \/ \E g : Called(t, h, g) /\ g.op = "update"
    <3>1. PICK h : /\ h.op = "task" /\ h.node = e /\ h.pc # "end"
                   /\ Replaced(t, h) \/ \E g : Called(t, h, g) /\ g.op = "update"
      BY <2>2
    <3>2. CASE Replaced(t, h) BY <1>1, <3>1, <3>2 DEF Replaced, RunsEffect
    <3>3. CASE \E g : Called(t, h, g) /\ g.op = "update"
      BY <1>1, <3>1, <3>3 DEF Called, RunsEffect
    <3> QED BY <3>1, <3>2, <3>3
  <2> QED BY <2>1, <2>2
<1>7. ASSUME NEW u \in Threads, RunsEffect(u, e)' PROVE FALSE
  BY <1>1, <1>3, <1>6, <1>7 DEF Running
<1>8. RunKept(e) BY <1>1, <1>7 DEF RunKept, Running
<1>9. \A u \in Threads : ~InTask(u, e, "end")'
  <2>1. ~InTask(t, e, "end")' BY <1>6 DEF InTask, HasTask
  <2> QED BY <1>4, <2>1 DEF InTask
<1>10. first'[e] => notified'[e] \/ missed'[e] \/ \E u \in Threads : HasTask(u, e)'
  <2>1. CASE Popped(t) BY <2>1
  <2>2. CASE ~Popped(t)
    <3>1. \E h : /\ h.op = "task" /\ h.node = e
                 /\ Replaced(t, h) \/ \E g : Called(t, h, g)
      BY <2>2
    <3>2. HasTask(t, e)' BY <1>1, <3>1 DEF HasTask, Replaced, Called
    <3> QED BY <3>2
  <2> QED BY <2>1, <2>2
<1>11. FirstInv(e)' BY <1>9, <1>10 DEF FirstInv
<1>12. \A u \in Threads : ~InTask(u, e, "run") BY <1>1 DEF InTask
<1>13. (\A u \in Threads : ~InTask(u, e, "run")') => (Heard(e) => Heard(e)')
  <2>1. CASE dirty'[e] = dirty[e] /\ Top(t).pc # "dirty"
    <3>1. \A u \in Threads : ~InTask(u, e, "dirty") BY <1>1, <2>1 DEF InTask
    <3> QED BY <2>1, <3>1 DEF Heard
  <2>2. CASE ~dirty[e] BY <2>2 DEF Heard
  <2>3. CASE \E h : Replaced(t, h) /\ h.op = "task" /\ h.node = e /\ h.pc = "run"
    <3>1. InTask(t, e, "run")' BY <1>1, <2>3 DEF Replaced, InTask, HasTask
    <3> QED BY <3>1
  <2> QED BY <2>1, <2>2, <2>3
<1>14. \A x \in Signals : Announced(e, x) => Announced(e, x)' BY <1>2, AnnouncementKept
<1> QED BY <1>1, <1>5, <1>8, <1>11, <1>12, <1>13, <1>14, InformedStep

LEMMA OtherTaskStep ==
  ASSUME GraphInv, NEW e \in Effects, EffectInv(e), NEW t \in Threads, ~Idle(t),
         Top(t).op = "task", Top(t).node # e,
         \/ Popped(t)
         \/ \E h : Replaced(t, h) /\ NotOf(h, e)
         \/ \E h, g : Called(t, h, g) /\ NotOf(h, e) /\ NotOf(g, e),
         \A x \in Sources : e \in ToSet(subs[x]) => e \in ToSet(subs'[x]),
         UNCHANGED <<value, notified, seen>>,
         dirty[e] = dirty'[e], first'[e] = first[e], missed'[e] = missed[e]
  PROVE  EffectInv(e)'
<1>1. NotOf(Top(t), e) /\ StackInv BY DEF NotOf, GraphInv
<1>2. RunKept(e) /\ TaskKept(e) /\ OthersKept(t)
  BY <1>1, KeptPopped, KeptReplaced, KeptCalled DEF Popped, Replaced, Called
<1> QED BY <1>2, QuietForOther

LEMMA PollEffect ==
  ASSUME GraphInv, NEW t \in Threads, NEW d \in Effects, Poll(t, d),
         NEW e \in Effects, EffectInv(e)
  PROVE  EffectInv(e)'
<1>1. /\ Idle(t)
      /\ \/ paused[d] /\ stack' = stack
         \/ ~paused[d] /\ \E h : Entered(t, h) /\ Is(h, "task", d, "dirty", <<>>, <<>>, FALSE)
  BY PollShape DEF GraphInv
<1>2. /\ UNCHANGED <<value, subs, dirty, first, seen>>
      /\ notified' = [notified EXCEPT ![d] = FALSE]
      /\ paused[d] => missed' = [missed EXCEPT ![d] = TRUE]
      /\ ~paused[d] => missed' = missed
      /\ \A u \in Threads : \A i \in DOMAIN stack[u] : stack[u][i].node # d
  BY DEF Poll, graph
<1>3. StackInv /\ stack \in [Threads -> Seq(Frames)] /\ missed \in [Effects -> BOOLEAN]
      /\ notified \in [Effects -> BOOLEAN]
  BY DEF GraphInv, StateInv
<1>4. OthersKept(t) BY <1>1, <1>3 DEF Entered, OthersKept
<1>5. missed[e] => missed'[e] BY <1>2, <1>3
<1>6. CASE e # d
  <2>1. notified'[e] = notified[e] BY <1>2, <1>3, <1>6
  <2>2. RunKept(e) /\ TaskKept(e)
    <3>1. CASE stack' = stack BY <3>1 DEF RunKept, TaskKept, RunsEffect, HasTask, Depth
    <3>2. CASE \E h : Entered(t, h) /\ Is(h, "task", d, "dirty", <<>>, <<>>, FALSE)
      <4>1. PICK h : Entered(t, h) /\ Is(h, "task", d, "dirty", <<>>, <<>>, FALSE) BY <3>2
      <4>2. NotOf(h, e) BY <1>6, <4>1 DEF NotOf, Is
      <4> QED BY <1>3, <4>1, <4>2, KeptEntered
    <3> QED BY <1>1, <3>1, <3>2
  <2> QED BY <1>1, <1>2, <1>4, <1>5, <2>1, <2>2, QuietForOther
<1>7. CASE e = d
  <2>1. ASSUME NEW u \in Threads PROVE ~HasTask(u, e) /\ ~RunsEffect(u, e)
    <3>1. Depth(u) \in Nat /\ DOMAIN stack[u] = 1..Depth(u)
      BY <1>3, DepthNat DEF Depth
    <3>2. \A i \in 1..Depth(u) : stack[u][i].node # e BY <1>2, <1>7, <3>1
    <3> QED BY <3>1, <3>2 DEF HasTask, RunsEffect
  <2>2. ASSUME NEW u \in Threads, u # t PROVE ~HasTask(u, e)' /\ ~RunsEffect(u, e)'
    BY <1>4, <2>1, <2>2 DEF OthersKept, HasTask, RunsEffect, Depth
  <2>3. ~RunsEffect(t, e)'
    <3>1. CASE stack' = stack BY <2>1, <3>1 DEF RunsEffect, Depth
    <3>2. CASE \E h : Entered(t, h) BY <3>2 DEF Entered, RunsEffect
    <3> QED BY <1>1, <3>1, <3>2
  <2>4. RunKept(e) BY <2>1, <2>2, <2>3 DEF RunKept
  <2>5. OneTask(e)' BY <2>2 DEF OneTask
  <2>6. (paused[d] /\ missed'[e]) \/ InTask(t, e, "dirty")'
    <3>1. CASE paused[d] BY <1>2, <1>3, <1>7, <3>1
    <3>2. CASE \E h : Entered(t, h) /\ Is(h, "task", d, "dirty", <<>>, <<>>, FALSE)
      <4>1. PICK h : Entered(t, h) /\ Is(h, "task", d, "dirty", <<>>, <<>>, FALSE) BY <3>2
      <4>2. h.op = "task" /\ h.node = e /\ h.pc = "dirty" BY <1>7, <4>1 DEF Is
      <4> QED BY <4>1, <4>2 DEF Entered, InTask, HasTask
    <3> QED BY <1>1, <3>1, <3>2
  <2>7. Heard(e) => Heard(e)' BY <1>2, <2>6 DEF Heard
  <2>8. \A u \in Threads : ~InTask(u, e, "end")' /\ ~InTask(u, e, "run")'
    <3>1. stack' = stack => ~HasTask(t, e)' BY <2>1 DEF HasTask, Depth
    <3>2. (\E h : Entered(t, h) /\ Is(h, "task", d, "dirty", <<>>, <<>>, FALSE))
          => stack'[t][1].pc = "dirty"
      BY DEF Entered, Is
    <3>3. ~InTask(t, e, "end")' /\ ~InTask(t, e, "run")' BY <1>1, <3>1, <3>2 DEF InTask
    <3> QED BY <2>2, <3>3 DEF InTask
  <2>9. FirstInv(e)' BY <2>6, <2>8 DEF FirstInv, InTask
  <2>10. \A u \in Threads : ~InTask(u, e, "run") BY <2>1 DEF InTask
  <2>11. \A x \in Signals : Announced(e, x) => Announced(e, x)'
    BY <1>1, <1>4, AnnouncementKept
  <2> QED BY <1>2, <2>4, <2>5, <2>7, <2>9, <2>10, <2>11, InformedStep
<1> QED BY <1>6, <1>7

LEMMA TaskDirtyEffect ==
  ASSUME GraphInv, NEW t \in Threads, TaskDirty(t), NEW e \in Effects, EffectInv(e)
  PROVE  EffectInv(e)'
<1> DEFINE f == Top(t)
           d == f.node
<1>1. /\ At(t, "task", "dirty") /\ d \in Effects
      /\ \E h : /\ Replaced(t, h) /\ h.op = "task" /\ h.node = d /\ h.pc # "end"
                /\ dirty[d] => h.pc = "run"
  BY TaskDirtyShape, ZenonT(60) DEF GraphInv, Is
<1>2. PICK h : /\ Replaced(t, h) /\ h.op = "task" /\ h.node = d /\ h.pc # "end"
               /\ dirty[d] => h.pc = "run"
  BY <1>1
<1>3. ~Idle(t) /\ f.op = "task" /\ f.pc = "dirty" BY <1>1 DEF At
<1>4. /\ UNCHANGED <<value, subs, notified, first, missed, seen>>
      /\ dirty' = [dirty EXCEPT ![d] = FALSE]
  BY DEF TaskDirty, graph
<1>5. ~Popped(t) BY <1>2 DEF Popped, Replaced
<1>6. CASE e = d BY <1>2, <1>3, <1>4, <1>5, <1>6, OwnTaskStep
<1>7. CASE e # d
  <2>1. NotOf(h, e) BY <1>2, <1>7 DEF NotOf
  <2>2. dirty'[e] = dirty[e]
    <3> HIDE DEF d
    <3> QED BY <1>4, <1>7 DEF GraphInv, StateInv
  <2> QED BY <1>2, <1>3, <1>4, <1>7, <2>1, <2>2, OtherTaskStep
<1> QED BY <1>6, <1>7

LEMMA TaskSourcesEffect ==
  ASSUME GraphInv, NEW t \in Threads, TaskSources(t), NEW e \in Effects, EffectInv(e)
  PROVE  EffectInv(e)'
<1> DEFINE f == Top(t)
           d == f.node
<1>1. /\ At(t, "task", "sources") /\ d \in Effects
      /\ \/ Popped(t) /\ ~first[d]
         \/ \E h : /\ h.op = "task" /\ h.node = d /\ h.pc # "end"
                   /\ Replaced(t, h) \/ \E g : Called(t, h, g) /\ g.op = "update"
  <2>1. /\ At(t, "task", "sources") /\ d \in Effects
        /\ \/ Popped(t) /\ ~first[d]
           \/ \E h : Replaced(t, h) /\ Is(h, "task", d, "run", f.todo, f.vals, f.ret)
           \/ \E h : Replaced(t, h) /\ Is(h, "task", d, "sources", Tail(f.todo), f.vals, f.ret)
           \/ \E h, g : /\ Called(t, h, g)
                        /\ Is(h, "task", d, "sources", Tail(f.todo), f.vals, f.ret)
                        /\ Is(g, "update", Head(f.todo), "state", <<>>, <<>>, FALSE)
    BY TaskSourcesShape, ZenonT(60) DEF GraphInv
  <2>2. \A h, pc, todo, vals, ret : pc # "end" /\ Is(h, "task", d, pc, todo, vals, ret)
        => h.op = "task" /\ h.node = d /\ h.pc # "end"
    BY DEF Is
  <2>3. "run" # "end" /\ "sources" # "end" OBVIOUS
  <2>4. \A g, n : Is(g, "update", n, "state", <<>>, <<>>, FALSE) => g.op = "update" BY DEF Is
  <2> QED BY <2>1, <2>2, <2>3, <2>4, ZenonT(60)
<1>3. ~Idle(t) /\ f.op = "task" /\ f.pc = "sources" BY <1>1 DEF At
<1>4. UNCHANGED <<value, subs, dirty, notified, first, missed, seen>>
  BY DEF TaskSources, graph, effects
<1>5. Popped(t) => ~first[d] BY <1>1 DEF Popped, Replaced, Called
<1>6. CASE e = d BY <1>1, <1>3, <1>4, <1>5, <1>6, OwnTaskStep
<1>7. CASE e # d
  <2>1. \/ Popped(t)
        \/ \E h : Replaced(t, h) /\ NotOf(h, e)
        \/ \E h, g : Called(t, h, g) /\ NotOf(h, e) /\ NotOf(g, e)
    BY <1>1, <1>7 DEF NotOf
  <2> QED BY <1>3, <1>4, <1>7, <2>1, OtherTaskStep
<1> QED BY <1>6, <1>7

LEMMA StartEffectEffect ==
  ASSUME GraphInv, NEW t \in Threads, StartEffect(t), NEW e \in Effects, EffectInv(e)
  PROVE  EffectInv(e)'
<1> DEFINE f == Top(t)
           d == f.node
<1>1. /\ At(t, "task", "run") /\ d \in Effects
      /\ \E h, g : /\ Called(t, h, g) /\ h.op = "task" /\ h.node = d
                   /\ Is(g, "run", d, "next", <<>>, <<>>, FALSE)
  BY StartEffectShape, ZenonT(60) DEF GraphInv, Is
<1>2. PICK h, g : /\ Called(t, h, g) /\ h.op = "task" /\ h.node = d
                  /\ Is(g, "run", d, "next", <<>>, <<>>, FALSE)
  BY <1>1
<1>3. ~Idle(t) /\ f.op = "task" /\ f.pc = "run" BY <1>1 DEF At
<1>4. /\ UNCHANGED <<value, dirty, notified, seen>> /\ ClearSources(d)
      /\ first' = [first EXCEPT ![d] = FALSE] /\ missed' = [missed EXCEPT ![d] = FALSE]
  BY DEF StartEffect, effects
<1>5. g.op = "run" /\ g.node = d /\ g.pc = "next" /\ g.vals = <<>> BY <1>2 DEF Is
<1>6. first \in [Effects -> BOOLEAN] /\ missed \in [Effects -> BOOLEAN]
  BY DEF GraphInv, StateInv
<1> HIDE DEF f, d
<1>7. CASE e # d
  <2>1. NotOf(h, e) /\ NotOf(g, e) BY <1>2, <1>5, <1>7 DEF NotOf
  <2>2. first'[e] = first[e] /\ missed'[e] = missed[e] BY <1>4, <1>6, <1>7
  <2>3. d \in Subscribers /\ e \in Subscribers BY <1>1 DEF Subscribers
  <2>4. ASSUME NEW x \in Sources, e \in ToSet(subs[x]) PROVE e \in ToSet(subs'[x])
    <3>1. subs'[x] = subs[x] \/ subs'[x] = Unsubscribe(subs[x], d)
      BY <1>4, <2>3, ClearSourcesTypes DEF GraphInv
    <3>2. subs[x] \in Seq(Subscribers) BY DEF GraphInv, StateInv
    <3>3. e \in ToSet(Unsubscribe(subs[x], d)) BY <1>7, <2>4, <3>2, UnsubscribeSeq
    <3> QED BY <2>4, <3>1, <3>3
  <2> QED BY <1>2, <1>3, <1>4, <1>7, <2>1, <2>2, <2>4, OtherTaskStep DEF f, d
<1>8. CASE e = d
  <2>1. /\ Depth(t) = 1 /\ stack[t][1] = f /\ HasTask(t, e)
        /\ \A u \in Threads : HasTask(u, e) => u = t
    BY <1>3, <1>8, EffectTaskTop DEF f, d
  <2>2. OthersKept(t) /\ stack'[t][1] = h /\ stack'[t][2] = g /\ Depth(t)' = 2
    BY <1>2, <2>1 DEF Called
  <2>3. ASSUME NEW u \in Threads, HasTask(u, e)' PROVE u = t
    <3> SUFFICES ASSUME u # t PROVE FALSE OBVIOUS
    <3>1. HasTask(u, e) BY <2>2, <2>3 DEF HasTask, OthersKept, Depth
    <3> QED BY <2>1, <3>1
  <2>4. OneTask(e)' BY <2>3 DEF OneTask
  <2>5. ~first'[e] BY <1>4, <1>6, <1>8
  <2>6. FirstInv(e)' BY <2>5 DEF FirstInv
  <2>7. RunsEffect(t, e)' BY <1>5, <1>8, <2>2 DEF RunsEffect
  <2>8. RestInv(e)' BY <2>7 DEF RestInv, Running
  <2>9. ASSUME NEW u \in Threads, RunsEffect(u, e)' PROVE u = t
    <3> SUFFICES ASSUME u # t PROVE FALSE OBVIOUS
    <3>1. RunsEffect(u, e) BY <2>2, <2>9 DEF RunsEffect, OthersKept, Depth
    <3>2. HasTask(u, e) BY <3>1, RunIsInTask DEF GraphInv
    <3> QED BY <2>1, <3>2
  <2>10. RunInv(e)'
    <3> SUFFICES ASSUME NEW u \in Threads, RunsEffect(u, e)'
                 PROVE  (LET c == stack[u][2] IN
                         /\ ~first[e]
                         /\ Len(c.vals) <= Len(Reads[e])
                         /\ FreshFor(e, c.vals)
                         /\ SubscribedTo(e, IF c.pc = "read" THEN Len(c.vals) + 1
                                            ELSE Len(c.vals)))'
      BY DEF RunInv
    <3>1. stack'[u][2] = g BY <2>2, <2>9
    <3>2. Len(g.vals) = 0 /\ g.pc # "read" BY <1>5
    <3>3. e \in Subscribers BY DEF Subscribers
    <3>4. 0 <= Len(Reads[e]) BY <3>3, ReadsFacts
    <3> QED BY <2>5, <3>1, <3>2, <3>4 DEF FreshFor, SubscribedTo
  <2> QED BY <2>4, <2>6, <2>8, <2>10 DEF EffectInv
<1> QED BY <1>7, <1>8

LEMMA TaskEndEffect ==
  ASSUME GraphInv, NEW t \in Threads, TaskEnd(t), NEW e \in Effects, EffectInv(e)
  PROVE  EffectInv(e)'
<1>1. At(t, "task", "end") /\ Popped(t) BY TaskEndShape DEF GraphInv
<1>2. ~Idle(t) /\ Top(t).op = "task" /\ Top(t).pc = "end" BY <1>1 DEF At
<1>3. UNCHANGED <<value, subs, dirty, notified, first, missed, seen>>
  BY DEF TaskEnd, graph, effects
<1>4. CASE Top(t).node # e BY <1>1, <1>2, <1>3, <1>4, OtherTaskStep
<1>5. CASE Top(t).node = e
  <2>1. InTask(t, e, "end") BY <1>2, <1>5, EffectTaskTop DEF InTask
  <2>2. ~first[e] BY <2>1 DEF EffectInv, FirstInv
  <2> QED BY <1>1, <1>2, <1>3, <1>5, <2>2, OwnTaskStep
<1> QED BY <1>4, <1>5

LEMMA UserEffect ==
  ASSUME GraphInv, NEW e \in Effects, EffectInv(e), NEW t \in Threads,
         \/ \E m \in Memos : Get(t, m) \/ DropGuard(t, m)
         \/ \E d \in Effects : PauseOrResume(t, d)
         \/ GetValue(t)
  PROVE  EffectInv(e)'
<1>1. stack \in [Threads -> Seq(Frames)] BY DEF GraphInv, StateInv
<1>2. CASE UNCHANGED <<stack, value, subs, dirty, notified, first, missed, seen>> /\ Idle(t)
  <2>1. RunKept(e) /\ TaskKept(e) /\ OthersKept(t)
    BY <1>1, <1>2 DEF RunKept, TaskKept, RunsEffect, HasTask, Depth, OthersKept
  <2> QED BY <1>2, <2>1, QuietStack
<1>3. CASE \E m \in Memos : Get(t, m)
  <2>1. PICK m \in Memos : Get(t, m) BY <1>3
  <2>2. Idle(t) /\ \E g, u : /\ Got(t, g, u) /\ Is(g, "get", m, "read", <<>>, <<>>, FALSE)
                             /\ Is(u, "update", m, "state", <<>>, <<>>, FALSE)
    BY <2>1, GetShape DEF GraphInv
  <2>7. PICK g, u : /\ Got(t, g, u) /\ Is(g, "get", m, "read", <<>>, <<>>, FALSE)
                    /\ Is(u, "update", m, "state", <<>>, <<>>, FALSE)
    BY <2>2
  <2>3. Got(t, g, u) /\ g.op = "get" /\ u.op = "update" BY <2>7 DEF Is
  <2>4. NotOf(g, e) /\ NotOf(u, e) BY <2>3 DEF NotOf
  <2>5. RunKept(e) /\ TaskKept(e) /\ OthersKept(t) BY <2>3, <2>4, KeptGot DEF Got, GraphInv
  <2>6. UNCHANGED <<value, subs, dirty, notified, first, missed, seen>>
    BY <2>1 DEF Get, graph, effects
  <2> QED BY <2>2, <2>5, <2>6, QuietStack
<1>4. CASE GetValue(t)
  <2>1. At(t, "get", "read") /\ Popped(t) BY <1>4, GetValueShape DEF GraphInv
  <2>2. ~Idle(t) /\ Top(t).op = "get" BY <2>1 DEF At
  <2>3. NotOf(Top(t), e) BY <2>2 DEF NotOf
  <2>4. RunKept(e) /\ TaskKept(e) /\ OthersKept(t)
    BY <2>1, <2>2, <2>3, KeptPopped DEF Popped, GraphInv
  <2>5. UNCHANGED <<value, subs, dirty, notified, first, missed, seen>>
    BY <1>4 DEF GetValue, graph, effects
  <2> QED BY <2>2, <2>4, <2>5, QuietStack
<1>5. CASE \E m \in Memos : DropGuard(t, m) BY <1>2, <1>5 DEF DropGuard, graph, effects
<1>6. CASE \E d \in Effects : PauseOrResume(t, d) BY <1>2, <1>6 DEF PauseOrResume, graph
<1> QED BY <1>3, <1>4, <1>5, <1>6

-----------------------------------------------------------------------------
(* Every effect is informed *)

LEMMA EffectInit ==
  ASSUME Init, NEW e \in Effects PROVE EffectInv(e)
<1>1. e \in Subscribers BY DEF Subscribers
<1>2. /\ \A t \in Threads : stack[t] = <<>>
      /\ first[e] /\ notified[e] /\ seen[e] = <<>>
  BY <1>1 DEF Init
<1>3. \A t \in Threads : Depth(t) = 0 BY <1>2 DEF Depth
<1>4. \A t \in Threads : ~HasTask(t, e) /\ ~RunsEffect(t, e)
  BY <1>3 DEF HasTask, RunsEffect
<1>5. OneTask(e) /\ RunInv(e) /\ FirstInv(e)
  BY <1>2, <1>4 DEF OneTask, RunInv, FirstInv, InTask
<1>6. Len(seen[e]) = 0 /\ Len(Reads[e]) >= 0 BY <1>1, <1>2, ReadsFacts
<1>7. RestInv(e) BY <1>2, <1>6 DEF RestInv, SubscribedTo, FreshFor
<1> QED BY <1>5, <1>7 DEF EffectInv

LEMMA EffectNext ==
  ASSUME GraphInv, NEW e \in Effects, EffectInv(e), [Next]_vars
  PROVE  EffectInv(e)'
<1>1. CASE \E t \in Threads : Continue(t) \/ User(t) \/ \E d \in Effects : Poll(t, d)
  <2>1. PICK t \in Threads : Continue(t) \/ User(t) \/ \E d \in Effects : Poll(t, d)
    BY <1>1
  <2>2. CASE Marking(t)
    BY <2>2, CloneEffect, MarkMemoEffect, MarkEffectEffect, MarkDoneEffect DEF Marking
  <2>3. CASE Updating(t) BY <2>3, UpdatingEffect
  <2>4. CASE Function(t)
    BY <2>4, AddSourceEffect, AddSubscriberEffect, ReadValueEffect, EndMemoEffect,
       EndEffectEffect DEF Function
  <2>5. CASE Task(t)
    BY <2>5, TaskDirtyEffect, TaskSourcesEffect, StartEffectEffect, TaskEndEffect DEF Task
  <2>6. CASE GetValue(t) BY <2>6, UserEffect
  <2>7. CASE User(t) BY <2>7, UserEffect, SetEffect DEF User
  <2>8. CASE \E d \in Effects : Poll(t, d) BY <2>8, PollEffect
  <2> QED BY <2>1, <2>2, <2>3, <2>4, <2>5, <2>6, <2>7, <2>8 DEF Continue
<1>2. CASE UNCHANGED vars
  <2>1. UNCHANGED <<stack, value, subs, dirty, notified, first, missed, seen>>
    BY <1>2 DEF vars, graph, effects
  <2>2. \A x : Announced(e, x)' <=> Announced(e, x)
    BY <2>1 DEF Announced, Announces, Idle, Top
  <2>3. RunKept(e) /\ TaskKept(e) BY <2>1 DEF RunKept, TaskKept, RunsEffect, HasTask, Depth
  <2> QED BY <2>1, <2>2, <2>3, QuietStep
<1> QED BY <1>1, <1>2 DEF Next, Rest

LEMMA EffectsInformed == Spec => [](\A e \in Effects : EffectInv(e))
<1>1. Init => \A e \in Effects : EffectInv(e) BY EffectInit
<1>2. GraphInv /\ (\A e \in Effects : EffectInv(e)) /\ [Next]_vars
      => (\A e \in Effects : EffectInv(e))'
  BY EffectNext
<1> QED BY <1>1, <1>2, GraphInvariant, PTL DEF Spec

\* What n has read is what it would read, if it is right as far as it goes.
LEMMA ReadsAgree ==
  ASSUME NEW n \in Subscribers, NEW f, NEW q \in Seq(Nat), Len(q) <= Len(Reads[n]),
         Len(q) = ReadCount(n, q), \A j \in 1..Len(q) : q[j] = f[Reads[n][j]]
  PROVE  ReadIn(f, n) = q
<1> DEFINE vals == [i \in DOMAIN Reads[n] |-> f[Reads[n][i]]]
           k == Len(q)
           r == SubSeq(vals, 1, k)
<1>1. DOMAIN Reads[n] = 1..Len(Reads[n]) /\ Len(Reads[n]) \in Nat BY ReadsFacts
<1>2. \A i \in 1..Len(Reads[n]) : vals[i] = f[Reads[n][i]] BY <1>1
<1>3. k \in Nat /\ k <= Len(Reads[n]) /\ \A i \in 1..k : vals[i] = q[i] /\ q[i] \in Nat
  BY <1>2
<1>4. ReadCount(n, vals) = k
  <2>1. CASE Len(Reads[n]) = 0
    <3>1. Len(q) = 0 /\ q = <<>> BY <1>1, <2>1
    <3>2. vals = <<>> BY <1>1, <2>1
    <3> QED BY <3>1, <3>2
  <2>2. CASE Len(Reads[n]) # 0
    <3>1. q # <<>>
      <4>1. q = <<>> => ReadCount(n, q) = Len(Reads[n]) BY DEF ReadCount
      <4> QED BY <1>1, <2>2, <4>1
    <3>2. k >= 1 /\ vals[1] = q[1] BY <1>3, <3>1
    <3>3. vals # <<>>
      <4>1. 1 \in DOMAIN vals BY <1>1, <2>2
      <4> QED BY <4>1
    <3>4. ReadCount(n, vals) = ReadCount(n, q) BY <3>1, <3>2, <3>3 DEF ReadCount
    <3> QED BY <3>4
  <2> QED BY <2>1, <2>2
<1> HIDE DEF vals
<1>5. r \in Seq(Nat) /\ Len(r) = k /\ \A i \in 1..k : r[i] = q[i]
  <2>1. \A i \in 1..k : vals[i] \in Nat BY <1>3
  <2>2. /\ r \in Seq(Nat) /\ Len(r) = (IF 1 <= k THEN k - 1 + 1 ELSE 0)
        /\ \A i \in 1..(k - 1 + 1) : r[i] = vals[1 + i - 1]
    BY <1>3, <2>1, SubSeqProperties
  <2> QED BY <1>3, <2>2
<1>6. r = q
  <2> HIDE DEF r
  <2>1. Len(r) = Len(q) /\ \A i \in 1..Len(r) : r[i] = q[i] BY <1>5
  <2> QED BY <1>5, <2>1, SeqEqual
<1>7. ReadIn(f, n) = SubSeq(vals, 1, ReadCount(n, vals)) BY Zenon DEF ReadIn, vals
<1> QED BY <1>4, <1>6, <1>7

\* Every effect reads signals only.
ReadSignals == \A e \in Effects : \A x \in ToSet(Reads[e]) : x \in Signals

LEMMA Settled ==
  ASSUME GraphInv, \A e \in Effects : EffectInv(e), ReadSignals
  PROVE  EffectsSettled
<1> SUFFICES ASSUME Quiet, NEW e \in Effects, ~notified[e], ~missed[e]
             PROVE  seen[e] = TruthReads(e)
  BY DEF EffectsSettled
<1>1. e \in Subscribers BY DEF Subscribers
<1>2. ASSUME NEW t \in Threads
      PROVE  Idle(t) /\ ~HasTask(t, e) /\ ~RunsEffect(t, e)
  <2>1. Idle(t) /\ Depth(t) = 0 BY IdleFacts DEF Quiet, GraphInv
  <2> QED BY <2>1 DEF HasTask, RunsEffect
<1>3. \A x : ~Announced(e, x) BY <1>2 DEF Announced, Announces
<1>4. ~Heard(e) BY <1>2 DEF Heard, InTask
<1>5. ~first[e] BY <1>2 DEF EffectInv, FirstInv
<1>6. /\ Len(seen[e]) <= Len(Reads[e]) /\ Len(seen[e]) = ReadCount(e, seen[e])
      /\ FreshFor(e, seen[e])
  BY <1>2, <1>5 DEF EffectInv, RestInv, Running, InTask
<1>7. seen[e] \in Seq(Nat) BY <1>1 DEF GraphInv, StateInv
<1>8. \A j \in 1..Len(seen[e]) : seen[e][j] = TruthOf[Reads[e][j]]
  <2> TAKE j \in 1..Len(seen[e])
  <2>1. j \in 1..Len(Reads[e]) BY <1>1, <1>6, <1>7, ReadsFacts
  <2>2. Reads[e][j] \in Signals BY <1>1, <2>1, ReadsFacts DEF ReadSignals
  <2>3. seen[e][j] = value[Reads[e][j]] BY <1>3, <1>4, <1>6, <2>2 DEF FreshFor
  <2>4. TruthOf[Reads[e][j]] = value[Reads[e][j]] BY <2>2, TruthEquation DEF ValueIn, Sources
  <2> QED BY <2>3, <2>4
<1>9. ReadIn(TruthOf, e) = seen[e] BY <1>1, <1>6, <1>7, <1>8, ReadsAgree
<1>10. TruthReads(e) = ReadIn(TruthOf, e) BY Zenon DEF TruthReads, ReadIn
<1> QED BY <1>9, <1>10

\* An effect that reads signals reruns "whenever the value of a dependency changes"
\* (effect/effect.rs), whatever the threads do between each other's steps: once everything
\* has run and no notification is left, its last run read the present values.
THEOREM SignalEffectsSettle ==
  ASSUME ReadSignals
  PROVE  Spec => []EffectsSettled
<1>1. GraphInv /\ (\A e \in Effects : EffectInv(e)) => EffectsSettled BY Settled
<1> QED BY <1>1, GraphInvariant, EffectsInformed, PTL
=============================================================================
