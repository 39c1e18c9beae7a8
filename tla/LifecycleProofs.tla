-------------------------- MODULE LifecycleProofs --------------------------
(***************************************************************************)
(* What holds of EffectLifecycle for every number of nested effects and    *)
(* threads and every bound on the marks and the calls.                     *)
(***************************************************************************)
EXTENDS EffectLifecycle, FiniteSetTheorems, TLAPS

-----------------------------------------------------------------------------
(* Stacks of calls *)

Kinds == {"cleanup", "release", "drop", "close", "mark", "wake", "pause", "resume"}
StackItems ==
  {Item(k, o) : k \in Kinds, o \in Owners} \cup {<<"run", e, r>> : e \in Effects, r \in Runs}
    \cup {Item("remove", s) : s \in Seq(Effects)}

\* What the elements of a sequence are.
LEMMA Elements ==
  ASSUME NEW S, NEW s \in Seq(S)
  PROVE  /\ \A x : x \in ToSet(s) <=> \E k \in 1..Len(s) : x = s[k]
         /\ ToSet(s) \subseteq S
         /\ s # <<>> => Head(s) \in ToSet(s) /\ Head(s) = s[1] /\ 1 \in 1..Len(s)
BY DEF ToSet

\* What a concatenation is, position by position.
LEMMA Concat ==
  ASSUME NEW S, NEW s \in Seq(S), NEW t \in Seq(S)
  PROVE  /\ s \o t \in Seq(S) /\ Len(s \o t) = Len(s) + Len(t)
         /\ \A k \in 1..(Len(s) + Len(t)) :
              (s \o t)[k] = IF k <= Len(s) THEN s[k] ELSE t[k - Len(s)]
OBVIOUS

LEMMA Concat3 ==
  ASSUME NEW S, NEW s \in Seq(S), NEW t \in Seq(S), NEW u \in Seq(S)
  PROVE  /\ (s \o t) \o u \in Seq(S) /\ Len((s \o t) \o u) = Len(s) + Len(t) + Len(u)
         /\ \A k \in 1..Len(s) : ((s \o t) \o u)[k] = s[k]
         /\ \A k \in 1..Len(t) : ((s \o t) \o u)[Len(s) + k] = t[k]
         /\ \A k \in 1..Len(u) : ((s \o t) \o u)[Len(s) + Len(t) + k] = u[k]
<1> DEFINE st == s \o t
           q == st \o u
<1>1. /\ st \in Seq(S) /\ Len(st) = Len(s) + Len(t)
      /\ \A k \in 1..(Len(s) + Len(t)) : st[k] = IF k <= Len(s) THEN s[k] ELSE t[k - Len(s)]
  BY Concat
<1> HIDE DEF st
<1>3. /\ q \in Seq(S) /\ Len(q) = Len(st) + Len(u)
      /\ \A k \in 1..(Len(st) + Len(u)) : q[k] = IF k <= Len(st) THEN st[k] ELSE u[k - Len(st)]
  <2>1. st \in Seq(S)
    BY <1>1
  <2>2. /\ st \o u \in Seq(S) /\ Len(st \o u) = Len(st) + Len(u)
        /\ \A k \in 1..(Len(st) + Len(u)) :
             (st \o u)[k] = IF k <= Len(st) THEN st[k] ELSE u[k - Len(st)]
    BY <2>1, Concat, Zenon
  <2> QED BY <2>2
<1> HIDE DEF q
<1>4. Len(s) \in Nat /\ Len(t) \in Nat /\ Len(u) \in Nat
  OBVIOUS
<1>5. ASSUME NEW k \in 1..Len(s) PROVE q[k] = s[k]
  BY <1>1, <1>3, <1>4
<1>6. ASSUME NEW k \in 1..Len(t) PROVE q[Len(s) + k] = t[k]
  BY <1>1, <1>3, <1>4
<1>7. ASSUME NEW k \in 1..Len(u) PROVE q[Len(s) + Len(t) + k] = u[k]
  <2>1. \A i \in 1..(Len(st) + Len(u)) : ~(i <= Len(st)) => q[i] = u[i - Len(st)]
    BY <1>3
  <2>2. PICK i : i = Len(s) + Len(t) + k
    OBVIOUS
  <2>3. i \in 1..(Len(st) + Len(u)) /\ ~(i <= Len(st)) /\ i - Len(st) = k
    BY <1>1, <1>4, <2>2
  <2>4. q[i] = u[k]
    BY <2>1, <2>3
  <2> QED BY <2>2, <2>4
<1>8. q \in Seq(S) /\ Len(q) = Len(s) + Len(t) + Len(u)
  BY <1>1, <1>3
<1> QED BY <1>5, <1>6, <1>7, <1>8 DEF q, st

\* What a stack is when its head has given way to other items.
LEMMA Replaced ==
  ASSUME NEW S, NEW s \in Seq(S), s # <<>>, NEW t \in Seq(S), NEW u, u = t \o Tail(s)
  PROVE  /\ u \in Seq(S) /\ Len(u) = Len(t) + Len(s) - 1
         /\ \A k \in 1..Len(u) : u[k] = IF k <= Len(t) THEN t[k] ELSE s[k - Len(t) + 1]
         /\ t # <<>> => u # <<>> /\ Head(u) = t[1]
<1>1. Tail(s) \in Seq(S) /\ Len(Tail(s)) = Len(s) - 1
  OBVIOUS
<1>2. \A k \in 1..Len(Tail(s)) : Tail(s)[k] = s[k + 1]
  OBVIOUS
<1>3. u \in Seq(S) /\ Len(u) = Len(t) + Len(s) - 1
  BY <1>1
<1>4. \A k \in 1..Len(u) : u[k] = IF k <= Len(t) THEN t[k] ELSE s[k - Len(t) + 1]
  BY <1>1, <1>2, <1>3
<1>5. t # <<>> => u # <<>> /\ Head(u) = t[1]
  BY <1>1, <1>3, <1>4
<1> QED BY <1>3, <1>4, <1>5

\* Its elements are new, or were there below the head.
LEMMA ReplacedElements ==
  ASSUME NEW S, NEW s \in Seq(S), s # <<>>, NEW t \in Seq(S), NEW u, u = t \o Tail(s)
  PROVE  /\ ToSet(u) \subseteq ToSet(t) \cup ToSet(s) /\ ToSet(t) \subseteq ToSet(u)
         /\ \A x \in ToSet(s) : x = Head(s) \/ x \in ToSet(u)
<1>1. /\ u \in Seq(S) /\ Len(u) = Len(t) + Len(s) - 1
      /\ \A k \in 1..Len(u) : u[k] = IF k <= Len(t) THEN t[k] ELSE s[k - Len(t) + 1]
  BY Replaced
<1>2. ASSUME NEW x \in ToSet(u) PROVE x \in ToSet(t) \cup ToSet(s)
  <2>1. PICK k \in 1..Len(u) : x = u[k]
    BY <1>1, <1>2, Elements
  <2>2. CASE k <= Len(t)
    BY <1>1, <2>1, <2>2, Elements
  <2>3. CASE k > Len(t)
    <3>1. x = s[k - Len(t) + 1] /\ k - Len(t) + 1 \in 1..Len(s)
      BY <1>1, <2>1, <2>3
    <3> QED BY <3>1, Elements
  <2> QED BY <2>2, <2>3
<1>3. ASSUME NEW x \in ToSet(t) PROVE x \in ToSet(u)
  <2>1. PICK k \in 1..Len(t) : x = t[k]
    BY <1>3, Elements
  <2>2. k \in 1..Len(u) /\ x = u[k]
    BY <1>1, <2>1
  <2> QED BY <1>1, <2>2, Elements
<1>4. ASSUME NEW x \in ToSet(s), x # Head(s) PROVE x \in ToSet(u)
  <2>1. PICK k \in 1..Len(s) : x = s[k]
    BY <1>4, Elements
  <2>2. k # 1
    BY <1>4, <2>1
  <2>3. k - 1 + Len(t) \in 1..Len(u) /\ x = u[k - 1 + Len(t)]
    BY <1>1, <2>1, <2>2
  <2>4. \E m \in 1..Len(u) : x = u[m]
    BY <2>3
  <2> QED BY <1>1, <2>4, Elements
<1> QED BY <1>2, <1>3, <1>4

\* A sequence of one.
LEMMA OneOf ==
  ASSUME NEW S, NEW x \in S
  PROVE  <<x>> \in Seq(S) /\ ToSet(<<x>>) = {x}
<1>1. <<x>> \in Seq(S) /\ Len(<<x>>) = 1 /\ <<x>>[1] = x
  OBVIOUS
<1>2. \A y : y \in ToSet(<<x>>) <=> \E k \in 1..1 : y = <<x>>[k]
  BY <1>1, Elements
<1> QED BY <1>1, <1>2

LEMMA Appended ==
  ASSUME NEW S, NEW s \in Seq(S), NEW x \in S
  PROVE  Append(s, x) \in Seq(S) /\ Append(s, x) = s \o <<x>>
OBVIOUS

\* One more at the end.
LEMMA AppendedElements ==
  ASSUME NEW S, NEW s \in Seq(S), NEW x \in S
  PROVE  s \o <<x>> \in Seq(S) /\ ToSet(s \o <<x>>) = ToSet(s) \cup {x}
<1> DEFINE u == s \o <<x>>
<1>1. u \in Seq(S) /\ Len(u) = Len(s) + 1 /\ u[Len(s) + 1] = x
  OBVIOUS
<1>2. \A k \in 1..Len(s) : u[k] = s[k]
  OBVIOUS
<1>3. Len(s) \in Nat
  OBVIOUS
<1> HIDE DEF u
<1>4. ASSUME NEW y \in ToSet(u) PROVE y \in ToSet(s) \cup {x}
  <2>1. PICK k \in 1..Len(u) : y = u[k]
    BY <1>1, Elements
  <2>2. CASE k \in 1..Len(s)
    BY <1>2, <2>1, <2>2, Elements
  <2>3. CASE k = Len(s) + 1
    BY <1>1, <2>1, <2>3
  <2> QED BY <1>1, <1>3, <2>2, <2>3
<1>5. ASSUME NEW y \in ToSet(s) PROVE y \in ToSet(u)
  <2>1. PICK k \in 1..Len(s) : y = s[k]
    BY Elements
  <2>2. k \in 1..Len(u) /\ y = u[k]
    BY <1>1, <1>2, <1>3, <2>1
  <2>3. \E m \in 1..Len(u) : y = u[m]
    BY <2>2
  <2> QED BY <1>1, <2>3, Elements
<1>6. x \in ToSet(u)
  <2>1. \E m \in 1..Len(u) : x = u[m]
    BY <1>1, <1>3
  <2> QED BY <1>1, <2>1, Elements
<1> QED BY <1>1, <1>4, <1>5, <1>6 DEF u

\* One more at the beginning.
LEMMA PrefixedElements ==
  ASSUME NEW S, NEW s \in Seq(S), NEW x \in S
  PROVE  <<x>> \o s \in Seq(S) /\ \A y \in ToSet(<<x>> \o s) : y = x \/ y \in ToSet(s)
<1> DEFINE u == <<x>> \o s
<1>1. u \in Seq(S) /\ Len(u) = Len(s) + 1 /\ u[1] = x
  OBVIOUS
<1>2. \A k \in 1..Len(s) : u[k + 1] = s[k]
  OBVIOUS
<1>3. Len(s) \in Nat
  OBVIOUS
<1> HIDE DEF u
<1>4. ASSUME NEW y \in ToSet(u) PROVE y = x \/ y \in ToSet(s)
  <2>1. PICK k \in 1..Len(u) : y = u[k]
    BY <1>1, Elements
  <2>2. CASE k = 1
    BY <1>1, <2>1, <2>2
  <2>3. CASE k # 1
    <3>1. PICK m \in 1..Len(s) : k = m + 1
      BY <1>1, <1>3, <2>1, <2>3
    <3> QED BY <1>2, <2>1, <3>1, Elements
  <2> QED BY <2>2, <2>3
<1> QED BY <1>1, <1>4 DEF u

\* The items of a list.
LEMMA ListItems ==
  ASSUME NEW k \in Kinds, NEW S, NEW s \in Seq(S), S \subseteq Owners
  PROVE  /\ Items(k, s) \in Seq(StackItems) /\ Len(Items(k, s)) = Len(s)
         /\ \A x \in ToSet(Items(k, s)) : \E y \in ToSet(s) : x = Item(k, y)
         /\ \A y \in ToSet(s) : Item(k, y) \in ToSet(Items(k, s))
         /\ \A i \in 1..Len(s) : Items(k, s)[i] = Item(k, s[i])
<1>1. \A i \in 1..Len(s) : s[i] \in Owners /\ <<k, s[i]>> \in StackItems
  BY DEF StackItems, Item
<1>2. Items(k, s) \in Seq(StackItems) /\ Len(Items(k, s)) = Len(s)
  BY <1>1 DEF Items
<1>3. \A i \in 1..Len(s) : Items(k, s)[i] = Item(k, s[i])
  BY DEF Items, Item
<1>4. ASSUME NEW x \in ToSet(Items(k, s)) PROVE \E y \in ToSet(s) : x = Item(k, y)
  <2>1. PICK i \in 1..Len(s) : x = Items(k, s)[i]
    BY <1>2, Elements
  <2> QED BY <1>3, <2>1, Elements
<1>5. ASSUME NEW y \in ToSet(s) PROVE Item(k, y) \in ToSet(Items(k, s))
  <2>1. PICK i \in 1..Len(s) : y = s[i]
    BY Elements
  <2> QED BY <1>2, <1>3, <2>1, Elements
<1> QED BY <1>2, <1>3, <1>4, <1>5

\* The handles that a task drops at its end, one by one.
LEMMA HandleItems ==
  ASSUME NEW S, IsFiniteSet(S), S \subseteq Effects
  PROVE  /\ Items("remove", Singletons(S)) \in Seq(StackItems)
         /\ \A x \in ToSet(Items("remove", Singletons(S))) : \E e \in S : x = Item("remove", <<e>>)
         /\ S = {} => Items("remove", Singletons(S)) = <<>>
<1> DEFINE s == SetToSeq(S)
<1>1. PICK n \in Nat : ExistsBijection(1..n, S)
  BY FS_NatBijection
<1>2. Cardinality(S) = n
  BY <1>1, FS_CountingElements
<1>3. PICK f \in Bijection(1..n, S) : TRUE
  BY <1>1 DEF ExistsBijection
<1>4. f \in [1..n -> S] /\ IsInjective(f)
  BY <1>3 DEF Bijection, Injection, IsInjective
<1>5. s \in [1..n -> S]
  BY <1>2, <1>4 DEF SetToSeq
<1>6. s \in Seq(S) /\ Len(s) = n
  BY <1>5
<1> HIDE DEF s
<1>7. /\ Len(Singletons(S)) = n /\ Singletons(S) \in Seq(Seq(Effects))
      /\ \A i \in 1..n : Singletons(S)[i] = <<s[i]>>
  BY <1>5, <1>6 DEF Singletons, s
<1>8. \A i \in 1..n : <<"remove", Singletons(S)[i]>> \in StackItems
  BY <1>7 DEF StackItems, Item
<1>9. /\ Items("remove", Singletons(S)) \in Seq(StackItems)
      /\ Len(Items("remove", Singletons(S))) = n
  BY <1>7, <1>8 DEF Items
<1>10. ASSUME NEW x \in ToSet(Items("remove", Singletons(S)))
       PROVE  \E e \in S : x = Item("remove", <<e>>)
  <2>1. PICK i \in 1..n : x = Items("remove", Singletons(S))[i]
    BY <1>9, Elements
  <2>2. x = Item("remove", <<s[i]>>) /\ s[i] \in S
    BY <1>5, <1>7, <2>1 DEF Items, Item
  <2> QED BY <2>2
<1>11. S = {} => n = 0
  BY <1>2, FS_EmptySet
<1>12. S = {} => Items("remove", Singletons(S)) = <<>>
  BY <1>9, <1>11
<1> QED BY <1>9, <1>10, <1>12

-----------------------------------------------------------------------------
(* The inductive invariant of the types *)

OwnerTypes == [children : Seq(Effects), cleanups : Seq(Runs), nodes : Seq(Effects), paused : BOOLEAN]

\* What an actor may have on its stack.  A task does not clean up its own owner before it has
\* ended, and what it is about to remove is not what its value holds.
Removable(e) == step[e] # "none" /\ e \notin handles
CleanupItem(a, x) ==
  \E o \in Effects : x = Item("cleanup", o) /\ (a \in Threads \/ (a = Outer /\ o \in Inner))
RunItem(x) == \E e \in Effects, r \in Runs : x = <<"run", e, r>> /\ r <= runs[e]
ReleaseItem(a, x) ==
  \E o \in Effects : x = Item("release", o) /\ (a = o => step[o] = "ended") /\ (a \in Inner => a = o)
RemoveItem(x) == \E s \in Seq(Effects) : x = Item("remove", s) /\ \A e \in ToSet(s) : Removable(e)
PlainItem(x) == \E e \in Effects, k \in {"drop", "close", "wake"} : x = Item(k, e)
MarkItem(a, x) == \E e \in Effects : x = Item("mark", e) /\ a \in Threads /\ runs[e] > 0
PauseItem(x) == \E o \in Owners, k \in {"pause", "resume"} : x = Item(k, o)
ItemOK(a, x) ==
  \/ CleanupItem(a, x) \/ RunItem(x) \/ ReleaseItem(a, x) \/ RemoveItem(x)
  \/ PlainItem(x) \/ MarkItem(a, x) \/ PauseItem(x)
StackOK == \A a \in Actors : \A x \in ToSet(todo[a]) : ItemOK(a, x)

\* A thread that marks does nothing else.
MarkAlone == \A a \in Actors : \A x \in ToSet(todo[a]) : x[1] = "mark" => todo[a] = <<x>>

\* The tree of owners.
OwnOK ==
  /\ ToSet(own[Root].children) \subseteq {Outer} /\ ToSet(own[Root].nodes) \subseteq {Outer}
  /\ ToSet(own[Outer].children) \subseteq Inner /\ ToSet(own[Outer].nodes) \subseteq Inner
  /\ \A i \in Inner : own[i].children = <<>> /\ own[i].nodes = <<>>
  /\ own[Root].cleanups = <<>>
  /\ \A e \in Effects : ToSet(own[e].cleanups) \subseteq 1..runs[e]
  /\ \A o \in Owners : \A e \in ToSet(own[o].nodes) : Removable(e)

Types ==
  /\ native \in BOOLEAN
  /\ refs \in [Effects -> SUBSET (Actors \cup {Store})]
  /\ dirty \in [Effects -> BOOLEAN] /\ set \in [Effects -> BOOLEAN]
  /\ waker \in [Effects -> BOOLEAN] /\ queued \in [Effects -> BOOLEAN]
  /\ first \in [Effects -> BOOLEAN] /\ step \in [Effects -> Steps]
  /\ held \in [Owners -> SUBSET (Actors \cup {Root})]
  /\ handles \in SUBSET Inner /\ marks \in 0..MaxMarks
  /\ runs \in [Effects -> 0..(MaxMarks + 1)] /\ ran \in [Effects -> [Runs -> Nat]]
  /\ parent \in [Inner -> 0..(MaxMarks + 1)]
Stacks == todo \in [Actors -> Seq(StackItems)] /\ own \in [Owners -> OwnerTypes]

TasksOK ==
  /\ \A e \in Effects : step[e] \notin {"none", "ended"} => e \in held[e]
  /\ \A e \in Effects : Store \in refs[e] => step[e] \notin {"none", "ended"}
  /\ \A i \in handles : Store \in refs[i]
  /\ \A e \in Effects : step[e] = "none" =>
       runs[e] = 0 /\ ~first[e] /\ ~dirty[e] /\ ~set[e] /\ refs[e] = {}

\* Every run is the first one or was asked for by a mark of its own: marks in progress and
\* those that no run has answered yet are counted too.
One(p) == IF p THEN 1 ELSE 0
Marking(e) == {t \in Threads : todo[t] = <<Item("mark", e)>>}
Going(e) == step[e] \in {"cleaning", "starting"}
Wanted(e) == first[e] \/ (dirty[e] /\ refs[e] # {})
Asked(e) == One(Going(e)) + One(Wanted(e))
RunsCounted == \A e \in Effects : runs[e] + Asked(e) + Cardinality(Marking(e)) <= marks + 1

TypeInv ==
  /\ Types /\ Stacks /\ StackOK /\ MarkAlone /\ OwnOK /\ TasksOK /\ RunsCounted

-----------------------------------------------------------------------------
(* What is on a stack *)

\* The order in which an owner is cleaned, position by position.
LEMMA CleanupPlaces ==
  ASSUME Stacks, OwnOK, NEW o \in Owners
  PROVE  LET c == Len(own[o].children)
             n == Len(own[o].cleanups)
             q == CleanupOrder(o)
         IN  /\ q \in Seq(StackItems)
             /\ own[o].nodes = <<>> => Len(q) = c + n
             /\ own[o].nodes # <<>> =>
                  Len(q) = c + n + 1 /\ q[c + n + 1] = Item("remove", own[o].nodes)
             /\ \A k \in 1..c : q[k] = Item("cleanup", own[o].children[k])
             /\ \A k \in 1..n : q[c + k] = <<"run", o, own[o].cleanups[k]>>
<1> DEFINE c == Len(own[o].children)
           n == Len(own[o].cleanups)
           q == CleanupOrder(o)
           x == Items("cleanup", own[o].children)
           y == [i \in 1..n |-> <<"run", o, own[o].cleanups[i]>>]
           z == IF own[o].nodes = <<>> THEN <<>> ELSE <<Item("remove", own[o].nodes)>>
<1>1. /\ own[o].children \in Seq(Effects) /\ own[o].nodes \in Seq(Effects)
      /\ own[o].cleanups \in Seq(Runs) /\ c \in Nat /\ n \in Nat
  BY DEF Stacks, OwnerTypes
<1>2. /\ x \in Seq(StackItems) /\ Len(x) = c
      /\ \A k \in 1..c : x[k] = Item("cleanup", own[o].children[k])
  BY <1>1, ListItems DEF Kinds, Owners
<1>3. o = Root => n = 0
  BY DEF OwnOK
<1>4. \A k \in 1..n : <<"run", o, own[o].cleanups[k]>> \in StackItems
  BY <1>1, <1>3 DEF StackItems, Owners
<1>5. y \in Seq(StackItems) /\ Len(y) = n
  BY <1>1, <1>4
<1>6. own[o].nodes = <<>> => z = <<>>
  OBVIOUS
<1>7. own[o].nodes # <<>> => z = <<Item("remove", own[o].nodes)>>
  OBVIOUS
<1>8. Item("remove", own[o].nodes) \in StackItems
  BY <1>1 DEF StackItems
<1>9. z \in Seq(StackItems)
  BY <1>6, <1>7, <1>8
<1>10. q = (x \o y) \o z
  BY DEF CleanupOrder
<1>11. \A k \in 1..n : y[k] = <<"run", o, own[o].cleanups[k]>>
  OBVIOUS
<1> HIDE DEF x, y, z, q, c, n
<1>12. /\ q \in Seq(StackItems) /\ Len(q) = Len(x) + Len(y) + Len(z)
       /\ \A k \in 1..Len(x) : q[k] = x[k]
       /\ \A k \in 1..Len(y) : q[Len(x) + k] = y[k]
       /\ \A k \in 1..Len(z) : q[Len(x) + Len(y) + k] = z[k]
  <2> DEFINE w == (x \o y) \o z
  <2>1. /\ w \in Seq(StackItems) /\ Len(w) = Len(x) + Len(y) + Len(z)
        /\ \A k \in 1..Len(x) : w[k] = x[k]
        /\ \A k \in 1..Len(y) : w[Len(x) + k] = y[k]
        /\ \A k \in 1..Len(z) : w[Len(x) + Len(y) + k] = z[k]
    <3>1. x \in Seq(StackItems) /\ y \in Seq(StackItems) /\ z \in Seq(StackItems)
      BY <1>2, <1>5, <1>9
    <3> QED BY <3>1, Concat3
  <2>2. q = w
    BY <1>10
  <2> HIDE DEF w
  <2> QED BY <2>1, <2>2
<1>13. \A k \in 1..c : q[k] = Item("cleanup", own[o].children[k])
  BY <1>2, <1>12
<1>14. \A k \in 1..n : q[c + k] = <<"run", o, own[o].cleanups[k]>>
  BY <1>2, <1>5, <1>11, <1>12
<1>15. own[o].nodes = <<>> => Len(q) = c + n
  <2> HAVE own[o].nodes = <<>>
  <2>1. z = <<>>
    BY <1>6
  <2>2. Len(z) = 0
    BY <2>1
  <2> QED BY <1>1, <1>2, <1>5, <1>12, <2>2
<1>16. own[o].nodes # <<>> => Len(q) = c + n + 1 /\ q[c + n + 1] = Item("remove", own[o].nodes)
  <2> HAVE own[o].nodes # <<>>
  <2>1. z = <<Item("remove", own[o].nodes)>>
    BY <1>7
  <2>2. Len(z) = 1 /\ z[1] = Item("remove", own[o].nodes)
    BY <2>1
  <2>3. Len(q) = c + n + 1
    BY <1>2, <1>5, <1>12, <2>2
  <2>4. q[c + n + 1] = z[1]
    BY <1>2, <1>5, <1>12, <2>2
  <2> QED BY <2>2, <2>3, <2>4
<1>17. q \in Seq(StackItems)
  BY <1>12
<1> QED BY <1>13, <1>14, <1>15, <1>16, <1>17 DEF q, c, n

\* What it holds.
LEMMA CleanupElements ==
  ASSUME Stacks, OwnOK, NEW o \in Owners
  PROVE  /\ \A x \in ToSet(CleanupOrder(o)) :
              \/ \E y \in ToSet(own[o].children) : x = Item("cleanup", y)
              \/ \E r \in ToSet(own[o].cleanups) : x = <<"run", o, r>>
              \/ own[o].nodes # <<>> /\ x = Item("remove", own[o].nodes)
         /\ \A y \in ToSet(own[o].children) : Item("cleanup", y) \in ToSet(CleanupOrder(o))
         /\ \A r \in ToSet(own[o].cleanups) : <<"run", o, r>> \in ToSet(CleanupOrder(o))
         /\ own[o].nodes # <<>> => Item("remove", own[o].nodes) \in ToSet(CleanupOrder(o))
<1> DEFINE c == Len(own[o].children)
           n == Len(own[o].cleanups)
           q == CleanupOrder(o)
<1>1. /\ own[o].children \in Seq(Effects) /\ own[o].nodes \in Seq(Effects)
      /\ own[o].cleanups \in Seq(Runs) /\ c \in Nat /\ n \in Nat
  BY DEF Stacks, OwnerTypes
<1>2. /\ q \in Seq(StackItems)
      /\ own[o].nodes = <<>> => Len(q) = c + n
      /\ own[o].nodes # <<>> => Len(q) = c + n + 1 /\ q[c + n + 1] = Item("remove", own[o].nodes)
      /\ \A k \in 1..c : q[k] = Item("cleanup", own[o].children[k])
      /\ \A k \in 1..n : q[c + k] = <<"run", o, own[o].cleanups[k]>>
  BY CleanupPlaces
<1> HIDE DEF q, c, n
<1>3. ASSUME NEW x \in ToSet(q)
      PROVE  \/ \E y \in ToSet(own[o].children) : x = Item("cleanup", y)
             \/ \E r \in ToSet(own[o].cleanups) : x = <<"run", o, r>>
             \/ own[o].nodes # <<>> /\ x = Item("remove", own[o].nodes)
  <2>1. PICK k \in 1..Len(q) : x = q[k]
    BY <1>2, Elements
  <2>2. CASE k \in 1..c
    <3>1. x = Item("cleanup", own[o].children[k])
      BY <1>2, <2>1, <2>2
    <3>2. own[o].children[k] \in ToSet(own[o].children)
      BY <1>1, <2>2, Elements DEF c
    <3> QED BY <3>1, <3>2
  <2>3. CASE k - c \in 1..n
    <3>1. q[c + (k - c)] = <<"run", o, own[o].cleanups[k - c]>>
      BY <1>2, <2>3
    <3>2. c + (k - c) = k
      BY <1>1
    <3>3. own[o].cleanups[k - c] \in ToSet(own[o].cleanups)
      BY <1>1, <2>3, Elements DEF n
    <3> QED BY <2>1, <3>1, <3>2, <3>3
  <2>4. CASE k > c + n
    BY <1>1, <1>2, <2>1, <2>4
  <2> QED BY <1>1, <2>2, <2>3, <2>4
<1>4. ASSUME NEW r \in ToSet(own[o].cleanups) PROVE <<"run", o, r>> \in ToSet(q)
  <2>1. PICK k \in 1..n : r = own[o].cleanups[k]
    BY <1>1, Elements DEF n
  <2>2. c + k \in 1..Len(q)
    BY <1>1, <1>2
  <2>3. q[c + k] = <<"run", o, r>>
    BY <1>2, <2>1
  <2> QED BY <1>2, <2>2, <2>3, Elements
<1>5. ASSUME own[o].nodes # <<>> PROVE Item("remove", own[o].nodes) \in ToSet(q)
  <2>1. c + n + 1 \in 1..Len(q) /\ q[c + n + 1] = Item("remove", own[o].nodes)
    BY <1>1, <1>2, <1>5
  <2> QED BY <1>2, <2>1, Elements
<1>6. ASSUME NEW y \in ToSet(own[o].children) PROVE Item("cleanup", y) \in ToSet(q)
  <2>1. PICK k \in 1..c : y = own[o].children[k]
    BY <1>1, Elements DEF c
  <2>2. k \in 1..Len(q) /\ q[k] = Item("cleanup", y)
    BY <1>1, <1>2, <2>1
  <2> QED BY <1>2, <2>2, Elements
<1> QED BY <1>3, <1>4, <1>5, <1>6 DEF q

\* The item that an actor deals with next.
LEMMA HeadItem ==
  ASSUME Stacks, StackOK, NEW a \in Actors, todo[a] # <<>>
  PROVE  LET x == Head(todo[a]) IN
         /\ x \in ToSet(todo[a]) /\ ItemOK(a, x)
         /\ x[1] = "cleanup" => CleanupItem(a, x)
         /\ x[1] = "run" => RunItem(x)
         /\ x[1] = "release" => ReleaseItem(a, x)
         /\ x[1] = "remove" => RemoveItem(x)
         /\ x[1] \in {"drop", "close", "wake"} => PlainItem(x)
         /\ x[1] = "mark" => MarkItem(a, x)
         /\ x[1] \in {"pause", "resume"} => PauseItem(x)
<1> DEFINE x == Head(todo[a])
<1>1. x \in ToSet(todo[a]) /\ ItemOK(a, x)
  BY Elements DEF Stacks, StackOK
<1> HIDE DEF x
<1>2. CleanupItem(a, x) => x[1] = "cleanup"
  BY DEF CleanupItem, Item
<1>3. RunItem(x) => x[1] = "run"
  BY DEF RunItem
<1>4. ReleaseItem(a, x) => x[1] = "release"
  BY DEF ReleaseItem, Item
<1>5. RemoveItem(x) => x[1] = "remove"
  BY DEF RemoveItem, Item
<1>6. PlainItem(x) => x[1] \in {"drop", "close", "wake"}
  BY DEF PlainItem, Item
<1>7. MarkItem(a, x) => x[1] = "mark"
  BY DEF MarkItem, Item
<1>8. PauseItem(x) => x[1] \in {"pause", "resume"}
  BY DEF PauseItem, Item
<1>9. /\ x[1] = "cleanup" => CleanupItem(a, x)
      /\ x[1] = "run" => RunItem(x)
      /\ x[1] = "release" => ReleaseItem(a, x)
      /\ x[1] = "remove" => RemoveItem(x)
      /\ x[1] \in {"drop", "close", "wake"} => PlainItem(x)
      /\ x[1] = "mark" => MarkItem(a, x)
      /\ x[1] \in {"pause", "resume"} => PauseItem(x)
  BY <1>1, <1>2, <1>3, <1>4, <1>5, <1>6, <1>7, <1>8 DEF ItemOK
<1> QED BY <1>1, <1>9 DEF x

-----------------------------------------------------------------------------
(* Types are kept *)

\* The parts of Continue are named where a proof goes through them one by one.
LEMMA ContinueCases ==
  ASSUME NEW a, Continue(a)
  PROVE  \/ CleanupOwner(a) \/ RunCleanup(a) \/ Release(a) \/ RemoveNodes(a) \/ DropRef(a)
         \/ CloseChannel(a) \/ MarkDirty(a) \/ NotifyWakes(a) \/ PauseOwner(a)
BY DEF Continue

ThreadCall(t) == \/ \E e \in Effects : Mark(t, e) \/ Stop(t, e)
                 \/ CleanupRoot(t) \/ PauseRoot(t) \/ ResumeRoot(t)
Nested(e) == \E i \in Inner : SpawnEffect(e, i) \/ SpawnRenderEffect(e, i) \/ DropHandle(e, i)

LEMMA NextCases ==
  ASSUME [Next]_vars
  PROVE  \/ \E a \in Actors : Continue(a)
         \/ \E t \in Threads : ThreadCall(t)
         \/ \E e \in Effects : Task(e) \/ Nested(e)
         \/ UNCHANGED vars
BY DEF Next, ThreadCall, Nested

\* A task that was spawned stays so, one that ended stays so, runs only grow, and a value
\* holds a new handle only of an effect that is created now.
Evolve ==
  /\ \A e \in Effects : /\ step[e] = "ended" => step'[e] = "ended"
                        /\ step[e] # "none" => step'[e] # "none"
                        /\ runs[e] <= runs'[e] /\ runs'[e] \in Nat
  /\ \A e \in handles' : e \in handles \/ step[e] = "none"

LEMMA Evolves ==
  ASSUME Types, TasksOK, [Next]_vars
  PROVE  Evolve
<1> USE DEF Types, Evolve
<1>0. Effects = {Outer} \cup Inner
  BY DEF Effects
<1>1. ASSUME NEW a \in Actors, Continue(a) PROVE Evolve
  BY <1>1 DEF Continue
<1>2. ASSUME NEW t \in Threads, ThreadCall(t) PROVE Evolve
  <2>1. ASSUME NEW e \in Effects, Mark(t, e) \/ Stop(t, e) PROVE Evolve
    BY <2>1 DEF Mark, Stop, history
  <2>2. CASE CleanupRoot(t) \/ PauseRoot(t) \/ ResumeRoot(t)
    BY <2>2 DEF CleanupRoot, PauseRoot, ResumeRoot, history
  <2> QED BY <1>2, <2>1, <2>2 DEF ThreadCall
<1>3. ASSUME NEW e \in Effects, Task(e) PROVE Evolve
  <2>1. CASE StartPoll(e) \/ Upgrade(e) \/ Register(e) \/ Swap(e) \/ EndPoll(e)
    BY <2>1 DEF StartPoll, Upgrade, Register, Swap, EndPoll, Ready, Goto, history
  <2>2. CASE Check(e)
    BY <2>2 DEF Check, Ready, Goto
  <2>3. CASE WithCleanup(e) \/ EndBody(e) \/ EndTask(e)
    BY <2>3 DEF WithCleanup, EndBody, EndTask, Ready, Goto, history
  <2>4. CASE RunBody(e)
    BY <2>4 DEF RunBody, Ready, Goto
  <2> QED BY <1>3, <2>1, <2>2, <2>3, <2>4 DEF Task, Poll
<1>4. ASSUME NEW e \in Effects, NEW i \in Inner,
             SpawnEffect(e, i) \/ SpawnRenderEffect(e, i) \/ DropHandle(e, i)
      PROVE  Evolve
  <2>1. CASE SpawnEffect(e, i)
    BY <2>1 DEF SpawnEffect, Ready
  <2>2. CASE SpawnRenderEffect(e, i)
    <3>1. /\ step' = [step EXCEPT ![i] = "waiting"] /\ step[i] = "none"
          /\ runs' = [runs EXCEPT ![i] = 1] /\ handles' = handles \cup {i}
      BY <2>2 DEF SpawnRenderEffect
    <3>2. i \in Effects /\ runs[i] = 0
      BY <1>0, <3>1 DEF TasksOK
    <3> QED BY <3>1, <3>2
  <2>3. CASE DropHandle(e, i)
    BY <2>3 DEF DropHandle, history
  <2> QED BY <1>4, <2>1, <2>2, <2>3
<1>5. CASE UNCHANGED vars
  BY <1>5 DEF vars, history
<1> QED BY <1>1, <1>2, <1>3, <1>4, <1>5, NextCases DEF Nested

\* What an actor has on its stack is allowed as long as it is there.
LEMMA ItemStays ==
  ASSUME Types, Evolve, NEW a \in Actors, NEW x, ItemOK(a, x)
  PROVE  ItemOK(a, x)'
<1> USE DEF Types, Evolve
<1>1. CASE CleanupItem(a, x)
  BY <1>1 DEF CleanupItem, ItemOK
<1>2. CASE RunItem(x)
  <2>1. PICK e \in Effects, r \in Runs : x = <<"run", e, r>> /\ r <= runs[e]
    BY <1>2 DEF RunItem
  <2>2. r <= runs'[e]
    <3>1. runs[e] \in Nat /\ r \in Nat
      BY LifecycleAssumption DEF Runs, LifecycleAssumption
    <3>2. runs[e] <= runs'[e] /\ runs'[e] \in Nat
      OBVIOUS
    <3> QED BY <2>1, <3>1, <3>2
  <2> QED BY <2>1, <2>2 DEF RunItem, ItemOK
<1>3. CASE ReleaseItem(a, x)
  BY <1>3 DEF ReleaseItem, ItemOK
<1>4. CASE RemoveItem(x)
  <2>1. PICK s \in Seq(Effects) :
          x = Item("remove", s) /\ \A e \in ToSet(s) : Removable(e)
    BY <1>4 DEF RemoveItem
  <2>2. \A e \in ToSet(s) : e \in Effects
    BY Elements
  <2>3. \A e \in ToSet(s) : Removable(e)'
    BY <2>1, <2>2 DEF Removable
  <2> QED BY <1>4, <2>1, <2>3 DEF RemoveItem, ItemOK
<1>5. CASE PlainItem(x)
  BY <1>5 DEF PlainItem, ItemOK
<1>6. CASE MarkItem(a, x)
  <2>1. PICK e \in Effects : x = Item("mark", e) /\ a \in Threads /\ runs[e] > 0
    BY <1>6 DEF MarkItem
  <2>2. runs'[e] > 0
    <3>1. runs[e] \in Nat
      OBVIOUS
    <3>2. runs[e] <= runs'[e] /\ runs'[e] \in Nat
      OBVIOUS
    <3> QED BY <2>1, <3>1, <3>2
  <2> QED BY <2>1, <2>2 DEF MarkItem, ItemOK
<1>7. CASE PauseItem(x)
  BY <1>7 DEF PauseItem, ItemOK
<1> QED BY <1>1, <1>2, <1>3, <1>4, <1>5, <1>6, <1>7 DEF ItemOK

\* A stack whose head gives way, and one that is set up.
LEMMA Pushed ==
  ASSUME Stacks, NEW a \in Actors, todo[a] # <<>>, NEW items \in Seq(StackItems), Then(a, items)
  PROVE  /\ todo' \in [Actors -> Seq(StackItems)]
         /\ todo'[a] = items \o Tail(todo[a])
         /\ \A b \in Actors \ {a} : todo'[b] = todo[b]
         /\ ToSet(todo'[a]) \subseteq ToSet(items) \cup ToSet(todo[a])
         /\ ToSet(items) \subseteq ToSet(todo'[a])
         /\ \A x \in ToSet(todo[a]) : x = Head(todo[a]) \/ x \in ToSet(todo'[a])
<1>1. todo \in [Actors -> Seq(StackItems)] /\ todo[a] \in Seq(StackItems)
  BY DEF Stacks
<1>2. todo' = [todo EXCEPT ![a] = items \o Tail(todo[a])]
  BY DEF Then
<1>3. /\ todo'[a] = items \o Tail(todo[a])
      /\ \A b \in Actors \ {a} : todo'[b] = todo[b]
  BY <1>1, <1>2
<1>4. /\ todo'[a] \in Seq(StackItems)
      /\ ToSet(todo'[a]) \subseteq ToSet(items) \cup ToSet(todo[a])
      /\ ToSet(items) \subseteq ToSet(todo'[a])
      /\ \A x \in ToSet(todo[a]) : x = Head(todo[a]) \/ x \in ToSet(todo'[a])
  <2> DEFINE s == todo[a]
             u == todo'[a]
             S == StackItems
  <2>1. s \in Seq(S) /\ s # <<>> /\ items \in Seq(S) /\ u = items \o Tail(s)
    BY <1>1, <1>3
  <2> HIDE DEF s, u, S
  <2>2. u \in Seq(S)
    BY <2>1, Replaced
  <2>3. /\ ToSet(u) \subseteq ToSet(items) \cup ToSet(s) /\ ToSet(items) \subseteq ToSet(u)
        /\ \A x \in ToSet(s) : x = Head(s) \/ x \in ToSet(u)
    BY <2>1, ReplacedElements
  <2> QED BY <2>2, <2>3 DEF s, u, S
<1>5. todo' \in [Actors -> Seq(StackItems)]
  BY <1>1, <1>2, <1>4
<1> QED BY <1>3, <1>4, <1>5

LEMMA SetUp ==
  ASSUME Stacks, NEW a \in Actors, NEW items \in Seq(StackItems), Call(a, items)
  PROVE  /\ todo' \in [Actors -> Seq(StackItems)]
         /\ todo'[a] = items
         /\ \A b \in Actors \ {a} : todo'[b] = todo[b]
BY DEF Stacks, Call

\* The stacks stay allowed if the new items are.
LEMMA PushedOK ==
  ASSUME Types, Stacks, StackOK, MarkAlone, Evolve, NEW a \in Actors, todo[a] # <<>>,
         NEW items \in Seq(StackItems), Then(a, items),
         \A x \in ToSet(items) : ItemOK(a, x)' /\ x[1] # "mark"
  PROVE  StackOK' /\ MarkAlone'
<1>1. /\ todo'[a] = items \o Tail(todo[a])
      /\ \A b \in Actors \ {a} : todo'[b] = todo[b]
      /\ ToSet(todo'[a]) \subseteq ToSet(items) \cup ToSet(todo[a])
  BY Pushed
<1>2. ASSUME NEW b \in Actors, NEW x \in ToSet(todo'[b]) PROVE ItemOK(b, x)'
  <2>1. CASE b = a /\ x \in ToSet(items)
    BY <2>1
  <2>2. CASE x \in ToSet(todo[b])
    BY <2>2, ItemStays DEF StackOK
  <2> QED BY <1>1, <2>1, <2>2
<1>3. ASSUME NEW b \in Actors, NEW x \in ToSet(todo'[b]), x[1] = "mark" PROVE todo'[b] = <<x>>
  <2>1. CASE b # a
    BY <1>1, <1>3, <2>1 DEF MarkAlone
  <2>2. CASE b = a
    <3>1. x \notin ToSet(items) /\ x \in ToSet(todo[a])
      BY <1>1, <1>3, <2>2
    <3>2. todo[a] = <<x>>
      BY <1>3, <3>1 DEF MarkAlone
    <3>3. todo'[a] = items
      BY <1>1, <3>2
    <3> QED BY <1>3, <2>2, <3>1, <3>3
  <2> QED BY <2>1, <2>2
<1> QED BY <1>2, <1>3 DEF StackOK, MarkAlone

LEMMA SetUpOK ==
  ASSUME Types, Stacks, StackOK, MarkAlone, Evolve, NEW a \in Actors,
         NEW items \in Seq(StackItems), Call(a, items),
         \A x \in ToSet(items) : ItemOK(a, x)' /\ (x[1] = "mark" => items = <<x>>)
  PROVE  StackOK' /\ MarkAlone'
<1>1. /\ todo'[a] = items
      /\ \A b \in Actors \ {a} : todo'[b] = todo[b]
  BY SetUp
<1>2. ASSUME NEW b \in Actors, NEW x \in ToSet(todo'[b]) PROVE ItemOK(b, x)'
  <2>1. CASE b = a
    BY <1>1, <2>1
  <2>2. CASE b # a
    BY <1>1, <2>2, ItemStays DEF StackOK
  <2> QED BY <2>1, <2>2
<1>3. ASSUME NEW b \in Actors, NEW x \in ToSet(todo'[b]), x[1] = "mark" PROVE todo'[b] = <<x>>
  BY <1>1, <1>3 DEF MarkAlone
<1> QED BY <1>2, <1>3 DEF StackOK, MarkAlone

LEMMA SameStacksOK ==
  ASSUME Types, StackOK, MarkAlone, Evolve, UNCHANGED todo
  PROVE  StackOK' /\ MarkAlone'
<1>1. ASSUME NEW b \in Actors, NEW x \in ToSet(todo[b]) PROVE ItemOK(b, x)'
  BY ItemStays DEF StackOK
<1> QED BY <1>1 DEF StackOK, MarkAlone

\* What is taken from an owner is allowed on the stack of whoever takes it.
LEMMA CleanupAllowed ==
  ASSUME Types, Stacks, OwnOK, Evolve, NEW a \in Actors, NEW o \in Owners,
         a \in Threads \/ (a = Outer /\ o \in Effects) \/ (a \in Inner /\ o = a)
  PROVE  /\ CleanupOrder(o) \in Seq(StackItems)
         /\ \A x \in ToSet(CleanupOrder(o)) : ItemOK(a, x)' /\ x[1] # "mark" /\ x[1] # "release"
<1> USE LifecycleAssumption DEF LifecycleAssumption
<1>1. CleanupOrder(o) \in Seq(StackItems)
  BY CleanupPlaces
<1>2. /\ own[o].children \in Seq(Effects) /\ own[o].nodes \in Seq(Effects)
      /\ own[o].cleanups \in Seq(Runs)
  BY DEF Stacks, OwnerTypes
<1>3. /\ Outer \notin Inner /\ Root # Outer /\ Root \notin Inner /\ Outer \notin Threads
      /\ Root \notin Effects /\ Threads \cap Inner = {}
  BY DEF Effects
<1>4. ASSUME NEW x \in ToSet(CleanupOrder(o))
      PROVE  ItemOK(a, x)' /\ x[1] # "mark" /\ x[1] # "release"
  <2>1. ASSUME NEW y \in ToSet(own[o].children), x = Item("cleanup", y)
        PROVE  ItemOK(a, x)
    <3>1. y \in Effects
      BY <1>2, Elements
    <3>2. CASE o = Root
      BY <1>3, <2>1, <3>1, <3>2 DEF ItemOK, CleanupItem
    <3>3. CASE o = Outer
      <4>1. y \in Inner
        BY <3>3 DEF OwnOK
      <4>2. a \in Threads \/ a = Outer
        BY <1>3, <3>3
      <4> QED BY <2>1, <3>1, <4>1, <4>2 DEF ItemOK, CleanupItem
    <3>4. CASE o \in Inner
      <4>1. own[o].children = <<>>
        BY <3>4 DEF OwnOK
      <4> QED BY <4>1 DEF ToSet
    <3> QED BY <3>2, <3>3, <3>4 DEF Owners, Effects
  <2>2. ASSUME NEW r \in ToSet(own[o].cleanups), x = <<"run", o, r>>
        PROVE  ItemOK(a, x)
    <3>1. r \in Runs
      BY <1>2, Elements
    <3>2. o # Root
      <4>1. SUFFICES ASSUME o = Root PROVE FALSE
        OBVIOUS
      <4>2. own[o].cleanups = <<>>
        BY <4>1 DEF OwnOK
      <4> QED BY <4>2 DEF ToSet
    <3>3. o \in Effects /\ r <= runs[o]
      BY <3>2 DEF Owners, OwnOK
    <3> QED BY <2>2, <3>1, <3>3 DEF ItemOK, RunItem
  <2>3. ASSUME own[o].nodes # <<>>, x = Item("remove", own[o].nodes)
        PROVE  ItemOK(a, x)
    <3>1. \A e \in ToSet(own[o].nodes) : Removable(e)
      BY DEF OwnOK
    <3> QED BY <1>2, <2>3, <3>1 DEF ItemOK, RemoveItem
  <2>4. \/ \E y \in ToSet(own[o].children) : x = Item("cleanup", y)
        \/ \E r \in ToSet(own[o].cleanups) : x = <<"run", o, r>>
        \/ own[o].nodes # <<>> /\ x = Item("remove", own[o].nodes)
    BY CleanupElements
  <2>5. x[1] # "mark" /\ x[1] # "release"
    BY <2>4 DEF Item
  <2>6. ItemOK(a, x)
    BY <2>1, <2>2, <2>3, <2>4
  <2> QED BY <2>5, <2>6, ItemStays
<1> QED BY <1>1, <1>4

LEMMA Emptied ==
  ASSUME NEW A, NEW B, NEW C, NEW D, NEW r \in [children : A, cleanups : B, nodes : C, paused : D],
         <<>> \in A, <<>> \in B, <<>> \in C
  PROVE  LET w == [r EXCEPT !.children = <<>>, !.cleanups = <<>>, !.nodes = <<>>]
         IN  /\ w \in [children : A, cleanups : B, nodes : C, paused : D]
             /\ w.children = <<>> /\ w.cleanups = <<>> /\ w.nodes = <<>>
             /\ w.paused = r.paused
OBVIOUS

\* What is left of an owner then.
LEMMA TakenLeaves ==
  ASSUME Stacks, NEW o \in Owners, own' = Taken(o)
  PROVE  /\ own' \in [Owners -> OwnerTypes]
         /\ own'[o].children = <<>> /\ own'[o].cleanups = <<>> /\ own'[o].nodes = <<>>
         /\ \A p \in Owners \ {o} : own'[p] = own[p]
         /\ \A p \in Owners : own'[p].paused = own[p].paused
<1>1. own \in [Owners -> OwnerTypes] /\ own[o] \in OwnerTypes
  BY DEF Stacks
<1> DEFINE w == [own[o] EXCEPT !.children = <<>>, !.cleanups = <<>>, !.nodes = <<>>]
<1>2. own' = [own EXCEPT ![o] = w]
  BY <1>1 DEF Taken
<1>3. /\ w \in OwnerTypes /\ w.children = <<>> /\ w.cleanups = <<>> /\ w.nodes = <<>>
      /\ w.paused = own[o].paused
  <2>1. <<>> \in Seq(Effects) /\ <<>> \in Seq(Runs)
    OBVIOUS
  <2> QED BY <1>1, <2>1, Emptied, Zenon DEF OwnerTypes
<1> HIDE DEF w
<1> QED BY <1>1, <1>2, <1>3

\* Owners keep their lists or lose them.
Shrinks ==
  \A p \in Owners : /\ own'[p].children = own[p].children \/ own'[p].children = <<>>
                    /\ own'[p].cleanups = own[p].cleanups \/ own'[p].cleanups = <<>>
                    /\ own'[p].nodes = own[p].nodes \/ own'[p].nodes = <<>>
LEMMA OwnStays ==
  ASSUME Types, Stacks, OwnOK, Evolve, Shrinks
  PROVE  OwnOK'
<1>0. ToSet(<<>>) = {}
  BY DEF ToSet
<1>1. \A p \in Owners : /\ ToSet(own'[p].children) \subseteq ToSet(own[p].children)
                        /\ ToSet(own'[p].cleanups) \subseteq ToSet(own[p].cleanups)
                        /\ ToSet(own'[p].nodes) \subseteq ToSet(own[p].nodes)
  BY <1>0 DEF Shrinks
<1>2. Root \in Owners /\ Outer \in Owners /\ Inner \subseteq Owners /\ Effects \subseteq Owners
  BY DEF Owners, Effects
<1>3. \A i \in Inner : own'[i].children = <<>> /\ own'[i].nodes = <<>>
  BY <1>2 DEF OwnOK, Shrinks
<1>4. own'[Root].cleanups = <<>>
  BY <1>2 DEF OwnOK, Shrinks
<1>5. ASSUME NEW e \in Effects PROVE ToSet(own'[e].cleanups) \subseteq 1..runs'[e]
  <2>1. runs[e] \in Nat /\ runs'[e] \in Nat /\ runs[e] <= runs'[e]
    BY DEF Types, Evolve
  <2>2. 1..runs[e] \subseteq 1..runs'[e]
    BY <2>1
  <2> QED BY <1>1, <1>2, <2>2 DEF OwnOK
<1>6. ASSUME NEW o \in Owners, NEW e \in ToSet(own'[o].nodes) PROVE Removable(e)'
  <2>1. e \in ToSet(own[o].nodes) /\ Removable(e)
    BY <1>1 DEF OwnOK
  <2>2. own[o].nodes \in Seq(Effects)
    BY DEF Stacks, OwnerTypes
  <2>3. e \in Effects
    BY <2>1, <2>2, Elements
  <2> QED BY <2>1, <2>3 DEF Removable, Evolve
<1>7. /\ ToSet(own'[Root].children) \subseteq {Outer} /\ ToSet(own'[Root].nodes) \subseteq {Outer}
      /\ ToSet(own'[Outer].children) \subseteq Inner /\ ToSet(own'[Outer].nodes) \subseteq Inner
  BY <1>1, <1>2 DEF OwnOK
<1> QED BY <1>3, <1>4, <1>5, <1>6, <1>7 DEF OwnOK

LEMMA TakenShrinks ==
  ASSUME Stacks, NEW o \in Owners, own' = Taken(o)
  PROVE  Shrinks
BY TakenLeaves DEF Shrinks

LEMMA SameShrinks ==
  ASSUME UNCHANGED own
  PROVE  Shrinks
BY DEF Shrinks

\* To pause an owner leaves its lists.
LEMMA PauseField ==
  ASSUME NEW A, NEW B, NEW C, NEW D, NEW r \in [children : A, cleanups : B, nodes : C, paused : D],
         NEW p \in D
  PROVE  LET w == [r EXCEPT !.paused = p]
         IN  /\ w \in [children : A, cleanups : B, nodes : C, paused : D]
             /\ w.children = r.children /\ w.cleanups = r.cleanups /\ w.nodes = r.nodes
OBVIOUS

LEMMA PausedLeaves ==
  ASSUME Stacks, NEW o \in Owners, NEW p \in BOOLEAN, own' = [own EXCEPT ![o].paused = p]
  PROVE  /\ own' \in [Owners -> OwnerTypes] /\ Shrinks
         /\ \A q \in Owners : /\ own'[q].children = own[q].children
                               /\ own'[q].cleanups = own[q].cleanups
                               /\ own'[q].nodes = own[q].nodes
<1>1. own \in [Owners -> OwnerTypes] /\ own[o] \in OwnerTypes
  BY DEF Stacks
<1> DEFINE w == [own[o] EXCEPT !.paused = p]
<1>2. own' = [own EXCEPT ![o] = w]
  BY <1>1
<1>3. /\ w \in OwnerTypes /\ w.children = own[o].children /\ w.cleanups = own[o].cleanups
      /\ w.nodes = own[o].nodes
  BY <1>1, PauseField, Zenon DEF OwnerTypes
<1> HIDE DEF w
<1> QED BY <1>1, <1>2, <1>3 DEF Shrinks

\* Items of one kind, as a list of one.
LEMMA OneItem ==
  ASSUME NEW x \in StackItems
  PROVE  <<x>> \in Seq(StackItems) /\ ToSet(<<x>>) = {x}
BY OneOf

LEMMA NoItem ==
  <<>> \in Seq(StackItems) /\ ToSet(<<>>) = {}
BY DEF ToSet

\* Each part of a call keeps the stacks and the tree; after it the actor has no mark to make.
MarksNothing(a) == \A x \in ToSet(todo[a]) : x[1] # "mark"
LEMMA ContinueStacks ==
  ASSUME TypeInv, Evolve, NEW a \in Actors, Continue(a)
  PROVE  Stacks' /\ StackOK' /\ MarkAlone' /\ OwnOK' /\ MarksNothing(a)'
<1> USE LifecycleAssumption DEF LifecycleAssumption
<1>1. Types /\ Stacks /\ StackOK /\ MarkAlone /\ OwnOK /\ TasksOK
  BY DEF TypeInv
<1>2. todo[a] # <<>> /\ step' = step /\ handles' = handles /\ runs' = runs
  BY DEF Continue
<1>3. Threads \cap Effects = {} /\ Outer \notin Inner /\ Effects = {Outer} \cup Inner
      /\ Actors = Threads \cup Effects /\ Owners = {Root} \cup Effects
  BY DEF Effects, Actors, Owners
<1>4. ASSUME NEW items \in Seq(StackItems), Then(a, items),
             \A x \in ToSet(items) : ItemOK(a, x)' /\ x[1] # "mark",
             own' \in [Owners -> OwnerTypes], Shrinks
      PROVE  Stacks' /\ StackOK' /\ MarkAlone' /\ OwnOK' /\ MarksNothing(a)'
  <2>1. todo' \in [Actors -> Seq(StackItems)]
    BY <1>1, <1>2, <1>4, Pushed
  <2>2. StackOK' /\ MarkAlone'
    BY <1>1, <1>2, <1>4, PushedOK
  <2>3. OwnOK'
    BY <1>1, <1>4, OwnStays
  <2>4. ASSUME NEW x \in ToSet(todo'[a]), x[1] = "mark" PROVE FALSE
    <3>1. /\ todo'[a] = items \o Tail(todo[a])
          /\ ToSet(todo'[a]) \subseteq ToSet(items) \cup ToSet(todo[a])
      BY <1>1, <1>2, <1>4, Pushed
    <3>2. x \notin ToSet(items) /\ todo[a] = <<x>>
      BY <1>1, <1>4, <2>4, <3>1 DEF MarkAlone
    <3>3. todo'[a] = items
      BY <1>4, <3>1, <3>2
    <3> QED BY <2>4, <3>2, <3>3
  <2> QED BY <1>4, <2>1, <2>2, <2>3, <2>4 DEF Stacks, MarksNothing
<1>5. ASSUME Then(a, <<>>), UNCHANGED own
      PROVE  Stacks' /\ StackOK' /\ MarkAlone' /\ OwnOK' /\ MarksNothing(a)'
  BY <1>1, <1>4, <1>5, NoItem, SameShrinks DEF Stacks
<1>6. CASE CleanupOwner(a)
  <2>1. Head(todo[a])[1] = "cleanup"
    BY <1>6 DEF CleanupOwner
  <2>2. PICK o \in Effects :
          /\ Head(todo[a]) = Item("cleanup", o)
          /\ a \in Threads \/ (a = Outer /\ o \in Inner)
    BY <1>1, <1>2, <2>1, HeadItem DEF CleanupItem
  <2>3. Head(todo[a])[2] = o /\ o \in Owners
    BY <1>3, <2>2 DEF Item
  <2>4. CASE held[o] = {}
    BY <1>5, <1>6, <2>3, <2>4 DEF CleanupOwner, owners
  <2>5. CASE held[o] # {}
    <3> DEFINE items == CleanupOrder(o) \o <<Item("release", o)>>
    <3>1. Then(a, items) /\ own' = Taken(o)
      BY <1>6, <2>3, <2>5 DEF CleanupOwner
    <3>2. /\ CleanupOrder(o) \in Seq(StackItems)
          /\ \A x \in ToSet(CleanupOrder(o)) : ItemOK(a, x)' /\ x[1] # "mark"
      BY <1>1, <1>3, <2>2, <2>3, CleanupAllowed
    <3>3. Item("release", o) \in StackItems
      BY <2>3 DEF StackItems, Kinds
    <3>4. items \in Seq(StackItems)
      BY <3>2, <3>3
    <3>5. ItemOK(a, Item("release", o))' /\ Item("release", o)[1] # "mark"
      <4>1. a # o /\ a \notin Inner
        BY <1>3, <2>2
      <4> QED BY <4>1 DEF ItemOK, ReleaseItem, Item
    <3>6. \A x \in ToSet(items) : x \in ToSet(CleanupOrder(o)) \/ x = Item("release", o)
      BY <3>2, <3>3, AppendedElements
    <3> HIDE DEF items
    <3>7. \A x \in ToSet(items) : ItemOK(a, x)' /\ x[1] # "mark"
      BY <3>2, <3>5, <3>6
    <3> QED BY <1>1, <1>4, <2>3, <3>1, <3>4, <3>7, TakenLeaves, TakenShrinks
  <2> QED BY <2>4, <2>5
<1>7. CASE RunCleanup(a)
  <2>1. UNCHANGED own
    BY <1>7 DEF RunCleanup, owners
  <2>2. ASSUME NEW e \in Effects \ handles, Store \in refs[e], Then(a, <<Item("remove", <<e>>)>>)
        PROVE  Stacks' /\ StackOK' /\ MarkAlone' /\ OwnOK' /\ MarksNothing(a)'
    <3> DEFINE x == Item("remove", <<e>>)
    <3>1. <<e>> \in Seq(Effects) /\ ToSet(<<e>>) = {e}
      BY <2>2, OneOf
    <3>2. Removable(e)'
      BY <1>1, <1>2, <2>2 DEF Removable, TasksOK
    <3>3. x \in StackItems /\ ItemOK(a, x)' /\ x[1] # "mark"
      BY <3>1, <3>2 DEF StackItems, ItemOK, RemoveItem, Item
    <3>4. <<x>> \in Seq(StackItems) /\ ToSet(<<x>>) = {x}
      BY <3>3, OneItem
    <3> QED BY <1>1, <1>4, <2>1, <2>2, <3>3, <3>4, SameShrinks DEF Stacks
  <2> QED BY <1>5, <1>7, <2>1, <2>2 DEF RunCleanup
<1>8. CASE Release(a)
  <2>1. Head(todo[a])[1] = "release"
    BY <1>8 DEF Release
  <2>2. PICK o \in Effects : Head(todo[a]) = Item("release", o) /\ (a \in Inner => a = o)
    BY <1>1, <1>2, <2>1, HeadItem DEF ReleaseItem
  <2>3. Head(todo[a])[2] = o /\ o \in Owners
    BY <1>3, <2>2 DEF Item
  <2>4. CASE held'[o] # {}
    BY <1>5, <1>8, <2>3, <2>4 DEF Release
  <2>5. CASE held'[o] = {}
    <3>1. Then(a, CleanupOrder(o)) /\ own' = Taken(o)
      BY <1>8, <2>3, <2>5 DEF Release
    <3>2. a \in Threads \/ a = Outer \/ (a \in Inner /\ o = a)
      BY <1>3, <2>2
    <3>3. /\ CleanupOrder(o) \in Seq(StackItems)
          /\ \A x \in ToSet(CleanupOrder(o)) : ItemOK(a, x)' /\ x[1] # "mark"
      BY <1>1, <1>3, <2>2, <2>3, <3>2, CleanupAllowed
    <3> QED BY <1>1, <1>4, <2>3, <3>1, <3>3, TakenLeaves, TakenShrinks
  <2> QED BY <2>4, <2>5
<1>9. CASE RemoveNodes(a)
  <2>1. Head(todo[a])[1] = "remove"
    BY <1>9 DEF RemoveNodes
  <2>2. PICK s \in Seq(Effects) : Head(todo[a]) = Item("remove", s)
    BY <1>1, <1>2, <2>1, HeadItem DEF RemoveItem
  <2>3. Head(todo[a])[2] = s
    BY <2>2 DEF Item
  <2> DEFINE items == Items("drop", s)
  <2>4. Then(a, items) /\ UNCHANGED own
    BY <1>9, <2>3 DEF RemoveNodes, owners
  <2>5. /\ items \in Seq(StackItems)
        /\ \A x \in ToSet(items) : \E y \in ToSet(s) : x = Item("drop", y)
    BY <1>3, ListItems DEF Kinds
  <2> HIDE DEF items
  <2>6. ASSUME NEW x \in ToSet(items) PROVE ItemOK(a, x)' /\ x[1] # "mark"
    <3>1. PICK y \in ToSet(s) : x = Item("drop", y)
      BY <2>5
    <3>2. y \in Effects
      BY Elements
    <3> QED BY <3>1, <3>2 DEF ItemOK, PlainItem, Item
  <2> QED BY <1>1, <1>4, <2>4, <2>5, <2>6, SameShrinks DEF Stacks
<1>10. CASE DropRef(a) \/ CloseChannel(a) \/ NotifyWakes(a)
  <2>1. Head(todo[a])[1] \in {"drop", "close", "wake"}
    BY <1>10 DEF DropRef, CloseChannel, NotifyWakes
  <2>2. PICK e \in Effects, k \in {"drop", "close", "wake"} : Head(todo[a]) = Item(k, e)
    BY <1>1, <1>2, <2>1, HeadItem DEF PlainItem
  <2>3. Head(todo[a])[2] = e
    BY <2>2 DEF Item
  <2>4. UNCHANGED own
    BY <1>10 DEF DropRef, CloseChannel, NotifyWakes, owners
  <2>5. PICK x : Then(a, <<>>) \/ (Then(a, <<x>>) /\ x \in {Item("close", e), Item("drop", e)})
    BY <1>10, <2>3 DEF DropRef, CloseChannel, NotifyWakes
  <2>6. CASE Then(a, <<x>>) /\ x \in {Item("close", e), Item("drop", e)}
    <3>1. x \in StackItems /\ ItemOK(a, x)' /\ x[1] # "mark"
      BY <1>3, <2>6 DEF StackItems, Kinds, ItemOK, PlainItem, Item
    <3>2. <<x>> \in Seq(StackItems) /\ ToSet(<<x>>) = {x}
      BY <3>1, OneItem
    <3> QED BY <1>1, <1>4, <2>4, <2>6, <3>1, <3>2, SameShrinks DEF Stacks
  <2> QED BY <1>5, <2>4, <2>5, <2>6
<1>11. CASE MarkDirty(a)
  <2>1. Head(todo[a])[1] = "mark"
    BY <1>11 DEF MarkDirty
  <2>2. PICK e \in Effects : Head(todo[a]) = Item("mark", e)
    BY <1>1, <1>2, <2>1, HeadItem DEF MarkItem
  <2>3. Head(todo[a])[2] = e
    BY <2>2 DEF Item
  <2>4. Then(a, <<Item("wake", e)>>) /\ UNCHANGED own
    BY <1>11, <2>3 DEF MarkDirty, owners
  <2>5. /\ Item("wake", e) \in StackItems /\ ItemOK(a, Item("wake", e))'
        /\ Item("wake", e)[1] # "mark"
    BY <1>3 DEF StackItems, Kinds, ItemOK, PlainItem, Item
  <2>6. <<Item("wake", e)>> \in Seq(StackItems) /\ ToSet(<<Item("wake", e)>>) = {Item("wake", e)}
    BY <2>5, OneItem
  <2> QED BY <1>1, <1>4, <2>4, <2>5, <2>6, SameShrinks DEF Stacks
<1>12. CASE PauseOwner(a)
  <2>1. Head(todo[a])[1] \in {"pause", "resume"}
    BY <1>12 DEF PauseOwner
  <2>2. PICK o \in Owners, k \in {"pause", "resume"} : Head(todo[a]) = Item(k, o)
    BY <1>1, <1>2, <2>1, HeadItem DEF PauseItem
  <2>3. Head(todo[a])[2] = o /\ Head(todo[a])[1] = k
    BY <2>2 DEF Item
  <2>4. CASE held[o] = {}
    BY <1>5, <1>12, <2>3, <2>4 DEF PauseOwner, owners
  <2>5. CASE held[o] # {}
    <3> DEFINE items == Items(k, Reverse(own[o].children))
    <3>1. Then(a, items) /\ own' = [own EXCEPT ![o].paused = (k = "pause")]
      BY <1>12, <2>3, <2>5 DEF PauseOwner
    <3>2. own[o] \in OwnerTypes /\ own[o].children \in Seq(Effects)
      BY <1>1 DEF Stacks, OwnerTypes
    <3>3. Reverse(own[o].children) \in Seq(Effects)
      BY <3>2 DEF Reverse
    <3>4. /\ items \in Seq(StackItems)
          /\ \A x \in ToSet(items) : \E y \in ToSet(Reverse(own[o].children)) : x = Item(k, y)
      BY <1>3, <3>3, ListItems DEF Kinds
    <3> HIDE DEF items
    <3>5. ASSUME NEW x \in ToSet(items) PROVE ItemOK(a, x)' /\ x[1] # "mark"
      <4>1. PICK y \in ToSet(Reverse(own[o].children)) : x = Item(k, y)
        BY <3>4
      <4>2. y \in Owners
        BY <1>3, <3>3, Elements
      <4> QED BY <4>1, <4>2 DEF ItemOK, PauseItem, Item
    <3>6. own' \in [Owners -> OwnerTypes] /\ Shrinks
      BY <1>1, <3>1, PausedLeaves
    <3> QED BY <1>4, <3>1, <3>4, <3>5, <3>6
  <2> QED BY <2>4, <2>5
<1> QED BY <1>6, <1>7, <1>8, <1>9, <1>10, <1>11, <1>12, ContinueCases

\* The calls that a thread may make do too.
LEMMA ThreadStacks ==
  ASSUME TypeInv, Evolve, NEW t \in Threads, ThreadCall(t)
  PROVE  Stacks' /\ StackOK' /\ MarkAlone' /\ OwnOK'
<1> USE LifecycleAssumption DEF LifecycleAssumption
<1>1. Types /\ Stacks /\ StackOK /\ MarkAlone /\ OwnOK /\ TasksOK
  BY DEF TypeInv
<1>2. /\ Threads \cap Effects = {} /\ Effects = {Outer} \cup Inner /\ t \in Actors
      /\ Actors = Threads \cup Effects /\ Owners = {Root} \cup Effects
  BY DEF Effects, Actors, Owners
<1>3. ASSUME NEW items \in Seq(StackItems), Call(t, items),
             \A x \in ToSet(items) : ItemOK(t, x)' /\ (x[1] = "mark" => items = <<x>>),
             own' \in [Owners -> OwnerTypes], Shrinks
      PROVE  Stacks' /\ StackOK' /\ MarkAlone' /\ OwnOK'
  <2>1. todo' \in [Actors -> Seq(StackItems)]
    BY <1>1, <1>2, <1>3, SetUp
  <2>2. StackOK' /\ MarkAlone'
    BY <1>1, <1>2, <1>3, SetUpOK
  <2>3. OwnOK'
    BY <1>1, <1>3, OwnStays
  <2> QED BY <1>3, <2>1, <2>2, <2>3 DEF Stacks
<1>4. ASSUME NEW x \in StackItems, ItemOK(t, x)', Call(t, <<x>>), UNCHANGED own
      PROVE  Stacks' /\ StackOK' /\ MarkAlone' /\ OwnOK'
  <2>1. <<x>> \in Seq(StackItems) /\ ToSet(<<x>>) = {x}
    BY OneItem
  <2> QED BY <1>1, <1>3, <1>4, <2>1, SameShrinks DEF Stacks
<1>5. ASSUME NEW e \in Effects, Mark(t, e) PROVE Stacks' /\ StackOK' /\ MarkAlone' /\ OwnOK'
  <2>1. Call(t, <<Item("mark", e)>>) /\ UNCHANGED own /\ runs[e] > 0 /\ runs' = runs
    BY <1>5 DEF Mark, owners, history
  <2>2. Item("mark", e) \in StackItems
    BY <1>2 DEF StackItems, Kinds
  <2>3. ItemOK(t, Item("mark", e))'
    BY <2>1 DEF ItemOK, MarkItem
  <2> QED BY <1>4, <2>1, <2>2, <2>3
<1>6. ASSUME NEW e \in Effects, Stop(t, e) PROVE Stacks' /\ StackOK' /\ MarkAlone' /\ OwnOK'
  <2>1. /\ Call(t, <<Item("remove", <<e>>)>>) /\ UNCHANGED own
        /\ Store \in refs[e] /\ e \notin handles /\ step' = step /\ handles' = handles
    BY <1>6 DEF Stop, owners
  <2>2. <<e>> \in Seq(Effects) /\ ToSet(<<e>>) = {e}
    BY OneOf
  <2>3. Item("remove", <<e>>) \in StackItems
    <3>1. \A s \in Seq(Effects) : Item("remove", s) \in StackItems
      BY DEF StackItems
    <3> QED BY <2>2, <3>1, Zenon
  <2>4. step[e] # "none"
    BY <1>1, <2>1 DEF TasksOK
  <2>5. ItemOK(t, Item("remove", <<e>>))'
    BY <1>2, <2>1, <2>2, <2>4 DEF ItemOK, RemoveItem, Removable
  <2> QED BY <1>4, <2>1, <2>3, <2>5
<1>7. CASE CleanupRoot(t)
  <2>1. Call(t, CleanupOrder(Root)) /\ own' = Taken(Root) /\ Root \in Owners
    BY <1>2, <1>7 DEF CleanupRoot
  <2>2. /\ CleanupOrder(Root) \in Seq(StackItems)
        /\ \A x \in ToSet(CleanupOrder(Root)) : ItemOK(t, x)' /\ x[1] # "mark"
    BY <1>1, <1>2, <2>1, CleanupAllowed
  <2> QED BY <1>1, <1>3, <2>1, <2>2, TakenLeaves, TakenShrinks
<1>8. CASE PauseRoot(t) \/ ResumeRoot(t)
  <2>1. PICK k \in {"pause", "resume"} : Call(t, <<Item(k, Root)>>) /\ UNCHANGED own
    BY <1>8 DEF PauseRoot, ResumeRoot, owners
  <2>2. Item(k, Root) \in StackItems /\ ItemOK(t, Item(k, Root))'
    BY <1>2, <2>1 DEF StackItems, Kinds, ItemOK, PauseItem
  <2> QED BY <1>4, <2>1, <2>2
<1> QED BY <1>5, <1>6, <1>7, <1>8 DEF ThreadCall

\* The function of an effect runs only when a run was asked for.
LEMMA RoomToRun ==
  ASSUME TypeInv, NEW e \in Effects, step[e] \in {"cleaning", "starting"}
  PROVE  runs[e] + 1 \in Runs
<1> USE LifecycleAssumption DEF LifecycleAssumption
<1>1. IsFiniteSet(Marking(e))
  <2>1. Marking(e) \subseteq Threads
    BY DEF Marking
  <2> QED BY <2>1, FS_Subset
<1>2. Cardinality(Marking(e)) \in Nat
  BY <1>1, FS_CardinalityType
<1>3. One(Wanted(e)) \in Nat
  BY DEF One
<1>4. One(Going(e)) = 1
  BY DEF One, Going
<1>5. runs[e] + Asked(e) + Cardinality(Marking(e)) <= marks + 1
  BY DEF TypeInv, RunsCounted
<1>6. runs[e] \in Nat /\ marks \in 0..MaxMarks
  BY DEF TypeInv, Types
<1> QED BY <1>2, <1>3, <1>4, <1>5, <1>6 DEF Asked, Runs

\* A run's cleanup is registered, and a nested effect is put under its owner.
LEMMA ListField ==
  ASSUME NEW A, NEW B, NEW C, NEW D, NEW r \in [children : A, cleanups : B, nodes : C, paused : D],
         NEW x \in A, NEW y \in B, NEW z \in C
  PROVE  LET w == [r EXCEPT !.cleanups = y]
             v == [r EXCEPT !.children = x, !.nodes = z]
             u == [r EXCEPT !.children = x]
         IN  /\ w \in [children : A, cleanups : B, nodes : C, paused : D]
             /\ w.children = r.children /\ w.cleanups = y /\ w.nodes = r.nodes
             /\ v \in [children : A, cleanups : B, nodes : C, paused : D]
             /\ v.children = x /\ v.cleanups = r.cleanups /\ v.nodes = z
             /\ u \in [children : A, cleanups : B, nodes : C, paused : D]
             /\ u.children = x /\ u.cleanups = r.cleanups /\ u.nodes = r.nodes
OBVIOUS

LEMMA Registered ==
  ASSUME Stacks, NEW e \in Effects, NEW r \in Runs, own' = [own EXCEPT ![e].cleanups = Append(@, r)]
  PROVE  /\ own' \in [Owners -> OwnerTypes]
         /\ own'[e].children = own[e].children /\ own'[e].nodes = own[e].nodes
         /\ own'[e].cleanups = own[e].cleanups \o <<r>>
         /\ \A p \in Owners \ {e} : own'[p] = own[p]
<1>1. own \in [Owners -> OwnerTypes] /\ e \in Owners /\ own[e] \in OwnerTypes
  BY DEF Stacks, Owners
<1>2. /\ own[e].cleanups \in Seq(Runs) /\ own[e].children \in Seq(Effects)
      /\ own[e].nodes \in Seq(Effects)
  BY <1>1 DEF OwnerTypes
<1> DEFINE q == Append(own[e].cleanups, r)
           w == [own[e] EXCEPT !.cleanups = q]
<1>3. own' = [own EXCEPT ![e] = w]
  BY <1>1
<1>4. q \in Seq(Runs) /\ q = own[e].cleanups \o <<r>>
  BY <1>2
<1> HIDE DEF q
<1>5. /\ w \in OwnerTypes /\ w.children = own[e].children /\ w.cleanups = q
      /\ w.nodes = own[e].nodes
  BY <1>1, <1>2, <1>4, ListField, Zenon DEF OwnerTypes
<1> HIDE DEF w
<1> QED BY <1>1, <1>3, <1>4, <1>5

LEMMA Nests ==
  ASSUME Stacks, NEW e \in Effects, NEW i \in Effects,
         own' = [own EXCEPT ![e].children = Append(@, i), ![e].nodes = Append(@, i)]
  PROVE  /\ own' \in [Owners -> OwnerTypes]
         /\ own'[e].children = own[e].children \o <<i>> /\ own'[e].nodes = own[e].nodes \o <<i>>
         /\ own'[e].cleanups = own[e].cleanups
         /\ \A p \in Owners \ {e} : own'[p] = own[p]
<1>1. own \in [Owners -> OwnerTypes] /\ e \in Owners /\ own[e] \in OwnerTypes
  BY DEF Stacks, Owners
<1>2. /\ own[e].cleanups \in Seq(Runs) /\ own[e].children \in Seq(Effects)
      /\ own[e].nodes \in Seq(Effects)
  BY <1>1 DEF OwnerTypes
<1> DEFINE x == Append(own[e].children, i)
           z == Append(own[e].nodes, i)
           w == [own[e] EXCEPT !.children = x, !.nodes = z]
<1>3. own' = [own EXCEPT ![e] = w]
  BY <1>1, <1>2 DEF OwnerTypes
<1>4. x \in Seq(Effects) /\ x = own[e].children \o <<i>>
  BY <1>2, Appended, Zenon
<1>5. z \in Seq(Effects) /\ z = own[e].nodes \o <<i>>
  BY <1>2, Appended, Zenon
<1> HIDE DEF x, z
<1>6. w \in OwnerTypes /\ w.children = x /\ w.nodes = z /\ w.cleanups = own[e].cleanups
  BY <1>1, <1>2, <1>4, <1>5, ListField, Zenon DEF OwnerTypes
<1> HIDE DEF w
<1> QED BY <1>1, <1>3, <1>4, <1>5, <1>6

LEMMA NestsRender ==
  ASSUME Stacks, NEW e \in Effects, NEW i \in Effects, e # i,
         own' = [own EXCEPT ![e].children = Append(@, i), ![i].cleanups = << 1 >>]
  PROVE  /\ own' \in [Owners -> OwnerTypes]
         /\ own'[e].children = own[e].children \o <<i>> /\ own'[e].nodes = own[e].nodes
         /\ own'[e].cleanups = own[e].cleanups
         /\ own'[i].children = own[i].children /\ own'[i].nodes = own[i].nodes
         /\ own'[i].cleanups = << 1 >>
         /\ \A p \in Owners \ {e, i} : own'[p] = own[p]
<1>1. /\ own \in [Owners -> OwnerTypes] /\ e \in Owners /\ own[e] \in OwnerTypes
      /\ i \in Owners /\ own[i] \in OwnerTypes
  BY DEF Stacks, Owners
<1>2. /\ own[e].cleanups \in Seq(Runs) /\ own[e].children \in Seq(Effects)
      /\ own[e].nodes \in Seq(Effects)
      /\ own[i].children \in Seq(Effects) /\ own[i].nodes \in Seq(Effects)
  BY <1>1 DEF OwnerTypes
<1>3. << 1 >> \in Seq(Runs)
  <2>1. 1 \in Runs
    BY LifecycleAssumption DEF LifecycleAssumption, Runs
  <2> QED BY <2>1, OneOf
<1> DEFINE x == Append(own[e].children, i)
           y == << 1 >>
           w == [own[e] EXCEPT !.children = x]
           v == [own[i] EXCEPT !.cleanups = y]
<1>4. own' = [own EXCEPT ![e] = w, ![i] = v]
  BY <1>1
<1>5. x \in Seq(Effects) /\ x = own[e].children \o <<i>> /\ y \in Seq(Runs)
  BY <1>2, <1>3, Appended, Zenon
<1> HIDE DEF x, y
<1>6. w \in OwnerTypes /\ w.children = x /\ w.nodes = own[e].nodes /\ w.cleanups = own[e].cleanups
  BY <1>1, <1>2, <1>5, ListField, Zenon DEF OwnerTypes
<1>7. v \in OwnerTypes /\ v.children = own[i].children /\ v.nodes = own[i].nodes /\ v.cleanups = y
  BY <1>1, <1>2, <1>5, ListField, Zenon DEF OwnerTypes
<1> HIDE DEF w, v
<1> QED BY <1>1, <1>4, <1>5, <1>6, <1>7 DEF y

\* The steps of a task, with the calls that begin in them.
LEMMA TaskStacks ==
  ASSUME TypeInv, Evolve, NEW e \in Effects, Task(e)
  PROVE  Stacks' /\ StackOK' /\ MarkAlone' /\ OwnOK'
<1> USE LifecycleAssumption DEF LifecycleAssumption
<1>1. Types /\ Stacks /\ StackOK /\ MarkAlone /\ OwnOK /\ TasksOK
  BY DEF TypeInv
<1>2. /\ Threads \cap Effects = {} /\ Effects = {Outer} \cup Inner /\ e \in Actors
      /\ Actors = Threads \cup Effects /\ Owners = {Root} \cup Effects /\ Outer \notin Inner
  BY DEF Effects, Actors, Owners
<1>3. ASSUME NEW items \in Seq(StackItems), Call(e, items),
             \A x \in ToSet(items) : ItemOK(e, x)' /\ x[1] # "mark",
             own' \in [Owners -> OwnerTypes], Shrinks
      PROVE  Stacks' /\ StackOK' /\ MarkAlone' /\ OwnOK'
  <2>1. todo' \in [Actors -> Seq(StackItems)]
    BY <1>1, <1>2, <1>3, SetUp
  <2>2. StackOK' /\ MarkAlone'
    BY <1>1, <1>2, <1>3, SetUpOK
  <2>3. OwnOK'
    BY <1>1, <1>3, OwnStays
  <2> QED BY <1>3, <2>1, <2>2, <2>3 DEF Stacks
<1>4. ASSUME NEW k \in {"close", "drop"}, Call(e, <<Item(k, e)>>), UNCHANGED own
      PROVE  Stacks' /\ StackOK' /\ MarkAlone' /\ OwnOK'
  <2>1. Item(k, e) \in StackItems /\ ItemOK(e, Item(k, e))' /\ Item(k, e)[1] # "mark"
    BY <1>2 DEF StackItems, Kinds, ItemOK, PlainItem, Item
  <2>2. <<Item(k, e)>> \in Seq(StackItems) /\ ToSet(<<Item(k, e)>>) = {Item(k, e)}
    BY <2>1, OneItem
  <2> QED BY <1>1, <1>3, <1>4, <2>1, <2>2, SameShrinks DEF Stacks
<1>5. ASSUME UNCHANGED todo, UNCHANGED own
      PROVE  Stacks' /\ StackOK' /\ MarkAlone' /\ OwnOK'
  <2>1. StackOK' /\ MarkAlone'
    BY <1>1, <1>5, SameStacksOK
  <2>2. OwnOK'
    BY <1>1, <1>5, OwnStays, SameShrinks
  <2> QED BY <1>1, <1>5, <2>1, <2>2 DEF Stacks
<1>6. CASE StartPoll(e) \/ Upgrade(e) \/ Register(e) \/ Swap(e) \/ EndBody(e)
  BY <1>5, <1>6 DEF StartPoll, Upgrade, Register, Swap, EndBody, owners
<1>7. CASE EndPoll(e)
  <2>1. UNCHANGED own /\ (UNCHANGED todo \/ Call(e, <<Item("close", e)>>))
    BY <1>7 DEF EndPoll, owners
  <2> QED BY <1>4, <1>5, <2>1
<1>8. CASE Check(e)
  <2>1. UNCHANGED own /\ (UNCHANGED todo \/ Call(e, <<Item("drop", e)>>))
    BY <1>8 DEF Check, owners
  <2> QED BY <1>4, <1>5, <2>1
<1>9. CASE WithCleanup(e)
  <2>1. Call(e, CleanupOrder(e)) /\ own' = Taken(e) /\ e \in Owners
    BY <1>2, <1>9 DEF WithCleanup, BeforeRun
  <2>2. /\ CleanupOrder(e) \in Seq(StackItems)
        /\ \A x \in ToSet(CleanupOrder(e)) : ItemOK(e, x)' /\ x[1] # "mark"
    BY <1>1, <1>2, <2>1, CleanupAllowed
  <2> QED BY <1>1, <1>3, <2>1, <2>2, TakenLeaves, TakenShrinks
<1>10. CASE RunBody(e)
  <2> DEFINE r == runs[e] + 1
  <2>1. /\ step[e] = "starting" /\ UNCHANGED <<todo, handles>> /\ runs' = [runs EXCEPT ![e] = r]
        /\ own' = [own EXCEPT ![e].cleanups = Append(@, runs'[e])]
    BY <1>10 DEF RunBody, Ready
  <2>2. r \in Runs
    BY <2>1, RoomToRun
  <2>3. runs'[e] = r
    BY <1>1, <2>1 DEF Types
  <2>4. own' = [own EXCEPT ![e].cleanups = Append(@, r)]
    BY <2>1, <2>3
  <2> HIDE DEF r
  <2>5. /\ own' \in [Owners -> OwnerTypes]
        /\ own'[e].children = own[e].children /\ own'[e].nodes = own[e].nodes
        /\ own'[e].cleanups = own[e].cleanups \o <<r>>
        /\ \A p \in Owners \ {e} : own'[p] = own[p]
    BY <1>1, <2>2, <2>4, Registered
  <2>6. StackOK' /\ MarkAlone'
    BY <1>1, <2>1, SameStacksOK
  <2>7. \A f \in Effects : ToSet(own'[f].cleanups) \subseteq 1..runs'[f]
    <3>1. SUFFICES ASSUME NEW f \in Effects PROVE ToSet(own'[f].cleanups) \subseteq 1..runs'[f]
      OBVIOUS
    <3>2. ToSet(own[f].cleanups) \subseteq 1..runs[f] /\ own[f].cleanups \in Seq(Runs)
      BY <1>1, <1>2 DEF OwnOK, Stacks, OwnerTypes
    <3>3. CASE f # e
      <4>1. own'[f] = own[f] /\ runs'[f] = runs[f]
        BY <1>1, <1>2, <2>1, <2>5, <3>3 DEF Types
      <4> QED BY <3>2, <4>1
    <3>4. CASE f = e
      <4>1. ToSet(own'[e].cleanups) = ToSet(own[e].cleanups) \cup {r}
        BY <2>2, <2>5, <3>2, <3>4, AppendedElements
      <4>2. runs[e] \in Nat /\ r = runs[e] + 1
        BY <1>1 DEF Types, r
      <4> QED BY <2>3, <3>2, <3>4, <4>1, <4>2
    <3> QED BY <3>3, <3>4
  <2>8. \A f \in Effects : step'[f] = "none" => step[f] = "none"
    BY <1>1 DEF Evolve
  <2>9. \A p \in Owners : own'[p].children = own[p].children /\ own'[p].nodes = own[p].nodes
    BY <2>5
  <2>10. own'[Root] = own[Root]
    BY <1>2, <2>5
  <2>11. \A o \in Owners : \A f \in ToSet(own[o].nodes) : f \in Effects
    BY <1>1, Elements DEF Stacks, OwnerTypes
  <2>12. \A o \in Owners : \A f \in ToSet(own[o].nodes) : Removable(f)'
    BY <1>1, <2>1, <2>11 DEF OwnOK, Removable, Evolve
  <2>13. OwnOK'
    BY <1>1, <1>2, <2>7, <2>9, <2>10, <2>12 DEF OwnOK
  <2> QED BY <1>1, <2>1, <2>5, <2>6, <2>13 DEF Stacks
<1>11. CASE EndTask(e)
  <2> DEFINE kept == IF e = Outer THEN handles ELSE {}
             more == Items("remove", Singletons(kept))
             items == <<Item("release", e)>> \o more
  <2>1. /\ Call(e, items) /\ UNCHANGED own /\ handles' = handles \ kept
        /\ step' = [step EXCEPT ![e] = "ended"]
    BY <1>11 DEF EndTask, Goto, owners
  <2>2. IsFiniteSet(kept) /\ kept \subseteq Inner /\ kept \subseteq handles
    <3>1. kept \subseteq Inner /\ kept \subseteq handles
      BY <1>1 DEF Types
    <3> QED BY <3>1, FS_Subset
  <2>3. kept \subseteq Effects /\ (e # Outer => kept = {})
    BY <1>2, <2>2
  <2> HIDE DEF kept
  <2>4. /\ more \in Seq(StackItems)
        /\ \A x \in ToSet(more) : \E i \in kept : x = Item("remove", <<i>>)
    BY <2>2, <2>3, HandleItems
  <2>5. ASSUME NEW x \in ToSet(more) PROVE ItemOK(e, x)' /\ x[1] # "mark"
    <3>1. PICK i \in kept : x = Item("remove", <<i>>)
      BY <2>4
    <3>2. i \in Inner /\ i \in handles /\ i \in Effects /\ e = Outer /\ i \notin handles'
      BY <2>1, <2>2, <2>3
    <3>3. <<i>> \in Seq(Effects) /\ ToSet(<<i>>) = {i}
      BY <3>2, OneOf
    <3>4. step[i] # "none"
      BY <1>1, <3>2 DEF TasksOK
    <3>5. Removable(i)'
      BY <3>2, <3>4 DEF Removable, Evolve
    <3>6. RemoveItem(x)'
      BY <1>2, <3>1, <3>2, <3>3, <3>5 DEF RemoveItem
    <3> QED BY <3>1, <3>6 DEF ItemOK, Item
  <2>6. Item("release", e) \in StackItems /\ Item("release", e)[1] # "mark"
    BY <1>2 DEF StackItems, Kinds, Item
  <2>7. ItemOK(e, Item("release", e))'
    <3>1. step'[e] = "ended"
      BY <1>1, <2>1 DEF Types
    <3> QED BY <3>1 DEF ItemOK, ReleaseItem
  <2> HIDE DEF more
  <2>8. /\ items \in Seq(StackItems)
        /\ \A x \in ToSet(items) : x = Item("release", e) \/ x \in ToSet(more)
    BY <2>4, <2>6, PrefixedElements
  <2> HIDE DEF items
  <2>9. \A x \in ToSet(items) : ItemOK(e, x)' /\ x[1] # "mark"
    BY <2>5, <2>6, <2>7, <2>8
  <2> QED BY <1>1, <1>3, <2>1, <2>8, <2>9, SameShrinks DEF Stacks
<1> QED BY <1>6, <1>7, <1>8, <1>9, <1>10, <1>11 DEF Task, Poll

\* Effects that the function of the outer one creates and drops.
LEMMA NestedStacks ==
  ASSUME TypeInv, Evolve, NEW e \in Effects, Nested(e)
  PROVE  Stacks' /\ StackOK' /\ MarkAlone' /\ OwnOK'
<1> USE LifecycleAssumption DEF LifecycleAssumption
<1>1. Types /\ Stacks /\ StackOK /\ MarkAlone /\ OwnOK /\ TasksOK
  BY DEF TypeInv
<1>2. PICK i \in Inner : SpawnEffect(e, i) \/ SpawnRenderEffect(e, i) \/ DropHandle(e, i)
  BY DEF Nested
<1>3. /\ Effects = {Outer} \cup Inner /\ e \in Actors /\ i \in Effects
      /\ Owners = {Root} \cup Effects /\ Outer \notin Inner /\ Root \notin Effects
  BY DEF Effects, Actors, Owners
<1>4. e = Outer
  BY <1>2 DEF SpawnEffect, SpawnRenderEffect, DropHandle
<1>5. \A o \in Owners : \A f \in ToSet(own[o].nodes) : f \in Effects
  BY <1>1, Elements DEF Stacks, OwnerTypes
<1>6. own[Outer].children \in Seq(Effects) /\ own[Outer].nodes \in Seq(Effects)
  BY <1>1, <1>3 DEF Stacks, OwnerTypes
<1>7. CASE SpawnEffect(e, i)
  <2>1. /\ step[i] = "none" /\ step' = [step EXCEPT ![i] = "waiting"]
        /\ UNCHANGED <<todo, runs, handles>>
        /\ own' = [own EXCEPT ![e].children = Append(@, i), ![e].nodes = Append(@, i)]
    BY <1>7 DEF SpawnEffect
  <2>2. /\ own' \in [Owners -> OwnerTypes]
        /\ own'[e].children = own[e].children \o <<i>> /\ own'[e].nodes = own[e].nodes \o <<i>>
        /\ own'[e].cleanups = own[e].cleanups
        /\ \A p \in Owners \ {e} : own'[p] = own[p]
    BY <1>1, <1>3, <2>1, Nests
  <2>3. StackOK' /\ MarkAlone'
    BY <1>1, <2>1, SameStacksOK
  <2>4. /\ ToSet(own'[e].children) = ToSet(own[e].children) \cup {i}
        /\ ToSet(own'[e].nodes) = ToSet(own[e].nodes) \cup {i}
    <3>1. own[e].children \in Seq(Effects) /\ own[e].nodes \in Seq(Effects)
      BY <1>4, <1>6
    <3>2. ToSet(own[e].children \o <<i>>) = ToSet(own[e].children) \cup {i}
      BY <1>3, <3>1, AppendedElements
    <3>3. ToSet(own[e].nodes \o <<i>>) = ToSet(own[e].nodes) \cup {i}
      BY <1>3, <3>1, AppendedElements
    <3> QED BY <2>2, <3>2, <3>3
  <2>5. i \notin handles
    BY <1>1, <1>3, <2>1 DEF TasksOK
  <2>6. Removable(i)'
    BY <1>1, <1>3, <2>1, <2>5 DEF Removable, Types
  <2>7. \A o \in Owners : \A f \in ToSet(own[o].nodes) : Removable(f)'
    BY <1>1, <1>5, <2>1 DEF OwnOK, Removable, Evolve
  <2>8. \A o \in Owners : \A f \in ToSet(own'[o].nodes) : Removable(f)'
    BY <2>2, <2>4, <2>6, <2>7
  <2>9. \A p \in Owners : own'[p].cleanups = own[p].cleanups
    BY <2>2
  <2>10. own'[Root] = own[Root] /\ \A j \in Inner : own'[j] = own[j]
    BY <1>3, <1>4, <2>2
  <2>11. ToSet(own'[Outer].children) \subseteq Inner /\ ToSet(own'[Outer].nodes) \subseteq Inner
    BY <1>1, <1>4, <2>4 DEF OwnOK
  <2>12. OwnOK'
    BY <1>1, <1>3, <2>1, <2>8, <2>9, <2>10, <2>11 DEF OwnOK
  <2> QED BY <1>1, <2>1, <2>2, <2>3, <2>12 DEF Stacks
<1>8. CASE SpawnRenderEffect(e, i)
  <2>1. /\ step[i] = "none" /\ step' = [step EXCEPT ![i] = "waiting"]
        /\ UNCHANGED todo /\ runs' = [runs EXCEPT ![i] = 1] /\ handles' = handles \cup {i}
        /\ own' = [own EXCEPT ![e].children = Append(@, i), ![i].cleanups = << 1 >>]
    BY <1>8 DEF SpawnRenderEffect
  <2>2. /\ own' \in [Owners -> OwnerTypes]
        /\ own'[e].children = own[e].children \o <<i>> /\ own'[e].nodes = own[e].nodes
        /\ own'[e].cleanups = own[e].cleanups
        /\ own'[i].children = own[i].children /\ own'[i].nodes = own[i].nodes
        /\ own'[i].cleanups = << 1 >>
        /\ \A p \in Owners \ {e, i} : own'[p] = own[p]
    <3>1. e # i
      BY <1>3, <1>4
    <3> QED BY <1>1, <1>3, <2>1, <3>1, NestsRender, Zenon
  <2>3. StackOK' /\ MarkAlone'
    BY <1>1, <2>1, SameStacksOK
  <2>4. ToSet(own'[e].children) = ToSet(own[e].children) \cup {i}
    BY <1>3, <1>4, <1>6, <2>2, AppendedElements
  <2>5. \A o \in Owners : own'[o].nodes = own[o].nodes
    BY <2>2
  <2>6. \A o \in Owners : \A f \in ToSet(own[o].nodes) : Removable(f)'
    BY <1>1, <1>5, <2>1 DEF OwnOK, Removable, Evolve
  <2>7. own'[Root] = own[Root] /\ \A j \in Inner : own'[j].children = own[j].children
    BY <1>3, <1>4, <2>2
  <2>8. ToSet(own'[Outer].children) \subseteq Inner
    BY <1>1, <1>4, <2>4 DEF OwnOK
  <2>9. ASSUME NEW f \in Effects PROVE ToSet(own'[f].cleanups) \subseteq 1..runs'[f]
    <3>1. CASE f = i
      <4>1. runs'[i] = 1 /\ own'[f].cleanups = << 1 >>
        BY <1>1, <1>3, <2>1, <2>2, <3>1 DEF Types
      <4>2. ToSet(<< 1 >>) = {1}
        BY OneOf
      <4> QED BY <3>1, <4>1, <4>2
    <3>2. CASE f # i
      <4>1. own'[f].cleanups = own[f].cleanups /\ runs'[f] = runs[f]
        BY <1>1, <1>3, <2>1, <2>2, <3>2 DEF Types
      <4> QED BY <1>1, <4>1 DEF OwnOK
    <3> QED BY <3>1, <3>2
  <2>10. OwnOK'
    BY <1>1, <1>3, <2>1, <2>5, <2>6, <2>7, <2>8, <2>9 DEF OwnOK
  <2> QED BY <1>1, <2>1, <2>2, <2>3, <2>10 DEF Stacks
<1>9. CASE DropHandle(e, i)
  <2> DEFINE x == Item("remove", <<i>>)
  <2>1. /\ i \in handles /\ handles' = handles \ {i} /\ Call(e, <<x>>)
        /\ UNCHANGED <<own, step>>
    BY <1>9 DEF DropHandle, owners
  <2>2. <<i>> \in Seq(Effects) /\ ToSet(<<i>>) = {i}
    BY <1>3, OneOf
  <2>3. x \in StackItems
    <3>1. \A s \in Seq(Effects) : Item("remove", s) \in StackItems
      BY DEF StackItems
    <3> QED BY <2>2, <3>1, Zenon
  <2>4. step[i] # "none"
    BY <1>1, <1>3, <2>1 DEF TasksOK
  <2>5. ItemOK(e, x)' /\ x[1] # "mark"
    <3>1. RemoveItem(x)'
      BY <1>3, <1>4, <2>1, <2>2, <2>4 DEF RemoveItem, Removable
    <3> QED BY <3>1 DEF ItemOK, Item
  <2> HIDE DEF x
  <2>6. <<x>> \in Seq(StackItems) /\ ToSet(<<x>>) = {x}
    BY <2>3, OneItem
  <2>7. todo' \in [Actors -> Seq(StackItems)]
    BY <1>1, <1>3, <2>1, <2>6, SetUp
  <2>8. StackOK' /\ MarkAlone'
    BY <1>1, <1>3, <2>1, <2>5, <2>6, SetUpOK
  <2>9. OwnOK'
    BY <1>1, <2>1, OwnStays, SameShrinks
  <2> QED BY <1>1, <2>1, <2>7, <2>8, <2>9 DEF Stacks
<1> QED BY <1>2, <1>7, <1>8, <1>9

\* One value of a function changes.
LEMMA Updated ==
  ASSUME NEW D, NEW S, NEW f \in [D -> S], NEW d, NEW v \in S
  PROVE  [f EXCEPT ![d] = v] \in [D -> S]
OBVIOUS

Booleans ==
  /\ native \in BOOLEAN
  /\ dirty \in [Effects -> BOOLEAN] /\ set \in [Effects -> BOOLEAN]
  /\ waker \in [Effects -> BOOLEAN] /\ queued \in [Effects -> BOOLEAN]
  /\ first \in [Effects -> BOOLEAN]

LEMMA BooleansKept ==
  ASSUME Types, Stacks, StackOK, [Next]_vars
  PROVE  Booleans'
<1>0. Booleans
  BY DEF Types, Booleans
<1>1. ASSUME NEW a \in Actors, Continue(a) PROVE Booleans'
  <2>0. native' = native /\ first' = first /\ todo[a] # <<>>
    BY <1>1 DEF Continue
  <2>1. CASE CleanupOwner(a) \/ RunCleanup(a) \/ Release(a) \/ PauseOwner(a)
    <3>1. UNCHANGED <<dirty, set, waker, queued>>
      BY <2>1 DEF CleanupOwner, RunCleanup, Release, PauseOwner, graph
    <3> QED BY <1>0, <2>0, <3>1, Zenon DEF Booleans
  <2>2. CASE RemoveNodes(a) \/ DropRef(a)
    <3>1. UNCHANGED <<dirty, set, waker, queued>>
      BY <2>2 DEF RemoveNodes, DropRef
    <3> QED BY <1>0, <2>0, <3>1, Zenon DEF Booleans
  <2>3. CASE CloseChannel(a) \/ NotifyWakes(a)
    <3>1. PICK e : /\ UNCHANGED <<dirty, set>> /\ waker' = [waker EXCEPT ![e] = FALSE]
                   /\ queued' = [queued EXCEPT ![e] = @ \/ waker[e]]
      BY <2>3, Zenon DEF CloseChannel, NotifyWakes, OnClose, Wake
    <3>2. queued' = [queued EXCEPT ![e] = queued[e] \/ waker[e]]
      BY <3>1, Zenon
    <3>3. (queued[e] \/ waker[e]) \in BOOLEAN /\ FALSE \in BOOLEAN
      BY Zenon
    <3>4. queued' \in [Effects -> BOOLEAN] /\ waker' \in [Effects -> BOOLEAN]
      BY <1>0, <3>1, <3>2, <3>3, Updated, Zenon DEF Booleans
    <3> QED BY <1>0, <2>0, <3>1, <3>4, Zenon DEF Booleans
  <2>4. CASE MarkDirty(a)
    <3>1. PICK e : /\ UNCHANGED <<waker, queued>> /\ dirty' = [dirty EXCEPT ![e] = TRUE]
                   /\ set' = [set EXCEPT ![e] = TRUE]
      BY <2>4, Zenon DEF MarkDirty
    <3>2. TRUE \in BOOLEAN
      BY Zenon
    <3>3. dirty' \in [Effects -> BOOLEAN] /\ set' \in [Effects -> BOOLEAN]
      BY <1>0, <3>1, <3>2, Updated, Zenon DEF Booleans
    <3> QED BY <1>0, <2>0, <3>1, <3>3, Zenon DEF Booleans
  <2> QED BY <1>1, <2>1, <2>2, <2>3, <2>4, ContinueCases
<1>2. ASSUME NEW t \in Threads, ThreadCall(t) PROVE Booleans'
  <2>1. ASSUME NEW e \in Effects, Mark(t, e) \/ Stop(t, e)
        PROVE  UNCHANGED <<native, dirty, set, waker, queued, first>>
    BY <2>1 DEF Mark, Stop, graph
  <2>2. UNCHANGED <<native, dirty, set, waker, queued, first>>
    BY <1>2, <2>1 DEF ThreadCall, CleanupRoot, PauseRoot, ResumeRoot, graph
  <2> QED BY <1>0, <2>2, Zenon DEF Booleans
<1>3. ASSUME NEW e \in Effects, Task(e) PROVE Booleans'
  <2>0. FALSE \in BOOLEAN /\ TRUE \in BOOLEAN
    BY Zenon
  <2>1. CASE StartPoll(e)
    <3>1. queued' = [queued EXCEPT ![e] = FALSE] /\ UNCHANGED <<native, dirty, set, waker, first>>
      BY <2>1 DEF StartPoll
    <3> QED BY <1>0, <2>0, <3>1, Updated, Zenon DEF Booleans
  <2>2. CASE Register(e)
    <3>1. waker' = [waker EXCEPT ![e] = TRUE] /\ UNCHANGED <<native, dirty, set, queued, first>>
      BY <2>2 DEF Register
    <3> QED BY <1>0, <2>0, <3>1, Updated, Zenon DEF Booleans
  <2>3. CASE Swap(e)
    <3>1. set' = [set EXCEPT ![e] = FALSE] /\ UNCHANGED <<native, dirty, waker, queued, first>>
      BY <2>3 DEF Swap
    <3> QED BY <1>0, <2>0, <3>1, Updated, Zenon DEF Booleans
  <2>4. CASE Check(e)
    <3>1. /\ UNCHANGED <<native, set, waker, queued>>
          /\ UNCHANGED dirty \/ dirty' = [dirty EXCEPT ![e] = FALSE]
          /\ UNCHANGED first \/ first' = [first EXCEPT ![e] = FALSE]
      BY <2>4, Zenon DEF Check
    <3> QED BY <1>0, <2>0, <3>1, Updated, Zenon DEF Booleans
  <2>5. CASE Upgrade(e) \/ EndPoll(e) \/ WithCleanup(e) \/ RunBody(e) \/ EndBody(e) \/ EndTask(e)
    <3>1. UNCHANGED <<native, dirty, set, waker, queued, first>>
      BY <2>5 DEF Upgrade, EndPoll, WithCleanup, RunBody, EndBody, EndTask, graph
    <3> QED BY <1>0, <3>1, Zenon DEF Booleans
  <2> QED BY <1>3, <2>1, <2>2, <2>3, <2>4, <2>5 DEF Task, Poll
<1>4. ASSUME NEW e \in Effects, Nested(e) PROVE Booleans'
  <2>0. FALSE \in BOOLEAN /\ TRUE \in BOOLEAN
    BY Zenon
  <2>1. ASSUME NEW i \in Inner, SpawnEffect(e, i) PROVE Booleans'
    <3>1. /\ dirty' = [dirty EXCEPT ![i] = TRUE] /\ set' = [set EXCEPT ![i] = TRUE]
          /\ queued' = [queued EXCEPT ![i] = TRUE] /\ first' = [first EXCEPT ![i] = TRUE]
          /\ UNCHANGED <<native, waker>>
      BY <2>1 DEF SpawnEffect
    <3> QED BY <1>0, <2>0, <3>1, Updated, Zenon DEF Booleans
  <2>2. ASSUME NEW i \in Inner, SpawnRenderEffect(e, i) PROVE Booleans'
    <3>1. /\ queued' = [queued EXCEPT ![i] = TRUE]
          /\ UNCHANGED <<native, dirty, set, waker, first>>
      BY <2>2 DEF SpawnRenderEffect
    <3> QED BY <1>0, <2>0, <3>1, Updated, Zenon DEF Booleans
  <2>3. ASSUME NEW i \in Inner, DropHandle(e, i) PROVE Booleans'
    <3>1. UNCHANGED <<native, dirty, set, waker, queued, first>>
      BY <2>3 DEF DropHandle, graph
    <3> QED BY <1>0, <3>1, Zenon DEF Booleans
  <2> QED BY <1>4, <2>1, <2>2, <2>3 DEF Nested
<1>5. CASE UNCHANGED vars
  <2>1. UNCHANGED <<native, dirty, set, waker, queued, first>>
    BY <1>5 DEF vars, graph
  <2> QED BY <1>0, <2>1, Zenon DEF Booleans
<1> QED BY <1>1, <1>2, <1>3, <1>4, <1>5, NextCases

\* The ways in which a task answers a notification.
LEMMA CheckEffect ==
  ASSUME NEW e \in Effects, Check(e)
  PROVE  /\ step[e] = "notified" /\ todo[e] = <<>>
         /\ step' = [step EXCEPT ![e] = "polling"] \/ step' = [step EXCEPT ![e] = "cleaning"]
         /\ UNCHANGED refs \/ refs' = [refs EXCEPT ![e] = @ \cup {e}]
         /\ UNCHANGED <<native, set, waker, queued, own, held, marks, calls>>
         /\ UNCHANGED <<runs, ran, parent, handles>>
<1>1. /\ \/ step' = [step EXCEPT ![e] = "polling"]
         \/ step' = [step EXCEPT ![e] = IF (refs[e] # {} /\ dirty[e]) \/ first[e] THEN "cleaning"
                                       ELSE "polling"]
      /\ UNCHANGED refs \/ refs' = [refs EXCEPT ![e] = @ \cup {e}]
      /\ UNCHANGED <<native, set, waker, queued, owners, marks, calls, runs, ran, parent, handles>>
      /\ step[e] = "notified" /\ todo[e] = <<>>
  BY Zenon DEF Check, Goto, Ready
<1>2. CASE (refs[e] # {} /\ dirty[e]) \/ first[e]
  BY <1>1, <1>2 DEF owners
<1>3. CASE ~((refs[e] # {} /\ dirty[e]) \/ first[e])
  BY <1>1, <1>3 DEF owners
<1> QED BY <1>2, <1>3

\* References and owners have the right holders.
LEMMA HoldersKept ==
  ASSUME TypeInv, [Next]_vars
  PROVE  /\ (refs \in [Effects -> SUBSET (Actors \cup {Store})])'
         /\ (held \in [Owners -> SUBSET (Actors \cup {Root})])'
         /\ (step \in [Effects -> Steps])' /\ (handles \in SUBSET Inner)' /\ (marks \in 0..MaxMarks)'
         /\ (ran \in [Effects -> [Runs -> Nat]])' /\ (parent \in [Inner -> 0..(MaxMarks + 1)])'
<1> USE LifecycleAssumption DEF LifecycleAssumption
<1> DEFINE Goal == /\ refs' \in [Effects -> SUBSET (Actors \cup {Store})]
                   /\ held' \in [Owners -> SUBSET (Actors \cup {Root})]
                   /\ step' \in [Effects -> Steps] /\ handles' \in SUBSET Inner
                   /\ marks' \in 0..MaxMarks /\ ran' \in [Effects -> [Runs -> Nat]]
                   /\ parent' \in [Inner -> 0..(MaxMarks + 1)]
<1>0. /\ refs \in [Effects -> SUBSET (Actors \cup {Store})]
      /\ held \in [Owners -> SUBSET (Actors \cup {Root})]
      /\ step \in [Effects -> Steps] /\ handles \in SUBSET Inner /\ marks \in 0..MaxMarks
      /\ ran \in [Effects -> [Runs -> Nat]] /\ parent \in [Inner -> 0..(MaxMarks + 1)]
      /\ runs \in [Effects -> 0..(MaxMarks + 1)]
  BY DEF TypeInv, Types
<1>1. ASSUME NEW a \in Actors, Continue(a) PROVE Goal
  <2>0. UNCHANGED <<step, handles, marks, parent>> /\ todo[a] # <<>>
    BY <1>1 DEF Continue
  <2>1. CASE CleanupOwner(a)
    BY <1>0, <2>0, <2>1 DEF CleanupOwner, graph, owners
  <2>2. CASE RunCleanup(a)
    <3>0. PICK o \in Effects, r \in Runs : Head(todo[a]) = <<"run", o, r>>
      BY <2>0, <2>2, HeadItem DEF RunCleanup, RunItem, TypeInv
    <3>1. ran' = [ran EXCEPT ![o][r] = @ + 1] /\ UNCHANGED <<refs, held>>
      <4>1. Head(todo[a])[2] = o /\ Head(todo[a])[3] = r
        BY <3>0
      <4> QED BY <2>2, <4>1, Zenon DEF RunCleanup, graph, owners
    <3>2. ran' \in [Effects -> [Runs -> Nat]]
      <4>1. ran' = [ran EXCEPT ![o] = [ran[o] EXCEPT ![r] = ran[o][r] + 1]]
        BY <1>0, <3>1
      <4>2. [ran[o] EXCEPT ![r] = ran[o][r] + 1] \in [Runs -> Nat]
        BY <1>0
      <4> QED BY <1>0, <4>1, <4>2
    <3> QED BY <1>0, <2>0, <3>1, <3>2
  <2>3. CASE Release(a)
    BY <1>0, <2>0, <2>3 DEF Release, graph
  <2>4. CASE RemoveNodes(a)
    BY <1>0, <2>0, <2>4 DEF RemoveNodes, owners
  <2>5. CASE DropRef(a)
    BY <1>0, <2>0, <2>5 DEF DropRef, owners
  <2>6. CASE CloseChannel(a) \/ MarkDirty(a) \/ NotifyWakes(a)
    BY <1>0, <2>0, <2>6 DEF CloseChannel, MarkDirty, NotifyWakes, owners
  <2>7. CASE PauseOwner(a)
    BY <1>0, <2>0, <2>7 DEF PauseOwner, graph, owners
  <2> QED BY <1>1, <2>1, <2>2, <2>3, <2>4, <2>5, <2>6, <2>7, ContinueCases
<1>2. ASSUME NEW t \in Threads, ThreadCall(t) PROVE Goal
  <2>0. t \in Actors
    BY DEF Actors
  <2>1. ASSUME NEW e \in Effects, Mark(t, e) PROVE Goal
    BY <1>0, <2>0, <2>1 DEF Mark, owners, history
  <2>2. ASSUME NEW e \in Effects, Stop(t, e) PROVE Goal
    BY <1>0, <2>2 DEF Stop, graph, owners, history
  <2>3. CASE CleanupRoot(t) \/ PauseRoot(t) \/ ResumeRoot(t)
    BY <1>0, <2>3 DEF CleanupRoot, PauseRoot, ResumeRoot, graph, owners, history
  <2> QED BY <1>2, <2>1, <2>2, <2>3 DEF ThreadCall
<1>3. ASSUME NEW e \in Effects, Task(e) PROVE Goal
  <2>0. e \in Actors
    BY DEF Actors
  <2>1. CASE StartPoll(e) \/ Upgrade(e) \/ Register(e) \/ Swap(e)
    BY <1>0, <2>1 DEF StartPoll, Upgrade, Register, Swap, Goto, graph, owners, history, Steps
  <2>2. CASE EndPoll(e)
    BY <1>0, <2>2 DEF EndPoll, Goto, graph, owners, history, Steps
  <2>3. CASE Check(e)
    <3>1. /\ \/ step' = [step EXCEPT ![e] = "polling"] \/ step' = [step EXCEPT ![e] = "cleaning"]
          /\ UNCHANGED refs \/ refs' = [refs EXCEPT ![e] = @ \cup {e}]
          /\ UNCHANGED <<held, handles, marks, ran, parent>>
      BY <2>3, CheckEffect, Zenon
    <3>2. step' \in [Effects -> Steps]
      BY <1>0, <3>1 DEF Steps
    <3>3. refs' \in [Effects -> SUBSET (Actors \cup {Store})]
      BY <1>0, <2>0, <3>1
    <3> QED BY <1>0, <3>1, <3>2, <3>3
  <2>4. CASE WithCleanup(e) \/ EndBody(e) \/ RunBody(e)
    BY <1>0, <2>4 DEF WithCleanup, EndBody, RunBody, Goto, graph, owners, history, Steps
  <2>5. CASE EndTask(e)
    BY <1>0, <2>5 DEF EndTask, Goto, graph, owners, history, Steps
  <2> QED BY <1>3, <2>1, <2>2, <2>3, <2>4, <2>5 DEF Task, Poll
<1>4. ASSUME NEW e \in Effects, Nested(e) PROVE Goal
  <2>1. ASSUME NEW i \in Inner, SpawnEffect(e, i) PROVE Goal
    <3>1. i \in Effects /\ i \in Actors
      BY DEF Effects, Actors
    <3>2. step' \in [Effects -> Steps] /\ refs' \in [Effects -> SUBSET (Actors \cup {Store})]
      BY <1>0, <2>1 DEF SpawnEffect, Steps
    <3>3. held' \in [Owners -> SUBSET (Actors \cup {Root})] /\ UNCHANGED <<handles, marks, ran>>
      BY <1>0, <2>1, <3>1 DEF SpawnEffect
    <3>4. parent' \in [Inner -> 0..(MaxMarks + 1)]
      BY <1>0, <2>1 DEF SpawnEffect
    <3> QED BY <1>0, <3>2, <3>3, <3>4
  <2>2. ASSUME NEW i \in Inner, SpawnRenderEffect(e, i) PROVE Goal
    <3>1. i \in Effects /\ i \in Actors
      BY DEF Effects, Actors
    <3>2. step' \in [Effects -> Steps] /\ refs' \in [Effects -> SUBSET (Actors \cup {Store})]
      BY <1>0, <2>2 DEF SpawnRenderEffect, Steps
    <3>3. /\ held' \in [Owners -> SUBSET (Actors \cup {Root})] /\ UNCHANGED <<marks, ran>>
          /\ handles' \in SUBSET Inner
      BY <1>0, <2>2, <3>1 DEF SpawnRenderEffect
    <3>4. parent' \in [Inner -> 0..(MaxMarks + 1)]
      BY <1>0, <2>2 DEF SpawnRenderEffect
    <3> QED BY <1>0, <3>2, <3>3, <3>4
  <2>3. ASSUME NEW i \in Inner, DropHandle(e, i) PROVE Goal
    BY <1>0, <2>3 DEF DropHandle, graph, owners, history
  <2> QED BY <1>4, <2>1, <2>2, <2>3 DEF Nested
<1>5. CASE UNCHANGED vars
  BY <1>0, <1>5 DEF vars, graph, owners, history
<1>6. Goal
  BY <1>1, <1>2, <1>3, <1>4, <1>5, NextCases
<1> QED BY <1>6

LEMMA TypesKept ==
  ASSUME TypeInv, [Next]_vars
  PROVE  Types'
<1> USE LifecycleAssumption DEF LifecycleAssumption
<1>0. runs \in [Effects -> 0..(MaxMarks + 1)]
  BY DEF TypeInv, Types
<1>1. runs' \in [Effects -> 0..(MaxMarks + 1)]
  <2>1. ASSUME NEW a \in Actors, Continue(a) PROVE runs' = runs
    BY <2>1 DEF Continue
  <2>2. ASSUME NEW t \in Threads, ThreadCall(t) PROVE runs' = runs
    BY <2>2 DEF ThreadCall, Mark, Stop, CleanupRoot, PauseRoot, ResumeRoot, history
  <2>3. ASSUME NEW e \in Effects, RunBody(e) PROVE runs' \in [Effects -> 0..(MaxMarks + 1)]
    <3>1. runs[e] + 1 \in Runs /\ runs' = [runs EXCEPT ![e] = runs[e] + 1]
      BY <2>3, RoomToRun DEF RunBody, Ready
    <3> QED BY <1>0, <3>1 DEF Runs
  <2>4. ASSUME NEW e \in Effects, Task(e), ~RunBody(e) PROVE runs' = runs
    <3>1. CASE Check(e)
      BY <3>1, CheckEffect
    <3> QED BY <2>4, <3>1 DEF Task, Poll, StartPoll, Upgrade, Register, Swap, EndPoll, WithCleanup,
                             EndBody, EndTask, history
  <2>5. ASSUME NEW e \in Effects, Nested(e) PROVE runs' \in [Effects -> 0..(MaxMarks + 1)]
    <3>1. PICK i \in Inner : runs' = runs \/ runs' = [runs EXCEPT ![i] = 1]
      BY <2>5 DEF Nested, SpawnEffect, SpawnRenderEffect, DropHandle, history
    <3> QED BY <1>0, <3>1
  <2>6. CASE UNCHANGED vars
    BY <1>0, <2>6 DEF vars, history
  <2> QED BY <1>0, <2>1, <2>2, <2>3, <2>4, <2>5, <2>6, NextCases
<1>2. Booleans'
  BY BooleansKept DEF TypeInv
<1> QED BY <1>1, <1>2, HoldersKept DEF Types, Booleans

\* The reference counts keep their meaning.
LEMMA TasksKept ==
  ASSUME TypeInv, [Next]_vars
  PROVE  TasksOK'
<1> USE LifecycleAssumption DEF LifecycleAssumption
<1>0. /\ Types /\ Stacks /\ StackOK /\ TasksOK /\ Evolve
      /\ Effects = {Outer} \cup Inner /\ Outer \notin Inner /\ Store \notin Actors
      /\ Actors = Threads \cup Effects /\ Threads \cap Effects = {} /\ Owners = {Root} \cup Effects
  BY Evolves DEF TypeInv, Effects, Actors, Owners
<1>1. ASSUME NEW a \in Actors, Continue(a) PROVE TasksOK'
  <2>0. UNCHANGED <<step, first, runs, handles>> /\ todo[a] # <<>>
    BY <1>1 DEF Continue
  <2>1. CASE CleanupOwner(a)
    <3>1. UNCHANGED <<refs, dirty, set>>
      BY <2>1 DEF CleanupOwner, graph
    <3>2. \A o \in Owners : held[o] \subseteq held'[o]
      BY <1>0, <2>1 DEF CleanupOwner, owners, Types
    <3> QED BY <1>0, <2>0, <3>1, <3>2 DEF TasksOK
  <2>2. CASE RunCleanup(a) \/ PauseOwner(a)
    <3>1. UNCHANGED <<refs, dirty, set, held>>
      BY <2>2 DEF RunCleanup, PauseOwner, graph, owners
    <3> QED BY <1>0, <2>0, <3>1 DEF TasksOK
  <2>3. CASE Release(a)
    <3>1. UNCHANGED <<refs, dirty, set>>
      BY <2>3 DEF Release, graph
    <3>2. PICK o \in Effects : Head(todo[a]) = Item("release", o) /\ (a = o => step[o] = "ended")
      BY <1>0, <2>0, <2>3, HeadItem DEF Release, ReleaseItem
    <3>3. Head(todo[a])[2] = o
      BY <3>2 DEF Item
    <3>4. held' = [held EXCEPT ![o] = @ \ {a}]
      BY <2>3, <3>3 DEF Release
    <3>5. \A e \in Effects : step[e] \notin {"none", "ended"} => e \in held'[e]
      BY <1>0, <3>2, <3>4 DEF TasksOK, Types
    <3> QED BY <1>0, <2>0, <3>1, <3>5 DEF TasksOK
  <2>4. CASE RemoveNodes(a)
    <3>1. UNCHANGED <<dirty, set, held>>
      BY <2>4 DEF RemoveNodes, owners
    <3>2. PICK s \in Seq(Effects) :
            Head(todo[a]) = Item("remove", s) /\ \A e \in ToSet(s) : Removable(e)
      BY <1>0, <2>0, <2>4, HeadItem DEF RemoveNodes, RemoveItem
    <3>3. Head(todo[a])[2] = s
      BY <3>2 DEF Item
    <3>4. \A e \in Effects :
            /\ refs'[e] = refs[e] \/ (/\ Store \in refs[e] /\ refs'[e] = (refs[e] \ {Store}) \cup {a}
                                      /\ \E i \in 1..Len(s) : s[i] = e)
      BY <2>4, <3>3 DEF RemoveNodes
    <3>5. \A e \in Effects :
            refs'[e] = refs[e] \/ (Store \in refs[e] /\ Store \notin refs'[e] /\ e \in ToSet(s))
      BY <1>0, <3>4, Elements
    <3>6. \A i \in handles : i \in Effects /\ i \notin ToSet(s)
      BY <1>0, <3>2 DEF Removable, Types
    <3> QED BY <1>0, <2>0, <3>1, <3>5, <3>6 DEF TasksOK
  <2>5. CASE DropRef(a)
    <3>1. UNCHANGED <<dirty, set, held>>
      BY <2>5 DEF DropRef, owners
    <3>2. \A e \in Effects : refs'[e] \subseteq refs[e] /\ (Store \in refs[e] => Store \in refs'[e])
      BY <1>0, <2>5 DEF DropRef, Types
    <3>3. \A i \in handles : i \in Effects
      BY <1>0 DEF Types
    <3> QED BY <1>0, <2>0, <3>1, <3>2, <3>3 DEF TasksOK
  <2>6. CASE CloseChannel(a) \/ NotifyWakes(a)
    <3>1. UNCHANGED <<refs, dirty, set, held>>
      BY <2>6 DEF CloseChannel, NotifyWakes, owners
    <3> QED BY <1>0, <2>0, <3>1 DEF TasksOK
  <2>7. CASE MarkDirty(a)
    <3>1. UNCHANGED <<refs, held>>
      BY <2>7 DEF MarkDirty, owners
    <3>2. PICK e \in Effects : Head(todo[a]) = Item("mark", e) /\ runs[e] > 0
      BY <1>0, <2>0, <2>7, HeadItem DEF MarkDirty, MarkItem
    <3>3. Head(todo[a])[2] = e
      BY <3>2 DEF Item
    <3>4. \A f \in Effects \ {e} : dirty'[f] = dirty[f] /\ set'[f] = set[f]
      BY <1>0, <2>7, <3>3 DEF MarkDirty, Types
    <3>5. step[e] # "none"
      BY <1>0, <3>2 DEF TasksOK
    <3> QED BY <1>0, <2>0, <3>1, <3>4, <3>5 DEF TasksOK
  <2> QED BY <1>1, <2>1, <2>2, <2>3, <2>4, <2>5, <2>6, <2>7, ContinueCases
<1>2. ASSUME NEW t \in Threads, ThreadCall(t) PROVE TasksOK'
  <2>1. ASSUME NEW e \in Effects, Mark(t, e) PROVE TasksOK'
    <3>1. /\ refs[e] # {} /\ refs' = [refs EXCEPT ![e] = @ \cup {t}]
          /\ UNCHANGED <<dirty, set, step, first, held, runs, handles>>
      BY <2>1 DEF Mark, owners, history
    <3>2. step[e] # "none"
      BY <1>0, <3>1 DEF TasksOK
    <3>3. \A f \in Effects \ {e} : refs'[f] = refs[f]
      BY <1>0, <3>1 DEF Types
    <3>4. refs'[e] = refs[e] \cup {t} /\ t # Store
      BY <1>0, <3>1 DEF Types
    <3>5. \A i \in handles : i \in Effects
      BY <1>0 DEF Types
    <3> QED BY <1>0, <3>1, <3>2, <3>3, <3>4, <3>5 DEF TasksOK
  <2>2. ASSUME NEW e \in Effects, Stop(t, e) PROVE TasksOK'
    BY <1>0, <2>2 DEF Stop, graph, owners, history, TasksOK
  <2>3. CASE CleanupRoot(t) \/ PauseRoot(t) \/ ResumeRoot(t)
    BY <1>0, <2>3 DEF CleanupRoot, PauseRoot, ResumeRoot, graph, owners, history, TasksOK
  <2> QED BY <1>2, <2>1, <2>2, <2>3 DEF ThreadCall
<1>3. ASSUME NEW e \in Effects, Task(e) PROVE TasksOK'
  <2>0. ASSUME NEW s \in Steps \ {"none", "ended"}, step' = [step EXCEPT ![e] = s],
               step[e] \notin {"none", "ended"}, UNCHANGED <<refs, held, runs, handles>>,
               \A f \in Effects \ {e} :
                 first'[f] = first[f] /\ dirty'[f] = dirty[f] /\ set'[f] = set[f]
        PROVE  TasksOK'
    <3>1. step'[e] = s /\ \A f \in Effects \ {e} : step'[f] = step[f]
      BY <1>0, <2>0 DEF Types
    <3> QED BY <1>0, <2>0, <3>1 DEF TasksOK
  <2>1. CASE StartPoll(e)
    <3>1. PICK s \in {"polling", "upgraded"} : step' = [step EXCEPT ![e] = s]
      BY <2>1 DEF StartPoll, Goto
    <3>2. step[e] = "waiting" /\ UNCHANGED <<refs, held, runs, handles, first, dirty, set>>
      BY <2>1 DEF StartPoll, Ready, owners, history
    <3> QED BY <2>0, <3>1, <3>2 DEF Steps
  <2>2. CASE Upgrade(e)
    BY <2>0, <2>2 DEF Upgrade, Goto, Ready, graph, owners, history, Steps
  <2>3. CASE Register(e)
    BY <2>0, <2>3 DEF Register, Goto, Ready, owners, history, Steps
  <2>4. CASE Swap(e)
    <3>1. PICK s \in {"taken", "empty"} : step' = [step EXCEPT ![e] = s]
      BY <2>4 DEF Swap, Goto
    <3>2. step[e] = "registered" /\ UNCHANGED <<refs, held, runs, handles, first, dirty>>
      BY <2>4 DEF Swap, Ready, owners, history
    <3>3. \A f \in Effects \ {e} : set'[f] = set[f]
      BY <1>0, <2>4 DEF Swap, Types
    <3> QED BY <2>0, <3>1, <3>2, <3>3 DEF Steps
  <2>5. CASE EndPoll(e)
    <3>1. PICK s \in {"notified", "waiting"} : step' = [step EXCEPT ![e] = s]
      BY <2>5 DEF EndPoll, Goto
    <3>2. /\ step[e] \in {"taken", "empty"}
          /\ UNCHANGED <<refs, held, runs, handles, first, dirty, set>>
      BY <2>5 DEF EndPoll, Ready, graph, owners, history
    <3> QED BY <2>0, <3>1, <3>2 DEF Steps
  <2>6. CASE Check(e)
    <3>1. /\ step[e] = "notified" /\ UNCHANGED <<held, runs, handles, set>>
          /\ step' = [step EXCEPT ![e] = "polling"] \/ step' = [step EXCEPT ![e] = "cleaning"]
          /\ UNCHANGED refs \/ refs' = [refs EXCEPT ![e] = @ \cup {e}]
      BY <2>6, CheckEffect
    <3>2. \A f \in Effects \ {e} : first'[f] = first[f] /\ dirty'[f] = dirty[f]
      <4>1. /\ UNCHANGED first \/ first' = [first EXCEPT ![e] = FALSE]
            /\ UNCHANGED dirty \/ dirty' = [dirty EXCEPT ![e] = FALSE]
        BY <2>6, Zenon DEF Check
      <4> QED BY <1>0, <4>1 DEF Types
    <3>3. /\ step'[e] \in {"polling", "cleaning"}
          /\ \A f \in Effects \ {e} : step'[f] = step[f] /\ refs'[f] = refs[f]
      BY <1>0, <3>1 DEF Types
    <3>4. Store \in refs[e] => Store \in refs'[e]
      BY <1>0, <3>1 DEF Types
    <3>5. \A i \in handles : i \in Effects
      BY <1>0 DEF Types
    <3> QED BY <1>0, <3>1, <3>2, <3>3, <3>4, <3>5 DEF TasksOK
  <2>7. CASE WithCleanup(e)
    BY <2>0, <2>7 DEF WithCleanup, Goto, Ready, graph, history, Steps
  <2>8. CASE RunBody(e)
    <3>1. /\ step[e] = "starting" /\ step' = [step EXCEPT ![e] = "body"]
          /\ runs' = [runs EXCEPT ![e] = @ + 1]
          /\ UNCHANGED <<refs, held, handles, first, dirty, set>>
      BY <2>8 DEF RunBody, Goto, Ready, graph
    <3>2. step'[e] = "body" /\ \A f \in Effects \ {e} : step'[f] = step[f] /\ runs'[f] = runs[f]
      BY <1>0, <3>1 DEF Types
    <3> QED BY <1>0, <3>1, <3>2 DEF TasksOK
  <2>9. CASE EndBody(e)
    BY <2>0, <2>9 DEF EndBody, Goto, Ready, graph, owners, history, Steps
  <2>10. CASE EndTask(e)
    <3>1. /\ refs[e] = {} /\ step' = [step EXCEPT ![e] = "ended"] /\ handles' \subseteq handles
          /\ UNCHANGED <<refs, held, runs, first, dirty, set>>
      BY <2>10 DEF EndTask, StreamEnded, Goto, graph, owners, history
    <3>2. step'[e] = "ended" /\ \A f \in Effects \ {e} : step'[f] = step[f]
      BY <1>0, <3>1 DEF Types
    <3> QED BY <1>0, <3>1, <3>2 DEF TasksOK
  <2> QED BY <1>3, <2>1, <2>2, <2>3, <2>4, <2>5, <2>6, <2>7, <2>8, <2>9, <2>10 DEF Task, Poll
<1>4. ASSUME NEW e \in Effects, Nested(e) PROVE TasksOK'
  <2>1. PICK i \in Inner : SpawnEffect(e, i) \/ SpawnRenderEffect(e, i) \/ DropHandle(e, i)
    BY <1>4 DEF Nested
  <2>2. CASE DropHandle(e, i)
    <3>1. handles' \subseteq handles /\ UNCHANGED <<refs, held, runs, first, dirty, set, step>>
      BY <2>2 DEF DropHandle, graph, owners, history
    <3> QED BY <1>0, <3>1 DEF TasksOK
  <2>3. CASE SpawnEffect(e, i) \/ SpawnRenderEffect(e, i)
    <3>1. /\ step' = [step EXCEPT ![i] = "waiting"] /\ refs' = [refs EXCEPT ![i] = {Store}]
          /\ held' = [held EXCEPT ![i] = {i}] /\ handles' \subseteq handles \cup {i}
      BY <2>3 DEF SpawnEffect, SpawnRenderEffect
    <3>2. /\ step'[i] = "waiting" /\ refs'[i] = {Store} /\ held'[i] = {i}
          /\ \A f \in Effects \ {i} : step'[f] = step[f] /\ refs'[f] = refs[f] /\ held'[f] = held[f]
      BY <1>0, <3>1 DEF Types
    <3>3. /\ runs' = runs \/ runs' = [runs EXCEPT ![i] = 1]
          /\ first' = first \/ first' = [first EXCEPT ![i] = TRUE]
          /\ dirty' = dirty \/ dirty' = [dirty EXCEPT ![i] = TRUE]
          /\ set' = set \/ set' = [set EXCEPT ![i] = TRUE]
      BY <2>3, Zenon DEF SpawnEffect, SpawnRenderEffect
    <3>4. \A f \in Effects \ {i} : /\ runs'[f] = runs[f] /\ first'[f] = first[f]
                                   /\ dirty'[f] = dirty[f] /\ set'[f] = set[f]
      BY <1>0, <3>3 DEF Types
    <3>5. \A j \in handles' : j \in Effects /\ (j # i => j \in handles)
      BY <1>0, <3>1 DEF Types
    <3> QED BY <1>0, <3>2, <3>4, <3>5 DEF TasksOK
  <2> QED BY <2>1, <2>2, <2>3
<1>5. CASE UNCHANGED vars
  BY <1>0, <1>5 DEF vars, graph, owners, history, TasksOK
<1> QED BY <1>1, <1>2, <1>3, <1>4, <1>5, NextCases

-----------------------------------------------------------------------------
(* Runs, and the marks that asked for them *)

Counted(e) == runs[e] + Asked(e) + Cardinality(Marking(e)) <= marks + 1

LEMMA OneCases ==
  ASSUME NEW p
  PROVE  One(p) \in {0, 1} /\ (p => One(p) = 1) /\ (~p => One(p) = 0)
BY DEF One

LEMMA Ones ==
  ASSUME NEW e
  PROVE  /\ One(Going(e)) \in {0, 1} /\ (Going(e) => One(Going(e)) = 1)
         /\ One(Going(e)') \in {0, 1} /\ (~Going(e)' => One(Going(e)') = 0)
         /\ One(Wanted(e)) \in {0, 1} /\ One(Wanted(e)') \in {0, 1}
         /\ (Wanted(e) => One(Wanted(e)) = 1) /\ (~Wanted(e) => One(Wanted(e)) = 0)
         /\ (Wanted(e)' => One(Wanted(e)') = 1) /\ (~Wanted(e)' => One(Wanted(e)') = 0)
BY OneCases, Zenon

LEMMA FewMark ==
  ASSUME NEW S, S \subseteq Threads
  PROVE  IsFiniteSet(S) /\ Cardinality(S) \in Nat
BY LifecycleAssumption, FS_Subset, FS_CardinalityType DEF LifecycleAssumption

LEMMA StillCounted ==
  ASSUME Types, Types', RunsCounted, NEW e \in Effects, runs'[e] = runs[e], marks <= marks',
         Marking(e)' \subseteq Marking(e),
         Going(e)' /\ Wanted(e)' => Going(e) /\ Wanted(e),
         Going(e)' \/ Wanted(e)' => Going(e) \/ Wanted(e)
  PROVE  Counted(e)'
<1> DEFINE g == Going(e)
           h == Going(e)'
           w == Wanted(e)
           v == Wanted(e)'
           m == Cardinality(Marking(e))
           n == Cardinality(Marking(e)')
<1>1. m \in Nat /\ n \in Nat /\ n <= m
  <2>1. Marking(e) \subseteq Threads
    BY DEF Marking
  <2>2. IsFiniteSet(Marking(e)) /\ m \in Nat
    BY <2>1, FewMark
  <2>3. Marking(e)' \subseteq Threads
    BY <2>1
  <2>4. n \in Nat
    BY <2>3, FewMark
  <2> QED BY <2>2, <2>4, FS_Subset
<1>2. One(h) + One(v) <= One(g) + One(w) /\ One(h) \in {0, 1} /\ One(v) \in {0, 1}
      /\ One(g) \in {0, 1} /\ One(w) \in {0, 1}
  <2>1. /\ One(g) \in {0, 1} /\ (g => One(g) = 1) /\ One(h) \in {0, 1} /\ (~h => One(h) = 0)
        /\ One(w) \in {0, 1} /\ (w => One(w) = 1) /\ One(v) \in {0, 1} /\ (~v => One(v) = 0)
    BY OneCases, Zenon
  <2>2. (h /\ v => g /\ w) /\ (h \/ v => g \/ w)
    OBVIOUS
  <2> HIDE DEF g, h, w, v
  <2> QED BY <2>1, <2>2
<1>3. runs[e] + (One(g) + One(w)) + m <= marks + 1
  BY DEF RunsCounted, Asked
<1>4. runs[e] \in Nat /\ marks \in Nat /\ marks' \in Nat
  BY DEF Types
<1>5. runs[e] + (One(h) + One(v)) + n <= marks' + 1
  <2> HIDE DEF g, h, w, v, m, n
  <2> QED BY <1>1, <1>2, <1>3, <1>4
<1> QED BY <1>5 DEF Counted, Asked, One

LEMMA NoNewMark ==
  ASSUME NEW a, \A b \in Threads \ {a} : todo'[b] = todo[b],
         a \in Threads => \A e \in Effects : todo'[a] # <<Item("mark", e)>>, NEW e \in Effects
  PROVE  Marking(e)' \subseteq Marking(e)
BY DEF Marking

LEMMA SameMarks ==
  ASSUME \A b \in Threads : todo'[b] = todo[b], NEW e \in Effects
  PROVE  Marking(e)' = Marking(e)
BY DEF Marking

\* The parts of a call but the mark itself ask for no run.
LEMMA ContinueAsksNothing ==
  ASSUME TypeInv, NEW a \in Actors, Continue(a), ~MarkDirty(a)
  PROVE  dirty' = dirty /\ \A e \in Effects : refs'[e] # {} => refs[e] # {}
<1>1. CASE CleanupOwner(a) \/ RunCleanup(a) \/ Release(a) \/ PauseOwner(a)
  BY <1>1 DEF CleanupOwner, RunCleanup, Release, PauseOwner, graph
<1>2. CASE RemoveNodes(a)
  BY <1>2 DEF RemoveNodes
<1>3. CASE DropRef(a)
  BY <1>3 DEF DropRef, TypeInv, Types
<1>4. CASE CloseChannel(a) \/ NotifyWakes(a)
  BY <1>4 DEF CloseChannel, NotifyWakes
<1> QED BY <1>1, <1>2, <1>3, <1>4, ContinueCases

\* The mark of an effect asks for a run of it, and the mark is done.
LEMMA MarkCounted ==
  ASSUME TypeInv, Types', NEW a \in Actors, Continue(a), MarkDirty(a), MarksNothing(a)'
  PROVE  \A f \in Effects : Counted(f)'
<1> USE LifecycleAssumption DEF LifecycleAssumption
<1>1. UNCHANGED <<step, first, runs, marks>> /\ todo[a] # <<>>
  BY DEF Continue
<1>2. PICK e \in Effects : Head(todo[a]) = Item("mark", e) /\ a \in Threads /\ runs[e] > 0
  BY <1>1, HeadItem DEF MarkDirty, MarkItem, TypeInv
<1>3. Head(todo[a])[2] = e /\ Head(todo[a])[1] = "mark"
  BY <1>2 DEF Item
<1>4. refs' = refs /\ dirty' = [dirty EXCEPT ![e] = TRUE] /\ Then(a, <<Item("wake", e)>>)
  BY <1>3, Zenon DEF MarkDirty
<1>5. todo[a] = <<Item("mark", e)>>
  <2>1. Head(todo[a]) \in ToSet(todo[a])
    BY <1>1, HeadItem DEF TypeInv
  <2> QED BY <1>2, <1>3, <2>1 DEF TypeInv, MarkAlone
<1>6. \A b \in Actors \ {a} : todo'[b] = todo[b]
  BY <1>4 DEF Then, TypeInv, Stacks
<1>7. \A f \in Effects : todo'[a] # <<Item("mark", f)>>
  <2> SUFFICES ASSUME NEW f \in Effects, todo'[a] = <<Item("mark", f)>> PROVE FALSE
    OBVIOUS
  <2>1. Item("mark", f) \in ToSet(todo'[a]) /\ Item("mark", f)[1] = "mark"
    <3>1. ToSet(<<Item("mark", f)>>) = {Item("mark", f)}
      BY OneOf
    <3> QED BY <3>1 DEF Item
  <2> QED BY <2>1 DEF MarksNothing
<1>8. Threads \subseteq Actors
  BY DEF Actors
<1>9. ASSUME NEW f \in Effects \ {e} PROVE Counted(f)'
  <2>1. Marking(f)' \subseteq Marking(f)
    BY <1>6, <1>7, <1>8, NoNewMark
  <2>2. dirty'[f] = dirty[f]
    BY <1>4 DEF TypeInv, Types
  <2>3. (Going(f)' <=> Going(f)) /\ (Wanted(f)' <=> Wanted(f))
    BY <1>1, <1>4, <2>2, Zenon DEF Going, Wanted
  <2>4. runs'[f] = runs[f] /\ marks <= marks'
    BY <1>1 DEF TypeInv, Types
  <2> QED BY <2>1, <2>3, <2>4, StillCounted DEF TypeInv
<1>10. Counted(e)'
  <2>1. Marking(e)' = Marking(e) \ {a} /\ a \in Marking(e)
    BY <1>2, <1>5, <1>6, <1>7, <1>8 DEF Marking
  <2>2. IsFiniteSet(Marking(e)) /\ Cardinality(Marking(e)) \in Nat
    BY FewMark DEF Marking
  <2>3. Cardinality(Marking(e)') = Cardinality(Marking(e)) - 1
    BY <2>1, <2>2, FS_RemoveElement
  <2>4. Going(e)' = Going(e)
    BY <1>1 DEF Going
  <2>5. One(Wanted(e)) \in {0, 1} /\ One(Wanted(e)') \in {0, 1} /\ One(Going(e)) \in {0, 1}
    BY OneCases, Zenon
  <2>6. runs[e] + (One(Going(e)) + One(Wanted(e))) + Cardinality(Marking(e)) <= marks + 1
    BY DEF TypeInv, RunsCounted, Asked
  <2>7. runs[e] \in Nat /\ marks \in Nat
    BY DEF TypeInv, Types
  <2>8. runs[e] + (One(Going(e)) + One(Wanted(e)')) + (Cardinality(Marking(e)) - 1) <= marks + 1
    BY <2>2, <2>5, <2>6, <2>7
  <2>9. runs'[e] + (One(Going(e)') + One(Wanted(e)')) + Cardinality(Marking(e)') <= marks' + 1
    BY <1>1, <2>3, <2>4, <2>8
  <2> QED BY <2>9 DEF Counted, Asked, One
<1> QED BY <1>9, <1>10

\* A thread that starts to mark counts from then on; no other call asks for a run.
LEMMA ThreadCounted ==
  ASSUME TypeInv, Types', Evolve, NEW t \in Threads, ThreadCall(t)
  PROVE  \A f \in Effects : Counted(f)'
<1> USE LifecycleAssumption DEF LifecycleAssumption
<1>0. t \in Actors /\ Threads \subseteq Actors /\ todo \in [Actors -> Seq(StackItems)]
  BY DEF Actors, TypeInv, Stacks
<1>1. ASSUME NEW items, Call(t, items), \A f \in Effects : items # <<Item("mark", f)>>,
             UNCHANGED <<graph, step, first, runs, marks>>
      PROVE  \A f \in Effects : Counted(f)'
  <2> TAKE f \in Effects
  <2>1. todo'[t] = items /\ \A b \in Actors \ {t} : todo'[b] = todo[b]
    BY <1>0, <1>1 DEF Call
  <2>2. Marking(f)' \subseteq Marking(f)
    BY <1>0, <1>1, <2>1 DEF Marking
  <2>3. (Going(f)' <=> Going(f)) /\ (Wanted(f)' <=> Wanted(f))
    BY <1>1, Zenon DEF Going, Wanted, graph
  <2>4. runs'[f] = runs[f] /\ marks <= marks'
    BY <1>1 DEF TypeInv, Types
  <2> QED BY <2>2, <2>3, <2>4, StillCounted DEF TypeInv
<1>2. ASSUME NEW k, k # "mark", NEW x, NEW f \in Effects PROVE <<Item(k, x)>> # <<Item("mark", f)>>
  BY <1>2 DEF Item
<1>3. ASSUME NEW e \in Effects, Stop(t, e) PROVE \A f \in Effects : Counted(f)'
  <2>1. Call(t, <<Item("remove", <<e>>)>>) /\ UNCHANGED <<graph, step, first, runs, marks>>
    BY <1>3 DEF Stop, history
  <2> QED BY <1>1, <1>2, <2>1
<1>4. CASE PauseRoot(t) \/ ResumeRoot(t)
  <2>1. PICK k \in {"pause", "resume"} : Call(t, <<Item(k, Root)>>)
    BY <1>4 DEF PauseRoot, ResumeRoot
  <2>2. UNCHANGED <<graph, step, first, runs, marks>>
    BY <1>4 DEF PauseRoot, ResumeRoot, history
  <2> QED BY <1>1, <1>2, <2>1, <2>2
<1>5. CASE CleanupRoot(t)
  <2>1. Call(t, CleanupOrder(Root)) /\ UNCHANGED <<graph, step, first, runs, marks>>
    BY <1>5 DEF CleanupRoot, history
  <2>2. \A x \in ToSet(CleanupOrder(Root)) : x[1] # "mark"
    BY <1>0, CleanupAllowed DEF TypeInv, Owners
  <2>3. ASSUME NEW f \in Effects PROVE CleanupOrder(Root) # <<Item("mark", f)>>
    <3>1. ToSet(<<Item("mark", f)>>) = {Item("mark", f)} /\ Item("mark", f)[1] = "mark"
      BY OneOf DEF Item
    <3> QED BY <2>2, <3>1
  <2> QED BY <1>1, <2>1, <2>3
<1>6. ASSUME NEW e \in Effects, Mark(t, e) PROVE \A f \in Effects : Counted(f)'
  <2>1. /\ todo[t] = <<>> /\ refs[e] # {} /\ refs' = [refs EXCEPT ![e] = @ \cup {t}]
        /\ Call(t, <<Item("mark", e)>>) /\ marks' = marks + 1
        /\ UNCHANGED <<dirty, step, first, runs>>
    BY <1>6 DEF Mark, history
  <2>2. todo'[t] = <<Item("mark", e)>> /\ \A b \in Actors \ {t} : todo'[b] = todo[b]
    BY <1>0, <2>1 DEF Call
  <2>3. \A f \in Effects : refs'[f] # {} => refs[f] # {}
    BY <2>1 DEF TypeInv, Types
  <2>4. \A f \in Effects : (Going(f)' => Going(f)) /\ (Wanted(f)' => Wanted(f))
    BY <2>1, <2>3, Zenon DEF Going, Wanted
  <2>5. marks \in Nat /\ runs \in [Effects -> Nat]
    BY DEF TypeInv, Types
  <2>6. ASSUME NEW f \in Effects \ {e} PROVE Counted(f)'
    <3>1. todo'[t] # <<Item("mark", f)>>
      BY <2>2 DEF Item
    <3>2. Marking(f)' \subseteq Marking(f)
      BY <1>0, <2>2, <3>1 DEF Marking
    <3> QED BY <2>1, <2>4, <2>5, <3>2, StillCounted DEF TypeInv
  <2>7. Counted(e)'
    <3>1. Marking(e)' = Marking(e) \cup {t}
      BY <1>0, <2>2 DEF Marking
    <3>2. IsFiniteSet(Marking(e)) /\ Cardinality(Marking(e)) \in Nat
      BY FewMark DEF Marking
    <3>3. t \notin Marking(e)
      BY <2>1 DEF Marking
    <3>4. Cardinality(Marking(e)') = Cardinality(Marking(e)) + 1
      BY <3>1, <3>2, <3>3, FS_AddElement
    <3>5. /\ One(Wanted(e)) \in {0, 1} /\ One(Wanted(e)') \in {0, 1}
          /\ One(Going(e)) \in {0, 1} /\ One(Going(e)') \in {0, 1}
          /\ (Wanted(e) => One(Wanted(e)) = 1) /\ (~Wanted(e)' => One(Wanted(e)') = 0)
          /\ (Going(e) => One(Going(e)) = 1) /\ (~Going(e)' => One(Going(e)') = 0)
      BY OneCases, Zenon
    <3>6. One(Going(e)') <= One(Going(e)) /\ One(Wanted(e)') <= One(Wanted(e))
      BY <2>4, <3>5
    <3>7. runs[e] + (One(Going(e)) + One(Wanted(e))) + Cardinality(Marking(e)) <= marks + 1
      BY DEF TypeInv, RunsCounted, Asked
    <3>8. runs[e] + (One(Going(e)') + One(Wanted(e)')) + (Cardinality(Marking(e)) + 1)
            <= marks + 1 + 1
      BY <2>5, <3>2, <3>5, <3>6, <3>7
    <3>9. runs'[e] + (One(Going(e)') + One(Wanted(e)')) + Cardinality(Marking(e)') <= marks' + 1
      BY <2>1, <3>4, <3>8
    <3> QED BY <3>9 DEF Counted, Asked, One
  <2> QED BY <2>6, <2>7
<1> QED BY <1>3, <1>4, <1>5, <1>6 DEF ThreadCall

\* A task answers what was asked for.
LEMMA TaskCounted ==
  ASSUME TypeInv, Types', NEW e \in Effects, Task(e)
  PROVE  \A f \in Effects : Counted(f)'
<1> USE LifecycleAssumption DEF LifecycleAssumption
<1>0. /\ e \notin Threads /\ Threads \subseteq Actors /\ todo \in [Actors -> Seq(StackItems)]
      /\ step \in [Effects -> Steps] /\ runs \in [Effects -> Nat] /\ marks \in Nat
  BY DEF Actors, Effects, TypeInv, Stacks, Types
<1>1. /\ marks' = marks /\ \A b \in Actors \ {e} : todo'[b] = todo[b]
  <2>1. CASE StartPoll(e) \/ Upgrade(e) \/ Register(e) \/ Swap(e) \/ RunBody(e) \/ EndBody(e)
    BY <2>1 DEF StartPoll, Upgrade, Register, Swap, RunBody, EndBody
  <2>2. CASE EndPoll(e) \/ WithCleanup(e) \/ EndTask(e)
    BY <1>0, <2>2 DEF EndPoll, WithCleanup, EndTask, Call
  <2>3. CASE Check(e)
    BY <1>0, <2>3 DEF Check, Call
  <2> QED BY <2>1, <2>2, <2>3 DEF Task, Poll
<1>2. \A f \in Effects : Marking(f)' = Marking(f)
  BY <1>0, <1>1, SameMarks
<1>3. ASSUME UNCHANGED <<refs, dirty, first, runs>>, NEW s, step' = [step EXCEPT ![e] = s],
             s \in {"cleaning", "starting"} => Going(e)
      PROVE  \A f \in Effects : Counted(f)'
  <2> TAKE f \in Effects
  <2>1. Going(f)' => Going(f)
    BY <1>0, <1>3 DEF Going
  <2>2. Wanted(f)' <=> Wanted(f)
    BY <1>3, Zenon DEF Wanted
  <2> QED BY <1>0, <1>1, <1>2, <1>3, <2>1, <2>2, StillCounted DEF TypeInv
<1>4. CASE \/ StartPoll(e) \/ Upgrade(e) \/ Register(e) \/ Swap(e) \/ EndPoll(e)
           \/ EndBody(e) \/ EndTask(e)
  <2>1. UNCHANGED <<refs, dirty, first, runs>>
    BY <1>4 DEF StartPoll, Upgrade, Register, Swap, EndPoll, EndBody, EndTask, graph, history
  <2>2. PICK s : step' = [step EXCEPT ![e] = s] /\ s \notin {"cleaning", "starting"}
    <3>1. CASE StartPoll(e)
      <4>1. PICK s \in {"polling", "upgraded"} : step' = [step EXCEPT ![e] = s]
        BY <3>1 DEF StartPoll, Goto
      <4> QED BY <4>1
    <3>2. CASE Swap(e)
      <4>1. PICK s \in {"taken", "empty"} : step' = [step EXCEPT ![e] = s]
        BY <3>2 DEF Swap, Goto
      <4> QED BY <4>1
    <3>3. CASE EndPoll(e)
      <4>1. PICK s \in {"notified", "waiting"} : step' = [step EXCEPT ![e] = s]
        BY <3>3 DEF EndPoll, Goto
      <4> QED BY <4>1
    <3> QED BY <1>4, <3>1, <3>2, <3>3 DEF Upgrade, Register, EndBody, EndTask, Goto
  <2> QED BY <1>3, <2>1, <2>2
<1>5. CASE WithCleanup(e)
  BY <1>3, <1>5 DEF WithCleanup, Goto, Ready, Going, graph, history
<1>6. CASE RunBody(e)
  <2>1. /\ step[e] = "starting" /\ step' = [step EXCEPT ![e] = "body"]
        /\ runs' = [runs EXCEPT ![e] = @ + 1] /\ UNCHANGED <<refs, dirty, first>>
    BY <1>6 DEF RunBody, Ready, Goto, graph
  <2>2. \A f \in Effects : Wanted(f)' <=> Wanted(f)
    BY <2>1, Zenon DEF Wanted
  <2>3. ASSUME NEW f \in Effects \ {e} PROVE Counted(f)'
    <3>1. (Going(f)' <=> Going(f)) /\ runs'[f] = runs[f]
      BY <1>0, <2>1 DEF Going
    <3> QED BY <1>0, <1>1, <1>2, <2>2, <3>1, StillCounted DEF TypeInv
  <2>4. Counted(e)'
    <3>1. Going(e) /\ ~Going(e)' /\ runs'[e] = runs[e] + 1
      BY <1>0, <2>1 DEF Going
    <3>2. One(Going(e)) = 1 /\ One(Going(e)') = 0 /\ One(Wanted(e)) \in {0, 1}
      BY <3>1, Ones
    <3>3. One(Wanted(e)') = One(Wanted(e))
      <4>1. CASE Wanted(e)
        BY <2>2, <4>1, Ones
      <4>2. CASE ~Wanted(e)
        BY <2>2, <4>2, Ones
      <4> QED BY <4>1, <4>2
    <3>4. Cardinality(Marking(e)) \in Nat
      BY FewMark DEF Marking
    <3>5. runs[e] + (One(Going(e)) + One(Wanted(e))) + Cardinality(Marking(e)) <= marks + 1
      BY DEF TypeInv, RunsCounted, Asked
    <3>6. (runs[e] + 1) + (0 + One(Wanted(e))) + Cardinality(Marking(e)) <= marks + 1
      BY <1>0, <3>2, <3>4, <3>5
    <3>7. runs'[e] + (One(Going(e)') + One(Wanted(e)')) + Cardinality(Marking(e)') <= marks' + 1
      BY <1>1, <1>2, <3>1, <3>2, <3>3, <3>6
    <3> QED BY <3>7 DEF Counted, Asked, One
  <2> QED BY <2>3, <2>4
<1>7. CASE Check(e)
  <2>1. /\ step[e] = "notified" /\ runs' = runs
        /\ step' = [step EXCEPT ![e] = "polling"] \/ step' = [step EXCEPT ![e] = "cleaning"]
        /\ UNCHANGED refs \/ refs' = [refs EXCEPT ![e] = @ \cup {e}]
    BY <1>7, CheckEffect
  <2>2. /\ UNCHANGED first \/ first' = [first EXCEPT ![e] = FALSE]
        /\ UNCHANGED dirty \/ dirty' = [dirty EXCEPT ![e] = FALSE]
    BY <1>7, Zenon DEF Check
  <2>3. ASSUME NEW f \in Effects \ {e} PROVE Counted(f)'
    <3>1. (Going(f)' <=> Going(f)) /\ refs'[f] = refs[f]
      BY <1>0, <2>1 DEF Going, TypeInv, Types
    <3>2. first'[f] = first[f] /\ dirty'[f] = dirty[f]
      BY <2>2 DEF TypeInv, Types
    <3>3. Wanted(f)' <=> Wanted(f)
      BY <3>1, <3>2, Zenon DEF Wanted
    <3> QED BY <1>0, <1>1, <1>2, <2>1, <3>1, <3>3, StillCounted DEF TypeInv
  <2>4. Counted(e)'
    <3>1. CASE own[e].paused
      <4>1. step' = [step EXCEPT ![e] = "polling"] /\ UNCHANGED <<refs, dirty, first>>
        BY <1>7, <3>1, Zenon DEF Check, Goto
      <4>2. (Wanted(e)' <=> Wanted(e)) /\ ~Going(e)'
        BY <1>0, <4>1 DEF Wanted, Going
      <4> QED BY <1>0, <1>1, <1>2, <2>1, <4>2, StillCounted DEF TypeInv
    <3>2. CASE ~own[e].paused
      <4>1. /\ step' = [step EXCEPT ![e] = IF (refs[e] # {} /\ dirty[e]) \/ first[e] THEN "cleaning"
                                          ELSE "polling"]
            /\ first' = [first EXCEPT ![e] = FALSE]
            /\ \/ refs[e] = {} /\ UNCHANGED <<refs, dirty>>
               \/ refs[e] # {} /\ dirty' = [dirty EXCEPT ![e] = FALSE]
        BY <1>7, <3>2, Zenon DEF Check, Goto
      <4>2. step'[e] = IF (refs[e] # {} /\ dirty[e]) \/ first[e] THEN "cleaning" ELSE "polling"
        BY <1>0, <4>1
      <4>3. Going(e)' => Wanted(e)
        BY <4>2 DEF Going, Wanted
      <4>4. first'[e] = FALSE /\ (refs'[e] = {} \/ dirty'[e] = FALSE)
        BY <4>1 DEF TypeInv, Types
      <4>5. ~Wanted(e)'
        BY <4>4 DEF Wanted
      <4> QED BY <1>0, <1>1, <1>2, <2>1, <4>3, <4>5, StillCounted DEF TypeInv
    <3> QED BY <3>1, <3>2
  <2> QED BY <2>3, <2>4
<1> QED BY <1>4, <1>5, <1>6, <1>7 DEF Task, Poll

\* A nested effect is created with the run it is entitled to.
LEMMA NestedCounted ==
  ASSUME TypeInv, Types', NEW e \in Effects, Nested(e)
  PROVE  \A f \in Effects : Counted(f)'
<1> USE LifecycleAssumption DEF LifecycleAssumption
<1>0. /\ e \notin Threads /\ Threads \subseteq Actors /\ todo \in [Actors -> Seq(StackItems)]
      /\ step \in [Effects -> Steps] /\ runs \in [Effects -> Nat] /\ marks \in Nat /\ TasksOK
  BY DEF Actors, Effects, TypeInv, Stacks, Types
<1>1. PICK i \in Inner : SpawnEffect(e, i) \/ SpawnRenderEffect(e, i) \/ DropHandle(e, i)
  BY DEF Nested
<1>2. /\ i \in Effects /\ marks' = marks /\ \A b \in Threads : todo'[b] = todo[b]
  <2>1. i \in Effects
    BY DEF Effects
  <2>2. CASE SpawnEffect(e, i) \/ SpawnRenderEffect(e, i)
    BY <2>1, <2>2 DEF SpawnEffect, SpawnRenderEffect
  <2>3. CASE DropHandle(e, i)
    BY <1>0, <2>1, <2>3 DEF DropHandle, Call
  <2> QED BY <1>1, <2>2, <2>3
<1>3. \A f \in Effects : Marking(f)' = Marking(f)
  BY <1>2, SameMarks
<1>4. CASE DropHandle(e, i)
  <2>1. UNCHANGED <<step, refs, dirty, first, runs>>
    BY <1>4 DEF DropHandle, graph, history
  <2>2. \A f \in Effects : (Going(f)' <=> Going(f)) /\ (Wanted(f)' <=> Wanted(f))
    BY <2>1, Zenon DEF Going, Wanted
  <2> QED BY <1>0, <1>2, <1>3, <2>1, <2>2, StillCounted DEF TypeInv
<1>5. CASE SpawnEffect(e, i) \/ SpawnRenderEffect(e, i)
  <2>1. /\ step[i] = "none" /\ step' = [step EXCEPT ![i] = "waiting"]
        /\ refs' = [refs EXCEPT ![i] = {Store}]
        /\ \/ /\ dirty' = [dirty EXCEPT ![i] = TRUE] /\ first' = [first EXCEPT ![i] = TRUE]
              /\ runs' = runs
           \/ UNCHANGED <<dirty, first>> /\ runs' = [runs EXCEPT ![i] = 1]
    BY <1>5, Zenon DEF SpawnEffect, SpawnRenderEffect
  <2>2. ASSUME NEW f \in Effects \ {i} PROVE Counted(f)'
    <3>1. (Going(f)' <=> Going(f)) /\ refs'[f] = refs[f] /\ runs'[f] = runs[f]
      BY <1>0, <2>1 DEF Going, TypeInv, Types
    <3>2. first'[f] = first[f] /\ dirty'[f] = dirty[f]
      BY <2>1 DEF TypeInv, Types
    <3>3. Wanted(f)' <=> Wanted(f)
      BY <3>1, <3>2, Zenon DEF Wanted
    <3> QED BY <1>0, <1>2, <1>3, <3>1, <3>3, StillCounted DEF TypeInv
  <2>3. Counted(i)'
    <3>1. runs[i] = 0 /\ ~first[i] /\ ~dirty[i]
      BY <1>0, <1>2, <2>1 DEF TasksOK
    <3>2. Marking(i) = {}
      <4> SUFFICES ASSUME NEW t \in Threads, todo[t] = <<Item("mark", i)>> PROVE FALSE
        BY DEF Marking
      <4>1. ToSet(todo[t]) = {Item("mark", i)} /\ t \in Actors
        BY <1>0, OneOf
      <4>2. ItemOK(t, Item("mark", i)) /\ todo[t] # <<>> /\ Head(todo[t]) = Item("mark", i)
        BY <4>1 DEF TypeInv, StackOK
      <4>3. MarkItem(t, Item("mark", i))
        BY <4>1, <4>2, HeadItem DEF Item, TypeInv
      <4> QED BY <1>0, <3>1, <4>3 DEF MarkItem, Item
    <3>3. Cardinality(Marking(i)') = 0
      BY <1>2, <1>3, <3>2, FS_EmptySet
    <3>4. ~Going(i)'
      BY <1>0, <1>2, <2>1 DEF Going
    <3>5. One(Going(i)') = 0 /\ One(Wanted(i)') \in {0, 1}
      BY <3>4, Ones
    <3>6. CASE runs' = runs
      <4>1. runs'[i] + (One(Going(i)') + One(Wanted(i)')) + Cardinality(Marking(i)') <= marks' + 1
        BY <1>0, <1>2, <3>1, <3>3, <3>5, <3>6
      <4> QED BY <4>1 DEF Counted, Asked, One
    <3>7. CASE UNCHANGED <<dirty, first>> /\ runs' = [runs EXCEPT ![i] = 1]
      <4>1. ~Wanted(i)'
        BY <3>1, <3>7, Zenon DEF Wanted
      <4>2. One(Wanted(i)') = 0 /\ runs'[i] = 1
        <5>1. One(Wanted(i)') = 0
          BY <4>1, Ones
        <5> QED BY <1>0, <1>2, <3>7, <5>1
      <4>3. runs'[i] + (One(Going(i)') + One(Wanted(i)')) + Cardinality(Marking(i)') <= marks' + 1
        BY <1>0, <1>2, <3>3, <3>5, <4>2
      <4> QED BY <4>3 DEF Counted, Asked, One
    <3> QED BY <2>1, <3>6, <3>7
  <2> QED BY <2>2, <2>3
<1> QED BY <1>1, <1>4, <1>5

LEMMA RunsKept ==
  ASSUME TypeInv, [Next]_vars
  PROVE  RunsCounted'
<1>0. Types' /\ Evolve
  BY TypesKept, Evolves DEF TypeInv
<1>1. ASSUME NEW a \in Actors, Continue(a) PROVE \A f \in Effects : Counted(f)'
  <2>1. MarksNothing(a)'
    BY <1>0, <1>1, ContinueStacks
  <2>2. CASE MarkDirty(a)
    BY <1>0, <1>1, <2>1, <2>2, MarkCounted
  <2>3. CASE ~MarkDirty(a)
    <3>1. /\ UNCHANGED <<step, first, runs, marks, dirty>>
          /\ \A f \in Effects : refs'[f] # {} => refs[f] # {}
      BY <1>1, <2>3, ContinueAsksNothing DEF Continue
    <3>2. \A b \in Actors \ {a} : todo'[b] = todo[b]
      <4>1. PICK items : Then(a, items)
        BY <1>1, ContinueCases DEF CleanupOwner, RunCleanup, Release, RemoveNodes, DropRef,
                                   CloseChannel, MarkDirty, NotifyWakes, PauseOwner
      <4> QED BY <4>1 DEF Then, TypeInv, Stacks
    <3>3. \A f \in Effects : todo'[a] # <<Item("mark", f)>>
      <4> SUFFICES ASSUME NEW f \in Effects, todo'[a] = <<Item("mark", f)>> PROVE FALSE
        OBVIOUS
      <4>1. ToSet(<<Item("mark", f)>>) = {Item("mark", f)} /\ Item("mark", f)[1] = "mark"
        BY OneOf DEF Item
      <4> QED BY <2>1, <4>1 DEF MarksNothing
    <3>4. \A f \in Effects : Marking(f)' \subseteq Marking(f)
      <4>1. Threads \subseteq Actors
        BY DEF Actors
      <4> QED BY <3>2, <3>3, <4>1 DEF Marking
    <3>5. \A f \in Effects : (Going(f)' <=> Going(f)) /\ (Wanted(f)' => Wanted(f))
      BY <3>1, Zenon DEF Going, Wanted
    <3>6. marks <= marks' /\ \A f \in Effects : runs'[f] = runs[f]
      BY <3>1 DEF TypeInv, Types
    <3> QED BY <1>0, <3>4, <3>5, <3>6, StillCounted DEF TypeInv
  <2> QED BY <2>2, <2>3
<1>2. ASSUME NEW t \in Threads, ThreadCall(t) PROVE \A f \in Effects : Counted(f)'
  BY <1>0, <1>2, ThreadCounted
<1>3. ASSUME NEW e \in Effects, Task(e) \/ Nested(e) PROVE \A f \in Effects : Counted(f)'
  BY <1>0, <1>3, TaskCounted, NestedCounted
<1>4. ASSUME UNCHANGED vars PROVE \A f \in Effects : Counted(f)'
  <2>1. UNCHANGED <<step, first, runs, marks, dirty, refs, todo>>
    BY <1>4 DEF vars, graph, history
  <2>2. \A f \in Effects : Marking(f)' = Marking(f)
    BY <2>1, SameMarks
  <2>3. \A f \in Effects : (Going(f)' <=> Going(f)) /\ (Wanted(f)' <=> Wanted(f))
    BY <2>1, Zenon DEF Going, Wanted
  <2>4. marks <= marks' /\ \A f \in Effects : runs'[f] = runs[f]
    BY <2>1 DEF TypeInv, Types
  <2> QED BY <1>0, <2>2, <2>3, <2>4, StillCounted DEF TypeInv
<1>5. \A f \in Effects : Counted(f)'
  BY <1>1, <1>2, <1>3, <1>4, NextCases
<1> QED BY <1>5 DEF RunsCounted, Counted

\* The program starts with one effect under the root, which waits for its first run.
LEMMA TypesFirst ==
  ASSUME Init
  PROVE  TypeInv
<1> USE LifecycleAssumption DEF LifecycleAssumption
<1>0. /\ Outer \notin Inner /\ Outer \in Effects /\ Root \notin Effects /\ Effects \subseteq Owners
      /\ Root \in Owners /\ Inner \subseteq Effects /\ Store \notin Actors /\ Effects \subseteq Actors
  BY DEF Effects, Owners, Actors
<1>1. Types
  <2>1. /\ native \in BOOLEAN /\ dirty \in [Effects -> BOOLEAN] /\ set \in [Effects -> BOOLEAN]
        /\ waker \in [Effects -> BOOLEAN] /\ queued \in [Effects -> BOOLEAN]
        /\ first \in [Effects -> BOOLEAN]
    BY Zenon DEF Init
  <2>2. /\ refs \in [Effects -> SUBSET (Actors \cup {Store})] /\ step \in [Effects -> Steps]
        /\ held \in [Owners -> SUBSET (Actors \cup {Root})]
    BY <1>0 DEF Init, Steps
  <2>3. /\ handles \in SUBSET Inner /\ marks \in 0..MaxMarks
        /\ runs \in [Effects -> 0..(MaxMarks + 1)] /\ ran \in [Effects -> [Runs -> Nat]]
        /\ parent \in [Inner -> 0..(MaxMarks + 1)]
    BY DEF Init
  <2> QED BY <2>1, <2>2, <2>3 DEF Types
<1>2. \A a \in Actors : todo[a] = <<>>
  BY DEF Init
<1>3. ToSet(<<>>) = {} /\ <<>> \in Seq(StackItems)
  BY NoItem
<1>4. /\ own = [o \in Owners |->
               IF o = Root THEN [Empty EXCEPT !.children = <<Outer>>, !.nodes = <<Outer>>]
               ELSE Empty]
      /\ Empty \in OwnerTypes
      /\ [Empty EXCEPT !.children = <<Outer>>, !.nodes = <<Outer>>] \in OwnerTypes
  <2>1. <<>> \in Seq(Effects) /\ <<>> \in Seq(Runs) /\ <<Outer>> \in Seq(Effects)
    BY <1>0
  <2>2. Empty \in OwnerTypes
    BY <2>1, Zenon DEF Empty, OwnerTypes
  <2>3. [Empty EXCEPT !.children = <<Outer>>, !.nodes = <<Outer>>] \in OwnerTypes
    BY <2>1, <2>2, ListField, Zenon DEF OwnerTypes
  <2>4. own = [o \in Owners |->
               IF o = Root THEN [Empty EXCEPT !.children = <<Outer>>, !.nodes = <<Outer>>]
               ELSE Empty]
    BY DEF Init
  <2> QED BY <2>2, <2>3, <2>4
<1>5. Stacks
  <2>1. todo \in [Actors -> Seq(StackItems)]
    BY <1>3 DEF Init
  <2> QED BY <1>4, <2>1 DEF Stacks
<1>6. StackOK /\ MarkAlone
  BY <1>2, <1>3 DEF StackOK, MarkAlone
<1>7. OwnOK
  <2>1. \A o \in Effects : own[o] = Empty
    BY <1>0, <1>4
  <2>2. own[Root] = [Empty EXCEPT !.children = <<Outer>>, !.nodes = <<Outer>>]
    BY <1>0, <1>4
  <2>3. own[Root].children = <<Outer>> /\ own[Root].nodes = <<Outer>> /\ own[Root].cleanups = <<>>
    BY <2>2 DEF Empty
  <2>4. \A o \in Effects : own[o].children = <<>> /\ own[o].nodes = <<>> /\ own[o].cleanups = <<>>
    BY <2>1 DEF Empty
  <2>5. ToSet(<<Outer>>) = {Outer}
    BY OneOf
  <2>6. Removable(Outer)
    BY <1>0 DEF Removable, Init
  <2>7. \A o \in Owners : \A e \in ToSet(own[o].nodes) : Removable(e)
    BY <1>3, <2>3, <2>4, <2>5, <2>6 DEF Owners
  <2> QED BY <1>0, <1>3, <2>3, <2>4, <2>5, <2>7 DEF OwnOK
<1>8. TasksOK
  BY <1>0 DEF Init, TasksOK
<1>9. RunsCounted
  <2> SUFFICES ASSUME NEW e \in Effects PROVE Counted(e)
    BY DEF RunsCounted, Counted
  <2>1. Marking(e) = {}
    BY <1>2 DEF Marking, Actors
  <2>2. Cardinality(Marking(e)) = 0
    BY <2>1, FS_EmptySet
  <2>3. ~Going(e) /\ runs[e] = 0 /\ marks = 0
    BY DEF Going, Init
  <2>4. One(Going(e)) = 0 /\ One(Wanted(e)) \in {0, 1}
    BY <2>3, Ones DEF One
  <2> QED BY <2>2, <2>3, <2>4 DEF Counted, Asked
<1> QED BY <1>1, <1>5, <1>6, <1>7, <1>8, <1>9 DEF TypeInv

LEMMA TypesNext ==
  ASSUME TypeInv, [Next]_vars
  PROVE  TypeInv'
<1>0. Evolve
  BY Evolves DEF TypeInv
<1>1. Stacks' /\ StackOK' /\ MarkAlone' /\ OwnOK'
  <2>1. CASE UNCHANGED vars
    BY <2>1 DEF vars, graph, owners, history, TypeInv, Stacks, StackOK, MarkAlone, OwnOK, ItemOK,
                CleanupItem, RunItem, ReleaseItem, RemoveItem, PlainItem, MarkItem, PauseItem,
                Removable
  <2> QED BY <1>0, <2>1, NextCases, ContinueStacks, ThreadStacks, TaskStacks, NestedStacks
<1> QED BY <1>1, TypesKept, TasksKept, RunsKept DEF TypeInv

LEMMA AlwaysTyped == Spec => []TypeInv
<1>1. Init => TypeInv
  BY TypesFirst
<1>2. TypeInv /\ [Next]_vars => TypeInv'
  BY TypesNext
<1> QED BY <1>1, <1>2, PTL DEF Spec

\* Whatever threads, tasks and nested effects do at once, the reference counts mean what the
\* code takes them for: an effect in the arena has a task, a task that has not ended holds its
\* owner (render_effect.rs and effect.rs keep it in the future), what a value holds is kept, and
\* no effect runs more often than it was first created and then marked.
THEOREM LifecycleTypeCorrect == Spec => []TypeOK
<1>1. TypeInv => TypeOK
  BY DEF TypeInv, Types, TasksOK, TypeOK
<1> QED BY <1>1, AlwaysTyped, PTL

-----------------------------------------------------------------------------
(* No wakeup is lost *)

Does(a, x) == todo[a] # <<>> /\ Head(todo[a]) = x

\* From the moment its waker is in the channel a task is there to be woken; after it looked at
\* the flag, whoever raises it or drops the sender is on the way to wake the task.
Wakeful(e) ==
  /\ step[e] \in {"registered", "empty", "waiting"} => waker[e] \/ queued[e]
  /\ step[e] \in {"empty", "waiting"} /\ ~queued[e] =>
       ~set[e] \/ \E a \in Actors : Does(a, Item("wake", e))
  /\ step[e] = "waiting" /\ ~queued[e] /\ refs[e] = {} => \E a \in Actors : Does(a, Item("close", e))
WakeInv == \A e \in Effects : Wakeful(e)

\* Who is not concerned with an effect leaves it wakeful.
LEMMA StillWakeful ==
  ASSUME NEW e \in Effects, Wakeful(e), NEW a, \A b \in Actors \ {a} : todo'[b] = todo[b],
         ~Does(a, Item("wake", e)), ~Does(a, Item("close", e)),
         step'[e] = step[e], waker'[e] = waker[e], queued'[e] = queued[e], set'[e] = set[e],
         refs'[e] = {} => refs[e] = {}
  PROVE  Wakeful(e)'
<1>1. ASSUME NEW x, ~Does(a, x), \E b \in Actors : Does(b, x) PROVE \E b \in Actors : Does(b, x)'
  BY <1>1 DEF Does
<1>2. step[e] \in {"registered", "empty", "waiting"} => waker[e] \/ queued[e]
  BY DEF Wakeful
<1>3. step[e] \in {"empty", "waiting"} /\ ~queued[e] =>
        ~set[e] \/ \E b \in Actors : Does(b, Item("wake", e))'
  BY <1>1 DEF Wakeful
<1>4. step[e] = "waiting" /\ ~queued[e] /\ refs'[e] = {} =>
        \E b \in Actors : Does(b, Item("close", e))'
  BY <1>1 DEF Wakeful
<1> QED BY <1>2, <1>3, <1>4, Zenon DEF Wakeful

\* The parts of a call.
LEMMA ContinueWakeful ==
  ASSUME TypeInv, WakeInv, NEW a \in Actors, Continue(a), NEW e \in Effects
  PROVE  Wakeful(e)'
<1>0. /\ Types /\ Stacks /\ StackOK /\ Wakeful(e) /\ todo[a] # <<>> /\ UNCHANGED step
  BY DEF TypeInv, WakeInv, Continue
<1>1. \A b \in Actors \ {a} : todo'[b] = todo[b]
  <2>1. PICK items : Then(a, items)
    BY ContinueCases DEF CleanupOwner, RunCleanup, Release, RemoveNodes, DropRef, CloseChannel,
                         MarkDirty, NotifyWakes, PauseOwner
  <2> QED BY <2>1 DEF Then, TypeInv, Stacks
<1>2. ASSUME Head(todo[a])[1] \notin {"wake", "close"}
      PROVE  ~Does(a, Item("wake", e)) /\ ~Does(a, Item("close", e))
  BY <1>2 DEF Does, Item
<1>3. CASE CleanupOwner(a) \/ RunCleanup(a) \/ Release(a) \/ PauseOwner(a)
  <2>1. Head(todo[a])[1] \notin {"wake", "close"}
    BY <1>3 DEF CleanupOwner, RunCleanup, Release, PauseOwner
  <2>2. UNCHANGED <<refs, set, waker, queued>>
    BY <1>3 DEF CleanupOwner, RunCleanup, Release, PauseOwner, graph
  <2> QED BY <1>0, <1>1, <1>2, <2>1, <2>2, StillWakeful
<1>4. CASE RemoveNodes(a)
  <2>1. UNCHANGED <<set, waker, queued>> /\ Head(todo[a])[1] \notin {"wake", "close"}
    BY <1>4 DEF RemoveNodes
  <2>2. refs'[e] = {} => refs[e] = {}
    <3>1. refs'[e] = refs[e] \/ a \in refs'[e]
      BY <1>4 DEF RemoveNodes
    <3> QED BY <3>1
  <2> QED BY <1>0, <1>1, <1>2, <2>1, <2>2, StillWakeful
<1>5. CASE DropRef(a)
  <2>1. UNCHANGED <<set, waker, queued>> /\ Head(todo[a])[1] \notin {"wake", "close"}
    BY <1>5 DEF DropRef
  <2>2. PICK f \in Effects : Head(todo[a]) = Item("drop", f)
    <3>1. PICK f \in Effects, k \in {"drop", "close", "wake"} : Head(todo[a]) = Item(k, f)
      BY <1>0, <1>5, HeadItem DEF DropRef, PlainItem
    <3> QED BY <1>5, <3>1 DEF DropRef, Item
  <2>3. Head(todo[a])[2] = f
    BY <2>2 DEF Item
  <2>4. /\ refs' = [refs EXCEPT ![f] = @ \ {a}]
        /\ Then(a, IF a \in refs[f] /\ refs'[f] = {} /\ ~Receiving(f)
                   THEN <<Item("close", f)>> ELSE <<>>)
    BY <1>5, <2>3 DEF DropRef
  <2>5. CASE refs'[e] = {} => refs[e] = {}
    BY <1>0, <1>1, <1>2, <2>1, <2>5, StillWakeful
  <2>6. CASE refs'[e] = {} /\ refs[e] # {}
    <3>1. e = f /\ a \in refs[f]
      BY <1>0, <2>4, <2>6 DEF Types
    <3>2. step[e] = "waiting" => ~Receiving(f)
      BY <3>1 DEF Receiving
    <3>3. ASSUME step[e] = "waiting" PROVE Does(a, Item("close", e))'
      <4>1. Then(a, <<Item("close", e)>>)
        BY <2>4, <2>6, <3>1, <3>2, <3>3
      <4>2. Item("close", e) \in StackItems
        BY DEF StackItems, Kinds, Owners
      <4>3. todo'[a] = <<Item("close", e)>> \o Tail(todo[a])
        BY <1>0, <4>1, <4>2, OneItem, Pushed
      <4>4. /\ <<Item("close", e)>> \in Seq(StackItems) /\ todo[a] \in Seq(StackItems)
            /\ <<Item("close", e)>> # <<>> /\ <<Item("close", e)>>[1] = Item("close", e)
        BY <1>0, <4>2 DEF Stacks
      <4>5. todo'[a] # <<>> /\ Head(todo'[a]) = <<Item("close", e)>>[1]
        BY <1>0, <4>3, <4>4, Replaced
      <4> QED BY <4>4, <4>5 DEF Does
    <3>4. ASSUME \E b \in Actors : Does(b, Item("wake", e))
          PROVE  \E b \in Actors : Does(b, Item("wake", e))'
      BY <1>1, <1>2, <2>1, <3>4 DEF Does
    <3>5. UNCHANGED <<set[e], waker[e], queued[e], step[e]>>
      BY <1>0, <2>1
    <3>6. step[e] \in {"registered", "empty", "waiting"} => waker[e] \/ queued[e]
      BY <1>0 DEF Wakeful
    <3>7. step[e] \in {"empty", "waiting"} /\ ~queued[e] =>
            ~set[e] \/ \E b \in Actors : Does(b, Item("wake", e))'
      BY <1>0, <3>4 DEF Wakeful
    <3> QED BY <3>3, <3>5, <3>6, <3>7, Zenon DEF Wakeful
  <2> QED BY <2>5, <2>6
<1>6. CASE CloseChannel(a) \/ NotifyWakes(a)
  <2>1. PICK f \in Effects, k \in {"drop", "close", "wake"} : Head(todo[a]) = Item(k, f)
    BY <1>0, <1>6, HeadItem DEF CloseChannel, NotifyWakes, PlainItem
  <2>2. Head(todo[a])[2] = f
    BY <2>1 DEF Item
  <2>3. /\ UNCHANGED <<refs, set>> /\ waker' = [waker EXCEPT ![f] = FALSE]
        /\ queued' = [queued EXCEPT ![f] = @ \/ waker[f]]
    BY <1>6, <2>2, Zenon DEF CloseChannel, NotifyWakes, OnClose, Wake
  <2>4. CASE f # e
    <3>1. ~Does(a, Item("wake", e)) /\ ~Does(a, Item("close", e))
      BY <2>1, <2>4 DEF Does, Item
    <3>2. waker'[e] = waker[e] /\ queued'[e] = queued[e]
      BY <1>0, <2>3, <2>4 DEF Types
    <3> QED BY <1>0, <1>1, <2>3, <3>1, <3>2, StillWakeful
  <2>5. CASE f = e
    <3>1. queued'[e] = (queued[e] \/ waker[e])
      BY <1>0, <2>3, <2>5, Zenon DEF Types
    <3>2. step[e] \in {"registered", "empty", "waiting"} => waker[e] \/ queued[e]
      BY <1>0 DEF Wakeful
    <3>3. step[e] \in {"registered", "empty", "waiting"} => queued'[e]
      BY <3>1, <3>2, Zenon
    <3>4. step'[e] = step[e]
      BY <1>0
    <3>5. step[e] \in {"empty", "waiting"} => step[e] \in {"registered", "empty", "waiting"}
      OBVIOUS
    <3>6. step[e] = "waiting" => step[e] \in {"registered", "empty", "waiting"}
      OBVIOUS
    <3> QED BY <3>3, <3>4, <3>5, <3>6, Zenon DEF Wakeful
  <2> QED BY <2>4, <2>5
<1>7. CASE MarkDirty(a)
  <2>1. UNCHANGED <<refs, waker, queued>> /\ Head(todo[a])[1] = "mark"
    BY <1>7 DEF MarkDirty
  <2>2. PICK f \in Effects : Head(todo[a]) = Item("mark", f)
    BY <1>0, <2>1, HeadItem DEF MarkItem
  <2>3. Head(todo[a])[2] = f
    BY <2>2 DEF Item
  <2>4. set' = [set EXCEPT ![f] = TRUE] /\ Then(a, <<Item("wake", f)>>)
    BY <1>7, <2>3, Zenon DEF MarkDirty
  <2>5. CASE f # e
    <3>1. set'[e] = set[e]
      BY <1>0, <2>4, <2>5 DEF Types
    <3> QED BY <1>0, <1>1, <1>2, <2>1, <3>1, StillWakeful
  <2>6. CASE f = e
    <3>1. Does(a, Item("wake", e))'
      <4>1. Item("wake", e) \in StackItems
        BY DEF StackItems, Kinds, Owners
      <4>2. todo'[a] = <<Item("wake", e)>> \o Tail(todo[a])
        BY <1>0, <2>4, <2>6, <4>1, OneItem, Pushed
      <4>3. /\ <<Item("wake", e)>> \in Seq(StackItems) /\ todo[a] \in Seq(StackItems)
            /\ <<Item("wake", e)>> # <<>> /\ <<Item("wake", e)>>[1] = Item("wake", e)
        BY <1>0, <4>1 DEF Stacks
      <4>4. todo'[a] # <<>> /\ Head(todo'[a]) = <<Item("wake", e)>>[1]
        BY <1>0, <4>2, <4>3, Replaced
      <4> QED BY <4>3, <4>4 DEF Does
    <3>2. ASSUME \E b \in Actors : Does(b, Item("close", e))
          PROVE  \E b \in Actors : Does(b, Item("close", e))'
      BY <1>1, <1>2, <2>1, <3>2 DEF Does
    <3>3. UNCHANGED <<waker[e], queued[e], step[e], refs[e]>>
      BY <1>0, <2>1
    <3>4. step[e] \in {"registered", "empty", "waiting"} => waker[e] \/ queued[e]
      BY <1>0 DEF Wakeful
    <3>5. step[e] = "waiting" /\ ~queued[e] /\ refs[e] = {} =>
            \E b \in Actors : Does(b, Item("close", e))'
      BY <1>0, <3>2 DEF Wakeful
    <3> QED BY <3>1, <3>3, <3>4, <3>5, Zenon DEF Wakeful
  <2> QED BY <2>5, <2>6
<1> QED BY <1>3, <1>4, <1>5, <1>6, <1>7, ContinueCases

\* What a thread calls.
LEMMA ThreadWakeful ==
  ASSUME TypeInv, WakeInv, NEW t \in Threads, ThreadCall(t), NEW e \in Effects
  PROVE  Wakeful(e)'
<1>0. todo \in [Actors -> Seq(StackItems)] /\ Wakeful(e)
  BY DEF TypeInv, Stacks, WakeInv
<1>1. todo[t] = <<>> /\ \E items : Call(t, items)
  BY DEF ThreadCall, Mark, Stop, CleanupRoot, PauseRoot, ResumeRoot
<1>2. \A b \in Actors \ {t} : todo'[b] = todo[b]
  BY <1>0, <1>1 DEF Call
<1>3. UNCHANGED <<step, set, waker, queued>>
  <2>1. ASSUME NEW f \in Effects, Mark(t, f) \/ Stop(t, f)
        PROVE  UNCHANGED <<step, set, waker, queued>>
    BY <2>1 DEF Mark, Stop, graph
  <2> QED BY <2>1 DEF ThreadCall, CleanupRoot, PauseRoot, ResumeRoot, graph
<1>4. refs'[e] = {} => refs[e] = {}
  <2>1. ASSUME NEW f \in Effects, Mark(t, f) PROVE refs'[e] = {} => refs[e] = {}
    BY <2>1 DEF Mark, TypeInv, Types
  <2>2. ASSUME NEW f \in Effects, Stop(t, f) PROVE refs'[e] = {} => refs[e] = {}
    BY <2>2 DEF Stop, graph
  <2> QED BY <2>1, <2>2 DEF ThreadCall, CleanupRoot, PauseRoot, ResumeRoot, graph
<1>5. ~Does(t, Item("wake", e)) /\ ~Does(t, Item("close", e))
  BY <1>1 DEF Does
<1> QED BY <1>0, <1>2, <1>3, <1>4, <1>5, StillWakeful

\* The steps of a task.
LEMMA TaskWakeful ==
  ASSUME TypeInv, WakeInv, NEW f \in Effects, Task(f), NEW e \in Effects
  PROVE  Wakeful(e)'
<1>0. /\ todo \in [Actors -> Seq(StackItems)] /\ Wakeful(e) /\ Types /\ f \in Actors
  BY DEF TypeInv, Stacks, WakeInv, Actors
<1>1. todo[f] = <<>> /\ \A b \in Actors \ {f} : todo'[b] = todo[b]
  <2>1. CASE StartPoll(f) \/ Upgrade(f) \/ Register(f) \/ Swap(f) \/ RunBody(f) \/ EndBody(f)
    BY <2>1 DEF StartPoll, Upgrade, Register, Swap, RunBody, EndBody, Ready
  <2>2. CASE EndPoll(f) \/ WithCleanup(f) \/ EndTask(f)
    BY <1>0, <2>2 DEF EndPoll, WithCleanup, EndTask, Call, Ready
  <2>3. CASE Check(f)
    BY <1>0, <2>3 DEF Check, Call, Ready
  <2> QED BY <2>1, <2>2, <2>3 DEF Task, Poll
<1>2. \A x : ~Does(f, x)
  BY <1>1 DEF Does
<1>3. PICK s \in Steps : step' = [step EXCEPT ![f] = s]
  BY DEF Task, Poll, StartPoll, Upgrade, Register, Swap, EndPoll, Check, WithCleanup, RunBody,
         EndBody, EndTask, Goto, Steps
<1>4. step'[f] = s /\ \A g \in Effects \ {f} : step'[g] = step[g]
  BY <1>0, <1>3 DEF Types
<1>5. CASE e # f
  <2>1. waker'[e] = waker[e] /\ queued'[e] = queued[e] /\ set'[e] = set[e]
    <3>1. /\ waker' = waker \/ waker' = [waker EXCEPT ![f] = TRUE]
          /\ queued' = queued \/ queued' = [queued EXCEPT ![f] = FALSE]
          /\ set' = set \/ set' = [set EXCEPT ![f] = FALSE]
      BY Zenon DEF Task, Poll, StartPoll, Upgrade, Register, Swap, EndPoll, Check, WithCleanup,
                   RunBody, EndBody, EndTask, graph
    <3> QED BY <1>0, <1>5, <3>1 DEF Types
  <2>2. refs'[e] = refs[e]
    <3>1. CASE Check(f)
      BY <1>0, <1>5, <3>1, CheckEffect DEF Types
    <3> QED BY <3>1 DEF Task, Poll, StartPoll, Upgrade, Register, Swap, EndPoll, WithCleanup, RunBody,
                        EndBody, EndTask, graph
  <2> QED BY <1>0, <1>1, <1>2, <1>4, <1>5, <2>1, <2>2, StillWakeful
<1>6. CASE e = f
  <2>1. ASSUME s \notin {"registered", "empty", "waiting"} PROVE Wakeful(e)'
    BY <1>4, <1>6, <2>1 DEF Wakeful
  <2>2. CASE StartPoll(f)
    <3>1. step'[f] \in {"polling", "upgraded"}
      BY <1>0, <2>2 DEF StartPoll, Goto, Types
    <3> QED BY <1>4, <2>1, <3>1
  <2>3. CASE Upgrade(f) \/ Check(f) \/ WithCleanup(f) \/ RunBody(f) \/ EndBody(f) \/ EndTask(f)
    <3>1. CASE Check(f)
      BY <1>0, <1>4, <2>1, <3>1, CheckEffect DEF Types
    <3>2. CASE Upgrade(f) \/ WithCleanup(f) \/ RunBody(f) \/ EndBody(f) \/ EndTask(f)
      <4>1. step'[f] \in {"upgraded", "starting", "body", "polling", "ended"}
        BY <1>0, <3>2 DEF Upgrade, WithCleanup, RunBody, EndBody, EndTask, Goto, Types
      <4> QED BY <1>4, <2>1, <4>1
    <3> QED BY <2>3, <3>1, <3>2
  <2>4. CASE Register(f)
    <3>1. waker' = [waker EXCEPT ![f] = TRUE] /\ step' = [step EXCEPT ![f] = "registered"]
      BY <2>4 DEF Register, Goto
    <3>2. waker'[e] = TRUE
      BY <1>0, <1>6, <3>1, Zenon DEF Types
    <3>3. step'[e] = "registered"
      BY <1>0, <1>6, <3>1 DEF Types
    <3>4. step'[e] \notin {"empty", "waiting"} /\ step'[e] # "waiting"
      BY <3>3
    <3> QED BY <3>2, <3>4, Zenon DEF Wakeful
  <2>5. CASE Swap(f)
    <3>1. /\ step[e] = "registered" /\ set' = [set EXCEPT ![f] = FALSE] /\ UNCHANGED <<waker, queued>>
      BY <1>6, <2>5 DEF Swap, Ready
    <3>2. set'[e] = FALSE
      BY <1>0, <1>6, <3>1, Zenon DEF Types
    <3>3. waker'[e] \/ queued'[e]
      <4>1. step[e] \in {"registered", "empty", "waiting"} => waker[e] \/ queued[e]
        BY <1>0 DEF Wakeful
      <4>2. waker[e] \/ queued[e]
        BY <3>1, <4>1
      <4> QED BY <3>1, <4>2
    <3>4. step'[e] # "waiting"
      BY <1>0, <1>6, <2>5 DEF Swap, Goto, Types
    <3> QED BY <3>2, <3>3, <3>4, Zenon DEF Wakeful
  <2>6. CASE EndPoll(f)
    <3>1. CASE s # "waiting"
      <4>1. step'[f] \in {"notified", "waiting"}
        BY <1>0, <2>6 DEF EndPoll, Goto, Types
      <4> QED BY <1>4, <2>1, <3>1, <4>1
    <3>2. CASE s = "waiting"
      <4>1. step[e] = "empty" /\ UNCHANGED <<refs, set, waker, queued>>
        <5>1. step'[f] = "waiting"
          BY <1>4, <3>2
        <5> QED BY <1>0, <1>6, <2>6, <5>1 DEF EndPoll, Ready, Goto, graph, Types
      <4>2. step[e] \in {"registered", "empty", "waiting"} => waker[e] \/ queued[e]
        BY <1>0 DEF Wakeful
      <4>3. waker'[e] \/ queued'[e]
        BY <4>1, <4>2
      <4>4. ~queued[e] => ~set[e] \/ \E a \in Actors : Does(a, Item("wake", e))
        BY <1>0, <4>1 DEF Wakeful
      <4>5. ASSUME \E a \in Actors : Does(a, Item("wake", e))
            PROVE  \E a \in Actors : Does(a, Item("wake", e))'
        BY <1>1, <1>2, <4>5 DEF Does
      <4>6. ~queued'[e] => ~set'[e] \/ \E a \in Actors : Does(a, Item("wake", e))'
        BY <4>1, <4>4, <4>5
      <4>7. ASSUME refs'[e] = {} PROVE Does(e, Item("close", e))'
        <5>1. Call(f, <<Item("close", f)>>)
          BY <1>6, <2>6, <4>1, <4>7 DEF EndPoll
        <5>2. todo'[e] = <<Item("close", e)>>
          BY <1>0, <1>6, <5>1 DEF Call
        <5> QED BY <5>2 DEF Does
      <4>8. refs'[e] = {} => \E a \in Actors : Does(a, Item("close", e))'
        BY <1>0, <1>6, <4>7
      <4> QED BY <4>3, <4>6, <4>8, Zenon DEF Wakeful
    <3> QED BY <3>1, <3>2
  <2> QED BY <2>2, <2>3, <2>4, <2>5, <2>6 DEF Task, Poll
<1> QED BY <1>5, <1>6

\* What the function of the outer effect does.
LEMMA NestedWakeful ==
  ASSUME TypeInv, WakeInv, NEW f \in Effects, Nested(f), NEW e \in Effects
  PROVE  Wakeful(e)'
<1>0. /\ todo \in [Actors -> Seq(StackItems)] /\ Wakeful(e) /\ Types
  BY DEF TypeInv, Stacks, WakeInv
<1>1. PICK i \in Inner : SpawnEffect(f, i) \/ SpawnRenderEffect(f, i) \/ DropHandle(f, i)
  BY DEF Nested
<1>2. todo[f] = <<>> /\ \A b \in Actors \ {f} : todo'[b] = todo[b]
  BY <1>0, <1>1 DEF SpawnEffect, SpawnRenderEffect, DropHandle, Ready, Call
<1>3. \A x : ~Does(f, x)
  BY <1>2 DEF Does
<1>4. CASE DropHandle(f, i)
  <2>1. UNCHANGED <<step, refs, set, waker, queued>>
    BY <1>4 DEF DropHandle, graph
  <2> QED BY <1>0, <1>2, <1>3, <2>1, StillWakeful
<1>5. CASE SpawnEffect(f, i) \/ SpawnRenderEffect(f, i)
  <2>1. /\ waker' = waker /\ queued' = [queued EXCEPT ![i] = TRUE]
        /\ set' = set \/ set' = [set EXCEPT ![i] = TRUE]
        /\ step' = [step EXCEPT ![i] = "waiting"] /\ refs' = [refs EXCEPT ![i] = {Store}]
    BY <1>5, Zenon DEF SpawnEffect, SpawnRenderEffect
  <2>2. CASE e # i
    <3>1. /\ step'[e] = step[e] /\ waker'[e] = waker[e] /\ queued'[e] = queued[e]
          /\ set'[e] = set[e] /\ refs'[e] = refs[e]
      BY <1>0, <2>1, <2>2 DEF Types
    <3> QED BY <1>0, <1>2, <1>3, <3>1, StillWakeful
  <2>3. CASE e = i
    <3>1. queued'[e] = TRUE
      BY <1>0, <2>1, <2>3, Zenon DEF Types
    <3> QED BY <3>1, Zenon DEF Wakeful
  <2> QED BY <2>2, <2>3
<1> QED BY <1>1, <1>4, <1>5

LEMMA AlwaysWakeful == Spec => []WakeInv
<1>1. Init => WakeInv
  <2> SUFFICES ASSUME Init, NEW e \in Effects PROVE Wakeful(e)
    BY DEF WakeInv
  <2>1. CASE e = Outer
    <3>1. queued[e] = TRUE
      BY <2>1, Zenon DEF Init
    <3> QED BY <3>1, Zenon DEF Wakeful
  <2>2. CASE e # Outer
    <3>1. step[e] = "none"
      BY <2>2 DEF Init
    <3> QED BY <3>1 DEF Wakeful
  <2> QED BY <2>1, <2>2
<1>2. TypeInv /\ WakeInv /\ [Next]_vars => WakeInv'
  <2> SUFFICES ASSUME TypeInv, WakeInv, [Next]_vars, NEW e \in Effects PROVE Wakeful(e)'
    BY DEF WakeInv
  <2>1. CASE UNCHANGED vars
    <3>1. UNCHANGED <<step, refs, set, waker, queued, todo>> /\ Wakeful(e)
      BY <2>1 DEF vars, graph, WakeInv
    <3> QED BY <3>1, Zenon DEF Wakeful, Does
  <2>2. ASSUME NEW f \in Effects, Task(f) \/ Nested(f) PROVE Wakeful(e)'
    BY <2>2, TaskWakeful, NestedWakeful
  <2> QED BY <2>1, <2>2, NextCases, ContinueWakeful, ThreadWakeful
<1> QED BY <1>1, <1>2, AlwaysTyped, PTL DEF Spec

\* However marks, drops of the last reference and polls come together, a task that waits and was
\* not woken has nothing to wait for but a wake that is on its way (channel.rs: the waker is
\* registered before the flag is read, notify raises the flag before it wakes, and the channel
\* wakes when it is dropped).
THEOREM WakeupsArrive == Spec => []NoLostWakeup
<1>1. WakeInv => NoLostWakeup
  <2> SUFFICES ASSUME NEW e \in Effects, Wakeful(e), step[e] = "waiting", ~queued[e]
               PROVE  \/ refs[e] # {} /\ ~set[e] /\ waker[e]
                      \/ \E a \in Actors :
                           todo[a] # <<>> /\ Head(todo[a]) \in {Item("wake", e), Item("close", e)}
    BY DEF WakeInv, NoLostWakeup
  <2>1. waker[e] \/ queued[e]
    BY DEF Wakeful
  <2>2. ~set[e] \/ \E a \in Actors : Does(a, Item("wake", e))
    BY DEF Wakeful
  <2>3. refs[e] = {} => \E a \in Actors : Does(a, Item("close", e))
    BY DEF Wakeful
  <2> QED BY <2>1, <2>2, <2>3 DEF Does
<1> QED BY <1>1, AlwaysWakeful, PTL
=============================================================================
