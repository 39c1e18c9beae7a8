--------------------------- MODULE CleanupProofs ---------------------------
(***************************************************************************)
(* Every cleanup function that a run registers is in one place: with its   *)
(* owner, on the stack of the one actor that took it, or it has run.  On   *)
(* one thread, moreover, what is disposed of does not run again, because   *)
(* whatever the arena still has of an earlier run is about to be removed   *)
(* from it; and the cleanups of nested effects run before those of the run *)
(* that created them, because they are above them on every stack.          *)
(***************************************************************************)
EXTENDS LifecycleProofs

-----------------------------------------------------------------------------
(* The inductive invariant *)

\* A stack has no item to run a function twice, a list has nothing twice.
Once(s) == \A j, k \in 1..Len(s) : s[j] = s[k] /\ s[j][1] = "run" => j = k
Distinct(s) == \A j, k \in 1..Len(s) : s[j] = s[k] => j = k

OnStack(a, e, r) == <<"run", e, r>> \in ToSet(todo[a])
Accounted(e, r) ==
  /\ ran[e][r] <= 1 /\ (r > runs[e] => ran[e][r] = 0)
  /\ r \in ToSet(own[e].cleanups) => ran[e][r] = 0 /\ \A a \in Actors : ~OnStack(a, e, r)
  /\ \A a \in Actors : OnStack(a, e, r) =>
       ran[e][r] = 0 /\ \A b \in Actors \ {a} : ~OnStack(b, e, r)
  /\ r <= runs[e] =>
       ran[e][r] = 1 \/ r \in ToSet(own[e].cleanups) \/ \E a \in Actors : OnStack(a, e, r)
CleanInv ==
  /\ \A a \in Actors : Once(todo[a])
  /\ \A e \in Effects : Distinct(own[e].cleanups)
  /\ \A e \in Effects, r \in Runs : Accounted(e, r)

-----------------------------------------------------------------------------
(* Stacks *)

LEMMA OncePushed ==
  ASSUME NEW S, NEW s \in Seq(S), s # <<>>, NEW t \in Seq(S), NEW u, u = t \o Tail(s),
         Once(s), Once(t), \A x \in ToSet(t) : x[1] = "run" => x \notin ToSet(s)
  PROVE  Once(u)
<1>1. /\ u \in Seq(S) /\ Len(u) = Len(t) + Len(s) - 1
      /\ \A k \in 1..Len(u) : u[k] = IF k <= Len(t) THEN t[k] ELSE s[k - Len(t) + 1]
  BY Replaced
<1>2. Len(s) \in Nat /\ Len(t) \in Nat
  OBVIOUS
<1>3. ASSUME NEW k \in 1..Len(u), k <= Len(t)
      PROVE  k \in 1..Len(t) /\ u[k] = t[k] /\ u[k] \in ToSet(t)
  <2>1. k \in 1..Len(t) /\ u[k] = t[k]
    BY <1>1, <1>2, <1>3
  <2> QED BY <2>1, Elements
<1>4. ASSUME NEW k \in 1..Len(u), ~(k <= Len(t))
      PROVE  /\ k - Len(t) + 1 \in 1..Len(s) /\ u[k] = s[k - Len(t) + 1] /\ u[k] \in ToSet(s)
  <2>1. k - Len(t) + 1 \in 1..Len(s) /\ u[k] = s[k - Len(t) + 1]
    BY <1>1, <1>2, <1>4
  <2> QED BY <2>1, Elements
<1>5. ASSUME NEW j \in 1..Len(u), NEW k \in 1..Len(u), u[j] = u[k], u[j][1] = "run" PROVE j = k
  <2>1. CASE j <= Len(t) /\ k <= Len(t)
    BY <1>3, <1>5, <2>1 DEF Once
  <2>2. CASE j <= Len(t) /\ ~(k <= Len(t))
    BY <1>3, <1>4, <1>5, <2>2
  <2>3. CASE ~(j <= Len(t)) /\ k <= Len(t)
    BY <1>3, <1>4, <1>5, <2>3
  <2>4. CASE ~(j <= Len(t)) /\ ~(k <= Len(t))
    <3>1. PICK m \in 1..Len(s) : m = j - Len(t) + 1 /\ u[j] = s[m]
      BY <1>4, <1>5, <2>4
    <3>2. PICK n \in 1..Len(s) : n = k - Len(t) + 1 /\ u[k] = s[n]
      BY <1>4, <1>5, <2>4
    <3>3. m = n
      BY <1>5, <3>1, <3>2 DEF Once
    <3> QED BY <1>1, <1>2, <3>1, <3>2, <3>3
  <2> QED BY <2>1, <2>2, <2>3, <2>4
<1> QED BY <1>5 DEF Once

\* What was only once on the stack is not there when it is done and what follows it runs nothing.
LEMMA PoppedOnce ==
  ASSUME NEW S, NEW s \in Seq(S), s # <<>>, NEW t \in Seq(S), \A x \in ToSet(t) : x[1] # "run",
         NEW u, u = t \o Tail(s), Once(s), Head(s)[1] = "run"
  PROVE  /\ Once(u) /\ Head(s) \notin ToSet(u)
         /\ \A x : x # Head(s) /\ x[1] = "run" => (x \in ToSet(u) <=> x \in ToSet(s))
<1>1. \A k \in 1..Len(t) : t[k] \in ToSet(t)
  BY Elements
<1>2. Once(u)
  <2>0. \A k \in 1..Len(t) : t[k][1] # "run"
    BY <1>1
  <2>1. Once(t)
    BY <2>0 DEF Once
  <2>2. \A x \in ToSet(t) : x[1] = "run" => x \notin ToSet(s)
    OBVIOUS
  <2> QED BY <2>1, <2>2, OncePushed
<1>3. /\ u \in Seq(S) /\ Len(u) = Len(t) + Len(s) - 1
      /\ \A k \in 1..Len(u) : u[k] = IF k <= Len(t) THEN t[k] ELSE s[k - Len(t) + 1]
  BY Replaced
<1>4. Len(t) \in Nat /\ Len(s) \in Nat
  OBVIOUS
<1>5. ASSUME Head(s) \in ToSet(u) PROVE FALSE
  <2>0. \A x \in ToSet(u) : \E k \in 1..Len(u) : x = u[k]
    <3>1. u \in Seq(S)
      BY <1>3
    <3> QED BY ONLY <3>1, Elements
  <2>1. PICK k \in 1..Len(u) : Head(s) = u[k]
    BY <1>5, <2>0
  <2>2. CASE k <= Len(t)
    <3>1. k \in 1..Len(t) /\ u[k] = t[k]
      BY <1>3, <1>4, <2>1, <2>2
    <3> QED BY <1>1, <2>1, <3>1
  <2>3. CASE ~(k <= Len(t))
    <3>1. PICK m : m = k - Len(t) + 1
      OBVIOUS
    <3>2. m \in 1..Len(s) /\ m # 1 /\ u[k] = s[m] /\ 1 \in 1..Len(s)
      BY <1>3, <1>4, <2>1, <2>3, <3>1
    <3>3. s[m] = s[1] /\ s[m][1] = "run"
      BY <2>1, <3>2
    <3> QED BY <3>2, <3>3 DEF Once
  <2> QED BY <2>2, <2>3
<1>6. /\ ToSet(u) \subseteq ToSet(t) \cup ToSet(s)
      /\ \A x \in ToSet(s) : x = Head(s) \/ x \in ToSet(u)
  BY ReplacedElements
<1> QED BY <1>2, <1>5, <1>6

LEMMA OnceAppended ==
  ASSUME NEW S, NEW s \in Seq(S), NEW x \in S, Once(s), x[1] # "run"
  PROVE  Once(s \o <<x>>)
<1> DEFINE u == s \o <<x>>
<1>1. u \in Seq(S) /\ Len(u) = Len(s) + 1 /\ u[Len(s) + 1] = x
  OBVIOUS
<1>2. \A k \in 1..Len(s) : u[k] = s[k]
  OBVIOUS
<1>3. Len(s) \in Nat
  OBVIOUS
<1> HIDE DEF u
<1>4. ASSUME NEW j \in 1..Len(u), NEW k \in 1..Len(u), u[j] = u[k], u[j][1] = "run" PROVE j = k
  <2>1. j \in 1..Len(s) /\ k \in 1..Len(s)
    BY <1>1, <1>3, <1>4
  <2> QED BY <1>2, <1>4, <2>1 DEF Once
<1> QED BY <1>4 DEF Once, u

\* What is taken from an owner is to be run once.
LEMMA OnceTaken ==
  ASSUME Stacks, OwnOK, NEW o \in Owners, Distinct(own[o].cleanups)
  PROVE  Once(CleanupOrder(o))
<1> DEFINE c == Len(own[o].children)
           n == Len(own[o].cleanups)
           q == CleanupOrder(o)
<1>1. c \in Nat /\ n \in Nat
  BY DEF Stacks, OwnerTypes
<1>2. /\ q \in Seq(StackItems)
      /\ own[o].nodes = <<>> => Len(q) = c + n
      /\ own[o].nodes # <<>> => Len(q) = c + n + 1 /\ q[c + n + 1] = Item("remove", own[o].nodes)
      /\ \A k \in 1..c : q[k] = Item("cleanup", own[o].children[k])
      /\ \A k \in 1..n : q[c + k] = <<"run", o, own[o].cleanups[k]>>
  BY CleanupPlaces
<1>3. \A j, k \in 1..n : own[o].cleanups[j] = own[o].cleanups[k] => j = k
  BY DEF Distinct
<1> HIDE DEF q, c, n
<1>4. ASSUME NEW k \in 1..Len(q), q[k][1] = "run"
      PROVE  k - c \in 1..n /\ q[k] = <<"run", o, own[o].cleanups[k - c]>>
  <2>1. k \notin 1..c
    BY <1>2, <1>4 DEF Item
  <2>2. k # c + n + 1
    <3>1. ASSUME k = c + n + 1 PROVE FALSE
      <4>1. own[o].nodes # <<>>
        BY <1>1, <1>2, <3>1
      <4>2. q[k] = Item("remove", own[o].nodes)
        BY <1>2, <3>1, <4>1
      <4> QED BY <1>4, <4>2 DEF Item
    <3> QED BY <3>1
  <2>3. k - c \in 1..n
    BY <1>1, <1>2, <2>1, <2>2
  <2>4. PICK m : m = k - c
    OBVIOUS
  <2>5. m \in 1..n /\ c + m = k
    BY <1>1, <2>3, <2>4
  <2>6. q[c + m] = <<"run", o, own[o].cleanups[m]>>
    BY <1>2, <2>5
  <2> QED BY <2>4, <2>5, <2>6
<1>5. ASSUME NEW j \in 1..Len(q), NEW k \in 1..Len(q), q[j] = q[k], q[j][1] = "run" PROVE j = k
  <2>1. /\ j - c \in 1..n /\ q[j] = <<"run", o, own[o].cleanups[j - c]>>
        /\ k - c \in 1..n /\ q[k] = <<"run", o, own[o].cleanups[k - c]>>
    BY <1>4, <1>5
  <2>0. \A x, y : <<"run", o, x>> = <<"run", o, y>> => x = y
    OBVIOUS
  <2>2. own[o].cleanups[j - c] = own[o].cleanups[k - c]
    BY <1>5, <2>0, <2>1
  <2>3. j - c = k - c
    BY <1>3, <2>1, <2>2
  <2> QED BY <1>1, <2>3
<1> QED BY <1>5 DEF Once, q

-----------------------------------------------------------------------------
(* What a step does to the functions that are on a stack *)

OthersStay(a) == \A b \in Actors \ {a} : todo'[b] = todo[b]
RunsStay(a) ==
  /\ OthersStay(a) /\ Once(todo'[a])
  /\ \A e \in Effects, r \in Runs : OnStack(a, e, r)' <=> OnStack(a, e, r)
RunsTaken(a, o) ==
  /\ OthersStay(a) /\ Once(todo'[a])
  /\ \A e \in Effects, r \in Runs :
       OnStack(a, e, r)' <=> OnStack(a, e, r) \/ (e = o /\ r \in ToSet(own[o].cleanups))

\* A function that has run has run, and one that leaves a stack has run.
Kept ==
  \A e \in Effects, r \in Runs :
    /\ ran[e][r] = 1 => ran'[e][r] = 1
    /\ \A a \in Actors : OnStack(a, e, r) => OnStack(a, e, r)' \/ ran'[e][r] = 1

LEMMA StacksStay ==
  ASSUME NEW a, OthersStay(a), NEW b \in Actors \ {a}, NEW e, NEW r
  PROVE  OnStack(b, e, r)' <=> OnStack(b, e, r)
<1>1. todo'[b] = todo[b]
  BY DEF OthersStay
<1> QED BY <1>1 DEF OnStack

LEMMA SameRuns ==
  ASSUME TypeInv, CleanInv, NEW a \in Actors, RunsStay(a), UNCHANGED <<ran, runs>>,
         \A e \in Effects : own'[e].cleanups = own[e].cleanups
  PROVE  CleanInv' /\ Kept
<1>1. \A b \in Actors, e \in Effects, r \in Runs : OnStack(b, e, r)' <=> OnStack(b, e, r)
  BY StacksStay DEF RunsStay
<1>2. \A b \in Actors : Once(todo'[b])
  BY DEF RunsStay, OthersStay, CleanInv
<1>3. \A e \in Effects : Distinct(own'[e].cleanups)
  BY DEF CleanInv
<1>4. ASSUME NEW e \in Effects, NEW r \in Runs PROVE Accounted(e, r)'
  <2>1. Accounted(e, r)
    BY DEF CleanInv
  <2> QED BY <1>1, <2>1 DEF Accounted
<1>5. Kept
  BY <1>1 DEF Kept
<1> QED BY <1>2, <1>3, <1>4, <1>5 DEF CleanInv

LEMMA TakenRuns ==
  ASSUME TypeInv, CleanInv, NEW a \in Actors, NEW o \in Owners, RunsTaken(a, o), own' = Taken(o),
         UNCHANGED <<ran, runs>>
  PROVE  CleanInv' /\ Kept
<1>0. /\ own'[o].cleanups = <<>> /\ \A p \in Owners \ {o} : own'[p] = own[p]
      /\ Effects \subseteq Owners /\ ToSet(<<>>) = {}
  BY TakenLeaves, NoItem DEF TypeInv, Owners
<1>1. \A b \in Actors \ {a}, e \in Effects, r \in Runs : OnStack(b, e, r)' <=> OnStack(b, e, r)
  BY StacksStay DEF RunsTaken
<1>2. \A b \in Actors : Once(todo'[b])
  BY DEF RunsTaken, OthersStay, CleanInv
<1>3. \A e \in Effects : Distinct(own'[e].cleanups)
  <2>1. Distinct(<<>>)
    BY DEF Distinct
  <2> QED BY <1>0, <2>1 DEF CleanInv
<1>4. \A e \in Effects, r \in Runs :
        OnStack(a, e, r)' <=> OnStack(a, e, r) \/ (e = o /\ r \in ToSet(own[o].cleanups))
  BY DEF RunsTaken
<1>5. ASSUME NEW e \in Effects, NEW r \in Runs PROVE Accounted(e, r)'
  <2>1. Accounted(e, r)
    BY DEF CleanInv
  <2>2. CASE e # o
    <3>1. own'[e] = own[e]
      BY <1>0, <2>2
    <3>2. \A b \in Actors : OnStack(b, e, r)' <=> OnStack(b, e, r)
      BY <1>1, <1>4, <2>2
    <3> QED BY <2>1, <3>1, <3>2 DEF Accounted
  <2>3. CASE e = o
    <3>1. r \notin ToSet(own'[e].cleanups)
      BY <1>0, <2>3
    <3>2. CASE r \in ToSet(own[e].cleanups)
      <4>1. ran[e][r] = 0 /\ \A b \in Actors : ~OnStack(b, e, r)
        BY <2>1, <3>2 DEF Accounted
      <4>2. OnStack(a, e, r)' /\ \A b \in Actors \ {a} : ~OnStack(b, e, r)'
        BY <1>1, <1>4, <2>3, <3>2, <4>1
      <4> QED BY <2>1, <3>1, <4>1, <4>2 DEF Accounted
    <3>3. CASE r \notin ToSet(own[e].cleanups)
      <4>1. \A b \in Actors : OnStack(b, e, r)' <=> OnStack(b, e, r)
        BY <1>1, <1>4, <2>3, <3>3
      <4> QED BY <2>1, <3>1, <3>3, <4>1 DEF Accounted
    <3> QED BY <3>2, <3>3
  <2> QED BY <2>2, <2>3
<1>6. Kept
  BY <1>1, <1>4 DEF Kept
<1> QED BY <1>2, <1>3, <1>5, <1>6 DEF CleanInv

LEMMA PushedRuns ==
  ASSUME TypeInv, CleanInv, NEW a \in Actors, todo[a] # <<>>, Head(todo[a])[1] # "run",
         NEW items \in Seq(StackItems), Then(a, items), \A x \in ToSet(items) : x[1] # "run"
  PROVE  RunsStay(a)
<1>1. /\ todo'[a] = items \o Tail(todo[a])
      /\ \A b \in Actors \ {a} : todo'[b] = todo[b]
      /\ ToSet(todo'[a]) \subseteq ToSet(items) \cup ToSet(todo[a])
      /\ \A x \in ToSet(todo[a]) : x = Head(todo[a]) \/ x \in ToSet(todo'[a])
  BY Pushed DEF TypeInv
<1>2. todo[a] \in Seq(StackItems) /\ Once(todo[a])
  BY DEF TypeInv, Stacks, CleanInv
<1>3. Once(items)
  <2>1. \A k \in 1..Len(items) : items[k] \in ToSet(items)
    BY Elements
  <2> QED BY <2>1 DEF Once
<1>4. Once(todo'[a])
  BY <1>1, <1>2, <1>3, OncePushed
<1>5. \A e \in Effects, r \in Runs : <<"run", e, r>>[1] = "run"
  OBVIOUS
<1>6. \A e \in Effects, r \in Runs : OnStack(a, e, r)' <=> OnStack(a, e, r)
  BY <1>1, <1>5 DEF OnStack
<1> QED BY <1>1, <1>4, <1>6 DEF RunsStay, OthersStay

LEMMA SetUpRuns ==
  ASSUME TypeInv, NEW a \in Actors, todo[a] = <<>>,
         NEW items \in Seq(StackItems), Call(a, items), \A x \in ToSet(items) : x[1] # "run"
  PROVE  RunsStay(a)
<1>1. todo'[a] = items /\ \A b \in Actors \ {a} : todo'[b] = todo[b]
  BY SetUp DEF TypeInv
<1>2. Once(items)
  <2>1. \A k \in 1..Len(items) : items[k] \in ToSet(items)
    BY Elements
  <2> QED BY <2>1 DEF Once
<1>3. \A e \in Effects, r \in Runs : <<"run", e, r>>[1] = "run"
  OBVIOUS
<1>4. \A e \in Effects, r \in Runs : OnStack(a, e, r)' <=> OnStack(a, e, r)
  BY <1>1, <1>3, NoItem DEF OnStack
<1> QED BY <1>1, <1>2, <1>4 DEF RunsStay, OthersStay

LEMMA UntouchedRuns ==
  ASSUME CleanInv, UNCHANGED todo, NEW a \in Actors
  PROVE  RunsStay(a)
BY DEF RunsStay, OthersStay, OnStack, CleanInv

\* The functions on a stack that comes from an owner are that owner's.
LEMMA TakenElements ==
  ASSUME TypeInv, NEW o \in Owners, NEW e \in Effects, NEW r \in Runs
  PROVE  <<"run", e, r>> \in ToSet(CleanupOrder(o)) <=> e = o /\ r \in ToSet(own[o].cleanups)
<1>1. /\ \A x \in ToSet(CleanupOrder(o)) :
           \/ \E y \in ToSet(own[o].children) : x = Item("cleanup", y)
           \/ \E q \in ToSet(own[o].cleanups) : x = <<"run", o, q>>
           \/ own[o].nodes # <<>> /\ x = Item("remove", own[o].nodes)
      /\ \A q \in ToSet(own[o].cleanups) : <<"run", o, q>> \in ToSet(CleanupOrder(o))
  BY CleanupElements DEF TypeInv
<1>2. \A y : <<"run", e, r>> # Item("cleanup", y) /\ <<"run", e, r>> # Item("remove", y)
  BY DEF Item
<1>3. \A q : <<"run", e, r>> = <<"run", o, q>> => e = o /\ r = q
  OBVIOUS
<1> QED BY <1>1, <1>2, <1>3

LEMMA PushedTaken ==
  ASSUME TypeInv, CleanInv, NEW a \in Actors, todo[a] # <<>>, Head(todo[a])[1] # "run",
         NEW o \in Effects, NEW items \in Seq(StackItems), Then(a, items), Once(items),
         \A x : x[1] = "run" => (x \in ToSet(items) <=> x \in ToSet(CleanupOrder(o)))
  PROVE  RunsTaken(a, o)
<1>0. o \in Owners
  BY DEF Owners
<1>1. /\ todo'[a] = items \o Tail(todo[a])
      /\ \A b \in Actors \ {a} : todo'[b] = todo[b]
      /\ ToSet(todo'[a]) \subseteq ToSet(items) \cup ToSet(todo[a])
      /\ ToSet(items) \subseteq ToSet(todo'[a])
      /\ \A x \in ToSet(todo[a]) : x = Head(todo[a]) \/ x \in ToSet(todo'[a])
  BY Pushed DEF TypeInv
<1>2. todo[a] \in Seq(StackItems) /\ Once(todo[a])
  BY DEF TypeInv, Stacks, CleanInv
<1>5. ASSUME NEW e \in Effects, NEW r \in Runs
      PROVE  OnStack(a, e, r)' <=> OnStack(a, e, r) \/ (e = o /\ r \in ToSet(own[o].cleanups))
  <2>1. <<"run", e, r>> \in ToSet(CleanupOrder(o)) <=> e = o /\ r \in ToSet(own[o].cleanups)
    BY <1>0, TakenElements
  <2> DEFINE x == <<"run", e, r>>
  <2>2. x[1] = "run"
    OBVIOUS
  <2> HIDE DEF x
  <2>3. x \in ToSet(items) <=> e = o /\ r \in ToSet(own[o].cleanups)
    BY <2>1, <2>2 DEF x
  <2>4. x # Head(todo[a])
    BY <2>2
  <2>5. x \in ToSet(todo'[a]) <=> x \in ToSet(todo[a]) \/ x \in ToSet(items)
    BY <1>1, <2>4
  <2> QED BY <2>3, <2>5 DEF OnStack, x
<1>6. ASSUME NEW x \in ToSet(items), x[1] = "run" PROVE x \notin ToSet(todo[a])
  <2>1. PICK r \in ToSet(own[o].cleanups) : x = <<"run", o, r>>
    <3>1. \A y \in ToSet(CleanupOrder(o)) :
            \/ \E z \in ToSet(own[o].children) : y = Item("cleanup", z)
            \/ \E q \in ToSet(own[o].cleanups) : y = <<"run", o, q>>
            \/ own[o].nodes # <<>> /\ y = Item("remove", own[o].nodes)
      BY <1>0, CleanupElements DEF TypeInv
    <3> QED BY <1>6, <3>1 DEF Item
  <2>2. r \in Runs
    <3>1. own[o].cleanups \in Seq(Runs)
      BY <1>0 DEF TypeInv, Stacks, OwnerTypes
    <3> QED BY <3>1, Elements
  <2>3. ~OnStack(a, o, r)
    BY <2>1, <2>2 DEF CleanInv, Accounted
  <2> QED BY <2>1, <2>3 DEF OnStack
<1>7. Once(todo'[a])
  BY <1>1, <1>2, <1>6, OncePushed
<1> QED BY <1>1, <1>5, <1>7 DEF RunsTaken, OthersStay

LEMMA SetUpTaken ==
  ASSUME TypeInv, CleanInv, NEW a \in Actors, todo[a] = <<>>, NEW o \in Owners,
         CleanupOrder(o) \in Seq(StackItems), Call(a, CleanupOrder(o)), Distinct(own[o].cleanups)
  PROVE  RunsTaken(a, o)
<1>1. todo'[a] = CleanupOrder(o) /\ \A b \in Actors \ {a} : todo'[b] = todo[b]
  BY SetUp DEF TypeInv
<1>2. Once(CleanupOrder(o))
  BY OnceTaken DEF TypeInv
<1>3. ASSUME NEW e \in Effects, NEW r \in Runs
      PROVE  OnStack(a, e, r)' <=> OnStack(a, e, r) \/ (e = o /\ r \in ToSet(own[o].cleanups))
  <2>1. <<"run", e, r>> \in ToSet(CleanupOrder(o)) <=> e = o /\ r \in ToSet(own[o].cleanups)
    BY TakenElements
  <2>2. ~OnStack(a, e, r)
    BY NoItem DEF OnStack
  <2>3. OnStack(a, e, r)' <=> <<"run", e, r>> \in ToSet(CleanupOrder(o))
    BY <1>1 DEF OnStack
  <2> QED BY <2>1, <2>2, <2>3
<1> QED BY <1>1, <1>2, <1>3 DEF RunsTaken, OthersStay

-----------------------------------------------------------------------------
(* The steps *)

\* What a cleanup function calls is to be done next.
LEMMA CleanupCalls ==
  ASSUME NEW a, RunCleanup(a)
  PROVE  \E items \in Seq(StackItems) : Then(a, items) /\ \A x \in ToSet(items) : x[1] = "remove"
<1>1. CASE Then(a, <<>>)
  BY <1>1, NoItem
<1>2. ASSUME NEW e \in Effects, Then(a, <<Item("remove", <<e>>)>>)
      PROVE  \E items \in Seq(StackItems) : Then(a, items) /\ \A x \in ToSet(items) : x[1] = "remove"
  <2>1. <<e>> \in Seq(Effects)
    OBVIOUS
  <2>2. \A q \in Seq(Effects) : Item("remove", q) \in StackItems /\ Item("remove", q)[1] = "remove"
    BY DEF StackItems, Item
  <2>3. PICK x : x = Item("remove", <<e>>)
    OBVIOUS
  <2>4. x \in StackItems /\ x[1] = "remove" /\ Then(a, <<x>>)
    BY <1>2, <2>1, <2>2, <2>3, Zenon
  <2>5. <<x>> \in Seq(StackItems) /\ ToSet(<<x>>) = {x}
    BY <2>4, OneItem
  <2> QED BY <2>4, <2>5
<1> QED BY <1>1, <1>2 DEF RunCleanup

\* A cleanup function runs: it is on no stack any more.
LEMMA RunClean ==
  ASSUME TypeInv, CleanInv, NEW a \in Actors, Continue(a), RunCleanup(a)
  PROVE  CleanInv' /\ Kept
<1>0. /\ Types /\ Stacks /\ StackOK /\ todo[a] # <<>> /\ runs' = runs /\ own' = own
      /\ Head(todo[a])[1] = "run"
  BY DEF TypeInv, Continue, RunCleanup, owners
<1>t. PICK items \in Seq(StackItems) : Then(a, items) /\ \A x \in ToSet(items) : x[1] = "remove"
  BY CleanupCalls
<1>1. PICK o \in Effects, q \in Runs : Head(todo[a]) = <<"run", o, q>> /\ q <= runs[o]
  BY <1>0, HeadItem DEF RunItem
<1>2. ran' = [ran EXCEPT ![o][q] = @ + 1]
  <2>1. Head(todo[a])[2] = o /\ Head(todo[a])[3] = q
    BY <1>1
  <2> QED BY <2>1, Zenon DEF RunCleanup
<1>3. /\ ran'[o][q] = ran[o][q] + 1
      /\ \A e \in Effects, r \in Runs : e # o \/ r # q => ran'[e][r] = ran[e][r]
  <2>1. ran \in [Effects -> [Runs -> Nat]]
    BY <1>0 DEF Types
  <2>2. ran' = [ran EXCEPT ![o] = [ran[o] EXCEPT ![q] = ran[o][q] + 1]]
    BY <1>2, <2>1
  <2> QED BY <2>1, <2>2
<1>4. todo'[a] = items \o Tail(todo[a]) /\ \A b \in Actors \ {a} : todo'[b] = todo[b]
  BY <1>0, <1>t, Pushed
<1>5. /\ Once(todo'[a]) /\ Head(todo[a]) \notin ToSet(todo'[a])
      /\ \A x : x # Head(todo[a]) /\ x[1] = "run" => (x \in ToSet(todo'[a]) <=> x \in ToSet(todo[a]))
  <2>1. todo[a] \in Seq(StackItems) /\ Once(todo[a]) /\ \A x \in ToSet(items) : x[1] # "run"
    BY <1>0, <1>t DEF Stacks, CleanInv
  <2> QED BY <1>0, <1>4, <2>1, PoppedOnce
<1>6. OnStack(a, o, q) /\ ~OnStack(a, o, q)'
  <2>1. Head(todo[a]) \in ToSet(todo[a])
    BY <1>0, HeadItem
  <2> QED BY <1>1, <1>5, <2>1 DEF OnStack
<1>7. OthersStay(a)
  BY <1>4 DEF OthersStay
<1>8. ran[o][q] = 0 /\ (\A b \in Actors \ {a} : ~OnStack(b, o, q)) /\ q \notin ToSet(own[o].cleanups)
  BY <1>6 DEF CleanInv, Accounted
<1>9. ran'[o][q] = 1
  BY <1>3, <1>8
<1>10. ASSUME NEW e \in Effects, NEW r \in Runs, e # o \/ r # q, NEW b \in Actors
       PROVE  OnStack(b, e, r)' <=> OnStack(b, e, r)
  <2>1. CASE b # a
    BY <1>7, <2>1, StacksStay
  <2>2. CASE b = a
    <3>1. <<"run", e, r>> # Head(todo[a]) /\ <<"run", e, r>>[1] = "run"
      BY <1>1, <1>10
    <3> QED BY <1>5, <2>2, <3>1 DEF OnStack
  <2> QED BY <2>1, <2>2
<1>11. ASSUME NEW e \in Effects, NEW r \in Runs PROVE Accounted(e, r)'
  <2>1. CASE e # o \/ r # q
    <3>1. Accounted(e, r) /\ ran'[e][r] = ran[e][r]
      BY <1>3, <2>1 DEF CleanInv
    <3>2. \A b \in Actors : OnStack(b, e, r)' <=> OnStack(b, e, r)
      BY <1>10, <2>1
    <3> QED BY <1>0, <3>1, <3>2 DEF Accounted
  <2>2. CASE e = o /\ r = q
    <3>1. \A b \in Actors : ~OnStack(b, o, q)'
      BY <1>6, <1>7, <1>8, StacksStay
    <3>2. ~(q > runs[o])
      BY <1>0, <1>1 DEF Types, Runs
    <3> QED BY <1>0, <1>8, <1>9, <2>2, <3>1, <3>2 DEF Accounted
  <2> QED BY <2>1, <2>2
<1>12. Kept
  <2> SUFFICES ASSUME NEW e \in Effects, NEW r \in Runs
               PROVE  /\ ran[e][r] = 1 => ran'[e][r] = 1
                      /\ \A b \in Actors : OnStack(b, e, r) => OnStack(b, e, r)' \/ ran'[e][r] = 1
    BY DEF Kept
  <2>1. CASE e = o /\ r = q
    BY <1>9, <2>1
  <2>2. CASE e # o \/ r # q
    BY <1>3, <1>10, <2>2
  <2> QED BY <2>1, <2>2
<1>13. \A b \in Actors : Once(todo'[b])
  BY <1>4, <1>5 DEF CleanInv
<1>14. \A e \in Effects : Distinct(own'[e].cleanups)
  BY <1>0 DEF CleanInv
<1> QED BY <1>11, <1>12, <1>13, <1>14 DEF CleanInv

LEMMA ContinueClean ==
  ASSUME TypeInv, CleanInv, NEW a \in Actors, Continue(a)
  PROVE  CleanInv' /\ Kept
<1> USE LifecycleAssumption DEF LifecycleAssumption
<1>1. Types /\ Stacks /\ StackOK /\ OwnOK
  BY DEF TypeInv
<1>2. todo[a] # <<>> /\ runs' = runs
  BY DEF Continue
<1>3. Owners = {Root} \cup Effects
  BY DEF Owners
<1>4. ASSUME NEW items \in Seq(StackItems), Then(a, items), Head(todo[a])[1] # "run",
             \A x \in ToSet(items) : x[1] # "run", UNCHANGED ran,
             \A e \in Effects : own'[e].cleanups = own[e].cleanups
      PROVE  CleanInv' /\ Kept
  <2>1. RunsStay(a)
    BY <1>2, <1>4, PushedRuns
  <2> QED BY <1>2, <1>4, <2>1, SameRuns
<1>5. ASSUME Then(a, <<>>), UNCHANGED own, UNCHANGED ran, Head(todo[a])[1] # "run"
      PROVE  CleanInv' /\ Kept
  BY <1>4, <1>5, NoItem
<1>6. ASSUME NEW o \in Effects, NEW items \in Seq(StackItems), Then(a, items), Once(items),
             Head(todo[a])[1] # "run", own' = Taken(o), UNCHANGED ran,
             \A x : x[1] = "run" => (x \in ToSet(items) <=> x \in ToSet(CleanupOrder(o)))
      PROVE  CleanInv' /\ Kept
  <2>1. RunsTaken(a, o)
    BY <1>2, <1>6, PushedTaken
  <2> QED BY <1>2, <1>3, <1>6, <2>1, TakenRuns
<1>7. CASE CleanupOwner(a)
  <2>1. Head(todo[a])[1] = "cleanup" /\ UNCHANGED ran
    BY <1>7 DEF CleanupOwner
  <2>2. PICK o \in Effects : Head(todo[a]) = Item("cleanup", o)
    BY <1>1, <1>2, <2>1, HeadItem DEF CleanupItem
  <2>3. Head(todo[a])[2] = o /\ o \in Owners
    BY <1>3, <2>2 DEF Item
  <2>4. CASE held[o] = {}
    BY <1>5, <1>7, <2>1, <2>3, <2>4 DEF CleanupOwner, owners
  <2>5. CASE held[o] # {}
    <3> DEFINE items == CleanupOrder(o) \o <<Item("release", o)>>
    <3>1. Then(a, items) /\ own' = Taken(o)
      BY <1>7, <2>3, <2>5 DEF CleanupOwner
    <3>2. CleanupOrder(o) \in Seq(StackItems)
      BY <1>1, <2>3, CleanupPlaces
    <3>3. Item("release", o) \in StackItems /\ Item("release", o)[1] # "run"
      BY <2>3 DEF StackItems, Kinds, Item
    <3>4. items \in Seq(StackItems) /\ ToSet(items) = ToSet(CleanupOrder(o)) \cup {Item("release", o)}
      BY <3>2, <3>3, AppendedElements
    <3>5. Once(CleanupOrder(o))
      BY <1>1, <2>3, OnceTaken DEF CleanInv
    <3>6. Once(items)
      BY <3>2, <3>3, <3>5, OnceAppended
    <3> HIDE DEF items
    <3>7. \A x : x[1] = "run" => (x \in ToSet(items) <=> x \in ToSet(CleanupOrder(o)))
      BY <3>3, <3>4
    <3> QED BY <1>6, <2>1, <3>1, <3>4, <3>6, <3>7
  <2> QED BY <2>4, <2>5
<1>8. CASE RunCleanup(a)
  BY <1>8, RunClean
<1>9. CASE Release(a)
  <2>1. Head(todo[a])[1] = "release" /\ UNCHANGED ran
    BY <1>9 DEF Release
  <2>2. PICK o \in Effects : Head(todo[a]) = Item("release", o)
    BY <1>1, <1>2, <2>1, HeadItem DEF ReleaseItem
  <2>3. Head(todo[a])[2] = o /\ o \in Owners
    BY <1>3, <2>2 DEF Item
  <2>4. CASE held'[o] # {}
    BY <1>5, <1>9, <2>1, <2>3, <2>4 DEF Release
  <2>5. CASE held'[o] = {}
    <3>1. Then(a, CleanupOrder(o)) /\ own' = Taken(o)
      BY <1>9, <2>3, <2>5 DEF Release
    <3>2. CleanupOrder(o) \in Seq(StackItems)
      BY <1>1, <2>3, CleanupPlaces
    <3>3. Once(CleanupOrder(o))
      BY <1>1, <2>3, OnceTaken DEF CleanInv
    <3> QED BY <1>6, <2>1, <3>1, <3>2, <3>3
  <2> QED BY <2>4, <2>5
<1>10. CASE RemoveNodes(a)
  <2>1. Head(todo[a])[1] = "remove" /\ UNCHANGED ran
    BY <1>10 DEF RemoveNodes
  <2>2. PICK s \in Seq(Effects) : Head(todo[a]) = Item("remove", s)
    BY <1>1, <1>2, <2>1, HeadItem DEF RemoveItem
  <2>3. Head(todo[a])[2] = s
    BY <2>2 DEF Item
  <2> DEFINE items == Items("drop", s)
  <2>4. Then(a, items) /\ UNCHANGED own
    BY <1>10, <2>3 DEF RemoveNodes, owners
  <2>5. /\ items \in Seq(StackItems)
        /\ \A x \in ToSet(items) : \E y \in ToSet(s) : x = Item("drop", y)
    BY <1>3, ListItems DEF Kinds
  <2> HIDE DEF items
  <2>6. \A x \in ToSet(items) : x[1] # "run"
    BY <2>5 DEF Item
  <2> QED BY <1>4, <2>1, <2>4, <2>5, <2>6
<1>11. CASE DropRef(a) \/ CloseChannel(a) \/ NotifyWakes(a) \/ MarkDirty(a)
  <2>1. Head(todo[a])[1] \in {"drop", "close", "wake", "mark"} /\ UNCHANGED <<ran, own>>
    BY <1>11 DEF DropRef, CloseChannel, NotifyWakes, MarkDirty, owners
  <2>2. PICK e \in Effects, k \in {"drop", "close", "wake", "mark"} : Head(todo[a]) = Item(k, e)
    BY <1>1, <1>2, <2>1, HeadItem DEF PlainItem, MarkItem
  <2>3. Head(todo[a])[2] = e
    BY <2>2 DEF Item
  <2>4. PICK x : \/ Then(a, <<>>)
                 \/ Then(a, <<x>>) /\ x \in {Item("close", e), Item("drop", e), Item("wake", e)}
    BY <1>11, <2>3 DEF DropRef, CloseChannel, NotifyWakes, MarkDirty
  <2>5. CASE Then(a, <<x>>) /\ x \in {Item("close", e), Item("drop", e), Item("wake", e)}
    <3>1. x \in StackItems /\ x[1] # "run"
      BY <1>3, <2>5 DEF StackItems, Kinds, Item
    <3>2. <<x>> \in Seq(StackItems) /\ ToSet(<<x>>) = {x}
      BY <3>1, OneItem
    <3> QED BY <1>4, <2>1, <2>5, <3>1, <3>2
  <2> QED BY <1>5, <2>1, <2>4, <2>5
<1>12. CASE PauseOwner(a)
  <2>1. Head(todo[a])[1] \in {"pause", "resume"} /\ UNCHANGED ran
    BY <1>12 DEF PauseOwner
  <2>2. PICK o \in Owners, k \in {"pause", "resume"} : Head(todo[a]) = Item(k, o)
    BY <1>1, <1>2, <2>1, HeadItem DEF PauseItem
  <2>3. Head(todo[a])[2] = o /\ Head(todo[a])[1] = k
    BY <2>2 DEF Item
  <2>4. CASE held[o] = {}
    BY <1>5, <1>12, <2>1, <2>3, <2>4 DEF PauseOwner, owners
  <2>5. CASE held[o] # {}
    <3> DEFINE items == Items(k, Reverse(own[o].children))
    <3>1. Then(a, items) /\ own' = [own EXCEPT ![o].paused = (k = "pause")]
      BY <1>12, <2>3, <2>5 DEF PauseOwner
    <3>2. own[o].children \in Seq(Effects)
      BY <1>1 DEF Stacks, OwnerTypes
    <3>3. Reverse(own[o].children) \in Seq(Effects)
      BY <3>2 DEF Reverse
    <3>4. /\ items \in Seq(StackItems)
          /\ \A x \in ToSet(items) : \E y \in ToSet(Reverse(own[o].children)) : x = Item(k, y)
      BY <1>3, <3>3, ListItems DEF Kinds
    <3> HIDE DEF items
    <3>5. \A x \in ToSet(items) : x[1] # "run"
      BY <2>2, <3>4 DEF Item
    <3>6. \A q \in Owners : own'[q].cleanups = own[q].cleanups
      BY <1>1, <3>1, PausedLeaves
    <3> QED BY <1>3, <1>4, <2>1, <3>1, <3>4, <3>5, <3>6
  <2> QED BY <2>4, <2>5
<1> QED BY <1>7, <1>8, <1>9, <1>10, <1>11, <1>12, ContinueCases

LEMMA ThreadClean ==
  ASSUME TypeInv, CleanInv, NEW t \in Threads, ThreadCall(t)
  PROVE  CleanInv' /\ Kept
<1>0. t \in Actors /\ Owners = {Root} \cup Effects /\ todo[t] = <<>>
  BY DEF Actors, Owners, ThreadCall, Mark, Stop, CleanupRoot, PauseRoot, ResumeRoot
<1>1. ASSUME NEW x \in StackItems, x[1] # "run", Call(t, <<x>>), UNCHANGED <<own, ran, runs>>
      PROVE  CleanInv' /\ Kept
  <2>1. <<x>> \in Seq(StackItems) /\ ToSet(<<x>>) = {x}
    BY OneItem
  <2>2. RunsStay(t)
    BY <1>0, <1>1, <2>1, SetUpRuns
  <2> QED BY <1>0, <1>1, <2>2, SameRuns
<1>2. ASSUME NEW e \in Effects, Mark(t, e) PROVE CleanInv' /\ Kept
  <2>1. Call(t, <<Item("mark", e)>>) /\ UNCHANGED <<own, ran, runs>>
    BY <1>2 DEF Mark, owners, history
  <2>2. Item("mark", e) \in StackItems /\ Item("mark", e)[1] # "run"
    BY <1>0 DEF StackItems, Kinds, Item
  <2> QED BY <1>1, <2>1, <2>2
<1>3. ASSUME NEW e \in Effects, Stop(t, e) PROVE CleanInv' /\ Kept
  <2>1. Call(t, <<Item("remove", <<e>>)>>) /\ UNCHANGED <<own, ran, runs>>
    BY <1>3 DEF Stop, owners, history
  <2>2. <<e>> \in Seq(Effects)
    OBVIOUS
  <2>3. \A s \in Seq(Effects) : Item("remove", s) \in StackItems /\ Item("remove", s)[1] # "run"
    BY DEF StackItems, Item
  <2>4. Item("remove", <<e>>) \in StackItems /\ Item("remove", <<e>>)[1] # "run"
    BY <2>2, <2>3, Zenon
  <2> QED BY <1>1, <2>1, <2>4
<1>4. CASE PauseRoot(t) \/ ResumeRoot(t)
  <2>1. PICK k \in {"pause", "resume"} : Call(t, <<Item(k, Root)>>) /\ UNCHANGED <<own, ran, runs>>
    BY <1>4 DEF PauseRoot, ResumeRoot, owners, history
  <2>2. Item(k, Root) \in StackItems /\ Item(k, Root)[1] # "run"
    BY <1>0 DEF StackItems, Kinds, Item
  <2> QED BY <1>1, <2>1, <2>2
<1>5. CASE CleanupRoot(t)
  <2>1. /\ Call(t, CleanupOrder(Root)) /\ own' = Taken(Root) /\ UNCHANGED <<ran, runs>>
        /\ Root \in Owners
    BY <1>0, <1>5 DEF CleanupRoot, history
  <2>2. CleanupOrder(Root) \in Seq(StackItems)
    BY <2>1, CleanupPlaces DEF TypeInv
  <2>3. Distinct(own[Root].cleanups)
    BY DEF TypeInv, OwnOK, Distinct
  <2>4. RunsTaken(t, Root)
    BY <1>0, <2>1, <2>2, <2>3, SetUpTaken
  <2> QED BY <1>0, <2>1, <2>4, TakenRuns
<1> QED BY <1>2, <1>3, <1>4, <1>5 DEF ThreadCall

\* A function is registered by the run that is about to do its work.
LEMMA Registers ==
  ASSUME TypeInv, CleanInv, NEW e \in Effects, NEW q \in Runs, q = runs[e] + 1,
         UNCHANGED <<todo, ran>>, \A f \in Effects \ {e} : runs'[f] = runs[f], runs'[e] = q,
         \A f \in Effects \ {e} : own'[f].cleanups = own[f].cleanups,
         own'[e].cleanups = own[e].cleanups \o <<q>>
  PROVE  CleanInv' /\ Kept
<1>0. own[e].cleanups \in Seq(Runs) /\ runs[e] \in Nat /\ Runs \subseteq Nat
  BY DEF TypeInv, Stacks, OwnerTypes, Owners, Types, Runs
<1>1. ToSet(own'[e].cleanups) = ToSet(own[e].cleanups) \cup {q}
  BY <1>0, AppendedElements
<1>2. q \notin ToSet(own[e].cleanups)
  <2>1. ToSet(own[e].cleanups) \subseteq 1..runs[e]
    BY DEF TypeInv, OwnOK
  <2> QED BY <1>0, <2>1
<1>3. \A a \in Actors : ~OnStack(a, e, q)
  <2> SUFFICES ASSUME NEW a \in Actors, <<"run", e, q>> \in ToSet(todo[a]) PROVE FALSE
    BY DEF OnStack
  <2>1. ItemOK(a, <<"run", e, q>>)
    BY DEF TypeInv, StackOK
  <2>2. RunItem(<<"run", e, q>>)
    BY <2>1 DEF ItemOK, CleanupItem, ReleaseItem, RemoveItem, PlainItem, MarkItem, PauseItem, Item
  <2>3. q <= runs[e]
    BY <2>2 DEF RunItem
  <2> QED BY <1>0, <2>3
<1>4. ran[e][q] = 0
  BY <1>0 DEF CleanInv, Accounted
<1>5. \A a \in Actors, f \in Effects, r \in Runs : OnStack(a, f, r)' <=> OnStack(a, f, r)
  BY DEF OnStack
<1>6. ASSUME NEW f \in Effects, NEW r \in Runs PROVE Accounted(f, r)'
  <2>0. Accounted(f, r) /\ ran'[f][r] = ran[f][r] /\ r \in Nat
    BY <1>0 DEF CleanInv
  <2>1. CASE f # e
    BY <1>5, <2>0, <2>1 DEF Accounted
  <2>2. CASE f = e /\ r # q
    <3>1. r \in ToSet(own'[f].cleanups) <=> r \in ToSet(own[f].cleanups)
      BY <1>1, <2>2
    <3>2. (r <= runs'[f] <=> r <= runs[f]) /\ (r > runs'[f] => r > runs[f])
      BY <1>0, <2>0, <2>2
    <3> QED BY <1>5, <2>0, <3>1, <3>2 DEF Accounted
  <2>3. CASE f = e /\ r = q
    <3>1. q \in ToSet(own'[e].cleanups) /\ \A a \in Actors : ~OnStack(a, e, q)'
      BY <1>1, <1>3, <1>5
    <3> QED BY <1>0, <1>4, <2>0, <2>3, <3>1 DEF Accounted
  <2> QED BY <2>1, <2>2, <2>3
<1>7. Distinct(own'[e].cleanups)
  <2> DEFINE s == own[e].cleanups
             u == own'[e].cleanups
  <2>1. Len(u) = Len(s) + 1 /\ u[Len(s) + 1] = q /\ Len(s) \in Nat
    BY <1>0
  <2>2. \A k \in 1..Len(s) : u[k] = s[k] /\ s[k] # q
    <3>1. \A k \in 1..Len(s) : u[k] = s[k]
      BY <1>0
    <3>2. \A k \in 1..Len(s) : s[k] \in ToSet(s)
      BY <1>0, Elements
    <3> QED BY <1>2, <3>1, <3>2
  <2>3. \A j, k \in 1..Len(s) : s[j] = s[k] => j = k
    BY DEF CleanInv, Distinct
  <2> HIDE DEF s, u
  <2>4. ASSUME NEW j \in 1..Len(u), NEW k \in 1..Len(u), u[j] = u[k] PROVE j = k
    <3>1. j \in 1..Len(s) \/ j = Len(s) + 1
      BY <2>1
    <3>2. k \in 1..Len(s) \/ k = Len(s) + 1
      BY <2>1
    <3> QED BY <2>1, <2>2, <2>3, <2>4, <3>1, <3>2
  <2> QED BY <2>4 DEF Distinct, u
<1>8. \A f \in Effects : Distinct(own'[f].cleanups)
  BY <1>7 DEF CleanInv
<1>9. \A a \in Actors : Once(todo'[a])
  BY DEF CleanInv
<1>10. Kept
  BY <1>5 DEF Kept
<1> QED BY <1>6, <1>8, <1>9, <1>10 DEF CleanInv

LEMMA TaskClean ==
  ASSUME TypeInv, CleanInv, NEW e \in Effects, Task(e)
  PROVE  CleanInv' /\ Kept
<1> USE LifecycleAssumption DEF LifecycleAssumption
<1>0. e \in Actors /\ e \in Owners /\ Effects \subseteq Owners
  BY DEF Actors, Owners
<1>1. ASSUME UNCHANGED <<todo, own, ran, runs>> PROVE CleanInv' /\ Kept
  BY <1>0, <1>1, UntouchedRuns, SameRuns
<1>2. ASSUME NEW k \in {"close", "drop"}, todo[e] = <<>>, Call(e, <<Item(k, e)>>),
             UNCHANGED <<own, ran, runs>>
      PROVE  CleanInv' /\ Kept
  <2>1. Item(k, e) \in StackItems /\ Item(k, e)[1] # "run"
    BY <1>0 DEF StackItems, Kinds, Item
  <2>2. <<Item(k, e)>> \in Seq(StackItems) /\ ToSet(<<Item(k, e)>>) = {Item(k, e)}
    BY <2>1, OneItem
  <2>3. RunsStay(e)
    BY <1>0, <1>2, <2>1, <2>2, SetUpRuns
  <2> QED BY <1>0, <1>2, <2>3, SameRuns
<1>3. CASE StartPoll(e) \/ Upgrade(e) \/ Register(e) \/ Swap(e) \/ EndBody(e)
  BY <1>1, <1>3 DEF StartPoll, Upgrade, Register, Swap, EndBody, owners, history
<1>4. CASE EndPoll(e)
  <2>1. /\ todo[e] = <<>> /\ UNCHANGED <<own, ran, runs>>
        /\ UNCHANGED todo \/ Call(e, <<Item("close", e)>>)
    BY <1>4 DEF EndPoll, Ready, owners, history
  <2> QED BY <1>1, <1>2, <2>1
<1>5. CASE Check(e)
  <2>1. UNCHANGED <<own, ran, runs>> /\ todo[e] = <<>>
    BY <1>5, CheckEffect
  <2>2. UNCHANGED todo \/ Call(e, <<Item("drop", e)>>)
    BY <1>5 DEF Check
  <2> QED BY <1>1, <1>2, <2>1, <2>2
<1>6. CASE WithCleanup(e)
  <2>1. /\ todo[e] = <<>> /\ Call(e, CleanupOrder(e)) /\ own' = Taken(e)
        /\ UNCHANGED <<ran, runs>>
    BY <1>6 DEF WithCleanup, BeforeRun, Ready, history
  <2>2. CleanupOrder(e) \in Seq(StackItems)
    BY <1>0, CleanupPlaces DEF TypeInv
  <2>3. Distinct(own[e].cleanups)
    BY DEF CleanInv
  <2>4. RunsTaken(e, e)
    BY <1>0, <2>1, <2>2, <2>3, SetUpTaken
  <2> QED BY <1>0, <2>1, <2>4, TakenRuns
<1>7. CASE RunBody(e)
  <2>1. /\ step[e] = "starting" /\ UNCHANGED <<todo, ran>> /\ runs' = [runs EXCEPT ![e] = @ + 1]
        /\ own' = [own EXCEPT ![e].cleanups = Append(@, runs'[e])]
    BY <1>7 DEF RunBody, Ready
  <2>2. runs[e] + 1 \in Runs
    BY <2>1, RoomToRun
  <2>3. runs'[e] = runs[e] + 1 /\ \A f \in Effects \ {e} : runs'[f] = runs[f]
    BY <2>1 DEF TypeInv, Types
  <2>4. PICK q \in Runs : q = runs[e] + 1
    BY <2>2
  <2>5. own' = [own EXCEPT ![e].cleanups = Append(@, q)]
    BY <2>1, <2>3, <2>4
  <2>6. /\ own'[e].cleanups = own[e].cleanups \o <<q>> /\ \A p \in Owners \ {e} : own'[p] = own[p]
    BY <2>5, Registered DEF TypeInv
  <2> QED BY <1>0, <2>1, <2>3, <2>4, <2>6, Registers
<1>8. CASE EndTask(e)
  <2> DEFINE kept == IF e = Outer THEN handles ELSE {}
             more == Items("remove", Singletons(kept))
             items == <<Item("release", e)>> \o more
  <2>1. todo[e] = <<>> /\ Call(e, items) /\ UNCHANGED <<own, ran, runs>>
    BY <1>8 DEF EndTask, Ready, owners, history
  <2>2. kept \subseteq Inner /\ kept \subseteq Effects
    BY DEF TypeInv, Types, Effects
  <2>3. IsFiniteSet(kept)
    BY <2>2, FS_Subset
  <2> HIDE DEF kept
  <2>4. /\ more \in Seq(StackItems)
        /\ \A x \in ToSet(more) : \E i \in kept : x = Item("remove", <<i>>)
    BY <2>2, <2>3, HandleItems
  <2>5. Item("release", e) \in StackItems /\ Item("release", e)[1] # "run"
    BY <1>0 DEF StackItems, Kinds, Item
  <2>6. \A x \in ToSet(more) : x[1] # "run"
    BY <2>4 DEF Item
  <2> HIDE DEF more
  <2>7. /\ items \in Seq(StackItems)
        /\ \A x \in ToSet(items) : x = Item("release", e) \/ x \in ToSet(more)
    BY <2>4, <2>5, PrefixedElements
  <2> HIDE DEF items
  <2>8. RunsStay(e)
    BY <1>0, <2>1, <2>5, <2>6, <2>7, SetUpRuns
  <2> QED BY <1>0, <2>1, <2>8, SameRuns
<1> QED BY <1>3, <1>4, <1>5, <1>6, <1>7, <1>8 DEF Task, Poll

LEMMA NestedClean ==
  ASSUME TypeInv, CleanInv, NEW e \in Effects, Nested(e)
  PROVE  CleanInv' /\ Kept
<1>1. PICK i \in Inner : SpawnEffect(e, i) \/ SpawnRenderEffect(e, i) \/ DropHandle(e, i)
  BY DEF Nested
<1>2. i \in Effects /\ e \in Actors /\ Effects \subseteq Owners /\ Outer \notin Inner
  BY LifecycleAssumption DEF LifecycleAssumption, Effects, Actors, Owners
<1>3. CASE DropHandle(e, i)
  <2>1. /\ todo[e] = <<>> /\ Call(e, <<Item("remove", <<i>>)>>) /\ UNCHANGED <<own, ran, runs>>
    BY <1>3 DEF DropHandle, Ready, owners, history
  <2>2. <<i>> \in Seq(Effects)
    BY <1>2
  <2>3. \A s \in Seq(Effects) : Item("remove", s) \in StackItems /\ Item("remove", s)[1] # "run"
    BY DEF StackItems, Item
  <2>4. Item("remove", <<i>>) \in StackItems /\ Item("remove", <<i>>)[1] # "run"
    BY <2>2, <2>3, Zenon
  <2>5. /\ <<Item("remove", <<i>>)>> \in Seq(StackItems)
        /\ ToSet(<<Item("remove", <<i>>)>>) = {Item("remove", <<i>>)}
    BY <2>4, OneItem
  <2>6. RunsStay(e)
    BY <1>2, <2>1, <2>4, <2>5, SetUpRuns
  <2> QED BY <1>2, <2>1, <2>6, SameRuns
<1>4. CASE SpawnEffect(e, i)
  <2>1. /\ own' = [own EXCEPT ![e].children = Append(@, i), ![e].nodes = Append(@, i)]
        /\ UNCHANGED <<todo, ran, runs>>
    BY <1>4 DEF SpawnEffect
  <2>2. own'[e].cleanups = own[e].cleanups /\ \A p \in Owners \ {e} : own'[p] = own[p]
    BY <1>2, <2>1, Nests DEF TypeInv
  <2> QED BY <1>2, <2>1, <2>2, UntouchedRuns, SameRuns
<1>5. CASE SpawnRenderEffect(e, i)
  <2>1. /\ step[i] = "none" /\ e # i /\ runs' = [runs EXCEPT ![i] = 1] /\ UNCHANGED <<todo, ran>>
        /\ own' = [own EXCEPT ![e].children = Append(@, i), ![i].cleanups = << 1 >>]
    BY <1>2, <1>5 DEF SpawnRenderEffect
  <2>2. /\ own'[e].cleanups = own[e].cleanups /\ own'[i].cleanups = << 1 >>
        /\ \A p \in Owners \ {e, i} : own'[p] = own[p]
    BY <1>2, <2>1, NestsRender DEF TypeInv
  <2>3. runs[i] = 0
    BY <1>2, <2>1 DEF TypeInv, TasksOK
  <2>4. runs'[i] = 1 /\ \A f \in Effects \ {i} : runs'[f] = runs[f]
    BY <1>2, <2>1 DEF TypeInv, Types
  <2>5. own[i].cleanups = <<>>
    <3>1. own[i].cleanups \in Seq(Runs) /\ ToSet(own[i].cleanups) \subseteq 1..0
      BY <1>2, <2>3 DEF TypeInv, Stacks, OwnerTypes, OwnOK
    <3>2. own[i].cleanups # <<>> => Head(own[i].cleanups) \in ToSet(own[i].cleanups)
      BY <3>1, Elements
    <3> QED BY <3>1, <3>2
  <2>6. own'[i].cleanups = own[i].cleanups \o << 1 >>
    BY <2>2, <2>5
  <2>7. 1 \in Runs
    BY LifecycleAssumption DEF LifecycleAssumption, Runs
  <2>8. \A f \in Effects \ {i} : own'[f].cleanups = own[f].cleanups
    BY <1>2, <2>2
  <2>9. PICK q \in Runs : q = 1 /\ q = runs[i] + 1
    BY <2>3, <2>7
  <2>10. runs'[i] = q /\ own'[i].cleanups = own[i].cleanups \o <<q>>
    BY <2>4, <2>6, <2>9
  <2> QED BY <1>2, <2>1, <2>4, <2>8, <2>9, <2>10, Registers
<1> QED BY <1>1, <1>3, <1>4, <1>5

LEMMA CleanNext ==
  ASSUME TypeInv, CleanInv, [Next]_vars
  PROVE  CleanInv' /\ Kept
<1>1. ASSUME NEW e \in Effects, Task(e) \/ Nested(e) PROVE CleanInv' /\ Kept
  BY <1>1, TaskClean, NestedClean
<1>2. CASE UNCHANGED vars
  <2>1. UNCHANGED <<todo, own, ran, runs>> /\ Outer \in Actors
    BY <1>2 DEF vars, owners, history, Actors, Effects
  <2>2. RunsStay(Outer)
    BY <2>1, UntouchedRuns
  <2> QED BY <2>1, <2>2, SameRuns
<1> QED BY <1>1, <1>2, NextCases, ContinueClean, ThreadClean

LEMMA CleanFirst ==
  ASSUME Init
  PROVE  CleanInv
<1>1. /\ \A a \in Actors : todo[a] = <<>>
      /\ \A e \in Effects : runs[e] = 0 /\ \A r \in Runs : ran[e][r] = 0
  BY DEF Init
<1>2. \A e \in Effects : own[e].cleanups = <<>>
  <2>1. \A o \in Effects : own[o] = Empty
    BY LifecycleAssumption DEF LifecycleAssumption, Init, Owners
  <2> QED BY <2>1 DEF Empty
<1>3. Once(<<>>) /\ Distinct(<<>>) /\ ToSet(<<>>) = {}
  BY NoItem DEF Once, Distinct
<1>4. ASSUME NEW e \in Effects, NEW r \in Runs PROVE Accounted(e, r)
  <2>1. \A a \in Actors : ~OnStack(a, e, r)
    BY <1>1, <1>3 DEF OnStack
  <2>2. ~(r <= runs[e])
    BY <1>1 DEF Runs
  <2> QED BY <1>1, <1>2, <1>3, <2>1, <2>2 DEF Accounted
<1> QED BY <1>1, <1>2, <1>3, <1>4 DEF CleanInv

LEMMA AlwaysClean == Spec => []CleanInv
<1>1. Init => CleanInv
  BY CleanFirst
<1>2. TypeInv /\ CleanInv /\ [Next]_vars => CleanInv'
  BY CleanNext
<1> QED BY <1>1, <1>2, AlwaysTyped, PTL DEF Spec

-----------------------------------------------------------------------------
(* What the last run left is over when the function runs again *)

BodyOK(e) ==
  /\ step[e] = "starting" => \A r \in 1..runs[e] : ran[e][r] = 1 \/ OnStack(e, e, r)
  /\ step[e] = "body" => \A r \in 1..(runs[e] - 1) : ran[e][r] = 1
BodyInv == ~native => \A e \in Effects : BodyOK(e)

\* The function begins to be prepared, or begins; otherwise it goes on or is over.
LEMMA BodySteps ==
  ASSUME TypeInv, [Next]_vars, NEW e \in Effects
  PROVE  \/ WithCleanup(e)
         \/ RunBody(e)
         \/ step'[e] \notin {"starting", "body"}
         \/ step'[e] = step[e] /\ runs'[e] = runs[e]
<1> DEFINE Goal == \/ WithCleanup(e)
                   \/ RunBody(e)
                   \/ step'[e] \notin {"starting", "body"}
                   \/ step'[e] = step[e] /\ runs'[e] = runs[e]
<1>0. step \in [Effects -> Steps] /\ runs \in [Effects -> 0..(MaxMarks + 1)]
  BY DEF TypeInv, Types
<1>1. ASSUME NEW a \in Actors, Continue(a) PROVE Goal
  BY <1>1 DEF Continue
<1>2. ASSUME NEW t \in Threads, ThreadCall(t) PROVE Goal
  BY <1>2 DEF ThreadCall, Mark, Stop, CleanupRoot, PauseRoot, ResumeRoot, history
<1>3. ASSUME NEW f \in Effects, Task(f), f # e PROVE Goal
  <2>1. PICK s : step' = [step EXCEPT ![f] = s]
    BY <1>3 DEF Task, Poll, StartPoll, Upgrade, Register, Swap, EndPoll, Check, WithCleanup, RunBody,
                EndBody, EndTask, Goto
  <2>2. step'[e] = step[e]
    BY <1>0, <1>3, <2>1
  <2>3. runs' = runs \/ runs' = [runs EXCEPT ![f] = @ + 1]
    <3>1. CASE Check(f)
      BY <3>1, CheckEffect
    <3> QED BY <1>3, <3>1 DEF Task, Poll, StartPoll, Upgrade, Register, Swap, EndPoll, WithCleanup,
                              RunBody, EndBody, EndTask, history
  <2>4. runs'[e] = runs[e]
    BY <1>0, <1>3, <2>3
  <2> QED BY <2>2, <2>4
<1>4. ASSUME Task(e) PROVE Goal
  <2>1. CASE Check(e)
    <3>1. step'[e] \in {"polling", "cleaning"}
      BY <1>0, <2>1, CheckEffect
    <3> QED BY <3>1
  <2>2. CASE StartPoll(e)
    BY <1>0, <2>2 DEF StartPoll, Goto
  <2>3. CASE Swap(e)
    BY <1>0, <2>3 DEF Swap, Goto
  <2>4. CASE EndPoll(e)
    BY <1>0, <2>4 DEF EndPoll, Goto
  <2>5. CASE Upgrade(e) \/ Register(e) \/ EndBody(e) \/ EndTask(e)
    BY <1>0, <2>5 DEF Upgrade, Register, EndBody, EndTask, Goto
  <2> QED BY <1>4, <2>1, <2>2, <2>3, <2>4, <2>5 DEF Task, Poll
<1>5. ASSUME NEW f \in Effects, Nested(f) PROVE Goal
  <2>1. PICK i \in Inner : SpawnEffect(f, i) \/ SpawnRenderEffect(f, i) \/ DropHandle(f, i)
    BY <1>5 DEF Nested
  <2>2. CASE DropHandle(f, i)
    BY <2>2 DEF DropHandle, history
  <2>3. CASE SpawnEffect(f, i) \/ SpawnRenderEffect(f, i)
    <3>1. /\ step' = [step EXCEPT ![i] = "waiting"]
          /\ runs' = runs \/ runs' = [runs EXCEPT ![i] = 1]
      BY <2>3 DEF SpawnEffect, SpawnRenderEffect
    <3> QED BY <1>0, <3>1
  <2> QED BY <2>1, <2>2, <2>3
<1>6. CASE UNCHANGED vars
  BY <1>6 DEF vars, history
<1> QED BY <1>1, <1>2, <1>3, <1>4, <1>5, <1>6, NextCases

LEMMA NativeStays ==
  ASSUME [Next]_vars
  PROVE  native' = native
<1>1. ASSUME NEW e \in Effects, Task(e) PROVE native' = native
  <2>1. CASE Check(e)
    BY <2>1, CheckEffect
  <2> QED BY <1>1, <2>1 DEF Task, Poll, StartPoll, Upgrade, Register, Swap, EndPoll, WithCleanup,
                            RunBody, EndBody, EndTask
<1>2. ASSUME NEW e \in Effects, Nested(e) PROVE native' = native
  BY <1>2 DEF Nested, SpawnEffect, SpawnRenderEffect, DropHandle
<1>3. ASSUME NEW t \in Threads, ThreadCall(t) PROVE native' = native
  BY <1>3 DEF ThreadCall, Mark, Stop, CleanupRoot, PauseRoot, ResumeRoot
<1>4. ASSUME NEW a \in Actors, Continue(a) PROVE native' = native
  BY <1>4 DEF Continue
<1> QED BY <1>1, <1>2, <1>3, <1>4, NextCases DEF vars

LEMMA BodyNext ==
  ASSUME TypeInv, CleanInv, BodyInv, [Next]_vars
  PROVE  BodyInv'
<1> SUFFICES ASSUME ~native, NEW e \in Effects PROVE BodyOK(e)'
  BY NativeStays DEF BodyInv
<1>0. BodyOK(e) /\ Kept /\ runs[e] \in 0..(MaxMarks + 1) /\ MaxMarks \in Nat
      /\ runs'[e] \in 0..(MaxMarks + 1)
  BY CleanNext, TypesKept, LifecycleAssumption DEF LifecycleAssumption, BodyInv, TypeInv, Types
<1>1. \A r \in 1..runs[e] : r \in Runs /\ r \in Nat
  BY <1>0 DEF Runs
<1>2. CASE WithCleanup(e)
  <2>1. /\ todo[e] = <<>> /\ Turn(e) /\ Call(e, CleanupOrder(e)) /\ UNCHANGED <<ran, runs>>
        /\ step' = [step EXCEPT ![e] = "starting"]
    BY <1>2 DEF WithCleanup, BeforeRun, Ready, Goto, history
  <2>2. \A b \in Actors : todo[b] = <<>>
    <3>1. e \notin Threads
      BY LifecycleAssumption DEF LifecycleAssumption
    <3> QED BY <2>1, <3>1 DEF Turn, Resting
  <2>3. ASSUME NEW r \in 1..runs[e] PROVE ran'[e][r] = 1 \/ OnStack(e, e, r)'
    <3>1. Accounted(e, r) /\ r <= runs[e] /\ r \in Runs
      BY <1>0, <1>1 DEF CleanInv
    <3>2. \A b \in Actors : ~OnStack(b, e, r)
      BY <2>2, NoItem DEF OnStack
    <3>3. ran[e][r] = 1 \/ r \in ToSet(own[e].cleanups)
      BY <3>1, <3>2 DEF Accounted
    <3>4. e \in Owners /\ e \in Actors
      BY DEF Owners, Actors
    <3>5. r \in ToSet(own[e].cleanups) => <<"run", e, r>> \in ToSet(CleanupOrder(e))
      BY <3>1, <3>4, TakenElements
    <3>6. todo'[e] = CleanupOrder(e)
      BY <2>1, <3>4 DEF Call, TypeInv, Stacks
    <3> QED BY <2>1, <3>3, <3>5, <3>6 DEF OnStack
  <2>4. step'[e] = "starting"
    BY <2>1 DEF TypeInv, Types
  <2> QED BY <2>1, <2>3, <2>4 DEF BodyOK
<1>3. CASE RunBody(e)
  <2>1. /\ todo[e] = <<>> /\ step[e] = "starting" /\ UNCHANGED ran
        /\ step' = [step EXCEPT ![e] = "body"] /\ runs' = [runs EXCEPT ![e] = @ + 1]
    BY <1>3 DEF RunBody, Ready, Goto
  <2>2. \A r \in 1..runs[e] : ran[e][r] = 1
    <3>1. \A r : ~OnStack(e, e, r)
      BY <2>1, NoItem DEF OnStack
    <3> QED BY <1>0, <2>1, <3>1 DEF BodyOK
  <2>3. step'[e] = "body" /\ runs'[e] - 1 = runs[e]
    BY <1>0, <2>1 DEF TypeInv, Types
  <2> QED BY <2>1, <2>2, <2>3 DEF BodyOK
<1>4. CASE step'[e] \notin {"starting", "body"}
  BY <1>4 DEF BodyOK
<1>5. CASE step'[e] = step[e] /\ runs'[e] = runs[e]
  <2>1. e \in Actors
    BY DEF Actors
  <2>2. ASSUME step[e] = "starting", NEW r \in 1..runs[e]
        PROVE  ran'[e][r] = 1 \/ OnStack(e, e, r)'
    <3>1. ran[e][r] = 1 \/ OnStack(e, e, r)
      BY <1>0, <2>2 DEF BodyOK
    <3> QED BY <1>0, <1>1, <2>1, <3>1 DEF Kept
  <2>3. ASSUME step[e] = "body", NEW r \in 1..(runs[e] - 1) PROVE ran'[e][r] = 1
    <3>1. ran[e][r] = 1 /\ r \in 1..runs[e]
      BY <1>0, <2>3 DEF BodyOK
    <3> QED BY <1>0, <1>1, <3>1 DEF Kept
  <2> QED BY <1>5, <2>2, <2>3 DEF BodyOK
<1> QED BY <1>2, <1>3, <1>4, <1>5, BodySteps

\* No cleanup function of a run runs twice, whichever of a re-run (with_cleanup), a cleanup of an
\* ancestor and the drop of the last reference to the owner (owner.rs) come together, on any
\* number of threads; on one thread the cleanups of all earlier runs are over when the function
\* runs.
THEOREM CleanupsRunOnce == Spec => []CleanedBeforeRun
<1>1. Init => BodyInv
  BY DEF Init, BodyInv, BodyOK
<1>2. TypeInv /\ CleanInv /\ BodyInv /\ [Next]_vars => BodyInv'
  BY BodyNext
<1>3. CleanInv /\ BodyInv => CleanedBeforeRun
  BY DEF CleanInv, Accounted, BodyInv, BodyOK, CleanedBeforeRun
<1> QED BY <1>1, <1>2, <1>3, AlwaysTyped, AlwaysClean, PTL DEF Spec

-----------------------------------------------------------------------------
(* What an actor has to do stays on its stack until it does it *)

SameLists ==
  \A o \in Owners : /\ own'[o].children = own[o].children /\ own'[o].cleanups = own[o].cleanups
                    /\ own'[o].nodes = own[o].nodes

\* What takes the place of the item that an actor deals with: what it took from an owner, or
\* items that clean nothing.
CleansNothing(x) == x[1] \notin {"cleanup", "release", "run"}
Goes(a, o, items) ==
  /\ Then(a, items) /\ own' = Taken(o)
  /\ \/ /\ Head(todo[a]) = Item("cleanup", o) /\ held[o] # {}
        /\ items = CleanupOrder(o) \o <<Item("release", o)>>
     \/ Head(todo[a]) = Item("release", o) /\ items = CleanupOrder(o)
GoesOn(a, items) ==
  /\ Then(a, items) /\ SameLists /\ \A x \in ToSet(items) : CleansNothing(x)
  /\ Head(todo[a])[1] = "cleanup" => held[Head(todo[a])[2]] = {}

LEMMA Moves ==
  ASSUME TypeInv, NEW a \in Actors, Continue(a)
  PROVE  /\ todo[a] # <<>>
         /\ \E items \in Seq(StackItems) : GoesOn(a, items) \/ \E o \in Effects : Goes(a, o, items)
<1>1. Types /\ Stacks /\ StackOK /\ OwnOK /\ Effects \subseteq Owners
  BY DEF TypeInv, Owners
<1>2. todo[a] # <<>>
  BY DEF Continue
<1>3. <<>> \in Seq(StackItems) /\ \A x \in ToSet(<<>>) : CleansNothing(x)
  BY NoItem
<1>4. UNCHANGED own => SameLists
  BY DEF SameLists
<1>5. ASSUME NEW x \in StackItems, CleansNothing(x)
      PROVE  <<x>> \in Seq(StackItems) /\ \A y \in ToSet(<<x>>) : CleansNothing(y)
  BY <1>5, OneItem
<1>6. CASE CleanupOwner(a)
  <2>1. PICK o \in Effects : Head(todo[a]) = Item("cleanup", o)
    BY <1>1, <1>2, <1>6, HeadItem DEF CleanupOwner, CleanupItem
  <2>2. Head(todo[a])[2] = o /\ o \in Owners
    BY <1>1, <2>1 DEF Item
  <2>3. CleanupOrder(o) \in Seq(StackItems)
    BY <1>1, <2>2, CleanupPlaces
  <2>4. Item("release", o) \in StackItems
    BY <2>2 DEF StackItems, Kinds
  <2>5. CleanupOrder(o) \o <<Item("release", o)>> \in Seq(StackItems)
    BY <2>3, <2>4
  <2>6. CASE held[o] = {}
    <3>1. Then(a, <<>>) /\ UNCHANGED own
      BY <1>6, <2>2, <2>6 DEF CleanupOwner, owners
    <3>2. GoesOn(a, <<>>)
      BY <1>3, <1>4, <2>2, <2>6, <3>1 DEF GoesOn
    <3> QED BY <1>2, <1>3, <3>2
  <2>7. CASE held[o] # {}
    <3>1. Then(a, CleanupOrder(o) \o <<Item("release", o)>>) /\ own' = Taken(o)
      BY <1>6, <2>2, <2>7 DEF CleanupOwner
    <3>2. Goes(a, o, CleanupOrder(o) \o <<Item("release", o)>>)
      BY <2>1, <2>7, <3>1 DEF Goes
    <3> QED BY <1>2, <2>5, <3>2
  <2> QED BY <2>6, <2>7
<1>7. CASE CloseChannel(a)
  <2>1. Then(a, <<>>) /\ UNCHANGED own /\ Head(todo[a])[1] # "cleanup"
    BY <1>7 DEF CloseChannel, owners
  <2>2. GoesOn(a, <<>>)
    BY <1>3, <1>4, <2>1 DEF GoesOn
  <2> QED BY <1>2, <1>3, <2>2
<1>13. CASE RunCleanup(a)
  <2>1. UNCHANGED own /\ Head(todo[a])[1] # "cleanup"
    BY <1>13 DEF RunCleanup, owners
  <2>2. PICK items \in Seq(StackItems) : Then(a, items) /\ \A x \in ToSet(items) : x[1] = "remove"
    BY <1>13, CleanupCalls
  <2>3. GoesOn(a, items)
    BY <1>4, <2>1, <2>2 DEF GoesOn, CleansNothing
  <2> QED BY <1>2, <2>2, <2>3
<1>8. CASE Release(a)
  <2>1. PICK o \in Effects : Head(todo[a]) = Item("release", o)
    BY <1>1, <1>2, <1>8, HeadItem DEF Release, ReleaseItem
  <2>2. Head(todo[a])[2] = o /\ o \in Owners /\ Head(todo[a])[1] # "cleanup"
    BY <1>1, <2>1 DEF Item
  <2>3. CleanupOrder(o) \in Seq(StackItems)
    BY <1>1, <2>2, CleanupPlaces
  <2>4. CASE held'[o] = {}
    <3>1. Then(a, CleanupOrder(o)) /\ own' = Taken(o)
      BY <1>8, <2>2, <2>4 DEF Release
    <3>2. Goes(a, o, CleanupOrder(o))
      BY <2>1, <3>1 DEF Goes
    <3> QED BY <1>2, <2>3, <3>2
  <2>5. CASE held'[o] # {}
    <3>1. Then(a, <<>>) /\ UNCHANGED own
      BY <1>8, <2>2, <2>5 DEF Release
    <3>2. GoesOn(a, <<>>)
      BY <1>3, <1>4, <2>2, <3>1 DEF GoesOn
    <3> QED BY <1>2, <1>3, <3>2
  <2> QED BY <2>4, <2>5
<1>9. CASE RemoveNodes(a)
  <2>1. PICK s \in Seq(Effects) : Head(todo[a]) = Item("remove", s)
    BY <1>1, <1>2, <1>9, HeadItem DEF RemoveNodes, RemoveItem
  <2>2. Then(a, Items("drop", s)) /\ UNCHANGED own /\ Head(todo[a])[1] # "cleanup"
    BY <1>9, <2>1 DEF RemoveNodes, Item, owners
  <2>3. /\ Items("drop", s) \in Seq(StackItems)
        /\ \A x \in ToSet(Items("drop", s)) : \E y \in ToSet(s) : x = Item("drop", y)
    BY <1>1, ListItems DEF Kinds
  <2>4. \A y : CleansNothing(Item("drop", y))
    BY DEF CleansNothing, Item
  <2>5. GoesOn(a, Items("drop", s))
    BY <1>4, <2>2, <2>3, <2>4 DEF GoesOn
  <2> QED BY <1>2, <2>3, <2>5
<1>10. CASE DropRef(a) \/ NotifyWakes(a)
  <2>1. PICK e \in Effects : Head(todo[a])[2] = e
    <3>1. PICK e \in Effects, k \in {"drop", "close", "wake"} : Head(todo[a]) = Item(k, e)
      BY <1>1, <1>2, <1>10, HeadItem DEF DropRef, NotifyWakes, PlainItem
    <3> QED BY <3>1 DEF Item
  <2>2. UNCHANGED own /\ Head(todo[a])[1] # "cleanup"
    BY <1>10 DEF DropRef, NotifyWakes, owners
  <2>3. PICK x : Then(a, <<>>) \/ (Then(a, <<x>>) /\ x \in {Item("close", e), Item("drop", e)})
    BY <1>10, <2>1 DEF DropRef, NotifyWakes
  <2>4. Item("close", e) \in StackItems /\ Item("drop", e) \in StackItems
    BY <1>1 DEF StackItems, Kinds
  <2>5. CleansNothing(Item("close", e)) /\ CleansNothing(Item("drop", e))
    BY DEF CleansNothing, Item
  <2>6. CASE Then(a, <<>>)
    BY <1>2, <1>3, <1>4, <2>2, <2>6 DEF GoesOn
  <2>7. CASE Then(a, <<x>>) /\ x \in {Item("close", e), Item("drop", e)}
    <3>1. <<x>> \in Seq(StackItems) /\ \A y \in ToSet(<<x>>) : CleansNothing(y)
      BY <1>5, <2>4, <2>5, <2>7
    <3>2. GoesOn(a, <<x>>)
      BY <1>4, <2>2, <2>7, <3>1 DEF GoesOn
    <3> QED BY <1>2, <3>1, <3>2
  <2> QED BY <2>3, <2>6, <2>7
<1>11. CASE MarkDirty(a)
  <2>1. PICK e \in Effects : Head(todo[a]) = Item("mark", e)
    BY <1>1, <1>2, <1>11, HeadItem DEF MarkDirty, MarkItem
  <2>2. Then(a, <<Item("wake", e)>>) /\ UNCHANGED own /\ Head(todo[a])[1] # "cleanup"
    BY <1>11, <2>1 DEF MarkDirty, Item, owners
  <2>3. Item("wake", e) \in StackItems /\ CleansNothing(Item("wake", e))
    BY <1>1 DEF StackItems, Kinds, CleansNothing, Item
  <2>4. /\ <<Item("wake", e)>> \in Seq(StackItems)
        /\ \A y \in ToSet(<<Item("wake", e)>>) : CleansNothing(y)
    BY <1>5, <2>3
  <2>5. GoesOn(a, <<Item("wake", e)>>)
    BY <1>4, <2>2, <2>4 DEF GoesOn
  <2> QED BY <1>2, <2>4, <2>5
<1>12. CASE PauseOwner(a)
  <2>1. PICK o \in Owners, k \in {"pause", "resume"} : Head(todo[a]) = Item(k, o)
    BY <1>1, <1>2, <1>12, HeadItem DEF PauseOwner, PauseItem
  <2>2. Head(todo[a])[2] = o /\ Head(todo[a])[1] = k /\ Head(todo[a])[1] # "cleanup"
    BY <2>1 DEF Item
  <2>3. CASE held[o] = {}
    <3>1. Then(a, <<>>) /\ UNCHANGED own
      BY <1>12, <2>2, <2>3 DEF PauseOwner, owners
    <3> QED BY <1>2, <1>3, <1>4, <2>2, <3>1 DEF GoesOn
  <2>4. CASE held[o] # {}
    <3> DEFINE items == Items(k, Reverse(own[o].children))
    <3>1. Then(a, items) /\ own' = [own EXCEPT ![o].paused = (k = "pause")]
      BY <1>12, <2>2, <2>4 DEF PauseOwner
    <3>2. own[o].children \in Seq(Effects)
      BY <1>1 DEF Stacks, OwnerTypes
    <3>3. Reverse(own[o].children) \in Seq(Effects)
      BY <3>2 DEF Reverse
    <3>4. /\ items \in Seq(StackItems)
          /\ \A x \in ToSet(items) : \E y \in ToSet(Reverse(own[o].children)) : x = Item(k, y)
      BY <1>1, <3>3, ListItems DEF Kinds
    <3>5. \A y : CleansNothing(Item(k, y))
      BY DEF CleansNothing, Item
    <3>6. SameLists
      BY <1>1, <3>1, PausedLeaves DEF SameLists
    <3> HIDE DEF items
    <3>7. GoesOn(a, items)
      BY <2>2, <3>1, <3>4, <3>5, <3>6 DEF GoesOn
    <3> QED BY <1>2, <3>4, <3>7
  <2> QED BY <2>3, <2>4
<1> QED BY <1>6, <1>7, <1>8, <1>9, <1>10, <1>11, <1>12, <1>13, ContinueCases

LEMMA TakenItems ==
  ASSUME TypeInv, NEW o \in Effects
  PROVE  LET q == CleanupOrder(o)
             p == q \o <<Item("release", o)>>
         IN  /\ q \in Seq(StackItems) /\ p \in Seq(StackItems)
             /\ ToSet(p) = ToSet(q) \cup {Item("release", o)}
             /\ Len(p) = Len(q) + 1 /\ p[Len(q) + 1] = Item("release", o)
             /\ \A k \in 1..Len(q) : p[k] = q[k]
<1> DEFINE q == CleanupOrder(o)
           x == Item("release", o)
           S == StackItems
<1>1. q \in Seq(S)
  BY CleanupPlaces DEF TypeInv, Owners
<1>2. x \in S
  BY DEF StackItems, Kinds, Owners
<1> HIDE DEF q, x, S
<1>3. q \o <<x>> \in Seq(S) /\ ToSet(q \o <<x>>) = ToSet(q) \cup {x}
  BY <1>1, <1>2, AppendedElements
<1>4. /\ Len(q \o <<x>>) = Len(q) + 1 /\ (q \o <<x>>)[Len(q) + 1] = x
      /\ \A k \in 1..Len(q) : (q \o <<x>>)[k] = q[k]
  BY <1>1, <1>2
<1> QED BY <1>1, <1>3, <1>4 DEF q, x, S

LEMMA Pushes ==
  ASSUME TypeInv, NEW a \in Actors, Continue(a)
  PROVE  todo[a] # <<>> /\ \E items \in Seq(StackItems) : Then(a, items)
<1>1. PICK items \in Seq(StackItems) : GoesOn(a, items) \/ \E o \in Effects : Goes(a, o, items)
  BY Moves
<1>2. Then(a, items)
  BY <1>1 DEF GoesOn, Goes
<1> QED BY <1>2, Moves

\* Only who goes on with a call takes an item from a stack, and it is the first one.
LEMMA ItemsWait ==
  ASSUME TypeInv, [Next]_vars, NEW b \in Actors, NEW x \in ToSet(todo[b]), x \notin ToSet(todo'[b])
  PROVE  Continue(b) /\ todo[b] # <<>> /\ x = Head(todo[b])
<1> DEFINE Goal == Continue(b) /\ todo[b] # <<>> /\ x = Head(todo[b])
<1>0. todo \in [Actors -> Seq(StackItems)] /\ Effects \subseteq Actors /\ Threads \subseteq Actors
      /\ todo[b] # <<>>
  BY NoItem DEF TypeInv, Stacks, Actors
<1>1. ASSUME NEW a \in Actors, Continue(a) PROVE Goal
  <2>1. PICK items \in Seq(StackItems) : Then(a, items)
    BY <1>1, Pushes
  <2>2. /\ \A c \in Actors \ {a} : todo'[c] = todo[c]
        /\ \A y \in ToSet(todo[a]) : y = Head(todo[a]) \/ y \in ToSet(todo'[a])
    BY <1>1, <2>1, Pushes, Pushed DEF TypeInv
  <2> QED BY <1>0, <1>1, <2>2
<1>2. ASSUME NEW c \in Actors, todo[c] = <<>>, NEW items, Call(c, items) PROVE FALSE
  <2>1. todo'[b] = todo[b]
    BY <1>0, <1>2 DEF Call
  <2> QED BY <2>1
<1>3. UNCHANGED todo => FALSE
  OBVIOUS
<1>4. ASSUME NEW t \in Threads, ThreadCall(t) PROVE FALSE
  <2>1. todo[t] = <<>> /\ \E items : Call(t, items)
    BY <1>4 DEF ThreadCall, Mark, Stop, CleanupRoot, PauseRoot, ResumeRoot
  <2> QED BY <1>0, <1>2, <2>1
<1>5. ASSUME NEW e \in Effects, Task(e) PROVE FALSE
  <2>1. CASE StartPoll(e) \/ Upgrade(e) \/ Register(e) \/ Swap(e) \/ RunBody(e) \/ EndBody(e)
    BY <1>3, <2>1 DEF StartPoll, Upgrade, Register, Swap, RunBody, EndBody
  <2>2. CASE EndPoll(e) \/ Check(e) \/ WithCleanup(e) \/ EndTask(e)
    <3>1. todo[e] = <<>> /\ (UNCHANGED todo \/ \E items : Call(e, items))
      BY <2>2 DEF EndPoll, Check, WithCleanup, EndTask, Ready
    <3> QED BY <1>0, <1>2, <1>3, <3>1
  <2> QED BY <1>5, <2>1, <2>2 DEF Task, Poll
<1>6. ASSUME NEW e \in Effects, Nested(e) PROVE FALSE
  <2>1. todo[e] = <<>> /\ (UNCHANGED todo \/ \E items : Call(e, items))
    BY <1>6 DEF Nested, SpawnEffect, SpawnRenderEffect, DropHandle, Ready
  <2> QED BY <1>0, <1>2, <1>3, <2>1
<1>7. CASE UNCHANGED vars
  BY <1>3, <1>7 DEF vars
<1> QED BY <1>1, <1>4, <1>5, <1>6, <1>7, NextCases

-----------------------------------------------------------------------------
(* References *)

\* An actor is about to drop its reference to an effect, or to take the arena's away.
Holds(a, e) == \E k \in {"drop", "mark", "wake"} : Item(k, e) \in ToSet(todo[a])
Removing(a, i) == \E s \in Seq(Effects) : Item("remove", s) \in ToSet(todo[a]) /\ i \in ToSet(s)

\* Who holds a reference on its stack will drop it.
RefInv == \A e \in Effects : \A a \in refs[e] \ {Store} : a \in Actors /\ Holds(a, e)

\* The nested effect that is created in a step.
Created(i) == SpawnEffect(Outer, i) \/ SpawnRenderEffect(Outer, i)

\* A step leaves the references to an effect or does one of these things to them.
LEMMA RefSteps ==
  ASSUME TypeInv, [Next]_vars, NEW e \in Effects
  PROVE  \/ refs'[e] = refs[e]
         \/ e \in Inner /\ Created(e) /\ refs'[e] = {Store}
         \/ \E t \in Threads : Mark(t, e) /\ refs'[e] = refs[e] \cup {t}
         \/ Check(e) /\ refs'[e] = refs[e] \cup {e} /\ Call(e, <<Item("drop", e)>>)
         \/ \E a \in Actors :
              /\ Continue(a) /\ DropRef(a) /\ Head(todo[a]) = Item("drop", e)
              /\ refs'[e] = refs[e] \ {a}
         \/ \E a \in Actors, s \in Seq(Effects) :
              /\ Continue(a) /\ RemoveNodes(a) /\ Head(todo[a]) = Item("remove", s) /\ e \in ToSet(s)
              /\ refs'[e] = (refs[e] \ {Store}) \cup {a}
<1> DEFINE Goal ==
         \/ refs'[e] = refs[e]
         \/ e \in Inner /\ Created(e) /\ refs'[e] = {Store}
         \/ \E t \in Threads : Mark(t, e) /\ refs'[e] = refs[e] \cup {t}
         \/ Check(e) /\ refs'[e] = refs[e] \cup {e} /\ Call(e, <<Item("drop", e)>>)
         \/ \E a \in Actors :
              /\ Continue(a) /\ DropRef(a) /\ Head(todo[a]) = Item("drop", e)
              /\ refs'[e] = refs[e] \ {a}
         \/ \E a \in Actors, s \in Seq(Effects) :
              /\ Continue(a) /\ RemoveNodes(a) /\ Head(todo[a]) = Item("remove", s) /\ e \in ToSet(s)
              /\ refs'[e] = (refs[e] \ {Store}) \cup {a}
<1>0. /\ refs \in [Effects -> SUBSET (Actors \cup {Store})] /\ Stacks /\ StackOK
      /\ Inner \subseteq Effects
  BY DEF TypeInv, Types, Effects
<1>1. ASSUME NEW a \in Actors, Continue(a) PROVE Goal
  <2>0. todo[a] # <<>>
    BY <1>1 DEF Continue
  <2>1. CASE RemoveNodes(a)
    <3>1. PICK s \in Seq(Effects) : Head(todo[a]) = Item("remove", s)
      BY <1>0, <2>0, <2>1, HeadItem DEF RemoveNodes, RemoveItem
    <3>2. Head(todo[a])[2] = s
      BY <3>1 DEF Item
    <3>3. (\E k \in 1..Len(s) : s[k] = e) <=> e \in ToSet(s)
      BY Elements
    <3>4. refs'[e] = IF Store \in refs[e] /\ e \in ToSet(s) THEN (refs[e] \ {Store}) \cup {a}
                     ELSE refs[e]
      BY <2>1, <3>2, <3>3 DEF RemoveNodes
    <3> QED BY <1>1, <2>1, <3>1, <3>4
  <2>2. CASE DropRef(a)
    <3>1. PICK f \in Effects, k \in {"drop", "close", "wake"} : Head(todo[a]) = Item(k, f)
      BY <1>0, <2>0, <2>2, HeadItem DEF DropRef, PlainItem
    <3>2. Head(todo[a]) = Item("drop", f) /\ Head(todo[a])[2] = f
      BY <2>2, <3>1 DEF DropRef, Item
    <3>3. refs' = [refs EXCEPT ![f] = @ \ {a}]
      BY <2>2, <3>2 DEF DropRef
    <3>4. CASE f = e
      BY <1>0, <1>1, <2>2, <3>2, <3>3, <3>4
    <3>5. CASE f # e
      BY <1>0, <3>3, <3>5
    <3> QED BY <3>4, <3>5
  <2>3. CASE ~RemoveNodes(a) /\ ~DropRef(a)
    BY <1>1, <2>3, ContinueCases DEF CleanupOwner, RunCleanup, Release, CloseChannel, MarkDirty,
                                     NotifyWakes, PauseOwner, graph
  <2> QED BY <2>1, <2>2, <2>3
<1>2. ASSUME NEW t \in Threads, ThreadCall(t) PROVE Goal
  <2>1. ASSUME NEW f \in Effects, Mark(t, f) PROVE Goal
    BY <1>0, <2>1 DEF Mark
  <2>2. ASSUME NEW f \in Effects, Stop(t, f) PROVE Goal
    BY <2>2 DEF Stop, graph
  <2> QED BY <1>2, <2>1, <2>2 DEF ThreadCall, CleanupRoot, PauseRoot, ResumeRoot, graph
<1>3. ASSUME NEW f \in Effects, Task(f) PROVE Goal
  <2>1. CASE Check(f)
    <3>1. UNCHANGED refs \/ (refs' = [refs EXCEPT ![f] = @ \cup {f}] /\ Call(f, <<Item("drop", f)>>))
      BY <2>1, Zenon DEF Check
    <3>2. CASE f = e
      BY <1>0, <2>1, <3>1, <3>2
    <3>3. CASE f # e
      BY <1>0, <3>1, <3>3
    <3> QED BY <3>2, <3>3
  <2> QED BY <1>3, <2>1 DEF Task, Poll, StartPoll, Upgrade, Register, Swap, EndPoll, WithCleanup,
                            RunBody, EndBody, EndTask, graph
<1>4. ASSUME NEW f \in Effects, Nested(f) PROVE Goal
  <2>1. PICK i \in Inner : SpawnEffect(f, i) \/ SpawnRenderEffect(f, i) \/ DropHandle(f, i)
    BY <1>4 DEF Nested
  <2>2. CASE DropHandle(f, i)
    BY <2>2 DEF DropHandle, graph
  <2>3. CASE SpawnEffect(f, i) \/ SpawnRenderEffect(f, i)
    <3>1. f = Outer /\ refs' = [refs EXCEPT ![i] = {Store}]
      BY <2>3 DEF SpawnEffect, SpawnRenderEffect
    <3>2. CASE i = e
      BY <1>0, <2>3, <3>1, <3>2 DEF Created
    <3>3. CASE i # e
      BY <1>0, <3>1, <3>3
    <3> QED BY <3>2, <3>3
  <2> QED BY <2>1, <2>2, <2>3
<1>5. CASE UNCHANGED vars
  BY <1>5 DEF vars, graph
<1> QED BY <1>1, <1>2, <1>3, <1>4, <1>5, NextCases

\* An item's kind says which part of Continue deals with it.
LEMMA ByKind ==
  ASSUME NEW a, Continue(a)
  PROVE  /\ Head(todo[a])[1] = "mark" => MarkDirty(a)
         /\ Head(todo[a])[1] = "wake" => NotifyWakes(a)
         /\ Head(todo[a])[1] = "drop" => DropRef(a)
         /\ Head(todo[a])[1] = "remove" => RemoveNodes(a)
         /\ Head(todo[a])[1] = "run" => RunCleanup(a)
         /\ Head(todo[a])[1] = "release" => Release(a)
         /\ Head(todo[a])[1] = "cleanup" => CleanupOwner(a)
         /\ Head(todo[a])[1] = "close" => CloseChannel(a)
<1>1. /\ CleanupOwner(a) => Head(todo[a])[1] = "cleanup"
      /\ RunCleanup(a) => Head(todo[a])[1] = "run"
      /\ Release(a) => Head(todo[a])[1] = "release"
      /\ RemoveNodes(a) => Head(todo[a])[1] = "remove"
      /\ DropRef(a) => Head(todo[a])[1] = "drop"
      /\ CloseChannel(a) => Head(todo[a])[1] = "close"
      /\ MarkDirty(a) => Head(todo[a])[1] = "mark"
      /\ NotifyWakes(a) => Head(todo[a])[1] = "wake"
      /\ PauseOwner(a) => Head(todo[a])[1] \in {"pause", "resume"}
  BY Zenon DEF CleanupOwner, RunCleanup, Release, RemoveNodes, DropRef, CloseChannel, MarkDirty,
               NotifyWakes, PauseOwner
<1> QED BY <1>1, ContinueCases

\* What is pushed is on the stack.
LEMMA OnTop ==
  ASSUME TypeInv, NEW a \in Actors, todo[a] # <<>>, NEW x \in StackItems, Then(a, <<x>>)
  PROVE  x \in ToSet(todo'[a])
<1>1. <<x>> \in Seq(StackItems) /\ ToSet(<<x>>) = {x}
  BY OneItem
<1>2. ToSet(<<x>>) \subseteq ToSet(todo'[a])
  BY <1>1, Pushed DEF TypeInv
<1> QED BY <1>1, <1>2

\* Who held a reference still does, or has dropped it.
LEMMA HoldsOn ==
  ASSUME TypeInv, [Next]_vars, NEW e \in Effects, NEW a \in Actors, Holds(a, e)
  PROVE  Holds(a, e)' \/ a \notin refs'[e]
<1>1. PICK k \in {"drop", "mark", "wake"} : Item(k, e) \in ToSet(todo[a])
  BY DEF Holds
<1>2. CASE Item(k, e) \in ToSet(todo'[a])
  BY <1>2 DEF Holds
<1>3. CASE Item(k, e) \notin ToSet(todo'[a])
  <2>1. Continue(a) /\ todo[a] # <<>> /\ Head(todo[a]) = Item(k, e)
    BY <1>1, <1>3, ItemsWait
  <2>2. Head(todo[a])[1] = k /\ Head(todo[a])[2] = e /\ e \in Owners
    BY <2>1 DEF Item, Owners
  <2>3. Item("wake", e) \in StackItems /\ Item("drop", e) \in StackItems
    BY <2>2 DEF StackItems, Kinds
  <2>4. CASE k = "mark"
    <3>1. Then(a, <<Item("wake", e)>>)
      BY <2>1, <2>2, <2>4, ByKind DEF MarkDirty
    <3> QED BY <2>1, <2>3, <3>1, OnTop DEF Holds
  <2>5. CASE k = "wake"
    <3>1. Then(a, <<Item("drop", e)>>)
      BY <2>1, <2>2, <2>5, ByKind DEF NotifyWakes
    <3> QED BY <2>1, <2>3, <3>1, OnTop DEF Holds
  <2>6. CASE k = "drop"
    <3>1. refs' = [refs EXCEPT ![e] = @ \ {a}]
      BY <2>1, <2>2, <2>6, ByKind DEF DropRef
    <3>2. a \notin refs'[e]
      BY <3>1 DEF TypeInv, Types
    <3> QED BY <3>2
  <2> QED BY <2>4, <2>5, <2>6
<1> QED BY <1>2, <1>3

LEMMA RefNext ==
  ASSUME TypeInv, RefInv, [Next]_vars
  PROVE  RefInv'
<1> SUFFICES ASSUME NEW e \in Effects, NEW a \in refs'[e], a # Store
             PROVE  a \in Actors /\ Holds(a, e)'
  BY DEF RefInv
<1>0. Effects \subseteq Actors /\ Threads \subseteq Actors /\ e \in Owners /\ Stacks
  BY DEF Actors, Owners, TypeInv
<1>1. CASE a \in refs[e]
  BY <1>1, HoldsOn DEF RefInv
<1>2. Item("mark", e) \in StackItems /\ Item("drop", e) \in StackItems
  BY <1>0 DEF StackItems, Kinds
<1>3. ASSUME NEW t \in Threads, Mark(t, e), a = t PROVE a \in Actors /\ Holds(a, e)'
  <2>1. Call(t, <<Item("mark", e)>>)
    BY <1>3 DEF Mark
  <2>2. todo'[t] = <<Item("mark", e)>>
    BY <1>0, <2>1 DEF Call, Stacks
  <2> QED BY <1>0, <1>2, <1>3, <2>2, OneItem DEF Holds
<1>4. ASSUME a = e, Call(e, <<Item("drop", e)>>) PROVE a \in Actors /\ Holds(a, e)'
  <2>1. todo'[e] = <<Item("drop", e)>>
    BY <1>0, <1>4 DEF Call, Stacks
  <2> QED BY <1>0, <1>2, <1>4, <2>1, OneItem DEF Holds
<1>5. ASSUME NEW b \in Actors, NEW s \in Seq(Effects), Continue(b), RemoveNodes(b),
             Head(todo[b]) = Item("remove", s), e \in ToSet(s), a = b
      PROVE  a \in Actors /\ Holds(a, e)'
  <2>1. Then(b, Items("drop", s)) /\ todo[b] # <<>>
    BY <1>5 DEF RemoveNodes, Item, Continue
  <2>2. /\ Items("drop", s) \in Seq(StackItems)
        /\ Item("drop", e) \in ToSet(Items("drop", s))
    <3>1. Effects \subseteq Owners
      BY DEF Owners
    <3> QED BY <1>5, <3>1, ListItems DEF Kinds
  <2>3. ToSet(Items("drop", s)) \subseteq ToSet(todo'[b])
    BY <1>0, <2>1, <2>2, Pushed
  <2> QED BY <1>5, <2>2, <2>3 DEF Holds
<1> QED BY <1>1, <1>3, <1>4, <1>5, RefSteps

\* What is about to be removed stays so until it is removed.
LEMMA RemovingOn ==
  ASSUME TypeInv, [Next]_vars, NEW i \in Effects, NEW a \in Actors, Removing(a, i)
  PROVE  Removing(a, i)' \/ Store \notin refs'[i]
<1>1. PICK s \in Seq(Effects) : Item("remove", s) \in ToSet(todo[a]) /\ i \in ToSet(s)
  BY DEF Removing
<1>2. CASE Item("remove", s) \in ToSet(todo'[a])
  BY <1>1, <1>2 DEF Removing
<1>3. CASE Item("remove", s) \notin ToSet(todo'[a])
  <2>1. Continue(a) /\ Head(todo[a]) = Item("remove", s)
    BY <1>1, <1>3, ItemsWait
  <2>2. Head(todo[a])[1] = "remove" /\ Head(todo[a])[2] = s
    BY <2>1 DEF Item
  <2>3. RemoveNodes(a)
    BY <2>1, <2>2, ByKind
  <2>4. \E k \in 1..Len(s) : s[k] = i
    BY <1>1, Elements
  <2>5. refs'[i] = IF Store \in refs[i] THEN (refs[i] \ {Store}) \cup {a} ELSE refs[i]
    BY <2>2, <2>3, <2>4 DEF RemoveNodes
  <2>6. Store # a
    BY LifecycleAssumption DEF LifecycleAssumption
  <2> QED BY <2>5, <2>6
<1> QED BY <1>2, <1>3

\* The arena loses an effect to a removal, and gets one when it is created.
LEMMA StoreSteps ==
  ASSUME TypeInv, [Next]_vars, NEW e \in Effects
  PROVE  /\ Store \in refs[e] /\ Store \notin refs'[e] =>
              \E a \in Actors, s \in Seq(Effects) :
                Continue(a) /\ RemoveNodes(a) /\ Head(todo[a]) = Item("remove", s) /\ e \in ToSet(s)
         /\ Store \notin refs[e] /\ Store \in refs'[e] => e \in Inner /\ Created(e)
<1>1. Store \notin Actors /\ Threads \subseteq Actors /\ Effects \subseteq Actors
  BY LifecycleAssumption DEF LifecycleAssumption, Actors
<1>2. ASSUME NEW a \in Actors PROVE Store # a
  BY <1>1
<1> QED BY <1>1, <1>2, RefSteps

-----------------------------------------------------------------------------
(* On one thread the arena has the effect whose task is on its way to a run *)

OnTheWay == {"upgraded", "registered", "taken", "notified", "cleaning"}
HeldInv == ~native => \A e \in Effects : step[e] \in OnTheWay => Store \in refs[e]

\* On its way a task has nothing to do but to drop a reference.
QuietInv == \A e \in Effects :
  step[e] \in OnTheWay => \A x \in ToSet(todo[e]) : x[1] \in {"drop", "close"}

\* A task gets there with a poll that finds its channel open.
LEMMA WaySteps ==
  ASSUME TypeInv, [Next]_vars, NEW e \in Effects, step'[e] \in OnTheWay, step[e] \notin OnTheWay
  PROVE  (StartPoll(e) \/ Upgrade(e)) /\ refs[e] # {}
<1>0. step \in [Effects -> Steps] /\ Inner \subseteq Effects
  BY DEF TypeInv, Types, Effects
<1>1. ASSUME NEW a \in Actors, Continue(a) PROVE FALSE
  BY <1>1 DEF Continue
<1>2. ASSUME NEW t \in Threads, ThreadCall(t) PROVE FALSE
  BY <1>2 DEF ThreadCall, Mark, Stop, CleanupRoot, PauseRoot, ResumeRoot
<1>3. ASSUME NEW f \in Effects, Task(f), f # e PROVE FALSE
  <2>1. PICK s : step' = [step EXCEPT ![f] = s]
    BY <1>3 DEF Task, Poll, StartPoll, Upgrade, Register, Swap, EndPoll, Check, WithCleanup, RunBody,
                EndBody, EndTask, Goto
  <2>2. step'[e] = step[e]
    BY <1>0, <1>3, <2>1
  <2> QED BY <2>2
<1>4. ASSUME Task(e) PROVE (StartPoll(e) \/ Upgrade(e)) /\ refs[e] # {}
  <2>1. CASE Check(e)
    <3>1. step[e] = "notified"
      BY <2>1, CheckEffect
    <3> QED BY <3>1 DEF OnTheWay
  <2>2. CASE StartPoll(e)
    <3>1. step' = [step EXCEPT ![e] = IF refs[e] = {} THEN "polling" ELSE "upgraded"]
      BY <2>2 DEF StartPoll, Goto
    <3>2. refs[e] = {} => step'[e] = "polling"
      BY <1>0, <3>1
    <3> QED BY <2>2, <3>2 DEF OnTheWay
  <2>3. CASE Upgrade(e)
    BY <2>3 DEF Upgrade
  <2>4. CASE Register(e) \/ Swap(e) \/ WithCleanup(e)
    <3>1. step[e] \in {"upgraded", "registered", "cleaning"}
      BY <2>4 DEF Register, Swap, WithCleanup, Ready
    <3> QED BY <3>1 DEF OnTheWay
  <2>5. CASE EndPoll(e)
    <3>1. step[e] = "taken" \/ (step[e] = "empty" /\ step'[e] = "waiting")
      BY <1>0, <2>5 DEF EndPoll, Goto, Ready
    <3> QED BY <3>1 DEF OnTheWay
  <2>6. CASE RunBody(e) \/ EndBody(e) \/ EndTask(e)
    <3>1. step'[e] \in {"body", "polling", "ended"}
      BY <1>0, <2>6 DEF RunBody, EndBody, EndTask, Goto
    <3> QED BY <3>1 DEF OnTheWay
  <2> QED BY <1>4, <2>1, <2>2, <2>3, <2>4, <2>5, <2>6 DEF Task, Poll
<1>5. ASSUME NEW f \in Effects, Nested(f) PROVE FALSE
  <2>1. PICK i \in Inner : step' = step \/ step' = [step EXCEPT ![i] = "waiting"]
    BY <1>5 DEF Nested, SpawnEffect, SpawnRenderEffect, DropHandle
  <2>2. step'[e] = step[e] \/ step'[e] = "waiting"
    BY <1>0, <2>1
  <2> QED BY <2>2 DEF OnTheWay
<1>6. CASE UNCHANGED vars
  BY <1>6 DEF vars
<1> QED BY <1>1, <1>2, <1>3, <1>4, <1>5, <1>6, NextCases

\* On one thread a task's step finds every stack empty.
LEMMA AllQuiet ==
  ASSUME ~native, NEW e \in Effects, NEW s, Ready(e, s)
  PROVE  \A b \in Actors : todo[b] = <<>>
<1>1. e \notin Threads
  BY LifecycleAssumption DEF LifecycleAssumption
<1> QED BY <1>1 DEF Ready, Turn, Resting

LEMMA QuietNext ==
  ASSUME TypeInv, QuietInv, [Next]_vars
  PROVE  QuietInv'
<1> SUFFICES ASSUME NEW e \in Effects, step'[e] \in OnTheWay
             PROVE  \A x \in ToSet(todo'[e]) : x[1] \in {"drop", "close"}
  BY DEF QuietInv
<1> DEFINE Goal == \A x \in ToSet(todo'[e]) : x[1] \in {"drop", "close"}
<1>0. /\ todo \in [Actors -> Seq(StackItems)] /\ step \in [Effects -> Steps] /\ Stacks /\ StackOK
      /\ Effects \subseteq Actors /\ Threads \subseteq Actors /\ Threads \cap Effects = {}
  BY LifecycleAssumption DEF LifecycleAssumption, TypeInv, Types, Stacks, Actors
<1>1. CASE step[e] \notin OnTheWay
  <2>1. todo[e] = <<>> /\ UNCHANGED todo
    BY <1>1, WaySteps DEF StartPoll, Upgrade, Ready
  <2> QED BY <2>1, NoItem
<1>2. CASE step[e] \in OnTheWay
  <2>0. \A x \in ToSet(todo[e]) : x[1] \in {"drop", "close"}
    BY <1>2 DEF QuietInv
  <2>1. ASSUME todo'[e] = todo[e] PROVE Goal
    BY <2>0, <2>1
  <2>2. ASSUME NEW k \in {"drop", "close"}, NEW f \in Effects, todo'[e] = <<Item(k, f)>> PROVE Goal
    <3>1. Item(k, f) \in StackItems /\ Item(k, f)[1] = k
      BY <2>2 DEF StackItems, Kinds, Owners, Item
    <3>2. ToSet(<<Item(k, f)>>) = {Item(k, f)}
      BY <3>1, OneItem
    <3> QED BY <2>2, <3>1, <3>2
  <2>3. ASSUME NEW a \in Actors, Continue(a) PROVE Goal
    <3>1. CASE a # e
      <4>1. todo[a] # <<>> /\ \E items \in Seq(StackItems) : Then(a, items)
        BY <2>3, Pushes
      <4>2. todo'[e] = todo[e]
        BY <1>0, <3>1, <4>1, Pushed
      <4> QED BY <2>1, <4>2
    <3>2. CASE a = e
      <4>0. todo[e] # <<>> /\ Continue(e)
        BY <2>3, <3>2 DEF Continue
      <4>1. Head(todo[e]) \in ToSet(todo[e])
        BY <1>0, <4>0, Elements
      <4>2. Head(todo[e])[1] \in {"drop", "close"}
        BY <2>0, <4>1
      <4>3. PICK f \in Effects, k \in {"drop", "close", "wake"} : Head(todo[e]) = Item(k, f)
        BY <1>0, <4>0, <4>2, HeadItem DEF PlainItem
      <4>4. Head(todo[e])[2] = f
        BY <4>3 DEF Item
      <4>5. DropRef(e) \/ CloseChannel(e)
        BY <4>0, <4>2, ByKind
      <4>6. Then(e, <<>>) \/ Then(e, <<Item("close", f)>>)
        BY <4>4, <4>5 DEF DropRef, CloseChannel
      <4>7. Item("close", f) \in StackItems /\ Item("close", f)[1] = "close"
        BY DEF StackItems, Kinds, Owners, Item
      <4>8. PICK items \in Seq(StackItems) : Then(e, items) /\ \A x \in ToSet(items) : x[1] = "close"
        BY <4>6, <4>7, NoItem, OneItem
      <4>9. ToSet(todo'[e]) \subseteq ToSet(items) \cup ToSet(todo[e])
        BY <1>0, <4>0, <4>8, Pushed
      <4> QED BY <2>0, <4>8, <4>9
    <3> QED BY <3>1, <3>2
  <2>4. ASSUME NEW c \in Actors, c # e, UNCHANGED todo \/ \E items : Call(c, items) PROVE Goal
    <3>1. todo'[e] = todo[e]
      BY <1>0, <2>4 DEF Call
    <3> QED BY <2>1, <3>1
  <2>5. ASSUME NEW t \in Threads, ThreadCall(t) PROVE Goal
    <3>1. \E items : Call(t, items)
      BY <2>5 DEF ThreadCall, Mark, Stop, CleanupRoot, PauseRoot, ResumeRoot
    <3> QED BY <1>0, <2>4, <3>1
  <2>6. ASSUME NEW f \in Effects, Task(f), f # e PROVE Goal
    <3>1. UNCHANGED todo \/ \E items : Call(f, items)
      BY <2>6 DEF Task, Poll, StartPoll, Upgrade, Register, Swap, EndPoll, Check, WithCleanup,
                  RunBody, EndBody, EndTask
    <3> QED BY <1>0, <2>4, <2>6, <3>1
  <2>7. ASSUME Task(e) PROVE Goal
    <3>1. CASE StartPoll(e) \/ Upgrade(e) \/ Register(e) \/ Swap(e)
      BY <2>1, <3>1 DEF StartPoll, Upgrade, Register, Swap
    <3>2. CASE EndPoll(e) \/ Check(e)
      <4>1. UNCHANGED todo \/ \E k \in {"drop", "close"} : Call(e, <<Item(k, e)>>)
        BY <3>2 DEF EndPoll, Check
      <4>2. ASSUME NEW k \in {"drop", "close"}, Call(e, <<Item(k, e)>>) PROVE Goal
        BY <1>0, <2>2, <4>2 DEF Call
      <4> QED BY <2>1, <4>1, <4>2
    <3>3. CASE WithCleanup(e) \/ RunBody(e) \/ EndBody(e) \/ EndTask(e)
      <4>1. step'[e] \in {"starting", "body", "polling", "ended"}
        BY <1>0, <3>3 DEF WithCleanup, RunBody, EndBody, EndTask, Goto
      <4> QED BY <4>1 DEF OnTheWay
    <3> QED BY <2>7, <3>1, <3>2, <3>3 DEF Task, Poll
  <2>8. ASSUME NEW f \in Effects, Nested(f) PROVE Goal
    <3>1. step[f] = "body" /\ (UNCHANGED todo \/ \E items : Call(f, items))
      BY <2>8 DEF Nested, SpawnEffect, SpawnRenderEffect, DropHandle, Ready
    <3>2. f # e
      BY <1>2, <3>1 DEF OnTheWay
    <3> QED BY <1>0, <2>4, <3>1, <3>2
  <2>9. CASE UNCHANGED vars
    BY <2>1, <2>9 DEF vars
  <2> QED BY <2>3, <2>5, <2>6, <2>7, <2>8, <2>9, NextCases
<1> QED BY <1>1, <1>2

LEMMA HeldNext ==
  ASSUME TypeInv, RefInv, QuietInv, HeldInv, [Next]_vars
  PROVE  HeldInv'
<1> SUFFICES ASSUME ~native, NEW e \in Effects, step'[e] \in OnTheWay, Store \notin refs'[e]
             PROVE  FALSE
  BY NativeStays DEF HeldInv
<1>1. CASE step[e] \in OnTheWay
  <2>1. Store \in refs[e]
    BY <1>1 DEF HeldInv
  <2>2. PICK a \in Actors, s \in Seq(Effects) :
          Continue(a) /\ RemoveNodes(a) /\ Head(todo[a]) = Item("remove", s) /\ e \in ToSet(s)
    BY <2>1, StoreSteps
  <2>3. a # e
    <3>1. Head(todo[a])[1] = "remove" /\ todo[a] # <<>> /\ Stacks
      BY <2>2 DEF Item, Continue, TypeInv
    <3>2. Head(todo[a]) \in ToSet(todo[a])
      BY <3>1, Elements DEF Stacks
    <3> QED BY <1>1, <3>1, <3>2 DEF QuietInv
  <2>4. Turn(a) /\ e \in Actors \ {a}
    BY <2>2, <2>3 DEF Continue, Actors
  <2>5. step[e] \in {"none", "waiting", "ended", "body"}
    BY <2>4 DEF Turn, Resting
  <2> QED BY <1>1, <2>5 DEF OnTheWay
<1>2. CASE step[e] \notin OnTheWay
  <2>1. (StartPoll(e) \/ Upgrade(e)) /\ refs[e] # {}
    BY <1>2, WaySteps
  <2>2. \A b \in Actors : todo[b] = <<>>
    BY <2>1, AllQuiet DEF StartPoll, Upgrade
  <2>3. \A b \in Actors : ~Holds(b, e)
    BY <2>2, NoItem DEF Holds
  <2>4. Store \in refs[e]
    BY <2>1, <2>3 DEF RefInv
  <2>5. refs' = refs
    BY <2>1 DEF StartPoll, Upgrade, graph
  <2> QED BY <2>4, <2>5
<1> QED BY <1>1, <1>2

-----------------------------------------------------------------------------
(* What the owners have *)

\* What an owner loses is on the stack of the actor that took it.
TakenBy(a, o) ==
  /\ own' = Taken(o) /\ ToSet(CleanupOrder(o)) \subseteq ToSet(todo'[a])
  /\ UNCHANGED <<refs, runs, parent, handles>>

LEMMA OwnSteps ==
  ASSUME TypeInv, [Next]_vars
  PROVE  \/ SameLists /\ (\A i \in Inner : ~Created(i)) /\ (\A e \in Effects : ~RunBody(e))
         \/ \E a \in Actors, o \in Owners : TakenBy(a, o)
         \/ \E e \in Effects : RunBody(e)
         \/ \E i \in Inner : Created(i)
<1> DEFINE Goal == SameLists \/ (\E a \in Actors, o \in Owners : TakenBy(a, o))
                   \/ (\E e \in Effects : RunBody(e)) \/ (\E i \in Inner : Created(i))
<1>0. /\ Effects \subseteq Owners /\ Root \in Owners /\ Effects \subseteq Actors
      /\ Threads \subseteq Actors /\ Stacks /\ StackOK /\ OwnOK /\ Types
  BY DEF Owners, Actors, TypeInv
<1>1. ASSUME UNCHANGED own PROVE Goal
  BY <1>1 DEF SameLists
<1>2. ASSUME NEW a \in Actors, Continue(a) PROVE Goal
  <2>0. todo[a] # <<>> /\ UNCHANGED <<runs, parent, handles>>
    BY <1>2 DEF Continue
  <2>1. PICK items \in Seq(StackItems) : GoesOn(a, items) \/ \E o \in Effects : Goes(a, o, items)
    BY <1>2, Moves
  <2>2. CASE GoesOn(a, items)
    BY <2>2 DEF GoesOn
  <2>3. ASSUME NEW o \in Effects, Goes(a, o, items) PROVE Goal
    <3>1. /\ Then(a, items) /\ own' = Taken(o) /\ Head(todo[a])[1] \in {"cleanup", "release"}
          /\ items = CleanupOrder(o) \o <<Item("release", o)>> \/ items = CleanupOrder(o)
      BY <2>3 DEF Goes, Item
    <3>2. o \in Owners
      BY <1>0
    <3>3. ToSet(CleanupOrder(o)) \subseteq ToSet(items)
      BY <3>1, TakenItems
    <3>4. ToSet(items) \subseteq ToSet(todo'[a])
      BY <1>0, <2>0, <3>1, Pushed
    <3>5. UNCHANGED refs
      BY <1>2, <3>1, ByKind DEF CleanupOwner, Release, graph
    <3>6. TakenBy(a, o)
      BY <2>0, <3>1, <3>3, <3>4, <3>5 DEF TakenBy
    <3> QED BY <3>2, <3>6
  <2> QED BY <2>1, <2>2, <2>3
<1>3. ASSUME NEW a \in Actors, NEW o \in Owners, Call(a, CleanupOrder(o)), own' = Taken(o),
             UNCHANGED <<refs, runs, parent, handles>>
      PROVE  Goal
  <2>1. todo'[a] = CleanupOrder(o)
    BY <1>0, <1>3 DEF Call, Stacks
  <2> QED BY <1>3, <2>1 DEF TakenBy
<1>4. ASSUME NEW t \in Threads, ThreadCall(t) PROVE Goal
  <2>1. CASE CleanupRoot(t)
    BY <1>0, <1>3, <2>1 DEF CleanupRoot, graph, history
  <2>2. CASE ~CleanupRoot(t)
    <3>1. UNCHANGED own
      BY <1>4, <2>2 DEF ThreadCall, Mark, Stop, PauseRoot, ResumeRoot, owners
    <3> QED BY <1>1, <3>1
  <2> QED BY <2>1, <2>2
<1>5. ASSUME NEW e \in Effects, Task(e) PROVE Goal
  <2>1. CASE WithCleanup(e)
    BY <1>0, <1>3, <2>1 DEF WithCleanup, BeforeRun, graph, history
  <2>2. CASE RunBody(e)
    BY <2>2
  <2>3. CASE Check(e)
    <3>1. UNCHANGED own
      BY <2>3, CheckEffect
    <3> QED BY <1>1, <3>1
  <2>4. CASE ~WithCleanup(e) /\ ~RunBody(e) /\ ~Check(e)
    <3>1. UNCHANGED own
      BY <1>5, <2>4 DEF Task, Poll, StartPoll, Upgrade, Register, Swap, EndPoll, EndBody, EndTask,
                        owners
    <3> QED BY <1>1, <3>1
  <2> QED BY <2>1, <2>2, <2>3, <2>4
<1>6. ASSUME NEW e \in Effects, Nested(e) PROVE Goal
  <2>1. PICK i \in Inner : SpawnEffect(e, i) \/ SpawnRenderEffect(e, i) \/ DropHandle(e, i)
    BY <1>6 DEF Nested
  <2>2. CASE DropHandle(e, i)
    BY <1>1, <2>2 DEF DropHandle, owners
  <2>3. CASE SpawnEffect(e, i) \/ SpawnRenderEffect(e, i)
    <3>1. e = Outer
      BY <2>3 DEF SpawnEffect, SpawnRenderEffect
    <3> QED BY <2>3, <3>1 DEF Created
  <2> QED BY <2>1, <2>2, <2>3
<1>7. CASE UNCHANGED vars
  BY <1>1, <1>7 DEF vars, owners
<1> QED BY <1>2, <1>4, <1>5, <1>6, <1>7, NextCases

\* What the creation of a nested effect does.
LEMMA Creates ==
  ASSUME TypeInv, NEW i \in Inner, Created(i)
  PROVE  /\ Ready(Outer, "body") /\ step[i] = "none" /\ UNCHANGED <<todo, ran>>
         /\ parent' = [parent EXCEPT ![i] = runs[Outer]] /\ runs'[Outer] = runs[Outer]
         /\ step' = [step EXCEPT ![i] = "waiting"] /\ held' = [held EXCEPT ![i] = {i}]
         /\ own'[Outer].children = own[Outer].children \o <<i>>
         /\ own'[Outer].cleanups = own[Outer].cleanups
         /\ own'[Outer].nodes = own[Outer].nodes \/ own'[Outer].nodes = own[Outer].nodes \o <<i>>
         /\ i \in handles' \/ i \in ToSet(own'[Outer].nodes)
         /\ handles \subseteq handles'
         /\ \A p \in Owners \ {Outer, i} : own'[p] = own[p]
<1>0. /\ Outer # i /\ Outer \in Effects /\ i \in Effects /\ Stacks
      /\ runs \in [Effects -> 0..(MaxMarks + 1)]
  BY LifecycleAssumption DEF LifecycleAssumption, Effects, TypeInv, Types
<1>1. CASE SpawnEffect(Outer, i)
  <2>1. /\ Ready(Outer, "body") /\ step[i] = "none" /\ UNCHANGED <<todo, ran, runs, handles>>
        /\ parent' = [parent EXCEPT ![i] = runs[Outer]]
        /\ step' = [step EXCEPT ![i] = "waiting"] /\ held' = [held EXCEPT ![i] = {i}]
        /\ own' = [own EXCEPT ![Outer].children = Append(@, i), ![Outer].nodes = Append(@, i)]
    BY <1>1 DEF SpawnEffect
  <2>2. /\ own'[Outer].children = own[Outer].children \o <<i>>
        /\ own'[Outer].nodes = own[Outer].nodes \o <<i>>
        /\ own'[Outer].cleanups = own[Outer].cleanups
        /\ \A p \in Owners \ {Outer} : own'[p] = own[p]
    BY <1>0, <2>1, Nests
  <2>3. i \in ToSet(own'[Outer].nodes)
    <3>1. own[Outer].nodes \in Seq(Effects)
      BY <1>0 DEF Stacks, OwnerTypes, Owners
    <3> QED BY <1>0, <2>2, <3>1, AppendedElements
  <2> QED BY <2>1, <2>2, <2>3
<1>2. CASE SpawnRenderEffect(Outer, i)
  <2>1. /\ Ready(Outer, "body") /\ step[i] = "none" /\ UNCHANGED <<todo, ran>>
        /\ parent' = [parent EXCEPT ![i] = runs[Outer]] /\ runs' = [runs EXCEPT ![i] = 1]
        /\ step' = [step EXCEPT ![i] = "waiting"] /\ held' = [held EXCEPT ![i] = {i}]
        /\ own' = [own EXCEPT ![Outer].children = Append(@, i), ![i].cleanups = << 1 >>]
        /\ handles' = handles \cup {i}
    BY <1>2 DEF SpawnRenderEffect
  <2>2. /\ own'[Outer].children = own[Outer].children \o <<i>>
        /\ own'[Outer].nodes = own[Outer].nodes
        /\ own'[Outer].cleanups = own[Outer].cleanups
        /\ \A p \in Owners \ {Outer, i} : own'[p] = own[p]
    BY <1>0, <2>1, NestsRender
  <2>3. runs'[Outer] = runs[Outer]
    BY <1>0, <2>1
  <2> QED BY <2>1, <2>2, <2>3
<1> QED BY <1>1, <1>2 DEF Created

\* The run that created an effect is known for good, and a value loses a handle with the
\* effect, or at the end of the task.
LEMMA HandleSteps ==
  ASSUME TypeInv, [Next]_vars, NEW i \in Inner
  PROVE  /\ parent'[i] = parent[i] \/ Created(i)
         /\ i \in handles /\ i \notin handles' => Removing(Outer, i)' \/ step'[Outer] = "ended"
<1> DEFINE Goal ==
         /\ parent'[i] = parent[i] \/ Created(i)
         /\ i \in handles /\ i \notin handles' => Removing(Outer, i)' \/ step'[Outer] = "ended"
<1>0. /\ Outer \in Effects /\ Outer \in Actors /\ i \in Effects /\ Stacks
      /\ parent \in [Inner -> 0..(MaxMarks + 1)] /\ step \in [Effects -> Steps]
  BY DEF Effects, Actors, TypeInv, Types
<1>1. ASSUME UNCHANGED <<parent, handles>> PROVE Goal
  BY <1>1
<1>2. ASSUME NEW a \in Actors, Continue(a) PROVE Goal
  BY <1>2 DEF Continue
<1>3. ASSUME NEW t \in Threads, ThreadCall(t) PROVE Goal
  <2>1. UNCHANGED <<parent, handles>>
    BY <1>3 DEF ThreadCall, Mark, Stop, CleanupRoot, PauseRoot, ResumeRoot, history
  <2> QED BY <1>1, <2>1
<1>4. ASSUME NEW e \in Effects, Task(e) PROVE Goal
  <2>1. CASE EndTask(e)
    <3>1. /\ step' = [step EXCEPT ![e] = "ended"] /\ UNCHANGED parent
          /\ handles' = handles \ (IF e = Outer THEN handles ELSE {})
      BY <2>1 DEF EndTask, Goto, history
    <3>2. CASE e = Outer
      BY <1>0, <3>1, <3>2
    <3>3. CASE e # Outer
      BY <3>1, <3>3
    <3> QED BY <3>2, <3>3
  <2>2. CASE Check(e)
    BY <1>1, <2>2, CheckEffect
  <2>3. CASE ~EndTask(e) /\ ~Check(e)
    <3>1. UNCHANGED <<parent, handles>>
      BY <1>4, <2>3 DEF Task, Poll, StartPoll, Upgrade, Register, Swap, EndPoll, WithCleanup,
                        RunBody, EndBody, history
    <3> QED BY <1>1, <3>1
  <2> QED BY <2>1, <2>2, <2>3
<1>5. ASSUME NEW e \in Effects, Nested(e) PROVE Goal
  <2>1. PICK j \in Inner : SpawnEffect(e, j) \/ SpawnRenderEffect(e, j) \/ DropHandle(e, j)
    BY <1>5 DEF Nested
  <2>2. CASE SpawnEffect(e, j) \/ SpawnRenderEffect(e, j)
    <3>1. e = Outer
      BY <2>2 DEF SpawnEffect, SpawnRenderEffect
    <3>2. Created(j)
      BY <2>2, <3>1 DEF Created
    <3>3. parent' = [parent EXCEPT ![j] = runs[Outer]] /\ handles \subseteq handles'
      BY <3>2, Creates
    <3>4. CASE j = i
      BY <3>2, <3>3, <3>4
    <3>5. CASE j # i
      BY <1>0, <3>3, <3>5
    <3> QED BY <3>4, <3>5
  <2>3. CASE DropHandle(e, j)
    <3>1. /\ e = Outer /\ handles' = handles \ {j} /\ UNCHANGED parent
          /\ Call(e, <<Item("remove", <<j>>)>>)
      BY <2>3 DEF DropHandle, history
    <3>2. CASE j = i
      <4>1. todo'[Outer] = <<Item("remove", <<i>>)>>
        BY <1>0, <3>1, <3>2 DEF Call, Stacks
      <4>2. <<i>> \in Seq(Effects) /\ ToSet(<<i>>) = {i}
        BY <1>0, OneOf
      <4>3. \A s \in Seq(Effects) : Item("remove", s) \in StackItems
        BY DEF StackItems
      <4>4. Item("remove", <<i>>) \in StackItems
        BY <4>2, <4>3, Zenon
      <4>5. ToSet(<<Item("remove", <<i>>)>>) = {Item("remove", <<i>>)}
        BY <4>4, OneItem
      <4>6. Removing(Outer, i)'
        BY <4>1, <4>2, <4>5 DEF Removing
      <4> QED BY <3>1, <4>6
    <3>3. CASE j # i
      BY <3>1, <3>3
    <3> QED BY <3>2, <3>3
  <2> QED BY <2>1, <2>2, <2>3
<1>6. CASE UNCHANGED vars
  BY <1>1, <1>6 DEF vars, history
<1> QED BY <1>2, <1>3, <1>4, <1>5, <1>6, NextCases

\* A run of an effect adds to the cleanups of its owner, and to nothing else.
LEMMA BodyLists ==
  ASSUME TypeInv, NEW e \in Effects, RunBody(e)
  PROVE  /\ step[e] = "starting" /\ runs' = [runs EXCEPT ![e] = @ + 1] /\ runs[e] + 1 \in Runs
         /\ step' = [step EXCEPT ![e] = "body"]
         /\ \A o \in Owners : own'[o].children = own[o].children /\ own'[o].nodes = own[o].nodes
         /\ own'[e].cleanups = own[e].cleanups \o <<runs[e] + 1>>
         /\ \A o \in Owners \ {e} : own'[o].cleanups = own[o].cleanups
         /\ UNCHANGED <<todo, refs, held, ran, parent, handles>>
<1>1. /\ Ready(e, "starting") /\ step' = [step EXCEPT ![e] = "body"]
      /\ runs' = [runs EXCEPT ![e] = @ + 1]
      /\ own' = [own EXCEPT ![e].cleanups = Append(@, runs'[e])]
      /\ UNCHANGED <<todo, refs, held, ran, parent, handles>>
  BY DEF RunBody, Goto, graph
<1>2. runs[e] + 1 \in Runs
  BY <1>1, RoomToRun DEF Ready
<1>3. runs'[e] = runs[e] + 1
  BY <1>1 DEF TypeInv, Types
<1>4. own' = [own EXCEPT ![e].cleanups = Append(@, runs[e] + 1)]
  BY <1>1, <1>3
<1>5. PICK r : r = runs[e] + 1
  OBVIOUS
<1>6. /\ own'[e].children = own[e].children /\ own'[e].nodes = own[e].nodes
      /\ own'[e].cleanups = own[e].cleanups \o <<r>>
      /\ \A p \in Owners \ {e} : own'[p] = own[p]
  <2>1. r \in Runs /\ own' = [own EXCEPT ![e].cleanups = Append(@, r)] /\ Stacks
    BY <1>2, <1>4, <1>5 DEF TypeInv
  <2> QED BY <2>1, Registered
<1> QED BY <1>1, <1>2, <1>5, <1>6 DEF Ready

\* A node leaves its owner for a stack.
LEMMA NodesLeave ==
  ASSUME TypeInv, [Next]_vars, NEW i \in ToSet(own[Outer].nodes)
  PROVE  i \in ToSet(own'[Outer].nodes) \/ \E a \in Actors : Removing(a, i)'
<1>0. Outer \in Owners /\ Outer \in Effects /\ Stacks /\ OwnOK
  BY DEF Owners, Effects, TypeInv
<1>1. own[Outer].nodes \in Seq(Effects)
  BY <1>0 DEF Stacks, OwnerTypes
<1>2. CASE SameLists
  BY <1>0, <1>2 DEF SameLists
<1>3. ASSUME NEW a \in Actors, NEW o \in Owners, TakenBy(a, o)
      PROVE  i \in ToSet(own'[Outer].nodes) \/ \E b \in Actors : Removing(b, i)'
  <2>1. CASE o # Outer
    <3>1. own'[Outer] = own[Outer]
      BY <1>0, <1>3, <2>1, TakenLeaves DEF TakenBy
    <3> QED BY <3>1
  <2>2. CASE o = Outer
    <3>1. own[Outer].nodes # <<>>
      BY NoItem
    <3>2. Item("remove", own[Outer].nodes) \in ToSet(CleanupOrder(Outer))
      BY <1>0, <3>1, CleanupElements
    <3>3. Item("remove", own[Outer].nodes) \in ToSet(todo'[a])
      BY <1>3, <2>2, <3>2 DEF TakenBy
    <3> QED BY <1>1, <3>3 DEF Removing
  <2> QED BY <2>1, <2>2
<1>4. ASSUME NEW e \in Effects, RunBody(e) PROVE i \in ToSet(own'[Outer].nodes)
  BY <1>0, <1>4, BodyLists
<1>5. ASSUME NEW j \in Inner, Created(j) PROVE i \in ToSet(own'[Outer].nodes)
  <2>1. own'[Outer].nodes = own[Outer].nodes \/ own'[Outer].nodes = own[Outer].nodes \o <<j>>
    BY <1>5, Creates
  <2>2. ToSet(own[Outer].nodes \o <<j>>) = ToSet(own[Outer].nodes) \cup {j}
    BY <1>1, AppendedElements DEF Effects
  <2> QED BY <2>1, <2>2
<1> QED BY <1>2, <1>3, <1>4, <1>5, OwnSteps

-----------------------------------------------------------------------------
(* What an earlier run created is about to leave the arena when the function runs again *)

NodesInv == step[Outer] = "starting" => own[Outer].nodes = <<>>
StoredInv ==
  step[Outer] # "ended" =>
    \A i \in Inner : Store \in refs[i] =>
      \/ i \in handles \/ i \in ToSet(own[Outer].nodes)
      \/ \E a \in Actors : Removing(a, i)
OldInv ==
  ~native /\ step[Outer] = "body" =>
    \A i \in Inner \ handles : Store \in refs[i] /\ parent[i] # runs[Outer] => Removing(Outer, i)

LEMMA NodesNext ==
  ASSUME TypeInv, NodesInv, [Next]_vars
  PROVE  NodesInv'
<1> SUFFICES ASSUME step'[Outer] = "starting" PROVE own'[Outer].nodes = <<>>
  BY DEF NodesInv
<1>0. /\ Outer \in Owners /\ Outer \in Effects /\ Stacks /\ OwnOK
      /\ step \in [Effects -> Steps]
  BY DEF Owners, Effects, TypeInv, Types
<1>1. CASE WithCleanup(Outer)
  <2>1. own' = Taken(Outer)
    BY <1>1 DEF WithCleanup
  <2> QED BY <1>0, <2>1, TakenLeaves
<1>2. CASE RunBody(Outer)
  <2>1. step'[Outer] = "body"
    BY <1>0, <1>2, BodyLists
  <2> QED BY <2>1
<1>3. CASE step'[Outer] = step[Outer]
  <2>1. own[Outer].nodes = <<>> /\ step[Outer] = "starting"
    BY <1>3 DEF NodesInv
  <2>2. CASE SameLists
    BY <1>0, <2>1, <2>2 DEF SameLists
  <2>3. ASSUME NEW a \in Actors, NEW o \in Owners, TakenBy(a, o) PROVE own'[Outer].nodes = <<>>
    BY <1>0, <2>1, <2>3, TakenShrinks DEF TakenBy, Shrinks
  <2>4. ASSUME NEW e \in Effects, RunBody(e) PROVE own'[Outer].nodes = <<>>
    BY <1>0, <2>1, <2>4, BodyLists
  <2>5. ASSUME NEW i \in Inner, Created(i) PROVE FALSE
    BY <2>1, <2>5, Creates DEF Ready
  <2> QED BY <2>2, <2>3, <2>4, <2>5, OwnSteps
<1> QED BY <1>0, <1>1, <1>2, <1>3, BodySteps

LEMMA StoredNext ==
  ASSUME TypeInv, StoredInv, [Next]_vars
  PROVE  StoredInv'
<1> SUFFICES ASSUME step'[Outer] # "ended", NEW i \in Inner, Store \in refs'[i]
             PROVE  \/ i \in handles' \/ i \in ToSet(own'[Outer].nodes)
                    \/ \E a \in Actors : Removing(a, i)'
  BY DEF StoredInv
<1>0. i \in Effects /\ Outer \in Effects /\ Outer \in Actors /\ step[Outer] # "ended"
  BY Evolves DEF Effects, Actors, TypeInv, Evolve
<1>1. CASE Store \notin refs[i]
  <2>1. Created(i)
    BY <1>0, <1>1, StoreSteps
  <2> QED BY <2>1, Creates
<1>2. CASE Store \in refs[i]
  <2>1. CASE i \in handles
    BY <1>0, <2>1, HandleSteps
  <2>2. CASE i \in ToSet(own[Outer].nodes)
    BY <2>2, NodesLeave
  <2>3. ASSUME NEW a \in Actors, Removing(a, i) PROVE Removing(a, i)'
    BY <1>0, <2>3, RemovingOn
  <2> QED BY <1>0, <1>2, <2>1, <2>2, <2>3 DEF StoredInv
<1> QED BY <1>1, <1>2

LEMMA OldNext ==
  ASSUME TypeInv, NodesInv, StoredInv, OldInv, [Next]_vars
  PROVE  OldInv'
<1> SUFFICES ASSUME ~native, step'[Outer] = "body", NEW i \in Inner, i \notin handles',
                    Store \in refs'[i], parent'[i] # runs'[Outer]
             PROVE  Removing(Outer, i)'
  BY NativeStays DEF OldInv
<1>0. /\ i \in Effects /\ Outer \in Effects /\ Outer \in Actors /\ step \in [Effects -> Steps]
      /\ parent \in [Inner -> 0..(MaxMarks + 1)] /\ Stacks
  BY DEF Effects, Actors, TypeInv, Types
<1>1. CASE WithCleanup(Outer)
  <2>1. step'[Outer] = "starting"
    BY <1>0, <1>1 DEF WithCleanup, Goto
  <2> QED BY <2>1
<1>2. CASE RunBody(Outer)
  <2>1. /\ step[Outer] = "starting" /\ UNCHANGED <<refs, handles>>
    BY <1>0, <1>2, BodyLists
  <2>2. own[Outer].nodes = <<>>
    BY <2>1 DEF NodesInv
  <2>3. \A b \in Actors : todo[b] = <<>>
    BY <1>0, <1>2, AllQuiet DEF RunBody
  <2>4. \A b \in Actors : ~Removing(b, i)
    BY <2>3, NoItem DEF Removing
  <2> QED BY <2>1, <2>2, <2>4, NoItem DEF StoredInv
<1>3. CASE step'[Outer] = step[Outer] /\ runs'[Outer] = runs[Outer]
  <2>1. ~Created(i)
    <3>1. ASSUME Created(i) PROVE FALSE
      <4>1. parent' = [parent EXCEPT ![i] = runs[Outer]]
        BY <3>1, Creates
      <4> QED BY <1>0, <1>3, <4>1
    <3> QED BY <3>1
  <2>2. Store \in refs[i] /\ parent[i] # runs[Outer]
    BY <1>0, <1>3, <2>1, StoreSteps, HandleSteps
  <2>3. CASE i \in handles
    BY <2>3, HandleSteps
  <2>4. CASE i \notin handles
    <3>1. Removing(Outer, i)
      BY <1>3, <2>2, <2>4 DEF OldInv
    <3> QED BY <1>0, <3>1, RemovingOn
  <2> QED BY <2>3, <2>4
<1> QED BY <1>0, <1>1, <1>2, <1>3, BodySteps

-----------------------------------------------------------------------------
(* On one thread nothing comes between the look at a new effect and its first run *)

\* A function that has not run has created nothing.
FreshInv ==
  \A e \in Effects :
    /\ step[e] = "body" => runs[e] # 0
    /\ runs[e] = 0 => own[e].children = <<>> /\ own[e].nodes = <<>>
StartInv ==
  ~native =>
    \A e \in Effects : step[e] = "starting" /\ runs[e] = 0 => todo[e] = <<>> /\ Store \in refs[e]

LEMMA FreshNext ==
  ASSUME TypeInv, FreshInv, [Next]_vars
  PROVE  FreshInv'
<1> SUFFICES ASSUME NEW e \in Effects
             PROVE  /\ step'[e] = "body" => runs'[e] # 0
                    /\ runs'[e] = 0 => own'[e].children = <<>> /\ own'[e].nodes = <<>>
  BY DEF FreshInv
<1>0. /\ e \in Owners /\ Stacks /\ OwnOK /\ step \in [Effects -> Steps]
      /\ runs \in [Effects -> 0..(MaxMarks + 1)] /\ runs[e] \in Nat
  BY LifecycleAssumption DEF LifecycleAssumption, Owners, TypeInv, Types
<1>1. step'[e] = "body" => runs'[e] # 0
  <2>1. CASE WithCleanup(e)
    <3>1. step'[e] = "starting"
      BY <1>0, <2>1 DEF WithCleanup, Goto
    <3> QED BY <3>1
  <2>2. CASE RunBody(e)
    <3>1. runs'[e] = runs[e] + 1
      BY <1>0, <2>2 DEF RunBody
    <3> QED BY <1>0, <3>1
  <2> QED BY <2>1, <2>2, BodySteps DEF FreshInv
<1>2. ASSUME runs'[e] = 0 PROVE own'[e].children = <<>> /\ own'[e].nodes = <<>>
  <2>0. runs[e] = 0
    <3>1. runs[e] <= runs'[e]
      BY Evolves DEF TypeInv, Evolve
    <3> QED BY <1>0, <1>2, <3>1
  <2>1. own[e].children = <<>> /\ own[e].nodes = <<>>
    BY <2>0 DEF FreshInv
  <2>2. CASE SameLists
    BY <1>0, <2>1, <2>2 DEF SameLists
  <2>3. ASSUME NEW a \in Actors, NEW o \in Owners, TakenBy(a, o)
        PROVE  own'[e].children = <<>> /\ own'[e].nodes = <<>>
    <3>1. own' = Taken(o)
      BY <2>3 DEF TakenBy
    <3> QED BY <1>0, <2>1, <3>1, TakenLeaves
  <2>4. ASSUME NEW f \in Effects, RunBody(f) PROVE own'[e].children = <<>> /\ own'[e].nodes = <<>>
    BY <1>0, <2>1, <2>4, BodyLists
  <2>5. ASSUME NEW i \in Inner, Created(i) PROVE own'[e].children = <<>> /\ own'[e].nodes = <<>>
    <3>1. step[Outer] = "body"
      BY <2>5, Creates DEF Ready
    <3>2. e # Outer
      BY <2>0, <3>1 DEF FreshInv
    <3>3. e \in Inner
      BY <3>2 DEF Effects
    <3>4. OwnOK'
      BY TypesNext DEF TypeInv
    <3> QED BY <3>3, <3>4 DEF OwnOK
  <2> QED BY <2>2, <2>3, <2>4, <2>5, OwnSteps
<1> QED BY <1>1, <1>2

LEMMA StartNext ==
  ASSUME TypeInv, FreshInv, HeldInv, StartInv, [Next]_vars
  PROVE  StartInv'
<1> SUFFICES ASSUME ~native, NEW e \in Effects, step'[e] = "starting", runs'[e] = 0
             PROVE  todo'[e] = <<>> /\ Store \in refs'[e]
  BY NativeStays DEF StartInv
<1>0. /\ e \in Owners /\ e \in Actors /\ Stacks /\ OwnOK /\ step \in [Effects -> Steps]
      /\ todo \in [Actors -> Seq(StackItems)] /\ Effects \subseteq Actors /\ Threads \subseteq Actors
      /\ Threads \cap Effects = {}
  BY LifecycleAssumption DEF LifecycleAssumption, Owners, Actors, TypeInv, Types, Stacks
<1>1. CASE WithCleanup(e)
  <2>1. /\ step[e] = "cleaning" /\ UNCHANGED <<runs, refs>> /\ Call(e, CleanupOrder(e))
    BY <1>1 DEF WithCleanup, BeforeRun, Ready, history, graph
  <2>2. Store \in refs[e]
    BY <2>1 DEF HeldInv, OnTheWay
  <2>3. own[e].children = <<>> /\ own[e].nodes = <<>>
    BY <2>1 DEF FreshInv
  <2>4. own[e].cleanups \in Seq(Runs) /\ ToSet(own[e].cleanups) \subseteq 1..0
    BY <1>0, <2>1 DEF Stacks, OwnerTypes, OwnOK
  <2>5. own[e].cleanups = <<>>
    <3>1. own[e].cleanups # <<>> => Head(own[e].cleanups) \in ToSet(own[e].cleanups)
      BY <2>4, Elements
    <3> QED BY <2>4, <3>1
  <2>6. CleanupOrder(e) \in Seq(StackItems) /\ Len(CleanupOrder(e)) = 0
    <3>1. CleanupOrder(e) \in Seq(StackItems)
      BY <1>0, CleanupPlaces
    <3>2. Len(CleanupOrder(e)) = Len(own[e].children) + Len(own[e].cleanups)
      BY <1>0, <2>3, CleanupPlaces
    <3>3. Len(own[e].children) = 0 /\ Len(own[e].cleanups) = 0
      BY <2>3, <2>5
    <3> QED BY <3>1, <3>2, <3>3
  <2>7. todo'[e] = CleanupOrder(e)
    BY <1>0, <2>1 DEF Call
  <2> QED BY <2>1, <2>2, <2>6, <2>7
<1>2. CASE RunBody(e)
  <2>1. step'[e] = "body"
    BY <1>0, <1>2, BodyLists
  <2> QED BY <2>1
<1>3. CASE step'[e] = step[e] /\ runs'[e] = runs[e]
  <2>0. step[e] = "starting" /\ todo[e] = <<>> /\ Store \in refs[e]
    BY <1>3 DEF StartInv
  <2>1. ASSUME NEW a \in Actors, a # e, Turn(a) PROVE FALSE
    <3>1. Resting(e) \/ step[e] = "body"
      BY <1>0, <2>1 DEF Turn
    <3> QED BY <2>0, <3>1 DEF Resting
  <2>2. ASSUME NEW a \in Actors, Continue(a) PROVE FALSE
    BY <2>0, <2>1, <2>2 DEF Continue
  <2>3. ASSUME NEW t \in Threads, ThreadCall(t) PROVE FALSE
    <3>1. Turn(t)
      BY <2>3 DEF ThreadCall, Mark, Stop, CleanupRoot, PauseRoot, ResumeRoot
    <3> QED BY <1>0, <2>1, <3>1
  <2>4. ASSUME NEW f \in Effects, Task(f) \/ Nested(f) PROVE RunBody(e)
    <3>1. Turn(f)
      BY <2>4 DEF Task, Poll, StartPoll, Upgrade, Register, Swap, EndPoll, Check, WithCleanup,
                  RunBody, EndBody, EndTask, Nested, SpawnEffect, SpawnRenderEffect, DropHandle, Ready
    <3>2. f = e
      BY <1>0, <2>1, <3>1
    <3> QED BY <2>0, <2>4, <3>2
         DEF Task, Poll, StartPoll, Upgrade, Register, Swap, EndPoll, Check, WithCleanup,
             EndBody, EndTask, Nested, SpawnEffect, SpawnRenderEffect, DropHandle, Ready
  <2>5. CASE UNCHANGED vars
    BY <2>0, <2>5 DEF vars, graph
  <2> QED BY <1>2, <2>2, <2>3, <2>4, <2>5, NextCases
<1> QED BY <1>0, <1>1, <1>2, <1>3, BodySteps

\* On one thread an effect that was disposed of (Effect::stop and dispose, the drop of a handle,
\* the cleanup of the owner it is under: owner.rs, arena.rs) does not run again, though its channel
\* may have been notified before: the task finds its sender gone before it cleans up.  Only the
\* cleanups of its own earlier runs come between that look and the run, so one that has not run
\* never does.  And what an earlier run of an effect created has left the arena when the function
\* runs again, unless the value of the effect holds it.
THEOREM DisposedStaysDown == Spec => []NoRunAfterDisposal
<1> DEFINE Inv == /\ RefInv /\ QuietInv /\ HeldInv /\ NodesInv /\ StoredInv /\ OldInv
                  /\ FreshInv /\ StartInv
<1>1. Init => Inv
  <2> SUFFICES ASSUME Init PROVE Inv
    OBVIOUS
  <2>1. /\ Outer \notin Inner /\ Outer \in Effects /\ Inner \subseteq Effects
        /\ step = [e \in Effects |-> IF e = Outer THEN "waiting" ELSE "none"]
        /\ refs = [e \in Effects |-> IF e = Outer THEN {Store} ELSE {}]
    BY LifecycleAssumption DEF LifecycleAssumption, Effects, Init
  <2>2. RefInv
    BY <2>1 DEF RefInv
  <2>3. HeldInv
    BY <2>1 DEF HeldInv, OnTheWay
  <2>4. NodesInv /\ OldInv
    BY <2>1 DEF NodesInv, OldInv
  <2>5. StoredInv
    BY <2>1 DEF StoredInv
  <2>6. QuietInv /\ StartInv
    BY <2>1 DEF QuietInv, OnTheWay, StartInv
  <2>7. FreshInv
    <3>1. \A e \in Effects : own[e] = Empty
      BY LifecycleAssumption DEF LifecycleAssumption, Init, Owners
    <3> QED BY <2>1, <3>1 DEF FreshInv, Empty
  <2> QED BY <2>2, <2>3, <2>4, <2>5, <2>6, <2>7
<1>2. TypeInv /\ Inv /\ [Next]_vars => Inv'
  BY RefNext, QuietNext, HeldNext, NodesNext, StoredNext, OldNext, FreshNext, StartNext
<1>3. TypeInv /\ Inv => NoRunAfterDisposal
  <2> SUFFICES ASSUME TypeInv, Inv, ~native PROVE NoRunAfterDisposal
    BY DEF NoRunAfterDisposal
  <2>1. \A e \in Effects :
          /\ step[e] = "cleaning" => refs[e] # {}
          /\ step[e] = "starting" /\ runs[e] = 0 => refs[e] # {}
    BY DEF HeldInv, OnTheWay, StartInv
  <2>2. ASSUME NEW i \in Inner \ handles, step[Outer] = "body", todo[Outer] = <<>>,
               parent[i] \in 1..(runs[Outer] - 1), Store \in refs[i]
        PROVE  FALSE
    <3>1. runs[Outer] \in Nat
      BY DEF TypeInv, Types, Effects
    <3>2. parent[i] # runs[Outer]
      BY <2>2, <3>1
    <3>3. Removing(Outer, i)
      BY <2>2, <3>2 DEF OldInv
    <3> QED BY <2>2, <3>3, NoItem DEF Removing
  <2> QED BY <2>1, <2>2 DEF NoRunAfterDisposal
<1> QED BY <1>1, <1>2, <1>3, AlwaysTyped, PTL DEF Spec

-----------------------------------------------------------------------------
(* The cleanups of nested effects run first *)

ParentInv == \A i \in Inner : parent[i] <= runs[Outer]

\* As long as a run's cleanup is with the owner, so is what the run created.
ChildInv ==
  \A i \in Inner : parent[i] \in ToSet(own[Outer].cleanups) => i \in ToSet(own[Outer].children)

\* An owner that nobody holds has nothing left to run, and the root has one effect.
GoneInv == \A o \in Effects : held[o] = {} => own[o].cleanups = <<>>
RootInv == own[Root].children \in {<<>>, <<Outer>>}

LEMMA ParentNext ==
  ASSUME TypeInv, ParentInv, [Next]_vars
  PROVE  ParentInv'
<1> SUFFICES ASSUME NEW i \in Inner PROVE parent'[i] <= runs'[Outer]
  BY DEF ParentInv
<1>1. /\ Outer \in Effects /\ runs[Outer] \in Nat /\ parent \in [Inner -> 0..(MaxMarks + 1)]
      /\ parent[i] \in Nat
  BY LifecycleAssumption DEF LifecycleAssumption, Effects, TypeInv, Types
<1>2. runs[Outer] <= runs'[Outer] /\ runs'[Outer] \in Nat
  BY <1>1, Evolves DEF TypeInv, Evolve
<1>3. CASE Created(i)
  <2>1. parent' = [parent EXCEPT ![i] = runs[Outer]]
    BY <1>3, Creates
  <2>2. parent'[i] = runs[Outer]
    BY <1>1, <2>1
  <2> QED BY <1>2, <2>2
<1>4. CASE parent'[i] = parent[i]
  BY <1>1, <1>2, <1>4 DEF ParentInv
<1> QED BY <1>3, <1>4, HandleSteps

LEMMA ChildNext ==
  ASSUME TypeInv, ParentInv, ChildInv, [Next]_vars
  PROVE  ChildInv'
<1> SUFFICES ASSUME NEW i \in Inner, parent'[i] \in ToSet(own'[Outer].cleanups)
             PROVE  i \in ToSet(own'[Outer].children)
  BY DEF ChildInv
<1>0. /\ Outer \in Owners /\ Outer \in Effects /\ Inner \subseteq Effects /\ Stacks /\ OwnOK
      /\ parent \in [Inner -> 0..(MaxMarks + 1)]
  BY DEF Owners, Effects, TypeInv, Types
<1>1. own[Outer].children \in Seq(Effects) /\ own[Outer].cleanups \in Seq(Runs)
  BY <1>0 DEF Stacks, OwnerTypes
<1>2. CASE SameLists /\ \A j \in Inner : ~Created(j)
  BY <1>0, <1>2, HandleSteps DEF SameLists, ChildInv
<1>3. ASSUME NEW a \in Actors, NEW o \in Owners, TakenBy(a, o)
      PROVE  i \in ToSet(own'[Outer].children)
  <2>1. CASE o = Outer
    <3>1. own'[Outer].cleanups = <<>>
      BY <1>0, <1>3, <2>1, TakenLeaves DEF TakenBy
    <3> QED BY <3>1, NoItem
  <2>2. CASE o # Outer
    <3>1. own'[Outer] = own[Outer] /\ parent' = parent
      BY <1>0, <1>3, <2>2, TakenLeaves DEF TakenBy
    <3> QED BY <3>1 DEF ChildInv
  <2> QED BY <2>1, <2>2
<1>4. ASSUME NEW e \in Effects, RunBody(e) PROVE i \in ToSet(own'[Outer].children)
  <2>1. own'[Outer].children = own[Outer].children /\ parent' = parent
    BY <1>0, <1>4, BodyLists
  <2>2. CASE e # Outer
    <3>1. own'[Outer].cleanups = own[Outer].cleanups
      BY <1>0, <1>4, <2>2, BodyLists
    <3> QED BY <2>1, <3>1 DEF ChildInv
  <2>3. CASE e = Outer
    <3>1. /\ own'[Outer].cleanups = own[Outer].cleanups \o <<runs[Outer] + 1>>
          /\ runs[Outer] + 1 \in Runs
      BY <1>4, <2>3, BodyLists
    <3>2. PICK r : r = runs[Outer] + 1
      OBVIOUS
    <3>3. ToSet(own[Outer].cleanups \o <<r>>) = ToSet(own[Outer].cleanups) \cup {r}
      BY <1>1, <3>1, <3>2, AppendedElements
    <3>4. parent[i] # r
      <4>1. parent[i] <= runs[Outer] /\ parent[i] \in Nat /\ runs[Outer] \in Nat
        BY <1>0, LifecycleAssumption DEF LifecycleAssumption, ParentInv, TypeInv, Types
      <4> QED BY <3>2, <4>1
    <3> QED BY <2>1, <3>1, <3>2, <3>3, <3>4 DEF ChildInv
  <2> QED BY <2>2, <2>3
<1>5. ASSUME NEW j \in Inner, Created(j) PROVE i \in ToSet(own'[Outer].children)
  <2>1. /\ own'[Outer].children = own[Outer].children \o <<j>>
        /\ own'[Outer].cleanups = own[Outer].cleanups
        /\ parent' = [parent EXCEPT ![j] = runs[Outer]]
    BY <1>5, Creates
  <2>2. ToSet(own'[Outer].children) = ToSet(own[Outer].children) \cup {j}
    BY <1>0, <1>1, <2>1, AppendedElements
  <2>3. CASE i # j
    <3>1. parent'[i] = parent[i]
      BY <1>0, <2>1, <2>3
    <3> QED BY <2>1, <2>2, <3>1 DEF ChildInv
  <2> QED BY <2>2, <2>3
<1> QED BY <1>2, <1>3, <1>4, <1>5, OwnSteps

LEMMA RootNext ==
  ASSUME TypeInv, RootInv, [Next]_vars
  PROVE  RootInv'
<1>0. Root \in Owners /\ Root \notin Effects /\ Outer \in Effects /\ Inner \subseteq Effects /\ Stacks
  BY LifecycleAssumption DEF LifecycleAssumption, Owners, Effects, TypeInv
<1>1. CASE SameLists
  BY <1>0, <1>1 DEF SameLists, RootInv
<1>2. ASSUME NEW a \in Actors, NEW o \in Owners, TakenBy(a, o) PROVE RootInv'
  BY <1>0, <1>2, TakenShrinks DEF TakenBy, Shrinks, RootInv
<1>3. ASSUME NEW e \in Effects, RunBody(e) PROVE RootInv'
  BY <1>0, <1>3, BodyLists DEF RootInv
<1>4. ASSUME NEW i \in Inner, Created(i) PROVE RootInv'
  <2>1. own'[Root] = own[Root]
    BY <1>0, <1>4, Creates
  <2> QED BY <2>1 DEF RootInv
<1> QED BY <1>1, <1>2, <1>3, <1>4, OwnSteps

\* The last reference to an owner goes with what it has.
LEMMA LastHolder ==
  ASSUME TypeInv, [Next]_vars, NEW o \in Effects, held[o] # {}, held'[o] = {}
  PROVE  own'[o].cleanups = <<>>
<1>0. /\ o \in Owners /\ Effects \subseteq Owners /\ Inner \subseteq Effects /\ Stacks /\ StackOK
      /\ held \in [Owners -> SUBSET (Actors \cup {Root})]
  BY DEF Owners, Effects, TypeInv, Types
<1>1. UNCHANGED held => FALSE
  OBVIOUS
<1>2. ASSUME NEW a \in Actors, Continue(a) PROVE own'[o].cleanups = <<>>
  <2>0. todo[a] # <<>>
    BY <1>2 DEF Continue
  <2>1. CASE CleanupOwner(a)
    <3>1. held[o] \subseteq held'[o]
      BY <1>0, <2>1 DEF CleanupOwner, owners
    <3> QED BY <3>1
  <2>2. CASE Release(a)
    <3>1. PICK p \in Effects : Head(todo[a]) = Item("release", p)
      BY <1>0, <2>0, <2>2, HeadItem DEF Release, ReleaseItem
    <3>2. Head(todo[a])[2] = p /\ p \in Owners
      BY <1>0, <3>1 DEF Item
    <3>3. /\ held' = [held EXCEPT ![p] = @ \ {a}]
          /\ held'[p] = {} => own' = Taken(p)
      BY <2>2, <3>2 DEF Release
    <3>4. p = o
      BY <1>0, <3>3
    <3>5. own' = Taken(o)
      BY <3>3, <3>4
    <3> QED BY <1>0, <3>5, TakenLeaves
  <2>3. CASE ~CleanupOwner(a) /\ ~Release(a)
    <3>1. UNCHANGED held
      BY <1>2, <2>3, ContinueCases DEF RunCleanup, RemoveNodes, DropRef, CloseChannel, MarkDirty,
                                       NotifyWakes, PauseOwner, owners
    <3> QED BY <1>1, <3>1
  <2> QED BY <2>1, <2>2, <2>3
<1>3. ASSUME NEW t \in Threads, ThreadCall(t) PROVE FALSE
  BY <1>1, <1>3 DEF ThreadCall, Mark, Stop, CleanupRoot, PauseRoot, ResumeRoot, owners
<1>4. ASSUME NEW e \in Effects, Task(e) PROVE FALSE
  <2>1. CASE Check(e)
    BY <1>1, <2>1, CheckEffect
  <2> QED BY <1>1, <1>4, <2>1 DEF Task, Poll, StartPoll, Upgrade, Register, Swap, EndPoll,
                                  WithCleanup, RunBody, EndBody, EndTask, owners
<1>5. ASSUME NEW e \in Effects, Nested(e) PROVE FALSE
  <2>1. PICK i \in Inner : held' = held \/ held' = [held EXCEPT ![i] = {i}]
    BY <1>5 DEF Nested, SpawnEffect, SpawnRenderEffect, DropHandle, owners
  <2>2. held'[o] = held[o] \/ held'[o] = {i}
    BY <1>0, <2>1
  <2> QED BY <2>2
<1>6. CASE UNCHANGED vars
  BY <1>1, <1>6 DEF vars, owners
<1> QED BY <1>2, <1>3, <1>4, <1>5, <1>6, NextCases

LEMMA GoneNext ==
  ASSUME TypeInv, GoneInv, [Next]_vars
  PROVE  GoneInv'
<1> SUFFICES ASSUME NEW o \in Effects, held'[o] = {} PROVE own'[o].cleanups = <<>>
  BY DEF GoneInv
<1>0. /\ o \in Owners /\ Inner \subseteq Effects /\ Effects \subseteq Owners /\ Stacks
      /\ held \in [Owners -> SUBSET (Actors \cup {Root})]
  BY DEF Owners, Effects, TypeInv, Types
<1>1. CASE held[o] # {}
  BY <1>1, LastHolder
<1>2. CASE held[o] = {}
  <2>1. own[o].cleanups = <<>>
    BY <1>2 DEF GoneInv
  <2>2. CASE SameLists
    BY <1>0, <2>1, <2>2 DEF SameLists
  <2>3. ASSUME NEW a \in Actors, NEW p \in Owners, TakenBy(a, p) PROVE own'[o].cleanups = <<>>
    BY <1>0, <2>1, <2>3, TakenShrinks DEF TakenBy, Shrinks
  <2>4. ASSUME NEW e \in Effects, RunBody(e) PROVE own'[o].cleanups = <<>>
    <3>1. e # o
      <4>1. step[e] = "starting"
        BY <2>4, BodyLists
      <4>2. e \in held[e]
        BY <4>1 DEF TypeInv, TasksOK
      <4> QED BY <1>2, <4>2
    <3> QED BY <1>0, <2>1, <2>4, <3>1, BodyLists
  <2>5. ASSUME NEW i \in Inner, Created(i) PROVE own'[o].cleanups = <<>>
    <3>1. held' = [held EXCEPT ![i] = {i}]
      BY <2>5, Creates
    <3>2. o # i
      BY <1>0, <3>1
    <3>3. CASE o = Outer
      BY <2>1, <2>5, <3>3, Creates
    <3>4. CASE o # Outer
      <4>1. own'[o] = own[o]
        BY <1>0, <2>5, <3>2, <3>4, Creates
      <4> QED BY <2>1, <4>1
    <3> QED BY <3>3, <3>4
  <2> QED BY <2>2, <2>3, <2>4, <2>5, OwnSteps
<1> QED BY <1>1, <1>2

\* Who cleans the outer effect's owner, or drops it, has nothing to do after that but to
\* remove effects from the arena.
Lasts == {Item("cleanup", Outer), Item("release", Outer)}
LastOK(q) == \A j, k \in 1..Len(q) : j < k /\ q[j] \in Lasts => q[k][1] = "remove"
LastInv == \A a \in Actors : LastOK(todo[a])

LEMMA LastPushed ==
  ASSUME NEW S, NEW s \in Seq(S), s # <<>>, NEW t \in Seq(S), NEW u, u = t \o Tail(s), LastOK(s),
         \A j \in 1..Len(t) : t[j] \in Lasts => j = Len(t) /\ Head(s) \in Lasts
  PROVE  LastOK(u)
<1>1. /\ u \in Seq(S) /\ Len(u) = Len(t) + Len(s) - 1
      /\ \A k \in 1..Len(u) : u[k] = IF k <= Len(t) THEN t[k] ELSE s[k - Len(t) + 1]
  BY Replaced
<1>2. Len(t) \in Nat /\ Len(s) \in Nat /\ 1 \in 1..Len(s) /\ Head(s) = s[1]
  OBVIOUS
<1> SUFFICES ASSUME NEW j \in 1..Len(u), NEW k \in 1..Len(u), j < k, u[j] \in Lasts
             PROVE  u[k][1] = "remove"
  BY DEF LastOK
<1>3. CASE j <= Len(t)
  <2>1. j \in 1..Len(t) /\ u[j] = t[j]
    BY <1>1, <1>2, <1>3
  <2>2. j = Len(t) /\ s[1] \in Lasts
    BY <1>2, <2>1
  <2>3. PICK m : m = k - Len(t) + 1
    OBVIOUS
  <2>4. m \in 1..Len(s) /\ 1 < m /\ u[k] = s[m]
    BY <1>1, <1>2, <2>2, <2>3
  <2> QED BY <1>2, <2>2, <2>4 DEF LastOK
<1>4. CASE ~(j <= Len(t))
  <2>1. PICK m : m = k - Len(t) + 1
    OBVIOUS
  <2>2. PICK n : n = j - Len(t) + 1
    OBVIOUS
  <2>3. m \in 1..Len(s) /\ n \in 1..Len(s) /\ n < m /\ u[k] = s[m] /\ u[j] = s[n]
    BY <1>1, <1>2, <1>4, <2>1, <2>2
  <2> QED BY <2>3 DEF LastOK
<1> QED BY <1>3, <1>4

\* What is taken from the owner of an effect has no such item.
LEMMA OrderFree ==
  ASSUME TypeInv, NEW o \in Effects
  PROVE  \A x \in ToSet(CleanupOrder(o)) : x \notin Lasts
<1>0. /\ o \in Owners /\ Stacks /\ OwnOK /\ Outer \notin Inner /\ Effects = {Outer} \cup Inner
  BY LifecycleAssumption DEF LifecycleAssumption, Owners, TypeInv, Effects
<1>1. \A x \in ToSet(CleanupOrder(o)) :
        \/ \E y \in ToSet(own[o].children) : x = Item("cleanup", y)
        \/ \E r \in ToSet(own[o].cleanups) : x = <<"run", o, r>>
        \/ own[o].nodes # <<>> /\ x = Item("remove", own[o].nodes)
  BY <1>0, CleanupElements
<1>2. Outer \notin ToSet(own[o].children)
  BY <1>0, NoItem DEF OwnOK
<1>3. \A y, z : /\ Item("cleanup", y) = Item("cleanup", z) => y = z
                /\ Item("cleanup", y) # Item("release", z)
                /\ Item("remove", y) \notin {Item("cleanup", z), Item("release", z)}
  BY DEF Item
<1>4. \A r, z : <<"run", o, r>> \notin {Item("cleanup", z), Item("release", z)}
  BY DEF Item
<1> QED BY <1>1, <1>2, <1>3, <1>4 DEF Lasts

LEMMA LastFree ==
  ASSUME NEW S, NEW q \in Seq(S), \A x \in ToSet(q) : x \notin Lasts
  PROVE  LastOK(q)
<1>1. \A k \in 1..Len(q) : q[k] \in ToSet(q)
  BY Elements
<1> QED BY <1>1 DEF LastOK

LEMMA LastNext ==
  ASSUME TypeInv, RootInv, LastInv, [Next]_vars
  PROVE  LastInv'
<1>0. /\ todo \in [Actors -> Seq(StackItems)] /\ Effects \subseteq Actors /\ Threads \subseteq Actors
      /\ Stacks /\ OwnOK /\ Outer \in Effects /\ Effects \subseteq Owners /\ Root \in Owners
  BY DEF TypeInv, Stacks, Actors, Owners, Effects
<1>1. UNCHANGED todo => LastInv'
  BY DEF LastInv
<1>2. ASSUME NEW a \in Actors, NEW items, Call(a, items), LastOK(items) PROVE LastInv'
  <2>1. todo'[a] = items /\ \A b \in Actors \ {a} : todo'[b] = todo[b]
    BY <1>0, <1>2 DEF Call
  <2> QED BY <1>2, <2>1 DEF LastInv
<1>3. \A x : LastOK(<<x>>) /\ LastOK(<<>>)
  BY DEF LastOK
<1>4. ASSUME NEW a \in Actors, Continue(a) PROVE LastInv'
  <2>1. PICK items \in Seq(StackItems) : GoesOn(a, items) \/ \E o \in Effects : Goes(a, o, items)
    BY <1>4, Moves
  <2>2. Then(a, items) /\ todo[a] # <<>>
    BY <1>4, <2>1, Moves DEF GoesOn, Goes
  <2>3. todo'[a] = items \o Tail(todo[a]) /\ \A b \in Actors \ {a} : todo'[b] = todo[b]
    BY <1>0, <2>2, Pushed
  <2>4. \A j \in 1..Len(items) : items[j] \in Lasts => j = Len(items) /\ Head(todo[a]) \in Lasts
    <3>1. CASE GoesOn(a, items)
      <4>1. \A j \in 1..Len(items) : CleansNothing(items[j])
        BY <3>1, Elements DEF GoesOn
      <4>2. \A x \in Lasts : ~CleansNothing(x)
        BY DEF Lasts, CleansNothing, Item
      <4> QED BY <4>1, <4>2
    <3>2. ASSUME NEW o \in Effects, Goes(a, o, items), NEW j \in 1..Len(items), items[j] \in Lasts
          PROVE  j = Len(items) /\ Head(todo[a]) \in Lasts
      <4> DEFINE q == CleanupOrder(o)
      <4>1. \A k \in 1..Len(q) : q[k] \notin Lasts
        BY OrderFree, TakenItems, Elements
      <4>2. \/ Head(todo[a]) = Item("cleanup", o) /\ items = q \o <<Item("release", o)>>
            \/ items = q
        BY <3>2 DEF Goes
      <4>3. q \in Seq(StackItems)
        BY TakenItems
      <4>4. items # q
        BY <3>2, <4>1
      <4>5. /\ Len(items) = Len(q) + 1 /\ items[Len(q) + 1] = Item("release", o)
            /\ \A k \in 1..Len(q) : items[k] = q[k]
        BY <4>2, <4>4, TakenItems
      <4> HIDE DEF q
      <4>6. Len(q) \in Nat
        BY <4>3
      <4>7. j = Len(q) + 1
        BY <3>2, <4>1, <4>5, <4>6
      <4>8. Item("release", o) \in Lasts
        BY <3>2, <4>5, <4>7
      <4>9. o = Outer
        BY <4>8 DEF Lasts, Item
      <4> QED BY <4>2, <4>4, <4>5, <4>7, <4>9 DEF Lasts
    <3> QED BY <2>1, <3>1, <3>2
  <2>5. LastOK(todo'[a])
    <3> DEFINE s == todo[a]
               u == todo'[a]
    <3>1. /\ s \in Seq(StackItems) /\ s # <<>> /\ u = items \o Tail(s) /\ LastOK(s)
          /\ \A j \in 1..Len(items) : items[j] \in Lasts => j = Len(items) /\ Head(s) \in Lasts
      BY <1>0, <2>2, <2>3, <2>4 DEF LastInv
    <3> HIDE DEF s, u
    <3>2. LastOK(u)
      BY <3>1, LastPushed
    <3> QED BY <3>2 DEF u
  <2> QED BY <2>3, <2>5 DEF LastInv
<1>5. ASSUME NEW t \in Threads, ThreadCall(t) PROVE LastInv'
  <2>1. CASE CleanupRoot(t)
    <3>1. LastOK(CleanupOrder(Root))
      <4> DEFINE q == CleanupOrder(Root)
      <4>1. /\ own[Root].cleanups = <<>> /\ own[Root].children \in {<<>>, <<Outer>>}
        BY DEF TypeInv, OwnOK, RootInv
      <4>2. Len(own[Root].cleanups) = 0 /\ Len(own[Root].children) \in {0, 1}
        BY <4>1
      <4>3. LET c == Len(own[Root].children)
                n == Len(own[Root].cleanups)
            IN  /\ q \in Seq(StackItems)
                /\ own[Root].nodes = <<>> => Len(q) = c + n
                /\ own[Root].nodes # <<>> =>
                     Len(q) = c + n + 1 /\ q[c + n + 1] = Item("remove", own[Root].nodes)
        BY <1>0, CleanupPlaces
      <4> HIDE DEF q
      <4>4. Len(q) <= 1 \/ (Len(q) = 2 /\ q[2] = Item("remove", own[Root].nodes))
        <5>1. PICK d : d = Len(own[Root].children) + Len(own[Root].cleanups)
          OBVIOUS
        <5>2. d \in {0, 1}
          BY <4>2, <5>1
        <5>3. /\ own[Root].nodes = <<>> => Len(q) = d
              /\ own[Root].nodes # <<>> =>
                   Len(q) = d + 1 /\ q[d + 1] = Item("remove", own[Root].nodes)
          BY <4>3, <5>1
        <5>4. CASE d = 0
          BY <5>3, <5>4
        <5>5. CASE d = 1
          <6>1. d + 1 = 2 /\ 1 <= 1
            BY <5>5
          <6> QED BY <5>3, <5>5, <6>1
        <5> QED BY <5>2, <5>4, <5>5
      <4>5. \A k \in 1..Len(q) : k > 1 => q[k][1] = "remove"
        BY <4>3, <4>4 DEF Item
      <4>6. \A j, k \in 1..Len(q) : j < k => k > 1
        BY <4>3
      <4> QED BY <4>5, <4>6 DEF LastOK, q
    <3> QED BY <1>0, <1>2, <2>1, <3>1 DEF CleanupRoot
  <2>2. CASE ~CleanupRoot(t)
    <3>1. \E x : Call(t, <<x>>)
      BY <1>5, <2>2 DEF ThreadCall, Mark, Stop, PauseRoot, ResumeRoot
    <3> QED BY <1>0, <1>2, <1>3, <3>1
  <2> QED BY <2>1, <2>2
<1>6. ASSUME NEW e \in Effects, Task(e) PROVE LastInv'
  <2>1. CASE WithCleanup(e)
    <3>1. Call(e, CleanupOrder(e))
      BY <2>1 DEF WithCleanup, BeforeRun
    <3>2. LastOK(CleanupOrder(e))
      BY OrderFree, TakenItems, LastFree
    <3> QED BY <1>0, <1>2, <3>1, <3>2
  <2>2. CASE EndTask(e)
    <3> DEFINE kept == IF e = Outer THEN handles ELSE {}
               q == Items("remove", Singletons(kept))
               x == Item("release", e)
    <3>1. Call(e, <<x>> \o q)
      BY <2>2 DEF EndTask
    <3>2. IsFiniteSet(kept) /\ kept \subseteq Effects
      <4>1. handles \subseteq Inner /\ Inner \subseteq Effects /\ IsFiniteSet(Inner)
        BY LifecycleAssumption DEF LifecycleAssumption, TypeInv, Types, Effects
      <4>2. IsFiniteSet(handles)
        BY <4>1, FS_Subset
      <4> QED BY <4>1, <4>2, FS_EmptySet
    <3> HIDE DEF kept
    <3>3. /\ q \in Seq(StackItems)
          /\ \A y \in ToSet(q) : \E f \in kept : y = Item("remove", <<f>>)
      BY <3>2, HandleItems
    <3>4. \A k \in 1..Len(q) : q[k][1] = "remove"
      <4>1. \A k \in 1..Len(q) : q[k] \in ToSet(q)
        BY <3>3, Elements
      <4>2. \A f : Item("remove", <<f>>)[1] = "remove"
        BY DEF Item
      <4> QED BY <3>3, <4>1, <4>2
    <3>5. x \in StackItems
      BY <1>0 DEF StackItems, Kinds
    <3> HIDE DEF q, x
    <3>6. PICK p : p = <<x>> \o q
      OBVIOUS
    <3>7. Len(p) = Len(q) + 1 /\ Len(q) \in Nat /\ \A k \in 1..Len(q) : p[k + 1] = q[k]
      BY <3>3, <3>5, <3>6
    <3>8. \A k \in 1..Len(p) : k > 1 => p[k][1] = "remove"
      <4> SUFFICES ASSUME NEW k \in 1..Len(p), k > 1 PROVE p[k][1] = "remove"
        OBVIOUS
      <4>1. PICK m : m = k - 1
        OBVIOUS
      <4>2. m \in 1..Len(q) /\ m + 1 = k
        BY <3>7, <4>1
      <4> QED BY <3>4, <3>7, <4>2
    <3>9. LastOK(p)
      BY <3>7, <3>8 DEF LastOK
    <3> QED BY <1>0, <1>2, <3>1, <3>6, <3>9
  <2>3. CASE EndPoll(e) \/ Check(e)
    <3>1. UNCHANGED todo \/ \E x : Call(e, <<x>>)
      BY <2>3 DEF EndPoll, Check
    <3> QED BY <1>0, <1>1, <1>2, <1>3, <3>1
  <2>4. CASE StartPoll(e) \/ Upgrade(e) \/ Register(e) \/ Swap(e) \/ RunBody(e) \/ EndBody(e)
    BY <1>1, <2>4 DEF StartPoll, Upgrade, Register, Swap, RunBody, EndBody
  <2> QED BY <1>6, <2>1, <2>2, <2>3, <2>4 DEF Task, Poll
<1>7. ASSUME NEW e \in Effects, Nested(e) PROVE LastInv'
  <2>1. UNCHANGED todo \/ \E x : Call(e, <<x>>)
    BY <1>7 DEF Nested, SpawnEffect, SpawnRenderEffect, DropHandle
  <2> QED BY <1>0, <1>1, <1>2, <1>3, <2>1
<1>8. CASE UNCHANGED vars
  BY <1>1, <1>8 DEF vars
<1> QED BY <1>4, <1>5, <1>6, <1>7, <1>8, NextCases

\* On one thread: before a cleanup of the outer effect's run on a stack come the ones of the
\* effects that the run created, or the cleanup of the owners that have them.
Before(q, k, i, p) ==
  \E j \in 1..(k - 1) :
    \/ q[j] = <<"run", i, p>>
    \/ q[j] = Item("cleanup", i) /\ p \in ToSet(own[i].cleanups)
FirstOK(q) ==
  \A k \in 1..Len(q), r \in Runs, i \in Inner :
    q[k] = <<"run", Outer, r>> /\ parent[i] = r =>
      \A p \in 1..runs[i] : ran[i][p] = 0 => Before(q, k, i, p)
FirstInv == ~native => \A a \in Actors : FirstOK(todo[a])

\* The stack s goes on with t, which leaves the outer effect's cleanups alone; what ran is
\* no longer to run, and what is no longer registered is in t.
SparesOuter(t) == \A k \in 1..Len(t), r \in Runs : t[k] # <<"run", Outer, r>>
CountsRuns(s) ==
  \A i \in Inner : \A p \in 1..runs[i] :
    ran'[i][p] = 0 => ran[i][p] = 0 /\ Head(s) # <<"run", i, p>>
KeepsCleanups(s, t) ==
  \A i \in Inner : \A p \in 1..runs[i] :
    p \in ToSet(own[i].cleanups) =>
      \/ \E k \in 1..Len(t) : t[k] = <<"run", i, p>>
      \/ p \in ToSet(own'[i].cleanups) /\ Head(s) # Item("cleanup", i)
LEMMA FirstShift ==
  ASSUME NEW s \in Seq(StackItems), s # <<>>, NEW t \in Seq(StackItems), NEW u, u = t \o Tail(s),
         FirstOK(s), runs' = runs, parent' = parent, SparesOuter(t), CountsRuns(s),
         KeepsCleanups(s, t)
  PROVE  FirstOK(u)'
<1> USE DEF SparesOuter, CountsRuns, KeepsCleanups
<1>1. /\ u \in Seq(StackItems) /\ Len(u) = Len(t) + Len(s) - 1
      /\ \A k \in 1..Len(u) : u[k] = IF k <= Len(t) THEN t[k] ELSE s[k - Len(t) + 1]
  BY Replaced
<1>2. Len(t) \in Nat /\ Len(s) \in Nat /\ 1 \in 1..Len(s) /\ Head(s) = s[1]
  OBVIOUS
<1> SUFFICES ASSUME NEW k \in 1..Len(u), NEW r \in Runs, NEW i \in Inner,
                    u[k] = <<"run", Outer, r>>, parent'[i] = r,
                    NEW p \in 1..runs'[i], ran'[i][p] = 0
             PROVE  Before(u, k, i, p)'
  BY Zenon DEF FirstOK
<1> SUFFICES \E j \in 1..(k - 1) :
               \/ u[j] = <<"run", i, p>>
               \/ u[j] = Item("cleanup", i) /\ p \in ToSet(own'[i].cleanups)
  BY DEF Before
<1>3. k > Len(t)
  <2>1. ASSUME k \in 1..Len(t) PROVE FALSE
    <3>1. u[k] = t[k]
      BY <1>1, <1>2, <2>1
    <3>2. t[k] # <<"run", Outer, r>>
      BY <2>1
    <3> QED BY <3>1, <3>2
  <2>2. k \in Nat /\ k >= 1
    BY <1>1
  <2> QED BY <1>2, <2>1, <2>2
<1>4. PICK m : m = k - Len(t) + 1
  OBVIOUS
<1>5. m \in 1..Len(s) /\ u[k] = s[m]
  BY <1>1, <1>2, <1>3, <1>4
<1>6. parent[i] = r /\ p \in 1..runs[i] /\ ran[i][p] = 0 /\ s[1] # <<"run", i, p>>
  BY <1>2
<1>7. Before(s, m, i, p)
  BY <1>5, <1>6 DEF FirstOK
<1>8. PICK j \in 1..(m - 1) :
        \/ s[j] = <<"run", i, p>>
        \/ s[j] = Item("cleanup", i) /\ p \in ToSet(own[i].cleanups)
  BY <1>7 DEF Before
<1>9. ASSUME j # 1 PROVE \E n \in 1..(k - 1) : u[n] = s[j]
  <2>1. PICK n : n = j + Len(t) - 1
    OBVIOUS
  <2>2. n \in 1..Len(u) /\ n > Len(t) /\ n - Len(t) + 1 = j /\ n \in 1..(k - 1)
    <3>1. Len(t) \in Nat /\ Len(u) \in Nat /\ k \in 1..Len(u) /\ m \in Int
      BY <1>1, <1>2, <1>4
    <3>2. j \in Int /\ 2 <= j /\ j <= m - 1
      BY <1>8, <1>9, <3>1
    <3> QED BY ONLY <1>4, <2>1, <3>1, <3>2
  <2>3. u[n] = s[j]
    BY <1>1, <1>2, <2>2
  <2> QED BY <2>2, <2>3
<1>10. CASE s[j] = <<"run", i, p>>
  BY <1>6, <1>9, <1>10
<1>11. CASE s[j] = Item("cleanup", i) /\ p \in ToSet(own[i].cleanups)
  <2>1. CASE \E n \in 1..Len(t) : t[n] = <<"run", i, p>>
    <3>1. PICK n \in 1..Len(t) : t[n] = <<"run", i, p>>
      BY <2>1
    <3>2. n \in 1..(k - 1) /\ u[n] = t[n]
      BY <1>1, <1>2, <1>3
    <3> QED BY <3>1, <3>2
  <2>2. CASE p \in ToSet(own'[i].cleanups) /\ Head(s) # Item("cleanup", i)
    <3>1. j # 1
      BY <1>2, <1>11, <2>2
    <3> QED BY <1>9, <1>11, <2>2, <3>1
  <2> QED BY <1>6, <1>11, <2>1, <2>2
<1> QED BY <1>8, <1>10, <1>11

LEMMA NoneToRun ==
  ASSUME NEW q, SparesOuter(q)
  PROVE  FirstOK(q)'
BY DEF FirstOK, SparesOuter

LEMMA RunsOf ==
  ASSUME TypeInv, NEW i \in Inner, NEW p \in 1..runs[i]
  PROVE  i \in Effects /\ p \in Runs /\ p <= runs[i] /\ ran \in [Effects -> [Runs -> Nat]]
<1>1. i \in Effects
  BY DEF Effects
<1>2. runs \in [Effects -> 0..(MaxMarks + 1)] /\ ran \in [Effects -> [Runs -> Nat]]
  BY DEF TypeInv, Types
<1>3. MaxMarks \in Nat
  BY LifecycleAssumption DEF LifecycleAssumption
<1>4. runs[i] \in 0..(MaxMarks + 1)
  BY <1>1, <1>2
<1>5. p \in Runs /\ p <= runs[i]
  BY <1>3, <1>4 DEF Runs
<1> QED BY <1>1, <1>2, <1>5

\* What is taken from the outer effect's owner is in the right order.
LEMMA FirstTaken ==
  ASSUME TypeInv, CleanInv, ChildInv, own' = Taken(Outer), UNCHANGED <<runs, parent, ran>>, NEW u,
         \A k \in 1..Len(CleanupOrder(Outer)) : u[k] = CleanupOrder(Outer)[k],
         \A k \in 1..Len(u) : k > Len(CleanupOrder(Outer)) => u[k][1] # "run",
         \A b \in Actors, i \in Inner, p \in Runs : ~OnStack(b, i, p), Len(u) \in Nat
  PROVE  FirstOK(u)'
<1> DEFINE c == Len(own[Outer].children)
           n == Len(own[Outer].cleanups)
           q == CleanupOrder(Outer)
<1>0. /\ Outer \in Owners /\ Outer \in Effects /\ Outer \notin Inner /\ Inner \subseteq Effects
      /\ Effects \subseteq Owners /\ Stacks /\ OwnOK
  BY LifecycleAssumption DEF LifecycleAssumption, Owners, Effects, TypeInv
<1>1. own[Outer].children \in Seq(Effects) /\ c \in Nat /\ n \in Nat
  BY <1>0 DEF Stacks, OwnerTypes
<1>2. /\ q \in Seq(StackItems)
      /\ own[Outer].nodes = <<>> => Len(q) = c + n
      /\ own[Outer].nodes # <<>> => Len(q) = c + n + 1
      /\ \A k \in 1..c : q[k] = Item("cleanup", own[Outer].children[k])
  BY <1>0, CleanupPlaces
<1>3. /\ \A k \in 1..Len(q) : u[k] = q[k]
      /\ \A k \in 1..Len(u) : k > Len(q) => u[k][1] # "run"
  OBVIOUS
<1> HIDE DEF c, n, q
<1> SUFFICES ASSUME NEW k \in 1..Len(u), NEW r \in Runs, NEW i \in Inner,
                    u[k] = <<"run", Outer, r>>, parent[i] = r,
                    NEW p \in 1..runs[i], ran[i][p] = 0
             PROVE  \E j \in 1..(k - 1) :
                      u[j] = Item("cleanup", i) /\ p \in ToSet(own'[i].cleanups)
  BY DEF FirstOK, Before
<1>4. k \in 1..Len(q) /\ q[k] = <<"run", Outer, r>>
  <2>1. u[k][1] = "run"
    OBVIOUS
  <2>2. Len(q) \in Nat
    BY <1>2
  <2> QED BY <1>3, <2>1, <2>2
<1>5. r \in ToSet(own[Outer].cleanups)
  <2>1. q[k] \in ToSet(q)
    BY <1>2, <1>4, Elements
  <2> QED BY <1>0, <1>4, <2>1, TakenElements DEF q
<1>6. k > c
  <2>1. k \notin 1..c
    <3>1. \A y : <<"run", Outer, r>> # Item("cleanup", y)
      BY DEF Item
    <3> QED BY <1>2, <1>4, <3>1, Zenon
  <2>2. k \in Nat /\ k >= 1
    BY <1>2, <1>4
  <2> QED BY <1>1, <2>1, <2>2
<1>7. PICK j \in 1..c : own[Outer].children[j] = i
  <2>1. i \in ToSet(own[Outer].children)
    BY <1>5 DEF ChildInv
  <2> QED BY <1>1, <2>1, Elements DEF c
<1>8. j \in 1..Len(q) /\ j \in 1..(k - 1)
  BY <1>1, <1>2, <1>4, <1>6
<1>9. u[j] = Item("cleanup", i)
  BY <1>2, <1>3, <1>7, <1>8
<1>10. p \in ToSet(own[i].cleanups)
  <2>1. p \in Runs /\ p <= runs[i]
    BY RunsOf
  <2>2. Accounted(i, p)
    BY <1>0, <2>1 DEF CleanInv
  <2> QED BY <2>1, <2>2 DEF Accounted
<1>11. own'[i] = own[i]
  BY <1>0, TakenLeaves
<1> QED BY <1>8, <1>9, <1>10, <1>11

LEMMA FirstAs ==
  ASSUME NEW b, NEW u, u = todo'[b], FirstOK(u)'
  PROVE  FirstOK(todo[b])'
<1> SUFFICES ASSUME NEW k \in 1..Len(todo'[b]), NEW r \in Runs, NEW i \in Inner,
                    todo'[b][k] = <<"run", Outer, r>>, parent'[i] = r,
                    NEW p \in 1..runs'[i], ran'[i][p] = 0
             PROVE  Before(todo[b], k, i, p)'
  BY Zenon DEF FirstOK
<1>1. Before(u, k, i, p)'
  BY DEF FirstOK
<1> QED BY <1>1, Zenon DEF Before

\* On one thread the others have nothing to do.
LEMMA OthersIdle ==
  ASSUME ~native, NEW a, Turn(a), NEW b \in Actors \ {a}
  PROVE  todo[b] = <<>>
BY DEF Turn, Resting

LEMMA EmptyFirst ==
  ASSUME NEW b, todo'[b] = <<>>
  PROVE  FirstOK(todo[b])'
<1>1. PICK u : u = todo'[b]
  OBVIOUS
<1>2. SparesOuter(u)
  BY <1>1 DEF SparesOuter
<1>3. FirstOK(u)'
  BY <1>2, NoneToRun
<1> QED BY <1>1, <1>3, FirstAs

LEMMA FirstAll ==
  ASSUME ~native, NEW a \in Actors, Turn(a), OthersStay(a), NEW u, u = todo'[a], FirstOK(u)'
  PROVE  \A b \in Actors : FirstOK(todo[b])'
<1> SUFFICES ASSUME NEW b \in Actors PROVE FirstOK(todo[b])'
  OBVIOUS
<1>1. CASE b = a
  <2>1. u = todo'[b]
    BY <1>1
  <2> QED BY <2>1, FirstAs
<1>2. CASE b # a
  <2>1. todo'[b] = <<>>
    BY <1>2, OthersIdle DEF OthersStay
  <2> QED BY <2>1, EmptyFirst
<1> QED BY <1>1, <1>2

LEMMA FirstCall ==
  ASSUME TypeInv, ~native, NEW a \in Actors, Turn(a), NEW items, Call(a, items), FirstOK(items)'
  PROVE  \A b \in Actors : FirstOK(todo[b])'
<1>1. items = todo'[a] /\ OthersStay(a)
  BY DEF TypeInv, Stacks, Call, OthersStay
<1> QED BY <1>1, FirstAll

LEMMA FirstOne ==
  ASSUME TypeInv, ~native, NEW a \in Actors, Turn(a), NEW x, x[1] # "run", Call(a, <<x>>)
  PROVE  \A b \in Actors : FirstOK(todo[b])'
<1>1. PICK u : u = <<x>>
  OBVIOUS
<1>2. SparesOuter(u)
  BY <1>1 DEF SparesOuter
<1>3. FirstOK(u)'
  BY <1>2, NoneToRun
<1>4. Call(a, u)
  BY <1>1
<1> QED BY <1>3, <1>4, FirstCall

\* The cleanups of a nested effect, or what needs no cleanup, is next on the stack.
LEMMA FirstGoesOn ==
  ASSUME TypeInv, GoneInv, NEW a \in Actors, Continue(a), todo[a] # <<>>, FirstOK(todo[a]),
         NEW items \in Seq(StackItems), GoesOn(a, items), NEW u, u = todo'[a]
  PROVE  FirstOK(u)'
<1>1. PICK s : s = todo[a]
  OBVIOUS
<1>2. /\ s \in Seq(StackItems) /\ s # <<>> /\ FirstOK(s) /\ u = items \o Tail(s)
      /\ runs' = runs /\ parent' = parent
  <2>1. s \in Seq(StackItems) /\ s # <<>> /\ FirstOK(s)
    BY <1>1 DEF TypeInv, Stacks
  <2>2. u = items \o Tail(s)
    BY <1>1, Pushed DEF TypeInv, GoesOn
  <2>3. runs' = runs /\ parent' = parent
    BY DEF Continue
  <2> QED BY <2>1, <2>2, <2>3
<1>3. SparesOuter(items)
  <2> SUFFICES ASSUME NEW k \in 1..Len(items), NEW r \in Runs, items[k] = <<"run", Outer, r>>
               PROVE  FALSE
    BY DEF SparesOuter
  <2>1. items[k] \in ToSet(items)
    BY Elements
  <2>2. items[k][1] # "run"
    BY <2>1 DEF GoesOn, CleansNothing
  <2> QED BY <2>2
<1>4. CountsRuns(s)
  <2> SUFFICES ASSUME NEW i \in Inner, NEW p \in 1..runs[i], ran'[i][p] = 0
               PROVE  ran[i][p] = 0 /\ Head(s) # <<"run", i, p>>
    BY DEF CountsRuns
  <2>1. i \in Effects /\ p \in Runs /\ ran \in [Effects -> [Runs -> Nat]]
    BY RunsOf
  <2>2. CASE Head(todo[a])[1] = "run"
    <3>1. RunCleanup(a) /\ RunItem(Head(todo[a]))
      BY <2>2, ByKind, HeadItem DEF TypeInv
    <3>2. PICK e \in Effects, r \in Runs : Head(todo[a]) = <<"run", e, r>>
      BY <3>1 DEF RunItem
    <3>3. ran' = [ran EXCEPT ![e][r] = @ + 1]
      <4>1. Head(todo[a])[2] = e /\ Head(todo[a])[3] = r
        BY <3>2
      <4> QED BY <3>1, <4>1, Zenon DEF RunCleanup
    <3>4. ran'[e][r] # 0
      BY <2>1, <3>3
    <3>5. ~(i = e /\ p = r)
      BY <3>4
    <3>6. ran'[i][p] = ran[i][p]
      BY <2>1, <3>3, <3>5
    <3>7. Head(s) # <<"run", i, p>>
      BY <1>1, <3>2, <3>5
    <3> QED BY <3>6, <3>7
  <2>3. CASE Head(todo[a])[1] # "run"
    <3>1. ran' = ran
      BY <2>3, ContinueCases DEF CleanupOwner, RunCleanup, Release, RemoveNodes, DropRef,
           CloseChannel, MarkDirty, NotifyWakes, PauseOwner
    <3>2. Head(s) # <<"run", i, p>>
      BY <1>1, <2>3
    <3> QED BY <3>1, <3>2
  <2> QED BY <2>2, <2>3
<1>5. KeepsCleanups(s, items)
  <2> SUFFICES ASSUME NEW i \in Inner, NEW p \in ToSet(own[i].cleanups)
               PROVE  p \in ToSet(own'[i].cleanups) /\ Head(s) # Item("cleanup", i)
    BY DEF KeepsCleanups
  <2>1. i \in Effects /\ i \in Owners
    BY DEF Effects, Owners
  <2>2. own'[i].cleanups = own[i].cleanups
    BY <2>1 DEF GoesOn, SameLists
  <2>3. own[i].cleanups # <<>>
    BY NoItem
  <2>4. held[i] # {}
    BY <2>1, <2>3 DEF GoneInv
  <2>5. Head(todo[a]) # Item("cleanup", i)
    BY <2>4 DEF GoesOn, Item
  <2> QED BY <1>1, <2>2, <2>5
<1> QED BY <1>2, <1>3, <1>4, <1>5, FirstShift

\* The cleanups of an owner are next on the stack.
LEMMA FirstGoes ==
  ASSUME TypeInv, CleanInv, ChildInv, ~native, NEW a \in Actors, Continue(a), LastOK(todo[a]),
         todo[a] # <<>>, FirstOK(todo[a]), NEW o \in Effects, NEW items \in Seq(StackItems),
         Goes(a, o, items), NEW u, u = todo'[a]
  PROVE  FirstOK(u)'
<1>1. PICK s : s = todo[a]
  OBVIOUS
<1>2. /\ s \in Seq(StackItems) /\ s # <<>> /\ FirstOK(s) /\ LastOK(s) /\ u = items \o Tail(s)
      /\ runs' = runs /\ parent' = parent /\ ran' = ran /\ Turn(a) /\ own' = Taken(o)
  <2>1. s \in Seq(StackItems) /\ s # <<>> /\ FirstOK(s) /\ LastOK(s)
    BY <1>1 DEF TypeInv, Stacks
  <2>2. u = items \o Tail(s) /\ own' = Taken(o)
    BY <1>1, Pushed DEF TypeInv, Goes
  <2>3. runs' = runs /\ parent' = parent /\ Turn(a)
    BY DEF Continue
  <2>4. Head(todo[a])[1] \in {"cleanup", "release"}
    BY DEF Goes, Item
  <2>5. CleanupOwner(a) \/ Release(a)
    BY <2>4, ByKind
  <2>6. ran' = ran
    BY <2>5 DEF CleanupOwner, Release
  <2> QED BY <2>1, <2>2, <2>3, <2>6
<1>3. /\ Head(s) \in {Item("cleanup", o), Item("release", o)}
      /\ items \in {CleanupOrder(o), CleanupOrder(o) \o <<Item("release", o)>>}
  BY <1>1 DEF Goes
<1>4. /\ CleanupOrder(o) \in Seq(StackItems) /\ Len(items) \in Nat /\ Len(CleanupOrder(o)) \in Nat
      /\ Len(CleanupOrder(o)) <= Len(items)
      /\ \A k \in 1..Len(CleanupOrder(o)) : items[k] = CleanupOrder(o)[k]
      /\ \A k \in 1..Len(items) : k > Len(CleanupOrder(o)) => items[k] = Item("release", o)
  <2>1. PICK q : q = CleanupOrder(o)
    OBVIOUS
  <2>2. PICK p : p = q \o <<Item("release", o)>>
    OBVIOUS
  <2>3. /\ q \in Seq(StackItems) /\ p \in Seq(StackItems) /\ Len(p) = Len(q) + 1
        /\ p[Len(q) + 1] = Item("release", o) /\ \A k \in 1..Len(q) : p[k] = q[k]
    BY <2>1, <2>2, TakenItems
  <2>4. Len(q) \in Nat
    BY <2>3
  <2>5. CASE items = q
    BY <2>1, <2>3, <2>4, <2>5
  <2>6. CASE items = p
    <3>1. \A k \in 1..Len(p) : k > Len(q) => k = Len(q) + 1
      BY <2>3, <2>4
    <3> QED BY <2>1, <2>3, <2>4, <2>6, <3>1
  <2> QED BY <1>3, <2>1, <2>2, <2>5, <2>6
<1>5. /\ u \in Seq(StackItems) /\ Len(u) = Len(items) + Len(s) - 1
      /\ \A k \in 1..Len(u) : u[k] = IF k <= Len(items) THEN items[k] ELSE s[k - Len(items) + 1]
  BY <1>2, Replaced
<1>6. Len(s) \in Nat /\ Len(u) \in Nat /\ 1 \in 1..Len(s) /\ Head(s) = s[1]
  BY <1>2, <1>5
<1>7. CASE o = Outer
  <2>1. \A k \in 1..Len(s) : k > 1 => s[k][1] = "remove"
    BY <1>2, <1>3, <1>6, <1>7 DEF LastOK, Lasts
  <2>2. \A k \in 1..Len(CleanupOrder(Outer)) : u[k] = CleanupOrder(Outer)[k]
    BY <1>4, <1>5, <1>6, <1>7
  <2>3. \A k \in 1..Len(u) : k > Len(CleanupOrder(Outer)) => u[k][1] # "run"
    <3> SUFFICES ASSUME NEW k \in 1..Len(u), k > Len(CleanupOrder(Outer)) PROVE u[k][1] # "run"
      OBVIOUS
    <3>1. CASE k <= Len(items)
      <4>1. u[k] = Item("release", Outer)
        BY <1>4, <1>5, <1>7, <3>1
      <4> QED BY <4>1 DEF Item
    <3>2. CASE k > Len(items)
      <4>1. PICK m : m = k - Len(items) + 1
        OBVIOUS
      <4>2. m \in 1..Len(s) /\ m > 1 /\ u[k] = s[m]
        BY <1>4, <1>5, <1>6, <3>2, <4>1
      <4> QED BY <2>1, <4>2
    <3> QED BY <1>4, <3>1, <3>2
  <2>4. \A b \in Actors, i \in Inner, p \in Runs : ~OnStack(b, i, p)
    <3> SUFFICES ASSUME NEW b \in Actors, NEW i \in Inner, NEW p \in Runs,
                        <<"run", i, p>> \in ToSet(todo[b])
                 PROVE  FALSE
      BY Zenon DEF OnStack
    <3>1. CASE b # a
      <4>1. todo[b] = <<>>
        BY <1>2, <3>1, OthersIdle
      <4> QED BY <4>1, NoItem
    <3>2. CASE b = a
      <4>0. PICK x : x = <<"run", i, p>>
        OBVIOUS
      <4>1. PICK k \in 1..Len(s) : s[k] = x
        <5>1. x \in ToSet(s)
          BY <1>1, <3>2, <4>0
        <5>2. s \in Seq(StackItems)
          BY <1>2
        <5> QED BY <5>1, <5>2, Elements
      <4>2. s[k][1] = "run"
        BY <4>0, <4>1
      <4>3. k = 1
        BY <1>6, <2>1, <4>2
      <4> QED BY <1>3, <1>6, <4>2, <4>3 DEF Item
    <3> QED BY <3>1, <3>2
  <2>5. own' = Taken(Outer)
    BY <1>2, <1>7
  <2> QED BY <1>2, <1>6, <2>2, <2>3, <2>4, <2>5, FirstTaken
<1>8. CASE o # Outer
  <2>0. o \in Inner /\ o \in Owners /\ Outer \in Effects /\ Inner \subseteq Effects
    BY <1>8 DEF Effects, Owners
  <2>1. SparesOuter(items)
    <3> SUFFICES ASSUME NEW k \in 1..Len(items), NEW r \in Runs, items[k] = <<"run", Outer, r>>
                 PROVE  FALSE
      BY DEF SparesOuter
    <3>1. k \in 1..Len(CleanupOrder(o))
      <4>1. items[k] # Item("release", o)
        BY DEF Item
      <4>2. ~(k > Len(CleanupOrder(o)))
        BY <1>4, <4>1
      <4> QED BY <1>4, <4>2
    <3>2. <<"run", Outer, r>> \in ToSet(CleanupOrder(o))
      <4>1. CleanupOrder(o)[k] \in ToSet(CleanupOrder(o))
        BY <1>4, <3>1, Elements
      <4> QED BY <1>4, <3>1, <4>1
    <3> QED BY <1>8, <2>0, <3>2, TakenElements
  <2>2. CountsRuns(s)
    <3>1. \A i, p : Head(s) # <<"run", i, p>>
      BY <1>3 DEF Item
    <3> QED BY <1>2, <3>1 DEF CountsRuns
  <2>3. KeepsCleanups(s, items)
    <3> SUFFICES ASSUME NEW i \in Inner, NEW p \in 1..runs[i], p \in ToSet(own[i].cleanups)
                 PROVE  \/ \E k \in 1..Len(items) : items[k] = <<"run", i, p>>
                        \/ p \in ToSet(own'[i].cleanups) /\ Head(s) # Item("cleanup", i)
      BY DEF KeepsCleanups
    <3>1. CASE i = o
      <4>1. p \in Runs
        BY RunsOf
      <4>2. <<"run", i, p>> \in ToSet(CleanupOrder(o))
        BY <2>0, <3>1, <4>1, TakenElements
      <4>3. PICK k \in 1..Len(CleanupOrder(o)) : CleanupOrder(o)[k] = <<"run", i, p>>
        BY <1>4, <4>2, Elements
      <4>4. k \in 1..Len(items) /\ items[k] = <<"run", i, p>>
        BY <1>4, <4>3
      <4> QED BY <4>4
    <3>2. CASE i # o
      <4>1. own'[i] = own[i]
        BY <1>2, <2>0, <3>2, TakenLeaves DEF TypeInv, Owners
      <4>2. Head(s) # Item("cleanup", i)
        BY <1>3, <3>2 DEF Item
      <4> QED BY <4>1, <4>2
    <3> QED BY <3>1, <3>2
  <2> QED BY <1>2, <2>1, <2>2, <2>3, FirstShift
<1> QED BY <1>7, <1>8

LEMMA FirstContinue ==
  ASSUME TypeInv, CleanInv, ChildInv, GoneInv, LastInv, FirstInv, ~native,
         NEW a \in Actors, Continue(a)
  PROVE  \A b \in Actors : FirstOK(todo[b])'
<1>1. PICK items \in Seq(StackItems) : GoesOn(a, items) \/ \E o \in Effects : Goes(a, o, items)
  BY Moves
<1>2. todo[a] # <<>> /\ Turn(a) /\ Then(a, items) /\ FirstOK(todo[a]) /\ LastOK(todo[a])
  BY <1>1, Moves DEF GoesOn, Goes, Continue, FirstInv, LastInv
<1>3. OthersStay(a)
  BY <1>2, Pushed DEF TypeInv, OthersStay
<1>4. PICK u : u = todo'[a]
  OBVIOUS
<1>5. FirstOK(u)'
  BY <1>1, <1>2, <1>4, FirstGoesOn, FirstGoes
<1> QED BY <1>2, <1>3, <1>4, <1>5, FirstAll

LEMMA FirstThread ==
  ASSUME TypeInv, ~native, NEW t \in Threads, ThreadCall(t)
  PROVE  \A b \in Actors : FirstOK(todo[b])'
<1>0. t \in Actors /\ Turn(t)
  BY DEF Actors, ThreadCall, Mark, Stop, CleanupRoot, PauseRoot, ResumeRoot
<1>1. CASE CleanupRoot(t)
  <2>1. PICK q : q = CleanupOrder(Root)
    OBVIOUS
  <2>2. /\ Root \in Owners /\ Outer \in Effects /\ Outer # Root /\ own[Root].cleanups = <<>>
        /\ Stacks /\ OwnOK
    BY LifecycleAssumption DEF LifecycleAssumption, Owners, Effects, TypeInv, OwnOK
  <2>3. q \in Seq(StackItems)
    BY <2>1, <2>2, CleanupPlaces
  <2>4. \A r \in Runs : <<"run", Outer, r>> \notin ToSet(q)
    BY <2>1, <2>2, TakenElements
  <2>5. \A k \in 1..Len(q) : q[k] \in ToSet(q)
    BY <2>3, Elements
  <2>6. SparesOuter(q)
    BY <2>4, <2>5 DEF SparesOuter
  <2>7. FirstOK(q)'
    BY <2>6, NoneToRun
  <2>8. Call(t, q)
    BY <1>1, <2>1 DEF CleanupRoot
  <2> QED BY <1>0, <2>7, <2>8, FirstCall
<1>2. CASE ~CleanupRoot(t)
  <2>1. \E x : x[1] # "run" /\ Call(t, <<x>>)
    <3>1. \A y : /\ Item("mark", y)[1] # "run" /\ Item("remove", y)[1] # "run"
                 /\ Item("pause", y)[1] # "run" /\ Item("resume", y)[1] # "run"
      BY DEF Item
    <3> QED BY <1>2, <3>1, Zenon DEF ThreadCall, Mark, Stop, PauseRoot, ResumeRoot
  <2> QED BY <1>0, <2>1, FirstOne
<1> QED BY <1>1, <1>2

LEMMA FirstWithCleanup ==
  ASSUME TypeInv, CleanInv, ChildInv, ~native, NEW e \in Effects, WithCleanup(e)
  PROVE  \A b \in Actors : FirstOK(todo[b])'
<1>0. /\ Call(e, CleanupOrder(e)) /\ own' = Taken(e) /\ UNCHANGED <<runs, parent, ran>>
      /\ e \in Actors /\ Turn(e) /\ Outer \in Effects /\ e \in Owners
  <2>1. Call(e, CleanupOrder(e)) /\ own' = Taken(e) /\ UNCHANGED <<runs, parent, ran>> /\ Turn(e)
    BY DEF WithCleanup, BeforeRun, history, Ready
  <2>2. e \in Actors /\ Outer \in Effects /\ e \in Owners
    BY DEF Actors, Effects, Owners
  <2> QED BY <2>1, <2>2
<1>1. \A b \in Actors : todo[b] = <<>>
  BY AllQuiet DEF WithCleanup
<1>2. PICK u : u = CleanupOrder(e)
  OBVIOUS
<1>3. u \in Seq(StackItems) /\ Len(u) \in Nat
  <2>1. CleanupOrder(e) \in Seq(StackItems)
    BY TakenItems
  <2> QED BY <1>2, <2>1
<1>4. CASE e = Outer
  <2>1. \A b \in Actors, i \in Inner, p \in Runs : ~OnStack(b, i, p)
    BY <1>1, NoItem DEF OnStack
  <2>2. \A k \in 1..Len(u) : ~(k > Len(u))
    BY <1>3
  <2>3. FirstOK(u)'
    BY <1>0, <1>2, <1>3, <1>4, <2>1, <2>2, FirstTaken
  <2> QED BY <1>0, <1>2, <2>3, FirstCall
<1>5. CASE e # Outer
  <2>1. \A r \in Runs : <<"run", Outer, r>> \notin ToSet(u)
    BY <1>0, <1>2, <1>5, TakenElements
  <2>2. \A k \in 1..Len(u) : u[k] \in ToSet(u)
    BY <1>3, Elements
  <2>3. SparesOuter(u)
    BY <2>1, <2>2 DEF SparesOuter
  <2>4. FirstOK(u)'
    BY <2>3, NoneToRun
  <2> QED BY <1>0, <1>2, <2>4, FirstCall
<1> QED BY <1>4, <1>5

LEMMA FirstEndTask ==
  ASSUME TypeInv, ~native, NEW e \in Effects, EndTask(e)
  PROVE  \A b \in Actors : FirstOK(todo[b])'
<1> DEFINE kept == IF e = Outer THEN handles ELSE {}
           q == Items("remove", Singletons(kept))
           x == Item("release", e)
<1>1. Call(e, <<x>> \o q) /\ Turn(e) /\ e \in Actors
  BY DEF EndTask, Ready, Actors
<1>2. IsFiniteSet(kept) /\ kept \subseteq Effects
  <2>1. handles \subseteq Inner /\ Inner \subseteq Effects /\ IsFiniteSet(Inner)
    BY LifecycleAssumption DEF LifecycleAssumption, TypeInv, Types, Effects
  <2>2. IsFiniteSet(handles)
    BY <2>1, FS_Subset
  <2> QED BY <2>1, <2>2, FS_EmptySet
<1> HIDE DEF kept
<1>3. /\ q \in Seq(StackItems)
      /\ \A y \in ToSet(q) : \E f \in kept : y = Item("remove", <<f>>)
  BY <1>2, HandleItems
<1>4. x \in StackItems /\ x[1] # "run"
  BY DEF StackItems, Kinds, Item, Owners
<1> HIDE DEF q, x
<1>5. PICK u : u = <<x>> \o q
  OBVIOUS
<1>6. u \in Seq(StackItems) /\ \A y \in ToSet(u) : y = x \/ y \in ToSet(q)
  BY <1>3, <1>4, <1>5, PrefixedElements
<1>7. \A y \in ToSet(u) : y[1] # "run"
  <2>1. \A f : Item("remove", f)[1] # "run"
    BY DEF Item
  <2> QED BY <1>3, <1>4, <1>6, <2>1
<1>8. SparesOuter(u)
  <2>1. \A k \in 1..Len(u) : u[k] \in ToSet(u)
    BY <1>6, Elements
  <2> QED BY <1>7, <2>1 DEF SparesOuter
<1>9. FirstOK(u)'
  BY <1>8, NoneToRun
<1> QED BY <1>1, <1>5, <1>9, FirstCall

LEMMA FirstNext ==
  ASSUME TypeInv, CleanInv, ChildInv, GoneInv, LastInv, FirstInv, [Next]_vars
  PROVE  FirstInv'
<1> SUFFICES ASSUME ~native PROVE \A b \in Actors : FirstOK(todo[b])'
  BY NativeStays DEF FirstInv
<1>1. ASSUME NEW a \in Actors, Continue(a) PROVE \A b \in Actors : FirstOK(todo[b])'
  BY <1>1, FirstContinue
<1>2. ASSUME NEW t \in Threads, ThreadCall(t) PROVE \A b \in Actors : FirstOK(todo[b])'
  BY <1>2, FirstThread
<1>3. ASSUME NEW e \in Effects, Task(e) \/ Nested(e) PROVE \A b \in Actors : FirstOK(todo[b])'
  <2>1. CASE WithCleanup(e)
    BY <2>1, FirstWithCleanup
  <2>2. CASE EndTask(e)
    BY <2>2, FirstEndTask
  <2>3. CASE ~WithCleanup(e) /\ ~EndTask(e)
    <3>1. \A y : /\ Item("close", y)[1] # "run" /\ Item("drop", y)[1] # "run"
                 /\ Item("remove", y)[1] # "run"
      BY DEF Item
    <3>2. /\ \E s : Ready(e, s)
          /\ UNCHANGED todo \/ \E x : x[1] # "run" /\ Call(e, <<x>>)
      BY <1>3, <2>3, <3>1, Zenon DEF Task, Nested, Poll, StartPoll, Upgrade, Register, Swap, EndPoll,
           Check, RunBody, EndBody, SpawnEffect, SpawnRenderEffect, DropHandle
    <3>3. Turn(e) /\ e \in Actors /\ \A b \in Actors : todo[b] = <<>>
      BY <3>2, AllQuiet DEF Ready, Actors
    <3>4. CASE UNCHANGED todo
      BY <3>3, <3>4, EmptyFirst
    <3>5. CASE \E x : x[1] # "run" /\ Call(e, <<x>>)
      BY <3>3, <3>5, FirstOne
    <3> QED BY <3>2, <3>4, <3>5
  <2> QED BY <2>1, <2>2, <2>3
<1>4. CASE UNCHANGED vars
  <2>1. UNCHANGED <<own, runs, parent, ran, todo>>
    BY <1>4 DEF vars, history, owners
  <2>2. ASSUME NEW b \in Actors PROVE FirstOK(todo[b])'
    <3>1. FirstOK(todo[b])
      BY DEF FirstInv
    <3>2. PICK u : u = todo[b]
      OBVIOUS
    <3>3. FirstOK(u) /\ u = todo'[b]
      BY <2>1, <3>1, <3>2
    <3>4. FirstOK(u)'
      <4> SUFFICES ASSUME NEW k \in 1..Len(u), NEW r \in Runs, NEW i \in Inner,
                          u[k] = <<"run", Outer, r>>, parent'[i] = r,
                          NEW p \in 1..runs'[i], ran'[i][p] = 0
                   PROVE  Before(u, k, i, p)'
        BY Zenon DEF FirstOK
      <4>1. Before(u, k, i, p)
        BY <2>1, <3>3 DEF FirstOK
      <4> QED BY <2>1, <4>1 DEF Before
    <3> QED BY <3>3, <3>4, FirstAs
  <2> QED BY <2>2
<1> QED BY <1>1, <1>2, <1>3, <1>4, NextCases

\* A cleanup function runs only from the top of a stack.
LEMMA CountsUp ==
  ASSUME TypeInv, [Next]_vars, NEW e \in Effects, NEW r \in Runs, ran'[e][r] > ran[e][r]
  PROVE  \E a \in Actors : todo[a] # <<>> /\ Head(todo[a]) = <<"run", e, r>>
<1>0. ran \in [Effects -> [Runs -> Nat]]
  BY DEF TypeInv, Types
<1>1. ASSUME ran' = ran PROVE FALSE
  <2>1. ran[e][r] \in Nat
    BY <1>0
  <2> QED BY <1>1, <2>1
<1>2. PICK a \in Actors : Continue(a)
  <2>1. ASSUME NEW t \in Threads, ThreadCall(t) PROVE ran' = ran
    BY <2>1 DEF ThreadCall, Mark, Stop, CleanupRoot, PauseRoot, ResumeRoot, history
  <2>2. ASSUME NEW f \in Effects, Task(f) \/ Nested(f) PROVE ran' = ran
    BY <2>2 DEF Task, Nested, Poll, StartPoll, Upgrade, Register, Swap, EndPoll, Check, WithCleanup,
         RunBody, EndBody, EndTask, SpawnEffect, SpawnRenderEffect, DropHandle, history
  <2>3. CASE UNCHANGED vars
    BY <1>1, <2>3 DEF vars, history
  <2> QED BY <1>1, <2>1, <2>2, <2>3, NextCases
<1>3. RunCleanup(a) /\ todo[a] # <<>>
  BY <1>1, <1>2, ContinueCases DEF Continue, CleanupOwner, Release, RemoveNodes, DropRef,
       CloseChannel, MarkDirty, NotifyWakes, PauseOwner
<1>4. RunItem(Head(todo[a]))
  BY <1>3, HeadItem DEF TypeInv, RunCleanup
<1>5. PICK f \in Effects, q \in Runs : Head(todo[a]) = <<"run", f, q>>
  BY <1>4 DEF RunItem
<1>6. ran' = [ran EXCEPT ![f][q] = @ + 1]
  <2>1. Head(todo[a])[2] = f /\ Head(todo[a])[3] = q
    BY <1>5
  <2> QED BY <1>3, <2>1, Zenon DEF RunCleanup
<1>7. ASSUME ~(e = f /\ r = q) PROVE FALSE
  <2>1. ran'[e][r] = ran[e][r]
    BY <1>0, <1>6, <1>7
  <2>2. ran[e][r] \in Nat
    BY <1>0
  <2> QED BY <2>1, <2>2
<1> QED BY <1>3, <1>5, <1>7

\* On one thread the cleanups of the effects that a run created run before the ones of the run
\* itself, whether the run is cleaned for the next one, with an owner above it, or when its task
\* ends (Cleanup for RwLock<OwnerInner> in owner.rs: children, then functions, then nodes).
THEOREM NestedFirst == Spec => InnerCleanedFirst
<1> DEFINE Inv == ParentInv /\ ChildInv /\ GoneInv /\ RootInv /\ LastInv /\ FirstInv
           Step == \A r \in Runs : ran'[Outer][r] > ran[Outer][r] /\ ~native =>
                     \A i \in Inner : parent[i] = r => \A s \in 1..runs[i] : ran[i][s] = 1
<1>1. Init => Inv
  <2> SUFFICES ASSUME Init PROVE Inv
    OBVIOUS
  <2>0. /\ Outer \in Effects /\ Effects \subseteq Owners /\ Root \in Owners /\ Root \notin Effects
        /\ own = [o \in Owners |->
             IF o = Root THEN [Empty EXCEPT !.children = <<Outer>>, !.nodes = <<Outer>>] ELSE Empty]
        /\ runs = [e \in Effects |-> 0] /\ parent = [e \in Inner |-> 0]
        /\ todo = [a \in Actors |-> <<>>]
    BY LifecycleAssumption DEF LifecycleAssumption, Effects, Owners, Init
  <2>1. ParentInv
    BY <2>0 DEF ParentInv
  <2>2. \A e \in Effects : own[e].cleanups = <<>>
    BY <2>0 DEF Empty
  <2>3. ChildInv
    BY <2>0, <2>2, NoItem DEF ChildInv
  <2>4. GoneInv
    BY <2>2 DEF GoneInv
  <2>5. RootInv
    BY <2>0 DEF RootInv, Empty
  <2>6. LastInv
    BY <2>0 DEF LastInv, LastOK
  <2>7. FirstInv
    BY <2>0 DEF FirstInv, FirstOK
  <2> QED BY <2>1, <2>3, <2>4, <2>5, <2>6, <2>7
<1>2. TypeInv /\ CleanInv /\ Inv /\ [Next]_vars => Inv'
  BY ParentNext, ChildNext, GoneNext, RootNext, LastNext, FirstNext
<1>3. TypeInv /\ CleanInv /\ Inv /\ [Next]_vars => Step
  <2> SUFFICES ASSUME TypeInv, CleanInv, FirstInv, [Next]_vars, NEW r \in Runs,
                      ran'[Outer][r] > ran[Outer][r], ~native,
                      NEW i \in Inner, parent[i] = r, NEW s \in 1..runs[i]
               PROVE  ran[i][s] = 1
    OBVIOUS
  <2>1. Outer \in Effects /\ i \in Effects
    BY DEF Effects
  <2>2. PICK a \in Actors : todo[a] # <<>> /\ Head(todo[a]) = <<"run", Outer, r>>
    BY <2>1, CountsUp
  <2>3. PICK q : q = todo[a]
    OBVIOUS
  <2>4. q \in Seq(StackItems) /\ FirstOK(q)
    BY <2>3 DEF TypeInv, Stacks, FirstInv
  <2>5. 1 \in 1..Len(q) /\ q[1] = <<"run", Outer, r>>
    BY <2>2, <2>3, <2>4
  <2>6. ran[i][s] = 0 => Before(q, 1, i, s)
    BY <2>4, <2>5 DEF FirstOK
  <2>7. ~Before(q, 1, i, s)
    BY DEF Before
  <2>8. s \in Runs /\ ran[i][s] \in Nat
    BY RunsOf
  <2>9. ran[i][s] <= 1
    BY <2>1, <2>8 DEF CleanInv, Accounted
  <2> QED BY <2>6, <2>7, <2>8, <2>9
<1>4. Spec => []TypeInv /\ []CleanInv
  BY AlwaysTyped, AlwaysClean
<1>5. TypeInv /\ CleanInv /\ Inv /\ [Next]_vars => [Step]_vars
  BY <1>3
<1> HIDE DEF Inv
<1>6. Spec => [][Step]_vars
  BY <1>1, <1>2, <1>5, <1>4, PTL DEF Spec
<1> QED BY <1>6 DEF InnerCleanedFirst
=============================================================================
