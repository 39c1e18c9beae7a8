--------------------------- MODULE ListDiffProofs ---------------------------
(***************************************************************************)
(* What the plan of a keyed list update promises, for lists of any length: *)
(* it accounts for every row, and the rows that it leaves where they are   *)
(* on the page are in the order of the new list.                           *)
(***************************************************************************)
EXTENDS ListDiff, FiniteSetTheorems, FunctionTheorems, WellFoundedInduction, TLAPS

\* A key set has each key once.
KeySet(K) == {q \in Seq(K) : \A i, j \in 1..Len(q) : q[i] = q[j] => i = j}

\* The rows that are kept, and their new indices.
Kept(from, to) == {i \in 1..Len(from) : Has(to, from[i])}
New(from, to, i) == IndexOf(to, from[i])

\* A row that is kept and that the update does not mount again.
LeftInPlace(from, to, i) == i \in Kept(from, to) /\ ~MoveInDom(from, to)[i]

-----------------------------------------------------------------------------
(* Indices *)

LEMMA LeastOf ==
  ASSUME NEW S \in SUBSET Nat, S # {} PROVE \E x \in S : \A y \in S : x <= y
<1> DEFINE R == OpToRel(<, Nat)
<1>1. IsWellFoundedOn(R, Nat) BY NatLessThanWellFounded, Zenon
<1>2. \A x, y \in Nat : x < y => <<x, y>> \in R BY DEF OpToRel
<1> HIDE DEF R
<1>3. PICK x \in S : \A y \in S : ~ (<<y, x>> \in R)
  BY <1>1, WFMin
<1>4. \A y \in S : ~(y < x) BY <1>2, <1>3
<1> QED BY <1>4

LEMMA NewIndex ==
  ASSUME NEW K, NEW from \in KeySet(K), NEW to \in KeySet(K), NEW i \in Kept(from, to)
  PROVE  New(from, to, i) \in 1..Len(to) /\ to[New(from, to, i)] = from[i]
<1>1. \E k \in 1..Len(to) : to[k] = from[i] BY DEF Kept, Has
<1> QED BY <1>1 DEF New, IndexOf

\* No two rows get one index.
LEMMA NewDiffers ==
  ASSUME NEW K, NEW from \in KeySet(K), NEW to \in KeySet(K), NEW i \in Kept(from, to),
         NEW j \in Kept(from, to), New(from, to, i) = New(from, to, j)
  PROVE  i = j
<1>1. from[i] = from[j] BY NewIndex
<1>2. i \in 1..Len(from) /\ j \in 1..Len(from) BY DEF Kept
<1> QED BY <1>1, <1>2 DEF KeySet

\* A row that stays keeps its index.
LEMMA StaysThere ==
  ASSUME NEW K, NEW from \in KeySet(K), NEW to \in KeySet(K), NEW i \in 1..Len(from),
         Stays(from, to, i)
  PROVE  i \in Kept(from, to) /\ New(from, to, i) = i
<1>1. i \in 1..Len(to) /\ to[i] = from[i]
  <2>1. Len(from) \in Nat /\ Len(to) \in Nat BY DEF KeySet
  <2> QED BY <2>1 DEF Stays
<1>2. i \in Kept(from, to) BY <1>1 DEF Kept, Has
<1>3. New(from, to, i) \in 1..Len(to) /\ to[New(from, to, i)] = from[i] BY <1>2, NewIndex
<1> QED BY <1>1, <1>2, <1>3 DEF KeySet

-----------------------------------------------------------------------------
(* Which rows move on the page *)

\* A row goes with the one before it.
Follows(from, to, i) ==
  /\ i \in Moved(from, to) /\ i - 1 \in Moved(from, to)
  /\ New(from, to, i - 1) + 1 = New(from, to, i)
Goes(from, to, i) ==
  i \in Moved(from, to) /\ (Shifts(from, to, i) \/ PassesARowThatStays(from, to, i))

\* The equation that defines the plan has a solution: a row moves if the first row of its run
\* does.
LEMMA MoveEquation ==
  ASSUME NEW K, NEW from \in KeySet(K), NEW to \in KeySet(K)
  PROVE  \A i \in 1..Len(from) :
           LET moves == MoveInDom(from, to) IN
           /\ Follows(from, to, i) => (moves[i] <=> moves[i - 1])
           /\ ~Follows(from, to, i) => (moves[i] <=> Goes(from, to, i))
<1> DEFINE n == Len(from)
           Run(h, i) == \A k \in (h + 1)..i : Follows(from, to, k)
           g == [i \in 1..n |->
                  \E h \in 1..i : ~Follows(from, to, h) /\ Goes(from, to, h) /\ Run(h, i)]
           M(f, i) == /\ i \in Moved(from, to)
                      /\ IF /\ i - 1 \in Moved(from, to)
                            /\ IndexOf(to, from[i - 1]) + 1 = IndexOf(to, from[i])
                         THEN f[i - 1]
                         ELSE Shifts(from, to, i) \/ PassesARowThatStays(from, to, i)
<1>1. n \in Nat /\ Moved(from, to) \subseteq 1..n BY DEF KeySet, Moved
<1>2. \A i \in 1..n : g[i] <=> \E h \in 1..i : ~Follows(from, to, h) /\ Goes(from, to, h) /\ Run(h, i)
  OBVIOUS
<1> HIDE DEF g
<1>3. ASSUME NEW i \in 1..n, Follows(from, to, i) PROVE g[i] <=> g[i - 1]
  <2>1. i - 1 \in 1..n BY <1>1, <1>3 DEF Follows
  <2>2. ASSUME NEW h \in 1..i, ~Follows(from, to, h), Goes(from, to, h), Run(h, i)
        PROVE  g[i - 1]
    <3>1. h # i BY <1>3, <2>2
    <3>2. h \in 1..(i - 1) BY <3>1, <1>1
    <3>3. Run(h, i - 1) BY <2>2, <1>1
    <3> QED BY <1>2, <2>1, <2>2, <3>2, <3>3
  <2>3. ASSUME NEW h \in 1..(i - 1), ~Follows(from, to, h), Goes(from, to, h), Run(h, i - 1)
        PROVE  g[i]
    <3>1. h \in 1..i BY <1>1
    <3>2. \A k \in (h + 1)..i : k = i \/ k \in (h + 1)..(i - 1) BY <1>1
    <3>3. Run(h, i) BY <1>3, <2>3, <3>2
    <3> QED BY <1>2, <2>3, <3>1, <3>3
  <2>4. g[i] => g[i - 1] BY <1>2, <2>2
  <2>5. g[i - 1] => g[i] BY <1>2, <2>1, <2>3
  <2> QED BY <2>4, <2>5
<1>4. ASSUME NEW i \in 1..n, ~Follows(from, to, i) PROVE g[i] <=> Goes(from, to, i)
  <2>1. ASSUME NEW h \in 1..i, Goes(from, to, h), Run(h, i) PROVE Goes(from, to, i)
    <3>1. h = i
      <4>1. h # i => i \in (h + 1)..i BY <1>1
      <4> QED BY <1>4, <2>1, <4>1
    <3> QED BY <2>1, <3>1
  <2>2. i \in 1..i /\ Run(i, i) BY <1>1
  <2> QED BY <1>2, <1>4, <2>1, <2>2
<1>5. /\ \A f, i : Follows(from, to, i) => (M(f, i) <=> f[i - 1])
      /\ \A f, i : ~Follows(from, to, i) => (M(f, i) <=> Goes(from, to, i))
  BY Zenon DEF Follows, Goes, New
<1>6. \A i \in 1..n : g[i] \in BOOLEAN
  <2>1. g = [i \in 1..n |-> \E h \in 1..i : ~Follows(from, to, h) /\ Goes(from, to, h) /\ Run(h, i)]
    BY DEF g
  <2> QED BY <2>1
<1>7. \A i \in 1..n : M(g, i) <=> g[i] BY <1>3, <1>4, <1>5
<1>8. \A f, i : M(f, i) \in BOOLEAN OBVIOUS
<1> HIDE DEF M, Run
<1>9. \E f : f = [i \in 1..n |-> M(f, i)]
  <2>1. \A i \in 1..n : M(g, i) = g[i] BY <1>6, <1>7, <1>8, Zenon
  <2>2. g = [i \in 1..n |-> M(g, i)] BY <2>1, Zenon DEF g
  <2> QED BY <2>2
<1> DEFINE T == CHOOSE f : f = [i \in 1..n |-> M(f, i)]
<1>10. T = [i \in 1..n |-> M(T, i)] BY <1>9
<1>11. MoveInDom(from, to) = T BY Zenon DEF MoveInDom, M
<1> HIDE DEF T
<1>12. \A i \in 1..n : T[i] <=> M(T, i) BY <1>8, <1>10
<1> QED BY <1>5, <1>11, <1>12

\* A row that is left in place either stays at its index, or is in a run of rows that move by
\* as many places each, and of which the first is where the removals and additions put it.
Fixed(from, to, h) ==
  ~Shifts(from, to, h) /\ ~PassesARowThatStays(from, to, h)
Block(from, to, h, i) ==
  \A k \in h..i : k \in Kept(from, to) /\ New(from, to, k) = New(from, to, h) + (k - h)

LEMMA LeftForm ==
  ASSUME NEW K, NEW from \in KeySet(K), NEW to \in KeySet(K), NEW i \in 1..Len(from),
         LeftInPlace(from, to, i)
  PROVE  \E h \in 1..i : /\ Stays(from, to, h) \/ Fixed(from, to, h)
                         /\ Block(from, to, h, i)
<1>1. /\ Len(from) \in Nat /\ Len(to) \in Nat /\ Moved(from, to) \subseteq Kept(from, to)
      /\ i \in Kept(from, to) /\ New(from, to, i) \in Int
  <2>1. i \in Kept(from, to) BY DEF LeftInPlace
  <2> QED BY <2>1, NewIndex DEF KeySet, Moved, Kept
<1>2. CASE Stays(from, to, i)
  <2>1. Block(from, to, i, i) BY <1>1 DEF Block
  <2> QED BY <1>2, <2>1
<1>3. CASE ~Stays(from, to, i)
  <2> DEFINE Good(h) ==
        \A k \in h..i : /\ k \in Moved(from, to) /\ ~MoveInDom(from, to)[k]
                        /\ New(from, to, k) = New(from, to, h) + (k - h)
             S == {h \in 1..i : Good(h)}
  <2>1. i \in S
    <3>1. i \in Moved(from, to) BY <1>1, <1>3 DEF Moved, Kept
    <3>2. ~MoveInDom(from, to)[i] BY DEF LeftInPlace
    <3>3. \A k \in i..i : k = i BY <1>1
    <3> QED BY <1>1, <3>1, <3>2, <3>3
  <2>2. S \in SUBSET Nat BY <1>1
  <2>3. PICK h \in S : \A y \in S : h <= y BY <2>1, <2>2, LeastOf
  <2>4. h \in 1..i /\ h \in 1..Len(from) /\ Good(h) BY <1>1
  <2>5. h \in Moved(from, to) /\ ~MoveInDom(from, to)[h]
    <3>1. h \in h..i BY <2>4
    <3> QED BY <2>4, <3>1
  <2>6. ~Follows(from, to, h)
    <3> SUFFICES ASSUME Follows(from, to, h) PROVE FALSE OBVIOUS
    <3>1. /\ h - 1 \in Moved(from, to) /\ h - 1 \in 1..i /\ ~MoveInDom(from, to)[h - 1]
          /\ New(from, to, h - 1) + 1 = New(from, to, h)
      <4>1. h - 1 \in Moved(from, to) BY DEF Follows
      <4>2. h - 1 \in 1..Len(from) BY <4>1 DEF Moved
      <4> QED BY <2>4, <2>5, <4>1, <4>2, MoveEquation DEF Follows
    <3>2. New(from, to, h - 1) \in Int
      BY <1>1, <3>1, NewIndex
    <3>3. ASSUME NEW k \in (h - 1)..i
          PROVE  /\ k \in Moved(from, to) /\ ~MoveInDom(from, to)[k]
                 /\ New(from, to, k) = New(from, to, h - 1) + (k - (h - 1))
      <4>1. CASE k = h - 1 BY <2>4, <3>1, <3>2, <4>1
      <4>2. CASE k # h - 1
        <5>1. k \in h..i BY <2>4, <4>2
        <5>2. /\ k \in Moved(from, to) /\ ~MoveInDom(from, to)[k]
              /\ New(from, to, k) = New(from, to, h) + (k - h)
          BY <2>4, <5>1
        <5> QED BY <2>4, <3>1, <3>2, <5>2
      <4> QED BY <4>1, <4>2
    <3>4. h - 1 \in S BY <3>1, <3>3
    <3>5. ~(h <= h - 1) BY <2>4
    <3> QED BY <2>3, <3>4, <3>5
  <2>7. Fixed(from, to, h)
    <3>1. ~Goes(from, to, h) BY <2>4, <2>5, <2>6, MoveEquation
    <3> QED BY <2>5, <3>1 DEF Goes, Fixed
  <2>8. Block(from, to, h, i) BY <1>1, <2>4 DEF Block
  <2> QED BY <2>4, <2>7, <2>8
<1> QED BY <1>2, <1>3

-----------------------------------------------------------------------------
(* Counting *)

\* What a row that is kept passes by: fewer removals than rows, and no fewer additions.
LEMMA CountsGrow ==
  ASSUME NEW K, NEW from \in KeySet(K), NEW to \in KeySet(K), NEW i \in Kept(from, to),
         NEW j \in Kept(from, to), i < j
  PROVE  /\ UpTo(Removed(from, to), i) \in Nat /\ UpTo(Removed(from, to), j) \in Nat
         /\ UpTo(Added(from, to), i) \in Nat /\ UpTo(Added(from, to), j) \in Nat
         /\ UpTo(Removed(from, to), j) < UpTo(Removed(from, to), i) + (j - i)
         /\ UpTo(Added(from, to), i) <= UpTo(Added(from, to), j)
<1> DEFINE R(k) == {x \in Removed(from, to) : x <= k}
           A(k) == {x \in Added(from, to) : x <= k}
           B == (i + 1)..(j - 1)
<1>1. i \in Nat /\ j \in Nat /\ Len(from) \in Nat /\ Len(to) \in Nat
  BY DEF Kept, KeySet
<1>2. IsFiniteSet(1..Len(from)) /\ IsFiniteSet(1..Len(to)) BY <1>1, FS_Interval
<1>3. \A k : R(k) \in SUBSET (1..Len(from)) /\ A(k) \in SUBSET (1..Len(to))
  BY DEF Removed, Added
<1>4. \A k : IsFiniteSet(R(k)) /\ IsFiniteSet(A(k)) BY <1>2, <1>3, FS_Subset
<1>5. \A k : Cardinality(R(k)) \in Nat /\ Cardinality(A(k)) \in Nat
  BY <1>4, FS_CardinalityType
<1>6. IsFiniteSet(B) /\ Cardinality(B) = j - 1 - i
  <2>1. i + 1 \in Int /\ j - 1 \in Int BY <1>1
  <2>2. /\ IsFiniteSet(B)
        /\ Cardinality(B) = IF i + 1 > j - 1 THEN 0 ELSE j - 1 - (i + 1) + 1
    BY <2>1, FS_Interval
  <2> QED BY <1>1, <2>2
<1>7. R(j) \in SUBSET (R(i) \cup B)
  <2>1. j \notin Removed(from, to) BY DEF Removed, Kept
  <2>2. ASSUME NEW x \in R(j), x \notin R(i) PROVE x \in B
    <3>1. x \in Nat /\ x <= j /\ x # j /\ ~(x <= i) BY <1>1, <2>1, <2>2 DEF Removed
    <3> QED BY <1>1, <3>1
  <2> QED BY <2>2
<1>8. Cardinality(R(j)) <= Cardinality(R(i)) + Cardinality(B)
  <2> HIDE DEF R, B
  <2>1. /\ IsFiniteSet(R(i) \cup B)
        /\ Cardinality(R(i) \cup B) =
             Cardinality(R(i)) + Cardinality(B) - Cardinality(R(i) \cap B)
    BY <1>4, <1>6, FS_Union
  <2>2. Cardinality(R(j)) <= Cardinality(R(i) \cup B) BY <1>7, <2>1, FS_Subset
  <2>3. Cardinality(R(i) \cap B) \in Nat
    <3>1. IsFiniteSet(R(i) \cap B) BY <1>4, FS_Intersection
    <3> QED BY <3>1, FS_CardinalityType
  <2>4. Cardinality(B) \in Nat BY <1>6, FS_CardinalityType
  <2>5. /\ Cardinality(R(i)) \in Nat /\ Cardinality(R(j)) \in Nat
        /\ Cardinality(R(i) \cup B) \in Nat
    BY <1>5, <2>1, FS_CardinalityType
  <2> QED BY <2>1, <2>2, <2>3, <2>4, <2>5
<1>9. Cardinality(A(i)) <= Cardinality(A(j))
  <2>1. A(i) \in SUBSET A(j) BY <1>1 DEF Added
  <2> HIDE DEF A
  <2> QED BY <1>4, <2>1, FS_Subset
<1>10. \A k : /\ UpTo(Removed(from, to), k) = Cardinality(R(k))
              /\ UpTo(Added(from, to), k) = Cardinality(A(k))
  BY DEF UpTo
<1> HIDE DEF R, A, B
<1> QED BY <1>1, <1>5, <1>6, <1>8, <1>9, <1>10

\* stays_before tells whether a row that stays lies between the old index and the new.
LEMMA PassesIt ==
  ASSUME NEW K, NEW from \in KeySet(K), NEW to \in KeySet(K), NEW i \in Kept(from, to),
         NEW s \in 1..Len(from), Stays(from, to, s),
         Smaller(i, New(from, to, i)) < s, s < Larger(i, New(from, to, i))
  PROVE  PassesARowThatStays(from, to, i)
<1> DEFINE a == Smaller(i, New(from, to, i))
           b == Larger(i, New(from, to, i))
           Staying(k) == {j \in 1..(k - 1) : Stays(from, to, j)}
           P == Staying(b)
           Q == Staying(a + 1)
<1>1. a \in Nat /\ b \in Nat /\ s \in Nat
  BY NewIndex DEF Kept, KeySet, Smaller, Larger
<1>2. Q \in SUBSET P /\ s \in P /\ s \notin Q
  <2> HIDE DEF a, b
  <2>1. a < s /\ s < b BY DEF a, b
  <2> QED BY <1>1, <2>1
<1>3. IsFiniteSet(P)
  <2> HIDE DEF b
  <2>1. IsFiniteSet(1..(b - 1)) BY <1>1, FS_Interval
  <2> QED BY <2>1, FS_Subset
<1>4. Cardinality(P) > Cardinality(Q)
  <2> HIDE DEF P, Q
  <2>1. Cardinality(Q) <= Cardinality(P) /\ (Cardinality(P) = Cardinality(Q) => P = Q)
        /\ IsFiniteSet(Q)
    BY <1>2, <1>3, FS_Subset
  <2>2. Cardinality(P) \in Nat /\ Cardinality(Q) \in Nat BY <1>3, <2>1, FS_CardinalityType
  <2> QED BY <1>2, <2>1, <2>2
<1>5. \A k : StaysBefore(from, to, k) = Cardinality(Staying(k)) BY Zenon DEF StaysBefore
<1> HIDE DEF Staying
<1>6. StaysBefore(from, to, b) > StaysBefore(from, to, a + 1) BY <1>4, <1>5
<1> QED BY <1>6 DEF PassesARowThatStays, New

\* Rows that stay, or go where the removals and additions put them and past no row that stays,
\* are in one order in both lists.
LEMMA HeadsInOrder ==
  ASSUME NEW K, NEW from \in KeySet(K), NEW to \in KeySet(K), NEW g \in Kept(from, to),
         NEW h \in Kept(from, to), g < h, Stays(from, to, g) \/ Fixed(from, to, g),
         Stays(from, to, h) \/ Fixed(from, to, h)
  PROVE  New(from, to, g) < New(from, to, h)
<1>1. /\ g \in 1..Len(from) /\ h \in 1..Len(from) /\ g \in Nat /\ h \in Nat
      /\ New(from, to, g) \in Nat /\ New(from, to, h) \in Nat
  BY NewIndex DEF Kept, KeySet
<1>2. New(from, to, g) # New(from, to, h) BY <1>1, NewDiffers
<1>3. CASE Stays(from, to, g) /\ Stays(from, to, h) BY <1>1, <1>3, StaysThere
<1>4. CASE Stays(from, to, g) /\ Fixed(from, to, h)
  <2>1. New(from, to, g) = g BY <1>1, <1>4, StaysThere
  <2>2. ~(Smaller(h, New(from, to, h)) < g /\ g < Larger(h, New(from, to, h)))
    BY <1>1, <1>4, PassesIt DEF Fixed
  <2> QED BY <1>1, <1>2, <2>1, <2>2 DEF Smaller, Larger
<1>5. CASE Fixed(from, to, g) /\ Stays(from, to, h)
  <2>1. New(from, to, h) = h BY <1>1, <1>5, StaysThere
  <2>2. ~(Smaller(g, New(from, to, g)) < h /\ h < Larger(g, New(from, to, g)))
    BY <1>1, <1>5, PassesIt DEF Fixed
  <2> QED BY <1>1, <1>2, <2>1, <2>2 DEF Smaller, Larger
<1>6. CASE Fixed(from, to, g) /\ Fixed(from, to, h)
  <2> DEFINE R(k) == UpTo(Removed(from, to), k)
             A(k) == UpTo(Added(from, to), k)
  <2>1. g + A(g) = New(from, to, g) + R(g) /\ h + A(h) = New(from, to, h) + R(h)
    BY <1>6 DEF Fixed, Shifts, New
  <2>2. /\ R(g) \in Nat /\ R(h) \in Nat /\ A(g) \in Nat /\ A(h) \in Nat
        /\ R(h) < R(g) + (h - g) /\ A(g) <= A(h)
    BY CountsGrow
  <2> HIDE DEF R, A
  <2> QED BY <1>1, <2>1, <2>2
<1> QED BY <1>3, <1>4, <1>5, <1>6

\* The rows that an update leaves where they are on the page (list_diff.rs, DiffOpMove: such
\* a row's place "is already right, relative to the rows around it that do not move on the
\* page") are in the order of the new list, for key lists of any length.
THEOREM RowsLeftInOrder ==
  ASSUME NEW K, NEW from \in KeySet(K), NEW to \in KeySet(K), NEW i \in 1..Len(from),
         NEW j \in 1..Len(from), LeftInPlace(from, to, i), LeftInPlace(from, to, j), i < j
  PROVE  IndexOf(to, from[i]) < IndexOf(to, from[j])
<1>1. PICK g \in 1..i : /\ Stays(from, to, g) \/ Fixed(from, to, g)
                        /\ Block(from, to, g, i)
  BY LeftForm
<1>2. PICK h \in 1..j : /\ Stays(from, to, h) \/ Fixed(from, to, h)
                        /\ Block(from, to, h, j)
  BY LeftForm
<1>3. /\ i \in Nat /\ j \in Nat /\ g \in Nat /\ h \in Nat /\ g <= i /\ h <= j
      /\ Len(from) \in Nat
  BY DEF KeySet
<1>4. \A k \in g..i : k \in Kept(from, to) /\ New(from, to, k) = New(from, to, g) + (k - g)
  BY <1>1 DEF Block
<1>5. \A k \in h..j : k \in Kept(from, to) /\ New(from, to, k) = New(from, to, h) + (k - h)
  BY <1>2 DEF Block
<1>6. g \in Kept(from, to) /\ h \in Kept(from, to) BY <1>3, <1>4, <1>5
<1>7. New(from, to, g) \in Nat /\ New(from, to, h) \in Nat BY <1>6, NewIndex
<1>8. /\ New(from, to, i) = New(from, to, g) + (i - g)
      /\ New(from, to, j) = New(from, to, h) + (j - h)
  BY <1>3, <1>4, <1>5
<1>9. CASE h <= g
  <2>1. New(from, to, g) = New(from, to, h) + (g - h) BY <1>3, <1>5, <1>9
  <2> QED BY <1>3, <1>7, <1>8, <2>1 DEF New
<1>10. CASE g < h /\ h <= i
  <2>1. New(from, to, h) = New(from, to, g) + (h - g) BY <1>3, <1>4, <1>10
  <2> QED BY <1>3, <1>7, <1>8, <2>1 DEF New
<1>11. CASE i < h
  <2>1. New(from, to, g) < New(from, to, h) BY <1>1, <1>2, <1>3, <1>6, <1>11, HeadsInOrder
  <2>2. ~(New(from, to, h) <= New(from, to, g) + (i - g))
    <3> DEFINE x == g + (New(from, to, h) - New(from, to, g))
    <3> SUFFICES ASSUME New(from, to, h) <= New(from, to, g) + (i - g) PROVE FALSE OBVIOUS
    <3>1. x \in g..i BY <1>3, <1>7, <2>1
    <3>2. x \in Kept(from, to) /\ New(from, to, x) = New(from, to, h) BY <1>3, <1>4, <1>7, <3>1
    <3> HIDE DEF x
    <3>3. x = h BY <1>6, <3>2, NewDiffers
    <3> QED BY <1>3, <1>11, <3>1, <3>3
  <2> QED BY <1>3, <1>7, <1>8, <2>2 DEF New
<1> QED BY <1>3, <1>9, <1>10, <1>11

-----------------------------------------------------------------------------
(* The plan accounts for every row *)

\* The rows that are kept are moved to, or stay at, just the indices at which none is added.
Reused(from, to) == (1..Len(to)) \ Added(from, to)

LEMMA NewPlaces ==
  ASSUME NEW K, NEW from \in KeySet(K), NEW to \in KeySet(K)
  PROVE  [i \in Kept(from, to) |-> New(from, to, i)] \in Bijection(Kept(from, to), Reused(from, to))
<1> DEFINE F == [i \in Kept(from, to) |-> New(from, to, i)]
<1>1. \A i \in Kept(from, to) : New(from, to, i) \in Reused(from, to)
  <2> TAKE i \in Kept(from, to)
  <2>1. New(from, to, i) \in 1..Len(to) /\ to[New(from, to, i)] = from[i] BY NewIndex
  <2>2. i \in 1..Len(from) BY DEF Kept
  <2>3. Has(from, to[New(from, to, i)]) BY <2>1, <2>2 DEF Has
  <2> QED BY <2>1, <2>3 DEF Reused, Added
<1>2. ASSUME NEW k \in Reused(from, to)
      PROVE  \E i \in Kept(from, to) : New(from, to, i) = k
  <2>1. k \in 1..Len(to) /\ Has(from, to[k]) BY DEF Reused, Added
  <2>2. PICK i \in 1..Len(from) : from[i] = to[k] BY <2>1 DEF Has
  <2>3. i \in Kept(from, to) BY <2>1, <2>2 DEF Kept, Has
  <2>4. New(from, to, i) \in 1..Len(to) /\ to[New(from, to, i)] = from[i] BY <2>3, NewIndex
  <2>5. New(from, to, i) = k BY <2>1, <2>2, <2>4 DEF KeySet
  <2> QED BY <2>3, <2>5
<1>3. F \in [Kept(from, to) -> Reused(from, to)] BY <1>1
<1>4. \A i, j \in Kept(from, to) : F[i] = F[j] => i = j BY NewDiffers
<1>5. \A k \in Reused(from, to) : \E i \in Kept(from, to) : F[i] = k BY <1>2
<1> HIDE DEF F
<1>6. F \in Bijection(Kept(from, to), Reused(from, to)) BY <1>3, <1>4, <1>5, Fun_IsBij
<1> QED BY <1>6 DEF F

\* The plan accounts for every row (list_diff.rs, apply_plan, which returns an error "the plan
\* does not account for every row" otherwise): what is left after the removals and comes with
\* the additions is as long as the new list; each new index is that of an added row or of
\* exactly one row that is kept, and only those rows are looked for among the old ones; and a
\* row that moves is neither removed nor stays.
THEOREM PlanAccountsForRows ==
  ASSUME NEW K, NEW from \in KeySet(K), NEW to \in KeySet(K)
  PROVE  /\ Len(from) - Cardinality(Removed(from, to)) + Cardinality(Added(from, to)) = Len(to)
         /\ \A k \in 1..Len(to) :
              k \in Added(from, to)
                <=> ~ \E i \in 1..Len(from) \ Removed(from, to) : IndexOf(to, from[i]) = k
         /\ \A i, j \in 1..Len(from) \ Removed(from, to) :
              IndexOf(to, from[i]) = IndexOf(to, from[j]) => i = j
         /\ Moved(from, to) =
              {i \in 1..Len(from) \ Removed(from, to) : IndexOf(to, from[i]) # i}
<1>1. Len(from) \in Nat /\ Len(to) \in Nat BY DEF KeySet
<1>2. /\ IsFiniteSet(1..Len(from)) /\ Cardinality(1..Len(from)) = Len(from)
      /\ IsFiniteSet(1..Len(to)) /\ Cardinality(1..Len(to)) = Len(to)
  <2>1. \A n \in Nat : Cardinality(1..n) = n /\ IsFiniteSet(1..n)
    <3> TAKE n \in Nat
    <3>1. IsFiniteSet(1..n) /\ Cardinality(1..n) = IF 1 > n THEN 0 ELSE n - 1 + 1
      BY FS_Interval
    <3> QED BY <3>1
  <2> QED BY <1>1, <2>1
<1>3. /\ Kept(from, to) = (1..Len(from)) \ Removed(from, to)
      /\ Removed(from, to) \subseteq 1..Len(from) /\ Added(from, to) \subseteq 1..Len(to)
  BY DEF Kept, Removed, Added
<1>d. ASSUME NEW n, NEW S, NEW T, IsFiniteSet(S), Cardinality(S) = n, T \subseteq S
      PROVE  IsFiniteSet(S \ T) /\ Cardinality(S \ T) = n - Cardinality(T)
  <2>1. S \cap T = T BY <1>d
  <2>2. /\ IsFiniteSet(S \ T)
        /\ Cardinality(S \ T) = Cardinality(S) - Cardinality(S \cap T)
    BY <1>d, FS_Difference, Zenon
  <2> QED BY <1>d, <2>1, <2>2
<1>4. /\ Cardinality(Kept(from, to)) = Len(from) - Cardinality(Removed(from, to))
      /\ IsFiniteSet(Kept(from, to))
  <2>1. /\ IsFiniteSet((1..Len(from)) \ Removed(from, to))
        /\ Cardinality((1..Len(from)) \ Removed(from, to))
             = Len(from) - Cardinality(Removed(from, to))
    BY <1>2, <1>3, <1>d
  <2> QED BY <1>3, <2>1
<1>5. Cardinality(Reused(from, to)) = Len(to) - Cardinality(Added(from, to))
  BY <1>2, <1>3, <1>d DEF Reused
<1>6. Cardinality(Reused(from, to)) = Cardinality(Kept(from, to))
  BY <1>4, NewPlaces, FS_Bijection DEF ExistsBijection
<1>7. Cardinality(Removed(from, to)) \in Nat /\ Cardinality(Added(from, to)) \in Nat
  BY <1>2, <1>3, FS_Subset, FS_CardinalityType
<1>8. ASSUME NEW k \in 1..Len(to)
      PROVE  k \in Added(from, to)
               <=> ~ \E i \in 1..Len(from) \ Removed(from, to) : IndexOf(to, from[i]) = k
  <2>1. k \in Reused(from, to) <=> k \notin Added(from, to) BY DEF Reused
  <2>2. k \in Reused(from, to) <=> \E i \in Kept(from, to) : New(from, to, i) = k
    <3> DEFINE F == [i \in Kept(from, to) |-> New(from, to, i)]
    <3>1. /\ \A i \in Kept(from, to) : F[i] = New(from, to, i)
          /\ F \in Bijection(Kept(from, to), Reused(from, to))
      BY NewPlaces
    <3> HIDE DEF F
    <3>2. /\ F \in [Kept(from, to) -> Reused(from, to)]
          /\ \A x \in Reused(from, to) : \E i \in Kept(from, to) : F[i] = x
      BY <3>1, Fun_BijectionProperties
    <3> QED BY <3>1, <3>2
  <2> QED BY <1>3, <2>1, <2>2 DEF New
<1>9. \A i, j \in 1..Len(from) \ Removed(from, to) :
        IndexOf(to, from[i]) = IndexOf(to, from[j]) => i = j
  BY <1>3, NewDiffers DEF New
<1>10. Moved(from, to) = {i \in 1..Len(from) \ Removed(from, to) : IndexOf(to, from[i]) # i}
  <2>1. ASSUME NEW i \in Kept(from, to)
        PROVE  Stays(from, to, i) <=> New(from, to, i) = i
    <3>1. New(from, to, i) \in 1..Len(to) /\ to[New(from, to, i)] = from[i] BY NewIndex
    <3>2. i \in 1..Len(from) BY DEF Kept
    <3>3. Stays(from, to, i) => New(from, to, i) = i BY <3>2, StaysThere
    <3>4. New(from, to, i) = i => Stays(from, to, i) BY <1>1, <3>1, <3>2 DEF Stays
    <3> QED BY <3>3, <3>4
  <2>2. Moved(from, to) = {i \in Kept(from, to) : ~Stays(from, to, i)} BY DEF Moved, Kept
  <2> QED BY <1>3, <2>1, <2>2 DEF New
<1> QED BY <1>1, <1>4, <1>5, <1>6, <1>7, <1>8, <1>9, <1>10
=============================================================================
