------------------------------ MODULE ListDiff ------------------------------
(***************************************************************************)
(* The plan of a keyed list update (view/list_diff.rs, diff): from the old *)
(* keys and the new ones, which rows go, which are new, which move, and    *)
(* which of those must also move on the page.  Keys are distinct in each   *)
(* sequence (an index set); indices count from 1.                          *)
(***************************************************************************)
EXTENDS Naturals, Sequences, FiniteSets

\* Positions of a key: IndexSet::get_index_of and contains.
Has(keys, k) == \E i \in 1..Len(keys) : keys[i] = k
IndexOf(keys, k) == CHOOSE i \in 1..Len(keys) : keys[i] = k
Larger(m, n) == IF m > n THEN m ELSE n
Smaller(m, n) == IF m > n THEN n ELSE m

Stays(from, to, i) == i <= Len(from) /\ i <= Len(to) /\ from[i] = to[i]
RemovedInNewRangeMutant(from, to) == {i \in 1..Len(from) : i <= Len(to) /\ ~Has(to, from[i])}
Removed(from, to) == {i \in 1..Len(from) : ~Has(to, from[i])}
Added(from, to) == {i \in 1..Len(to) : ~Has(from, to[i])}
Moved(from, to) == {i \in 1..Len(from) : Has(to, from[i]) /\ ~Stays(from, to, i)}

UpTo(S, i) == Cardinality({j \in S : j <= i})

\* stays_before[i]: how many rows before i stay at their index.
StaysBefore(from, to, i) == Cardinality({j \in 1..(i - 1) : Stays(from, to, j)})
PassesNoneMutant(from, to, i) == FALSE
PassesARowThatStays(from, to, i) ==
  LET t == IndexOf(to, from[i]) IN
  StaysBefore(from, to, Larger(i, t)) > StaysBefore(from, to, Smaller(i, t) + 1)

\* The removals and additions before it shift a row by themselves.
Shifts(from, to, i) ==
  i + UpTo(Added(from, to), i) # IndexOf(to, from[i]) + UpTo(Removed(from, to), i)

\* A row next to the one that moved before it, in both orders, goes with it.
MoveInDom(from, to) ==
  LET f[i \in 1..Len(from)] ==
        /\ i \in Moved(from, to)
        /\ IF /\ i - 1 \in Moved(from, to)
              /\ IndexOf(to, from[i - 1]) + 1 = IndexOf(to, from[i])
           THEN f[i - 1]
           ELSE Shifts(from, to, i) \/ PassesARowThatStays(from, to, i)
  IN  f
=============================================================================
