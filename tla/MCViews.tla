------------------------------ MODULE MCViews ------------------------------
(* The apps that the runs of Views render.                                  *)
EXTENDS Views

a == <<"a">>
b == <<"b">>
empty == <<>>
Texts == {Text(a), Text(b), Text(empty)}

\* A view among its neighbours, which must stay where they are.
Between(v) == Tuple(<<Text(<<"x">>), v, Text(<<"y">>)>>)
Inside(v) == Tuple(<<El(v), Text(<<"y">>)>>)
Among(views) == {Between(v) : v \in views} 

Family(views, marked, n) == [starts |-> views, views |-> views, marked |-> marked, rebuilds |-> n]

\* Keyed lists of element rows, each row showing its key.
Row(key) == <<key, El(Text(<<key>>))>>
ListOf(keys) == Keyed([i \in 1..Len(keys) |-> Row(keys[i])])
Distinct(S, n) ==
  {keys \in UNION {[1..i -> S] : i \in 0..n} : \A i, j \in DOMAIN keys : i # j => keys[i] # keys[j]}

\* From 1, 2, ..., n to any list of at most five of six keys: up to the names of the keys,
\* every update between lists of at most five rows with at most six keys in all.
Keys == <<"1", "2", "3", "4", "5", "6">>
AmongRows(keys) == Tuple(<<Text(a), ListOf(keys), El(Text(b))>>)
LongLists ==
  [starts |-> {AmongRows(SubSeq(Keys, 1, n)) : n \in 0..5},
   views |-> {AmongRows(keys) : keys \in Distinct({Keys[i] : i \in 1..6}, 5)},
   marked |-> FALSE, rebuilds |-> 1]

ShortLists == {ListOf(keys) : keys \in UNION {[1..i -> {"1", "2"}] : i \in 0..2}}
ListsInside == {Inside(l) : l \in ShortLists}

\* Rows that are Vecs of several nodes, or empty tuples with none.
NodesOf(key) == IF key = "1" THEN Vec(<<El(Unit), El(Text(a))>>) ELSE Vec(<<>>)
RowsOfVecs ==
  {Inside(Keyed([i \in 1..Len(keys) |-> <<keys[i], NodesOf(keys[i])>>])) :
     keys \in Distinct({"1", "2", "3"}, 3)}

Options == Among({Some(t) : t \in Texts} \cup {None})
Vecs == Among({Vec(ts) : ts \in UNION {[1..i -> Texts] : i \in 0..2}})
OptionalVecs ==
  {Inside(Tuple(<<o, v>>)) : o \in {Some(Vec(<<Text(a)>>)), Some(Vec(<<>>)), None},
                             v \in {Vec(<<>>), Vec(<<El(Unit)>>), Vec(<<El(Unit), El(Unit)>>)}}
Anys == Among({AnyView(Text(a)), AnyView(Text(empty)), AnyView(Unit), AnyView(El(Unit)),
               AnyView(El(Text(b))), AnyView(Vec(<<Text(a), Text(b)>>))})
NestedAnys == {Inside(v) : v \in {Some(AnyView(Unit)), Some(AnyView(Vec(<<>>))), None}}

\* Two sides kept alive: a Vec and a keyed list, each updated while it is hidden.
Keeps == Among({Keep(s, t, shown) : s \in {<<Vec(<<Text(a)>>)>>, <<Vec(<<Text(a), El(Unit)>>)>>},
                                    t \in {<<ListOf(<<"1", "2">>)>>, <<ListOf(<<"3", "2">>)>>},
                                    shown \in BOOLEAN})

\* With marked branches, what is in a branch is an element.
MarkedEithers == Among({Either("left", El(Text(a))), Either("left", El(Text(b))),
                        Either("right", Vec(<<El(Unit)>>)), Either("right", Vec(<<>>))})

Apps == {LongLists, Family(ListsInside, FALSE, 2), Family(RowsOfVecs, FALSE, 2),
         Family(ListsInside, TRUE, 1), Family(Options, FALSE, 3), Family(Vecs, FALSE, 2),
         Family(OptionalVecs, FALSE, 2), Family(Anys, FALSE, 2), Family(NestedAnys, TRUE, 2),
         Family(Keeps, FALSE, 2), Family(MarkedEithers, TRUE, 2)}

\* A keyed list of bare texts, before two texts of which the first changes.
Bare(key) == <<key, Text(<<key>>)>>
TextListApps ==
  {Family({Tuple(<<Keyed(<<Bare("1"), Bare("2")>>), Text(t), Text(<<"y">>)>>) : t \in {a, b}},
          FALSE, 1)}
=============================================================================
