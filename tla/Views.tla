------------------------------- MODULE Views -------------------------------
(***************************************************************************)
(* Views on a page (halyard_tachys/src/view): text, (), elements, tuples,  *)
(* Either and Option, EitherKeepAlive, Vec, keyed lists and AnyView; their *)
(* build, rebuild, mount, unmount, insert_before_this, to_html and hydrate;*)
(* and the two ways in: mount_to and hydrate_from (halyard/src/mount.rs).  *)
(*                                                                         *)
(* A view is <<kind, ...>>.  A state is a record with the nodes the view   *)
(* holds.  A page is a sequence of nodes; node 1 is the root element, and  *)
(* a node is in the page through the kids of its parent.  Operators thread *)
(* the page: they return [s |-> state, d |-> page].                        *)
(***************************************************************************)
EXTENDS Naturals, Sequences, SequencesExt, FiniteSets, ListDiff

CONSTANT
  Families  \* [starts, views, marked, rebuilds]: values of one Rust type to start with and to
            \* update to, whether branches are marked (feature mark_branches), and a bound on
            \* the updates

VARIABLES
  family, view,  \* the family of the app's view, and its current value
  state, page,   \* what the app holds, and the page
  failed,        \* hydration met a mismatch
  rebuilds       \* how many updates there were

vars == <<family, view, state, page, failed, rebuilds>>

Text(s) == <<"text", s>>                        \* a sequence of letters
Unit == <<"unit">>
El(v) == <<"el", v>>
Tuple(vs) == <<"tuple", vs>>
Either(side, v) == <<"either", side, v>>
Some(v) == Either("left", v)
None == Either("right", Unit)
Vec(vs) == <<"vec", vs>>
Keep(a, b, showB) == <<"keep", a, b, showB>>   \* a and b are sequences of at most one view
Keyed(items) == <<"keyed", items>>             \* items are <<key, view>>
AnyView(v) == <<"any", v>>

Nil == [k |-> "nil"]

-----------------------------------------------------------------------------
(* The DOM.                                                                  *)

Parent(d, n) ==
  IF \E p \in 1..Len(d) : Has(d[p].kids, n)
  THEN CHOOSE p \in 1..Len(d) : Has(d[p].kids, n) ELSE 0

RemoveNode(d, n) ==
  LET p == Parent(d, n) IN IF p = 0 THEN d ELSE [d EXCEPT ![p].kids = Remove(d[p].kids, n)]

\* Node.insertBefore throws, and changes nothing, if the marker is no child of the parent.
InsertKid(kids, n, marker) ==
  InsertAt(kids, IF marker = 0 THEN Len(kids) + 1 ELSE IndexOf(kids, marker), n)
InsertNode(d, parent, n, marker) ==
  IF marker # 0 /\ Parent(d, marker) # parent THEN d
  ELSE [RemoveNode(d, n) EXCEPT ![parent].kids = InsertKid(@, n, marker)]

Create(d, kind, text) == Append(d, [kind |-> kind, text |-> text, kids |-> <<>>])

-----------------------------------------------------------------------------
(* Mountable.                                                                *)

\* A state whose inner state r gives, and the page that r gives; the same for the two
\* sides of an EitherKeepAlive, for one more of several states, and for a marker.
In(s, r) == [s |-> [s EXCEPT !.st = r.s], d |-> r.d]
InA(s, r) == [s |-> [s EXCEPT !.a = r.s], d |-> r.d]
InB(s, r) == [s |-> [s EXCEPT !.b = r.s], d |-> r.d]
And(rs, r) == [s |-> Append(rs.s, r.s), d |-> r.d]
NoneYet(d) == [s |-> <<>>, d |-> d]
Put(r, parent, node, marker) == [r EXCEPT !.d = InsertNode(@, parent, node, marker)]

\* The nodes of a state in order, each before the marker; a keyed list notes its parent.
RECURSIVE Mount(_, _, _, _)
MountAll(ss, parent, marker, d) ==
  FoldLeft(LAMBDA r, s : And(r, Mount(s, parent, marker, r.d)), NoneYet(d), ss)

MountEither(s, parent, marker, d) == In(s, Mount(s.st, parent, marker, d))

MountTuple(s, parent, marker, d) == In(s, MountAll(s.st, parent, marker, d))

MountVec(s, parent, marker, d) ==
  Put(In(s, MountAll(s.st, parent, marker, d)), parent, s.marker, marker)

MountKeyed(s, parent, marker, d) ==
  Put(In([s EXCEPT !.parent = parent], MountAll(s.st, parent, marker, d)), parent, s.marker, marker)

MountKeep(s, parent, marker, d) ==
  IF s.showB THEN InB(s, Mount(s.b, parent, marker, d)) ELSE InA(s, Mount(s.a, parent, marker, d))

MountAny(s, parent, marker, d) ==
  IF s.marker = 0 THEN In(s, Mount(s.st, parent, marker, d))
  ELSE Put(In(s, Mount(s.st, parent, marker, d)), parent, s.marker, marker)

Mount(s, parent, marker, d) ==
  CASE s.k \in {"text", "unit", "el"} -> [s |-> s, d |-> InsertNode(d, parent, s.node, marker)]
    [] s.k = "nil" -> [s |-> s, d |-> d]
    [] s.k = "either" -> MountEither(s, parent, marker, d)
    [] s.k = "tuple" -> MountTuple(s, parent, marker, d)
    [] s.k = "vec" -> MountVec(s, parent, marker, d)
    [] s.k = "keyed" -> MountKeyed(s, parent, marker, d)
    [] s.k = "keep" -> MountKeep(s, parent, marker, d)
    [] s.k = "any" -> MountAny(s, parent, marker, d)

\* The nodes a state has in its parent, in order: what unmount removes, and where
\* insert_before_this looks.
RECURSIVE Nodes(_)
Nodes(s) ==
  CASE s.k \in {"text", "unit", "el"} -> <<s.node>>
    [] s.k = "nil" -> <<>>
    [] s.k = "either" -> Nodes(s.st)
    [] s.k = "tuple" -> FlattenSeq([i \in 1..Len(s.st) |-> Nodes(s.st[i])])
    [] s.k \in {"vec", "keyed"} ->
         Append(FlattenSeq([i \in 1..Len(s.st) |-> Nodes(s.st[i])]), s.marker)
    [] s.k = "keep" -> IF s.showB THEN Nodes(s.b) ELSE Nodes(s.a)
    [] s.k = "any" -> IF s.marker = 0 THEN Nodes(s.st) ELSE Append(Nodes(s.st), s.marker)

Unmount(s, d) == FoldLeft(RemoveNode, d, Nodes(s))

\* Where insert_before_this finds a parent: 0 if nowhere.  A keyed list asks its first
\* row only, the others ask their parts in turn.
RECURSIVE Before(_, _)
FirstOf(nodes, d) ==
  LET there == SelectSeq(nodes, LAMBDA n : Parent(d, n) # 0) IN
  IF there = <<>> THEN 0 ELSE there[1]
Before(s, d) ==
  CASE s.k \in {"text", "unit", "el"} -> FirstOf(<<s.node>>, d)
    [] s.k = "nil" -> 0
    [] s.k = "either" -> Before(s.st, d)
    [] s.k = "tuple" -> FirstOf([i \in 1..Len(s.st) |-> Before(s.st[i], d)], d)
    [] s.k = "vec" -> FirstOf(Append([i \in 1..Len(s.st) |-> Before(s.st[i], d)], s.marker), d)
    [] s.k = "keyed" -> IF s.st = <<>> THEN FirstOf(<<s.marker>>, d) ELSE Before(s.st[1], d)
    [] s.k = "keep" -> IF s.showB THEN Before(s.b, d) ELSE Before(s.a, d)
    [] s.k = "any" -> FirstOf(<<Before(s.st, d), s.marker>>, d)

\* insert_before_this with a new state, and then the old one is unmounted.
InsertBefore(s, new) ==
  LET n == Before(s, new.d) IN
  IF n = 0 THEN new ELSE Mount(new.s, Parent(new.d, n), n, new.d)
Replace(old, new) == [InsertBefore(old, new) EXCEPT !.d = Unmount(old, @)]

-----------------------------------------------------------------------------
(* Render: build and rebuild.                                                *)

\* RenderHtml::EXISTS, of the type: the empty view leaves no node in an element's HTML.
RECURSIVE Exists(_)
Exists(v) ==
  CASE v[1] = "unit" -> FALSE
    [] v[1] = "tuple" -> \E i \in 1..Len(v[2]) : Exists(v[2][i])
    [] OTHER -> TRUE

\* TypeId: what an AnyView is asked about; lists and tuples of one kind are of one type here.
RECURSIVE TypeOf(_)
TypeOf(v) == IF v[1] = "el" THEN <<"el", TypeOf(v[2])>> ELSE <<v[1]>>

\* Each key once, in the order of the first item that has it (an index set).
KeysOf(items) ==
  FoldLeft(LAMBDA keys, item : IF Has(keys, item[1]) THEN keys ELSE Append(keys, item[1]),
           <<>>, items)

RECURSIVE Build(_, _)
BuildAll(vs, d) == FoldLeft(LAMBDA r, v : And(r, Build(v, r.d)), NoneYet(d), vs)
BuildOption(vs, d) == IF vs = <<>> THEN [s |-> Nil, d |-> d] ELSE Build(vs[1], d)

BuildText(v, d) ==
  [s |-> [k |-> "text", node |-> Len(d) + 1, str |-> v[2]], d |-> Create(d, "text", v[2])]

MountInto(el, child) ==
  In([k |-> "el", node |-> el, st |-> Nil], Mount(child.s, el, 0, child.d))
BuildElement(v, d) == MountInto(Len(d) + 1, Build(v[2], Create(d, "element", <<>>)))

BuildEither(v, d) == In([k |-> "either", side |-> v[2], st |-> Nil], Build(v[3], d))

BuildTuple(v, d) == In([k |-> "tuple", st |-> Nil], BuildAll(v[2], d))

BuildVec(v, d) ==
  In([k |-> "vec", st |-> Nil, marker |-> Len(d) + 1], BuildAll(v[2], Create(d, "comment", <<>>)))

\* The views of the items, and a keyed list that has no rows yet.
ViewsOf(items) == [i \in 1..Len(items) |-> items[i][2]]
NewKeyed(items, marker, parent) ==
  [k |-> "keyed", st |-> Nil, index |-> [i \in 1..Len(items) |-> i], keys |-> KeysOf(items),
   marker |-> marker, parent |-> parent, fits |-> TRUE]
BuildKeyed(v, d) ==
  In(NewKeyed(v[2], Len(d) + 1, 0), BuildAll(ViewsOf(v[2]), Create(d, "comment", <<>>)))

BuildSideB(vs, r) == InB(r.s, BuildOption(vs, r.d))
BuildKeep(v, d) ==
  BuildSideB(v[3], InA([k |-> "keep", a |-> Nil, b |-> Nil, showB |-> v[4]], BuildOption(v[2], d)))

\* An AnyView of a type that leaves no node has a marker of its own.
NewAny(v) == [k |-> "any", type |-> TypeOf(v[2]), st |-> Nil, marker |-> 0]
AddMarker(r) == [s |-> [r.s EXCEPT !.marker = Len(r.d) + 1], d |-> Create(r.d, "comment", <<>>)]
BuildAny(v, d) ==
  IF Exists(v[2]) THEN In(NewAny(v), Build(v[2], d)) ELSE AddMarker(In(NewAny(v), Build(v[2], d)))

Build(v, d) ==
  CASE v[1] = "text" -> BuildText(v, d)
    [] v[1] = "unit" -> [s |-> [k |-> "unit", node |-> Len(d) + 1], d |-> Create(d, "comment", <<>>)]
    [] v[1] = "el" -> BuildElement(v, d)
    [] v[1] = "either" -> BuildEither(v, d)
    [] v[1] = "tuple" -> BuildTuple(v, d)
    [] v[1] = "vec" -> BuildVec(v, d)
    [] v[1] = "keyed" -> BuildKeyed(v, d)
    [] v[1] = "keep" -> BuildKeep(v, d)
    [] v[1] = "any" -> BuildAny(v, d)

-----------------------------------------------------------------------------
(* A keyed list (view/keyed.rs, view/list_diff.rs).  The rows are threaded   *)
(* as [rows, index, d, ok]: a free place is Nil, and ok is lost when two     *)
(* rows would be given the same place.                                       *)

NextRow(rows, at) ==
  LET after == {i \in (at + 1)..Len(rows) : rows[i] # Nil} IN
  IF after = {} THEN 0 ELSE CHOOSE i \in after : \A j \in after : i <= j

\* DomRows::mount, before a row or before the list's marker.
MountRow(s, rows, before, row) ==
  LET n == IF before = 0 THEN 0 ELSE Before(rows[before], row.d)
      at == IF n = 0 THEN <<s.parent, s.marker>> ELSE <<Parent(row.d, n), n>>
  IN  IF s.parent = 0 THEN row ELSE Mount(row.s, at[1], at[2], row.d)

PutRow(r, row, index, at) ==
  [rows |-> [r.rows EXCEPT ![at] = row.s], index |-> [r.index EXCEPT ![at] = index], d |-> row.d,
   ok |-> r.ok /\ r.rows[at] = Nil]

UnmountAll(ss, d) == FoldLeft(LAMBDA e, s : Unmount(s, e), d, ss)
FromScratch(s, items, d) ==
  FoldLeft(LAMBDA r, item : And(r, MountRow(s, <<>>, 0, Build(item[2], r.d))),
           NoneYet(UnmountAll(s.st, d)), items)

SetIndex(old, at) == at

\* Rows that keep their place on the page are only given their new index; the others are
\* mounted before the next row that is in place.
MoveRow(s, to, inDom, r, from) ==
  LET at == IndexOf(to, s.keys[from])
      row == [s |-> s.st[from], d |-> r.d]
  IN  PutRow(r, IF inDom THEN MountRow(s, r.rows, NextRow(r.rows, at), row) ELSE row,
             SetIndex(s.index[from], at), at)
MoveRows(s, to, moving, inDom, r0) ==
  FoldLeft(LAMBDA r, from : MoveRow(s, to, inDom, r, from), r0, moving)

\* New rows are built in order; all are appended when there were no rows.
AddRows(s, items, adding, append, r0) ==
  FoldLeft(LAMBDA r, at :
             PutRow(r, MountRow(s, r.rows, IF append THEN 0 ELSE NextRow(r.rows, at),
                                Build(items[at][2], r.d)), at, at),
           r0, adding)

Ascending(S) == SetToSortSeq(S, LAMBDA i, j : i < j)

\* apply_plan; the rows that stay are where they were.
Trimmed(r, n) ==
  [r EXCEPT !.rows = SubSeq(@, 1, n), !.index = SubSeq(@, 1, n),
            !.ok = @ /\ \A i \in 1..n : r.rows[i] # Nil]
ApplyPlan(s, items, to, d) ==
  LET from == s.keys
      gone == Removed(from, to)
      moving == Moved(from, to)
      inDom == MoveInDom(from, to)
      width == Len(from) + Cardinality(Added(from, to))
      r0 == [rows |-> [i \in 1..width |-> IF i <= Len(from) /\ i \notin gone \cup moving
                                            THEN s.st[i] ELSE Nil],
             index |-> [i \in 1..width |-> IF i <= Len(from) THEN s.index[i] ELSE 0],
             d |-> FoldLeft(LAMBDA e, i : Unmount(s.st[i], e), d, Ascending(gone)),
             ok |-> Len(items) = width - Cardinality(gone)]
      r1 == MoveRows(s, to, Ascending({i \in moving : ~inDom[i]}), FALSE, r0)
      r2 == MoveRows(s, to, Ascending({i \in moving : inDom[i]}), TRUE, r1)
  IN  Trimmed(AddRows(s, items, Ascending(Added(from, to)), from = <<>>, r2), Len(items))

\* A key set has each key once: fewer keys than items or rows means repeated keys.
\* Operators named ...Mutant are what a slip in the code would make of the operator before
\* which they stand.
ResizesMutant(s, items, to) == Len(items) # Len(to) \/ Len(items) # Len(s.keys)
Repeats(s, items, to) == Len(items) # Len(to) \/ Len(s.st) # Len(s.keys)

\* reconcile: repeated keys, and a plan that does not fit, render the list from scratch.
ApplyOrRebuild(s, items, to, d, r) ==
  IF ~Repeats(s, items, to) /\ r.ok
  THEN [s |-> [s EXCEPT !.st = r.rows, !.index = r.index, !.keys = to], d |-> r.d]
  ELSE In([s EXCEPT !.index = [i \in 1..Len(items) |-> i], !.keys = to,
                    !.fits = Repeats(s, items, to)],
          FromScratch(s, items, d))
Reconcile(s, items, d) ==
  ApplyOrRebuild(s, items, KeysOf(items), d, ApplyPlan(s, items, KeysOf(items), d))

-----------------------------------------------------------------------------
\* The first n views, in the places of the first n states.
RECURSIVE Rebuild(_, _, _)
RebuildAll(vs, ss, n, d) ==
  FoldLeft(LAMBDA r, i : And(r, Rebuild(vs[i], ss[i], r.d)), NoneYet(d), [i \in 1..n |-> i])

\* New items of a Vec, each mounted before the marker if that is in the page.
MountAtMarker(marker, b) ==
  LET p == Parent(b.d, marker) IN IF p = 0 THEN b ELSE Mount(b.s, p, marker, b.d)
MountNew(vs, marker, kept) ==
  FoldLeft(LAMBDA r, v : And(r, MountAtMarker(marker, Build(v, r.d))), kept, vs)

RebuildVec(vs, s, d) ==
  LET both == Smaller(Len(vs), Len(s.st))
      kept == RebuildAll(vs, s.st, both, d)
      rows == MountNew(SubSeq(vs, both + 1, Len(vs)), s.marker, kept)
  IN  In(s, [rows EXCEPT !.d = UnmountAll(SubSeq(s.st, both + 1, Len(s.st)), @)])

\* Both sides are updated, then the one to show is put in the place of the other.
RebuildOption(vs, s, d) ==
  CASE vs = <<>> -> [s |-> s, d |-> d]
    [] vs # <<>> /\ s = Nil -> Build(vs[1], d)
    [] vs # <<>> /\ s # Nil -> Rebuild(vs[1], s, d)
RebuildSideB(vs, r) == InB(r.s, RebuildOption(vs, r.s.b, r.d))
ShowSide(showB, r) ==
  LET s == [r.s EXCEPT !.showB = showB] IN
  IF s = r.s \/ Nil \in {s.a, s.b} THEN r
  ELSE IF showB THEN InB(s, Replace(s.a, [s |-> s.b, d |-> r.d]))
  ELSE InA(s, Replace(s.b, [s |-> s.a, d |-> r.d]))
RebuildKeep(v, s, d) == ShowSide(v[4], RebuildSideB(v[3], InA(s, RebuildOption(v[2], s.a, d))))

RebuildText(v, s, d) ==
  IF v[2] = s.str THEN [s |-> s, d |-> d]
  ELSE [s |-> [s EXCEPT !.str = v[2]], d |-> [d EXCEPT ![s.node].text = v[2]]]

RebuildElement(v, s, d) ==
  IF s.st = Nil THEN [s |-> s, d |-> d] ELSE In(s, Rebuild(v[2], s.st, d))

RebuildEither(v, s, d) ==
  IF v[2] = s.side THEN In(s, Rebuild(v[3], s.st, d))
  ELSE In([s EXCEPT !.side = v[2]], Replace(s.st, Build(v[3], d)))

RebuildTuple(v, s, d) == In(s, RebuildAll(v[2], s.st, Len(v[2]), d))

RebuildAny(v, s, d) ==
  IF TypeOf(v[2]) = s.type THEN In(s, Rebuild(v[2], s.st, d)) ELSE Replace(s, Build(v, d))

Rebuild(v, s, d) ==
  CASE v[1] = "text" -> RebuildText(v, s, d)
    [] v[1] = "unit" -> [s |-> s, d |-> d]
    [] v[1] = "el" -> RebuildElement(v, s, d)
    [] v[1] = "either" -> RebuildEither(v, s, d)
    [] v[1] = "tuple" -> RebuildTuple(v, s, d)
    [] v[1] = "vec" -> RebuildVec(v[2], s, d)
    [] v[1] = "keyed" -> Reconcile(s, v[2], d)
    [] v[1] = "keep" -> RebuildKeep(v, s, d)
    [] v[1] = "any" -> RebuildAny(v, s, d)

-----------------------------------------------------------------------------
(* The server's HTML, as a sequence of <<kind, text, children>>, and the     *)
(* position the next view is rendered at: "first", "next" or "afterText".    *)

Comment == <<<<"comment", <<>>, <<>>>>>>
Branch == IF family.marked THEN <<<<"branch", <<>>, <<>>>>>> ELSE <<>>

\* Two texts in a row need a comment between them, or the browser reads one text.
NoSeparatorMutant(pos) == <<>>
Separator(pos) == IF pos = "afterText" THEN Comment ELSE <<>>
AfterBranch(pos) == IF family.marked /\ pos = "afterText" THEN "next" ELSE pos

RECURSIVE Html(_, _)
HtmlThen(r, h) == [html |-> r.html \o h.html, pos |-> h.pos]
HtmlAll(vs, position) ==
  FoldLeft(LAMBDA r, v : HtmlThen(r, Html(v, r.pos)), [html |-> <<>>, pos |-> position], vs)

\* Each row of a keyed list leaves the position at the next child, whatever it rendered.
HtmlRow(r, h) == [html |-> r.html \o Branch \o h.html \o Branch, pos |-> "next"]
HtmlRows(items, position) ==
  FoldLeft(LAMBDA r, item : HtmlRow(r, Html(item[2], r.pos)), [html |-> <<>>, pos |-> position], items)

InBranch(h, last) == [html |-> Branch \o h.html \o last \o Branch, pos |-> AfterBranch(h.pos)]

HtmlText(v, pos) ==
  [html |-> Separator(pos) \o <<<<"text", IF v[2] = <<>> THEN <<" ">> ELSE v[2], <<>>>>>>,
   pos |-> "afterText"]

HtmlElement(v, pos) ==
  [html |-> <<<<"element", <<>>, IF Exists(v[2]) THEN Html(v[2], "first").html ELSE <<>>>>>>,
   pos |-> "next"]

HtmlEither(v, pos) == InBranch(Html(v[3], pos), <<>>)

HtmlAny(v, pos) == InBranch(Html(v[2], pos), IF Exists(v[2]) THEN <<>> ELSE Comment)

HtmlVec(v, pos) == [html |-> HtmlAll(v[2], pos).html \o Comment, pos |-> "next"]

ClosedList(h) == [h EXCEPT !.html = Branch \o @ \o Branch \o Comment]
HtmlKeyed(v, pos) == ClosedList(HtmlRows(v[2], pos))

Html(v, pos) ==
  CASE v[1] = "text" -> HtmlText(v, pos)
    [] v[1] = "unit" -> [html |-> Comment, pos |-> "next"]
    [] v[1] = "el" -> HtmlElement(v, pos)
    [] v[1] = "either" -> HtmlEither(v, pos)
    [] v[1] = "any" -> HtmlAny(v, pos)
    [] v[1] = "tuple" -> HtmlAll(v[2], pos)
    [] v[1] = "vec" -> HtmlVec(v, pos)
    [] v[1] = "keyed" -> HtmlKeyed(v, pos)
    [] v[1] = "keep" -> HtmlAll(IF v[4] THEN v[3] ELSE v[2], pos)

\* What the browser makes of it: adjacent texts are one node.
JoinText(html) ==
  FoldLeft(LAMBDA done, t :
             IF done # <<>> /\ t[1] = "text" /\ Last(done)[1] = "text"
             THEN Append(Front(done), <<"text", Last(done)[2] \o t[2], <<>>>>)
             ELSE Append(done, t),
           <<>>, html)

RECURSIVE Parse(_, _, _)
Parse(html, parent, d) ==
  FoldLeft(LAMBDA e, t :
             LET n == Len(e) + 1
                 f == InsertNode(Create(e, t[1], t[2]), parent, n, 0)
             IN  Parse(t[3], n, f),
           d, JoinText(html))

-----------------------------------------------------------------------------
(* Hydration: a cursor walks the page, [at, pos, d, failed].                 *)

RECURSIVE SkipBranches(_, _)
NextSibling(d, n) ==
  LET p == Parent(d, n)
      i == IF p = 0 THEN 0 ELSE IndexOf(d[p].kids, n)
  IN  IF p = 0 \/ i = Len(d[p].kids) THEN n ELSE d[p].kids[i + 1]
SkipBranches(d, n) ==
  IF d[n].kind # "branch" \/ NextSibling(d, n) = n THEN n ELSE SkipBranches(d, NextSibling(d, n))

FirstChild(d, n) == IF d[n].kids = <<>> THEN n ELSE d[n].kids[1]
Child(c) == [c EXCEPT !.at = SkipBranches(c.d, FirstChild(c.d, c.at))]
Sibling(c) == [c EXCEPT !.at = SkipBranches(c.d, NextSibling(c.d, c.at))]
Advance(c) == IF c.pos = "first" THEN Child(c) ELSE Sibling(c)

\* The separator before a text is skipped.
AdvanceOnceMutant(c) == Advance(c)
AdvanceToText(c) == IF c.pos = "afterText" THEN Sibling(Sibling(c)) ELSE Advance(c)

\* The node under the cursor if it is of the right kind; otherwise a detached one, and the
\* page is not read again.
Taken(c, kind) ==
  LET of == IF c.d[c.at].kind = "branch" THEN "comment" ELSE c.d[c.at].kind IN
  IF ~c.failed /\ of = kind THEN [node |-> c.at, c |-> c]
  ELSE [node |-> Len(c.d) + 1, c |-> [c EXCEPT !.d = Create(c.d, kind, <<>>), !.failed = TRUE]]

NextPlaceholder(c) == Taken([Advance(c) EXCEPT !.pos = "next"], "comment")

\* A state whose inner state h gives, and the cursor that h gives.
Holding(s, h) == [s |-> [s EXCEPT !.st = h.s], c |-> h.c]

RECURSIVE Hydrate(_, _)
HydrateThen(r, h) == [s |-> Append(r.s, h.s), c |-> h.c]
HydrateAll(vs, cursor) ==
  FoldLeft(LAMBDA r, v : HydrateThen(r, Hydrate(v, r.c)), [s |-> <<>>, c |-> cursor], vs)

HydratedText(v, t) ==
  [s |-> [k |-> "text", node |-> t.node, str |-> v[2]], c |-> [t.c EXCEPT !.pos = "afterText"]]
HydrateText(v, c) == HydratedText(v, Taken(AdvanceToText(c), "text"))

HydratedUnit(t) == [s |-> [k |-> "unit", node |-> t.node], c |-> t.c]
HydrateUnit(c) == HydratedUnit(NextPlaceholder(c))

\* After its children the cursor is at the element again.
HydrateKids(v, t) ==
  IF Exists(v) THEN Hydrate(v, [t.c EXCEPT !.pos = "first"]) ELSE [s |-> Nil, c |-> t.c]
HydratedElement(node, kids) ==
  [s |-> [k |-> "el", node |-> node, st |-> kids.s],
   c |-> [kids.c EXCEPT !.at = IF kids.c.failed THEN @ ELSE node, !.pos = "next"]]
HydrateElement(v, c) ==
  LET t == Taken(Advance(c), "element") IN HydratedElement(t.node, HydrateKids(v[2], t))

HydrateEither(v, c) == Holding([k |-> "either", side |-> v[2], st |-> Nil], Hydrate(v[3], c))

\* The comment after a list is its marker.
Markered(h, t) == [s |-> [h.s EXCEPT !.marker = t.node], c |-> t.c]
HydrateMarker(h) == Markered(h, NextPlaceholder(h.c))

HydrateAny(v, c) ==
  IF Exists(v[2]) THEN Holding(NewAny(v), Hydrate(v[2], c))
  ELSE HydrateMarker(Holding(NewAny(v), Hydrate(v[2], c)))

HydrateVec(v, c) == HydrateMarker(Holding([k |-> "vec", st |-> Nil, marker |-> 0], HydrateAll(v[2], c)))

HydrateKeyed(v, c) ==
  LET parent == IF c.pos = "first" THEN c.at ELSE Parent(c.d, c.at) IN
  HydrateMarker(Holding(NewKeyed(v[2], 0, parent), HydrateAll(ViewsOf(v[2]), c)))

\* A side that is hidden is built.
BuiltSide(b, c) == [s |-> b.s, c |-> [c EXCEPT !.d = b.d]]
HydrateSide(vs, shown, c) ==
  CASE vs = <<>> -> [s |-> Nil, c |-> c]
    [] vs # <<>> /\ shown -> Hydrate(vs[1], c)
    [] vs # <<>> /\ ~shown -> BuiltSide(Build(vs[1], c.d), c)
KeptSides(v, a, b) == [s |-> [k |-> "keep", a |-> a.s, b |-> b.s, showB |-> v[4]], c |-> b.c]
HydrateKeep(v, c) ==
  LET a == HydrateSide(v[2], ~v[4], c) IN KeptSides(v, a, HydrateSide(v[3], v[4], a.c))

Hydrate(v, c) ==
  CASE v[1] = "text" -> HydrateText(v, c)
    [] v[1] = "unit" -> HydrateUnit(c)
    [] v[1] = "el" -> HydrateElement(v, c)
    [] v[1] = "either" -> HydrateEither(v, c)
    [] v[1] = "any" -> HydrateAny(v, c)
    [] v[1] = "tuple" -> Holding([k |-> "tuple", st |-> Nil], HydrateAll(v[2], c))
    [] v[1] = "vec" -> HydrateVec(v, c)
    [] v[1] = "keyed" -> HydrateKeyed(v, c)
    [] v[1] = "keep" -> HydrateKeep(v, c)

-----------------------------------------------------------------------------
(* The app: mounted or hydrated, updated any number of times, and dropped.   *)

Root == <<[kind |-> "element", text |-> <<>>, kids |-> <<>>]>>

MountAtRoot(b) == Mount(b.s, 1, 0, b.d)

\* mount_to
InitMounted ==
  /\ \E m \in {MountAtRoot(Build(view, Root))} : state = m.s /\ page = m.d
  /\ failed = FALSE

\* hydrate_from; after a mismatch the root is emptied and the app rendered on the client.
ClientRender(d) == MountAtRoot(Build(view, [d EXCEPT ![1].kids = <<>>]))
InitHydrated ==
  \E server \in {Parse(Html(view, "first").html, 1, Root)} :
  \E h \in {Hydrate(view, [at |-> 1, pos |-> "first", d |-> server, failed |-> FALSE])} :
  \E m \in {IF h.c.failed THEN ClientRender(h.c.d) ELSE [s |-> h.s, d |-> h.c.d]} :
    /\ failed = h.c.failed
    /\ state = m.s
    /\ page = m.d

Init ==
  /\ family \in Families
  /\ view \in family.starts
  /\ rebuilds = 0
  /\ InitMounted \/ InitHydrated

Update ==
  /\ state # Nil
  /\ rebuilds < family.rebuilds
  /\ rebuilds' = rebuilds + 1
  /\ \E v \in family.views : \E r \in {Rebuild(v, state, page)} :
       /\ view' = v
       /\ state' = r.s
       /\ page' = r.d
  /\ UNCHANGED <<family, failed>>

\* Dropping the UnmountHandle.
DropHandle ==
  /\ state # Nil
  /\ page' = Unmount(state, page)
  /\ state' = Nil
  /\ view' = Tuple(<<>>)
  /\ UNCHANGED <<family, failed, rebuilds>>

Next == Update \/ DropHandle

Spec == Init /\ [][Next]_vars

-----------------------------------------------------------------------------
(* What a reader of the page sees: letters and elements.                     *)

RECURSIVE Visible(_, _), Shown(_)
Visible(d, nodes) ==
  FoldLeft(LAMBDA seen, n :
             CASE d[n].kind = "text" -> seen \o SelectSeq(d[n].text, LAMBDA c : c # " ")
               [] d[n].kind = "element" -> Append(seen, Visible(d, d[n].kids))
               [] OTHER -> seen,
           <<>>, nodes)

Shown(v) ==
  CASE v[1] = "text" -> v[2]
    [] v[1] = "unit" -> <<>>
    [] v[1] = "el" -> <<Shown(v[2])>>
    [] v[1] = "either" -> Shown(v[3])
    [] v[1] = "any" -> Shown(v[2])
    [] v[1] \in {"tuple", "vec"} -> FlattenSeq([i \in 1..Len(v[2]) |-> Shown(v[2][i])])
    [] v[1] = "keyed" -> FlattenSeq([i \in 1..Len(v[2]) |-> Shown(v[2][i][2])])
    [] v[1] = "keep" ->
         LET side == IF v[4] THEN v[3] ELSE v[2] IN IF side = <<>> THEN <<>> ELSE Shown(side[1])

\* All keyed lists in a state.
RECURSIVE Lists(_)
Lists(s) ==
  CASE s.k \in {"text", "unit", "nil"} -> {}
    [] s.k \in {"el", "either", "any"} -> Lists(s.st)
    [] s.k \in {"tuple", "vec"} -> UNION {Lists(s.st[i]) : i \in 1..Len(s.st)}
    [] s.k = "keyed" -> {s} \cup UNION {Lists(s.st[i]) : i \in 1..Len(s.st)}
    [] s.k = "keep" -> Lists(s.a) \cup Lists(s.b)

\* Whatever way the app came onto the page and however it was updated since, the page shows
\* the current view, and nothing of it once the handle is dropped (mount.rs, hydrate_from).
ShownIsView == Visible(page, page[1].kids) = Shown(view)

\* HTML of a view hydrates into that view (hydration.rs: "Each that type implements
\* RenderHtml knows how to advance the cursor to access the nodes it needs").
HydrationMatches == ~failed

\* The nodes an app holds are on the page, each held once and in the order of the view: no
\* two views share a node of the server's, and no node is lost.
NodesInOrder ==
  LET held == Nodes(state) IN
  held = SelectSeq(page[1].kids, LAMBDA n : Has(held, n))

\* The plan of a keyed update always fits the rows (list_diff.rs, diff: "`Err` only in states
\* that cannot happen"): the list is never rendered from scratch unless keys repeat.
PlanFits == \A s \in Lists(state) : s.fits

\* A row whose key is in the list before and after an update is the same row, with the same
\* nodes (its state is not lost by moving it), and knows its index after the update.
KeptRowsKeepTheirNodes ==
  [][\A s \in Lists(state), t \in Lists(state') :
       (s.marker = t.marker /\ Len(s.st) = Len(s.keys) /\ Len(t.st) = Len(t.keys)) =>
         \A i \in 1..Len(s.keys), j \in 1..Len(t.keys) :
           s.keys[i] = t.keys[j] => Nodes(s.st[i]) = Nodes(t.st[j]) /\ t.index[j] = j]_vars
=============================================================================
