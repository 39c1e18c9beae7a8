--------------------------- MODULE MCServerStream ---------------------------
(* The pages that the runs of ServerStream stream.                           *)
EXTENDS ServerStream

Text(h) == Html(h)
Loading(n) == Html(<<"loading", n>>)
Body(n) == Html(<<"body", n>>)
S(n, body) == Suspense(n, Loading(n), body)
Plain(n) == S(n, Body(n))
Among(v) == Seq2(<<Text("head"), v, Text("foot")>>)
Failed == Html("failed")

App(v, ooo, locals) == [view |-> v, ooo |-> ooo, locals |-> locals]

Siblings == Among(Seq2(<<Plain("s"), Text("and"), Plain("t"), Plain("u")>>))
Nested == Among(Seq2(<<S("s", Seq2(<<Text("in"), S("t", Seq2(<<Body("t"), Plain("u")>>)), Text("out")>>))>>))
TwoInOne == Among(S("s", Seq2(<<Plain("t"), Text("between"), Plain("u")>>)))
OneBoundary == Among(Seq2(<<Boundary(Seq2(<<Text("in"), Plain("s")>>), Failed, FALSE), Plain("t")>>))
BoundaryOfTwo == Among(Seq2(<<Boundary(Seq2(<<Plain("s"), Text("and"), S("t", Plain("u"))>>), Failed, FALSE)>>))
Failing == Among(Seq2(<<Plain("s"), Boundary(Plain("t"), Failed, TRUE), Boundary(Body("u"), Failed, TRUE)>>))
Calm == Among(Seq2(<<Boundary(Text("calm"), Failed, FALSE), Plain("s"), S("t", Boundary(Body("t"), Failed, FALSE))>>))
Views == {Siblings, Nested, TwoInOne, OneBoundary, BoundaryOfTwo, Failing, Calm}

Pages == {App(v, ooo, {}) : v \in Views, ooo \in BOOLEAN} \cup {App(v, FALSE, Names) : v \in Views}

\* Two error boundaries, each with a Suspense.
TwoBoundaries ==
  {App(Seq2(<<Boundary(Plain("s"), Failed, FALSE), Boundary(Plain("t"), Failed, FALSE)>>), TRUE, {})}

\* A Suspense around an error boundary that has a Suspense: a late chunk of several parts.
LateParts ==
  {App(Among(S("s", Seq2(<<Text("in"), Boundary(Plain("t"), Failed, FALSE), Text("out")>>))), TRUE, {})}

\* A Suspense that turns out to read a local resource, streamed out of order.
LocalFallback == {App(Among(Plain("s")), TRUE, {"s"})}
=============================================================================
