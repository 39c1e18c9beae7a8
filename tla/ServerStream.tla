---------------------------- MODULE ServerStream ----------------------------
(***************************************************************************)
(* A page streamed to a browser: the StreamBuilder (tachys ssr/mod.rs),    *)
(* what <Suspense/> and <ErrorBoundary/> write into it                     *)
(* (to_html_async_with_buf), the stream's poll_next, and the browser,      *)
(* which runs the scripts that put late content in its place.              *)
(*                                                                         *)
(* HTML is a sequence of tokens; what a Suspense waits for is its name.    *)
(* A future is a record that says how far it has come.                     *)
(***************************************************************************)
EXTENDS Naturals, Sequences, SequencesExt, FiniteSets

CONSTANTS
  Apps,   \* [view, ooo, locals]: a page, whether it is streamed out of order, and the
          \* Suspenses that may turn out to read a local resource
  Names,  \* of the Suspenses
  MaxId   \* the largest chunk id at one level (65535)

VARIABLES
  app,
  loaded,  \* name -> "pending", "value", or "local": it cannot be rendered on the server
  stream,  \* Nil before the page is rendered; then the builder: [buf, chunks, pending, waiting], waiting for pending_ooo
  woken,   \* the stream will be polled
  page,    \* what the browser has
  ended

vars == <<app, loaded, stream, woken, page, ended>>

Html(h) == <<"html", h>>
Seq2(views) == <<"seq", views>>
Suspense(name, fallback, body) == <<"suspense", name, fallback, body>>
Boundary(body, fallback, throws) == <<"boundary", body, fallback, throws>>

Open(id) == <<"open", id>>
Close(id) == <<"close", id>>
Template(id, html, replace) == <<"template", id, html, replace>>
Nothing == <<"html", "<!>">>

Nil == [k |-> "nil"]
Sync(html) == [k |-> "sync", html |-> html]

-----------------------------------------------------------------------------
(* StreamBuilder: [buf, chunks, id]; without an id, id is <<>>.              *)

NewBuilder(id) == [buf |-> <<>>, chunks |-> <<>>, id |-> id]

\* After the largest id it wraps around to 0.
SameIdMutant(b) == b
NextId(b) ==
  IF b.id = <<>> THEN b
  ELSE [b EXCEPT !.id = Append(Front(b.id), (Last(b.id) + 1) % (MaxId + 1))]

PushSync(b, html) == [b EXCEPT !.buf = b.buf \o html]
Flush(b) ==
  IF b.buf = <<>> THEN b ELSE [b EXCEPT !.chunks = Append(b.chunks, Sync(b.buf)), !.buf = <<>>]
UnflushedMutant(b, fut) == [b EXCEPT !.chunks = Append(b.chunks, fut)]
PushAsync(b, fut) == [Flush(b) EXCEPT !.chunks = Append(Flush(b).chunks, fut)]
AppendBuilder(b, other) ==
  [Flush(b) EXCEPT !.chunks = Flush(b).chunks \o other.chunks, !.buf = other.buf]

Finish(b) ==
  IF b.buf # <<>> /\ b.chunks # <<>> /\ Last(b.chunks).k = "sync"
  THEN [b EXCEPT !.chunks = Append(Front(b.chunks), Sync(Last(b.chunks).html \o b.buf)), !.buf = <<>>]
  ELSE Flush(b)
TakeChunks(b) == Flush(b).chunks

-----------------------------------------------------------------------------
(* to_html_async_with_buf: the builder, and the Suspenses that told the      *)
(* error boundary around them to wait for them.                              *)

RECURSIVE Render(_, _, _), RenderAll(_, _, _)
RenderAll(vs, b, ooo) ==
  IF vs = <<>> THEN [b |-> b, waits |-> {}]
  ELSE LET first == Render(Head(vs), b, ooo)
           rest == RenderAll(Tail(vs), first.b, ooo)
       IN  [b |-> rest.b, waits |-> first.waits \cup rest.waits]

\* A Suspense that is not ready: out of order, its fallback between markers and a chunk that
\* comes later; in order, a chunk that the stream waits for.
Suspend(v, b, ooo) ==
  IF ooo
  THEN [b EXCEPT !.buf = b.buf \o <<Open(b.id), v[3], Close(b.id)>>,
                 !.chunks = Append(b.chunks, [k |-> "ooo", id |-> b.id, name |-> v[2], body |-> v[4],
                                              started |-> FALSE, todo |-> <<>>, done |-> <<>>])]
  ELSE PushAsync(b, [k |-> "suspense", id |-> b.id, name |-> v[2], fallback |-> v[3], body |-> v[4]])

\* An error boundary with Suspenses in it becomes one chunk that waits for them all.
RenderBoundary(v, b, ooo) ==
  LET r == Render(v[2], NewBuilder(b.id), ooo)
      fut == [k |-> "boundary", waits |-> r.waits, todo |-> TakeChunks(r.b), done |-> <<>>,
              fallback |-> v[3], throws |-> v[4]]
  IN  CASE r.waits = {} /\ v[4] -> PushSync(b, <<v[3]>>)
        [] r.waits = {} /\ ~v[4] -> AppendBuilder(b, r.b)
        [] r.waits # {} -> AppendBuilder(b, PushAsync(NewBuilder(NextId(r.b).id), fut))

Render(v, b, ooo) ==
  CASE v[1] = "html" -> [b |-> PushSync(b, <<v>>), waits |-> {}]
    [] v[1] = "seq" -> RenderAll(v[2], b, ooo)
    [] v[1] = "boundary" -> [b |-> RenderBoundary(v, b, ooo), waits |-> {}]
    [] v[1] = "suspense" ->
         LET c == NextId(b)
             body == Render(v[4], c, ooo)
         IN  CASE loaded[v[2]] = "value" -> [b |-> body.b, waits |-> body.waits \cup {v[2]}]
               [] loaded[v[2]] = "local" -> [b |-> PushSync(c, <<v[3]>>), waits |-> {v[2]}]
               [] loaded[v[2]] = "pending" -> [b |-> Suspend(v, c, ooo), waits |-> {v[2]}]

-----------------------------------------------------------------------------
(* Polling the futures of the chunks: [ready, chunks, f], where f is the     *)
(* future to poll again.                                                     *)

Pending(f) == [ready |-> FALSE, chunks |-> <<>>, f |-> f]
Ready(chunks, f) == [ready |-> TRUE, chunks |-> chunks, f |-> f]

\* An out-of-order chunk that was awaited already keeps what it gave.
RECURSIVE PollChunk(_), PollBoundary(_), PollOutOfOrder(_)
PollSuspense(f) ==
  IF loaded[f.name] = "pending" THEN Pending(f)
  ELSE LET v == IF loaded[f.name] = "value" THEN f.body ELSE f.fallback
           r == Render(v, NewBuilder(f.id), FALSE)
       IN  Ready(TakeChunks(Finish(r.b)), f)

\* Its chunks are awaited one by one; p is what its first chunk gave.
NextOfBoundary(f, p) ==
  IF p.ready
  THEN PollBoundary([f EXCEPT !.todo = Tail(f.todo),
                              !.done = f.done \o IF p.f.k = "ooo" THEN <<p.f>> ELSE p.chunks])
  ELSE Pending([f EXCEPT !.todo = <<p.f>> \o Tail(f.todo)])
PollBoundary(f) ==
  IF \E n \in f.waits : loaded[n] = "pending" THEN Pending(f)
  ELSE IF f.todo = <<>> THEN Ready(IF f.throws THEN <<Sync(<<f.fallback>>)>> ELSE f.done, f)
  ELSE NextOfBoundary(f, PollChunk(Head(f.todo)))

\* The body is rendered below the chunk's id once it is there (nothing, if it cannot be
\* rendered); then the chunks of error boundaries in it are awaited.
NextOfOutOfOrder(f, p) ==
  IF p.ready
  THEN PollOutOfOrder([f EXCEPT !.todo = Tail(f.todo), !.done = f.done \o p.chunks])
  ELSE Pending([f EXCEPT !.todo = <<p.f>> \o Tail(f.todo)])
PollOutOfOrder(f) ==
  IF ~f.started
  THEN IF loaded[f.name] = "pending" THEN Pending(f)
       ELSE LET v == IF loaded[f.name] = "value" THEN f.body ELSE Nothing
                r == Render(v, NewBuilder(Append(f.id, 0)), TRUE)
            IN  PollOutOfOrder([f EXCEPT !.started = TRUE, !.todo = TakeChunks(Finish(r.b))])
  ELSE IF f.todo = <<>> THEN Ready(f.done, f)
  ELSE NextOfOutOfOrder(f, IF Head(f.todo).k = "boundary" THEN PollBoundary(Head(f.todo))
                           ELSE Ready(<<Head(f.todo)>>, Head(f.todo)))

PollChunk(f) ==
  CASE f.k = "sync" -> Ready(<<f>>, f)
    [] f.k = "suspense" -> PollSuspense(f)
    [] f.k = "boundary" -> PollBoundary(f)
    [] f.k = "ooo" -> PollOutOfOrder(f)

-----------------------------------------------------------------------------
(* StreamBuilder::poll_next: [t, out, status].                               *)

\* split_around_placeholder: 0 if the opening marker, with a closing one after it, is not in
\* the buffer.
Placeholder(html, id) ==
  IF Contains(html, Open(id)) THEN SelectInSeq(html, LAMBDA x : x = Open(id)) ELSE 0
ClosedAt(html, id, from) ==
  LET at == {i \in from..Len(html) : html[i] = Close(id)} IN
  IF at = {} THEN 0 ELSE CHOOSE i \in at : \A j \in at : i <= j

\* An out-of-order chunk that is ready takes the place of its fallback if that is still in
\* the buffer, and is sent as a template and a script if not.
Place(t, f, chunks) ==
  LET isSync(c) == c.k = "sync"
      other(c) == c.k # "sync"
      html == FlattenSeq([i \in 1..Len(SelectSeq(chunks, isSync)) |->
                             Reverse(SelectSeq(chunks, isSync))[i].html])
      held == SelectSeq(chunks, other)
      open == Placeholder(t.buf, f.id)
      close == IF open = 0 THEN 0 ELSE ClosedAt(t.buf, f.id, open)
  IN  IF close # 0
      THEN [t EXCEPT !.buf = SubSeq(t.buf, 1, open - 1) \o html \o SubSeq(t.buf, close + 1, Len(t.buf)),
                     !.chunks = Reverse(held) \o t.chunks]
      ELSE [t EXCEPT !.buf = Append(t.buf, Template(f.id, html, loaded[f.name] = "value")),
                     !.chunks = held \o t.chunks]

\* The out-of-order chunks that wait are polled in turn.
Waited(t, p) ==
  IF p.ready THEN Place(t, p.f, p.chunks) ELSE [t EXCEPT !.waiting = Append(t.waiting, p.f)]
PollWaiting(t) ==
  FoldLeft(LAMBDA u, f : Waited(u, PollOutOfOrder(f)), [t EXCEPT !.waiting = <<>>], t.waiting)

RECURSIVE Drain(_), PollNext(_)

\* Sync chunks are taken up to an async one, or with one out-of-order one.
Drain(t) ==
  IF t.chunks = <<>> \/ Head(t.chunks).k \in {"suspense", "boundary"} THEN t
  ELSE IF Head(t.chunks).k = "ooo"
  THEN [t EXCEPT !.chunks = Tail(t.chunks), !.waiting = Append(t.waiting, Head(t.chunks))]
  ELSE Drain([t EXCEPT !.chunks = Tail(t.chunks), !.buf = t.buf \o Head(t.chunks).html])

Emit(t) == [t |-> [t EXCEPT !.buf = <<>>], out |-> t.buf, status |-> "item"]
EmitOrGoOn(t) == IF t.buf = <<>> THEN PollNext(t) ELSE Emit(t)

AwaitedPending(t, p) ==
  IF p.ready THEN PollNext([t EXCEPT !.pending = Nil, !.chunks = p.chunks \o t.chunks])
  ELSE [t |-> [t EXCEPT !.pending = p.f], out |-> <<>>, status |-> "pending"]
EmitOrWait(t) == IF t.buf = <<>> THEN [t |-> t, out |-> <<>>, status |-> "pending"] ELSE Emit(t)

PollNext(t) ==
  CASE t.pending # Nil ->
         AwaitedPending(t, PollChunk(t.pending))
    [] t.pending = Nil /\ t.chunks = <<>> /\ t.waiting = <<>> ->
         IF t.buf = <<>> THEN [t |-> t, out |-> <<>>, status |-> "end"] ELSE Emit(t)
    [] t.pending = Nil /\ t.chunks = <<>> /\ t.waiting # <<>> ->
         EmitOrWait(PollWaiting(t))
    [] t.pending = Nil /\ t.chunks # <<>> ->
         LET c == Head(t.chunks) IN
         CASE c.k = "sync" -> PollNext(Drain(t))
           [] c.k = "ooo" ->
                EmitOrGoOn([t EXCEPT !.chunks = Tail(t.chunks), !.waiting = Append(t.waiting, c)])
           [] OTHER -> EmitOrGoOn([t EXCEPT !.chunks = Tail(t.chunks), !.pending = c])

-----------------------------------------------------------------------------
(* The browser: the script of a template looks for the last markers of its   *)
(* id in the page (the content of a template is not searched).               *)

LastAt(html, token) ==
  LET at == {i \in 1..Len(html) : html[i] = token} IN
  IF at = {} THEN 0 ELSE CHOOSE i \in at : \A j \in at : i >= j

\* With replace, what is between the markers makes way for the template's content.
Script(html, open, close, content, replace) ==
  SubSeq(html, 1, open - 1) \o (IF replace THEN content ELSE SubSeq(html, open + 1, close - 1))
    \o SubSeq(html, close + 1, Len(html))

Received(html, token) ==
  LET open == LastAt(html, Open(token[2]))
      close == LastAt(html, Close(token[2]))
  IN  IF token[1] # "template" THEN Append(html, token)
      ELSE IF open = 0 \/ close < open THEN html
      ELSE Script(html, open, close, token[3], token[4])

-----------------------------------------------------------------------------

Init ==
  /\ app \in Apps
  /\ loaded = [n \in Names |-> "pending"]
  /\ stream = Nil
  /\ woken = FALSE
  /\ page = <<>>
  /\ ended = FALSE

\* The page is rendered with what is there by then.
Start ==
  /\ stream = Nil
  /\ LET r == Render(app.view, NewBuilder(IF app.ooo THEN <<0>> ELSE <<>>), app.ooo) IN
     stream' = [buf |-> <<>>, chunks |-> TakeChunks(Finish(r.b)), pending |-> Nil, waiting |-> <<>>]
  /\ woken' = TRUE
  /\ UNCHANGED <<app, loaded, page, ended>>

\* What a Suspense waits for is there; whoever polled a future of it is woken.
Resolve(n, outcome) ==
  /\ loaded[n] = "pending"
  /\ outcome = "local" => n \in app.locals
  /\ loaded' = [loaded EXCEPT ![n] = outcome]
  /\ woken' = (stream # Nil /\ ~ended)
  /\ UNCHANGED <<app, stream, page, ended>>

\* The response body polls the stream; an item is sent, and the stream polled again.
Poll ==
  /\ woken
  /\ \E p \in {PollNext(stream)} :
     /\ stream' = p.t
     /\ page' = FoldLeft(Received, page, p.out)
     /\ ended' = (p.status = "end")
     /\ woken' = (p.status = "item")
  /\ UNCHANGED <<app, loaded>>

\* The response is complete.
Complete ==
  /\ ended
  /\ \A n \in Names : loaded[n] # "pending"
  /\ UNCHANGED vars

Next == Start \/ Poll \/ Complete \/ \E n \in Names, outcome \in {"value", "local"} : Resolve(n, outcome)

Spec == Init /\ [][Next]_vars

-----------------------------------------------------------------------------

Content(html) == SelectSeq(html, LAMBDA x : x # Nothing)

\* The page that the app stands for: a Suspense shows its body, or its fallback if that
\* cannot be rendered on the server; "?" is what is not known yet.
RECURSIVE Expected(_)
Unknown == <<"html", "?">>
Expected(v) ==
  CASE v[1] = "html" -> <<v>>
    [] v[1] = "seq" -> FlattenSeq([i \in 1..Len(v[2]) |-> Expected(v[2][i])])
    [] v[1] = "suspense" ->
         (CASE loaded[v[2]] = "value" -> Expected(v[4])
            [] loaded[v[2]] = "local" -> <<v[3]>>
            [] loaded[v[2]] = "pending" -> <<Unknown>>)
    [] v[1] = "boundary" ->
         IF v[4] THEN <<v[3]>> ELSE Expected(v[2])

\* When the response has ended, the browser shows the whole page: every Suspense's body in
\* its place, whatever order the bodies were ready in (ssr_mode.rs: "streaming it down to the
\* client as it resolves, and streaming down HTML for `Suspense` nodes"), and no marker of a
\* chunk that would meet the hydration cursor.
PageIsComplete == ended => Content(page) = Expected(app.view)

\* In order, what was sent is always the beginning of the page: it stops at the first
\* Suspense whose data have not loaded (ssr_mode.rs, InOrder).
SentInOrder == ~app.ooo => IsPrefix(page, Expected(app.view))
=============================================================================
