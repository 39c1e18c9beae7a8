--------------------------- MODULE ReactiveGraph ---------------------------
(***************************************************************************)
(* How a change reaches memos and effects: marking (signal/commit.rs,      *)
(* computed/inner.rs, effect/inner.rs), update_if_necessary, tracking      *)
(* (traits.rs, graph/) and the loop of an effect's task (effect/effect.rs).*)
(*                                                                         *)
(* A thread is a stack of calls.  The functions of memos and effects read  *)
(* the nodes Reads gives, in order; one in Gated reads only the first when *)
(* that is even, so that its sources change from run to run.  A memo gives *)
(* the sum of what it reads, one in Coarse whether that is positive, so    *)
(* that it may be unchanged when a source changed.  A set increments its   *)
(* signal.  No memo reads itself, and functions keep no read guards.       *)
(***************************************************************************)
EXTENDS Naturals, Sequences, FiniteSets, SequencesExt

CONSTANTS
  Threads, Signals, Memos, Effects,
  Reads,      \* memo or effect -> the sequence of nodes its function reads
  Gated,      \* memos and effects that read on only if the first value is odd
  Coarse,     \* memos that give whether the sum is positive
  Writes,     \* effect -> the signals of which its function sets one, at its end
  Nobody,     \* no thread, no observer
  NoValue,    \* a memo before its first computation
  MaxWrites,  \* bound: the value a signal is not set beyond
  MayHold,    \* whether user code keeps read guards of memos
  MayPause    \* whether the effects' owners are paused

Sources == Signals \cup Memos
Subscribers == Memos \cup Effects

ASSUME GraphAssumption ==
  /\ Reads \in [Subscribers -> Seq(Sources)]
  /\ Gated \subseteq Subscribers /\ Coarse \subseteq Memos
  /\ Writes \in [Effects -> SUBSET Signals]
  /\ MaxWrites \in Nat /\ NoValue \notin Nat
  /\ MayHold \in BOOLEAN /\ MayPause \in BOOLEAN
  /\ Nobody \notin Threads \cup Subscribers

\* A node is of one kind.
ASSUME KindsAssumption == Signals \cap Memos = {} /\ Effects \cap Sources = {}

\* There are finitely many memos, and none reads itself through others (the code reports
\* such a read, MEMO_READ_ITSELF): a rank falls along the reads.
IsRank(rank) == \A m \in Memos : \A x \in ToSet(Reads[m]) \cap Memos : rank[x] < rank[m]
ASSUME RankAssumption ==
  IsFiniteSet(Memos) /\ \E rank \in [Memos -> 0..Cardinality(Memos)] : IsRank(rank)

VARIABLES
  value,     \* source -> its value
  state,     \* memo -> ReactiveNodeState
  sources,   \* subscriber -> SourceSet, in order of insertion
  subs,      \* source -> SubscriberSet, in order of insertion
  rlock,     \* memo -> the thread that holds `reactivity` and waits for `value`
  dirty,     \* effect -> EffectInner::dirty
  notified,  \* effect -> its channel is set and its task woken
  first,     \* effect -> first_run
  paused,    \* effect -> its owner is paused
  missed,    \* effect -> a notification was ignored since its last run
  seen,      \* subscriber -> the values its function read when it last ended
  stack,     \* thread -> its calls, the running one last
  guards     \* thread -> the memos it has read guards of

graph == <<value, state, sources, subs, rlock>>
effects == <<dirty, notified, first, paused, missed>>
vars == <<graph, effects, seen, stack, guards>>

-----------------------------------------------------------------------------
(* Calls *)

\* op: "mark" (mark_subscribers, and mark_dirty and mark_check of what is to be
\* marked), "update" (a memo's update_if_necessary), "run" (a function), "task"
\* (one turn of an effect's loop), "get" (a read by user code).
Frame(op, n, pc) ==
  [op |-> op, node |-> n, pc |-> pc, todo |-> <<>>, vals |-> <<>>, ret |-> FALSE]

Idle(t) == stack[t] = <<>>
Top(t) == Last(stack[t])
At(t, op, pc) == ~Idle(t) /\ Top(t).op = op /\ Top(t).pc = pc

Enter(t, f) == stack' = [stack EXCEPT ![t] = Append(@, f)]
Goto(t, f) == stack' = [stack EXCEPT ![t] = Append(Front(@), f)]
Call(t, f, g) == stack' = [stack EXCEPT ![t] = Front(@) \o <<f, g>>]
Pop(t) == stack' = [stack EXCEPT ![t] = Front(@)]
Return(t, ret, vals) ==
  stack' = [stack EXCEPT ![t] =
    Append(Front(Front(@)), [Last(Front(@)) EXCEPT !.ret = ret, !.vals = vals])]
Result(t, ret) ==
  stack' = [stack EXCEPT ![t] =
    Append(Front(Front(@)), [Last(Front(@)) EXCEPT !.ret = ret])]

\* The thread's current Observer: the innermost function or task.
Observer(t) ==
  LET I == {i \in DOMAIN stack[t] : stack[t][i].op \in {"run", "task"}}
  IN IF I = {} THEN Nobody ELSE stack[t][CHOOSE i \in I : \A j \in I : j <= i].node

-----------------------------------------------------------------------------
(* Locks and sets *)

\* The reactivity lock of n is free for t: it is kept over a step only while
\* its holder waits to write the value.
Unlocked(n) == n \in Memos => rlock[n] = Nobody

\* t holds a read guard of m's value: user code's, or the one on the previous
\* value while it computes m.
ReadingToCompute(t, m) ==
  \E i \in DOMAIN stack[t] :
    stack[t][i].op = "update" /\ stack[t][i].node = m /\ stack[t][i].pc = "clear"
Reading(t, m) ==
  \/ m \in guards[t]
  \/ \E i \in DOMAIN stack[t] :
       LET f == stack[t][i]
       IN f.op = "update" /\ f.node = m
          /\ (f.pc = "clear" \/ (f.pc = "commit" /\ i < Len(stack[t])))

\* A read of the value is granted: another thread's write, even one that
\* waits, keeps new readers out; a thread that reads already shares its guard.
CanRead(t, n) == n \in Memos => rlock[n] = Nobody \/ Reading(t, n)

Subscribe(q, n) == IF n \in ToSet(q) THEN q ELSE Append(q, n)
Unsubscribe(q, n) ==
  IF n \in ToSet(q) THEN RemoveAt(q, CHOOSE i \in DOMAIN q : q[i] = n) ELSE q

\* clear_sources: n forgets its sources, and they forget n.
ClearSourcesOneWay(n) == /\ sources' = [sources EXCEPT ![n] = <<>>]
                         /\ UNCHANGED subs
ClearSources(n) ==
  /\ sources' = [sources EXCEPT ![n] = <<>>]
  /\ subs' = [x \in Sources |->
                IF x \in ToSet(sources[n]) THEN Unsubscribe(subs[x], n) ELSE subs[x]]

MarkAll(q, how) == [i \in DOMAIN q |-> <<q[i], how>>]

-----------------------------------------------------------------------------
(* User functions *)

\* How many reads a function makes, given what it has read.
ReadCount(n, vals) ==
  IF n \in Gated /\ vals # <<>> /\ vals[1] % 2 = 0 THEN 1 ELSE Len(Reads[n])

Compute(m, vals) ==
  LET sum == FoldSeq(LAMBDA x, y : x + y, 0, vals)
  IN IF m \in Coarse /\ sum > 1 THEN 1 ELSE sum

-----------------------------------------------------------------------------
(* Init *)

Init ==
  /\ value = [x \in Sources |-> IF x \in Signals THEN 0 ELSE NoValue]
  /\ state = [m \in Memos |-> "Dirty"]
  /\ sources = [n \in Subscribers |-> <<>>]
  /\ subs = [x \in Sources |-> <<>>]
  /\ rlock = [m \in Memos |-> Nobody]
  /\ dirty = [e \in Effects |-> TRUE]
  /\ notified = [e \in Effects |-> TRUE]
  /\ first = [e \in Effects |-> TRUE]
  /\ paused = [e \in Effects |-> FALSE]
  /\ missed = [e \in Effects |-> FALSE]
  /\ seen = [n \in Subscribers |-> <<>>]
  /\ stack = [t \in Threads |-> <<>>]
  /\ guards = [t \in Threads |-> {}]

-----------------------------------------------------------------------------
(* Marking *)

\* set: the new value is swapped in, then the subscribers are marked.
Set(t, s) ==
  /\ Idle(t)
  /\ value[s] < MaxWrites
  /\ value' = [value EXCEPT ![s] = @ + 1]
  /\ Enter(t, Frame("mark", s, "clone"))
  /\ UNCHANGED <<state, sources, subs, rlock, effects, seen, guards>>

\* mark_subscribers clones the set, and marks outside its lock.
CloneSubscribers(t) ==
  /\ At(t, "mark", "clone")
  /\ Goto(t, [Top(t) EXCEPT !.pc = "mark", !.todo = MarkAll(subs[Top(t).node], "dirty")])
  /\ UNCHANGED <<graph, effects, seen, guards>>

\* MemoInner::mark_dirty and mark_check: its subscribers come next.
Marked(m, how) == IF how = "check" /\ state[m] # "Dirty" THEN "Check" ELSE "Dirty"

MarkMemo(t) ==
  LET f == Top(t)
      m == Head(f.todo)[1]
  IN /\ At(t, "mark", "mark") /\ f.todo # <<>> /\ m \in Memos
     /\ Unlocked(m)
     /\ state' = [state EXCEPT ![m] = Marked(m, Head(f.todo)[2])]
     /\ Goto(t, [f EXCEPT !.todo = MarkAll(subs[m], "check") \o Tail(f.todo)])
     /\ UNCHANGED <<value, sources, subs, rlock, effects, seen, guards>>

\* EffectInner::mark_dirty and mark_check notify the task.
NotifiesIfDirty(how) == how = "dirty"
Notifies(how) == TRUE

MarkEffect(t) ==
  LET f == Top(t)
      e == Head(f.todo)[1]
  IN /\ At(t, "mark", "mark") /\ f.todo # <<>> /\ e \in Effects
     /\ dirty' = [dirty EXCEPT ![e] = @ \/ Head(f.todo)[2] = "dirty"]
     /\ notified' = [notified EXCEPT ![e] = @ \/ Notifies(Head(f.todo)[2])]
     /\ Goto(t, [f EXCEPT !.todo = Tail(f.todo)])
     /\ UNCHANGED <<graph, first, paused, missed, seen, guards>>

MarkDone(t) ==
  /\ At(t, "mark", "mark") /\ Top(t).todo = <<>>
  /\ Pop(t)
  /\ UNCHANGED <<graph, effects, seen, guards>>

-----------------------------------------------------------------------------
(* MemoInner::update_if_necessary *)

\* What needs_update does for the state it reads.
Needed(m) == CASE state[m] = "Clean" -> "clean"
               [] state[m] = "Dirty" -> "begin"
               [] state[m] = "Check" -> "sources"

\* needs_update reads the state and the sources.
NeedsUpdate(t) ==
  LET f == Top(t)
  IN /\ At(t, "update", "state")
     /\ Unlocked(f.node)
     /\ Goto(t, [f EXCEPT !.pc = Needed(f.node),
                          !.todo = IF state[f.node] = "Check" THEN sources[f.node] ELSE <<>>])
     /\ UNCHANGED <<graph, effects, seen, guards>>

\* Checks the next source.  A signal never says that it changed.
CheckSource(t) ==
  LET f == Top(t)
      g == [f EXCEPT !.pc = "own", !.todo = Tail(f.todo), !.ret = FALSE]
  IN /\ At(t, "update", "sources")
     /\ IF f.todo = <<>> THEN Goto(t, [f EXCEPT !.pc = "clean"])
        ELSE IF Head(f.todo) \in Memos
        THEN Call(t, g, Frame("update", Head(f.todo), "state"))
        ELSE Goto(t, g)
     /\ UNCHANGED <<graph, effects, seen, guards>>

\* The source changed, or it has marked this memo dirty meanwhile.
ChangedOnly(f) == f.ret
ChangedOrDirty(f) == f.ret \/ state[f.node] = "Dirty"

CheckOwn(t) ==
  LET f == Top(t)
  IN /\ At(t, "update", "own")
     /\ f.ret \/ Unlocked(f.node)
     /\ Goto(t, [f EXCEPT !.pc = IF ChangedOrDirty(f) THEN "begin" ELSE "sources"])
     /\ UNCHANGED <<graph, effects, seen, guards>>

\* No source changed.
SetClean(t) ==
  LET m == Top(t).node
  IN /\ At(t, "update", "clean")
     /\ Unlocked(m)
     /\ state' = [state EXCEPT ![m] = "Clean"]
     /\ Result(t, FALSE)
     /\ UNCHANGED <<value, sources, subs, rlock, effects, seen, guards>>

\* A memo whose value this thread is using keeps it, and stays dirty.
\* Otherwise takes a read guard on the previous value.
Begin(t) ==
  LET f == Top(t)
  IN /\ At(t, "update", "begin")
     /\ IF Reading(t, f.node) THEN Result(t, FALSE)
        ELSE CanRead(t, f.node) /\ Goto(t, [f EXCEPT !.pc = "clear"])
     /\ UNCHANGED <<graph, effects, seen, guards>>

\* inner_1, then the function with the memo as the observer.
StartMemo(t) ==
  LET m == Top(t).node
  IN /\ At(t, "update", "clear")
     /\ \A x \in {m} \cup ToSet(sources[m]) : Unlocked(x)
     /\ ClearSources(m)
     /\ Call(t, [Top(t) EXCEPT !.pc = "commit"], Frame("run", m, "next"))
     /\ UNCHANGED <<value, state, rlock, effects, seen, guards>>

\* Takes the reactivity lock, then waits for the value's.
LockMemo(t) ==
  LET m == Top(t).node
  IN /\ At(t, "update", "commit")
     /\ Unlocked(m)
     /\ rlock' = [rlock EXCEPT ![m] = t]
     /\ Goto(t, [Top(t) EXCEPT !.pc = "value"])
     /\ UNCHANGED <<value, state, sources, subs, effects, seen, guards>>

\* The subscribers that a changed memo marks dirty: not the one that asked.
ToMark(t, m) == Unsubscribe(subs[m], Observer(t))

\* inner_2: replaces the value; marks the subscribers if it changed.
CommitMemo(t) ==
  LET f == Top(t)
      m == f.node
  IN /\ At(t, "update", "value")
     /\ \A u \in Threads \ {t} : ~Reading(u, m)
     /\ value' = [value EXCEPT ![m] = Compute(m, f.vals)]
     /\ state' = [state EXCEPT ![m] = "Clean"]
     /\ rlock' = [rlock EXCEPT ![m] = Nobody]
     /\ seen' = [seen EXCEPT ![m] = f.vals]
     /\ IF f.ret
        THEN Call(t, [f EXCEPT !.pc = "changed"],
                  [Frame("mark", m, "mark") EXCEPT !.todo = MarkAll(ToMark(t, m), "dirty")])
        ELSE Result(t, FALSE)
     /\ UNCHANGED <<sources, subs, effects, guards>>

ReturnChanged(t) ==
  /\ At(t, "update", "changed")
  /\ Result(t, TRUE)
  /\ UNCHANGED <<graph, effects, seen, guards>>

-----------------------------------------------------------------------------
(* The functions of memos and effects *)

NextRead(f) == Reads[f.node][Len(f.vals) + 1]

\* Track::track adds the source to the observer,
AddSource(t) ==
  LET f == Top(t)
  IN /\ At(t, "run", "next") /\ Len(f.vals) < ReadCount(f.node, f.vals)
     /\ Unlocked(f.node)
     /\ sources' = [sources EXCEPT ![f.node] = Subscribe(@, NextRead(f))]
     /\ Goto(t, [f EXCEPT !.pc = "track"])
     /\ UNCHANGED <<value, state, subs, rlock, effects, seen, guards>>

\* then the observer to the source; the read of a memo updates it first.
NeverUpdates(x) == FALSE
ReadUpdates(x) == x \in Memos

AddSubscriber(t) ==
  LET f == Top(t)
      x == NextRead(f)
      g == [f EXCEPT !.pc = "read"]
  IN /\ At(t, "run", "track")
     /\ Unlocked(x)
     /\ subs' = [subs EXCEPT ![x] = Subscribe(@, f.node)]
     /\ IF ReadUpdates(x) THEN Call(t, g, Frame("update", x, "state")) ELSE Goto(t, g)
     /\ UNCHANGED <<value, state, sources, rlock, effects, seen, guards>>

ReadValue(t) ==
  LET f == Top(t)
  IN /\ At(t, "run", "read")
     /\ CanRead(t, NextRead(f))
     /\ Goto(t, [f EXCEPT !.pc = "next", !.vals = Append(@, value[NextRead(f)])])
     /\ UNCHANGED <<graph, effects, seen, guards>>

Ended(t, N) ==
  /\ At(t, "run", "next")
  /\ Top(t).node \in N
  /\ Len(Top(t).vals) >= ReadCount(Top(t).node, Top(t).vals)

\* The function compares its result with the previous value.
EndMemo(t) ==
  LET f == Top(t)
  IN /\ Ended(t, Memos)
     /\ Return(t, Compute(f.node, f.vals) # value[f.node], f.vals)
     /\ UNCHANGED <<graph, effects, seen, guards>>

\* The function of an effect may set a signal before it ends.
EndEffect(t) ==
  LET f == Top(t)
      W == {s \in Writes[f.node] : value[s] < MaxWrites}
  IN /\ Ended(t, Effects)
     /\ seen' = [seen EXCEPT ![f.node] = f.vals]
     /\ \/ W = {} /\ Pop(t) /\ UNCHANGED value
        \/ \E s \in W : /\ value' = [value EXCEPT ![s] = @ + 1]
                        /\ Goto(t, Frame("mark", s, "clone"))
     /\ UNCHANGED <<state, sources, subs, rlock, effects, guards>>

-----------------------------------------------------------------------------
(* An effect's task *)

\* Sender::notify sets the flag and wakes the task, for a mark of either kind.
WokenIfDirty(e) == notified[e] /\ dirty[e]
Woken(e) == notified[e]

\* rx.next() gives an item; it is ignored while the owner is paused.
Poll(t, e) ==
  /\ Idle(t)
  /\ Woken(e)
  /\ \A u \in Threads : \A i \in DOMAIN stack[u] : stack[u][i].node # e
  /\ notified' = [notified EXCEPT ![e] = FALSE]
  /\ IF paused[e]
     THEN missed' = [missed EXCEPT ![e] = TRUE] /\ UNCHANGED stack
     ELSE Enter(t, Frame("task", e, "dirty")) /\ UNCHANGED missed
  /\ UNCHANGED <<graph, dirty, first, paused, seen, guards>>

\* EffectInner::update_if_necessary: dirty, or any source changed.
TaskDirty(t) ==
  LET f == Top(t)
      e == f.node
  IN /\ At(t, "task", "dirty")
     /\ dirty' = [dirty EXCEPT ![e] = FALSE]
     /\ Goto(t, IF dirty[e] THEN [f EXCEPT !.pc = "run"]
                ELSE [f EXCEPT !.pc = "sources", !.todo = sources[e]])
     /\ UNCHANGED <<graph, notified, first, paused, missed, seen, guards>>

TaskSources(t) ==
  LET f == Top(t)
      g == [f EXCEPT !.todo = Tail(f.todo)]
  IN /\ At(t, "task", "sources")
     /\ CASE f.ret -> Goto(t, [f EXCEPT !.pc = "run"])
          [] ~f.ret /\ f.todo = <<>> ->
               IF first[f.node] THEN Goto(t, [f EXCEPT !.pc = "run"]) ELSE Pop(t)
          [] OTHER ->
               IF Head(f.todo) \in Memos
               THEN Call(t, g, Frame("update", Head(f.todo), "state")) ELSE Goto(t, g)
     /\ UNCHANGED <<graph, effects, seen, guards>>

\* Clears the sources and runs the function with the effect as the observer.
StartEffect(t) ==
  LET e == Top(t).node
  IN /\ At(t, "task", "run")
     /\ \A x \in ToSet(sources[e]) : Unlocked(x)
     /\ first' = [first EXCEPT ![e] = FALSE]
     /\ missed' = [missed EXCEPT ![e] = FALSE]
     /\ ClearSources(e)
     /\ Call(t, [Top(t) EXCEPT !.pc = "end"], Frame("run", e, "next"))
     /\ UNCHANGED <<value, state, rlock, dirty, notified, paused, seen, guards>>

TaskEndResets(t) ==
  /\ At(t, "task", "end")
  /\ Pop(t)
  /\ dirty' = [dirty EXCEPT ![Top(t).node] = FALSE]
  /\ UNCHANGED <<graph, notified, first, paused, missed, seen, guards>>
TaskEnd(t) ==
  /\ At(t, "task", "end")
  /\ Pop(t)
  /\ UNCHANGED <<graph, effects, seen, guards>>

\* Owner::pause and Owner::resume.
PauseOrResume(t, e) ==
  /\ MayPause /\ Idle(t)
  /\ paused' = [paused EXCEPT ![e] = ~@]
  /\ UNCHANGED <<graph, dirty, notified, first, missed, seen, stack, guards>>

-----------------------------------------------------------------------------
(* Reads by user code *)

\* ArcMemo::try_read_untracked: updates the memo, then takes a guard.
Get(t, m) ==
  /\ Idle(t)
  /\ stack' = [stack EXCEPT ![t] =
                 <<Frame("get", m, "read"), Frame("update", m, "state")>>]
  /\ UNCHANGED <<graph, effects, seen, guards>>

\* get drops its guard at once, user code may keep that of read.
GetValue(t) ==
  LET m == Top(t).node
  IN /\ At(t, "get", "read")
     /\ CanRead(t, m)
     /\ Pop(t)
     /\ \/ UNCHANGED guards
        \/ MayHold /\ guards' = [guards EXCEPT ![t] = @ \cup {m}]
     /\ UNCHANGED <<graph, effects, seen>>

DropGuard(t, m) ==
  /\ Idle(t) /\ m \in guards[t]
  /\ guards' = [guards EXCEPT ![t] = @ \ {m}]
  /\ UNCHANGED <<graph, effects, seen, stack>>

-----------------------------------------------------------------------------
(* The specification *)

Marking(t) == CloneSubscribers(t) \/ MarkMemo(t) \/ MarkEffect(t) \/ MarkDone(t)
Updating(t) ==
  \/ NeedsUpdate(t) \/ CheckSource(t) \/ CheckOwn(t) \/ SetClean(t) \/ Begin(t)
  \/ StartMemo(t) \/ LockMemo(t) \/ CommitMemo(t) \/ ReturnChanged(t)
Function(t) ==
  AddSource(t) \/ AddSubscriber(t) \/ ReadValue(t) \/ EndMemo(t) \/ EndEffect(t)
Task(t) == TaskDirty(t) \/ TaskSources(t) \/ StartEffect(t) \/ TaskEnd(t)
Continue(t) == Marking(t) \/ Updating(t) \/ Function(t) \/ Task(t) \/ GetValue(t)

User(t) ==
  \/ \E s \in Signals : Set(t, s)
  \/ \E m \in Memos : Get(t, m) \/ DropGuard(t, m)
  \/ \E e \in Effects : PauseOrResume(t, e)

\* User code may leave everything as it is once nothing runs.
Rest == (\A t \in Threads : Idle(t)) /\ UNCHANGED vars

Next == \/ \E t \in Threads : Continue(t) \/ User(t) \/ \E e \in Effects : Poll(t, e)
        \/ Rest

Spec == Init /\ [][Next]_vars

\* Calls go on, and the executor polls a woken task however busy the thread.
Fairness ==
  /\ \A t \in Threads : WF_vars(Continue(t))
  /\ \A e \in Effects : SF_vars(\E t \in Threads : Poll(t, e))
FairSpec == Spec /\ Fairness

-----------------------------------------------------------------------------
(* Properties *)

Frames ==
  [op : {"mark", "update", "run", "task", "get"}, node : Sources \cup Subscribers,
   pc : {"clone", "mark", "state", "sources", "own", "clean", "begin", "clear", "commit",
         "value", "changed", "next", "track", "read", "dirty", "run", "end"},
   todo : Seq(Sources \cup (Subscribers \X {"dirty", "check"})), vals : Seq(Nat),
   ret : BOOLEAN]

TypeOK ==
  /\ value \in [Sources -> Nat \cup {NoValue}] /\ \A s \in Signals : value[s] \in Nat
  /\ state \in [Memos -> {"Clean", "Check", "Dirty"}]
  /\ sources \in [Subscribers -> Seq(Sources)]
  /\ subs \in [Sources -> Seq(Subscribers)]
  /\ rlock \in [Memos -> Threads \cup {Nobody}]
  /\ dirty \in [Effects -> BOOLEAN] /\ notified \in [Effects -> BOOLEAN]
  /\ first \in [Effects -> BOOLEAN] /\ paused \in [Effects -> BOOLEAN]
  /\ missed \in [Effects -> BOOLEAN]
  /\ seen \in [Subscribers -> Seq(Nat)]
  /\ stack \in [Threads -> Seq(Frames)]
  /\ guards \in [Threads -> SUBSET Memos]

\* What a node's value is for the present values of the signals, and what its
\* function reads for them.
TruthOf ==
  LET T[x \in Sources] ==
        IF x \in Signals THEN value[x]
        ELSE LET vals == [i \in DOMAIN Reads[x] |-> T[Reads[x][i]]]
             IN Compute(x, SubSeq(vals, 1, ReadCount(x, vals)))
  IN T
TruthReads(n) ==
  LET vals == [i \in DOMAIN Reads[n] |-> TruthOf[Reads[n][i]]]
  IN SubSeq(vals, 1, ReadCount(n, vals))

Quiet == \A t \in Threads : Idle(t)

\* A memo that is Clean has the value that its function would give now, unless
\* a change is being marked (graph/node.rs: "either none of its sources have
\* changed, or its sources have changed but its value is unchanged").  So a
\* read of a memo is never out of date.
CleanIsCurrent ==
  (\A t \in Threads : \A i \in DOMAIN stack[t] : stack[t][i].op = "mark" =>
                                                 stack[t][i].node \notin Signals)
  => \A m \in Memos : state[m] = "Clean" => value[m] = TruthOf[m]

\* An effect "reruns the function whenever the value of a dependency changes"
\* (effect/effect.rs): once everything has run and no notification is left, or
\* was ignored by a pause, its last run read the present values.
EffectsSettled ==
  Quiet => \A e \in Effects :
    ~notified[e] /\ ~missed[e] => seen[e] = TruthReads(e)

\* A memo runs "once per change" (computed/memo.rs): its function is started
\* only if what it would read differs from what it read when it last ran.
MemoRunIsNeeded ==
  [][\A t \in Threads : StartMemo(t) =>
       LET m == Top(t).node IN value[m] = NoValue \/ seen[m] # TruthReads(m)]_vars

\* Two threads that use one memo never wait for each other: one for the
\* readers of its value, with the reactivity lock, the other for that lock,
\* with a read guard of the value (computed/inner.rs: the value lock "must
\* always be acquired *after* the reactivity lock").
WaitsForReactivity(t, m) ==
  /\ rlock[m] \notin {Nobody, t}
  /\ \/ At(t, "run", "next") /\ Top(t).node = m
     \/ At(t, "update", "clear") /\ Top(t).node = m
     \/ At(t, "update", "state") /\ Top(t).node = m
NoMemoDeadlock ==
  \A t \in Threads, m \in Memos : ~(Reading(t, m) /\ WaitsForReactivity(t, m))

\* The value under a read guard of a memo does not change, whichever thread
\* recomputes the memo (computed/inner.rs: the write "waits while other threads
\* read the value", and a memo this thread is using "keeps its previous value").
GuardedValueIsStable ==
  [][\A t \in Threads : \A m \in guards[t] : value'[m] = value[m]]_vars

\* An effect never stays behind: time and again, it has run with the present
\* values of what it reads, unless its owner was paused when they changed.
EffectsCatchUp ==
  \A e \in Effects : []<>(seen[e] = TruthReads(e) \/ paused[e] \/ missed[e])

=============================================================================
