-------------------------- MODULE EffectLifecycle --------------------------
(***************************************************************************)
(* The life of effects: the notification channel (channel.rs), the task    *)
(* loop of Effect and RenderEffect (effect/effect.rs, render_effect.rs),   *)
(* the owners (owner.rs) and the arena that keeps an effect alive.         *)
(*                                                                         *)
(* One effect, Outer, is created under the root owner; each run of its     *)
(* function registers a cleanup and may create Inner effects.  Threads     *)
(* mark effects dirty, stop them, and clean, pause and resume the root.    *)
(* An effect has the same name as its owner and its task.                  *)
(*                                                                         *)
(* refs[e] are the strong references to the EffectInner, whose field is    *)
(* the only Sender: Store is its arena entry (Effect) or its handle        *)
(* (RenderEffect).  The sources here are signals (ReactiveGraph has        *)
(* memos): an effect needs an update exactly when it is dirty.             *)
(***************************************************************************)
EXTENDS Naturals, Sequences, SequencesExt, FiniteSets

CONSTANTS
  Outer,     \* the effect created under the root owner
  Inner,     \* the effects its function may create
  Threads,   \* threads that call into the graph
  Root,      \* the root owner
  Store,     \* what keeps an effect: its arena entry, or its handle
  MaxMarks,  \* bounds the marks made by the threads
  MaxCalls   \* bounds the calls of stop, cleanup, pause and resume

Effects == {Outer} \cup Inner
Owners == {Root} \cup Effects
Actors == Threads \cup Effects

ASSUME LifecycleAssumption ==
  /\ Outer \notin Inner /\ Root \notin Effects
  /\ Threads \cap Effects = {} /\ Store \notin Actors
  /\ IsFiniteSet(Inner) /\ IsFiniteSet(Threads)
  /\ MaxMarks \in Nat /\ MaxCalls \in Nat

VARIABLES
  native,    \* threads and tasks run in parallel (it never changes)
  refs,      \* effect -> who holds its EffectInner
  dirty,     \* effect -> EffectInner::dirty
  set,       \* effect -> Inner::set of its channel
  waker,     \* effect -> the task's waker is in Inner::waker
  queued,    \* effect -> its task was woken and waits for the executor
  step,      \* effect -> where its task is
  first,     \* effect -> first_run
  own,       \* owner -> children, cleanups, nodes, paused
  held,      \* owner -> who holds a strong reference to it
  todo,      \* actor -> the rest of the call it is in
  marks, calls,
  runs,      \* effect -> runs of its function so far
  ran,       \* effect -> run -> how often the cleanup it registered ran
  parent,    \* inner effect -> the run of Outer that created it, 0 before
  handles,   \* the RenderEffects that Outer's value holds
  swallowed  \* effects whose notification was taken while they were paused

graph == <<refs, dirty, set, waker, queued>>
owners == <<own, held>>
history == <<runs, ran, parent, swallowed>>
vars == <<native, graph, step, first, owners, todo, marks, calls, history, handles>>

Runs == 1..(MaxMarks + 1)
Receiving(e) == step[e] \in {"upgraded", "registered", "taken", "empty"}

\* A browser has one thread: a call runs to its end, but a body may make calls.
Resting(a) == todo[a] = <<>> /\ (a \in Effects => step[a] \in {"none", "waiting", "ended"})
Turn(a) ==
  \/ native
  \/ \A b \in Actors \ {a} :
       Resting(b) \/ (a \in Threads /\ b \in Effects /\ step[b] = "body" /\ todo[b] = <<>>)

Goto(e, s) == step' = [step EXCEPT ![e] = s]
Then(a, items) == todo' = [todo EXCEPT ![a] = items \o Tail(@)]
Call(a, items) == todo' = [todo EXCEPT ![a] = items]

Empty == [children |-> <<>>, cleanups |-> <<>>, nodes |-> <<>>, paused |-> FALSE]

Init ==
  /\ native \in BOOLEAN
  /\ refs = [e \in Effects |-> IF e = Outer THEN {Store} ELSE {}]
  /\ dirty = [e \in Effects |-> e = Outer]
  /\ set = [e \in Effects |-> e = Outer]
  /\ waker = [e \in Effects |-> FALSE]
  /\ queued = [e \in Effects |-> e = Outer]
  /\ step = [e \in Effects |-> IF e = Outer THEN "waiting" ELSE "none"]
  /\ first = [e \in Effects |-> e = Outer]
  /\ own = [o \in Owners |->
       IF o = Root THEN [Empty EXCEPT !.children = <<Outer>>, !.nodes = <<Outer>>] ELSE Empty]
  /\ held = [o \in Owners |-> IF o \in {Root, Outer} THEN {o} ELSE {}]
  /\ todo = [a \in Actors |-> <<>>]
  /\ marks = 0 /\ calls = 0
  /\ runs = [e \in Effects |-> 0]
  /\ ran = [e \in Effects |-> [r \in Runs |-> 0]]
  /\ parent = [e \in Inner |-> 0]
  /\ handles = {} /\ swallowed = {}

-----------------------------------------------------------------------------
(* Calls: the stack of what an actor still has to do, the next item first.  *)

Singletons(S) == LET s == SetToSeq(S) IN [i \in 1..Len(s) |-> <<s[i]>>]
Item(kind, x) == <<kind, x>>
Items(kind, s) == [i \in 1..Len(s) |-> <<kind, s[i]>>]

FunctionsFirst(o) ==
  [i \in 1..Len(own[o].cleanups) |-> <<"run", o, own[o].cleanups[i]>>]
    \o Items("cleanup", own[o].children)
    \o (IF own[o].nodes = <<>> THEN <<>> ELSE <<Item("remove", own[o].nodes)>>)

\* Children are cleaned, then the cleanup functions run, then the nodes go.
CleanupOrder(o) ==
  Items("cleanup", own[o].children)
    \o [i \in 1..Len(own[o].cleanups) |-> <<"run", o, own[o].cleanups[i]>>]
    \o (IF own[o].nodes = <<>> THEN <<>> ELSE <<Item("remove", own[o].nodes)>>)
TakenNot(o) == own
Taken(o) == [own EXCEPT ![o].children = <<>>, ![o].cleanups = <<>>, ![o].nodes = <<>>]

\* Cleanup for RwLock<OwnerInner>: taken under the lock, run outside of it.  The caller
\* holds the owner meanwhile; an owner that is gone has cleaned itself.
CleanupOwner(a) ==
  /\ Head(todo[a])[1] = "cleanup"
  /\ LET o == Head(todo[a])[2] IN
     IF held[o] = {}
     THEN Then(a, <<>>) /\ UNCHANGED owners
     ELSE /\ Then(a, CleanupOrder(o) \o <<Item("release", o)>>)
          /\ own' = Taken(o)
          /\ held' = [held EXCEPT ![o] = @ \cup {a}]
  /\ UNCHANGED <<graph, ran, calls>>

\* A cleanup function is the user's: it may stop or dispose of an effect, its own included.
RunCleanup(a) ==
  /\ Head(todo[a])[1] = "run"
  /\ \/ Then(a, <<>>) /\ UNCHANGED calls
     \/ \E e \in Effects \ handles :
          /\ calls < MaxCalls /\ Store \in refs[e]
          /\ Then(a, <<Item("remove", <<e>>)>>) /\ calls' = calls + 1
  /\ LET o == Head(todo[a])[2] r == Head(todo[a])[3] IN ran' = [ran EXCEPT ![o][r] = @ + 1]
  /\ UNCHANGED <<graph, owners>>

\* The last reference to an owner is gone: Drop for OwnerInner.
Release(a) ==
  /\ Head(todo[a])[1] = "release"
  /\ LET o == Head(todo[a])[2] IN
       /\ held' = [held EXCEPT ![o] = @ \ {a}]
       /\ IF held'[o] = {}
          THEN Then(a, CleanupOrder(o)) /\ own' = Taken(o)
          ELSE Then(a, <<>>) /\ UNCHANGED own
  /\ UNCHANGED <<graph, ran, calls>>

\* The entries leave the arena under its lock and are dropped after it; a node that was
\* not there gives nothing to drop.
RemoveNodes(a) ==
  /\ Head(todo[a])[1] = "remove"
  /\ LET nodes == {e \in Effects : Store \in refs[e]
                     /\ \E i \in 1..Len(Head(todo[a])[2]) : Head(todo[a])[2][i] = e} IN
       /\ refs' = [e \in Effects |->
                     IF e \in nodes THEN (refs[e] \ {Store}) \cup {a} ELSE refs[e]]
       /\ Then(a, Items("drop", Head(todo[a])[2]))
  /\ UNCHANGED <<dirty, set, waker, queued, owners, ran, calls>>

\* A reference to an EffectInner, if there is one, is dropped; the Sender goes with the
\* last one, and the channel unless the receiver holds it at the moment.
DropRef(a) ==
  /\ Head(todo[a])[1] = "drop"
  /\ LET e == Head(todo[a])[2] IN
       /\ refs' = [refs EXCEPT ![e] = @ \ {a}]
       /\ Then(a, IF a \in refs[e] /\ refs'[e] = {} /\ ~Receiving(e)
                  THEN <<Item("close", e)>> ELSE <<>>)
  /\ UNCHANGED <<dirty, set, waker, queued, owners, ran, calls>>

\* AtomicWaker::wake takes the waker, if there is one, and schedules the task.
WakeNot(e) == UNCHANGED <<waker, queued>>
Wake(e) ==
  /\ waker' = [waker EXCEPT ![e] = FALSE]
  /\ queued' = [queued EXCEPT ![e] = @ \/ waker[e]]

\* Drop for the channel's Inner wakes a receiver that waits.
OnClose(e) == Wake(e)
CloseChannel(a) ==
  /\ Head(todo[a])[1] = "close"
  /\ Then(a, <<>>)
  /\ OnClose(Head(todo[a])[2])
  /\ UNCHANGED <<refs, dirty, set, owners, ran, calls>>

\* EffectInner::mark_dirty, under its lock until notify has woken the task.
MarkDirty(a) ==
  /\ Head(todo[a])[1] = "mark"
  /\ LET e == Head(todo[a])[2] IN
       /\ \A b \in Actors : todo[b] # <<>> => Head(todo[b]) # Item("wake", e)
       /\ dirty' = [dirty EXCEPT ![e] = TRUE]
       /\ set' = [set EXCEPT ![e] = TRUE]
       /\ Then(a, <<Item("wake", e)>>)
  /\ UNCHANGED <<refs, waker, queued, owners, ran, calls>>

NotifyWakes(a) ==
  /\ Head(todo[a])[1] = "wake"
  /\ Then(a, <<Item("drop", Head(todo[a])[2])>>)
  /\ Wake(Head(todo[a])[2])
  /\ UNCHANGED <<refs, dirty, set, owners, ran, calls>>

\* Owner::pause and resume: each owner under its lock, the children on a stack.
PauseOwner(a) ==
  /\ Head(todo[a])[1] \in {"pause", "resume"}
  /\ LET o == Head(todo[a])[2] IN
     IF held[o] = {}
     THEN Then(a, <<>>) /\ UNCHANGED owners
     ELSE /\ own' = [own EXCEPT ![o].paused = Head(todo[a])[1] = "pause"]
          /\ Then(a, Items(Head(todo[a])[1], Reverse(own[o].children)))
          /\ UNCHANGED held
  /\ UNCHANGED <<graph, ran, calls>>

Continue(a) ==
  /\ todo[a] # <<>> /\ Turn(a)
  /\ \/ CleanupOwner(a) \/ RunCleanup(a) \/ Release(a) \/ RemoveNodes(a)
     \/ DropRef(a) \/ CloseChannel(a) \/ MarkDirty(a) \/ NotifyWakes(a) \/ PauseOwner(a)
  /\ UNCHANGED <<native, step, first, marks, runs, parent, swallowed, handles>>

-----------------------------------------------------------------------------
(* What a thread may call.  A mark reaches an effect that has run and so     *)
(* has sources; the reference is upgraded first.                             *)

Mark(t, e) ==
  /\ todo[t] = <<>> /\ Turn(t) /\ marks < MaxMarks
  /\ runs[e] > 0 /\ refs[e] # {}
  /\ refs' = [refs EXCEPT ![e] = @ \cup {t}]
  /\ Call(t, <<Item("mark", e)>>)
  /\ marks' = marks + 1
  /\ UNCHANGED <<native, dirty, set, waker, queued, step, first, owners, calls, history, handles>>

\* Effect::stop and dispose empty the arena entry.
Stop(t, e) ==
  /\ todo[t] = <<>> /\ Turn(t) /\ calls < MaxCalls
  /\ Store \in refs[e] /\ e \notin handles
  /\ Call(t, <<Item("remove", <<e>>)>>)
  /\ calls' = calls + 1
  /\ UNCHANGED <<native, graph, step, first, owners, marks, history, handles>>

CleanupRoot(t) ==
  /\ todo[t] = <<>> /\ Turn(t) /\ calls < MaxCalls
  /\ Call(t, CleanupOrder(Root)) /\ own' = Taken(Root)
  /\ calls' = calls + 1
  /\ UNCHANGED <<native, graph, step, first, held, marks, history, handles>>

PauseRoot(t) ==
  /\ todo[t] = <<>> /\ Turn(t) /\ calls < MaxCalls
  /\ Call(t, <<Item("pause", Root)>>)
  /\ calls' = calls + 1
  /\ UNCHANGED <<native, graph, step, first, owners, marks, history, handles>>

ResumeRoot(t) ==
  /\ todo[t] = <<>> /\ Turn(t) /\ own[Root].paused
  /\ Call(t, <<Item("resume", Root)>>)
  /\ UNCHANGED <<native, graph, step, first, owners, marks, calls, history, handles>>

-----------------------------------------------------------------------------
(* The task: while rx.next().await.is_some() { ... }                         *)

Ready(e, s) == step[e] = s /\ todo[e] = <<>> /\ Turn(e)

\* The executor polls a task that was woken; a loop that goes on polls at once.
StartPoll(e) ==
  /\ Ready(e, "waiting") /\ queued[e]
  /\ queued' = [queued EXCEPT ![e] = FALSE]
  /\ Goto(e, IF refs[e] = {} THEN "polling" ELSE "upgraded")
  /\ UNCHANGED <<native, refs, dirty, set, waker, first, owners, todo, marks, calls, history, handles>>

Upgrade(e) ==
  /\ Ready(e, "polling") /\ refs[e] # {}
  /\ Goto(e, "upgraded")
  /\ UNCHANGED <<native, graph, first, owners, todo, marks, calls, history, handles>>

RegisterOnce(e) ==
  /\ Ready(e, "upgraded")
  /\ Goto(e, "registered")
  /\ waker' = [waker EXCEPT ![e] = runs[e] = 0]
  /\ UNCHANGED <<native, refs, dirty, set, queued, first, owners, todo, marks, calls, history, handles>>

Register(e) ==
  /\ Ready(e, "upgraded")
  /\ Goto(e, "registered")
  /\ waker' = [waker EXCEPT ![e] = TRUE]
  /\ UNCHANGED <<native, refs, dirty, set, queued, first, owners, todo, marks, calls, history, handles>>

Swap(e) ==
  /\ Ready(e, "registered")
  /\ Goto(e, IF set[e] THEN "taken" ELSE "empty")
  /\ set' = [set EXCEPT ![e] = FALSE]
  /\ UNCHANGED <<native, refs, dirty, waker, queued, first, owners, todo, marks, calls, history, handles>>

\* The receiver drops its reference; if the Sender went meanwhile, the channel closes here.
EndPoll(e) ==
  /\ \/ Ready(e, "taken") /\ Goto(e, "notified")
     \/ Ready(e, "empty") /\ Goto(e, "waiting")
  /\ IF refs[e] = {} THEN Call(e, <<Item("close", e)>>) ELSE UNCHANGED todo
  /\ UNCHANGED <<native, graph, first, owners, marks, calls, history, handles>>

\* A notification is dropped by a paused effect, and by one that is not dirty.
Check(e) ==
  /\ Ready(e, "notified")
  /\ IF own[e].paused
     THEN /\ Goto(e, "polling")
          /\ swallowed' = swallowed \cup {e}
          /\ UNCHANGED <<refs, dirty, first, todo>>
     ELSE /\ \A a \in Actors : todo[a] # <<>> => Head(todo[a]) # Item("wake", e)
          /\ Goto(e, IF (refs[e] # {} /\ dirty[e]) \/ first[e] THEN "cleaning" ELSE "polling")
          /\ first' = [first EXCEPT ![e] = FALSE]
          /\ IF refs[e] = {}
             THEN UNCHANGED <<refs, dirty, todo>>
             ELSE /\ dirty' = [dirty EXCEPT ![e] = FALSE]
                  /\ refs' = [refs EXCEPT ![e] = @ \cup {e}]
                  /\ Call(e, <<Item("drop", e)>>)
          /\ UNCHANGED swallowed
  /\ UNCHANGED <<native, set, waker, queued, owners, marks, calls, runs, ran, parent, handles>>

\* owner.with_cleanup: what the last run left is cleaned before the function runs.
NoCleanup(e) == <<>>
BeforeRun(e) == CleanupOrder(e)
WithCleanup(e) ==
  /\ Ready(e, "cleaning")
  /\ Goto(e, "starting")
  /\ Call(e, BeforeRun(e)) /\ own' = Taken(e)
  /\ UNCHANGED <<native, graph, first, held, marks, calls, history, handles>>

\* The function registers a cleanup of this run.
RunBody(e) ==
  /\ Ready(e, "starting")
  /\ Goto(e, "body")
  /\ runs' = [runs EXCEPT ![e] = @ + 1]
  /\ own' = [own EXCEPT ![e].cleanups = Append(@, runs'[e])]
  /\ UNCHANGED <<native, graph, first, held, todo, marks, calls, ran, parent, swallowed, handles>>

\* Effect::new in the function: a channel that is notified, an owner (not paused) under
\* the current one, a task, then an arena entry of the current owner.
SpawnEffect(e, i) ==
  /\ e = Outer /\ Ready(e, "body") /\ step[i] = "none"
  /\ step' = [step EXCEPT ![i] = "waiting"]
  /\ refs' = [refs EXCEPT ![i] = {Store}]
  /\ dirty' = [dirty EXCEPT ![i] = TRUE] /\ set' = [set EXCEPT ![i] = TRUE]
  /\ queued' = [queued EXCEPT ![i] = TRUE]
  /\ first' = [first EXCEPT ![i] = TRUE]
  /\ own' = [own EXCEPT ![e].children = Append(@, i), ![e].nodes = Append(@, i)]
  /\ held' = [held EXCEPT ![i] = {i}]
  /\ parent' = [parent EXCEPT ![i] = runs[e]]
  /\ UNCHANGED <<native, waker, todo, marks, calls, runs, ran, swallowed, handles>>

\* RenderEffect::new: nothing is notified, the function runs at once under the new owner,
\* and the handle is part of the value of the effect that creates it.
SpawnRenderEffect(e, i) ==
  /\ e = Outer /\ Ready(e, "body") /\ step[i] = "none"
  /\ step' = [step EXCEPT ![i] = "waiting"]
  /\ refs' = [refs EXCEPT ![i] = {Store}]
  /\ queued' = [queued EXCEPT ![i] = TRUE]
  /\ runs' = [runs EXCEPT ![i] = 1]
  /\ own' = [own EXCEPT ![e].children = Append(@, i), ![i].cleanups = <<1>>]
  /\ held' = [held EXCEPT ![i] = {i}]
  /\ parent' = [parent EXCEPT ![i] = runs[e]]
  /\ handles' = handles \cup {i}
  /\ UNCHANGED <<native, dirty, set, waker, first, todo, marks, calls, ran, swallowed>>

\* The function drops a RenderEffect of its old value.
DropHandle(e, i) ==
  /\ e = Outer /\ Ready(e, "body") /\ i \in handles
  /\ handles' = handles \ {i}
  /\ Call(e, <<Item("remove", <<i>>)>>)
  /\ UNCHANGED <<native, graph, step, first, owners, marks, calls, history>>

EndBody(e) ==
  /\ Ready(e, "body")
  /\ Goto(e, "polling")
  /\ UNCHANGED <<native, graph, first, owners, todo, marks, calls, history, handles>>

\* The stream ended: the task drops its value and its owner.
EndsWhenIdle(e) == ~set[e]
StreamEnded(e) == refs[e] = {}
EndTask(e) ==
  /\ Ready(e, "polling") /\ StreamEnded(e)
  /\ Goto(e, "ended")
  /\ LET kept == IF e = Outer THEN handles ELSE {} IN
       /\ handles' = handles \ kept
       /\ Call(e, <<Item("release", e)>> \o Items("remove", Singletons(kept)))
  /\ UNCHANGED <<native, graph, first, owners, marks, calls, history>>

Poll(e) == StartPoll(e) \/ Upgrade(e) \/ Register(e) \/ Swap(e) \/ EndPoll(e)
Task(e) == Poll(e) \/ Check(e) \/ WithCleanup(e) \/ RunBody(e) \/ EndBody(e) \/ EndTask(e)

Next ==
  \/ \E a \in Actors : Continue(a)
  \/ \E t \in Threads : \/ \E e \in Effects : Mark(t, e) \/ Stop(t, e)
                         \/ CleanupRoot(t) \/ PauseRoot(t) \/ ResumeRoot(t)
  \/ \E e \in Effects : \/ Task(e)
                         \/ \E i \in Inner : SpawnEffect(e, i) \/ SpawnRenderEffect(e, i) \/ DropHandle(e, i)

Spec == Init /\ [][Next]_vars

\* The executor polls every task that was woken and threads finish their calls.
FairSpec ==
  /\ Spec
  /\ \A t \in Threads : WF_vars(Continue(t))
  /\ \A e \in Effects : WF_vars(Continue(e) \/ Task(e))

-----------------------------------------------------------------------------
(* Properties                                                                *)

Steps == {"none", "waiting", "polling", "upgraded", "registered", "taken", "empty",
          "notified", "cleaning", "starting", "body", "ended"}

\* Types, and the reference counts' meaning: an effect in the arena has a task, a task
\* that has not ended holds its owner, and what a value holds is kept.
TypeOK ==
  /\ native \in BOOLEAN
  /\ refs \in [Effects -> SUBSET (Actors \cup {Store})]
  /\ dirty \in [Effects -> BOOLEAN] /\ set \in [Effects -> BOOLEAN]
  /\ waker \in [Effects -> BOOLEAN] /\ queued \in [Effects -> BOOLEAN]
  /\ first \in [Effects -> BOOLEAN] /\ step \in [Effects -> Steps]
  /\ held \in [Owners -> SUBSET (Actors \cup {Root})]
  /\ runs \in [Effects -> 0..(MaxMarks + 1)]
  /\ \A e \in Effects : step[e] \notin {"none", "ended"} => e \in held[e]
  /\ \A e \in Effects : Store \in refs[e] => step[e] \notin {"none", "ended"}
  /\ \A i \in handles : Store \in refs[i]

\* A task that waits and was not woken has nothing to wait for but a call in progress:
\* its waker is in the channel, the flag is down and the sender is there, or the thread
\* that raised the flag or dropped the sender is about to wake it.
NoLostWakeup ==
  \A e \in Effects :
    step[e] = "waiting" /\ ~queued[e] /\ todo[e] = <<>> =>
      \/ refs[e] # {} /\ ~set[e] /\ waker[e]
      \/ \E a \in Actors :
           todo[a] # <<>> /\ Head(todo[a]) \in {Item("wake", e), Item("close", e)}

\* No cleanup function runs twice, whichever of a re-run, a cleanup of an ancestor and
\* the end of the task come together; on one thread, the cleanups of earlier runs are
\* over when the function runs.
CleanedBeforeRun ==
  /\ \A e \in Effects, r \in Runs : ran[e][r] <= 1
  /\ \A e \in Effects : ~native /\ step[e] = "body" =>
       \A r \in 1..(runs[e] - 1) : ran[e][r] = 1

\* On one thread an effect that was disposed of does not run again, also when it was
\* notified before: nothing but the cleanups of an earlier run of its own can dispose of
\* it between its task's look at it and the run, and a nested effect does not outlive the
\* run that created it.
NoRunAfterDisposal ==
  ~native =>
    /\ \A e \in Effects : step[e] = "cleaning" => refs[e] # {}
    /\ \A e \in Effects : step[e] = "starting" /\ runs[e] = 0 => refs[e] # {}
    /\ \A i \in Inner \ handles :
         step[Outer] = "body" /\ todo[Outer] = <<>> /\ parent[i] \in 1..(runs[Outer] - 1) =>
           Store \notin refs[i]

\* What effect.rs:35 says without that exception, "Effects stop running when their reactive
\* Owner is disposed": no function starts once its effect is gone.  A cleanup of an earlier
\* run that disposes of its own effect comes after the task's look, and the function runs.
StopsWhenDisposed ==
  ~native => \A e \in Effects : step[e] = "starting" /\ todo[e] = <<>> => refs[e] # {}

\* On one thread the cleanups of nested effects run before those of the run that
\* created them.
InnerCleanedFirst ==
  [][\A r \in Runs : ran'[Outer][r] > ran[Outer][r] /\ ~native =>
       \A i \in Inner : parent[i] = r => \A s \in 1..runs[i] : ran[i][s] = 1]_vars

\* A mark is answered by a run unless the effect is disposed of or is paused when its
\* task looks.
MarkedRuns ==
  \A e \in Effects : dirty[e] ~> (~dirty[e] \/ step[e] = "ended" \/ e \in swallowed)

\* When the outer effect is disposed of, every task ends, every owner is dropped and
\* every cleanup has run: nothing captured by a task leaks.
DisposalReachesAll ==
  Store \notin refs[Outer] ~>
    \A e \in Effects :
      /\ step[e] \in {"none", "ended"} /\ held[e] = {}
      /\ \A r \in 1..runs[e] : ran[e][r] = 1
=============================================================================
