# TLA+ specifications of Halyard

Halyard is a Rust web framework: a fine-grained reactive graph
(`halyard_reactive_graph`), a renderer over it (`halyard_tachys`), and the
framework proper, with resources, suspense, a router and a server integration
(`halyard`).  This directory models, from the source, the reactive graph that
everything else is built on, the views rendered over it, and the streaming of a
page from the server.  It holds TLA+ modules, the TLC configurations that check
them on small instances, and proofs that TLAPS checks for every value of the
constants.

Paths below are relative to `halyard_reactive_graph/src/` unless they say
otherwise.

## The system

| Component | State | Operations | Hard behaviour | What makes it correct |
|---|---|---|---|---|
| Re-entrancy record (`reentry.rs`) | per thread and value: depth, shared read guard, writer turn, deferred writes | enter, exit, begin_write, take_turn, share_read, take_pending, put_pending, resume_write | user code runs between any two steps and may nest, keep guards or panic | a thread never waits for itself; the turn is kept exactly as long as the signal is used |
| Signal writes (`signal/commit.rs`) | committed value, turn, subscribers | set_value, update_snapshot, swap_part, snapshot_guard, notify_or_defer, commit, defer, drain, set_unrecorded | threads interleave; writes made while the signal is in use are deferred; drains that feed themselves; threads in shutdown | updates land over the value they were given; deferred writes are applied, once and in order; subscribers hear of every change |
| Read guards (`signal/guards.rs`) | the lock's readers | Plain::try_new_at, drop | a read that may not wait | a value does not change under a guard |
| Graph (`graph/`, `traits.rs`, `signal/subscriber_traits.rs`) | sources and subscribers of each node, the observer | track, add_source, add_subscriber, clear_sources, mark_dirty, mark_check | sources change from run to run | a node is subscribed to what its last run read |
| Memos (`computed/inner.rs`, `arc_memo.rs`) | value, state (Clean, Check, Dirty) | update_if_necessary, mark_dirty, mark_check, read | two locks; marks made while it computes; reads under guards | a clean memo has its present value; it runs only when needed |
| Effects (`effect/effect.rs`, `effect/inner.rs`) | dirty flag, first_run, sources | the task loop, mark_dirty, mark_check | marks that arrive during a run; paused owners | it ends up having seen the present values |
| Channel (`channel.rs`) | a flag and a waker | notify, poll_next, drop | flag and waker are two atomics | no lost wakeup; the stream ends with its sender |
| Render effects, immediate effects, batch (`effect/`) | run counters, batch queue | as effects, without a task | recursive and parallel runs | sources of the last run are kept |
| Async derived (`computed/async_derived/`, `transition.rs`) | value, loading, version, state, wakers, suspenses | loader loop, set, refetch, await, by_ref | loads overtaken by writes or newer loads; wakers; reads across awaits | the newest value stays; every awaiter is woken |
| Actions (`actions/`) | input, value, version, in_flight, submissions | dispatch, abort, clear, cancel | completions out of order | the latest dispatch's result stays; pending means in flight |
| Owners (`owner.rs`, `owner/`) | tree, nodes, cleanups, contexts, arena, paused | new, child, with_cleanup, cleanup, pause, resume, unset | cleanup runs user code | each cleanup runs once; nothing of a disposed owner is reached |
| Executor (`executor/`) | the installed executor | init_*, spawn, spawn_local, poll_local | initialised once, from any thread | |
| Hydration context (`hydration_context/`) | ids, resolved buffers, error boundaries | next_id, write_async, pending_data, seal_errors | data that resolves in any order | both sides give one id to one thing; all data is streamed once |
| Resources, suspense, error boundary (`halyard/src/server/`, `suspense_component.rs`, `error_boundary.rs`) | on async derived; the Suspenses a boundary waits for | to_html_async_with_buf, build, rebuild | data that load in any order | every body is shown, in its place |
| Streaming (`halyard_tachys/src/ssr/mod.rs`) | buffer, chunks, pending futures, chunk ids | push_sync, push_async, push_async_out_of_order, append, finish, poll_next | chunks ready before or after their fallback was sent | the page is complete, in order, without markers |
| Renderer, keyed lists (`halyard_tachys/src/view/`, `hydration.rs`, `halyard/src/mount.rs`) | view states, the DOM | build, rebuild, mount, unmount, to_html, hydrate, diff, apply | moves, removals and insertions in one plan; server and browser count nodes independently | the page shows the view, however it came there |
| Router (`halyard/src/router/`) | url, pending navigation, path stack | navigate, popstate, complete_navigation | navigations overtake each other | the address bar shows the last one |
| Macros, configuration, Axum handlers, vendored parsers | none of interest | | | not modelled |

Writes reach the graph through `mark_subscribers` (called by commit and drain
without any lock held), which marks memos dirty or check and sets the flag of
effects' channels; the executor then polls the effects' tasks, which pull
through `update_if_necessary`, which may compute memos, which mark again.  All
of that is user code as seen from the record of `reentry.rs`: it may read and
write signals, which is why that protocol is modelled with arbitrary nesting
and the graph with the calls on an explicit stack.

## Modules

**SignalWrites** models `reentry.rs`, `signal/commit.rs` and the read guard of
`signal/guards.rs`.  Threads do any sequence of operations on shared signals.
`acc[t]` is the thread's record together with its call stack: each access has
a kind (which operation), a phase (where it is: waiting for the lock or the
turn, in user code, in the swap, marking subscribers, draining) and, for a call,
its level; only the call on top of the stack runs, and it lets other operations
start exactly while user code runs (a closure, or subscribers being marked).
Guards are accesses without a level: user code drops them in any order.  `pending[t][s]` is
`PendingWrites`, `turn[s]` the writer turn, `committed[s]` the value.  A value
is named by the thread and number of the write that made it, and an update
carries the value its closure was given, so that lost updates show.  Two
variables are history: `stale` (a committed change whose marking has not ended)
and `ops` (the operation numbers, which also bound the model).  `exit` is one operator, `Exit`, part of every action that ends an
access; the flush it starts is a call of its own that takes the turn if the
thread has none.  `Panic` is an unwinding to the thread's boundary, `Shutdown`
the destruction of the thread-locals, after which writes go through
`set_unrecorded`.

**SignalRegister** is the abstract specification: what a signal promises,
whatever the deferral machinery does.  A value says which thread wrote it; it changes
only to a write of the thread that has the turn, or of a thread in shutdown (`left`)
while the turn is free, and only while nobody reads; each thread takes and returns only
its own turn and reads.  `SignalWrites!RegisterSpec` states that SignalWrites implements
it, with `committed` as the value, `turn` as the writer, the threads that
hold the read lock as the readers and `gone` as the threads that left.

**SignalWritesProofs** has the theorems about SignalWrites and its refinement of
SignalRegister; **ActionsProofs** and **AsyncProofs** those about Actions and
AsyncDerived; **LifecycleProofs** and **CleanupProofs**, which extends it, those about
EffectLifecycle; **GraphProofs** and, on top of it, **MemoProofs** those about
ReactiveGraph; **ListDiffProofs** those about the plan of ListDiff.  See
[Proofs](#proofs).

**ReactiveGraph** models marking, `update_if_necessary`, tracking and the
effects' task loop, at the granularity of the code's lock acquisitions.
`stack[t]` is the thread's stack of calls; `mark`, `update`, `run` (a user
function), `task` (one turn of an effect's loop) and `get` (a read by user code)
are its frames.  The functions of memos and effects read a given sequence of
nodes; the ones in `Gated` stop after an even first value (dynamic sources), the
memos in `Coarse` return whether the sum of what they read is positive (so they
may be unchanged), others the sum.  An effect may set a signal.  `rlock[m]` is a
memo's reactivity lock where it is held over a wait; `seen[n]` is a history
variable: what the node's function read when it last ended; `missed[e]` another:
a notification was ignored during a pause.  A set on a signal is one step that
changes the value, followed by the marking: that it is so, whichever path commits it, is what
SignalWrites shows (`RegisterSpec`, `ChangesAreMarked`).

**EffectLifecycle** models what ReactiveGraph has as one flag and one poll: the
channel of `channel.rs` step by step (the flag and the waker of a notify; upgrade, register,
swap and drop of a poll), the task of an effect and of a render effect, and the
owners of `owner.rs`.  One effect, `Outer`, is made under the root owner; its
function may make `Inner` effects of either kind and drop the handles of render
effects.  Threads mark, stop, clean the root, pause and resume.  Each run registers a
cleanup function, which is user code: it may stop or dispose of an effect, its own
included, and such a call counts as one of `MaxCalls`.  `todo[a]` is the
rest of the call an actor is in, so that a cleanup that reaches a cleanup is a
stack of items; `refs[e]` and `held[o]` are the strong references, by holder.
`native` is chosen in `Init`: without it there is one thread, as in a browser, where a
call runs to its end before the next one starts.  The same switch is in
AsyncDerived and Actions.

**AsyncTransition** models `transition.rs`; **AsyncDerived** extends it with one
async derived value: the loader's loop of `spawn_derived!`, `set_inner_value`
and `notify_subs`, the writes, and the ways to wait for the value
(`future_impls.rs`, one kind per awaiter), with the suspense boundary they tell.
A load is known by the value of the source its future read, a write by its number.

**Actions** models one action and one multi-action, every signal write of a
dispatch and of its task a step.  `dispatched` never changes, as in the code.

**ListDiff** has the plan that `diff` makes of two key lists, as operators.
**Views** has the views: a view is a tagged sequence, a state a record with the nodes it
holds, a page a sequence of nodes with their children.  `Build`, `Rebuild`,
`Mount`, `Unmount`, `Before` (where `insert_before_this` looks), `Html` and
`Hydrate` have one operator per kind of view and thread the page through.  The
actions are those of an app: it starts mounted or hydrated, is updated to other
values of its type, and is dropped.  A text is a sequence of letters, which is
what the browser joins when two texts are adjacent.

**ServerStream** models the stream of one page: `Render` is
`to_html_async_with_buf` of a Suspense and an error boundary, `PollNext` the
builder's `poll_next`, `Received` what a browser does with what it gets.  HTML
is a sequence of tokens.  Futures are records that say how far they have come.

**MCSignalWrites**, **MCReactiveGraph**, **MCViews** and **MCServerStream** define
the constants of the runs.  Operators that stand just before another one and
change one thing of it (`RegisterOnce` before `Register`, `SameIdMutant` before
`NextId`) are slips that the properties were tried against.

## Runs

| Run | Instance | Shows |
|---|---|---|
| `signal_writes` | 2 threads, 1 signal, 4 + 1 operations, `MaxApplied` 2 | `TypeOK`, `TurnDiscipline`, `UpdateOverCommitted`, `NeverWaitsForItself`, `PendingHasFlusher`, `ChangesAreMarked`, `CommitsInThreadOrder`, no deadlock |
| `failures` | 2 threads, 1 signal, 2 + 2 operations, panics, shutdown, fairness | `TurnDiscipline`, `RegisterSpec`, `PendingIsApplied`, `NobodyWaitsForever` |
| `graph_diamond` | 1 thread, 2 signals, 3 memos, 1 effect, pause, fairness | `TypeOK`, `CleanIsCurrent`, `MemoRunIsNeeded`, `EffectsCatchUp` |
| `graph_threads` | 2 threads, 2 signals, 2 effects of which one writes, a memo read under kept guards | `EffectsSettled`, `GuardedValueIsStable` |
| `async_derived` | 1 writer, 1 awaiter of any kind, 1 transition, 1 set, 1 write, 1 pause, fairness | `TypeOK`, `LoaderSettled`, `TransitionWaits`, `AwaitersResolve`, `BoundaryResolves` |
| `actions` | 2 dispatches, 1 submission, counters at their limits, fairness | `InputIsCurrent`, `SettledShowsResult`, `AbortedEnds` |
| `lifecycle` | 1 thread, an effect and one nested in it, 1 mark, 1 call, fairness | `TypeOK`, `NoLostWakeup`, `CleanedBeforeRun`, `NoRunAfterDisposal`, `InnerCleanedFirst`, `MarkedRuns`, `DisposalReachesAll` |
| `views` | 11 families of views, 1 to 3 updates each | `HydrationMatches`, `ShownIsView`, `NodesInOrder`, `PlanFits`, `KeptRowsKeepTheirNodes` |
| `server_stream` | 7 pages with up to 3 Suspenses, both modes | `PageIsComplete`, `SentInOrder` |
| `lost_update`, `missed_change`, `swapped_bodies` | the smallest that shows it | a documented promise that the code does not keep, below |

`signal_writes` and `failures` have one signal because the turns of two signals
can be waited for in a circle (see below), which the code does not rule out;
with one signal, TLC finds no state that is stuck.  Three operations on one
thread are what the deepest nesting of interest takes: a guard that is kept, a
write under it, and a write by a subscriber while the first is drained; a fourth
makes the drain reach its limit, which is why `MaxApplied` is 2.  The second
thread's one is a guard or a write; both at once are in `failures`.  Two operations a
thread, in `failures`, make a deferred write and its flush but do not fill a drain to its
limit: that is in `signal_writes`, without liveness.

`graph_diamond` has a diamond in which one path is longer than the other, a memo that
may be unchanged and one whose sources change: the shapes for which the
three-state marking exists.  Signals are set twice each.  `graph_threads` turns
the deadlock check off, because two threads that compute one memo do wait for
each other (see the known disagreements); its properties are about the states up
to there.  Its effects read signals only: an effect behind memos fails
`EffectsSettled`, on one thread (`missed_change`) and, for another reason, on two.
What the run shows of effects is that their own flags lose nothing, which is proved
too.  `EffectsCatchUp` holds in `graph_diamond` because its effect reads a single
memo, so that nothing is recomputed before the effect asks for it.

`async_derived`: one set of the source is enough for a load to be overtaken (the
first load is under way when the value is created), one write for a load to be
discarded, and a second of either repeats the same phases.  `actions`: the
limits are 2 in flight and version 1, so that both are reached.  `lifecycle`: one
mark makes a second run, which is when the first run's cleanups are due; one call
is the stop, the cleanup or the pause that races it, or what a cleanup function
disposes of.  It has no deadlock check:
everything may rest.

`views`: lists go from 1, 2, .., n to any list of at most five of six keys; up to
the names of the keys that is every update between lists of at most five rows
with at most six keys in all.  Shorter lists also repeat keys, are updated
twice, and have rows of several nodes or none.  Each other kind of view is put between
neighbours that must stay where they are, with texts, empty texts and empty
views where they matter.  A dropped app rests, so there is no deadlock check.
`server_stream`: Suspenses side by side, nested to depth three, inside and around
error boundaries that fail or not; `MaxId` is 2, so that ids wrap.  Suspenses that
turn out to read a local resource are in order only (see below).

### Fairness

`SignalWrites!Fairness` is weak fairness of each thread's `Advance`: closures
return, guards are dropped, and a lock or turn that stays available is granted.
Nothing is assumed of the operations user code starts.  Without it nothing need
ever happen; weak is enough because a thread that waits for a turn in `failures`
is enabled for good once the other has used up its operations.  `ReactiveGraph!Fairness`
is the same for calls, and strong fairness of polling each woken effect: a
thread that keeps setting signals is in the middle of a call time and again, so a
poll is not enabled continuously, and an executor that polls woken tasks
does not starve one for it. `Actions!FairSpec` is
weak fairness of each task: a caller ends its call and a woken task is polled;
no future has to become ready.  `EffectLifecycle!FairSpec` is weak fairness of
each thread's current call and of each task.  `AsyncDerived!FairSpec` has one weak
fairness for the loader, the notifiers, the writers in a call and the awaiters together: what
can be asked for is bounded, so that together is as good as each.  In it loads end
and guards are dropped; nobody has to set, write, pause, resume or end the action of a
transition.

### What the violation runs show

Each is a sentence of the documentation or of a comment, stated as a property
and refuted by what the code does.

* `lost_update`: an update under a read guard is computed from the committed
  value without the turn.  A second thread commits a write before the guard is
  dropped; the flush then commits the result over it.  `docs/no-panics.md`
  says that a deferred update runs "on the value it will be committed over" and
  that "concurrent updates never lose one another's changes".  For updates that
  are outermost on their thread that is so, and proved (`UpdateSafe`).
* `missed_change`: an effect reads a memo m2 and then a memo m1 that m2 reads too.  A
  signal changes m1 but not m2.  The effect asks m2 whether it changed, which
  recomputes m1; m1 does not mark the effect, because the effect is the observer
  that asked (`computed/inner.rs:280`), and is Clean by the time the effect asks it
  (`effect/inner.rs:46`).  Nobody says that anything changed, so the effect does not
  run and keeps what it read of m1.  `effect/effect.rs:23` promises that it "reruns
  the function whenever the value of a dependency changes".  Memos do not have the
  problem: one that reads m2 and m1 is marked dirty by m1 and looks at its own state after
  each source (`computed/inner.rs:166`), and whoever asks it is the observer, not the
  memo itself.
* `swapped_bodies`: two error boundaries with a Suspense each give the same chunk
  id (`error_boundary.rs:416`, and `append` does not carry the id back); streamed
  out of order, a body ends in the wrong place.  `server_stream` has one boundary with
  Suspenses per page.

### Known disagreements without a run

Each was found with the models; the properties are in the modules, and the
instance named shows it.

* `SignalWrites!NestedUpdateIsDeferred`, 1 thread, 2 operations: `let g = s.read();
  s.update(|v| { drop(g); .. })` neither applies the update nor defers it
  (`signal/commit.rs:181`; `docs/no-panics.md:124-125`: "is deferred, and applied in order").
* `SignalWrites!ReadNeverRefused`, 2 threads, 3 + 1 operations: a thread that keeps a write
  guard made under a read guard it has dropped since uses the signal without
  having the turn; while another thread is in its swap, this thread's read gives
  `None` (`signal/guards.rs:188`; `reentry.rs:11-13`: "a read never finds its value missing
  because of a write").
* `Views!ShownIsView`, the page `TextListApps` of MCViews: `view/keyed.rs:324` forgets,
  after each row, that the row ended with a text: no separator is written between rows
  that are texts, while hydration expects one.  Two texts after such a list then
  hold each other's nodes and an update changes the wrong one.  Rows that are elements
  are not affected, and are what `views` has.
* `ReactiveGraph!NoMemoDeadlock`, 2 threads, 1 signal, 1 memo: two threads read one
  dirty memo; the first has computed and holds the reactivity lock, waiting for
  the value; the second computes under a read guard of the value and needs the
  reactivity lock (`computed/inner.rs:205` and `:48`).
* `ReactiveGraph!EffectsSettled`, 2 threads, 1 signal, 1 memo, 1 effect: a signal that
  is set after a memo's function has read it and before the memo commits leaves
  the memo Clean with the old value (`computed/inner.rs:272`).
* `ReactiveGraph!CleanIsCurrent`, 1 thread, 1 signal, 2 memos, kept guards: a memo
  whose source memo is under a guard is set Clean; when the guard is gone the
  source is recomputed by its next read, but until then the dependent gives its
  old value (`computed/inner.rs:298`).
* `AsyncDerived!WritesOutlastLoads`, the instance of `async_derived`: the loader compares
  the versions and only then tries the value's lock (`arc_async_derived.rs:446`).  In the
  browser a guard from `by_ref().await` that is held across an await makes it wait; when
  the guard is let go of, a write may come before the loader is polled, and the older
  load is then stored over it.  Natively a write may come between the two steps.
  `bump_version` says that it increments the version "so that a load that started
  earlier does not overwrite the written value" (`arc_async_derived.rs:925-927`).
  `LateLoadHadToWait`, which is proved, says that in the browser there is no other way.
* `Actions!AbortedKeepsValue`, 1 dispatch, one thread: `abort` is called and the future
  is ready before the task is polled; `select!` may take either branch, and the value is
  updated (`actions/action.rs:297`).  `action.rs:256` says that the task completes "without updating
  the action's value".
* `Actions!InputWhileWaited`, 2 dispatches, native: a second dispatch sets the input
  between another task's check of `in_flight` and its clearing of the input
  (`actions/action.rs:315`); `input()` is then `None` though a dispatch is waited for.
  `action.rs:464-465` says that it is `Some` "while we are waiting for it to resolve".
  `InputIsCurrent` says so of the browser.
* `EffectLifecycle!StopsWhenDisposed`, the instance of `lifecycle`: a cleanup function that
  an earlier run of an effect registered disposes of that same effect.  It is called between
  the task's `update_if_necessary` and the function (`effect/effect.rs:187-198`), so the function
  runs once more, though `effect/effect.rs:35` says that effects "stop running when their
  reactive `Owner` is disposed".  `NoRunAfterDisposal` says that nothing else can come
  between the two, and that an effect which has not run never does.
* `ServerStream!PageIsComplete`, the page `LateParts` of MCServerStream: a Suspense around an
  error boundary with a Suspense gives a late chunk of several synchronous parts, which are put in
  the page in reverse, both where the fallback is still in the buffer
  (`halyard_tachys/src/ssr/mod.rs:446-459`) and in the template that is sent after it
  (`:473-481`).  Without an error boundary inside, `finish` leaves at most one such part.
* `ServerStream!PageIsComplete`, the page `LocalFallback`: a Suspense that reads a local
  resource, streamed out of order, loses its fallback if that is decided while its markers are still in the
  buffer (`ssr/mod.rs:440-467`).  Both contradict what `PageIsComplete` quotes of
  `ssr_mode.rs`; the pages of `server_stream` avoid them.

Other things the models reach contradict no document, and the properties are
stated around them:

* two threads that nest writes to two signals in opposite orders wait for each
  other's turns; an effect may run twice for one change, when a memo it reads is
  recomputed inside another memo's run and marks it dirty;
* on threads, an awaiter may push its waker after the load has woken everybody, and
  two `notify_subs` at once may leave the state `Notifying`; this is why
  most of AsyncDerived's properties speak of the browser;
* of two dispatches in flight the one that completes last gives the value, whichever
  was made last; what a dropped abort handle does is up to the channel's library
  and is not modelled;
* an owner made under a paused one with `new` is not paused (`owner.rs:178`); an effect
  that is paused takes its notification and forgets it;
* an empty keyed list between two texts hydrates with a mismatch, and so does a
  text at the end of a marked branch before another text (feature
  `mark_branches`): the app is then rendered on the client, as documented.

## Proofs

Each theorem is of the specification, without fairness, for every value of the
constants, except the two whose restriction the table names.  Those of
ListDiffProofs are of its operators, for key lists of any length.

| Module | Theorem | States |
|---|---|---|
| SignalWritesProofs | `TypeCorrect` | `Spec => []TypeOK` |
| | `TurnSafe` | `Spec => []TurnDiscipline` |
| | `UpdateSafe` | `Spec => []UpdateOverCommitted` |
| | `NoSelfWait` | `Spec => []NeverWaitsForItself` |
| | `NeverStranded` | `Spec => []PendingHasFlusher` |
| | `NoSilentChange` | `Spec => []ChangesAreMarked` |
| | `SignalIsRegister` | `Spec => RegisterSpec` (the refinement) |
| | `DeferredInOrder` | `Spec => []PendingInOrder` |
| | `ThreadOrder` | `Spec => CommitsInThreadOrder` |
| ActionsProofs | `ActionsTypeCorrect` | `Spec => []TypeOK` |
| | `InputCurrent` | `Spec => []InputIsCurrent` |
| | `SubmissionsSettle` | `Spec => []SettledShowsResult` |
| AsyncProofs | `AsyncTypeCorrect` | `Spec => []TypeOK` |
| | `TransitionsWait` | `Spec => []TransitionWaits` |
| | `LateLoadsWaited` | `Spec => LateLoadHadToWait` |
| | `LoaderSettles` | `Spec => []LoaderSettled` |
| LifecycleProofs | `LifecycleTypeCorrect` | `Spec => []TypeOK` |
| | `WakeupsArrive` | `Spec => []NoLostWakeup` |
| CleanupProofs | `CleanupsRunOnce` | `Spec => []CleanedBeforeRun` |
| | `DisposedStaysDown` | `Spec => []NoRunAfterDisposal` |
| | `NestedFirst` | `Spec => InnerCleanedFirst` |
| GraphProofs | `GraphTypeCorrect` | `Spec => []TypeOK` |
| | `GuardedValuesStable` | `Spec => GuardedValueIsStable` |
| | `SignalEffectsSettle` | `Spec => []EffectsSettled`, if effects read signals only |
| MemoProofs | `CleanMemosAreCurrent` | `Spec => []CleanIsCurrent`, on one thread without kept guards |
| ListDiffProofs | `RowsLeftInOrder` | rows that are left on the page are in the order of the new list |
| | `PlanAccountsForRows` | the plan accounts for every row of both lists |

### SignalWrites

For any sets of threads and signals, any number of operations, any `MaxApplied`,
with panics and shutdown or without, from `ThreadsAssumption` (the holder of a
free turn is no thread) and `BoundsAssumption` (the bounds are natural numbers).
None of the invariants is inductive alone.  `WriteInv` is, with five parts:

* `TypeInv`: the types, and that a thread has finitely many accesses;
* `TurnInv`: the turn discipline, and that a thread has at most one write past
  `take_turn` on a signal;
* `KindInv`: which kinds of access reach which phases, without which a write
  that swaps could be one that never took the turn;
* `BaseInv`: an outermost update's base is the committed value from its copy to
  its swap;
* `PendingInv`: an outermost update that had to be deferred is the first of the
  deferred writes, its base is still the committed value, its thread still has
  the turn and has no other write in progress than the drain.

The heart of the argument is that whoever swaps has the turn, so that by
`TurnInv` no other thread has an outermost update between copy and swap, in an
access or deferred; and within the thread there is one writing access, so that
the only base at stake is the head of its own deferred writes, which is either
what is being swapped or rules the swap out.  A write without the turn
(`set_unrecorded`) happens only when the turn is free, when there is no such
update at all.  There is one lemma per action, over lemmas for the ways in
which a step changes the accesses of a thread (adding a passive access,
replacing one, `Exit`).

The second half of SignalWritesProofs adds, in `OrderInv`, facts about one thread: its calls have distinct
levels up to the top one, and only the top one waits.  Then a thread that
waits for a turn has it nowhere below, which is `NoSelfWait`; and whatever is
deferred has an access under it that is going to flush it, which is kept by
`Exit` because the last access to go starts the flush.  `SeqInv`, for the order of
writes, says where a thread's writes can be at one time: the ones deferred are in
order and later than the committed one of the same thread, and a write in
progress is later than those or is the drain's own.  The refinement is proved
action by action: a step of SignalWrites takes or returns a turn or a read, swaps in
a value of the thread that has the turn while there is no reader, writes in shutdown while
the turn is free, or leaves all of it alone.  That whoever swaps has the turn is `TurnInv`
with `KindInv`; that what it swaps in is its own thread's, also when it was deferred, is `SeqInv`.

### Actions and AsyncDerived

`FlightAssumption` says that there are no more dispatches than the counter can
hold: each has a future in memory and the counter is a `usize`.  `InputCurrent`
rests on a count: `inFlight` is the number of dispatches that are past their
increment and before their decrement, and the input is cleared by the step that
makes it none.

`TransitionsWait` follows a load through the channel of its transition: a load
that registered while the action ran alone is in the channel, then among what the
transition waits for, then over.  `LateLoadsWaited` and `LoaderSettles` use the
exclusion of the value's lock and the agreement between versions: the load's
version is the newest unless a write has come since, and then the comparison
stops it, except in the window after it.  `LoaderSettles` needs the loader to be
*behind*: if the source has changed since the load began, the state is dirty or
its notification is in the channel, through every step of `notify_subs`, which
saves and restores the state.

### EffectLifecycle

For any finite sets of nested effects and threads and any bounds.  Finiteness is
what memory gives; it is used for the bound on runs (an effect runs once when it
is created and once for each mark) and for the sequence of an effect's handles.

* LifecycleProofs: `TypeInv` has the types of the stacks, which items an actor may
  have on its stack (a nested effect's task never cleans another owner), what the
  lists of an owner may hold, and the count of runs: a run that was made, asked
  for or is about to be marked is paid for by the creation or by a mark.
  `WakeInv`: from registering its waker until it looks at the flag a task is there
  to be woken; after that whoever raises the flag or drops the sender is on the
  way to wake it.
* CleanupProofs: `CleanInv` says that a cleanup function is in one place: with its
  owner, on the stack of the one actor that took it, or run.  It survives two
  actors that clean one owner at a time because the lists are taken under the
  lock; `CleanupsRunOnce` follows, on any number of threads.  For the second half,
  `BodyInv` says that on one thread what a rerun takes is on its own stack, which
  is empty when the function runs.
* The second part of CleanupProofs, on one thread: every reference but the arena's belongs to an
  actor with an item on its stack that drops it (`RefInv`), and a task on its way to a run
  does nothing but drop references (`QuietInv`), so that the effect it goes on
  to clean up for has its sender from the arena (`HeldInv`).  The cleanup functions called then may dispose of
  that effect, but a function that has not run has created and registered nothing
  (`FreshInv`), so that before a first run nothing is called (`StartInv`).  What the
  arena has of nested effects is in the outer effect's list, or held by its value,
  or in an item that removes it (`StoredInv`, `OldInv`).  For `NestedFirst`, a run whose
  cleanup is still registered has all effects it created among the owner's
  children (`ChildInv`); cleaning the outer effect is the last thing on a stack
  but for removals (`LastInv`); and before a cleanup of the outer effect on a stack come
  those of the effects the run created, or the items that will clean their owners
  (`FirstInv`).  These invariants were checked with TLC on small
  instances before they were proved.

### ReactiveGraph

For any sets of threads, signals and effects, any functions that read any sequence
of nodes, gated or not, coarse or not.  `KindsAssumption` says that a node is of one
kind; `RankAssumption` that there are finitely many memos and that none reads
itself through others, which the code reports as an error (`MEMO_READ_ITSELF`).  A rank
that falls along the reads is what "acyclic" means to the proofs.

* `GraphInv` is the base of the rest, and inductive: the types (`StateInv`); the shape of
  every stack, which call may be above which, and that ranks fall up a stack
  (`StackInv`), so that no memo is computed within itself; that whatever is about to be
  read has a value (`ValueInv`); and that a memo is computed only by a thread without a
  guard on it (`GuardInv`).  `GraphTypeCorrect` needs all of it: that a function reads a
  number, and not the missing value of a memo, depends on where the stacks came from.
  `GuardedValuesStable` follows from `GuardInv` and the commit's guard.
* `EffectInv`, for `SignalEffectsSettle`: on any number of threads, and whatever the memos
  beside it do, an effect has read the present value of each signal, or a change of
  that signal is being marked and will reach the effect, or the effect has been
  told (its flag, its notification or its turn says so).  An
  effect that is running is subscribed to what it has read so far (`RunInv`), and one
  at rest to all that it read (`RestInv`).  Behind memos the property is not
  true (`missed_change`).
* `MemoInv`, for `CleanMemosAreCurrent`: the sources of a memo are what it read last
  (`SourceInv`) and mirror the subscribers (`LinkInv`); its value is its function's for what
  it read (`SeenInv`); a clean memo has clean sources, and one that is not dirty has
  read the present values, unless it is about to be told (`CleanInv`, `FreshInv`); a
  memo that has changed only has memos to mark that are not clean (`MarkInv`); and
  what each call on the stack knows of what it has checked and read so far
  (`FrameInv`).  That a memo which asks is left out of the marks (`ToMark`) is covered
  by the result it is given; this is where an effect differs, which keeps no
  such memory.  The theorem follows by taking a clean memo of the least rank that would
  not be current.  Its two hypotheses are needed: with two threads, or with a guard
  that user code keeps, TLC finds a clean memo that is out of date (see the known
  disagreements).
* `TruthOf` is a recursive function, which the prover knows only as a CHOOSE;
  `TruthEquation` proves, from the rank, that a function with its equation exists.
  `LeastNat` (a set of natural numbers has a least element) and `SetInduction` replace the
  library's induction theorems.

The three invariants were checked with TLC on instances of their own before they were proved.

### ListDiff

For lists of any length without repeated keys, which is what an index set is.
`RowsLeftInOrder` is why an update may leave rows where they are: whatever is
removed, added and moved around them, two rows that do not move on the page are in
the order of the new list.  Rows that go together have a head, the first of their run
(`LeftForm`); a head that is left stays at its index, or is just where the removals
and additions before it put it and passes no row that stays (`PassesIt`), so that
counting (`CountsGrow`) puts the heads in order (`HeadsInOrder`); the rows that follow
a head have consecutive new indices, which no other row has.  `MoveEquation` shows that
the recursive function of `MoveInDom` exists.  `PlanAccountsForRows` says, by a bijection
between the rows that are kept and the new indices that are not added, what `apply_plan`
checks for before it starts.

### Only model-checked

Liveness (`PendingIsApplied`, `NobodyWaitsForever`, `EffectsCatchUp`,
`AwaitersResolve`, `BoundaryResolves`, `AbortedEnds`, `MarkedRuns`,
`DisposalReachesAll`) is out of the prover's reach.  Views and ServerStream
are recursive over trees of views and futures, and declare RECURSIVE operators,
with which the prover does not work: they stay with TLC, and so does what `apply`
makes of a plan on the page (`PlanFits`, `NodesInOrder`, `KeptRowsKeepTheirNodes`).
`MemoRunIsNeeded` has no theorem: it is about the shapes of
`graph_diamond` and is not true of every graph.  A memo whose source was recomputed away
from its value and back again is dirty, and runs once more though it would read the
same (TLC: a gated m1 that reads s1 and s2, an m2 that reads m1, two writes).

## What the models leave out

SignalWrites: reads by a thread in shutdown (they change nothing); `T: Clone`
running user code of its own; the single-threaded build, in which a busy lock
is an error rather than a wait (one thread never meets a busy lock, which
`NeverWaitsForItself` shows); lock poisoning (the code takes the value of a
poisoned lock as it is).  The standard library's lock is taken to
prefer writers: a queued writer keeps new readers out.

ReactiveGraph: a memo that reads itself; functions that keep guards; memos made
with `new_owning` and `new_try`; `clear_sources` is one step though it takes one
source's lock after another under the subscriber's; nodes that are dropped;
owners and cleanups of the functions' scopes.

EffectLifecycle: sources that are memos (an effect needs an update exactly when
it is dirty); what cleanup functions do other than dispose of an effect (set a signal,
pause an owner), and a second call by one function; contexts; sandboxed arenas; `watch`.  Atomics are taken as
sequentially consistent: the flag is `Relaxed`, but both sides go through
the waker's own read-modify-write operations.

AsyncDerived: `notify_subs` also marks the subscribers, which ReactiveGraph has;
the copy a write guard works on; what a suppressed load does; transitions on
several threads (the router, which starts them, runs in the browser).

Actions: dispatching while loads are suppressed, and to an action that was disposed
of.

Views: attributes, events, islands, templates, `hydrate_async`, `AddAnyAttr`,
arrays and static strings.  Rows of a keyed list whose key stays are not
rebuilt, as in the code: their view is of the key alone here.  The DOM is
modelled from how `renderer/dom.rs` uses it, and the HTML parser from what it does with
texts, comments and elements.

ServerStream: positions and markers of branches (Views has them), nonces, the
data that resources stream, and the executor: `Resolve` wakes the stream's task.

Not modelled: handles, access traits, triggers, wrappers and callbacks add no
state to what is modelled.  The selector, the executor's set-up, components and
DOM helpers are thin.  Macros are compile-time code; the Axum integration and configuration
are input and output; route matching is a function of strings; `third_party/`
is vendored.  Immediate effects, the hydration context, resources and navigation
are planned.

## Plan

1. Proofs: `EffectsSettled` for effects behind memos, under the condition on the order of
   reads that `missed_change` points at.
2. **ImmediateEffects** (`effect/immediate.rs`): recursive and parallel runs, batch.
3. **HydrationIds** (`hydration_context/`): ids on both sides and the stream of
   resolved data; then resources.
4. **Navigation** (`halyard/src/router/location/history.rs`): navigations that
   overtake each other while a route loads.
