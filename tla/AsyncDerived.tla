---------------------------- MODULE AsyncDerived ----------------------------
(***************************************************************************)
(* One ArcAsyncDerived (computed/async_derived/): its loader task, the     *)
(* code that sets its source, the code that writes its value, the tasks    *)
(* that wait for it, the suspense boundary it tells and the transitions it *)
(* registers with.                                                         *)
(*                                                                         *)
(* The source is a signal that counts its own changes; a load is known by  *)
(* the count its future read.  `native` is FALSE in the browser, where a   *)
(* poll or a synchronous call runs to its end before anything else does.   *)
(* The channel of the loader is one flag (EffectLifecycle has its detail).   *)
(***************************************************************************)
EXTENDS AsyncTransition

CONSTANTS
  Loader,      \* the task spawned by spawn_derived!
  Writers,     \* code that sets the source and writes the value
  Awaiters,    \* tasks that wait for the value
  Nobody,
  MaxSource,   \* bound: how often the source is set
  MaxWrites,   \* bound: how often the value is written
  MaxPauses    \* bound: how often the owner is paused

Notifiers == {Loader} \cup Writers
Actors == Notifiers \cup Awaiters

\* How a task waits: for ready(); for a clone or for a guard of the value
\* (.await, by_ref()); for a clone under the suspense boundary; or for ready()
\* on behalf of a synchronous read under the boundary, whose handle it holds.
Kinds == {"ready", "value", "ref", "suspend", "read"}

ASSUME AsyncAssumption ==
  /\ Loader \notin Writers \cup Awaiters /\ Writers \cap Awaiters = {}
  /\ Nobody \notin Actors
  /\ MaxSource \in Nat /\ MaxWrites \in Nat /\ MaxPauses \in Nat

VARIABLES
  native,     \* threads run in parallel (it never changes)
  kind,       \* awaiter -> how it waits (it never changes)
  source,     \* how often the source was set
  value,      \* the stored value: who made it, and which one it is
  readers,    \* awaiters that hold a read guard
  writer,     \* the writer that holds or waits for the value's lock
  loading,
  wakers,     \* awaiters in the list of wakers
  state,      \* AsyncDerivedState
  flag,       \* the loader's channel is set
  version,
  suspenses,  \* the boundary is in the list of suspenses
  pending,    \* the boundary has a task handle in pending_suspenses
  handles,    \* awaiters whose synchronous read holds a task handle
  paused,     \* the owner is paused
  released,   \* the loader's waker is in the ReleaseWaker
  pc,         \* actor -> where it is
  saved,      \* notifier -> prev_state
  op,         \* writer -> its write: whether it empties, whether it notifies
  run,        \* the loader's locals
  pauses, writes,  \* how often so far
  missed      \* a mark was ignored since the last run began (history)

lock == <<value, readers, writer, released>>
ready == <<loading, wakers>>
node == <<state, flag, version>>
boundary == <<suspenses, pending, handles>>
world == <<native, kind, source, paused, pauses, writes>>
locals == <<pc, saved, op, run>>
vars == <<transitionVars, lock, ready, node, boundary, world, locals, missed>>

Value(by, n) == [by |-> by, n |-> n]
NoWrite == [empty |-> FALSE, notify |-> FALSE]
HasValue == value.by # "none"

\* Where an actor waits for something, and others may run in the browser.
Resting(a) ==
  pc[a] \in {"none", "spawned", "idle", "loading", "parked", "woken", "holding", "done"}
Turn(a) == native \/ \A b \in Actors \ {a} : Resting(b)

Goto(a, where) == pc' = [pc EXCEPT ![a] = where]

\* The loader's waker is taken from the ReleaseWaker and woken.
WakeLoader(p) ==
  /\ released' = FALSE
  /\ pc' = IF released /\ p[Loader] = "parked" THEN [p EXCEPT ![Loader] = "woken"] ELSE p

-----------------------------------------------------------------------------
(* Creation *)

Init ==
  /\ TransitionInit
  /\ native \in BOOLEAN /\ kind \in [Awaiters -> Kinds]
  /\ source = 0 /\ value = Value("none", 0)
  /\ readers = {} /\ writer = Nobody
  /\ loading = TRUE /\ wakers = {}
  /\ state = "Clean" /\ flag = FALSE /\ version = 0
  /\ suspenses = FALSE /\ pending = FALSE /\ handles = {}
  /\ paused = FALSE /\ released = FALSE
  /\ pc = [a \in Actors |-> IF a = Loader THEN "none" ELSE "idle"]
  /\ saved = [a \in Notifiers |-> "Clean"]
  /\ op = [w \in Writers |-> NoWrite]
  /\ run = [fut |-> FALSE, read |-> 0, first |-> 0, ready |-> 0, next |-> 2, wasReady |-> FALSE,
            was |-> TRUE, version |-> 0, over |-> 0, waited |-> FALSE]
  /\ pauses = 0 /\ writes = 0 /\ missed = FALSE

\* spawn_derived!, up to the spawn.  The first future gives a value when polled
\* once (or an initial value spares it), is pending (with or without an initial
\* value to fall back on), or gives none.
Create(first) ==
  /\ pc[Loader] = "none"
  /\ Goto(Loader, "spawned")
  /\ Register(1, first # "ready")
  /\ value' = CASE first = "ready" -> Value("load", source)
                [] first = "fallback" -> Value("initial", 0)
                [] OTHER -> value
  /\ loading' = (first # "ready")
  /\ flag' = (first \in {"pending", "fallback"})
  /\ run' = [run EXCEPT !.fut = first \in {"pending", "fallback"},
                        !.read = source,
                        !.first = IF first = "ready" THEN 0 ELSE 1,
                        !.wasReady = (first = "ready")]
  /\ UNCHANGED <<readers, writer, released, wakers, state, version, boundary, world, saved, op, missed>>

-----------------------------------------------------------------------------
(* The loader *)

\* The task starts: a mark made since creation throws the first future away.
Spawned ==
  /\ pc[Loader] = "spawned" /\ Turn(Loader)
  /\ Goto(Loader, "next")
  /\ run' = [run EXCEPT !.fut = @ /\ state # "Dirty"]
  /\ UNCHANGED <<transitionVars, lock, ready, node, boundary, world, saved, op, missed>>

\* rx.next(): at once if the channel is set, else when it is.
Sleep ==
  /\ pc[Loader] = "next" /\ ~flag /\ Turn(Loader)
  /\ Goto(Loader, "idle")
  /\ UNCHANGED <<transitionVars, lock, ready, node, boundary, world, saved, op, run, missed>>

Receive ==
  /\ pc[Loader] \in {"next", "idle"} /\ flag /\ Turn(Loader)
  /\ Goto(Loader, "asked")
  /\ flag' = FALSE
  /\ UNCHANGED <<transitionVars, lock, ready, state, version, boundary, world, saved, op, run, missed>>

\* update_if_necessary, unless paused; a first run that is not over runs anyway.
MustRun == (~paused /\ state = "Dirty") \/ run.first # 0
Ask ==
  /\ pc[Loader] = "asked" /\ Turn(Loader)
  /\ Goto(Loader, IF MustRun THEN "start" ELSE "next")
  /\ state' = IF paused THEN state ELSE IF state = "Dirty" THEN "Clean" ELSE state
  /\ missed' = (missed \/ (paused /\ state = "Dirty"))
  /\ UNCHANGED <<transitionVars, lock, ready, flag, version, boundary, world, saved, op, run>>

\* The future is made, the ready channel is the first run's or a new one, which
\* registers unless the derived was ready when created.
Start ==
  /\ pc[Loader] = "start" /\ Turn(Loader)
  /\ Goto(Loader, "counting")
  /\ loading' = TRUE
  /\ run' = [run EXCEPT !.fut = FALSE,
                        !.read = IF run.fut THEN @ ELSE source,
                        !.first = 0,
                        !.ready = IF run.first # 0 THEN run.first ELSE run.next,
                        !.next = IF run.first # 0 THEN @ ELSE @ + 1,
                        !.was = loading,
                        !.over = writes,
                        !.waited = FALSE]
  /\ IF run.first # 0 THEN UNCHANGED transitionVars ELSE Register(run.next, ~run.wasReady)
  /\ missed' = FALSE
  /\ UNCHANGED <<lock, wakers, node, boundary, world, saved, op>>

\* The version is taken, and every suspense that read the value gets a handle.
NextVersion == version + 1
Count ==
  /\ pc[Loader] = "counting" /\ Turn(Loader)
  /\ Goto(Loader, "loading")
  /\ version' = NextVersion
  /\ run' = [run EXCEPT !.version = NextVersion]
  /\ pending' = (pending \/ suspenses)
  /\ suspenses' = FALSE
  /\ UNCHANGED <<transitionVars, lock, ready, state, flag, handles, world, saved, op, missed>>

\* The run is over: its locals go, and the next one has the sender it left, if any.
EndRun(first) ==
  [run EXCEPT !.first = first, !.ready = 0, !.was = TRUE, !.over = 0, !.waited = FALSE]

\* The future gives nothing (new_try_*): all stays pending for the next run.
FetchNothing ==
  /\ pc[Loader] = "loading" /\ Turn(Loader)
  /\ Goto(Loader, "next")
  /\ loading' = run.was
  /\ run' = EndRun(run.ready)
  /\ UNCHANGED <<transitionVars, lock, wakers, node, boundary, world, saved, op, missed>>

\* The future gives a value; the handles of the run are dropped.  A run that is
\* no longer the latest ends here, and its sender is dropped.
Latest == version = run.version
KeptUntilNextRun == pending
KeptHandles == FALSE
Compare ==
  /\ pc[Loader] = "loading" /\ Turn(Loader)
  /\ pending' = KeptHandles
  /\ \/ Latest /\ Goto(Loader, "swap") /\ UNCHANGED <<transitionVars, run>>
     \/ ~Latest /\ Goto(Loader, "next") /\ Settle(run.ready) /\ run' = EndRun(0)
  /\ UNCHANGED <<lock, ready, node, suspenses, handles, world, saved, op, missed>>

\* set_inner_value: the waker is registered, and then the lock is tried.
RegisterRelease ==
  /\ pc[Loader] \in {"swap", "woken"} /\ Turn(Loader)
  /\ Goto(Loader, "try")
  /\ released' = TRUE
  /\ UNCHANGED <<transitionVars, value, readers, writer, ready, node, boundary, world, saved, op, run, missed>>

LockFree == readers = {} /\ writer = Nobody
TrySwap ==
  /\ pc[Loader] = "try" /\ Turn(Loader) /\ LockFree
  /\ Goto(Loader, "store")
  /\ value' = Value("load", run.read)
  /\ UNCHANGED <<transitionVars, readers, writer, released, ready, node, boundary, world, saved, op, run, missed>>

\* A release between the registration and the try has taken the waker already,
\* and the task is polled again.
Park ==
  /\ pc[Loader] = "try" /\ Turn(Loader) /\ ~LockFree
  /\ Goto(Loader, IF released THEN "parked" ELSE "woken")
  /\ run' = [run EXCEPT !.waited = TRUE]
  /\ UNCHANGED <<transitionVars, lock, ready, node, boundary, world, saved, op, missed>>

-----------------------------------------------------------------------------
(* notify_subs, by the loader or by a writer *)

NotLoading == FALSE
StoreLoading(a) ==
  /\ pc[a] = "store" /\ Turn(a)
  /\ Goto(a, "notify")
  /\ loading' = NotLoading
  /\ UNCHANGED <<transitionVars, lock, wakers, node, boundary, world, saved, op, run, missed>>

\* From here until the end marks are ignored; the loader's sender sends.
EnterNotifying(a) ==
  /\ pc[a] = "notify" /\ Turn(a)
  /\ Goto(a, "wake")
  /\ saved' = [saved EXCEPT ![a] = state]
  /\ state' = "Notifying"
  /\ IF a = Loader THEN Settle(run.ready) ELSE UNCHANGED transitionVars
  /\ UNCHANGED <<lock, ready, flag, version, boundary, world, op, run, missed>>

\* The awaiters' wakers are taken and woken.
WokenNone == pc
Woken == [b \in Actors |-> IF b \in wakers /\ pc[b] = "parked" THEN "woken" ELSE pc[b]]
WakeAll(a) ==
  /\ pc[a] = "wake" /\ Turn(a)
  /\ wakers' = {}
  /\ pc' = [Woken EXCEPT ![a] = "restore"]
  /\ UNCHANGED <<transitionVars, lock, loading, node, boundary, world, saved, op, run, missed>>

\* A mark made while the load was under way is kept.
RestoredClean(a) == "Clean"
RestoredState(a) == saved[a]
LeaveNotifying(a) ==
  /\ pc[a] = "restore" /\ Turn(a)
  /\ Goto(a, IF a = Loader THEN "next" ELSE "idle")
  /\ state' = RestoredState(a)
  /\ saved' = [saved EXCEPT ![a] = "Clean"]
  /\ run' = IF a = Loader THEN EndRun(0) ELSE run
  /\ UNCHANGED <<transitionVars, lock, ready, flag, version, boundary, world, op, missed>>

-----------------------------------------------------------------------------
(* Writers *)

\* The source is set, and then it marks the derived (signals use mark_dirty).
SetSource(w) ==
  /\ pc[w] = "idle" /\ source < MaxSource /\ Turn(w) /\ pc[Loader] # "none"
  /\ source' = source + 1
  /\ Goto(w, "mark")
  /\ UNCHANGED <<transitionVars, lock, ready, node, boundary, native, kind, paused, pauses, writes, saved, op, run, missed>>

MarkDirty(w) ==
  /\ pc[w] = "mark" /\ Turn(w)
  /\ Goto(w, "idle")
  /\ IF state # "Notifying"
     THEN state' = "Dirty" /\ flag' = TRUE /\ UNCHANGED missed
     ELSE missed' = TRUE /\ UNCHANGED <<state, flag>>
  /\ UNCHANGED <<transitionVars, lock, ready, version, boundary, world, saved, op, run>>

\* swap_value: natively the lock is waited for, and a writer that waits keeps
\* new readers out; in the browser a write of a value being read is refused.
Write(w, empty, notify) ==
  /\ pc[w] = "idle" /\ writes < MaxWrites /\ Turn(w) /\ pc[Loader] # "none"
  /\ writer = Nobody /\ (native \/ readers = {})
  /\ writer' = w
  /\ Goto(w, "lock")
  /\ op' = [op EXCEPT ![w] = [empty |-> empty, notify |-> notify]]
  /\ UNCHANGED <<transitionVars, value, readers, released, ready, node, boundary, world, saved, run, missed>>

BumpVersion(w) ==
  /\ pc[w] = "lock" /\ readers = {} /\ Turn(w)
  /\ Goto(w, "write")
  /\ version' = NextVersion
  /\ pending' = FALSE
  /\ UNCHANGED <<transitionVars, lock, ready, state, flag, suspenses, handles, world, saved, op, run, missed>>

\* The values are swapped, the lock is let go of and a waiting loader woken.
SwapValue(w) ==
  /\ pc[w] = "write" /\ Turn(w)
  /\ value' = IF op[w].empty THEN Value("none", 0) ELSE Value("write", writes + 1)
  /\ writes' = writes + 1
  /\ writer' = Nobody
  /\ op' = [op EXCEPT ![w] = NoWrite]
  /\ WakeLoader([pc EXCEPT ![w] = IF op[w].notify THEN "store" ELSE "idle"])
  /\ UNCHANGED <<transitionVars, readers, ready, node, boundary, native, kind, source, paused, pauses, saved, run, missed>>

-----------------------------------------------------------------------------
(* Awaiters *)

\* Every read under the boundary lists the boundary.  A synchronous one takes a
\* handle, and if the value is loading spawns a task that waits to drop it.
SyncRead(a) == pc[a] = "idle" /\ kind[a] = "read"
WantsValue(a) == kind[a] \in {"value", "ref", "suspend"}

\* poll_read: not while a writer has the lock or waits for it.
CanAlwaysRead == TRUE
CanRead == writer = Nobody

Poll(a) ==
  /\ pc[a] \in {"idle", "woken"} /\ Turn(a) /\ pc[Loader] # "none"
  /\ suspenses' = (suspenses \/ SyncRead(a) \/ kind[a] = "suspend")
  /\ \/ /\ loading
        /\ Goto(a, IF SyncRead(a) THEN "woken" ELSE "push")
        /\ handles' = IF SyncRead(a) THEN handles \cup {a} ELSE handles
        /\ UNCHANGED readers
     \/ /\ ~loading /\ ~WantsValue(a)
        /\ Goto(a, "done")
        /\ handles' = handles \ {a}
        /\ UNCHANGED readers
     \/ \* the lock is busy: poll_read drops the read future with its waker
        /\ ~loading /\ WantsValue(a) /\ ~CanRead
        /\ Goto(a, "parked")
        /\ UNCHANGED <<handles, readers>>
     \/ /\ ~loading /\ WantsValue(a) /\ CanRead
        /\ Goto(a, IF ~HasValue THEN "push" ELSE IF kind[a] = "ref" THEN "holding" ELSE "done")
        /\ readers' = IF HasValue /\ kind[a] = "ref" THEN readers \cup {a} ELSE readers
        /\ UNCHANGED handles
  /\ UNCHANGED <<transitionVars, value, writer, released, ready, node, pending, world, saved, op, run, missed>>

\* The waker is pushed after `loading` was read.
PushWaker(a) ==
  /\ pc[a] = "push" /\ Turn(a)
  /\ wakers' = wakers \cup {a}
  /\ Goto(a, "parked")
  /\ UNCHANGED <<transitionVars, lock, loading, node, boundary, world, saved, op, run, missed>>

\* The guard of by_ref() is dropped, and then a waiting loader is woken.
Release(a) ==
  /\ pc[a] = "holding" /\ Turn(a)
  /\ readers' = readers \ {a}
  /\ WakeLoader([pc EXCEPT ![a] = "done"])
  /\ UNCHANGED <<transitionVars, value, writer, ready, node, boundary, world, saved, op, run, missed>>

-----------------------------------------------------------------------------
(* The owner and the router: paused, and transitions run, in the browser only. *)

Pause ==
  /\ ~native /\ ~paused /\ pauses < MaxPauses /\ Turn(Nobody)
  /\ paused' = TRUE /\ pauses' = pauses + 1
  /\ UNCHANGED <<transitionVars, lock, ready, node, boundary, native, kind, source, writes, locals, missed>>

Resume ==
  /\ paused /\ Turn(Nobody)
  /\ paused' = FALSE
  /\ UNCHANGED <<transitionVars, lock, ready, node, boundary, native, kind, source, pauses, writes, locals, missed>>

-----------------------------------------------------------------------------

LoaderStep ==
  \/ Spawned \/ Sleep \/ Receive \/ Ask \/ Start \/ Count \/ FetchNothing \/ Compare
  \/ RegisterRelease \/ TrySwap \/ Park

NotifyStep(a) ==
  StoreLoading(a) \/ EnterNotifying(a) \/ WakeAll(a) \/ LeaveNotifying(a)

WriterStep(w) ==
  \/ SetSource(w) \/ MarkDirty(w) \/ BumpVersion(w) \/ SwapValue(w)
  \/ \E empty, notify \in BOOLEAN : Write(w, empty, notify)

AwaiterStep(a) == Poll(a) \/ PushWaker(a) \/ Release(a)

\* Everything asked for has happened and nothing can follow.
Finished ==
  /\ \A a \in Actors : Resting(a) /\ pc[a] # "none"
  /\ ~flag /\ pc[Loader] = "idle"
  /\ UNCHANGED vars

Next ==
  \/ \E first \in {"ready", "pending", "fallback", "nothing"} : Create(first)
  \/ LoaderStep
  \/ \E a \in Notifiers : NotifyStep(a)
  \/ \E w \in Writers : WriterStep(w)
  \/ \E a \in Awaiters : AwaiterStep(a)
  \/ Pause \/ Resume
  \/ TransitionStep
     /\ ~native /\ Turn(Nobody)
     /\ UNCHANGED <<lock, ready, node, boundary, world, locals, missed>>
  \/ Finished

Spec == Init /\ [][Next]_vars

\* The executor polls the tasks that are woken, a thread goes on with the call it
\* is in, the loads end and guards are dropped, in some order: what is asked for
\* is bounded, so one fairness for all of these is enough.  Nothing makes anyone
\* set, write, pause, resume or end a transition's action.
Progress ==
  \/ LoaderStep
  \/ \E a \in Notifiers : NotifyStep(a)
  \/ \E w \in Writers : MarkDirty(w) \/ BumpVersion(w) \/ SwapValue(w)
  \/ \E a \in Awaiters : AwaiterStep(a)

FairSpec == Spec /\ WF_vars(Progress)

-----------------------------------------------------------------------------
(* Properties *)

States == {"Clean", "Dirty", "Notifying"}

\* The types of the variables; the lock has a writer or readers but not both.
TypeOK ==
  /\ TransitionTypeOK
  /\ native \in BOOLEAN /\ loading \in BOOLEAN /\ flag \in BOOLEAN
  /\ source \in 0 .. MaxSource /\ writes \in 0 .. MaxWrites /\ pauses \in 0 .. MaxPauses
  /\ value \in [by : {"none", "initial", "load", "write"}, n : Nat]
  /\ readers \subseteq Awaiters /\ wakers \subseteq Awaiters /\ handles \subseteq Awaiters
  /\ kind \in [Awaiters -> Kinds]
  /\ writer \in Writers \cup {Nobody}
  /\ state \in States /\ saved \in [Notifiers -> States]
  /\ version \in Nat /\ run.version <= version /\ run.read <= source
  /\ suspenses \in BOOLEAN /\ pending \in BOOLEAN
  /\ paused \in BOOLEAN /\ released \in BOOLEAN /\ missed \in BOOLEAN
  /\ \A w \in Writers : pc[w] = "write" => writer = w /\ readers = {}

Notifying == \E a \in Notifiers : pc[a] \in {"store", "notify", "wake", "restore"}
LoaderRests == pc[Loader] = "idle" /\ ~flag

\* What bump_version is for: "a load that started earlier does not overwrite the written
\* value" (arc_async_derived.rs:925-927).  The code does not keep it: between the comparison
\* of the versions and the swap the loader may wait for a reader, and a write come first.
WritesOutlastLoads ==
  [][pc[Loader] = "try" /\ pc'[Loader] = "store" => writes <= run.over]_vars

\* The only ways it fails: the loader had to wait, or threads run in parallel.
LateLoadHadToWait ==
  [][pc[Loader] = "try" /\ pc'[Loader] = "store" /\ writes > run.over
       => native \/ run.waited]_vars

\* In the browser a loader with nothing to do has loaded from the source as it
\* is, unless a mark was ignored because of a pause; and it does not say that it
\* is loading, unless it has fetched nothing yet or its load was discarded for
\* a write that did not notify.
LoaderSettled ==
  ~native /\ LoaderRests =>
    /\ (\A w \in Writers : pc[w] # "mark") => run.read = source \/ missed
    /\ loading /\ ~Notifying => run.first # 0 \/ version # run.version

\* A transition whose action ran alone returns when every load that began and
\* registered meanwhile is over.
TransitionWaits ==
  \A x \in Transitions \ overlapped : tstep[x] = "done" => during[x] \subseteq settled

\* In the browser whoever waits for the value gets it, unless nothing was
\* fetched, the value was emptied, or a write without notification took the
\* load's place.
Starved == LoaderRests /\ (~HasValue \/ run.first # 0 \/ version # run.version)
AwaitersResolve ==
  \A a \in Awaiters : (~native /\ pc[a] = "parked") ~> (pc[a] \in {"holding", "done"} \/ Starved)

\* The boundary is not kept waiting for ever, by the loader or (in the browser)
\* by a synchronous read, unless nothing can be read.
Waited == pending \/ (~native /\ handles # {})
BoundaryResolves == Waited ~> (~Waited \/ Starved)

=============================================================================
