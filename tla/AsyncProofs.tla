---------------------------- MODULE AsyncProofs ----------------------------
(***************************************************************************)
(* What holds of AsyncDerived for every number of writers, awaiters and    *)
(* transitions and every bound.                                            *)
(***************************************************************************)
EXTENDS AsyncDerived, TLAPS

-----------------------------------------------------------------------------
(* Transitions *)

\* The loads that began and registered while an action ran alone are in the channel of its
\* transition, then in what it waits for, then over.
Counted(x) ==
  /\ tstep[x] = "before" => during[x] = {}
  /\ tstep[x] = "acting" => slot = x /\ during[x] \subseteq inbox[x]
  /\ tstep[x] = "joining" => during[x] \subseteq awaited[x]
  /\ tstep[x] = "done" => during[x] \subseteq settled
TransitionInv ==
  /\ TransitionTypeOK
  /\ DOMAIN inbox = Transitions /\ DOMAIN awaited = Transitions /\ DOMAIN during = Transitions
  /\ \A x \in Transitions \ overlapped : Counted(x)

\* A transition's own steps keep it: another that begins or ends meanwhile makes it overlapped.
LEMMA TransitionStepKeeps ==
  ASSUME TransitionInv, TransitionStep
  PROVE  TransitionInv'
<1> USE TransitionAssumption DEF TransitionTypeOK
<1>0. PICK x \in Transitions : Begin(x) \/ End(x) \/ Join(x)
  BY DEF TransitionStep
<1>1. TransitionTypeOK'
  BY <1>0 DEF TransitionInv, Begin, End, Join, Acting
<1>2. /\ DOMAIN inbox' = Transitions /\ DOMAIN awaited' = Transitions
      /\ DOMAIN during' = Transitions
  BY <1>0 DEF TransitionInv, Begin, End, Join
<1>3. ASSUME NEW y \in Transitions \ overlapped' PROVE Counted(y)'
  <2>1. Counted(y)
    BY <1>0 DEF TransitionInv, Begin, End, Join
  <2>2. CASE Begin(x)
    <3>1. CASE y = x
      BY <2>1, <2>2, <3>1 DEF TransitionInv, Begin, Counted
    <3>2. CASE y # x
      <4>1. tstep[y] # "acting" /\ tstep'[y] = tstep[y]
        BY <2>2, <3>2 DEF TransitionInv, Begin, Acting
      <4> QED BY <2>1, <2>2, <4>1 DEF Begin, Counted
    <3> QED BY <3>1, <3>2
  <2>3. CASE End(x)
    <3>1. CASE y = x
      BY <2>1, <2>3, <3>1 DEF TransitionInv, End, Counted
    <3>2. CASE y # x
      <4>1. tstep[y] # "acting" /\ tstep'[y] = tstep[y] /\ awaited'[y] = awaited[y]
        BY <2>3, <3>2 DEF TransitionInv, End, Acting
      <4> QED BY <2>1, <2>3, <4>1 DEF End, Counted
    <3> QED BY <3>1, <3>2
  <2>4. CASE Join(x)
    <3>1. CASE y = x
      BY <2>1, <2>4, <3>1 DEF TransitionInv, Join, Joined, Counted
    <3>2. CASE y # x
      <4>1. tstep'[y] = tstep[y] /\ awaited'[y] = awaited[y]
        BY <2>4, <3>2 DEF TransitionInv, Join
      <4> QED BY <2>1, <2>4, <4>1 DEF Join, Counted
    <3> QED BY <3>1, <3>2
  <2> QED BY <1>0, <2>2, <2>3, <2>4
<1> QED BY <1>1, <1>2, <1>3 DEF TransitionInv

\* A load that starts registers with the one transition that acts alone, if there is one.
LEMMA RegisterKeeps ==
  ASSUME TransitionInv, NEW l, NEW registers, Register(l, registers)
  PROVE  TransitionInv'
<1> USE TransitionAssumption DEF TransitionTypeOK
<1>1. TransitionTypeOK' /\ DOMAIN awaited' = Transitions /\ overlapped' = overlapped
  BY DEF TransitionInv, Register
<1>2. DOMAIN inbox' = Transitions /\ DOMAIN during' = Transitions
  BY DEF TransitionInv, Register
<1>3. ASSUME NEW y \in Transitions \ overlapped PROVE Counted(y)'
  <2>1. Counted(y)
    BY DEF TransitionInv
  <2>2. CASE tstep[y] = "acting"
    <3>1. slot = y /\ slot' = y /\ slot # NoTransition /\ tstep' = tstep
      BY <2>1, <2>2 DEF Counted, Register
    <3>2. during'[y] \subseteq inbox'[y]
      BY <2>1, <2>2, <3>1 DEF TransitionInv, Register, Counted, Acting
    <3> QED BY <2>2, <3>1, <3>2 DEF Counted
  <2>3. CASE tstep[y] # "acting"
    <3>1. during'[y] = during[y]
      BY <2>3 DEF TransitionInv, Register, Acting
    <3> QED BY <2>1, <2>3, <3>1 DEF Register, Counted
  <2> QED BY <2>2, <2>3
<1> QED BY <1>1, <1>2, <1>3 DEF TransitionInv

\* A load that is over stays so.
LEMMA SettleKeeps ==
  ASSUME TransitionInv, NEW l, Settle(l)
  PROVE  TransitionInv'
BY DEF TransitionInv, TransitionTypeOK, Settle, Counted

\* All that a step of the system does to the transitions.
LEMMA TransitionEffect ==
  ASSUME [Next]_vars
  PROVE  \/ UNCHANGED transitionVars \/ TransitionStep
         \/ \E l, registers : Register(l, registers)
         \/ \E l : Settle(l)
<1>1. ASSUME NEW first, Create(first) PROVE \E l, registers : Register(l, registers)
  BY <1>1 DEF Create
<1>2. CASE LoaderStep
  <2>1. CASE Start
    BY <2>1 DEF Start
  <2>2. CASE Compare
    BY <2>2 DEF Compare
  <2>3. CASE ~Start /\ ~Compare
    BY <1>2, <2>3 DEF LoaderStep, Spawned, Sleep, Receive, Ask, Count, FetchNothing,
                      RegisterRelease, TrySwap, Park
  <2> QED BY <2>1, <2>2, <2>3
<1>3. ASSUME NEW a \in Notifiers, NotifyStep(a)
      PROVE  UNCHANGED transitionVars \/ \E l : Settle(l)
  BY <1>3 DEF NotifyStep, StoreLoading, EnterNotifying, WakeAll, LeaveNotifying
<1>4. ASSUME NEW w \in Writers, WriterStep(w) PROVE UNCHANGED transitionVars
  BY <1>4 DEF WriterStep, SetSource, MarkDirty, BumpVersion, SwapValue, Write
<1>5. ASSUME NEW a \in Awaiters, AwaiterStep(a) PROVE UNCHANGED transitionVars
  BY <1>5 DEF AwaiterStep, Poll, PushWaker, Release
<1>6. CASE Pause \/ Resume \/ Finished \/ UNCHANGED vars
  BY <1>6 DEF Pause, Resume, Finished, vars
<1> QED BY <1>1, <1>2, <1>3, <1>4, <1>5, <1>6 DEF Next

\* So every step keeps the invariant of the transitions.
LEMMA TransitionKeeps ==
  ASSUME TransitionInv, [Next]_vars
  PROVE  TransitionInv'
<1>1. CASE UNCHANGED transitionVars
  BY <1>1 DEF transitionVars, TransitionInv, TransitionTypeOK, Counted
<1> QED BY <1>1, TransitionEffect, TransitionStepKeeps, RegisterKeeps, SettleKeeps

\* A transition whose action ran alone has waited, when it is done, for every load that began
\* and registered meanwhile (transition.rs, AsyncTransition::run): for any number of
\* transitions and loads, however those of the others are nested.
THEOREM TransitionsWait == Spec => []TransitionWaits
<1>1. Init => TransitionInv
  BY DEF Init, TransitionInit, TransitionInv, TransitionTypeOK, Counted
<1>2. TransitionInv => TransitionWaits
  BY DEF TransitionInv, TransitionWaits, Counted
<1> QED BY <1>1, <1>2, TransitionKeeps, PTL DEF Spec

-----------------------------------------------------------------------------
(* Types *)

Runs ==
  [fut : BOOLEAN, read : Nat, first : Nat, ready : Nat, next : Nat, wasReady : BOOLEAN,
   was : BOOLEAN, version : Nat, over : Nat, waited : BOOLEAN]
Writes == [empty : BOOLEAN, notify : BOOLEAN]
LoaderPlaces ==
  {"none", "spawned", "next", "idle", "asked", "start", "counting", "loading", "swap", "try",
   "parked", "woken", "store", "notify", "wake", "restore"}
WriterPlaces == {"idle", "mark", "lock", "write", "store", "notify", "wake", "restore"}
AwaiterPlaces == {"idle", "push", "parked", "woken", "holding", "done"}
AllPlaces == LoaderPlaces \cup WriterPlaces \cup AwaiterPlaces

Places ==
  /\ pc \in [Actors -> AllPlaces]
  /\ pc[Loader] \in LoaderPlaces
  /\ \A w \in Writers : pc[w] \in WriterPlaces
  /\ \A a \in Awaiters : pc[a] \in AwaiterPlaces

\* A writer that is in swap_value has the lock, or is the one that waits for it.
LockInv ==
  /\ \A w \in Writers : pc[w] \in {"lock", "write"} => writer = w /\ writes < MaxWrites
  /\ \A w \in Writers : pc[w] = "write" => readers = {}

Booleans ==
  /\ native \in BOOLEAN /\ loading \in BOOLEAN /\ flag \in BOOLEAN
  /\ suspenses \in BOOLEAN /\ pending \in BOOLEAN
  /\ paused \in BOOLEAN /\ released \in BOOLEAN /\ missed \in BOOLEAN

TypeInv ==
  /\ TypeOK /\ Places /\ LockInv
  /\ run \in Runs /\ op \in [Writers -> Writes]

\* The locals of the loader, field by field.
LEMMA RunFutType == \A r \in Runs, b \in BOOLEAN : [r EXCEPT !.fut = b] \in Runs
BY Zenon DEF Runs
LEMMA RunWaitedType == \A r \in Runs, b \in BOOLEAN : [r EXCEPT !.waited = b] \in Runs
BY Zenon DEF Runs
LEMMA RunVersionType == \A r \in Runs, n \in Nat : [r EXCEPT !.version = n] \in Runs
BY Zenon DEF Runs
LEMMA RunCreatedType ==
  \A r \in Runs, b, c \in BOOLEAN, n, m \in Nat :
    [r EXCEPT !.fut = b, !.read = n, !.first = m, !.wasReady = c] \in Runs
BY Zenon DEF Runs
LEMMA RunEndedType ==
  \A r \in Runs, b, c \in BOOLEAN, n, m, k \in Nat :
    [r EXCEPT !.first = n, !.ready = m, !.was = b, !.over = k, !.waited = c] \in Runs
BY Zenon DEF Runs
LEMMA RunStartedType ==
  ASSUME NEW r \in Runs, NEW c \in BOOLEAN,
         NEW n \in Nat, NEW m \in Nat, NEW k \in Nat, NEW l \in Nat, NEW o \in Nat
  PROVE  [r EXCEPT !.fut = FALSE, !.read = n, !.first = m, !.ready = k, !.next = l, !.was = c,
                   !.over = o, !.waited = FALSE] \in Runs
<1>1. [r EXCEPT !.fut = FALSE, !.read = n, !.first = m, !.ready = k] \in Runs
  BY Zenon DEF Runs
<1>2. \A q \in Runs : [q EXCEPT !.next = l, !.was = c, !.over = o, !.waited = FALSE] \in Runs
  BY Zenon DEF Runs
<1> QED BY <1>1, <1>2

\* The steps that leave the loader's locals alone.
LEMMA RunKept ==
  ASSUME NEW a, \/ Sleep \/ Receive \/ Ask \/ RegisterRelease \/ TrySwap
                \/ StoreLoading(a) \/ EnterNotifying(a) \/ WakeAll(a)
                \/ WriterStep(a) \/ AwaiterStep(a) \/ Pause \/ Resume
  PROVE  run' = run
BY DEF Sleep, Receive, Ask, RegisterRelease, TrySwap, StoreLoading, EnterNotifying, WakeAll,
       WriterStep, SetSource, MarkDirty, Write, BumpVersion, SwapValue, AwaiterStep, Poll,
       PushWaker, Release, Pause, Resume, locals

\* The others keep its type.
LEMMA RunStep ==
  ASSUME TypeInv, [Next]_vars
  PROVE  run' \in Runs
<1> USE DEF TypeInv, TypeOK
<1>0. /\ run.read \in Nat /\ run.first \in Nat /\ run.ready \in Nat /\ run.next \in Nat
      /\ run.version \in Nat /\ source \in Nat /\ writes \in Nat
  BY DEF Runs
<1>1. ASSUME NEW first, Create(first) PROVE run' \in Runs
  <2>1. (first \in {"pending", "fallback"}) \in BOOLEAN /\ (first = "ready") \in BOOLEAN
    OBVIOUS
  <2> QED BY <1>0, <1>1, <2>1, RunCreatedType DEF Create
<1>2. CASE LoaderStep
  <2>1. CASE Spawned
    <3>1. (run.fut /\ state # "Dirty") \in BOOLEAN
      OBVIOUS
    <3> QED BY <2>1, <3>1, RunFutType DEF Spawned
  <2>2. CASE Start
    <3> DEFINE n == IF run.fut THEN run.read ELSE source
               k == IF run.first # 0 THEN run.first ELSE run.next
               l == IF run.first # 0 THEN run.next ELSE run.next + 1
    <3>1. n \in Nat /\ k \in Nat /\ l \in Nat
      BY <1>0
    <3>2. run' = [run EXCEPT !.fut = FALSE, !.read = n, !.first = 0, !.ready = k, !.next = l,
                             !.was = loading, !.over = writes, !.waited = FALSE]
      BY <2>2 DEF Start
    <3> HIDE DEF n, k, l, TypeInv, TypeOK
    <3>3. loading \in BOOLEAN /\ writes \in Nat /\ run \in Runs
      BY <1>0 DEF TypeInv, TypeOK
    <3> QED BY <3>1, <3>2, <3>3, RunStartedType
  <2>3. CASE Count
    BY <2>3, RunVersionType DEF Count, NextVersion
  <2>4. CASE FetchNothing
    BY <1>0, <2>4, RunEndedType DEF FetchNothing, EndRun
  <2>5. CASE Compare
    <3>1. EndRun(0) \in Runs
      BY RunEndedType DEF EndRun
    <3> QED BY <2>5, <3>1 DEF Compare
  <2>6. CASE Park
    BY <2>6, RunWaitedType DEF Park
  <2> QED BY <1>2, <2>1, <2>2, <2>3, <2>4, <2>5, <2>6, RunKept DEF LoaderStep
<1>3. ASSUME NEW a \in Notifiers, NotifyStep(a) PROVE run' \in Runs
  <2>1. CASE LeaveNotifying(a)
    BY <2>1, RunEndedType DEF LeaveNotifying, EndRun
  <2> QED BY <1>3, <2>1, RunKept DEF NotifyStep
<1>4. CASE UNCHANGED <<lock, ready, node, boundary, world, locals, missed>> \/ UNCHANGED vars
  BY <1>4 DEF locals, vars
<1> QED BY <1>1, <1>2, <1>3, <1>4, RunKept DEF Next, Finished

\* What each step that changes the locals does to them, field by field.
LEMMA CreateRun ==
  ASSUME run \in Runs, NEW first, Create(first)
  PROVE  /\ run'.read = source /\ run'.version = run.version /\ run'.next = run.next
         /\ run'.first = (IF first = "ready" THEN 0 ELSE 1)
         /\ run'.fut <=> first \in {"pending", "fallback"}
BY DEF Create, Runs
LEMMA SpawnedRun ==
  ASSUME run \in Runs, Spawned
  PROVE  /\ run'.read = run.read /\ run'.version = run.version /\ run'.next = run.next
         /\ run'.first = run.first
         /\ run'.fut <=> run.fut /\ state # "Dirty"
BY DEF Spawned, Runs
LEMMA StartRun ==
  ASSUME run \in Runs, Start
  PROVE  /\ run'.read = (IF run.fut THEN run.read ELSE source)
         /\ run'.version = run.version
         /\ run'.next = (IF run.first # 0 THEN run.next ELSE run.next + 1)
         /\ run'.ready = (IF run.first # 0 THEN run.first ELSE run.next)
         /\ run'.first = 0 /\ run'.over = writes
         /\ ~run'.fut /\ ~run'.waited
         /\ run'.was = loading
BY DEF Start, Runs
LEMMA CountRun ==
  ASSUME run \in Runs, Count
  PROVE  /\ run'.read = run.read /\ run'.next = run.next /\ run'.first = run.first
         /\ run'.ready = run.ready /\ run'.over = run.over
         /\ run'.fut = run.fut /\ run'.waited = run.waited
         /\ run'.version = version + 1
BY DEF Count, NextVersion, Runs
LEMMA EndRunFields ==
  ASSUME run \in Runs, NEW first
  PROVE  /\ EndRun(first).read = run.read /\ EndRun(first).next = run.next
         /\ EndRun(first).version = run.version /\ EndRun(first).fut = run.fut
         /\ EndRun(first).first = first /\ ~EndRun(first).waited
BY DEF EndRun, Runs
LEMMA ParkRun ==
  ASSUME run \in Runs, Park
  PROVE  /\ run'.read = run.read /\ run'.next = run.next /\ run'.first = run.first
         /\ run'.ready = run.ready /\ run'.over = run.over /\ run'.version = run.version
         /\ run'.fut = run.fut /\ run'.waited
BY DEF Park, Runs

\* The Boolean variables stay so.
LEMMA BooleansKept ==
  ASSUME Booleans, run.was \in BOOLEAN, [Next]_vars
  PROVE  Booleans'
<1> USE DEF Booleans, lock, ready, node, boundary, world
<1>1. ASSUME NEW first, Create(first) PROVE Booleans'
  <2>1. loading' \in BOOLEAN /\ flag' \in BOOLEAN
    <3>1. (first # "ready") \in BOOLEAN /\ (first \in {"pending", "fallback"}) \in BOOLEAN
      OBVIOUS
    <3> QED BY <1>1, <3>1, Zenon DEF Create
  <2> QED BY <1>1, <2>1, Zenon DEF Create
<1>2. CASE LoaderStep
  <2>1. CASE Spawned \/ Sleep
    BY <2>1, Zenon DEF Spawned, Sleep
  <2>2. CASE Receive
    BY <2>2, Zenon DEF Receive
  <2>3. CASE Ask
    BY <2>3, Zenon DEF Ask
  <2>4. CASE Start
    BY <2>4, Zenon DEF Start
  <2>5. CASE Count
    BY <2>5, Zenon DEF Count
  <2>6. CASE FetchNothing
    BY <2>6, Zenon DEF FetchNothing
  <2>7. CASE Compare
    BY <2>7, Zenon DEF Compare, KeptHandles
  <2>8. CASE RegisterRelease
    BY <2>8, Zenon DEF RegisterRelease
  <2>9. CASE TrySwap \/ Park
    BY <2>9, Zenon DEF TrySwap, Park
  <2> QED BY <1>2, <2>1, <2>2, <2>3, <2>4, <2>5, <2>6, <2>7, <2>8, <2>9 DEF LoaderStep
<1>3. ASSUME NEW a \in Notifiers, NotifyStep(a) PROVE Booleans'
  <2>1. CASE StoreLoading(a)
    BY <2>1, Zenon DEF StoreLoading, NotLoading
  <2>2. CASE EnterNotifying(a) \/ WakeAll(a) \/ LeaveNotifying(a)
    BY <2>2, Zenon DEF EnterNotifying, WakeAll, LeaveNotifying
  <2> QED BY <1>3, <2>1, <2>2 DEF NotifyStep
<1>4. ASSUME NEW w \in Writers, WriterStep(w) PROVE Booleans'
  <2>1. CASE SetSource(w)
    BY <2>1, Zenon DEF SetSource
  <2>2. CASE MarkDirty(w)
    BY <2>2, Zenon DEF MarkDirty
  <2>3. CASE BumpVersion(w)
    BY <2>3, Zenon DEF BumpVersion
  <2>4. CASE SwapValue(w)
    BY <2>4, Zenon DEF SwapValue, WakeLoader
  <2>5. ASSUME NEW empty, NEW notify, Write(w, empty, notify) PROVE Booleans'
    BY <2>5, Zenon DEF Write
  <2> QED BY <1>4, <2>1, <2>2, <2>3, <2>4, <2>5 DEF WriterStep
<1>5. ASSUME NEW a \in Awaiters, AwaiterStep(a) PROVE Booleans'
  <2>1. CASE Poll(a)
    BY <2>1, Zenon DEF Poll
  <2>2. CASE PushWaker(a)
    BY <2>2, Zenon DEF PushWaker
  <2>3. CASE Release(a)
    BY <2>3, Zenon DEF Release, WakeLoader
  <2> QED BY <1>5, <2>1, <2>2, <2>3 DEF AwaiterStep
<1>6. CASE Pause
  BY <1>6, Zenon DEF Pause
<1>7. CASE Resume
  BY <1>7, Zenon DEF Resume
<1>8. CASE UNCHANGED <<lock, ready, node, boundary, world, locals, missed>> \/ UNCHANGED vars
  BY <1>8, Zenon DEF vars
<1> QED BY <1>1, <1>2, <1>3, <1>4, <1>5, <1>6, <1>7, <1>8 DEF Next, Finished

\* The steps of the loader keep the types.
LEMMA LoaderType ==
  ASSUME TypeInv, TransitionTypeOK', Booleans', run' \in Runs, LoaderStep
  PROVE  TypeInv'
<1> USE AsyncAssumption
    DEF TypeInv, TypeOK, Places, LockInv, AllPlaces, LoaderPlaces, WriterPlaces, AwaiterPlaces,
        Actors, Notifiers, Goto, lock, ready, node, boundary, world, locals, States, Booleans
<1>0. run.version \in Nat /\ run.read \in Nat /\ run.was \in BOOLEAN
  BY DEF Runs
<1>1. CASE Spawned
  BY <1>1, SpawnedRun DEF Spawned
<1>2. CASE Sleep
  BY <1>2 DEF Sleep
<1>3. CASE Receive
  BY <1>3 DEF Receive
<1>4. CASE Ask
  BY <1>4 DEF Ask
<1>5. CASE Start
  BY <1>0, <1>5, StartRun DEF Start
<1>6. CASE Count
  BY <1>0, <1>6, CountRun DEF Count, NextVersion
<1>7. CASE FetchNothing
  BY <1>0, <1>7, EndRunFields DEF FetchNothing
<1>8. CASE Compare
  BY <1>0, <1>8, EndRunFields DEF Compare, KeptHandles
<1>9. CASE RegisterRelease
  BY <1>9 DEF RegisterRelease
<1>10. CASE TrySwap
  BY <1>0, <1>10 DEF TrySwap, Value
<1>11. CASE Park
  BY <1>11, ParkRun DEF Park
<1> QED BY <1>1, <1>2, <1>3, <1>4, <1>5, <1>6, <1>7, <1>8, <1>9, <1>10, <1>11 DEF LoaderStep

\* So do those of a notification.
LEMMA NotifyType ==
  ASSUME TypeInv, TransitionTypeOK', Booleans', run' \in Runs, NEW a \in Notifiers, NotifyStep(a)
  PROVE  TypeInv'
<1> USE AsyncAssumption
    DEF TypeInv, TypeOK, Places, LockInv, AllPlaces, LoaderPlaces, WriterPlaces, AwaiterPlaces,
        Actors, Notifiers, Goto, lock, ready, node, boundary, world, locals, States, Booleans
<1>0. run.version \in Nat /\ run.read \in Nat
  BY DEF Runs
<1>1. CASE StoreLoading(a)
  BY <1>1 DEF StoreLoading, NotLoading
<1>2. CASE EnterNotifying(a)
  BY <1>2 DEF EnterNotifying
<1>3. CASE WakeAll(a)
  BY <1>3 DEF WakeAll, Woken
<1>4. CASE LeaveNotifying(a)
  BY <1>0, <1>4, EndRunFields DEF LeaveNotifying, RestoredState
<1> QED BY <1>1, <1>2, <1>3, <1>4 DEF NotifyStep

\* A loader that is woken was parked.
LEMMA WakeLoaderPlaces ==
  ASSUME NEW p \in [Actors -> AllPlaces], WakeLoader(p)
  PROVE  /\ pc' \in [Actors -> AllPlaces]
         /\ \A b \in Actors : pc'[b] = p[b] \/ (b = Loader /\ p[b] = "parked" /\ pc'[b] = "woken")
<1>1. pc' = p \/ (p[Loader] = "parked" /\ pc' = [p EXCEPT ![Loader] = "woken"])
  BY Zenon DEF WakeLoader
<1>2. "woken" \in AllPlaces
  BY DEF AllPlaces, LoaderPlaces
<1> QED BY <1>1, <1>2

\* A writer keeps the types, and the exclusion of the lock.
LEMMA WriterType ==
  ASSUME TypeInv, TransitionTypeOK', Booleans', run' \in Runs, NEW w \in Writers, WriterStep(w)
  PROVE  TypeInv'
<1> USE AsyncAssumption
    DEF TypeInv, TypeOK, Places, LockInv, AllPlaces, LoaderPlaces, WriterPlaces, AwaiterPlaces,
        Actors, Notifiers, Goto, lock, ready, node, boundary, world, locals, States, Booleans,
        NoWrite, Writes
<1>0. run.version \in Nat /\ run.read \in Nat
  BY DEF Runs
<1>1. CASE SetSource(w)
  BY <1>0, <1>1 DEF SetSource
<1>2. CASE MarkDirty(w)
  BY <1>2 DEF MarkDirty
<1>3. CASE BumpVersion(w)
  BY <1>0, <1>3 DEF BumpVersion, NextVersion
<1>4. CASE SwapValue(w)
  <2> DEFINE p == [pc EXCEPT ![w] = IF op[w].notify THEN "store" ELSE "idle"]
  <2>1. WakeLoader(p) /\ p \in [Actors -> AllPlaces]
    BY <1>4 DEF SwapValue
  <2>2. /\ pc' \in [Actors -> AllPlaces]
        /\ \A b \in Actors : pc'[b] = p[b] \/ (b = Loader /\ p[b] = "parked" /\ pc'[b] = "woken")
    <3> HIDE DEF p, AllPlaces, TypeInv, Actors
    <3> QED BY <2>1, WakeLoaderPlaces
  <2>3. Places'
    BY <2>2
  <2>4. \A v \in Writers : pc'[v] \notin {"lock", "write"}
    BY <1>4, <2>2 DEF SwapValue
  <2>5. writes' \in 0 .. MaxWrites /\ value' \in [by : {"none", "initial", "load", "write"}, n : Nat]
    BY <1>4 DEF SwapValue, Value
  <2>6. op' \in [Writers -> Writes]
    BY <1>4 DEF SwapValue
  <2> QED BY <1>4, <2>2, <2>3, <2>4, <2>5, <2>6 DEF SwapValue
<1>5. ASSUME NEW empty \in BOOLEAN, NEW notify \in BOOLEAN, Write(w, empty, notify)
      PROVE  TypeInv'
  <2>1. op' \in [Writers -> Writes]
    BY <1>5, Zenon DEF Write
  <2> QED BY <1>5, <2>1 DEF Write
<1> QED BY <1>1, <1>2, <1>3, <1>4, <1>5 DEF WriterStep

\* An awaiter reads only where no writer has the lock or waits for it.
LEMMA AwaiterType ==
  ASSUME TypeInv, TransitionTypeOK', Booleans', run' \in Runs, NEW a \in Awaiters, AwaiterStep(a)
  PROVE  TypeInv'
<1> USE AsyncAssumption
    DEF TypeInv, TypeOK, Places, LockInv, AllPlaces, LoaderPlaces, WriterPlaces, AwaiterPlaces,
        Actors, Notifiers, Goto, lock, ready, node, boundary, world, locals, States, Booleans
<1>1. CASE Poll(a)
  BY <1>1 DEF Poll, CanRead
<1>2. CASE PushWaker(a)
  BY <1>2 DEF PushWaker
<1>3. CASE Release(a)
  <2> DEFINE p == [pc EXCEPT ![a] = "done"]
  <2>0. WakeLoader(p) /\ p \in [Actors -> AllPlaces]
    BY <1>3 DEF Release
  <2>1. /\ pc' \in [Actors -> AllPlaces]
        /\ \A b \in Actors : pc'[b] = p[b] \/ (b = Loader /\ p[b] = "parked" /\ pc'[b] = "woken")
    <3> HIDE DEF p, AllPlaces, TypeInv, Actors
    <3> QED BY <2>0, WakeLoaderPlaces
  <2>2. Places'
    BY <1>3, <2>1 DEF Release
  <2> QED BY <1>3, <2>1, <2>2 DEF Release
<1> QED BY <1>1, <1>2, <1>3 DEF AwaiterStep

\* So does every step.
LEMMA TypeKeeps ==
  ASSUME TypeInv, TransitionInv, [Next]_vars
  PROVE  TypeInv'
<1>1. TransitionTypeOK' /\ run' \in Runs /\ Booleans'
  <2>1. Booleans /\ run.was \in BOOLEAN
    BY DEF TypeInv, TypeOK, Booleans, Runs
  <2> QED BY <2>1, TransitionKeeps, RunStep, BooleansKept DEF TransitionInv
<1> USE AsyncAssumption
    DEF TypeInv, TypeOK, Places, LockInv, AllPlaces, LoaderPlaces, WriterPlaces, AwaiterPlaces,
        Actors, Notifiers, Goto, lock, ready, node, boundary, world, locals, States, Booleans
<1>2. ASSUME NEW first \in {"ready", "pending", "fallback", "nothing"}, Create(first)
      PROVE  TypeInv'
  <2>1. run.version \in Nat
    BY DEF Runs
  <2>2. value' \in [by : {"none", "initial", "load", "write"}, n : Nat]
    BY <1>2 DEF Create, Value
  <2>3. run'.version = run.version /\ run'.read = source
    BY <1>2, CreateRun
  <2>4. Places'
    BY <1>2 DEF Create
  <2> QED BY <1>1, <1>2, <2>1, <2>2, <2>3, <2>4 DEF Create
<1>3. CASE Pause
  BY <1>1, <1>3 DEF Pause
<1>4. CASE Resume
  BY <1>1, <1>4 DEF Resume
<1>5. CASE UNCHANGED <<lock, ready, node, boundary, world, locals, missed>>
  BY <1>1, <1>5
<1>6. CASE UNCHANGED vars
  BY <1>1, <1>6 DEF vars
<1> HIDE DEF TypeInv, Notifiers
<1> QED BY <1>1, <1>2, <1>3, <1>4, <1>5, <1>6, LoaderType, NotifyType, WriterType, AwaiterType
        DEF Next, Finished

LEMMA InitTypes ==
  ASSUME Init
  PROVE  TypeInv /\ TransitionInv
<1>1. TransitionInv
  BY DEF Init, TransitionInit, TransitionInv, TransitionTypeOK, Counted
<1>2. run \in Runs /\ op \in [Writers -> Writes]
  BY Zenon DEF Init, Runs, Writes, NoWrite
<1>3. Booleans
  BY Zenon DEF Init, Booleans
<1>4. Places /\ LockInv
  BY AsyncAssumption DEF Init, Places, LockInv, AllPlaces, LoaderPlaces, WriterPlaces,
                         AwaiterPlaces, Actors, Notifiers
<1>5. /\ run.version = 0 /\ run.read = 0
      /\ value \in [by : {"none", "initial", "load", "write"}, n : Nat]
  BY DEF Init, Value
<1>6. TypeOK
  BY <1>1, <1>3, <1>4, <1>5, AsyncAssumption
     DEF Init, TypeOK, Booleans, TransitionInv, LockInv, Actors, Notifiers, States
<1> QED BY <1>1, <1>2, <1>4, <1>6 DEF TypeInv

\* The types, and the exclusion of the value's lock: while a writer swaps the value nobody
\* reads it (async_derived/arc_async_derived.rs, swap_value); a run's version and the source
\* it read are never ahead of the counters.
THEOREM AsyncTypeCorrect == Spec => []TypeOK
<1>1. TypeInv => TypeOK
  BY DEF TypeInv
<1> QED BY <1>1, InitTypes, TypeKeeps, TransitionKeeps, PTL DEF Spec

-----------------------------------------------------------------------------
(* The browser *)

\* At most one actor is in the middle of something.
OneTurn ==
  ~native => \A a, b \in Actors : ~Resting(a) /\ ~Resting(b) => a = b

\* Where an actor that rests can be.
LEMMA RestingPlaces ==
  ASSUME TypeInv
  PROVE  /\ Resting(Loader) =>
              pc[Loader] \in {"none", "spawned", "idle", "loading", "parked", "woken"}
         /\ \A w \in Writers : Resting(w) => pc[w] = "idle"
BY DEF TypeInv, Places, LoaderPlaces, WriterPlaces, Resting

\* An actor's step leaves the others where they are, or wakes them.
MovesOnly(a) ==
  \A b \in Actors \ {a} : pc'[b] = pc[b] \/ (pc[b] = "parked" /\ pc'[b] = "woken")

LEMMA LoaderMoves ==
  ASSUME TypeInv, LoaderStep
  PROVE  Turn(Loader) /\ MovesOnly(Loader) /\ native' = native
BY DEF TypeInv, Places, MovesOnly, Goto, LoaderStep, Spawned, Sleep, Receive, Ask, Start, Count,
       FetchNothing, Compare, RegisterRelease, TrySwap, Park, world

LEMMA NotifyMoves ==
  ASSUME TypeInv, NEW a \in Notifiers, NotifyStep(a)
  PROVE  Turn(a) /\ MovesOnly(a) /\ native' = native
BY DEF TypeInv, Places, MovesOnly, Goto, NotifyStep, StoreLoading, EnterNotifying, WakeAll, Woken,
       LeaveNotifying, world

LEMMA WriterMoves ==
  ASSUME TypeInv, NEW w \in Writers, WriterStep(w)
  PROVE  Turn(w) /\ MovesOnly(w) /\ native' = native
<1>1. Turn(w) /\ native' = native
  BY DEF WriterStep, SetSource, MarkDirty, Write, BumpVersion, SwapValue, world
<1>2. MovesOnly(w)
  <2>1. CASE SwapValue(w)
    <3> DEFINE p == [pc EXCEPT ![w] = IF op[w].notify THEN "store" ELSE "idle"]
    <3>1. WakeLoader(p) /\ p \in [Actors -> AllPlaces] /\ \A b \in Actors \ {w} : p[b] = pc[b]
      BY <2>1 DEF SwapValue, TypeInv, Places, AllPlaces, WriterPlaces
    <3> HIDE DEF p
    <3> QED BY <3>1, WakeLoaderPlaces DEF MovesOnly
  <2>2. CASE ~SwapValue(w)
    BY <2>2 DEF TypeInv, Places, MovesOnly, Goto, WriterStep, SetSource, MarkDirty, Write, BumpVersion
  <2> QED BY <2>1, <2>2
<1> QED BY <1>1, <1>2

LEMMA AwaiterMoves ==
  ASSUME TypeInv, NEW a \in Awaiters, AwaiterStep(a)
  PROVE  Turn(a) /\ MovesOnly(a) /\ native' = native
<1>1. Turn(a) /\ native' = native
  BY DEF AwaiterStep, Poll, PushWaker, Release, world
<1>2. MovesOnly(a)
  <2>1. CASE Release(a)
    <3> DEFINE p == [pc EXCEPT ![a] = "done"]
    <3>1. WakeLoader(p) /\ p \in [Actors -> AllPlaces] /\ \A b \in Actors \ {a} : p[b] = pc[b]
      BY <2>1 DEF Release, TypeInv, Places, AllPlaces, AwaiterPlaces
    <3> HIDE DEF p
    <3> QED BY <3>1, WakeLoaderPlaces DEF MovesOnly
  <2>2. CASE ~Release(a)
    BY <2>2 DEF TypeInv, Places, MovesOnly, Goto, AwaiterStep, Poll, PushWaker
  <2> QED BY <2>1, <2>2
<1> QED BY <1>1, <1>2

\* So in the browser one actor at a time is in the middle of something.
LEMMA OneTurnKeeps ==
  ASSUME TypeInv, OneTurn, [Next]_vars
  PROVE  OneTurn'
<1>1. ASSUME NEW a \in Actors, Turn(a), MovesOnly(a), native' = native PROVE OneTurn'
  BY <1>1 DEF OneTurn, Turn, MovesOnly, Resting
<1>2. ASSUME NEW first, Create(first) PROVE OneTurn'
  BY <1>2 DEF TypeInv, Places, Create, Goto, OneTurn, Resting, world
<1>3. CASE UNCHANGED <<pc, native>>
  BY <1>3 DEF OneTurn, Resting
<1>4. CASE Pause \/ Resume \/ UNCHANGED <<lock, ready, node, boundary, world, locals, missed>>
           \/ UNCHANGED vars
  BY <1>3, <1>4 DEF Pause, Resume, world, locals, vars
<1> QED BY <1>1, <1>2, <1>4, LoaderMoves, NotifyMoves, WriterMoves, AwaiterMoves
        DEF Next, Finished, Actors, Notifiers

\* Whether a run's load is to be replaced, before it has to wait for a reader.
LateInv ==
  ~native =>
    /\ pc[Loader] = "counting" => writes = run.over
    /\ pc[Loader] = "loading" /\ version = run.version =>
         writes = run.over /\ \A w \in Writers : pc[w] # "write"
    /\ pc[Loader] \in {"swap", "try"} /\ ~run.waited => writes = run.over
    /\ pc[Loader] \in {"parked", "woken"} => run.waited

\* A step that is not the loader's, nor one of a writer in swap_value.
LEMMA LateOther ==
  ASSUME TypeInv, LateInv, NEW a, a # Loader, MovesOnly(a),
         UNCHANGED <<native, writes, run, version>>,
         a \in Writers => pc'[a] # "write"
  PROVE  LateInv'
<1>1. pc'[Loader] = pc[Loader] \/ (pc[Loader] = "parked" /\ pc'[Loader] = "woken")
  BY DEF MovesOnly, Actors, Notifiers
<1>2. \A w \in Writers : pc'[w] = "write" => pc[w] = "write"
  BY DEF MovesOnly, Actors, Notifiers
<1> QED BY <1>1, <1>2 DEF LateInv

LEMMA LateKeeps ==
  ASSUME TypeInv, LateInv, [Next]_vars
  PROVE  LateInv'
<1>0. /\ pc \in [Actors -> AllPlaces] /\ Loader \in Actors /\ Writers \subseteq Actors
      /\ Awaiters \subseteq Actors /\ Loader \notin Writers \cup Awaiters
      /\ Writers \cap Awaiters = {}
      /\ run \in Runs /\ run.version \in Nat /\ version \in Nat /\ run.version <= version
      /\ native' = native
  <2>1. native' = native
    BY LoaderMoves, NotifyMoves, WriterMoves, AwaiterMoves
       DEF Next, Create, Pause, Resume, Finished, vars, world
  <2> QED BY <2>1, AsyncAssumption DEF TypeInv, TypeOK, Places, Actors, Notifiers, Runs
<1> SUFFICES ASSUME native = FALSE PROVE LateInv'
  <2>1. native \in BOOLEAN
    BY DEF TypeInv, TypeOK
  <2> QED BY <1>0, <2>1 DEF LateInv
<1> USE DEF Goto
<1>1. CASE LoaderStep
  <2>1. \A w \in Writers : pc[w] = "idle" /\ pc'[w] = "idle"
    <3>1. \A w \in Writers : Resting(w)
      BY <1>0, <1>1, LoaderMoves DEF Turn
    <3> QED BY <1>0, <1>1, <3>1, LoaderMoves, RestingPlaces DEF MovesOnly
  <2>2. CASE Spawned \/ Sleep \/ Receive \/ Ask \/ FetchNothing
    <3>1. pc'[Loader] \in {"next", "idle", "asked", "start"}
      BY <1>0, <2>2 DEF Spawned, Sleep, Receive, Ask, FetchNothing
    <3> QED BY <3>1 DEF LateInv
  <2>3. CASE Start
    <3>1. pc'[Loader] = "counting" /\ writes' = writes /\ run'.over = writes
      BY <1>0, <2>3, StartRun DEF Start, world
    <3> QED BY <3>1 DEF LateInv
  <2>4. CASE Count
    <3>1. /\ pc[Loader] = "counting" /\ pc'[Loader] = "loading"
          /\ writes' = writes /\ run'.over = run.over
      BY <1>0, <2>4, CountRun DEF Count, world
    <3> QED BY <2>1, <3>1 DEF LateInv
  <2>5. CASE Compare
    <3>1. pc[Loader] = "loading" /\ writes' = writes
      BY <2>5 DEF Compare, world
    <3>2. \/ pc'[Loader] = "next"
          \/ pc'[Loader] = "swap" /\ version = run.version /\ run' = run
      BY <1>0, <2>5 DEF Compare, Latest
    <3> QED BY <3>1, <3>2 DEF LateInv
  <2>6. CASE RegisterRelease
    <3>1. /\ pc[Loader] \in {"swap", "woken"} /\ pc'[Loader] = "try"
          /\ writes' = writes /\ run' = run
      BY <1>0, <2>6 DEF RegisterRelease, world
    <3> QED BY <3>1 DEF LateInv
  <2>7. CASE TrySwap
    <3>1. pc'[Loader] = "store"
      BY <1>0, <2>7 DEF TrySwap
    <3> QED BY <3>1 DEF LateInv
  <2>8. CASE Park
    <3>1. pc'[Loader] \in {"parked", "woken"} /\ run'.waited
      BY <1>0, <2>8, ParkRun DEF Park
    <3> QED BY <3>1 DEF LateInv
  <2> QED BY <1>1, <2>2, <2>3, <2>4, <2>5, <2>6, <2>7, <2>8 DEF LoaderStep
<1>2. ASSUME NEW a \in Notifiers, NotifyStep(a) PROVE LateInv'
  <2>1. CASE a = Loader
    <3>1. pc'[Loader] \in {"notify", "wake", "restore", "next"}
      BY <1>0, <1>2, <2>1 DEF NotifyStep, StoreLoading, EnterNotifying, WakeAll, Woken, LeaveNotifying
    <3> QED BY <3>1 DEF LateInv
  <2>2. CASE a # Loader
    <3>1. UNCHANGED <<writes, run, version>> /\ pc'[a] # "write"
      BY <1>0, <1>2, <2>2 DEF Notifiers, NotifyStep, StoreLoading, EnterNotifying, WakeAll, Woken,
                              LeaveNotifying, world, node
    <3> QED BY <1>0, <1>2, <2>2, <3>1, NotifyMoves, LateOther
  <2> QED BY <2>1, <2>2
<1>3. ASSUME NEW w \in Writers, WriterStep(w) PROVE LateInv'
  <2>1. MovesOnly(w) /\ w # Loader /\ pc'[Loader] \notin {"counting", "swap", "try"} /\ run' = run
    <3>1. Resting(Loader)
      BY <1>0, <1>3, WriterMoves DEF Turn
    <3> QED BY <1>0, <1>3, <3>1, WriterMoves, RunKept DEF MovesOnly, Resting
  <2>2. CASE BumpVersion(w)
    <3>1. version' # run'.version /\ pc'[Loader] = pc[Loader]
      BY <1>0, <2>1, <2>2 DEF BumpVersion, NextVersion
    <3> QED BY <2>1, <3>1 DEF LateInv
  <2>3. CASE SwapValue(w)
    <3>1. version' = version /\ pc[w] = "write"
      BY <2>3 DEF SwapValue, node
    <3>2. pc'[Loader] = pc[Loader] \/ (pc[Loader] = "parked" /\ pc'[Loader] = "woken")
      BY <1>0, <2>1 DEF MovesOnly
    <3> QED BY <2>1, <3>1, <3>2 DEF LateInv
  <2>4. CASE ~BumpVersion(w) /\ ~SwapValue(w)
    <3>1. UNCHANGED <<writes, version>> /\ pc'[w] # "write"
      BY <1>0, <1>3, <2>4 DEF WriterStep, SetSource, MarkDirty, Write, world, node
    <3> QED BY <1>0, <2>1, <3>1, LateOther
  <2> QED BY <2>2, <2>3, <2>4
<1>4. ASSUME NEW a \in Awaiters, AwaiterStep(a) PROVE LateInv'
  <2>1. UNCHANGED <<writes, run, version>>
    BY <1>4 DEF AwaiterStep, Poll, PushWaker, Release, world, node
  <2> QED BY <1>0, <1>4, <2>1, AwaiterMoves, LateOther
<1>5. ASSUME NEW first, Create(first) PROVE LateInv'
  <2>1. pc'[Loader] = "spawned"
    BY <1>0, <1>5 DEF Create
  <2> QED BY <2>1 DEF LateInv
<1>6. CASE UNCHANGED <<pc, writes, run, version>>
  BY <1>0, <1>6 DEF LateInv
<1>7. CASE Pause \/ Resume \/ UNCHANGED <<lock, ready, node, boundary, world, locals, missed>>
           \/ UNCHANGED vars
  BY <1>6, <1>7 DEF Pause, Resume, node, world, locals, vars
<1> QED BY <1>1, <1>2, <1>3, <1>4, <1>5, <1>7 DEF Next, Finished

\* A load never replaces a value written after it began, unless it had to wait for a reader
\* when it had compared the versions (or threads run in parallel): bump_version and
\* set_inner_value (async_derived/arc_async_derived.rs), for any number of writes and readers.
THEOREM LateLoadsWaited == Spec => LateLoadHadToWait
<1> DEFINE Inv == TypeInv /\ TransitionInv /\ LateInv
<1>1. Init => Inv
  <2>1. Init => LateInv
    BY AsyncAssumption DEF Init, LateInv, Actors, Notifiers
  <2> QED BY <2>1, InitTypes
<1>2. Inv /\ [Next]_vars => Inv'
  BY TypeKeeps, TransitionKeeps, LateKeeps
<1>3. Inv => (pc[Loader] = "try" /\ writes > run.over => native \/ run.waited)
  <2> SUFFICES ASSUME Inv, pc[Loader] = "try", writes > run.over, ~native, ~run.waited PROVE FALSE
    OBVIOUS
  <2>1. writes = run.over /\ writes \in Nat
    BY DEF LateInv, TypeInv, TypeOK
  <2> QED BY <2>1
<1> HIDE DEF Inv
<1>4. Inv => [pc[Loader] = "try" /\ pc'[Loader] = "store" /\ writes > run.over
                => native \/ run.waited]_vars
  BY <1>3
<1> QED BY <1>1, <1>2, <1>4, PTL DEF Spec, LateLoadHadToWait

-----------------------------------------------------------------------------
(* The loader at rest *)

\* A value that is loading is being loaded, or will be, or its load was discarded.
RunPlaces == {"counting", "loading", "swap", "try", "parked", "woken", "store"}
LoadingInv ==
  /\ loading => pc[Loader] \in RunPlaces \cup {"none"} \/ run.first # 0 \/ version # run.version
  /\ pc[Loader] \in RunPlaces \cup {"notify", "wake", "restore"} => run.first = 0
  /\ pc[Loader] \in {"counting", "loading"} => run.ready # 0
  /\ run.next # 0

LEMMA LoadingOther ==
  ASSUME TypeInv, LoadingInv, NEW a, a # Loader, MovesOnly(a),
         loading' = loading \/ loading' = FALSE, run' = run, version' \in {version, version + 1}
  PROVE  LoadingInv'
<1>1. pc'[Loader] = pc[Loader] \/ (pc[Loader] = "parked" /\ pc'[Loader] = "woken")
  BY DEF MovesOnly, Actors, Notifiers
<1>2. run.version \in Nat /\ version \in Nat /\ run.version <= version
  BY DEF TypeInv, TypeOK, Runs
<1>3. version # run.version => version' # run'.version
  BY <1>2
<1>4. loading' => loading
  OBVIOUS
<1> QED BY <1>1, <1>3, <1>4 DEF LoadingInv, RunPlaces

LEMMA LoadingKeeps ==
  ASSUME TypeInv, LoadingInv, [Next]_vars
  PROVE  LoadingInv'
<1>0. /\ pc \in [Actors -> AllPlaces] /\ Loader \in Actors /\ Loader \notin Writers \cup Awaiters
      /\ run \in Runs /\ run.next \in Nat /\ run.version \in Nat
  BY AsyncAssumption DEF TypeInv, Places, Actors, Notifiers, Runs
<1> USE DEF Goto
<1>1. CASE LoaderStep
  <2>1. CASE Spawned
    <3>1. /\ pc[Loader] = "spawned" /\ pc'[Loader] = "next" /\ loading' = loading
          /\ version' = version
      BY <1>0, <2>1 DEF Spawned, ready, node
    <3> QED BY <1>0, <2>1, <3>1, SpawnedRun DEF LoadingInv, RunPlaces
  <2>2. CASE Sleep \/ Receive \/ Ask
    <3>1. /\ pc[Loader] \in {"next", "idle", "asked"}
          /\ pc'[Loader] \in {"next", "idle", "asked", "start"}
          /\ loading' = loading /\ version' = version /\ run' = run
      BY <1>0, <2>2 DEF Sleep, Receive, Ask, ready, node
    <3> QED BY <3>1 DEF LoadingInv, RunPlaces
  <2>3. CASE Start
    <3>1. pc'[Loader] = "counting" /\ run'.first = 0 /\ run'.ready # 0 /\ run'.next # 0
      <4>1. run.next # 0
        BY DEF LoadingInv
      <4> QED BY <1>0, <2>3, <4>1, StartRun DEF Start
    <3> QED BY <3>1 DEF LoadingInv, RunPlaces
  <2>4. CASE Count
    <3>1. pc[Loader] = "counting" /\ pc'[Loader] = "loading" /\ loading' = loading
      BY <1>0, <2>4 DEF Count, ready
    <3> QED BY <1>0, <2>4, <3>1, CountRun DEF LoadingInv, RunPlaces
  <2>5. CASE FetchNothing
    <3>1. pc[Loader] = "loading" /\ pc'[Loader] = "next" /\ run' = EndRun(run.ready)
      BY <1>0, <2>5 DEF FetchNothing
    <3>2. run'.first = run.ready /\ run'.next = run.next
      BY <1>0, <3>1, EndRunFields
    <3> QED BY <3>1, <3>2 DEF LoadingInv, RunPlaces
  <2>6. CASE Compare
    <3>1. pc[Loader] = "loading" /\ version' = version /\ loading' = loading
      BY <2>6 DEF Compare, node, ready
    <3>2. CASE pc'[Loader] = "swap" /\ run' = run
      BY <3>1, <3>2 DEF LoadingInv, RunPlaces
    <3>3. CASE pc'[Loader] = "next" /\ version # run.version /\ run' = EndRun(0)
      <4>1. run'.next = run.next /\ run'.version = run.version
        BY <1>0, <3>3, EndRunFields
      <4> QED BY <3>1, <3>3, <4>1 DEF LoadingInv, RunPlaces
    <3> QED BY <1>0, <2>6, <3>2, <3>3 DEF Compare, Latest
  <2>7. CASE RegisterRelease \/ TrySwap
    <3>1. /\ pc[Loader] \in RunPlaces \ {"counting", "loading"} /\ pc'[Loader] \in {"try", "store"}
          /\ run' = run
      BY <1>0, <2>7 DEF RegisterRelease, TrySwap, RunPlaces
    <3> QED BY <3>1 DEF LoadingInv, RunPlaces
  <2>8. CASE Park
    <3>1. pc[Loader] = "try" /\ pc'[Loader] \in {"parked", "woken"}
      BY <1>0, <2>8 DEF Park
    <3> QED BY <1>0, <2>8, <3>1, ParkRun DEF LoadingInv, RunPlaces
  <2> QED BY <1>1, <2>1, <2>2, <2>3, <2>4, <2>5, <2>6, <2>7, <2>8 DEF LoaderStep
<1>2. ASSUME NEW a \in Notifiers, NotifyStep(a) PROVE LoadingInv'
  <2>1. CASE a = Loader
    <3>1. CASE StoreLoading(a)
      <4>1. /\ pc[Loader] = "store" /\ pc'[Loader] = "notify" /\ loading' = FALSE /\ run' = run
        BY <1>0, <2>1, <3>1 DEF StoreLoading, NotLoading
      <4> QED BY <4>1 DEF LoadingInv, RunPlaces
    <3>2. CASE EnterNotifying(a) \/ WakeAll(a)
      <4>1. /\ pc[Loader] \in {"notify", "wake"} /\ pc'[Loader] \in {"wake", "restore"}
            /\ loading' = loading /\ run' = run /\ version' = version
        BY <1>0, <2>1, <3>2 DEF EnterNotifying, WakeAll, Woken, ready, node
      <4> QED BY <4>1 DEF LoadingInv, RunPlaces
    <3>3. CASE LeaveNotifying(a)
      <4>1. /\ pc[Loader] = "restore" /\ pc'[Loader] = "next" /\ run' = EndRun(0)
            /\ loading' = loading /\ version' = version
        BY <1>0, <2>1, <3>3 DEF LeaveNotifying, ready
      <4>2. run'.next = run.next /\ run'.version = run.version
        BY <1>0, <4>1, EndRunFields
      <4> QED BY <4>1, <4>2 DEF LoadingInv, RunPlaces
    <3> QED BY <1>2, <3>1, <3>2, <3>3 DEF NotifyStep
  <2>2. CASE a # Loader
    <3>1. run' = run /\ version' = version
      BY <1>2, <2>2 DEF NotifyStep, StoreLoading, EnterNotifying, WakeAll, LeaveNotifying, node
    <3>2. loading' = loading \/ loading' = FALSE
      BY <1>2, Zenon DEF NotifyStep, StoreLoading, NotLoading, EnterNotifying, WakeAll,
                         LeaveNotifying, ready
    <3> QED BY <1>2, <2>2, <3>1, <3>2, NotifyMoves, LoadingOther
  <2> QED BY <2>1, <2>2
<1>3. ASSUME NEW w \in Writers, WriterStep(w) PROVE LoadingInv'
  <2>1. loading' = loading /\ version' \in {version, version + 1}
    BY <1>3 DEF WriterStep, SetSource, MarkDirty, Write, BumpVersion, NextVersion,
                 SwapValue, ready, node
  <2>2. loading' = loading \/ loading' = FALSE
    BY <2>1
  <2> QED BY <1>0, <1>3, <2>1, <2>2, WriterMoves, LoadingOther, RunKept
<1>4. ASSUME NEW a \in Awaiters, AwaiterStep(a) PROVE LoadingInv'
  <2>1. loading' = loading /\ version' \in {version, version + 1}
    BY <1>4 DEF AwaiterStep, Poll, PushWaker, Release, ready, node
  <2>2. loading' = loading \/ loading' = FALSE
    BY <2>1
  <2> QED BY <1>0, <1>4, <2>1, <2>2, AwaiterMoves, LoadingOther, RunKept
<1>5. ASSUME NEW first, Create(first) PROVE LoadingInv'
  <2>1. pc'[Loader] = "spawned" /\ run'.next = run.next /\ (run'.first = 0 => first = "ready")
    <3>1. pc'[Loader] = "spawned"
      BY <1>0, <1>5 DEF Create
    <3> QED BY <1>0, <1>5, <3>1, CreateRun
  <2>2. CASE first = "ready"
    <3>1. (first # "ready") = FALSE
      BY <2>2
    <3>2. loading' = FALSE
      BY <1>5, <3>1, Zenon DEF Create
    <3> QED BY <2>1, <3>2 DEF LoadingInv, RunPlaces
  <2> QED BY <2>1, <2>2 DEF LoadingInv, RunPlaces
<1>6. CASE UNCHANGED <<pc, loading, run, version>>
  BY <1>6 DEF LoadingInv
<1>7. CASE Pause \/ Resume \/ UNCHANGED <<lock, ready, node, boundary, world, locals, missed>>
           \/ UNCHANGED vars
  BY <1>6, <1>7 DEF Pause, Resume, ready, node, world, locals, vars
<1> QED BY <1>1, <1>2, <1>3, <1>4, <1>5, <1>7 DEF Next, Finished

\* In the browser a notification runs to its end, and saves a state that was not "Notifying".
NotifyingInv ==
  ~native =>
    /\ \A a \in Notifiers : saved[a] # "Notifying"
    /\ \A a \in Notifiers : pc[a] \in {"wake", "restore"} => state = "Notifying"
    /\ state = "Notifying" => \E a \in Notifiers : pc[a] \in {"wake", "restore"}

LEMMA NotifyingKeeps ==
  ASSUME TypeInv, OneTurn, NotifyingInv, [Next]_vars
  PROVE  NotifyingInv'
<1>0. /\ pc \in [Actors -> AllPlaces] /\ Notifiers \subseteq Actors /\ Loader \in Notifiers
      /\ Writers \subseteq Notifiers /\ Awaiters \subseteq Actors /\ Notifiers \cap Awaiters = {}
      /\ Loader \notin Writers /\ saved \in [Notifiers -> States] /\ native' = native
  <2>1. native' = native
    BY LoaderMoves, NotifyMoves, WriterMoves, AwaiterMoves
       DEF Next, Create, Pause, Resume, Finished, vars, world
  <2> QED BY <2>1, AsyncAssumption DEF TypeInv, TypeOK, Places, Actors, Notifiers
<1> SUFFICES ASSUME native = FALSE PROVE NotifyingInv'
  <2>1. native \in BOOLEAN
    BY DEF TypeInv, TypeOK
  <2> QED BY <1>0, <2>1 DEF NotifyingInv
<1> USE DEF Goto
\* Who is at "wake" or "restore" stays there, and the states stay.
<1>1. ASSUME saved' = saved, state' = state,
             \A a \in Notifiers : pc'[a] \in {"wake", "restore"} <=> pc[a] \in {"wake", "restore"}
      PROVE  NotifyingInv'
  BY <1>1 DEF NotifyingInv
<1>2. ASSUME NEW a \in Actors, Turn(a)
      PROVE  \A b \in Notifiers \ {a} : pc[b] \notin {"wake", "restore"}
  BY <1>0, <1>2 DEF Turn, Resting
<1>3. ASSUME NEW a \in Actors, Turn(a), MovesOnly(a)
      PROVE  \A b \in Notifiers \ {a} : pc'[b] \notin {"wake", "restore"}
  BY <1>0, <1>2, <1>3 DEF MovesOnly
<1>4. CASE LoaderStep
  <2>1. /\ pc[Loader] \notin {"wake", "restore"} /\ pc'[Loader] \notin {"wake", "restore"}
        /\ saved' = saved
    BY <1>0, <1>4 DEF LoaderStep, Spawned, Sleep, Receive, Ask, Start, Count, FetchNothing, Compare,
                      RegisterRelease, TrySwap, Park
  <2>2. \A b \in Notifiers : pc[b] \notin {"wake", "restore"} /\ pc'[b] \notin {"wake", "restore"}
    BY <1>0, <1>2, <1>3, <1>4, <2>1, LoaderMoves
  <2>3. CASE Ask
    <3>1. state' = state \/ state' = "Clean"
      BY <2>3 DEF Ask
    <3> QED BY <2>1, <2>2, <3>1 DEF NotifyingInv
  <2>4. CASE ~Ask
    <3>1. state' = state
      BY <1>4, <2>4 DEF LoaderStep, Spawned, Sleep, Receive, Start, Count, FetchNothing, Compare,
                        RegisterRelease, TrySwap, Park, node
    <3> QED BY <1>1, <2>1, <2>2, <3>1
  <2> QED BY <2>3, <2>4
<1>5. ASSUME NEW a \in Notifiers, NotifyStep(a) PROVE NotifyingInv'
  <2>1. \A b \in Notifiers \ {a} :
          pc[b] \notin {"wake", "restore"} /\ pc'[b] \notin {"wake", "restore"}
    BY <1>0, <1>2, <1>3, <1>5, NotifyMoves
  <2>2. CASE StoreLoading(a)
    <3>1. /\ pc[a] = "store" /\ pc'[a] = "notify" /\ state' = state /\ saved' = saved
      BY <1>0, <2>2 DEF StoreLoading, node
    <3> QED BY <1>1, <2>1, <3>1
  <2>3. CASE EnterNotifying(a)
    <3>1. pc[a] = "notify" /\ pc'[a] = "wake" /\ state' = "Notifying"
      BY <1>0, <2>3 DEF EnterNotifying
    <3>2. state # "Notifying"
      BY <2>1, <3>1 DEF NotifyingInv
    <3>3. \A b \in Notifiers : saved'[b] # "Notifying"
      BY <1>0, <2>3, <3>2 DEF EnterNotifying, NotifyingInv
    <3> QED BY <3>1, <3>3 DEF NotifyingInv
  <2>4. CASE WakeAll(a)
    <3>1. pc[a] = "wake" /\ pc'[a] = "restore" /\ state' = state /\ saved' = saved
      BY <1>0, <2>4 DEF WakeAll, Woken, node
    <3> QED BY <1>1, <2>1, <3>1
  <2>5. CASE LeaveNotifying(a)
    <3>1. pc[a] = "restore" /\ pc'[a] \in {"next", "idle"} /\ state' = saved[a]
      BY <1>0, <2>5 DEF LeaveNotifying, RestoredState
    <3>2. \A b \in Notifiers : saved'[b] # "Notifying"
      BY <1>0, <2>5 DEF LeaveNotifying, NotifyingInv
    <3>3. state' # "Notifying"
      BY <3>1 DEF NotifyingInv
    <3> QED BY <2>1, <3>1, <3>2, <3>3 DEF NotifyingInv
  <2> QED BY <1>5, <2>2, <2>3, <2>4, <2>5 DEF NotifyStep
<1>6. ASSUME NEW w \in Writers, WriterStep(w) PROVE NotifyingInv'
  <2>1. \A b \in Notifiers \ {w} :
          pc[b] \notin {"wake", "restore"} /\ pc'[b] \notin {"wake", "restore"}
    BY <1>0, <1>2, <1>3, <1>6, WriterMoves
  <2>2. pc[w] \in {"idle", "mark", "lock", "write"} /\ saved' = saved /\ w # Loader
    BY <1>0, <1>6 DEF WriterStep, SetSource, MarkDirty, Write, BumpVersion, SwapValue
  <2>3. pc'[w] \in {"idle", "mark", "lock", "write", "store"}
    <3>1. CASE SwapValue(w)
      <4> DEFINE p == [pc EXCEPT ![w] = IF op[w].notify THEN "store" ELSE "idle"]
      <4>1. WakeLoader(p) /\ p \in [Actors -> AllPlaces] /\ p[w] \in {"store", "idle"}
        BY <1>0, <3>1 DEF SwapValue, AllPlaces, WriterPlaces
      <4> HIDE DEF p
      <4> QED BY <1>0, <2>2, <4>1, WakeLoaderPlaces
    <3>2. CASE ~SwapValue(w)
      BY <1>0, <1>6, <3>2 DEF WriterStep, SetSource, MarkDirty, Write, BumpVersion
    <3> QED BY <3>1, <3>2
  <2>4. state' = state \/ state' = "Dirty"
    BY <1>6 DEF WriterStep, SetSource, MarkDirty, Write, BumpVersion, SwapValue, node
  <2> QED BY <2>1, <2>2, <2>3, <2>4 DEF NotifyingInv
<1>7. ASSUME NEW a \in Awaiters, AwaiterStep(a) PROVE NotifyingInv'
  <2>1. state' = state /\ saved' = saved
    BY <1>7 DEF AwaiterStep, Poll, PushWaker, Release, node
  <2> QED BY <1>0, <1>1, <1>2, <1>3, <1>7, <2>1, AwaiterMoves
<1>8. ASSUME NEW first, Create(first) PROVE NotifyingInv'
  <2>1. /\ pc[Loader] = "none" /\ pc' = [pc EXCEPT ![Loader] = "spawned"]
        /\ state' = state /\ saved' = saved
    BY <1>8 DEF Create
  <2> QED BY <1>0, <1>1, <2>1
<1>9. CASE UNCHANGED <<pc, state, saved>>
  BY <1>1, <1>9
<1>10. CASE Pause \/ Resume \/ UNCHANGED <<lock, ready, node, boundary, world, locals, missed>>
            \/ UNCHANGED vars
  BY <1>9, <1>10 DEF Pause, Resume, node, locals, vars
<1> QED BY <1>4, <1>5, <1>6, <1>7, <1>8, <1>10 DEF Next, Finished

\* The state there is, or will be when the notification that is under way is over.
MarkedDirty ==
  \/ state = "Dirty"
  \/ \E a \in Notifiers : pc[a] \in {"wake", "restore"} /\ saved[a] = "Dirty"
Unmarked == \A w \in Writers : pc[w] # "mark"
Behind == run.read # source /\ ~missed /\ Unmarked

\* A loader that is behind the source will hear of it.
BehindInv ==
  ~native =>
    /\ pc[Loader] = "none" => run.read = source
    /\ pc[Loader] \in {"none", "spawned"} => ~missed
    /\ Behind /\ pc[Loader] # "start" => MarkedDirty
    /\ Behind /\ pc[Loader] \notin {"asked", "start"} => flag
    /\ run.fut => pc[Loader] \in {"spawned", "next", "asked", "start"} /\ run.first # 0
    /\ run.fut /\ pc[Loader] \in {"spawned", "next"} => flag
    /\ run.fut /\ pc[Loader] # "spawned" => run.read = source
    /\ pc[Loader] = "counting" => run.read = source

\* A step that is not the loader's and has nothing to do with the source or the state.
LEMMA BehindOther ==
  ASSUME TypeInv, BehindInv, NEW a \in Actors \ {Loader}, MovesOnly(a),
         UNCHANGED <<native, source, state, saved, flag, missed, run>>,
         a \in Notifiers =>
           /\ pc[a] # "mark"
           /\ pc[a] \in {"wake", "restore"} => pc'[a] \in {"wake", "restore"}
  PROVE  BehindInv'
<1>1. pc'[Loader] = pc[Loader] \/ (pc[Loader] = "parked" /\ pc'[Loader] = "woken")
  BY DEF MovesOnly, Actors, Notifiers
<1>2. MarkedDirty => MarkedDirty'
  BY DEF MarkedDirty, MovesOnly, Actors, Notifiers
<1>3. Unmarked' => Unmarked
  BY DEF Unmarked, MovesOnly, Actors, Notifiers
<1>4. Behind' => Behind
  BY <1>3 DEF Behind
<1>5. flag' = flag /\ run' = run /\ missed' = missed /\ source' = source /\ native' = native
  OBVIOUS
<1> QED BY <1>1, <1>2, <1>4, <1>5 DEF BehindInv

\* A step of the loader, in terms of what it finds and leaves.
LEMMA BehindLoader ==
  ASSUME TypeInv, OneTurn, NotifyingInv, BehindInv, native = FALSE, native' = FALSE, LoaderStep
  PROVE  BehindInv'
<1>0. /\ pc \in [Actors -> AllPlaces] /\ Loader \in Actors /\ Loader \in Notifiers
      /\ Writers \subseteq Actors /\ Notifiers \subseteq Actors /\ run \in Runs
      /\ Turn(Loader) /\ MovesOnly(Loader) /\ Loader \notin Writers
  BY LoaderMoves, AsyncAssumption DEF TypeInv, Places, Actors, Notifiers
<1> USE DEF Goto
<1>1. \A b \in Notifiers \ {Loader} : pc[b] \notin {"wake", "restore"}
  BY <1>0 DEF Turn, Resting
<1>2. CASE Spawned
  <2>1. /\ pc[Loader] = "spawned" /\ pc'[Loader] = "next" /\ flag' = flag /\ state' = state
        /\ missed' = missed /\ source' = source
    BY <1>0, <1>2 DEF Spawned, node, world
  <2>2. Behind => state = "Dirty" /\ flag
    BY <1>1, <2>1 DEF BehindInv, MarkedDirty
  <2>3. Behind' => Behind
    BY <1>0, <1>2, <2>1, SpawnedRun DEF Behind, Unmarked, MovesOnly, Turn, Resting
  <2>4. state' = "Dirty" => MarkedDirty'
    BY DEF MarkedDirty
  <2>5. run.read # source => Behind
    <3>1. Unmarked
      BY <1>0 DEF Turn, Resting, Unmarked
    <3> QED BY <2>1, <3>1 DEF Behind, BehindInv
  <2>6. run'.read = run.read /\ run'.first = run.first /\ (run'.fut => run.fut /\ state # "Dirty")
    BY <1>0, <1>2, SpawnedRun
  <2> QED BY <2>1, <2>2, <2>3, <2>4, <2>5, <2>6 DEF BehindInv
<1>3. CASE Sleep
  <2>1. /\ pc[Loader] = "next" /\ pc'[Loader] = "idle" /\ ~flag
        /\ missed' = missed /\ source' = source /\ run' = run
    BY <1>0, <1>3 DEF Sleep, world
  <2>2. Behind' => Behind
    BY <1>0, <2>1 DEF Behind, Unmarked, MovesOnly, Turn, Resting
  <2> QED BY <2>1, <2>2 DEF BehindInv
<1>4. CASE Receive
  <2>1. /\ pc[Loader] \in {"next", "idle"} /\ pc'[Loader] = "asked" /\ state' = state
        /\ missed' = missed /\ source' = source /\ run' = run
    BY <1>0, <1>4 DEF Receive, world
  <2>2. Behind' => Behind
    BY <1>0, <2>1 DEF Behind, Unmarked, MovesOnly, Turn, Resting
  <2>3. Behind => MarkedDirty'
    BY <1>1, <2>1 DEF BehindInv, MarkedDirty
  <2> QED BY <2>1, <2>2, <2>3 DEF BehindInv
<1>5. CASE Ask
  <2>1. /\ pc[Loader] = "asked" /\ source' = source /\ run' = run
        /\ pc'[Loader] = (IF MustRun THEN "start" ELSE "next")
    BY <1>0, <1>5 DEF Ask, world
  <2>2. CASE MustRun
    BY <2>1, <2>2 DEF BehindInv
  <2>3. CASE ~MustRun
    <3>1. run.first = 0 /\ (state = "Dirty" => paused = TRUE)
      BY <2>3, Zenon DEF MustRun, TypeInv, TypeOK
    <3>2. Behind => state = "Dirty"
      BY <1>1, <2>1 DEF BehindInv, MarkedDirty
    <3>3. Behind' => Behind
      <4>1. missed' = (missed \/ (paused /\ state = "Dirty"))
        BY <1>5 DEF Ask
      <4>2. Unmarked
        BY <1>0 DEF Turn, Resting, Unmarked
      <4>3. ~missed' => ~missed
        BY <4>1
      <4> QED BY <2>1, <4>2, <4>3 DEF Behind
    <3>4. state = "Dirty" /\ paused = TRUE => missed' = TRUE
      BY <1>5 DEF Ask
    <3>5. ~Behind'
      BY <3>1, <3>2, <3>3, <3>4 DEF Behind
    <3> QED BY <2>1, <2>3, <3>1, <3>5 DEF BehindInv
  <2> QED BY <2>2, <2>3
<1>6. CASE Start
  <2>1. /\ pc[Loader] = "start" /\ pc'[Loader] = "counting" /\ source' = source
        /\ ~run'.fut /\ run'.read = (IF run.fut THEN run.read ELSE source)
    BY <1>0, <1>6, StartRun DEF Start, world
  <2>2. run'.read = source
    BY <2>1 DEF BehindInv
  <2> QED BY <2>1, <2>2 DEF BehindInv, Behind
<1>7. CASE Count
  <2>1. /\ pc[Loader] = "counting" /\ pc'[Loader] = "loading" /\ source' = source
        /\ run'.fut = run.fut /\ run'.read = run.read
    BY <1>0, <1>7, CountRun DEF Count, world
  <2> QED BY <2>1 DEF BehindInv, Behind
<1>8. CASE FetchNothing \/ Compare \/ RegisterRelease \/ TrySwap \/ Park
  <2>1. /\ pc[Loader] \in {"loading", "swap", "woken", "try"}
        /\ pc'[Loader] \in {"next", "swap", "try", "store", "parked", "woken"}
        /\ missed' = missed /\ source' = source /\ state' = state /\ flag' = flag
    BY <1>0, <1>8 DEF FetchNothing, Compare, RegisterRelease, TrySwap, Park, node, world
  <2>2. run'.read = run.read /\ run'.fut = run.fut
    <3>1. CASE FetchNothing \/ Compare
      BY <1>0, <3>1, EndRunFields DEF FetchNothing, Compare
    <3>2. CASE RegisterRelease \/ TrySwap \/ Park
      BY <1>0, <3>2, RunKept, ParkRun
    <3> QED BY <1>8, <3>1, <3>2
  <2>3. Behind' => Behind
    BY <1>0, <2>1, <2>2 DEF Behind, Unmarked, MovesOnly, Turn, Resting
  <2>4. Behind => MarkedDirty' /\ flag'
    BY <1>1, <2>1 DEF BehindInv, MarkedDirty
  <2>5. ~run.fut
    BY <2>1 DEF BehindInv
  <2> QED BY <2>1, <2>2, <2>3, <2>4, <2>5 DEF BehindInv
<1> QED BY <1>2, <1>3, <1>4, <1>5, <1>6, <1>7, <1>8 DEF LoaderStep

\* A notification keeps a mark that was made before it.
LEMMA BehindNotify ==
  ASSUME TypeInv, OneTurn, NotifyingInv, BehindInv, native = FALSE, native' = FALSE,
         NEW a \in Notifiers, NotifyStep(a)
  PROVE  BehindInv'
<1>0. /\ pc \in [Actors -> AllPlaces] /\ Loader \in Actors /\ Loader \in Notifiers
      /\ Writers \subseteq Actors /\ Notifiers \subseteq Actors /\ run \in Runs
      /\ saved \in [Notifiers -> States] /\ Turn(a) /\ MovesOnly(a) /\ Loader \notin Writers
  BY NotifyMoves, AsyncAssumption DEF TypeInv, TypeOK, Places, Actors, Notifiers
<1> USE DEF Goto
<1>1. \A b \in Notifiers \ {a} : pc[b] \notin {"wake", "restore"} /\ pc'[b] \notin {"wake", "restore"}
  BY <1>0 DEF Turn, Resting, MovesOnly
<1>2. flag' = flag /\ missed' = missed /\ source' = source
  BY DEF NotifyStep, StoreLoading, EnterNotifying, WakeAll, LeaveNotifying, node, world
<1>3. MarkedDirty => MarkedDirty'
  <2>1. CASE StoreLoading(a)
    BY <1>0, <1>1, <2>1 DEF StoreLoading, MarkedDirty, node
  <2>2. CASE EnterNotifying(a)
    <3>1. pc[a] = "notify" /\ pc'[a] = "wake" /\ saved'[a] = state
      BY <1>0, <2>2 DEF EnterNotifying
    <3> QED BY <1>1, <3>1 DEF MarkedDirty
  <2>3. CASE WakeAll(a)
    <3>1. pc'[a] = "restore" /\ saved' = saved /\ state' = state
      BY <1>0, <2>3 DEF WakeAll, Woken, node
    <3> QED BY <1>1, <3>1 DEF MarkedDirty
  <2>4. CASE LeaveNotifying(a)
    <3>1. pc[a] = "restore" /\ state' = saved[a]
      BY <2>4 DEF LeaveNotifying, RestoredState
    <3>2. state = "Notifying"
      BY <3>1 DEF NotifyingInv
    <3> QED BY <1>1, <3>1, <3>2 DEF MarkedDirty
  <2> QED BY <2>1, <2>2, <2>3, <2>4 DEF NotifyStep
<1>4. run'.read = run.read /\ run'.fut = run.fut /\ (a # Loader => run' = run)
  <2>1. CASE LeaveNotifying(a)
    BY <1>0, <2>1, EndRunFields DEF LeaveNotifying
  <2>2. CASE ~LeaveNotifying(a)
    BY <2>2, RunKept DEF NotifyStep
  <2> QED BY <2>1, <2>2
<1>5. Behind' => Behind
  <2>1. pc[a] # "mark"
    BY DEF NotifyStep, StoreLoading, EnterNotifying, WakeAll, LeaveNotifying
  <2>2. Unmarked' => Unmarked
    BY <1>0, <2>1 DEF Unmarked, MovesOnly
  <2> QED BY <1>2, <1>4, <2>2 DEF Behind
<1>6. CASE a = Loader
  <2>1. /\ pc[Loader] \in {"store", "notify", "wake", "restore"}
        /\ pc'[Loader] \in {"notify", "wake", "restore", "next"}
    BY <1>0, <1>6 DEF NotifyStep, StoreLoading, EnterNotifying, WakeAll, Woken, LeaveNotifying
  <2>2. ~run.fut
    BY <2>1 DEF BehindInv
  <2> QED BY <1>2, <1>3, <1>4, <1>5, <2>1, <2>2 DEF BehindInv
<1>7. CASE a # Loader
  <2>1. pc'[Loader] = pc[Loader] \/ (pc[Loader] = "parked" /\ pc'[Loader] = "woken")
    BY <1>0, <1>7 DEF MovesOnly
  <2>2. run' = run
    BY <1>4, <1>7
  <2> QED BY <1>2, <1>3, <1>5, <2>1, <2>2 DEF BehindInv
<1> QED BY <1>6, <1>7

\* A change of the source is followed by a mark, before anyone else runs.
LEMMA BehindWriter ==
  ASSUME TypeInv, OneTurn, NotifyingInv, BehindInv, native = FALSE, native' = FALSE,
         NEW w \in Writers, WriterStep(w)
  PROVE  BehindInv'
<1>0. /\ pc \in [Actors -> AllPlaces] /\ Loader \in Actors /\ w \in Actors \ {Loader}
      /\ w \in Notifiers /\ Notifiers \subseteq Actors /\ Turn(w) /\ MovesOnly(w)
  BY WriterMoves, AsyncAssumption DEF TypeInv, Places, Actors, Notifiers
<1> USE DEF Goto
<1>1. pc[Loader] \in {"none", "spawned", "idle", "loading", "parked", "woken"}
  BY <1>0, RestingPlaces DEF Turn
<1>2. CASE SetSource(w)
  <2>1. /\ pc'[w] = "mark" /\ pc'[Loader] = pc[Loader] /\ pc[Loader] # "none"
        /\ flag' = flag /\ missed' = missed /\ run' = run
    BY <1>0, <1>2 DEF SetSource, node
  <2>2. ~Behind'
    BY <2>1 DEF Behind, Unmarked
  <2> QED BY <1>1, <2>1, <2>2 DEF BehindInv
<1>3. CASE MarkDirty(w)
  <2>1. state # "Notifying"
    <3>1. pc[w] = "mark"
      BY <1>3 DEF MarkDirty
    <3>2. \A b \in Notifiers : pc[b] \notin {"wake", "restore"}
      BY <1>0, <3>1 DEF Turn, Resting
    <3> QED BY <3>2 DEF NotifyingInv
  <2>2. /\ pc'[Loader] = pc[Loader] /\ missed' = missed /\ run' = run /\ source' = source
        /\ state' = "Dirty" /\ flag' = TRUE
    BY <1>0, <1>3, <2>1 DEF MarkDirty, world
  <2> QED BY <1>1, <2>2 DEF BehindInv, MarkedDirty
<1>4. CASE ~SetSource(w) /\ ~MarkDirty(w)
  <2>1. /\ UNCHANGED <<source, state, saved, flag, missed, run>>
        /\ pc[w] \in {"idle", "lock", "write"}
    BY <1>4 DEF WriterStep, Write, BumpVersion, SwapValue, node, world
  <2> QED BY <1>0, <2>1, BehindOther
<1> QED BY <1>2, <1>3, <1>4

LEMMA BehindKeeps ==
  ASSUME TypeInv, OneTurn, NotifyingInv, BehindInv, [Next]_vars
  PROVE  BehindInv'
<1>0. native' = native
  BY LoaderMoves, NotifyMoves, WriterMoves, AwaiterMoves
     DEF Next, Create, Pause, Resume, Finished, vars, world
<1> SUFFICES ASSUME native = FALSE PROVE BehindInv'
  <2>1. native \in BOOLEAN
    BY DEF TypeInv, TypeOK
  <2> QED BY <1>0, <2>1 DEF BehindInv
<1>1. ASSUME NEW a \in Awaiters, AwaiterStep(a) PROVE BehindInv'
  <2>1. UNCHANGED <<source, state, saved, flag, missed, run>>
    BY <1>1 DEF AwaiterStep, Poll, PushWaker, Release, node, world
  <2>2. a \in Actors \ {Loader} /\ a \notin Notifiers
    BY AsyncAssumption DEF Actors, Notifiers
  <2> QED BY <1>0, <1>1, <2>1, <2>2, AwaiterMoves, BehindOther
<1>2. ASSUME NEW first, Create(first) PROVE BehindInv'
  <2>1. pc[Loader] = "none" /\ pc'[Loader] = "spawned" /\ missed' = missed /\ source' = source
    BY <1>2 DEF Create, Goto, world, TypeInv, Places, Actors, Notifiers
  <2>2. run'.read = source /\ (run'.fut => first \in {"pending", "fallback"} /\ run'.first # 0)
    BY <1>2, CreateRun DEF TypeInv
  <2>3. first \in {"pending", "fallback"} => flag'
    <3>1. flag' = (first \in {"pending", "fallback"})
      BY <1>2, Zenon DEF Create
    <3> QED BY <3>1
  <2> QED BY <2>1, <2>2, <2>3 DEF BehindInv, Behind
<1>3. CASE UNCHANGED <<native, pc, source, state, saved, flag, missed, run>>
  <2>1. (MarkedDirty' <=> MarkedDirty) /\ (Behind' <=> Behind)
    BY <1>3 DEF MarkedDirty, Behind, Unmarked
  <2> QED BY <1>3, <2>1 DEF BehindInv
<1>4. CASE Pause \/ Resume \/ UNCHANGED <<lock, ready, node, boundary, world, locals, missed>>
           \/ UNCHANGED vars
  BY <1>3, <1>4 DEF Pause, Resume, node, world, locals, vars
<1> QED BY <1>0, <1>1, <1>2, <1>4, BehindLoader, BehindNotify, BehindWriter DEF Next, Finished

\* In the browser a loader with nothing to do has loaded from the source as it is, unless a
\* mark was ignored because of a pause; and it does not say that it is loading, unless it has
\* fetched nothing or its load was discarded (spawn_derived!, notify_subs and mark_dirty).
THEOREM LoaderSettles == Spec => []LoaderSettled
<1> DEFINE Inv == TypeInv /\ TransitionInv /\ OneTurn /\ NotifyingInv /\ BehindInv /\ LoadingInv
<1>1. Init => Inv
  <2> SUFFICES ASSUME Init PROVE OneTurn /\ NotifyingInv /\ BehindInv /\ LoadingInv
    BY InitTypes
  <2>1. pc[Loader] = "none" /\ \A b \in Actors \ {Loader} : pc[b] = "idle"
    BY DEF Init, Actors, Notifiers
  <2>2. OneTurn
    BY <2>1 DEF OneTurn, Resting
  <2>3. NotifyingInv
    <3>1. \A a \in Notifiers : pc[a] \notin {"wake", "restore"}
      BY <2>1 DEF Actors
    <3> QED BY <3>1 DEF Init, NotifyingInv
  <2>4. run.read = 0 /\ run.first = 0 /\ run.next = 2 /\ ~run.fut /\ source = 0 /\ ~missed
    BY DEF Init
  <2> QED BY <2>1, <2>2, <2>3, <2>4 DEF BehindInv, Behind, LoadingInv, RunPlaces
<1>2. Inv /\ [Next]_vars => Inv'
  BY TypeKeeps, TransitionKeeps, OneTurnKeeps, NotifyingKeeps, BehindKeeps, LoadingKeeps
<1>3. Inv => LoaderSettled
  <2> SUFFICES ASSUME Inv, ~native, LoaderRests PROVE LoaderSettled
    BY DEF LoaderSettled
  <2>1. pc[Loader] = "idle" /\ ~flag
    BY DEF LoaderRests
  <2>2. ~Behind
    BY <2>1 DEF BehindInv
  <2>3. Unmarked => run.read = source \/ missed
    BY <2>2 DEF Behind
  <2>4. loading => run.first # 0 \/ version # run.version
    BY <2>1 DEF LoadingInv, RunPlaces
  <2> QED BY <2>3, <2>4 DEF LoaderSettled, Unmarked
<1> QED BY <1>1, <1>2, <1>3, PTL DEF Spec

=============================================================================
