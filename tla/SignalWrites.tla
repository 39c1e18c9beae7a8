---------------------------- MODULE SignalWrites ----------------------------
(***************************************************************************)
(* How threads read and write signals: the per-thread record of            *)
(* reentry.rs, the writer turn and the deferred writes of signal/commit.rs *)
(* and the read guards of signal/guards.rs.                                *)
(*                                                                         *)
(* A value is named by the write that produced it, [by |-> thread,         *)
(* n |-> that thread's operation number].  `depth` is only ever compared   *)
(* with 0 and 1, so the record of a thread is the set of its live          *)
(* accesses.  An access with lvl > 0 is a call on the thread's stack; one  *)
(* with lvl = 0 is a guard, which user code may drop in any order.         *)
(***************************************************************************)
EXTENDS Naturals, Sequences, FiniteSets

CONSTANTS
  Threads,      \* the threads of the process; one is the browser
  Signals,      \* the signals they share
  NoThread,     \* the holder of a free writer turn
  MaxOps,       \* bound: thread -> the operations user code starts on it
  MaxApplied,   \* MAX_APPLIED: the writes one drain applies
  MayPanic,     \* whether user code may unwind
  MayExit       \* whether a thread may reach its shutdown, and still write

ASSUME ThreadsAssumption == NoThread \notin Threads
ASSUME BoundsAssumption ==
  MaxOps \in [Threads -> Nat] /\ MaxApplied \in Nat /\ MayPanic \in BOOLEAN /\ MayExit \in BOOLEAN

VARIABLES
  committed,  \* signal -> the value its lock guards
  turn,       \* signal -> the thread that holds its writer turn
  acc,        \* thread -> its live accesses and calls
  pending,    \* thread -> signal -> its deferred writes, first one first
  ops,        \* thread -> the operation numbers it has used
  stale,      \* signal -> a committed change is not yet marked to subscribers
  gone        \* threads whose thread-locals are destroyed

vars == <<committed, turn, acc, pending, ops, stale, gone>>

-----------------------------------------------------------------------------
(* Data *)

Values == [by : Threads \cup {NoThread}, n : Nat]
InitialValue == [by |-> NoThread, n |-> 0]

\* enum Deferred, and the write a call carries: `base` is the value a closure
\* was given; `own` tells a write made with the writer turn, outermost on its
\* thread, from one made while its thread was using the signal already.
Writes == [mode : {"set", "update", "notify"}, val : Values, base : Values,
           own : BOOLEAN, notify : BOOLEAN]
NoWrite == [mode |-> "notify", val |-> InitialValue, base |-> InitialValue,
            own |-> FALSE, notify |-> TRUE]

Kinds == {"read",    \* a Plain read guard
          "set", "part", "update",   \* set_value, swap_part, update_snapshot
          "guard",   \* a SignalWriteGuard with GuardAccess::Writing
          "nguard",  \* a SignalWriteGuard with GuardAccess::Nested
          "nested",  \* the closure of an update made while the signal is in use
          "notify",  \* mark_subscribers outside any write
          "flush",   \* PendingWrites::flush, run by exit
          "bare"}    \* an update or a set without the record
Phases == {"wait",     \* waiting for the value's read lock
           "turn",     \* waiting for the writer turn
           "closure",  \* user code changes the copy
           "guard",    \* a guard that user code owns
           "drain",    \* the head of drain's loop
           "swap",     \* in value.write(): waiting for readers, then the swap
           "mark"}     \* mark_subscribers; subscribers may run user code

Accesses == [id : Nat, sig : Signals, kind : Kinds, phase : Phases,
             lvl : Nat, applied : 0..MaxApplied, write : Writes]

\* Kinds whose access holds the writer turn once it has been taken (Writing).
WritingKinds == {"set", "part", "update", "guard", "flush"}
Writing(a) == a.kind \in WritingKinds /\ a.phase # "turn"

\* Whether a Held of the access is in the thread's record.  The closure of a
\* nested update, and marking outside a write, run without one.
Recorded(a) == a.kind \in {"read", "nguard"} \/ Writing(a)

Uses(t, s) == {a \in acc[t] : a.sig = s /\ Recorded(a)}
InUse(t, s) == Uses(t, s) # {}

\* Nothing else of this thread uses the signal (depth <= 1).
AloneIgnored(t, a) == TRUE
Alone(t, a) == Uses(t, a.sig) = {a}

\* The lock of s is held for reading by thread t: nested reads share one guard.
ReadLocked(t, s) ==
  \E a \in acc[t] : a.sig = s /\ a.kind = "read" /\ a.phase = "guard"

\* No thread holds the lock for reading: value.write() is granted.
NoReadersIgnored(s) == TRUE
NoReaders(s) == \A t \in Threads : ~ReadLocked(t, s)

\* The turn's mutex can be locked.
TurnFreeIgnored(s) == TRUE
TurnFree(s) == turn[s] = NoThread

\* A thread is inside value.write(): a std lock admits no new reader meanwhile.
WriterQueued(t, s) == \E a \in acc[t] : a.sig = s /\ a.phase = "swap"

\* A read that does not wait gets a guard: it shares this thread's, or
\* try_take succeeds.
CanRead(t, s) ==
  ReadLocked(t, s) \/ \A u \in Threads \ {t} : ~WriterQueued(u, s)

Calls(A) == {a \in A : a.lvl > 0}
TopLevel(A) == Cardinality(Calls(A))
Running(t, a) == a \in Calls(acc[t]) /\ a.lvl = TopLevel(acc[t])
UserCode(t) ==
  \A a \in acc[t] : Running(t, a) => a.phase \in {"closure", "mark"}

Value(t, n) == [by |-> t, n |-> n]
Replace(t, a, b) == acc' = [acc EXCEPT ![t] = (@ \ {a}) \cup {b}]
Push(t, a) ==
  acc' = [acc EXCEPT ![t] = @ \cup {[a EXCEPT !.lvl = TopLevel(acc[t]) + 1]}]

Access(t, s, kind, phase, write) ==
  [id |-> ops[t] + 1, sig |-> s, kind |-> kind, phase |-> phase, lvl |-> 0,
   applied |-> 0, write |-> write]

\* User code on t starts an operation: its number is ops[t] + 1.
Start(t) ==
  /\ UserCode(t)
  /\ ops[t] < MaxOps[t]
  /\ ops' = [ops EXCEPT ![t] = @ + 1]

\* The value that a write deferred now will be applied over, and whether it
\* can be had: only a copy of the committed value needs the lock.
DeferredSets(q) == {i \in DOMAIN q : q[i].mode # "notify"}
PendingOrCommitted(t, s) ==
  LET q == pending[t][s]
      sets == DeferredSets(q)
  IN IF sets = {} THEN committed[s]
     ELSE q[CHOOSE i \in sets : \A j \in sets : j <= i].val
CanCopy(t, s) == DeferredSets(pending[t][s]) # {} \/ CanRead(t, s)

-----------------------------------------------------------------------------
(* Init *)

Init ==
  /\ committed = [s \in Signals |-> InitialValue]
  /\ turn = [s \in Signals |-> NoThread]
  /\ acc = [t \in Threads |-> {}]
  /\ pending = [t \in Threads |-> [s \in Signals |-> <<>>]]
  /\ ops = [t \in Threads |-> 0]
  /\ stale = [s \in Signals |-> FALSE]
  /\ gone = {}

-----------------------------------------------------------------------------
(* The end of an access *)

\* The record's depth for the signal of a returns to 0 when a ends.
OutermostWithTurn(t, a) == Recorded(a) /\ Alone(t, a) /\ turn[a.sig] = t
Outermost(t, a) == Recorded(a) /\ Alone(t, a)

\* PendingWrites::flush, run when the access a ends: it goes on with the turn
\* if t has it, or else waits for it.
FlushAtOnce(t, a) ==
  [id |-> a.id, sig |-> a.sig, kind |-> "flush", phase |-> "drain",
   lvl |-> TopLevel(acc[t] \ {a}) + 1, applied |-> 0, write |-> NoWrite]
Flush(t, a) ==
  [id |-> a.id, sig |-> a.sig, kind |-> "flush",
   phase |-> IF turn[a.sig] = t THEN "drain" ELSE "turn",
   lvl |-> TopLevel(acc[t] \ {a}) + 1, applied |-> 0, write |-> NoWrite]

\* `exit` for the access a of t, with q its signal's deferred writes: the
\* outermost access flushes them, or else releases the turn.
Exit(t, a, q) ==
  LET s == a.sig
      outermost == Outermost(t, a)
  IN /\ pending' = [pending EXCEPT ![t][s] = q]
     /\ acc' = [acc EXCEPT ![t] =
          (@ \ {a}) \cup IF outermost /\ q # <<>> THEN {Flush(t, a)} ELSE {}]
     /\ turn' = IF outermost /\ q = <<>> /\ turn[s] = t
                THEN [turn EXCEPT ![s] = NoThread] ELSE turn

-----------------------------------------------------------------------------
(* Reads *)

\* Plain::try_new_at, not waiting: shares this thread's guard or takes the lock.
Read(t, s) ==
  /\ t \notin gone
  /\ Start(t)
  /\ CanRead(t, s)
  /\ acc' = [acc EXCEPT ![t] = @ \cup {Access(t, s, "read", "guard", NoWrite)}]
  /\ UNCHANGED <<committed, turn, pending, stale, gone>>

\* The lock is busy and this thread does not use the value: the read waits.
ReadWaits(t, s) ==
  /\ t \notin gone
  /\ Start(t)
  /\ ~CanRead(t, s) /\ ~InUse(t, s)
  /\ Push(t, Access(t, s, "read", "wait", NoWrite))
  /\ UNCHANGED <<committed, turn, pending, stale, gone>>

ReadGranted(t, a) ==
  /\ Running(t, a) /\ a.phase = "wait"
  /\ CanRead(t, a.sig)
  /\ Replace(t, a, [a EXCEPT !.phase = "guard", !.lvl = 0])
  /\ UNCHANGED <<committed, turn, pending, ops, stale, gone>>

\* The lock is busy and this thread uses the value already: the read gives
\* None, and so does the copy for a nested update or write guard.
Refused(t, s) ==
  /\ t \notin gone
  /\ Start(t)
  /\ ~CanRead(t, s) /\ InUse(t, s)
  /\ UNCHANGED <<committed, turn, acc, pending, stale, gone>>

\* Drop of a Plain.
DropRead(t, a) ==
  /\ UserCode(t) /\ a.kind = "read" /\ a.phase = "guard"
  /\ Exit(t, a, pending[t][a.sig])
  /\ UNCHANGED <<committed, ops, stale, gone>>

-----------------------------------------------------------------------------
(* Writes that begin *)

\* begin_write for set_value, swap_part, update_snapshot and snapshot_guard
\* when this thread does not use the signal: the write waits for its turn.
BeginWrite(t, s, kind, notify) ==
  /\ kind \in {"update", "guard"} => notify
  /\ t \notin gone
  /\ Start(t)
  /\ ~InUse(t, s)
  /\ Push(t, Access(t, s, kind, "turn",
                    [mode |-> IF kind \in {"set", "part"} THEN "set" ELSE "update",
                     val |-> Value(t, ops[t] + 1), base |-> InitialValue,
                     own |-> TRUE, notify |-> notify]))
  /\ UNCHANGED <<committed, turn, pending, stale, gone>>

\* What a thread does once it has the writer turn: a set goes to the swap, an
\* update or a write guard copies the committed value, a flush drains.
TurnTakenAfterCopy(a) ==
  [a EXCEPT !.phase = CASE a.kind \in {"set", "part"} -> "swap"
                        [] a.kind = "update" -> "closure"
                        [] a.kind = "guard" -> "guard"
                        [] OTHER -> "drain",
            !.lvl = IF a.kind = "guard" THEN 0 ELSE @]
TurnTaken(a) ==
  CASE a.kind \in {"set", "part"} -> [a EXCEPT !.phase = "swap"]
    [] a.kind = "update" ->
         [a EXCEPT !.phase = "closure", !.write.base = committed[a.sig]]
    [] a.kind = "guard" ->
         [a EXCEPT !.phase = "guard", !.lvl = 0, !.write.base = committed[a.sig]]
    [] OTHER -> [a EXCEPT !.phase = "drain"]

\* take_turn.  The copy of an update or a write guard is a read that cannot
\* wait, since the write is recorded already: were the lock busy, the write
\* would end without effect and release the turn.
TakeTurn(t, a) ==
  /\ Running(t, a) /\ a.phase = "turn"
  /\ TurnFree(a.sig)
  /\ IF a.kind \in {"update", "guard"} /\ ~CanRead(t, a.sig)
     THEN /\ acc' = [acc EXCEPT ![t] = @ \ {a}]
          /\ UNCHANGED turn
     ELSE /\ turn' = [turn EXCEPT ![a.sig] = t]
          /\ Replace(t, a, TurnTaken(a))
  /\ UNCHANGED <<committed, pending, ops, stale, gone>>

\* set_value while this thread uses the signal: deferred, last.
DeferSet(t, s, notify) ==
  /\ t \notin gone
  /\ Start(t)
  /\ InUse(t, s)
  /\ pending' = [pending EXCEPT ![t][s] =
       Append(@, [mode |-> "set", val |-> Value(t, ops[t] + 1),
                  base |-> InitialValue, own |-> FALSE, notify |-> notify])]
  /\ UNCHANGED <<committed, turn, acc, stale, gone>>

\* swap_part while this thread uses the signal is refused, and logged.
PartRefused(t, s) ==
  /\ t \notin gone
  /\ Start(t)
  /\ InUse(t, s)
  /\ UNCHANGED <<committed, turn, acc, pending, stale, gone>>

\* update_snapshot (no Held) or snapshot_guard (Held::snapshot) while this
\* thread uses the signal: works on the value it will be applied over.
BeginNested(t, s, kind) ==
  LET write == [mode |-> "update", val |-> InitialValue,
                base |-> PendingOrCommitted(t, s), own |-> FALSE, notify |-> TRUE]
  IN /\ t \notin gone
     /\ Start(t)
     /\ InUse(t, s) /\ CanCopy(t, s)
     /\ IF kind = "nguard"
        THEN acc' = [acc EXCEPT ![t] = @ \cup {Access(t, s, kind, "guard", write)}]
        ELSE Push(t, Access(t, s, kind, "closure", write))
     /\ UNCHANGED <<committed, turn, pending, stale, gone>>

-----------------------------------------------------------------------------
(* Writes that end: commit, or defer *)

\* `defer` ahead of the writes deferred so far.
DeferFirstAtBack(w, q) == Append(q, w)
DeferFirst(w, q) == <<w>> \o q

\* commit (commit_now, or defer ahead of the writes deferred meanwhile) for a
\* write that holds the turn: the end of an update's closure, or the drop of
\* a write guard, which becomes a call.
Commit(t, a, notify) ==
  LET b == [a EXCEPT !.phase = "swap", !.write.notify = notify,
                     !.lvl = IF a.lvl > 0 THEN a.lvl ELSE TopLevel(acc[t]) + 1]
  IN IF Alone(t, a)
     THEN Replace(t, a, b) /\ UNCHANGED <<pending, turn>>
     ELSE Exit(t, a, DeferFirst(b.write, pending[t][a.sig]))

EndUpdate(t, a, notify) ==
  /\ Running(t, a) /\ a.kind = "update" /\ a.phase = "closure"
  /\ Commit(t, a, notify)
  /\ UNCHANGED <<committed, ops, stale, gone>>

DropWriteGuard(t, a, notify) ==
  /\ UserCode(t) /\ a.kind = "guard" /\ a.phase = "guard"
  /\ Commit(t, a, notify)
  /\ UNCHANGED <<committed, ops, stale, gone>>

\* `defer` at the end of a nested update or write guard.  put_pending gives
\* the writes back, to be dropped, if the thread no longer uses the signal.
DeferredResult(t, a, notify) ==
  IF InUse(t, a.sig)
  THEN Append(pending[t][a.sig],
              [a.write EXCEPT !.val = Value(t, ops[t] + 1), !.notify = notify])
  ELSE pending[t][a.sig]

EndNested(t, a, notify) ==
  /\ \/ Running(t, a) /\ a.kind = "nested"
     \/ UserCode(t) /\ a.kind = "nguard"
  /\ ops' = [ops EXCEPT ![t] = @ + 1]
  /\ Exit(t, a, DeferredResult(t, a, notify))
  /\ UNCHANGED <<committed, stale, gone>>

\* Whether the subscribers are to be notified of the swap.
MustMarkUnlessDrained(a) == a.write.notify /\ a.kind # "flush"
MustMark(a) == a.write.notify

\* What follows a write's swap and marking: a drain goes on, any other write
\* ends.
EndWriteAgain(t, a) ==
  IF a.kind = "flush"
  THEN Replace(t, a, [a EXCEPT !.phase = "swap"]) /\ UNCHANGED <<turn, pending>>
  ELSE Exit(t, a, pending[t][a.sig])
EndWrite(t, a) ==
  IF a.kind = "flush"
  THEN Replace(t, a, [a EXCEPT !.phase = "drain"]) /\ UNCHANGED <<turn, pending>>
  ELSE Exit(t, a, pending[t][a.sig])

\* swap_in, waiting natively while any thread reads the value.
SwapIn(t, a) ==
  /\ Running(t, a) /\ a.phase = "swap"
  /\ NoReaders(a.sig)
  /\ committed' = [committed EXCEPT ![a.sig] = a.write.val]
  /\ stale' = [stale EXCEPT ![a.sig] = @ \/ a.write.notify]
  /\ IF MustMark(a)
     THEN Replace(t, a, [a EXCEPT !.phase = "mark"]) /\ UNCHANGED <<turn, pending>>
     ELSE EndWrite(t, a)
  /\ UNCHANGED <<ops, gone>>

\* mark_subscribers has marked every subscriber (and run what they run).
Marked(t, a) ==
  /\ Running(t, a) /\ a.phase = "mark"
  /\ stale' = IF a.write.mode = "notify" THEN stale
              ELSE [stale EXCEPT ![a.sig] = FALSE]
  /\ EndWrite(t, a)
  /\ UNCHANGED <<committed, ops, gone>>

\* The limit on the writes that one flush applies.
RunawayOffByOne(a) == a.applied > MaxApplied
Runaway(a) == a.applied >= MaxApplied

\* The next deferred write, and the ones after it.
PopBack(q) == <<q[Len(q)], SubSeq(q, 1, Len(q) - 1)>>
PopFront(q) == <<Head(q), Tail(q)>>

\* One turn of drain's loop: stops, leaving the rest, if a guard kept by a
\* subscriber uses the signal; drops the rest after MaxApplied.
Drain(t, a) ==
  LET q == pending[t][a.sig]
      runaway == Runaway(a)
      next == PopFront(q)[1]
  IN /\ Running(t, a) /\ a.phase = "drain"
     /\ IF runaway \/ ~Alone(t, a) \/ q = <<>>
        THEN Exit(t, a, IF runaway THEN <<>> ELSE q)
        ELSE /\ pending' = [pending EXCEPT ![t][a.sig] = PopFront(q)[2]]
             /\ Replace(t, a, [a EXCEPT !.applied = @ + 1, !.write = next,
                  !.phase = IF next.mode = "notify" THEN "mark" ELSE "swap"])
             /\ UNCHANGED turn
     /\ UNCHANGED <<committed, ops, stale, gone>>

-----------------------------------------------------------------------------
(* notify *)

\* notify_or_defer.
Notify(t, s) ==
  /\ t \notin gone
  /\ Start(t)
  /\ IF InUse(t, s)
     THEN /\ pending' = [pending EXCEPT ![t][s] = Append(@, NoWrite)]
          /\ UNCHANGED acc
     ELSE /\ Push(t, Access(t, s, "notify", "mark", NoWrite))
          /\ UNCHANGED pending
  /\ UNCHANGED <<committed, turn, stale, gone>>

-----------------------------------------------------------------------------
(* Panics and thread shutdown *)

\* User code unwinds to the thread's boundary: guards are dropped without
\* committing, deferred writes are dropped, turns and locks are released.
\* A change whose marking is abandoned is no longer owed to the subscribers.
PanicKeepsTurn(t) ==
  /\ MayPanic /\ UserCode(t) /\ acc[t] # {}
  /\ acc' = [acc EXCEPT ![t] = {}]
  /\ pending' = [pending EXCEPT ![t] = [s \in Signals |-> <<>>]]
  /\ stale' = [s \in Signals |->
                 stale[s] /\ ~ \E a \in acc[t] : a.sig = s /\ a.phase = "mark"]
  /\ UNCHANGED <<committed, turn, ops, gone>>
Panic(t) ==
  /\ MayPanic /\ UserCode(t) /\ acc[t] # {}
  /\ acc' = [acc EXCEPT ![t] = {}]
  /\ pending' = [pending EXCEPT ![t] = [s \in Signals |-> <<>>]]
  /\ turn' = [s \in Signals |-> IF turn[s] = t THEN NoThread ELSE turn[s]]
  /\ stale' = [s \in Signals |->
                 stale[s] /\ ~ \E a \in acc[t] : a.sig = s /\ a.phase = "mark"]
  /\ UNCHANGED <<committed, ops, gone>>

\* The thread's thread-locals are destroyed; destructors may still write.
Shutdown(t) ==
  /\ MayExit /\ t \notin gone /\ acc[t] = {}
  /\ gone' = gone \cup {t}
  /\ UNCHANGED <<committed, turn, acc, pending, ops, stale>>

\* update_snapshot without the record: copies the value and runs the closure
\* without the turn.  (For set_value the closure is empty.)
BeginBare(t, s) ==
  /\ t \in gone
  /\ Start(t)
  /\ \A u \in Threads : ~WriterQueued(u, s)
  /\ Push(t, Access(t, s, "bare", "closure",
                    [mode |-> "update", val |-> Value(t, ops[t] + 1),
                     base |-> committed[s], own |-> FALSE, notify |-> TRUE]))
  /\ UNCHANGED <<committed, turn, pending, stale, gone>>

\* set_unrecorded: writes only if neither the turn nor the value is busy.
SetUnrecorded(t, a, notify) ==
  LET swapped == TurnFree(a.sig) /\ NoReaders(a.sig)
  IN /\ Running(t, a) /\ a.kind = "bare" /\ a.phase = "closure"
     /\ IF swapped
        THEN /\ committed' = [committed EXCEPT ![a.sig] = a.write.val]
             /\ stale' = [stale EXCEPT ![a.sig] = @ \/ notify]
        ELSE UNCHANGED <<committed, stale>>
     /\ IF swapped /\ notify
        THEN Replace(t, a, [a EXCEPT !.phase = "mark"])
        ELSE acc' = [acc EXCEPT ![t] = @ \ {a}]
     /\ UNCHANGED <<turn, pending, ops, gone>>

-----------------------------------------------------------------------------
(* The specification *)

\* What user code may start on t.
UserStart(t) ==
  \E s \in Signals :
    \/ Read(t, s) \/ ReadWaits(t, s) \/ Refused(t, s)
    \/ \E notify \in BOOLEAN :
         \/ \E kind \in {"set", "part", "update", "guard"} : BeginWrite(t, s, kind, notify)
         \/ DeferSet(t, s, notify)
    \/ PartRefused(t, s)
    \/ \E kind \in {"nested", "nguard"} : BeginNested(t, s, kind)
    \/ Notify(t, s)
    \/ BeginBare(t, s)

\* What ends or advances an access of t.
Advance(t) ==
  \E a \in acc[t] :
    \/ ReadGranted(t, a) \/ DropRead(t, a)
    \/ TakeTurn(t, a) \/ SwapIn(t, a) \/ Marked(t, a) \/ Drain(t, a)
    \/ \E notify \in BOOLEAN :
         \/ EndUpdate(t, a, notify) \/ DropWriteGuard(t, a, notify) \/ EndNested(t, a, notify)
         \/ SetUnrecorded(t, a, notify)

\* Every thread has ended its accesses and has no operation left.
Done ==
  /\ \A t \in Threads : acc[t] = {} /\ ops[t] >= MaxOps[t]
  /\ UNCHANGED vars

Step(t) == UserStart(t) \/ Advance(t) \/ Panic(t) \/ Shutdown(t)
Next == (\E t \in Threads : Step(t)) \/ Done

Spec == Init /\ [][Next]_vars

\* Closures return, guards are dropped, and a lock that stays free is granted.
Fairness == \A t \in Threads : WF_vars(Advance(t))
FairSpec == Spec /\ Fairness

-----------------------------------------------------------------------------
(* Properties *)

TypeOK ==
  /\ committed \in [Signals -> Values]
  /\ turn \in [Signals -> Threads \cup {NoThread}]
  /\ acc \in [Threads -> SUBSET Accesses]
  /\ pending \in [Threads -> [Signals -> Seq(Writes)]]
  /\ ops \in [Threads -> Nat]
  /\ stale \in [Signals -> BOOLEAN]
  /\ gone \in SUBSET Threads

\* The writer turn: every write past take_turn holds it, and a thread keeps it
\* exactly as long as it uses the signal (reentry.rs: "This thread takes it
\* for its first write and keeps it until its outermost access to the signal
\* ends").  A turn that leaked would block every other writer for good.
TurnDiscipline ==
  \A t \in Threads :
    /\ \A a \in acc[t] : Writing(a) => turn[a.sig] = t
    /\ \A s \in Signals : turn[s] = t => InUse(t, s)

\* A write made outermost on its thread lands over the value its closure was
\* given: from the copy in update_snapshot or snapshot_guard to swap_in, also
\* when the commit is deferred because a guard is still alive, no other write
\* is committed (docs/no-panics.md, rule 5: concurrent updates never lose one
\* another's changes).
OwnWrites(t, s) ==
  {a.write : a \in {b \in acc[t] : b.sig = s /\ Writing(b)
                                  /\ b.phase \in {"closure", "guard", "swap"}}}
  \cup {pending[t][s][i] : i \in DOMAIN pending[t][s]}
UpdateOverCommitted ==
  \A t \in Threads, s \in Signals :
    \A w \in OwnWrites(t, s) :
      w.own /\ w.mode = "update" => w.base = committed[s] /\ turn[s] = t

\* No thread waits for itself: not for a turn it holds, and not for a read
\* lock of its own when it swaps a value in (the check of commit_now and of
\* drain that nothing else of this thread uses the signal).
NeverWaitsForItself ==
  \A t \in Threads : \A a \in acc[t] :
    /\ a.phase = "swap" => ~ReadLocked(t, a.sig)
    /\ a.phase = "turn" => turn[a.sig] # t

\* Deferred writes stay in the order they were made, the write that was
\* outermost first (defer with `first`; append of resume_write).
PendingInOrder ==
  \A t \in Threads, s \in Signals :
    LET q == pending[t][s]
    IN \A i, j \in DeferredSets(q) : i < j => q[i].val.n < q[j].val.n

\* Deferred writes are never stranded: an access of the thread that will end,
\* or a flush that waits for its turn, is there to apply them.
PendingHasFlusher ==
  \A t \in Threads, s \in Signals :
    pending[t][s] # <<>> =>
      \E a \in acc[t] : a.sig = s /\ (Recorded(a) \/ a.kind = "flush")

\* A committed change that is to be notified is being marked by some thread
\* until every subscriber was marked: no commit path forgets its subscribers.
ChangesAreMarked ==
  \A s \in Signals :
    stale[s] => \E t \in Threads : \E a \in acc[t] : a.sig = s /\ a.phase = "mark"

\* The writes of one thread to a signal take effect in the order they were
\* made: no later write of the thread is overwritten by an earlier one.
CommitsInThreadOrder ==
  [][\A s \in Signals :
       \/ committed'[s] = committed[s]
       \/ committed'[s].by # committed[s].by
       \/ committed'[s].by \in gone
       \/ committed'[s].n > committed[s].n]_vars

\* A deferred update lands over the value its closure was given, as far as
\* other threads are concerned (docs/no-panics.md, rule 2: a deferred update
\* runs its closure "on the value it will be committed over"; rule 5:
\* "concurrent updates never lose one another's changes").
NoLostUpdate ==
  [][\A t \in Threads : \A a \in acc[t] :
       /\ a.phase = "swap" /\ a.write.mode = "update"
       /\ committed'[a.sig] = a.write.val /\ committed[a.sig] # a.write.val
       => committed[a.sig].by = t \/ committed[a.sig] = a.write.base]_vars

\* An update made while this thread uses the signal is deferred: the end of
\* its closure adds its result to the deferred writes (docs/no-panics.md,
\* rule 2: "is deferred, and applied in order").
NestedUpdateIsDeferred ==
  [][\A t \in Threads : \A a \in acc[t] \ acc'[t] :
       a.kind = "nested" => Len(pending'[t][a.sig]) = Len(pending[t][a.sig]) + 1]_vars

\* A read by a thread that uses the signal finds its value (reentry.rs: "a
\* read never finds its value missing because of a write").
ReadNeverRefused ==
  \A t \in Threads, s \in Signals : InUse(t, s) /\ UserCode(t) => CanRead(t, s)

\* Every deferred write is applied (or dropped by a panic or by the runaway
\* limit): the outermost use ends, and its flush gets the turn.
PendingIsApplied ==
  \A t \in Threads, s \in Signals : pending[t][s] # <<>> ~> pending[t][s] = <<>>

\* The abstract register that the threads share: its value changes only to a
\* write of the thread that has the turn, or of one in shutdown while the turn
\* is free, and never under a reader (docs/no-panics.md, rules 2 and 5): so a
\* deferred write that a flush applies is its own thread's, with the turn.
Readers == [s \in Signals |-> {t \in Threads : ReadLocked(t, s)}]
Register == INSTANCE SignalRegister WITH value <- committed, writer <- turn,
                                         readers <- Readers, left <- gone
RegisterSpec == Register!Spec

\* Every thread that waits for a turn, a lock or its readers goes on.
NobodyWaitsForever ==
  \A t \in Threads : (acc[t] # {}) ~> (acc[t] = {})

=============================================================================
