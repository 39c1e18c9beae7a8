------------------------------ MODULE Actions ------------------------------
(***************************************************************************)
(* One ArcAction (actions/action.rs) and one ArcMultiAction                *)
(* (actions/multi_action.rs).  A dispatch is its input, its future's       *)
(* result, its task and its abort handle; a submission of the multi-action *)
(* likewise.  Each write of a signal is a step, so that tasks and callers  *)
(* on other threads interleave; in the browser (~native) a call, and a     *)
(* task between two awaits, runs to its end.                               *)
(*                                                                         *)
(* `dispatched` is read by every dispatch and completion and written by    *)
(* none, as in the code.  Loads are not suppressed (is_suppressing_...).   *)
(***************************************************************************)
EXTENDS Naturals, FiniteSets

CONSTANTS
  Dispatches,    \* calls of dispatch and dispatch_local, and their inputs and results
  Submissions,   \* calls of MultiAction::dispatch and dispatch_sync
  Nothing,       \* no input, no value
  MaxFlight,     \* usize::MAX, of in_flight
  MaxVersion     \* usize::MAX, of the versions

ASSUME ActionsAssumption ==
  /\ Nothing \notin Dispatches \cup Submissions /\ Dispatches \cap Submissions = {}
  /\ MaxFlight \in Nat /\ MaxVersion \in Nat

\* Each dispatch has a future in memory: there are no more than usize::MAX.
ASSUME FlightAssumption == IsFiniteSet(Dispatches) /\ Cardinality(Dispatches) <= MaxFlight

VARIABLES
  native,      \* threads run in parallel (it never changes)
  inFlight, input, value, version, dispatched,
  step,        \* dispatch -> where its caller, then its task, is
  current,     \* dispatch -> current_version
  resolved,    \* dispatches and submissions whose future is ready
  aborted,     \* dispatches whose abort handle was used
  sub,         \* submission -> input, value, pending, canceled
  substep,     \* submission -> where its caller, then its task, is
  multiVersion

action == <<inFlight, input, value, version, dispatched, step, current, aborted>>
multi == <<sub, substep, multiVersion>>
vars == <<native, action, resolved, multi>>

\* Where others may run in the browser.
Resting(s) == s \in {"new", "running", "done"}
Turn(d) ==
  \/ native
  \/ /\ \A e \in Dispatches \ {d} : Resting(step[e])
     /\ \A s \in Submissions \ {d} : Resting(substep[s])

Increment(n) == IF n = MaxFlight THEN n ELSE n + 1   \* saturating_add
Decrement(n) == IF n = 0 THEN n ELSE n - 1           \* saturating_sub
Wrap(n) == (n + 1) % (MaxVersion + 1)                \* wrapping_add

Goto(d, where) == step' = [step EXCEPT ![d] = where]

Init ==
  /\ native \in BOOLEAN
  /\ inFlight = 0 /\ input = Nothing /\ value = Nothing /\ version = 0 /\ dispatched = 0
  /\ step = [d \in Dispatches |-> "new"]
  /\ current = [d \in Dispatches |-> 0]
  /\ resolved = {} /\ aborted = {}
  /\ sub = [s \in Submissions |->
              [input |-> Nothing, value |-> Nothing, pending |-> FALSE, canceled |-> FALSE]]
  /\ substep = [s \in Submissions |-> "new"]
  /\ multiVersion = 0

-----------------------------------------------------------------------------
(* ArcAction *)

Dispatch(d) ==
  /\ step[d] = "new" /\ Turn(d)
  /\ inFlight' = Increment(inFlight)
  /\ Goto(d, "entered")
  /\ UNCHANGED <<native, input, value, version, dispatched, current, resolved, aborted, multi>>

\* current_version is read, the input set, and the task spawned.
Spawn(d) ==
  /\ step[d] = "entered" /\ Turn(d)
  /\ current' = [current EXCEPT ![d] = dispatched]
  /\ input' = d
  /\ Goto(d, "running")
  /\ UNCHANGED <<native, inFlight, value, version, dispatched, resolved, aborted, multi>>

Abort(d) ==
  /\ step[d] \notin {"new", "entered"} /\ d \notin aborted /\ Turn(Nothing)
  /\ aborted' = aborted \cup {d}
  /\ UNCHANGED <<native, inFlight, input, value, version, dispatched, step, current, resolved, multi>>

\* select! takes one of the branches that are ready, either if both are.
AbortSeenLate(d) == d \in aborted \cap resolved
AbortSeen(d) == d \in aborted
TakeAbort(d) ==
  /\ step[d] = "running" /\ AbortSeen(d) /\ Turn(d)
  /\ inFlight' = Decrement(inFlight)
  /\ Goto(d, "check")
  /\ UNCHANGED <<native, input, value, version, dispatched, current, resolved, aborted, multi>>

TakeResult(d) ==
  /\ step[d] = "running" /\ d \in resolved /\ Turn(d)
  /\ inFlight' = Decrement(inFlight)
  /\ Goto(d, "compare")
  /\ UNCHANGED <<native, input, value, version, dispatched, current, resolved, aborted, multi>>

IsLatest(d) == dispatched <= current[d]
Compare(d) ==
  /\ step[d] = "compare" /\ Turn(d)
  /\ Goto(d, IF IsLatest(d) THEN "version" ELSE "check")
  /\ UNCHANGED <<native, inFlight, input, value, version, dispatched, current, resolved, aborted, multi>>

BumpVersion(d) ==
  /\ step[d] = "version" /\ Turn(d)
  /\ version' = Wrap(version)
  /\ Goto(d, "store")
  /\ UNCHANGED <<native, inFlight, input, value, dispatched, current, resolved, aborted, multi>>

Store(d) ==
  /\ step[d] = "store" /\ Turn(d)
  /\ value' = d
  /\ Goto(d, "check")
  /\ UNCHANGED <<native, inFlight, input, version, dispatched, current, resolved, aborted, multi>>

\* Nothing in flight: the input goes, in a second step.
AtMostOneLeft == inFlight <= 1
NoneLeft == inFlight = 0
Check(d) ==
  /\ step[d] = "check" /\ Turn(d)
  /\ Goto(d, IF NoneLeft THEN "clear" ELSE "done")
  /\ UNCHANGED <<native, inFlight, input, value, version, dispatched, current, resolved, aborted, multi>>

ClearInput(d) ==
  /\ step[d] = "clear" /\ Turn(d)
  /\ input' = Nothing
  /\ Goto(d, "done")
  /\ UNCHANGED <<native, inFlight, value, version, dispatched, current, resolved, aborted, multi>>

\* ArcAction::clear
Clear ==
  /\ value # Nothing /\ Turn(Nothing)
  /\ value' = Nothing
  /\ UNCHANGED <<native, inFlight, input, version, dispatched, step, current, resolved, aborted, multi>>

-----------------------------------------------------------------------------
(* ArcMultiAction *)

GotoSub(s, where) == substep' = [substep EXCEPT ![s] = where]

Submit(s) ==
  /\ substep[s] = "new" /\ Turn(s)
  /\ sub' = [sub EXCEPT ![s].input = s, ![s].pending = TRUE]
  /\ GotoSub(s, "running")
  /\ UNCHANGED <<native, action, resolved, multiVersion>>

SubmitSync(s) ==
  /\ substep[s] = "new" /\ Turn(s)
  /\ sub' = [sub EXCEPT ![s].value = s]
  /\ GotoSub(s, "count")
  /\ UNCHANGED <<native, action, resolved, multiVersion>>

Cancel(s) ==
  /\ substep[s] # "new" /\ ~sub[s].canceled /\ Turn(Nothing)
  /\ sub' = [sub EXCEPT ![s].canceled = TRUE]
  /\ UNCHANGED <<native, action, resolved, substep, multiVersion>>

Canceled(s) == sub[s].canceled
SkipIfCanceled(s) == IF Canceled(s) THEN "pending" ELSE "value"
AfterFuture(s) == IF Canceled(s) THEN "input" ELSE "value"
CheckCanceled(s) ==
  /\ substep[s] = "running" /\ s \in resolved /\ Turn(s)
  /\ GotoSub(s, AfterFuture(s))
  /\ UNCHANGED <<native, action, resolved, sub, multiVersion>>

SetSubValue(s) ==
  /\ substep[s] = "value" /\ Turn(s)
  /\ sub' = [sub EXCEPT ![s].value = s]
  /\ GotoSub(s, "input")
  /\ UNCHANGED <<native, action, resolved, multiVersion>>

ClearSubInput(s) ==
  /\ substep[s] = "input" /\ Turn(s)
  /\ sub' = [sub EXCEPT ![s].input = Nothing]
  /\ GotoSub(s, "pending")
  /\ UNCHANGED <<native, action, resolved, multiVersion>>

EndPending(s) ==
  /\ substep[s] = "pending" /\ Turn(s)
  /\ sub' = [sub EXCEPT ![s].pending = FALSE]
  /\ GotoSub(s, "count")
  /\ UNCHANGED <<native, action, resolved, multiVersion>>

Count(s) ==
  /\ substep[s] = "count" /\ Turn(s)
  /\ multiVersion' = Wrap(multiVersion)
  /\ GotoSub(s, "done")
  /\ UNCHANGED <<native, action, resolved, sub>>

-----------------------------------------------------------------------------

\* A future becomes ready; some never do.
Resolve(d) ==
  /\ d \notin resolved /\ Turn(Nothing)
  /\ IF d \in Dispatches THEN step[d] = "running" ELSE substep[d] = "running"
  /\ resolved' = resolved \cup {d}
  /\ UNCHANGED <<native, action, multi>>

TaskStep(d) ==
  \/ Spawn(d) \/ TakeAbort(d) \/ TakeResult(d) \/ Compare(d) \/ BumpVersion(d)
  \/ Store(d) \/ Check(d) \/ ClearInput(d)

SubTaskStep(s) ==
  CheckCanceled(s) \/ SetSubValue(s) \/ ClearSubInput(s) \/ EndPending(s) \/ Count(s)

\* All futures may stay pending, and everything may be over.
Finished ==
  /\ \A d \in Dispatches : Resting(step[d])
  /\ \A s \in Submissions : Resting(substep[s])
  /\ UNCHANGED vars

Next ==
  \/ \E d \in Dispatches : Dispatch(d) \/ Abort(d) \/ TaskStep(d) \/ Resolve(d)
  \/ \E s \in Submissions : Submit(s) \/ SubmitSync(s) \/ Cancel(s) \/ SubTaskStep(s) \/ Resolve(s)
  \/ Clear
  \/ Finished

Spec == Init /\ [][Next]_vars

\* A caller ends its call and the executor polls a task that has been woken;
\* no future has to become ready.
FairSpec ==
  /\ Spec
  /\ \A d \in Dispatches : WF_vars(TaskStep(d))
  /\ \A s \in Submissions : WF_vars(SubTaskStep(s))

-----------------------------------------------------------------------------
(* Properties *)

\* The types of the variables; the versions wrap at their limit and the counter
\* of what is in flight saturates at its own.
TypeOK ==
  /\ native \in BOOLEAN
  /\ inFlight \in 0 .. MaxFlight
  /\ version \in 0 .. MaxVersion /\ multiVersion \in 0 .. MaxVersion /\ dispatched = 0
  /\ input \in Dispatches \cup {Nothing} /\ value \in Dispatches \cup {Nothing}
  /\ step \in [Dispatches -> {"new", "entered", "running", "compare", "version", "store",
                              "check", "clear", "done"}]
  /\ current \in [Dispatches -> Nat]
  /\ resolved \subseteq Dispatches \cup Submissions /\ aborted \subseteq Dispatches
  /\ sub \in [Submissions ->
                [input : Submissions \cup {Nothing}, value : Submissions \cup {Nothing},
                 pending : BOOLEAN, canceled : BOOLEAN]]
  /\ substep \in [Submissions -> {"new", "running", "value", "input", "pending", "count", "done"}]

AllRest == \A d \in Dispatches : Resting(step[d])
InFlight == {d \in Dispatches : step[d] \in {"entered", "running"}}

\* input() is Some while a dispatch is waited for (in the browser, where no
\* thread can dispatch between the check of the counter and the clearing), and
\* None when all have resolved or were aborted.
InputIsCurrent ==
  /\ ~native /\ AllRest /\ InFlight # {} => input # Nothing
  /\ AllRest /\ InFlight = {} => input = Nothing /\ inFlight = 0

\* The same without regard to threads, as ArcAction::input promises it (action.rs:464-465).
\* Natively a dispatch may come between the check of the counter and the clearing.
InputWhileWaited == AllRest /\ InFlight # {} => input # Nothing

\* What abort promises: the task completes "without updating the action's value"
\* (action.rs:256).  Not so when the future is ready too by the time the task is polled.
AbortedKeepsValue == [][\A d \in aborted : value' = d => value = d]_vars

\* A submission that is no longer pending has given its input back and shows
\* its result, or was canceled: pending is cleared last.
SettledShowsResult ==
  \A s \in Submissions :
    substep[s] # "new" /\ ~sub[s].pending =>
      sub[s].input = Nothing /\ (sub[s].value # Nothing \/ sub[s].canceled)

\* The task of an aborted dispatch ends, even if its future never does.
AbortedEnds == \A d \in Dispatches : d \in aborted ~> step[d] = "done"

=============================================================================
