--------------------------- MODULE ActionsProofs ---------------------------
(***************************************************************************)
(* What holds of Actions for every set of dispatches and submissions and   *)
(* every limit of its counters.                                            *)
(***************************************************************************)
EXTENDS Actions, FiniteSetTheorems, TLAPS

\* What a step of the multi-action leaves alone, and what a step of the action does.
ActionStep(d) == Dispatch(d) \/ Abort(d) \/ TaskStep(d)
MultiStep(s) == Submit(s) \/ SubmitSync(s) \/ Cancel(s) \/ SubTaskStep(s)

-----------------------------------------------------------------------------
(* Type correctness *)

\* Every step keeps the types of the action's variables.
LEMMA ActionType ==
  ASSUME TypeOK, NEW d \in Dispatches, ActionStep(d)
  PROVE  TypeOK'
<1> USE ActionsAssumption DEF TypeOK, Goto, multi
<1>1. CASE Dispatch(d)
  BY <1>1 DEF Dispatch, Increment
<1>2. CASE Abort(d)
  BY <1>2 DEF Abort
<1>3. CASE Spawn(d)
  BY <1>3 DEF Spawn
<1>4. CASE TakeAbort(d)
  BY <1>4 DEF TakeAbort, Decrement
<1>5. CASE TakeResult(d)
  BY <1>5 DEF TakeResult, Decrement
<1>6. CASE Compare(d)
  BY <1>6 DEF Compare
<1>7. CASE BumpVersion(d)
  <2>1. version' \in 0 .. MaxVersion
    BY <1>7 DEF BumpVersion, Wrap
  <2> QED BY <1>7, <2>1 DEF BumpVersion
<1>8. CASE Store(d)
  BY <1>8 DEF Store
<1>9. CASE Check(d)
  BY <1>9 DEF Check
<1>10. CASE ClearInput(d)
  BY <1>10 DEF ClearInput
<1> QED BY <1>1, <1>2, <1>3, <1>4, <1>5, <1>6, <1>7, <1>8, <1>9, <1>10 DEF ActionStep, TaskStep

\* The fields of a submission are set one by one.
SubRecords == [input : Submissions \cup {Nothing}, value : Submissions \cup {Nothing},
               pending : BOOLEAN, canceled : BOOLEAN]
LEMMA FieldTypes ==
  ASSUME NEW r \in SubRecords, NEW b \in BOOLEAN, NEW s \in Submissions
  PROVE  /\ [r EXCEPT !.pending = b] \in SubRecords
         /\ [r EXCEPT !.canceled = b] \in SubRecords
         /\ [r EXCEPT !.input = s, !.pending = b] \in SubRecords
BY Zenon DEF SubRecords

\* So does every step of the multi-action.
LEMMA MultiType ==
  ASSUME TypeOK, NEW s \in Submissions, MultiStep(s)
  PROVE  TypeOK'
<1> USE ActionsAssumption DEF TypeOK, GotoSub, action
<1>0. sub \in [Submissions -> SubRecords]
  BY DEF SubRecords
<1>1. CASE Submit(s)
  <2>1. [sub[s] EXCEPT !.input = s, !.pending = TRUE] \in SubRecords
    BY <1>0, FieldTypes
  <2>2. sub' = [sub EXCEPT ![s] = [sub[s] EXCEPT !.input = s, !.pending = TRUE]]
    BY <1>1 DEF Submit
  <2>3. sub' \in [Submissions -> SubRecords]
    BY <1>0, <2>1, <2>2
  <2> QED BY <1>1, <2>3 DEF Submit, SubRecords
<1>2. CASE SubmitSync(s)
  BY <1>2 DEF SubmitSync
<1>3. CASE Cancel(s)
  <2>1. [sub[s] EXCEPT !.canceled = TRUE] \in SubRecords
    BY <1>0, FieldTypes
  <2>2. sub' = [sub EXCEPT ![s] = [sub[s] EXCEPT !.canceled = TRUE]]
    BY <1>3 DEF Cancel
  <2>3. sub' \in [Submissions -> SubRecords]
    BY <1>0, <2>1, <2>2
  <2> QED BY <1>3, <2>3 DEF Cancel, SubRecords
<1>4. CASE CheckCanceled(s)
  BY <1>4 DEF CheckCanceled, AfterFuture
<1>5. CASE SetSubValue(s)
  BY <1>5 DEF SetSubValue
<1>6. CASE ClearSubInput(s)
  BY <1>6 DEF ClearSubInput
<1>7. CASE EndPending(s)
  <2>1. [sub[s] EXCEPT !.pending = FALSE] \in SubRecords
    BY <1>0, FieldTypes
  <2>2. sub' = [sub EXCEPT ![s] = [sub[s] EXCEPT !.pending = FALSE]]
    BY <1>7 DEF EndPending
  <2>3. sub' \in [Submissions -> SubRecords]
    BY <1>0, <2>1, <2>2
  <2> QED BY <1>7, <2>3 DEF EndPending, SubRecords
<1>8. CASE Count(s)
  <2>1. multiVersion' \in 0 .. MaxVersion
    BY <1>8 DEF Count, Wrap
  <2> QED BY <1>8, <2>1 DEF Count
<1> QED BY <1>1, <1>2, <1>3, <1>4, <1>5, <1>6, <1>7, <1>8 DEF MultiStep, SubTaskStep

\* And what neither of them does: a future becomes ready, the value is cleared.
LEMMA TypeStep ==
  ASSUME TypeOK, [Next]_vars
  PROVE  TypeOK'
<1>1. ASSUME NEW d \in Dispatches \cup Submissions, Resolve(d) PROVE TypeOK'
  BY <1>1 DEF Resolve, TypeOK, action, multi
<1>2. CASE Clear
  BY <1>2 DEF Clear, TypeOK, multi
<1>3. CASE UNCHANGED vars
  BY <1>3 DEF vars, action, multi, TypeOK
<1> QED BY <1>1, <1>2, <1>3, ActionType, MultiType DEF Next, ActionStep, MultiStep, Finished

\* Types are kept: in particular the counter of what is in flight saturates at its limit, and
\* the versions wrap at theirs (action.rs, saturating_add and wrapping_add).
THEOREM ActionsTypeCorrect == Spec => []TypeOK
<1>1. Init => TypeOK
  BY ActionsAssumption DEF Init, TypeOK
<1> QED BY <1>1, TypeStep, PTL DEF Spec

-----------------------------------------------------------------------------
(* Submissions: pending is cleared last *)

\* Where a submission is tells which of its fields are set.
Answered(s) == sub[s].value # Nothing \/ sub[s].canceled
SubmissionAt(s) ==
  /\ substep[s] = "new" => sub[s].input = Nothing /\ ~sub[s].pending
  /\ substep[s] \in {"running", "value", "input", "pending"} => sub[s].pending
  /\ substep[s] \in {"pending", "count", "done"} => sub[s].input = Nothing
  /\ substep[s] \in {"input", "pending", "count", "done"} => Answered(s)
SubmissionInv == \A s \in Submissions : SubmissionAt(s)

\* A step of one submission leaves the others alone.
LEMMA OthersKeep ==
  ASSUME SubmissionInv, NEW s \in Submissions,
         \A u \in Submissions \ {s} : sub'[u] = sub[u] /\ substep'[u] = substep[u],
         SubmissionAt(s)'
  PROVE  SubmissionInv'
BY DEF SubmissionInv, SubmissionAt, Answered

\* Every step of a submission takes it from one line of SubmissionAt to another.
LEMMA SubmissionStep ==
  ASSUME TypeOK, SubmissionInv, NEW s \in Submissions, MultiStep(s)
  PROVE  SubmissionInv'
<1> USE ActionsAssumption DEF GotoSub, SubmissionAt, Answered
<1>0. /\ sub \in [Submissions -> SubRecords]
      /\ DOMAIN substep = Submissions
  BY DEF TypeOK, SubRecords
<1>1. SubmissionAt(s)
  BY DEF SubmissionInv
<1>2. \A u \in Submissions \ {s} : sub'[u] = sub[u] /\ substep'[u] = substep[u]
  BY <1>0 DEF MultiStep, SubTaskStep, Submit, SubmitSync, Cancel, CheckCanceled, SetSubValue,
              ClearSubInput, EndPending, Count
<1>3. SubmissionAt(s)'
  <2>1. CASE Submit(s)
    BY <1>0, <2>1 DEF Submit, SubRecords
  <2>2. CASE SubmitSync(s)
    BY <1>0, <1>1, <2>2 DEF SubmitSync, SubRecords
  <2>3. CASE Cancel(s)
    <3>1. /\ sub'[s].input = sub[s].input /\ sub'[s].value = sub[s].value
          /\ sub'[s].pending = sub[s].pending /\ sub'[s].canceled
          /\ substep' = substep
      BY <1>0, <2>3 DEF Cancel, SubRecords
    <3> QED BY <1>1, <3>1
  <2>4. CASE CheckCanceled(s)
    BY <1>0, <1>1, <2>4 DEF CheckCanceled, AfterFuture, Canceled
  <2>5. CASE SetSubValue(s)
    BY <1>0, <1>1, <2>5 DEF SetSubValue, SubRecords
  <2>6. CASE ClearSubInput(s)
    BY <1>0, <1>1, <2>6 DEF ClearSubInput, SubRecords
  <2>7. CASE EndPending(s)
    BY <1>0, <1>1, <2>7 DEF EndPending, SubRecords
  <2>8. CASE Count(s)
    BY <1>0, <1>1, <2>8 DEF Count
  <2> QED BY <2>1, <2>2, <2>3, <2>4, <2>5, <2>6, <2>7, <2>8 DEF MultiStep, SubTaskStep
<1> QED BY <1>2, <1>3, OthersKeep

\* A submission that is no longer pending has given its input back and shows its result, or
\* was canceled, whichever way its caller and its task interleave with a cancellation
\* (multi_action.rs, dispatch: pending is set last).
THEOREM SubmissionsSettle == Spec => []SettledShowsResult
<1>1. Init => SubmissionInv
  BY DEF Init, SubmissionInv, SubmissionAt
<1>2. TypeOK /\ SubmissionInv /\ [Next]_vars => SubmissionInv'
  <2> SUFFICES ASSUME TypeOK, SubmissionInv, [Next]_vars PROVE SubmissionInv'
    OBVIOUS
  <2>1. CASE UNCHANGED multi
    BY <2>1 DEF multi, SubmissionInv, SubmissionAt, Answered
  <2>2. UNCHANGED multi \/ \E s \in Submissions : MultiStep(s)
    BY DEF Next, vars, TaskStep, Dispatch, Abort, Spawn, TakeAbort, TakeResult, Compare, BumpVersion,
           Store, Check, ClearInput, Clear, Resolve, Finished, MultiStep
  <2> QED BY <2>1, <2>2, SubmissionStep
<1>3. TypeOK /\ SubmissionInv => SettledShowsResult
  <2> SUFFICES ASSUME TypeOK, SubmissionInv, NEW s \in Submissions,
                      substep[s] # "new", ~sub[s].pending
               PROVE  sub[s].input = Nothing /\ Answered(s)
    BY DEF SettledShowsResult, Answered
  <2>1. /\ SubmissionAt(s)
        /\ substep[s] \in {"new", "running", "value", "input", "pending", "count", "done"}
    BY DEF SubmissionInv, TypeOK
  <2> QED BY <2>1 DEF SubmissionAt
<1> QED BY <1>1, <1>2, <1>3, ActionsTypeCorrect, PTL DEF Spec

-----------------------------------------------------------------------------
(* Dispatches: the counter and the input *)

\* The counter counts what is in flight, and never saturates.
CountInv == IsFiniteSet(InFlight) /\ inFlight = Cardinality(InFlight)

\* An input that is set has someone who will clear it, or see someone who will.
Busy(d) == step[d] \notin {"new", "done"}
ClearedLater == input # Nothing => \E d \in Dispatches : Busy(d)

\* In the browser nothing happens between the check of the counter and the clearing.
ClearsWhenEmpty == \A d \in Dispatches : ~native /\ step[d] = "clear" => InFlight = {}
WaitedHasInput == \A d \in Dispatches : ~native /\ step[d] = "running" => input # Nothing

InputInv == CountInv /\ ClearedLater /\ ClearsWhenEmpty /\ WaitedHasInput

\* A dispatch that enters is counted, and one that leaves is not counted any more.
LEMMA CountStep ==
  ASSUME TypeOK, CountInv, NEW d \in Dispatches, ActionStep(d)
  PROVE  CountInv'
<1> USE DEF Goto
<1>0. IsFiniteSet(InFlight) /\ Cardinality(InFlight) \in Nat
  BY FS_CardinalityType DEF CountInv
<1>1. CASE Dispatch(d)
  <2>1. InFlight' = InFlight \cup {d} /\ d \notin InFlight
    BY <1>1 DEF Dispatch, InFlight, TypeOK
  <2>2. IsFiniteSet(InFlight') /\ Cardinality(InFlight') = Cardinality(InFlight) + 1
    BY <1>0, <2>1, FS_AddElement
  <2>3. Cardinality(InFlight') <= MaxFlight
    <3>1. InFlight' \in SUBSET Dispatches
      BY <2>1 DEF InFlight
    <3>2. Cardinality(InFlight') <= Cardinality(Dispatches)
      BY <3>1, FlightAssumption, FS_Subset
    <3>3. Cardinality(Dispatches) \in Nat
      BY FlightAssumption, FS_CardinalityType
    <3> QED BY <1>0, <2>2, <3>2, <3>3, FlightAssumption, ActionsAssumption
  <2>4. inFlight' = inFlight + 1
    BY <1>0, <1>1, <2>2, <2>3, ActionsAssumption DEF Dispatch, Increment, CountInv
  <2> QED BY <2>2, <2>4 DEF CountInv
<1>2. CASE TakeAbort(d) \/ TakeResult(d)
  <2>1. InFlight' = InFlight \ {d} /\ d \in InFlight
    BY <1>2 DEF TakeAbort, TakeResult, InFlight, TypeOK
  <2>2. IsFiniteSet(InFlight') /\ Cardinality(InFlight') = Cardinality(InFlight) - 1
    BY <1>0, <2>1, FS_RemoveElement
  <2>3. Cardinality(InFlight) # 0
    BY <1>0, <2>1, FS_EmptySet
  <2>4. inFlight' = inFlight - 1
    BY <1>0, <1>2, <2>3 DEF TakeAbort, TakeResult, Decrement, CountInv
  <2> QED BY <2>2, <2>4 DEF CountInv
<1>3. CASE ~(Dispatch(d) \/ TakeAbort(d) \/ TakeResult(d))
  <2>1. InFlight' = InFlight /\ inFlight' = inFlight
    BY <1>3 DEF ActionStep, TaskStep, Abort, Spawn, Compare, BumpVersion, Store, Check, ClearInput,
                InFlight, TypeOK
  <2> QED BY <2>1 DEF CountInv
<1> QED BY <1>1, <1>2, <1>3

\* The step that leaves last finds the counter at zero.
LEMMA InputStep ==
  ASSUME TypeOK, InputInv, NEW d \in Dispatches, ActionStep(d)
  PROVE  InputInv'
<1> USE DEF Goto
<1>0. CountInv'
  BY CountStep DEF InputInv
<1>1. inFlight = 0 <=> InFlight = {}
  BY FS_EmptySet DEF InputInv, CountInv
<1>2. step \in [Dispatches -> {"new", "entered", "running", "compare", "version", "store",
                                "check", "clear", "done"}]
  BY DEF TypeOK
<1>3. ClearedLater'
  <2>1. CASE Check(d)
    <3>1. CASE inFlight = 0
      BY <1>2, <2>1, <3>1 DEF Check, NoneLeft, ClearedLater, Busy
    <3>2. CASE inFlight # 0
      <4>1. PICK e \in InFlight : TRUE
        BY <1>1, <3>2
      <4>2. e \in Dispatches /\ e # d /\ Busy(e)'
        BY <1>2, <2>1, <4>1 DEF Check, InFlight, Busy
      <4> QED BY <4>2 DEF ClearedLater
    <3> QED BY <3>1, <3>2
  <2>2. CASE ClearInput(d)
    BY <2>2 DEF ClearInput, ClearedLater
  <2>3. CASE ~Check(d) /\ ~ClearInput(d)
    <3>1. Busy(d)' \/ UNCHANGED <<input, step>>
      BY <1>2, <2>3 DEF ActionStep, TaskStep, Dispatch, Abort, Spawn, TakeAbort, TakeResult, Compare,
                        BumpVersion, Store, Busy
    <3> QED BY <3>1 DEF InputInv, ClearedLater, Busy
  <2> QED BY <2>1, <2>2, <2>3
<1>4. ClearsWhenEmpty' /\ WaitedHasInput'
  <2>1. CASE native = TRUE
    <3>1. native' = TRUE
      BY <2>1 DEF ActionStep, TaskStep, Dispatch, Abort, Spawn, TakeAbort, TakeResult, Compare,
                  BumpVersion, Store, Check, ClearInput
    <3> QED BY <3>1 DEF ClearsWhenEmpty, WaitedHasInput
  <2>2. CASE native = FALSE /\ Abort(d)
    BY <2>2 DEF Abort, InputInv, ClearsWhenEmpty, WaitedHasInput, InFlight
  <2>3. CASE native = FALSE /\ (TaskStep(d) \/ Dispatch(d))
    <3>1. \A e \in Dispatches \ {d} : Resting(step[e]) /\ step'[e] = step[e]
      BY <1>2, <2>3 DEF TaskStep, Dispatch, Spawn, TakeAbort, TakeResult, Compare,
                        BumpVersion, Store, Check, ClearInput, Turn
    <3>2. \A e \in Dispatches \ {d} : step'[e] # "clear"
      BY <3>1 DEF Resting
    <3>3. CASE Check(d) /\ inFlight = 0
      <4>1. InFlight' = {}
        BY <1>1, <1>2, <3>3 DEF Check, InFlight
      <4>2. \A e \in Dispatches : step'[e] # "running"
        BY <4>1 DEF InFlight
      <4> QED BY <4>1, <4>2 DEF ClearsWhenEmpty, WaitedHasInput
    <3>4. CASE ~(Check(d) /\ inFlight = 0)
      <4>1. step'[d] # "clear"
        BY <1>2, <2>3, <3>4 DEF TaskStep, Dispatch, Spawn, TakeAbort, TakeResult, Compare,
                        BumpVersion, Store, Check, ClearInput, NoneLeft
      <4>2. WaitedHasInput'
        <5>1. CASE ClearInput(d)
          <6>1. InFlight = {}
            BY <2>3, <5>1 DEF ClearInput, InputInv, ClearsWhenEmpty
          <6>2. \A e \in Dispatches : step'[e] # "running"
            BY <1>2, <5>1, <6>1 DEF ClearInput, InFlight
          <6> QED BY <6>2 DEF WaitedHasInput
        <5>2. CASE Spawn(d)
          BY <5>2, ActionsAssumption DEF Spawn, WaitedHasInput
        <5>3. CASE ~ClearInput(d) /\ ~Spawn(d)
          <6>1. input' = input /\ step'[d] # "running" /\ native' = native
            BY <1>2, <2>3, <5>3 DEF TaskStep, Dispatch, TakeAbort, TakeResult, Compare,
                            BumpVersion, Store, Check
          <6>2. \A e \in Dispatches : step'[e] = "running" => step[e] = "running"
            BY <3>1, <6>1
          <6> QED BY <6>1, <6>2 DEF WaitedHasInput, InputInv
        <5> QED BY <5>1, <5>2, <5>3
      <4> QED BY <3>2, <4>1, <4>2 DEF ClearsWhenEmpty
    <3> QED BY <3>3, <3>4
  <2>4. native = TRUE \/ native = FALSE
    BY DEF TypeOK
  <2> QED BY <2>1, <2>2, <2>3, <2>4 DEF ActionStep
<1> QED BY <1>0, <1>3, <1>4 DEF InputInv

\* input() is Some while a dispatch is waited for in the browser, and None when all have
\* resolved or were aborted, whatever order they do so in (action.rs, dispatch).
THEOREM InputCurrent == Spec => []InputIsCurrent
<1>1. Init => InputInv
  <2> SUFFICES ASSUME Init PROVE InputInv
    OBVIOUS
  <2>1. InFlight = {}
    BY DEF Init, InFlight
  <2> QED BY <2>1, FS_EmptySet DEF Init, InputInv, CountInv, ClearedLater, ClearsWhenEmpty,
                                       WaitedHasInput
<1>2. TypeOK /\ InputInv /\ [Next]_vars => InputInv'
  <2> SUFFICES ASSUME TypeOK, InputInv, [Next]_vars PROVE InputInv'
    OBVIOUS
  <2>1. CASE UNCHANGED <<native, inFlight, input, step>>
    <3>1. InFlight' = InFlight
      BY <2>1 DEF InFlight
    <3> QED BY <2>1, <3>1 DEF InputInv, CountInv, ClearedLater, Busy, ClearsWhenEmpty, WaitedHasInput
  <2>2. UNCHANGED <<native, inFlight, input, step>> \/ \E d \in Dispatches : ActionStep(d)
    BY DEF Next, vars, action, Submit, SubmitSync, Cancel, SubTaskStep, CheckCanceled, SetSubValue,
           ClearSubInput, EndPending, Count, Resolve, Clear, Finished, ActionStep
  <2> QED BY <2>1, <2>2, InputStep
<1>3. TypeOK /\ InputInv => InputIsCurrent
  <2> SUFFICES ASSUME TypeOK, InputInv, AllRest
               PROVE  /\ ~native /\ InFlight # {} => input # Nothing
                      /\ InFlight = {} => input = Nothing /\ inFlight = 0
    BY DEF InputIsCurrent
  <2>1. ~native /\ InFlight # {} => input # Nothing
    BY DEF AllRest, Resting, InFlight, InputInv, WaitedHasInput
  <2>2. InFlight = {} => inFlight = 0
    BY FS_EmptySet DEF InputInv, CountInv
  <2>3. InFlight = {} => input = Nothing
    BY DEF AllRest, Resting, InFlight, InputInv, ClearedLater, Busy
  <2> QED BY <2>1, <2>2, <2>3
<1> QED BY <1>1, <1>2, <1>3, ActionsTypeCorrect, PTL DEF Spec
=============================================================================
