-------------------------- MODULE AsyncTransition --------------------------
(***************************************************************************)
(* transition.rs: AsyncTransition::run replaces the global slot by its own *)
(* channel while its action runs, puts back what it found there, and waits *)
(* for the loads that registered with it.  A load is its oneshot channel:  *)
(* it registers when it starts, and is settled when its sender has sent or *)
(* is dropped.  The slot is one for the whole program.                     *)
(***************************************************************************)
EXTENDS Naturals, FiniteSets

CONSTANTS
  Transitions,   \* calls of AsyncTransition::run
  NoTransition   \* the empty slot

ASSUME TransitionAssumption == NoTransition \notin Transitions

VARIABLES
  slot,       \* TRANSITION
  tstep,      \* transition -> where its run is
  prev,       \* transition -> what it found in the slot
  inbox,      \* transition -> the loads sent to its channel
  awaited,    \* transition -> the loads its join_all waits for
  settled,    \* loads whose sender has sent or is gone
  during,     \* transition -> the loads started while its action ran (history)
  overlapped  \* transitions during whose action another one began or ended (history)

transitionVars == <<slot, tstep, prev, inbox, awaited, settled, during, overlapped>>

Acting == {x \in Transitions : tstep[x] = "acting"}

TransitionInit ==
  /\ slot = NoTransition
  /\ tstep = [x \in Transitions |-> "before"]
  /\ prev = [x \in Transitions |-> NoTransition]
  /\ inbox = [x \in Transitions |-> {}]
  /\ awaited = [x \in Transitions |-> {}]
  /\ settled = {}
  /\ during = [x \in Transitions |-> {}]
  /\ overlapped = {}

\* The slot is replaced and the action starts.
Begin(x) ==
  /\ tstep[x] = "before"
  /\ tstep' = [tstep EXCEPT ![x] = "acting"]
  /\ prev' = [prev EXCEPT ![x] = slot]
  /\ slot' = x
  /\ overlapped' = overlapped \cup Acting \cup (IF Acting = {} THEN {} ELSE {x})
  /\ UNCHANGED <<inbox, awaited, settled, during>>

\* The action is over: the slot gets back what was found there, and what is in
\* the channel is received.
End(x) ==
  /\ tstep[x] = "acting"
  /\ tstep' = [tstep EXCEPT ![x] = "joining"]
  /\ slot' = prev[x]
  /\ prev' = [prev EXCEPT ![x] = NoTransition]
  /\ awaited' = [awaited EXCEPT ![x] = inbox[x]]
  /\ inbox' = [inbox EXCEPT ![x] = {}]
  /\ overlapped' = overlapped \cup (Acting \ {x})
  /\ UNCHANGED <<settled, during>>

\* join_all: every one has sent or was canceled.
JoinedByOne(x) == awaited[x] # {} => awaited[x] \cap settled # {}
Joined(x) == awaited[x] \subseteq settled
Join(x) ==
  /\ tstep[x] = "joining" /\ Joined(x)
  /\ tstep' = [tstep EXCEPT ![x] = "done"]
  /\ awaited' = [awaited EXCEPT ![x] = {}]
  /\ UNCHANGED <<slot, prev, inbox, settled, during, overlapped>>

\* Load l starts and sends its receiver to the slot's channel, if told to.
Register(l, registers) ==
  /\ inbox' = IF registers /\ slot # NoTransition
              THEN [inbox EXCEPT ![slot] = @ \cup {l}] ELSE inbox
  /\ during' = IF registers
               THEN [x \in Transitions |->
                       IF x \in Acting THEN during[x] \cup {l} ELSE during[x]]
               ELSE during
  /\ UNCHANGED <<slot, tstep, prev, awaited, settled, overlapped>>

\* The sender of l sends or is dropped.
Settle(l) ==
  /\ settled' = settled \cup {l}
  /\ UNCHANGED <<slot, tstep, prev, inbox, awaited, during, overlapped>>

TransitionStep == \E x \in Transitions : Begin(x) \/ End(x) \/ Join(x)

\* The types of the variables.
TransitionTypeOK ==
  /\ slot \in Transitions \cup {NoTransition}
  /\ tstep \in [Transitions -> {"before", "acting", "joining", "done"}]
  /\ prev \in [Transitions -> Transitions \cup {NoTransition}]
  /\ overlapped \subseteq Transitions

=============================================================================
