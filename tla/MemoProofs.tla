----------------------------- MODULE MemoProofs -----------------------------
(***************************************************************************)
(* On one thread whose user code keeps no guards, a memo that is Clean has *)
(* the value that its function would give now: what it has read, whom it   *)
(* tells, and what each call on the stack knows of what it has read.       *)
(***************************************************************************)
EXTENDS GraphProofs

-----------------------------------------------------------------------------
(* What holds of memos on one thread *)

\* What n's function reads first.
ReadSet(n, k) == {Reads[n][j] : j \in 1..k}

\* t computes m: it has cleared its sources and has not stored the result.
Computing(f, m) == f.op = "update" /\ f.node = m /\ f.pc \in {"commit", "value"}
Computes(t, m) == \E i \in 1..Len(stack[t]) : Computing(stack[t][i], m)

\* What an update knows of the sources it has checked, and a function of what it has read.
Checked(m, rest) == \A x \in ToSet(sources[m]) \cap Memos : x \in rest \/ state[x] = "Clean"
Current(m, vals) ==
  /\ Len(vals) <= Len(Reads[m])
  /\ \A j \in 1..Len(vals) : /\ vals[j] = value[Reads[m][j]]
                             /\ Reads[m][j] \in Memos => state[Reads[m][j]] = "Clean"

\* The call f waits for another, about the node n.
WaitFine(f, n) ==
  /\ f.op = "update" =>
       /\ f.pc \in {"own", "commit"} => state[f.node] # "Clean"
       /\ f.pc = "own" => Checked(f.node, ToSet(f.todo) \cup {n})
       /\ f.pc = "changed" => state[f.node] = "Clean"
  /\ f.op = "run" /\ f.node \in Memos =>
       /\ Current(f.node, f.vals)
       /\ ToSet(sources[f.node]) = ReadSet(f.node, Len(f.vals) + 1)

\* The call f is the running one.
UpdateFine(f) ==
  LET m == f.node IN
  /\ f.pc = "sources" => state[m] = "Check" /\ Checked(m, ToSet(f.todo))
  /\ f.pc = "own" => state[m] # "Clean" /\ Checked(m, ToSet(f.todo))
  /\ f.pc = "clean" => state[m] = "Clean" \/ (state[m] = "Check" /\ Checked(m, {}))
  /\ f.pc \in {"begin", "clear", "commit", "value"} => state[m] # "Clean"
  /\ f.pc = "changed" => state[m] = "Clean"
  /\ f.pc \in {"commit", "value"} =>
       /\ Current(m, f.vals) /\ f.ret = (Compute(m, f.vals) # value[m])
       /\ ToSet(sources[m]) = ReadSet(m, Len(f.vals))
       /\ Len(f.vals) = ReadCount(m, f.vals)
RunFine(f) ==
  /\ Current(f.node, f.vals)
  /\ ToSet(sources[f.node]) =
       ReadSet(f.node, IF f.pc = "next" THEN Len(f.vals) ELSE Len(f.vals) + 1)
  /\ f.pc = "read" /\ NextRead(f) \in Memos => state[NextRead(f)] = "Clean"
TopFine(f) ==
  /\ f.op = "update" => UpdateFine(f)
  /\ f.op = "run" /\ f.node \in Memos => RunFine(f)

FrameInv(t) ==
  /\ \A i \in 1..Len(stack[t]) : i < Len(stack[t]) => WaitFine(stack[t][i], stack[t][i + 1].node)
  /\ ~Idle(t) => TopFine(Top(t))

\* The sources of a memo are what it has read in its last computation.
SourceInv(t) == \A m \in Memos : ~Computes(t, m) => ToSet(sources[m]) = ReadSet(m, Len(seen[m]))

\* Sources and subscribers are the same relation, but for a subscription under way.
Tracking(t, m, x) == At(t, "run", "track") /\ Top(t).node = m /\ NextRead(Top(t)) = x
Distinct(q) == \A i, j \in 1..Len(q) : q[i] = q[j] => i = j
LinkInv(t) ==
  /\ \A x \in Sources : Distinct(subs[x])
  /\ \A x \in Sources, m \in Memos : m \in ToSet(subs[x]) => x \in ToSet(sources[m])
  /\ \A x \in Sources, m \in Memos :
       x \in ToSet(sources[m]) => m \in ToSet(subs[x]) \/ Tracking(t, m, x)

\* A memo's value is what its function gave for what it read.
SeenInv ==
  \A m \in Memos :
    /\ Len(seen[m]) <= Len(Reads[m])
    /\ value[m] # NoValue => Len(seen[m]) = ReadCount(m, seen[m]) /\ value[m] = Compute(m, seen[m])

\* m is about to be marked; x has changed and is about to mark m dirty.
ToBeMarked(t, m) == At(t, "mark", "mark") /\ \E p \in ToSet(Top(t).todo) : p[1] = m
Reported(t, m, x) ==
  \/ At(t, "mark", "clone") /\ Top(t).node = x
  \/ At(t, "mark", "mark") /\ <<m, "dirty">> \in ToSet(Top(t).todo)

\* A memo that is clean has clean sources; one that is not dirty has read the values that
\* its sources have; or else it is about to be told.
CleanInv(t) ==
  \A x \in Memos, m \in Memos :
    m \in ToSet(subs[x]) /\ state[m] = "Clean" => state[x] = "Clean" \/ ToBeMarked(t, m)
FreshInv(t) ==
  \A m \in Memos : ~Computes(t, m) /\ state[m] # "Dirty" =>
    \A j \in 1..Len(seen[m]) :
      seen[m][j] = value[Reads[m][j]] \/ Reported(t, m, Reads[m][j])

\* A memo that has changed marks only memos that are not clean.
MarkInv(t) ==
  At(t, "mark", "mark") /\ Top(t).node \in Memos =>
    \A p \in ToSet(Top(t).todo) : p[1] \in Memos => state[p[1]] # "Clean"

TellInv(t) == CleanInv(t) /\ FreshInv(t) /\ MarkInv(t)
MemoInv(t) ==
  guards[t] = {} /\ FrameInv(t) /\ SourceInv(t) /\ LinkInv(t) /\ SeenInv /\ TellInv(t)
-----------------------------------------------------------------------------
(* What a step leaves of what the calls know *)

LEMMA CurrentKept ==
  ASSUME NEW m \in Subscribers, NEW vals \in Seq(Nat), Current(m, vals),
         \A x \in Memos : state[x] = "Clean" => state'[x] = "Clean",
         \A x \in Sources : value'[x] = value[x] \/ (x \in Memos /\ state[x] # "Clean")
  PROVE  Current(m, vals)'
<1>1. \A j \in 1..Len(vals) : Reads[m][j] \in Sources
  BY ReadsFacts DEF Current
<1> QED BY <1>1 DEF Current

LEMMA CheckedKept ==
  ASSUME NEW m \in Memos, NEW rest, Checked(m, rest), sources'[m] = sources[m],
         \A x \in Memos : state[x] = "Clean" => state'[x] = "Clean"
  PROVE  Checked(m, rest)'
BY DEF Checked

LEMMA WaitKept ==
  ASSUME NEW f \in Frames, NEW n, WaitFine(f, n), f.op = "update" => f.node \in Memos,
         f.op = "run" => f.node \in Subscribers,
         (f.op \in {"update", "run"} /\ f.node \in Memos) =>
            \/ sources'[f.node] = sources[f.node]
            \/ f.op = "update" /\ f.pc = "commit",
         (f.op = "update" /\ state[f.node] # "Clean") => state'[f.node] # "Clean",
         \A x \in Memos : state[x] = "Clean" => state'[x] = "Clean",
         \A x \in Sources : value'[x] = value[x] \/ (x \in Memos /\ state[x] # "Clean")
  PROVE  WaitFine(f, n)'
<1>1. ASSUME f.op = "update", f.pc = "own"
      PROVE  Checked(f.node, ToSet(f.todo) \cup {n})'
  <2>1. Checked(f.node, ToSet(f.todo) \cup {n}) /\ sources'[f.node] = sources[f.node]
    BY <1>1 DEF WaitFine
  <2> DEFINE rest == ToSet(f.todo) \cup {n}
  <2>2. Checked(f.node, rest) BY <2>1
  <2> HIDE DEF rest
  <2>3. \A m \in {f.node} : Checked(m, rest)' BY <1>1, <2>1, <2>2, CheckedKept
  <2> QED BY <2>3 DEF rest, Checked
<1>2. ASSUME f.op = "run", f.node \in Memos
      PROVE  /\ Current(f.node, f.vals)'
             /\ ToSet(sources'[f.node]) = ReadSet(f.node, Len(f.vals) + 1)
  <2>1. Current(f.node, f.vals) /\ ToSet(sources[f.node]) = ReadSet(f.node, Len(f.vals) + 1)
    BY <1>2 DEF WaitFine
  <2>2. f.vals \in Seq(Nat) BY DEF Frames
  <2>3. Current(f.node, f.vals)' BY <1>2, <2>1, <2>2, CurrentKept DEF Current
  <2> QED BY <1>2, <2>1, <2>3
<1> QED BY <1>1, <1>2 DEF WaitFine, ReadSet

\* The memos of the calls below are other memos.
LEMMA LowerNode ==
  ASSUME StackInv, NEW t \in Threads, ~Idle(t), NEW i \in 1..Depth(t), i < Depth(t),
         stack[t][i].op \in {"update", "run"}, stack[t][i].node \in Memos
  PROVE  /\ Top(t).op = "update" => stack[t][i].node # Top(t).node
         /\ Top(t).op = "run" /\ Top(t).node \in Memos =>
              \/ stack[t][i].node # Top(t).node
              \/ stack[t][i].op = "update" /\ stack[t][i].pc = "commit"
<1> DEFINE s == stack[t]
           m == s[i].node
<1>1. /\ StackOK(s) /\ Depth(t) \in Nat /\ Depth(t) > 0 /\ Top(t) = s[Depth(t)]
      /\ FrameOK(Top(t))
  BY TopFacts
<1>2. Rank[m] \in Nat BY RankFacts
<1>3. ASSUME Top(t).op = "update" PROVE m # Top(t).node
  <2>1. Above(s[i], s[Depth(t)]) BY <1>1 DEF StackOK, Depth
  <2>2. Rank[Top(t).node] < Rank[m] BY <1>1, <1>3, <2>1 DEF Above
  <2> QED BY <1>2, <2>2
<1>4. ASSUME Top(t).op = "run", Top(t).node \in Memos
      PROVE  m # Top(t).node \/ (s[i].op = "update" /\ s[i].pc = "commit")
  <2>0. Depth(t) - 1 \in 1..Depth(t) /\ Depth(t) - 1 < Depth(t) /\ Depth(t) - 1 + 1 = Depth(t)
    BY <1>1
  <2>1. Calls(s[Depth(t) - 1], s[Depth(t)])
    BY <1>1, <2>0 DEF StackOK, Depth
  <2>2. /\ s[Depth(t) - 1].op = "update" /\ s[Depth(t) - 1].pc = "commit"
        /\ s[Depth(t) - 1].node = Top(t).node
    <3>1. s[Depth(t) - 1].op = "task" => s[Depth(t) - 1].node \in Effects
      BY <1>1, <2>0 DEF StackOK, FrameOK, TaskOK, Depth
    <3>2. Top(t).node \notin Effects BY <1>4, KindsAssumption DEF Sources
    <3> QED BY <1>1, <1>4, <2>1, <3>1, <3>2 DEF Calls
  <2>3. CASE i = Depth(t) - 1 BY <2>2, <2>3
  <2>4. CASE i # Depth(t) - 1
    <3>1. i < Depth(t) - 1 BY <1>1, <2>4
    <3>2. Above(s[i], s[Depth(t) - 1]) BY <1>1, <2>0, <3>1 DEF StackOK, Depth
    <3>3. Rank[Top(t).node] < Rank[m] BY <2>2, <3>2 DEF Above
    <3> QED BY <1>2, <3>3
  <2> QED BY <2>3, <2>4
<1> QED BY <1>3, <1>4

\* The calls that wait go on knowing what they knew.
StillWaits(t) ==
  \A i \in 1..Depth(t) : i < Depth(t) =>
    \A f, n : f = stack[t][i] /\ n = stack[t][i + 1].node => WaitFine(f, n)'

LEMMA WaitsKept ==
  ASSUME GraphInv, NEW t \in Threads, ~Idle(t), FrameInv(t),
         \A n \in Memos : \/ sources'[n] = sources[n]
                          \/ n = Top(t).node /\ Top(t).op \in {"update", "run"},
         \A n \in Memos : \/ state[n] # "Clean" => state'[n] # "Clean"
                          \/ n = Top(t).node /\ Top(t).op = "update",
         \A n \in Memos : state[n] = "Clean" => state'[n] = "Clean",
         \A x \in Sources : value'[x] = value[x] \/ (x \in Memos /\ state[x] # "Clean")
  PROVE  StillWaits(t)
<1> SUFFICES ASSUME NEW i \in 1..Depth(t), i < Depth(t), NEW f, NEW n, f = stack[t][i],
                    n = stack[t][i + 1].node
             PROVE  WaitFine(f, n)'
  BY DEF StillWaits
<1>1. FrameOK(f) /\ f \in Frames BY GoodNow DEF FrameOK
<1>2. WaitFine(f, n) BY DEF FrameInv, Depth
<1>3. f.op = "update" => f.node \in Memos BY <1>1 DEF FrameOK, UpdateOK
<1>4. f.op = "run" => f.node \in Subscribers BY <1>1 DEF FrameOK, RunOK
<1>5. ASSUME f.op \in {"update", "run"}, f.node \in Memos
      PROVE  /\ \/ sources'[f.node] = sources[f.node]
                \/ f.op = "update" /\ f.pc = "commit"
             /\ (f.op = "update" /\ state[f.node] # "Clean") => state'[f.node] # "Clean"
  BY <1>5, LowerNode DEF GraphInv
<1> QED BY <1>1, <1>2, <1>3, <1>4, <1>5, WaitKept

\* A task waits without conditions.
LEMMA TaskWaits ==
  ASSUME NEW t \in Threads,
         \A i \in 1..Depth(t) : i < Depth(t) => stack[t][i].op \notin {"update", "run"}
  PROVE  StillWaits(t)
BY DEF StillWaits, WaitFine

LEMMA FrameForm ==
  ASSUME NEW t,
         \A i \in 1..Depth(t)' : i < Depth(t)' =>
           \A f, n : f = stack'[t][i] /\ n = stack'[t][i + 1].node => WaitFine(f, n)',
         ~Idle(t)' => \A f : f = Top(t)' => TopFine(f)'
  PROVE  FrameInv(t)'
<1>1. ASSUME NEW i \in 1..Depth(t)', i < Depth(t)'
      PROVE  WaitFine(stack[t][i], stack[t][i + 1].node)'
  <2>1. \A f, n : f = stack'[t][i] /\ n = stack'[t][i + 1].node => WaitFine(f, n)' BY <1>1
  <2> QED BY <2>1 DEF WaitFine, Checked, Current
<1>2. ASSUME ~Idle(t)' PROVE TopFine(Top(t))'
  <2>1. \A f : f = Top(t)' => TopFine(f)' BY <1>2
  <2> QED BY <2>1 DEF TopFine, UpdateFine, RunFine, Checked, Current, NextRead
<1> QED BY <1>1, <1>2 DEF FrameInv, Depth

LEMMA TopIs ==
  ASSUME NEW t \in Threads, NEW h, stack'[t][Depth(t)'] = h
  PROVE  Top(t)' = h
BY DEF Top, Last, Depth

LEMMA FrameReplaced ==
  ASSUME NEW t \in Threads, NEW h, Replaced(t, h), StillWaits(t), TopFine(h)',
         h.node = stack[t][Depth(t)].node
  PROVE  FrameInv(t)'
<1>1. /\ Depth(t) \in Nat /\ Depth(t) > 0 /\ Depth(t)' = Depth(t) /\ stack'[t][Depth(t)] = h
      /\ \A i \in 1..Depth(t) : i # Depth(t) => stack'[t][i] = stack[t][i]
  BY DEF Replaced
<1>2. \A f : f = Top(t)' => TopFine(f)' BY <1>1, TopIs
<1>3. ASSUME NEW i \in 1..Depth(t), i < Depth(t)
      PROVE  stack'[t][i] = stack[t][i] /\ stack'[t][i + 1].node = stack[t][i + 1].node
  BY <1>1, <1>3
<1> QED BY <1>1, <1>2, <1>3, FrameForm DEF StillWaits

LEMMA FrameCalled ==
  ASSUME NEW t \in Threads, NEW h, NEW g, Called(t, h, g), StillWaits(t),
         WaitFine(h, g.node)', TopFine(g)', h.node = stack[t][Depth(t)].node
  PROVE  FrameInv(t)'
<1>1. /\ Depth(t) \in Nat /\ Depth(t) > 0 /\ Depth(t)' = Depth(t) + 1
      /\ stack'[t][Depth(t)] = h /\ stack'[t][Depth(t) + 1] = g
      /\ \A i \in 1..Depth(t) : i # Depth(t) => stack'[t][i] = stack[t][i]
  BY DEF Called
<1>2. \A f : f = Top(t)' => TopFine(f)' BY <1>1, TopIs
<1>3. ASSUME NEW i \in 1..(Depth(t) + 1), i < Depth(t) + 1, NEW f, NEW n,
             f = stack'[t][i], n = stack'[t][i + 1].node
      PROVE  WaitFine(f, n)'
  <2>1. CASE i = Depth(t) BY <1>1, <1>3, <2>1
  <2>2. CASE i # Depth(t)
    <3>1. i \in 1..Depth(t) /\ i < Depth(t) BY <1>1, <1>3, <2>2
    <3>2. f = stack[t][i] /\ n = stack[t][i + 1].node BY <1>1, <1>3, <3>1
    <3> QED BY <3>1, <3>2 DEF StillWaits
  <2> QED BY <2>1, <2>2
<1> QED BY <1>1, <1>2, <1>3, FrameForm

LEMMA FrameReturned ==
  ASSUME NEW t \in Threads, NEW h, Returned(t, h), StillWaits(t), TopFine(h)',
         h.node = Below(t).node
  PROVE  FrameInv(t)'
<1>1. /\ Depth(t) \in Nat /\ Depth(t) > 1 /\ Depth(t)' = Depth(t) - 1
      /\ stack'[t][Depth(t) - 1] = h
      /\ \A i \in 1..(Depth(t) - 1) : i # Depth(t) - 1 => stack'[t][i] = stack[t][i]
  BY DEF Returned
<1>2. \A f : f = Top(t)' => TopFine(f)' BY <1>1, TopIs
<1>3. ASSUME NEW i \in 1..(Depth(t) - 1), i < Depth(t) - 1
      PROVE  /\ stack'[t][i] = stack[t][i] /\ stack'[t][i + 1].node = stack[t][i + 1].node
             /\ i \in 1..Depth(t) /\ i < Depth(t)
  BY <1>1, <1>3 DEF Below
<1> QED BY <1>1, <1>2, <1>3, FrameForm DEF StillWaits

LEMMA FramePopped ==
  ASSUME NEW t \in Threads, Popped(t), StillWaits(t),
         Depth(t) # 1 => \A f : f = Below(t) => TopFine(f)'
  PROVE  FrameInv(t)'
<1>1. /\ Depth(t) \in Nat /\ Depth(t) > 0 /\ Depth(t)' = Depth(t) - 1
      /\ \A i \in 1..(Depth(t) - 1) : stack'[t][i] = stack[t][i]
      /\ stack' \in [Threads -> Seq(Frames)]
  BY DEF Popped, OthersKept
<1>2. ASSUME ~Idle(t)', NEW f, f = Top(t)' PROVE TopFine(f)'
  <2>1. Depth(t)' # 0
    <3>1. stack'[t] \in Seq(Frames) BY <1>1
    <3>2. Len(stack'[t]) = 0 => stack'[t] = <<>> BY <3>1
    <3> QED BY <1>2, <3>2 DEF Idle, Depth
  <2>2. stack'[t][Depth(t) - 1] = Below(t) BY <1>1, <2>1 DEF Below
  <2>3. Top(t)' = Below(t) BY <1>1, <2>2, TopIs
  <2> QED BY <1>1, <1>2, <2>1, <2>3
<1>3. ASSUME NEW i \in 1..(Depth(t) - 1), i < Depth(t) - 1
      PROVE  /\ stack'[t][i] = stack[t][i] /\ stack'[t][i + 1] = stack[t][i + 1]
             /\ i \in 1..Depth(t) /\ i < Depth(t)
  BY <1>1, <1>3
<1> QED BY <1>1, <1>2, <1>3, FrameForm DEF StillWaits

LEMMA FrameEntered ==
  ASSUME NEW t \in Threads, NEW h, Entered(t, h), TopFine(h)'
  PROVE  FrameInv(t)'
<1>1. Depth(t)' = 1 /\ stack'[t][1] = h BY DEF Entered
<1>2. \A f : f = Top(t)' => TopFine(f)' BY <1>1, TopIs
<1> QED BY <1>1, <1>2, FrameForm

LEMMA FrameGot ==
  ASSUME NEW t \in Threads, NEW g, NEW h, Got(t, g, h), g.op = "get", TopFine(h)'
  PROVE  FrameInv(t)'
<1>1. Depth(t)' = 2 /\ stack'[t][1] = g /\ stack'[t][2] = h BY DEF Got
<1>2. \A f : f = Top(t)' => TopFine(f)' BY <1>1, TopIs
<1>3. \A n : WaitFine(g, n)' BY DEF WaitFine
<1> QED BY <1>1, <1>2, <1>3, FrameForm

-----------------------------------------------------------------------------
(* Which memos are computed *)

\* No memo stops being computed.
StillComputes(t) == \A m \in Memos : Computes(t, m) => Computes(t, m)'

LEMMA ComputesReplaced ==
  ASSUME NEW t \in Threads, NEW h, Replaced(t, h), NEW m,
         Computing(stack[t][Depth(t)], m) => Computing(h, m), Computes(t, m)
  PROVE  Computes(t, m)'
<1>1. PICK i \in 1..Depth(t) : Computing(stack[t][i], m) BY DEF Computes, Depth
<1>2. Depth(t)' = Depth(t) /\ Computing(stack'[t][i], m) BY <1>1 DEF Replaced
<1> QED BY <1>1, <1>2 DEF Computes, Computing, Depth

LEMMA ComputesCalled ==
  ASSUME NEW t \in Threads, NEW h, NEW g, Called(t, h, g), NEW m,
         Computing(stack[t][Depth(t)], m) => Computing(h, m), Computes(t, m)
  PROVE  Computes(t, m)'
<1>1. PICK i \in 1..Depth(t) : Computing(stack[t][i], m) BY DEF Computes, Depth
<1>2. /\ Depth(t)' = Depth(t) + 1 /\ Depth(t) \in Nat /\ Computing(stack'[t][i], m)
      /\ i \in 1..Depth(t)'
  BY <1>1 DEF Called
<1> QED BY <1>2 DEF Computes, Computing, Depth

LEMMA ComputesReturned ==
  ASSUME NEW t \in Threads, NEW h, Returned(t, h), NEW m,
         ~Computing(stack[t][Depth(t)], m),
         Computing(Below(t), m) => Computing(h, m), Computes(t, m)
  PROVE  Computes(t, m)'
<1>1. PICK i \in 1..Depth(t) : Computing(stack[t][i], m) BY DEF Computes, Depth
<1>2. /\ Depth(t)' = Depth(t) - 1 /\ Depth(t) \in Nat /\ stack'[t][Depth(t) - 1] = h
      /\ \A j \in 1..(Depth(t) - 1) : j # Depth(t) - 1 => stack'[t][j] = stack[t][j]
  BY DEF Returned
<1>3. i # Depth(t) BY <1>1
<1>4. i \in 1..Depth(t)' /\ Computing(stack'[t][i], m)
  BY <1>1, <1>2, <1>3 DEF Below
<1> QED BY <1>4 DEF Computes, Computing, Depth

LEMMA ComputesPopped ==
  ASSUME NEW t \in Threads, Popped(t), NEW m, ~Computing(stack[t][Depth(t)], m), Computes(t, m)
  PROVE  Computes(t, m)'
<1>1. PICK i \in 1..Depth(t) : Computing(stack[t][i], m) BY DEF Computes, Depth
<1>2. /\ Depth(t)' = Depth(t) - 1 /\ Depth(t) \in Nat
      /\ \A j \in 1..(Depth(t) - 1) : stack'[t][j] = stack[t][j]
  BY DEF Popped
<1>3. i # Depth(t) BY <1>1
<1>4. i \in 1..Depth(t)' /\ stack'[t][i] = stack[t][i] BY <1>2, <1>3
<1> QED BY <1>1, <1>4 DEF Computes, Computing, Depth

\* A memo whose function runs is computed, and a memo that is computed is not clean.
LEMMA RunComputes ==
  ASSUME StackInv, NEW t \in Threads, NEW i \in 1..Depth(t), stack[t][i].op = "run",
         stack[t][i].node \in Memos
  PROVE  /\ i - 1 \in 1..Depth(t) /\ stack[t][i - 1].op = "update"
         /\ stack[t][i - 1].pc = "commit" /\ stack[t][i - 1].node = stack[t][i].node
         /\ Computes(t, stack[t][i].node)
<1> DEFINE s == stack[t]
<1>1. StackOK(s) /\ Depth(t) \in Nat BY DepthNat DEF StackInv
<1>2. i # 1 BY <1>1 DEF StackOK, Root, Depth
<1>3. i - 1 \in 1..Depth(t) /\ i - 1 < Depth(t) /\ i - 1 + 1 = i BY <1>1, <1>2
<1>4. Calls(s[i - 1], s[i]) /\ FrameOK(s[i - 1]) BY <1>1, <1>3 DEF StackOK, Depth
<1>5. s[i - 1].op = "task" => s[i - 1].node \in Effects BY <1>4 DEF FrameOK, TaskOK
<1>6. s[i].node \notin Effects BY KindsAssumption DEF Sources
<1>7. s[i - 1].op = "update" /\ s[i - 1].pc = "commit" /\ s[i - 1].node = s[i].node
  BY <1>4, <1>5, <1>6 DEF Calls
<1> QED BY <1>3, <1>7 DEF Computes, Computing, Depth

LEMMA ComputesNotClean ==
  ASSUME StackInv, NEW t \in Threads, FrameInv(t), NEW m \in Memos, Computes(t, m)
  PROVE  state[m] # "Clean"
<1>1. PICK i \in 1..Depth(t) : Computing(stack[t][i], m) BY DEF Computes, Depth
<1>2. Depth(t) \in Nat /\ StackOK(stack[t]) BY DepthNat DEF StackInv
<1>3. CASE i = Depth(t)
  <2>1. ~Idle(t) BY <1>2, <1>3, IdleFacts
  <2>2. Top(t) = stack[t][i] BY <1>3, <2>1, TopFacts
  <2> QED BY <1>1, <2>1, <2>2 DEF FrameInv, TopFine, UpdateFine, Computing
<1>4. CASE i # Depth(t)
  <2>1. i < Depth(t) BY <1>2, <1>4
  <2>2. WaitFine(stack[t][i], stack[t][i + 1].node) BY <2>1 DEF FrameInv, Depth
  <2>3. Calls(stack[t][i], stack[t][i + 1]) BY <1>2, <2>1 DEF StackOK, Depth
  <2>4. stack[t][i].pc = "commit" BY <1>1, <2>3 DEF Calls, Computing
  <2> QED BY <1>1, <2>2, <2>4 DEF WaitFine, Computing
<1> QED BY <1>3, <1>4

\* The observer that a change of a memo does not mark is an effect, or is computed.
LEMMA ObserverComputes ==
  ASSUME StackInv, NEW t \in Threads, NEW m \in Memos, Observer(t) = m
  PROVE  Computes(t, m)
<1> DEFINE I == {i \in DOMAIN stack[t] : stack[t][i].op \in {"run", "task"}}
<1>1. StackOK(stack[t]) /\ DOMAIN stack[t] = 1..Depth(t) /\ Depth(t) \in Nat
  BY DepthNat DEF StackInv, StackOK, Depth
<1>2. m # Nobody BY GraphAssumption DEF Subscribers
<1>3. I # {} /\ m = stack[t][CHOOSE i \in I : \A j \in I : j <= i].node
  BY <1>2, Zenon DEF Observer
<1>4. \E i \in I : m = stack[t][i].node
  <2>0. I \subseteq 1..Depth(t) BY <1>1
  <2> HIDE DEF I
  <2>1. \E i \in I : \A j \in I : j <= i
    <3> DEFINE N == {Depth(t) - i : i \in I}
    <3>0. \A i \in I : Depth(t) - i \in Nat BY <1>1, <2>0
    <3>1. N \in SUBSET Nat /\ N # {}
      <4>1. I # {} BY <1>3
      <4>2. PICK i \in I : TRUE BY <4>1
      <4>3. Depth(t) - i \in N BY <4>2
      <4> QED BY <3>0, <4>3
    <3>2. PICK k \in N : \A n \in N : k <= n BY <3>1, LeastNat
    <3>3. PICK i \in I : k = Depth(t) - i BY <3>2
    <3>4. ASSUME NEW j \in I PROVE j <= i
      <4>1. k <= Depth(t) - j BY <3>2
      <4>2. i \in Nat /\ j \in Nat BY <2>0
      <4> QED BY <1>1, <3>3, <4>1, <4>2
    <3> QED BY <3>4
  <2> QED BY <1>3, <2>1
<1>5. PICK i \in I : m = stack[t][i].node BY <1>4
<1>6. i \in 1..Depth(t) /\ FrameOK(stack[t][i]) BY <1>1 DEF StackOK, Depth
<1>7. stack[t][i].op = "run"
  <2>1. m \notin Effects BY KindsAssumption DEF Sources
  <2> QED BY <1>5, <1>6, <2>1 DEF FrameOK, TaskOK
<1> QED BY <1>5, <1>6, <1>7, RunComputes

-----------------------------------------------------------------------------
(* Steps that leave the memos as they are *)

GraphKept ==
  /\ value' = value /\ state' = state
  /\ \A m \in Memos : sources'[m] = sources[m] /\ seen'[m] = seen[m]
  /\ \A x \in Sources : Distinct(subs[x]) => Distinct(subs'[x])
  /\ \A x \in Sources, m \in Memos : m \in ToSet(subs'[x]) <=> m \in ToSet(subs[x])

\* The part of the invariant that is not about the calls.
MemoState(t) == SourceInv(t) /\ LinkInv(t) /\ SeenInv /\ TellInv(t)

LEMMA WaitsQuiet ==
  ASSUME GraphInv, NEW t \in Threads, ~Idle(t), FrameInv(t), GraphKept
  PROVE  StillWaits(t)
BY WaitsKept DEF GraphKept

LEMMA TopFineKept ==
  ASSUME NEW h, h.op = "update" => h.node \in Memos, TopFine(h), GraphKept
  PROVE  TopFine(h)'
BY DEF TopFine, UpdateFine, RunFine, Checked, Current, NextRead, GraphKept

LEMMA WaitFineKept ==
  ASSUME NEW h, h.op = "update" => h.node \in Memos, NEW n, WaitFine(h, n), GraphKept
  PROVE  WaitFine(h, n)'
BY DEF WaitFine, Checked, Current, GraphKept

\* A caller that gets the answer of an update goes on with a clean source.
LEMMA AnsweredFine ==
  ASSUME NEW f, NEW g, NEW h, Calls(f, g), g.op = "update", WaitFine(f, g.node)',
         state'[g.node] = "Clean", NEW ret, Is(h, f.op, f.node, f.pc, f.todo, f.vals, ret)
  PROVE  TopFine(h)'
<1>1. CASE f.op = "update" /\ f.pc = "own"
  <2>1. /\ state'[f.node] # "Clean" /\ Checked(f.node, ToSet(f.todo) \cup {g.node})'
    BY <1>1 DEF WaitFine
  <2>2. Checked(f.node, ToSet(f.todo))' BY <2>1 DEF Checked
  <2>3. h.op = "update" /\ h.pc = "own" /\ h.node = f.node /\ h.todo = f.todo BY <1>1 DEF Is
  <2> QED BY <2>1, <2>2, <2>3 DEF TopFine, UpdateFine, Checked
<1>2. CASE f.op = "run" /\ f.pc = "read" /\ g.node = NextRead(f)
  <2>1. h.op = "run" /\ h.pc = "read" /\ h.node = f.node /\ h.vals = f.vals BY <1>2 DEF Is
  <2>2. NextRead(h) = g.node BY <1>2, <2>1 DEF NextRead
  <2>3. f.node \in Memos => /\ Current(f.node, f.vals)'
                            /\ ToSet(sources'[f.node]) = ReadSet(f.node, Len(f.vals) + 1)
    BY <1>2 DEF WaitFine, ReadSet
  <2> QED BY <2>1, <2>2, <2>3 DEF TopFine, RunFine, Current, ReadSet, NextRead
<1>3. CASE f.op \in {"get", "task"} BY <1>3 DEF TopFine, Is
<1> QED BY <1>1, <1>2, <1>3 DEF Calls

LEMMA TellKept ==
  ASSUME StateInv, NEW t \in Threads, MemoState(t), GraphKept, StillComputes(t), MarkInv(t)',
         At(t, "run", "track") => Top(t).node \notin Memos,
         \A m \in Memos : ToBeMarked(t, m) => ToBeMarked(t, m)',
         \A m \in Memos, x \in Sources :
           m \in ToSet(subs[x]) /\ Reported(t, m, x) => Reported(t, m, x)'
  PROVE  MemoState(t)'
<1>1. \A m \in Memos, x \in Sources : ~Tracking(t, m, x) BY DEF Tracking
<1>2. SourceInv(t)' BY DEF MemoState, SourceInv, StillComputes, GraphKept, ReadSet
<1>3. LinkInv(t)' BY <1>1 DEF MemoState, LinkInv, GraphKept
<1>4. SeenInv' BY DEF MemoState, SeenInv, GraphKept
<1>5. CleanInv(t)'
  <2>1. \A x \in Memos, m \in Memos : m \in ToSet(subs'[x]) => m \in ToSet(subs[x])
    BY DEF GraphKept, Sources
  <2> QED BY <2>1 DEF MemoState, TellInv, CleanInv, GraphKept
<1>6. FreshInv(t)'
  <2> SUFFICES ASSUME NEW m \in Memos, ~Computes(t, m)', state'[m] # "Dirty",
                      NEW j \in 1..Len(seen'[m])
               PROVE  seen'[m][j] = value'[Reads[m][j]] \/ Reported(t, m, Reads[m][j])'
    BY DEF FreshInv
  <2>1. ~Computes(t, m) /\ state[m] # "Dirty" /\ j \in 1..Len(seen[m]) /\ m \in Subscribers
    BY DEF StillComputes, GraphKept, Subscribers
  <2>2. seen[m] \in Seq(Nat) /\ Len(seen[m]) <= Len(Reads[m])
    BY <2>1 DEF MemoState, SeenInv, StateInv
  <2>3. j \in 1..Len(Reads[m]) /\ Reads[m][j] \in Sources
    <3>1. Len(Reads[m]) \in Nat /\ \A i \in 1..Len(Reads[m]) : Reads[m][i] \in Sources
      BY <2>1, ReadsFacts
    <3> QED BY <2>1, <2>2, <3>1
  <2>4. Reads[m][j] \in ToSet(sources[m]) BY <2>1 DEF MemoState, SourceInv, ReadSet
  <2>5. m \in ToSet(subs[Reads[m][j]]) BY <1>1, <2>3, <2>4 DEF MemoState, LinkInv
  <2>6. seen[m][j] = value[Reads[m][j]] \/ Reported(t, m, Reads[m][j])
    BY <2>1 DEF MemoState, TellInv, FreshInv
  <2>7. Reported(t, m, Reads[m][j]) => Reported(t, m, Reads[m][j])' BY <2>3, <2>5
  <2> QED BY <2>6, <2>7 DEF GraphKept
<1> QED BY <1>2, <1>3, <1>4, <1>5, <1>6 DEF MemoState, TellInv

\* The running call is not marking, and none that marks memos for a memo comes next.
LEMMA NoMarkKept ==
  ASSUME StateInv, NEW t \in Threads, MemoState(t), GraphKept, StillComputes(t),
         Idle(t) \/ Top(t).op # "mark",
         At(t, "run", "track") => Top(t).node \notin Memos,
         ~Idle(t)' => Top(t)'.op # "mark"
  PROVE  MemoState(t)'
<1>1. \A m : ~ToBeMarked(t, m) BY DEF ToBeMarked, At
<1>2. \A m, x : ~Reported(t, m, x) BY DEF Reported, At
<1>3. MarkInv(t)' BY DEF MarkInv, At
<1> QED BY <1>1, <1>2, <1>3, TellKept

LEMMA QuietReplaced ==
  ASSUME GraphInv, NEW t \in Threads, MemoInv(t), ~Idle(t), GraphKept, guards'[t] = guards[t],
         NEW h, Replaced(t, h), TopFine(h)', h.node = Top(t).node,
         Top(t).op # "mark", h.op # "mark",
         At(t, "run", "track") => Top(t).node \notin Memos,
         \A m \in Memos : Computing(Top(t), m) => Computing(h, m)
  PROVE  MemoInv(t)'
<1>1. StackInv /\ StateInv /\ MemoState(t) /\ FrameInv(t) BY DEF GraphInv, MemoInv, MemoState
<1>2. Top(t) = stack[t][Depth(t)] BY <1>1, TopFacts
<1>3. FrameInv(t)' BY <1>1, <1>2, WaitsQuiet, FrameReplaced
<1>4. StillComputes(t) BY <1>2, ComputesReplaced DEF StillComputes
<1>5. ~Idle(t)' => Top(t)'.op # "mark" BY TopAfter
<1>6. MemoState(t)' BY <1>1, <1>4, <1>5, NoMarkKept
<1> QED BY <1>3, <1>6 DEF MemoInv, MemoState

LEMMA QuietCalled ==
  ASSUME GraphInv, NEW t \in Threads, MemoInv(t), ~Idle(t), GraphKept, guards'[t] = guards[t],
         NEW h, NEW g, Called(t, h, g), WaitFine(h, g.node)', TopFine(g)', h.node = Top(t).node,
         Top(t).op # "mark", g.op # "mark",
         At(t, "run", "track") => Top(t).node \notin Memos,
         \A m \in Memos : Computing(Top(t), m) => Computing(h, m)
  PROVE  MemoInv(t)'
<1>1. StackInv /\ StateInv /\ MemoState(t) /\ FrameInv(t) BY DEF GraphInv, MemoInv, MemoState
<1>2. Top(t) = stack[t][Depth(t)] BY <1>1, TopFacts
<1>3. FrameInv(t)' BY <1>1, <1>2, WaitsQuiet, FrameCalled
<1>4. StillComputes(t) BY <1>2, ComputesCalled DEF StillComputes
<1>5. ~Idle(t)' => Top(t)'.op # "mark" BY TopAfter
<1>6. MemoState(t)' BY <1>1, <1>4, <1>5, NoMarkKept
<1> QED BY <1>3, <1>6 DEF MemoInv, MemoState

LEMMA QuietReturned ==
  ASSUME GraphInv, NEW t \in Threads, MemoInv(t), ~Idle(t), GraphKept, guards'[t] = guards[t],
         NEW h, Returned(t, h), TopFine(h)', h.node = Below(t).node,
         Top(t).op # "mark", h.op # "mark",
         At(t, "run", "track") => Top(t).node \notin Memos,
         \A m \in Memos : ~Computing(Top(t), m),
         \A m \in Memos : Computing(Below(t), m) => Computing(h, m)
  PROVE  MemoInv(t)'
<1>1. StackInv /\ StateInv /\ MemoState(t) /\ FrameInv(t) BY DEF GraphInv, MemoInv, MemoState
<1>2. Top(t) = stack[t][Depth(t)] BY <1>1, TopFacts
<1>3. FrameInv(t)' BY <1>1, <1>2, WaitsQuiet, FrameReturned
<1>4. StillComputes(t) BY <1>2, ComputesReturned DEF StillComputes
<1>5. ~Idle(t)' => Top(t)'.op # "mark" BY TopAfter
<1>6. MemoState(t)' BY <1>1, <1>4, <1>5, NoMarkKept
<1> QED BY <1>3, <1>6 DEF MemoInv, MemoState

\* The call below becomes the running one.
LEMMA TopPopped ==
  ASSUME NEW t \in Threads, Popped(t), ~Idle(t)'
  PROVE  Depth(t) # 1 /\ Top(t)' = Below(t)
<1>1. /\ Depth(t) \in Nat /\ Depth(t) > 0 /\ Depth(t)' = Depth(t) - 1
      /\ \A i \in 1..(Depth(t) - 1) : stack'[t][i] = stack[t][i]
      /\ stack' \in [Threads -> Seq(Frames)]
  BY DEF Popped, OthersKept
<1>2. Depth(t)' # 0
  <2>1. stack'[t] \in Seq(Frames) BY <1>1
  <2>2. Len(stack'[t]) = 0 => stack'[t] = <<>> BY <2>1
  <2> QED BY <2>2 DEF Idle, Depth
<1>3. stack'[t][Depth(t)'] = Below(t) BY <1>1, <1>2 DEF Below
<1> QED BY <1>1, <1>2, <1>3, TopIs

LEMMA QuietPopped ==
  ASSUME GraphInv, NEW t \in Threads, MemoInv(t), ~Idle(t), GraphKept, guards'[t] = guards[t],
         Popped(t), Depth(t) # 1 => Below(t).op \in {"task", "get"},
         Top(t).op \in {"run", "task", "get"},
         At(t, "run", "track") => Top(t).node \notin Memos
  PROVE  MemoInv(t)'
<1>1. StackInv /\ StateInv /\ MemoState(t) /\ FrameInv(t) BY DEF GraphInv, MemoInv, MemoState
<1>2. Top(t) = stack[t][Depth(t)] BY <1>1, TopFacts
<1>3. Depth(t) # 1 => \A f : f = Below(t) => TopFine(f)' BY DEF TopFine
<1>4. StillWaits(t) BY <1>1, WaitsQuiet
<1>5. FrameInv(t)' BY <1>3, <1>4, FramePopped
<1>6. StillComputes(t)
  <2>1. \A m : ~Computing(stack[t][Depth(t)], m) BY <1>2 DEF Computing
  <2> QED BY <2>1, ComputesPopped DEF StillComputes
<1>7. ~Idle(t)' => Top(t)'.op # "mark" BY TopPopped
<1>8. MemoState(t)' BY <1>1, <1>6, <1>7, NoMarkKept
<1> QED BY <1>5, <1>8 DEF MemoInv, MemoState

\* A step that leaves everything that the invariant is about.
LEMMA MemoUnchanged ==
  ASSUME NEW t, MemoInv(t), UNCHANGED <<value, state, sources, subs, seen, stack, guards>>
  PROVE  MemoInv(t)'
<1>1. /\ \A f : TopFine(f) => TopFine(f)'
      /\ \A f, n : WaitFine(f, n) => WaitFine(f, n)'
      /\ Idle(t)' = Idle(t) /\ Top(t)' = Top(t)
  BY DEF WaitFine, TopFine, UpdateFine, RunFine, Checked, Current, NextRead, ReadSet, Idle, Top
<1>2. FrameInv(t)'
  <2>1. \A i \in 1..Depth(t)' : i < Depth(t)' =>
          \A f, n : f = stack'[t][i] /\ n = stack'[t][i + 1].node => WaitFine(f, n)'
    <3>1. \A i \in 1..Len(stack[t]) : i < Len(stack[t]) =>
            WaitFine(stack[t][i], stack[t][i + 1].node)
      BY DEF MemoInv, FrameInv
    <3>2. stack' = stack OBVIOUS
    <3>3. SUFFICES ASSUME NEW i \in 1..Depth(t)', i < Depth(t)', NEW f, NEW n,
                          f = stack'[t][i], n = stack'[t][i + 1].node
                   PROVE  WaitFine(f, n)'
      OBVIOUS
    <3>4. i \in 1..Len(stack[t]) /\ i < Len(stack[t]) BY <3>2, <3>3 DEF Depth
    <3>5. f = stack[t][i] /\ n = stack[t][i + 1].node BY <3>2, <3>3
    <3>6. WaitFine(f, n) BY <3>1, <3>4, <3>5
    <3> QED BY <1>1, <3>6
  <2>2. ~Idle(t)' => \A f : f = Top(t)' => TopFine(f)'
    BY <1>1 DEF MemoInv, FrameInv
  <2> QED BY <2>1, <2>2, FrameForm
<1>3. /\ \A m : Computes(t, m)' = Computes(t, m) /\ ToBeMarked(t, m)' = ToBeMarked(t, m)
      /\ \A m, x : Tracking(t, m, x)' = Tracking(t, m, x) /\ Reported(t, m, x)' = Reported(t, m, x)
  BY DEF Computes, Computing, Tracking, ToBeMarked, Reported, At, Idle, Top, NextRead
<1>4. SourceInv(t)' BY <1>3 DEF MemoInv, SourceInv, ReadSet
<1>5. LinkInv(t)' BY <1>3 DEF MemoInv, LinkInv
<1>6. SeenInv' BY DEF MemoInv, SeenInv
<1>7. CleanInv(t)' /\ FreshInv(t)' BY <1>3 DEF MemoInv, TellInv, CleanInv, FreshInv
<1>8. MarkInv(t)' BY DEF MemoInv, TellInv, MarkInv, At, Idle, Top
<1> QED BY <1>2, <1>4, <1>5, <1>6, <1>7, <1>8 DEF MemoInv, TellInv

-----------------------------------------------------------------------------
(* A memo's update checks its sources *)

LEMMA KeptByStack ==
  ASSUME UNCHANGED <<value, state, sources, subs, seen>> PROVE GraphKept
BY DEF GraphKept

LEMMA TopKnows ==
  ASSUME GraphInv, NEW t \in Threads, MemoInv(t), ~Idle(t)
  PROVE  /\ Top(t).op = "update" => /\ UpdateFine(Top(t)) /\ Top(t).node \in Memos
                                    /\ state[Top(t).node] \in {"Clean", "Check", "Dirty"}
         /\ Top(t).op = "run" /\ Top(t).node \in Memos => RunFine(Top(t))
         /\ Top(t) = stack[t][Depth(t)]
<1>1. StackInv /\ StateInv /\ FrameInv(t) BY DEF GraphInv, MemoInv
<1> QED BY <1>1, UpdateTop, TopFacts DEF FrameInv, TopFine, StateInv

LEMMA NeedsUpdateMemo ==
  ASSUME GraphInv, NEW t \in Threads, MemoInv(t), NeedsUpdate(t)
  PROVE  MemoInv(t)'
<1> DEFINE f == Top(t)
           m == f.node
           todo == IF state[m] = "Check" THEN sources[m] ELSE <<>>
<1>1. StateInv /\ StackInv BY DEF GraphInv
<1>2. PICK h : Replaced(t, h) /\ Is(h, "update", m, Needed(m), todo, f.vals, f.ret)
  BY <1>1, NeedsUpdateShape
<1>3. At(t, "update", "state") /\ m \in Memos BY <1>1, NeedsUpdateShape
<1>4. ~Idle(t) /\ f.op = "update" /\ f.pc = "state" BY <1>3 DEF At
<1>5. GraphKept /\ guards'[t] = guards[t] BY KeptByStack DEF NeedsUpdate, graph
<1>6. h.op = "update" /\ h.node = m /\ h.pc = Needed(m) /\ h.todo = todo BY <1>2 DEF Is
<1>7. state[m] \in {"Clean", "Check", "Dirty"} BY <1>3, <1>4, TopKnows
<1>8. TopFine(h)
  <2>1. CASE state[m] = "Clean"
    <3>1. Needed(m) = "clean" BY <2>1 DEF Needed
    <3> QED BY <2>1, <3>1, <1>6 DEF TopFine, UpdateFine
  <2>2. CASE state[m] = "Dirty"
    <3>1. Needed(m) = "begin" BY <2>2 DEF Needed
    <3> QED BY <2>2, <3>1, <1>6 DEF TopFine, UpdateFine
  <2>3. CASE state[m] = "Check"
    <3>1. Needed(m) = "sources" /\ todo = sources[m] BY <2>3 DEF Needed
    <3>2. Checked(m, ToSet(sources[m])) BY DEF Checked
    <3> QED BY <2>3, <3>1, <3>2, <1>6 DEF TopFine, UpdateFine
  <2> QED BY <1>7, <2>1, <2>2, <2>3
<1>9. TopFine(h)' BY <1>3, <1>5, <1>6, <1>8, TopFineKept
<1>10. \A x \in Memos : ~Computing(f, x) BY <1>4 DEF Computing
<1>11. f.op # "mark" /\ h.op # "mark" /\ ~At(t, "run", "track") BY <1>4, <1>6 DEF At
<1> HIDE DEF todo, f, m
<1> QED BY <1>2, <1>4, <1>5, <1>6, <1>9, <1>10, <1>11, QuietReplaced DEF f, m

LEMMA CheckSourceMemo ==
  ASSUME GraphInv, NEW t \in Threads, MemoInv(t), CheckSource(t)
  PROVE  MemoInv(t)'
<1> DEFINE f == Top(t)
           m == f.node
           q == f.todo
<1>1. StateInv /\ StackInv BY DEF GraphInv
<1>2. At(t, "update", "sources") /\ m \in Memos /\ q \in Seq(ToSet(Reads[m]))
  BY <1>1, CheckSourceShape
<1>3. ~Idle(t) /\ f.op = "update" /\ f.pc = "sources" BY <1>2 DEF At
<1>4. GraphKept /\ guards'[t] = guards[t] BY KeptByStack DEF CheckSource, graph
<1>5. state[m] = "Check" /\ Checked(m, ToSet(q)) BY <1>3, TopKnows DEF UpdateFine
<1>6. \A x \in Memos : ~Computing(f, x) BY <1>3 DEF Computing
<1>7. f.op # "mark" /\ ~At(t, "run", "track") BY <1>3 DEF At
<1>8. \/ q = <<>> /\ \E h : Replaced(t, h) /\ Is(h, "update", m, "clean", <<>>, f.vals, f.ret)
      \/ /\ q # <<>> /\ Head(q) \in Signals
         /\ \E h : Replaced(t, h) /\ Is(h, "update", m, "own", Tail(q), f.vals, FALSE)
      \/ /\ q # <<>> /\ Head(q) \in Memos
         /\ \E h, g : /\ Called(t, h, g)
                      /\ Is(h, "update", m, "own", Tail(q), f.vals, FALSE)
                      /\ Is(g, "update", Head(q), "state", <<>>, <<>>, FALSE)
  BY <1>1, CheckSourceShape
<1>9. CASE q = <<>> /\ \E h : /\ Replaced(t, h)
                              /\ Is(h, "update", m, "clean", <<>>, f.vals, f.ret)
  <2>1. PICK h : Replaced(t, h) /\ Is(h, "update", m, "clean", <<>>, f.vals, f.ret) BY <1>9
  <2>2. h.op = "update" /\ h.node = m /\ h.pc = "clean" BY <2>1 DEF Is
  <2>3. Checked(m, {}) BY <1>5, <1>9 DEF Checked, ToSet
  <2>4. TopFine(h) BY <1>5, <2>2, <2>3 DEF TopFine, UpdateFine
  <2>5. TopFine(h)' BY <1>2, <1>4, <2>2, <2>4, TopFineKept
  <2> HIDE DEF f, m, q
  <2> QED BY <1>3, <1>4, <1>6, <1>7, <2>1, <2>2, <2>5, QuietReplaced DEF f, m
<1>10. CASE q # <<>> /\ Head(q) \in Signals
            /\ \E h : Replaced(t, h) /\ Is(h, "update", m, "own", Tail(q), f.vals, FALSE)
  <2>1. PICK h : Replaced(t, h) /\ Is(h, "update", m, "own", Tail(q), f.vals, FALSE) BY <1>10
  <2>2. h.op = "update" /\ h.node = m /\ h.pc = "own" /\ h.todo = Tail(q) BY <2>1 DEF Is
  <2>3. ToSet(q) = {Head(q)} \cup ToSet(Tail(q)) BY <1>2, <1>10, HeadTail
  <2>4. Head(q) \notin Memos BY <1>10, KindsAssumption
  <2>5. Checked(m, ToSet(Tail(q))) BY <1>5, <2>3, <2>4 DEF Checked
  <2>6. TopFine(h) BY <1>5, <2>2, <2>5 DEF TopFine, UpdateFine
  <2>7. TopFine(h)' BY <1>2, <1>4, <2>2, <2>6, TopFineKept
  <2> HIDE DEF f, m, q
  <2> QED BY <1>3, <1>4, <1>6, <1>7, <2>1, <2>2, <2>7, QuietReplaced DEF f, m
<1>11. CASE q # <<>> /\ Head(q) \in Memos
            /\ \E h, g : /\ Called(t, h, g)
                         /\ Is(h, "update", m, "own", Tail(q), f.vals, FALSE)
                         /\ Is(g, "update", Head(q), "state", <<>>, <<>>, FALSE)
  <2>1. PICK h, g : /\ Called(t, h, g)
                    /\ Is(h, "update", m, "own", Tail(q), f.vals, FALSE)
                    /\ Is(g, "update", Head(q), "state", <<>>, <<>>, FALSE)
    BY <1>11
  <2>2. /\ h.op = "update" /\ h.node = m /\ h.pc = "own" /\ h.todo = Tail(q)
        /\ g.op = "update" /\ g.node = Head(q) /\ g.pc = "state"
    BY <2>1 DEF Is
  <2>3. ToSet(q) = {Head(q)} \cup ToSet(Tail(q)) BY <1>2, <1>11, HeadTail
  <2>4. Checked(m, ToSet(Tail(q)) \cup {g.node}) BY <1>5, <2>2, <2>3 DEF Checked
  <2>5. WaitFine(h, g.node) BY <1>5, <2>2, <2>4 DEF WaitFine
  <2>6. WaitFine(h, g.node)' BY <1>2, <1>4, <2>2, <2>5, WaitFineKept
  <2>7. TopFine(g)' BY <2>2 DEF TopFine, UpdateFine
  <2> HIDE DEF f, m, q
  <2> QED BY <1>3, <1>4, <1>6, <1>7, <2>1, <2>2, <2>6, <2>7, QuietCalled DEF f, m
<1> QED BY <1>8, <1>9, <1>10, <1>11

LEMMA CheckOwnMemo ==
  ASSUME GraphInv, NEW t \in Threads, MemoInv(t), CheckOwn(t)
  PROVE  MemoInv(t)'
<1> DEFINE f == Top(t)
           m == f.node
           pc == IF ChangedOrDirty(f) THEN "begin" ELSE "sources"
<1>1. StateInv /\ StackInv BY DEF GraphInv
<1>2. PICK h : Replaced(t, h) /\ Is(h, "update", m, pc, f.todo, f.vals, f.ret)
  BY <1>1, CheckOwnShape
<1>3. At(t, "update", "own") /\ m \in Memos BY <1>1, CheckOwnShape
<1>4. ~Idle(t) /\ f.op = "update" /\ f.pc = "own" BY <1>3 DEF At
<1>5. GraphKept /\ guards'[t] = guards[t] BY KeptByStack DEF CheckOwn, graph
<1>6. h.op = "update" /\ h.node = m /\ h.pc = pc /\ h.todo = f.todo BY <1>2 DEF Is
<1>7. /\ state[m] \in {"Check", "Dirty"} /\ Checked(m, ToSet(f.todo))
  BY <1>3, <1>4, TopKnows DEF UpdateFine
<1>8. TopFine(h)
  <2>1. CASE ChangedOrDirty(f) BY <1>6, <1>7, <2>1 DEF TopFine, UpdateFine
  <2>2. CASE ~ChangedOrDirty(f)
    <3>1. state[m] = "Check" BY <1>7, <2>2 DEF ChangedOrDirty
    <3> QED BY <1>6, <1>7, <2>2, <3>1 DEF TopFine, UpdateFine
  <2> QED BY <2>1, <2>2
<1>9. TopFine(h)' BY <1>3, <1>5, <1>6, <1>8, TopFineKept
<1>10. \A x \in Memos : ~Computing(f, x) BY <1>4 DEF Computing
<1>11. f.op # "mark" /\ h.op # "mark" /\ ~At(t, "run", "track") BY <1>4, <1>6 DEF At
<1> HIDE DEF f, m, pc
<1> QED BY <1>2, <1>4, <1>5, <1>6, <1>9, <1>10, <1>11, QuietReplaced DEF f, m

LEMMA BeginMemo ==
  ASSUME GraphInv, NEW t \in Threads, MemoInv(t), Begin(t)
  PROVE  MemoInv(t)'
<1> DEFINE f == Top(t)
           m == f.node
<1>1. StateInv /\ StackInv BY DEF GraphInv
<1>2. At(t, "update", "begin") /\ m \in Memos BY <1>1, BeginShape
<1>3. ~Idle(t) /\ f.op = "update" /\ f.pc = "begin" BY <1>2 DEF At
<1>4. ~Reading(t, m) BY <1>1, <1>2, ReadingByGuard DEF MemoInv
<1>5. PICK h : Replaced(t, h) /\ Is(h, "update", m, "clear", f.todo, f.vals, f.ret)
  BY <1>1, <1>4, BeginShape
<1>6. GraphKept /\ guards'[t] = guards[t] BY KeptByStack DEF Begin, graph
<1>7. h.op = "update" /\ h.node = m /\ h.pc = "clear" BY <1>5 DEF Is
<1>8. state[m] # "Clean" BY <1>3, TopKnows DEF UpdateFine
<1>9. TopFine(h) BY <1>7, <1>8 DEF TopFine, UpdateFine
<1>10. TopFine(h)' BY <1>2, <1>6, <1>7, <1>9, TopFineKept
<1>11. \A x \in Memos : ~Computing(f, x) BY <1>3 DEF Computing
<1>12. f.op # "mark" /\ h.op # "mark" /\ ~At(t, "run", "track") BY <1>3, <1>7 DEF At
<1> HIDE DEF f, m
<1> QED BY <1>3, <1>5, <1>6, <1>7, <1>10, <1>11, <1>12, QuietReplaced DEF f, m

LEMMA LockMemoMemo ==
  ASSUME GraphInv, NEW t \in Threads, MemoInv(t), LockMemo(t)
  PROVE  MemoInv(t)'
<1> DEFINE f == Top(t)
           m == f.node
<1>1. StateInv /\ StackInv BY DEF GraphInv
<1>2. PICK h : Replaced(t, h) /\ Is(h, "update", m, "value", f.todo, f.vals, f.ret)
  BY <1>1, LockMemoShape
<1>3. At(t, "update", "commit") /\ m \in Memos BY <1>1, LockMemoShape
<1>4. ~Idle(t) /\ f.op = "update" /\ f.pc = "commit" BY <1>3 DEF At
<1>5. GraphKept /\ guards'[t] = guards[t] BY KeptByStack DEF LockMemo
<1>6. h.op = "update" /\ h.node = m /\ h.pc = "value" /\ h.vals = f.vals /\ h.ret = f.ret
  BY <1>2 DEF Is
<1>7. UpdateFine(f) BY <1>4, TopKnows
<1>8. TopFine(h) BY <1>4, <1>6, <1>7 DEF TopFine, UpdateFine
<1>9. TopFine(h)' BY <1>3, <1>5, <1>6, <1>8, TopFineKept
<1>10. \A x \in Memos : Computing(f, x) => Computing(h, x) BY <1>6 DEF Computing
<1>11. f.op # "mark" /\ h.op # "mark" /\ ~At(t, "run", "track") BY <1>4, <1>6 DEF At
<1> HIDE DEF f, m
<1> QED BY <1>2, <1>4, <1>5, <1>6, <1>9, <1>10, <1>11, QuietReplaced DEF f, m

\* The caller of an update waits for it, and goes on once its memo is clean.
LEMMA CallerFine ==
  ASSUME GraphInv, NEW t \in Threads, MemoInv(t), ~Idle(t), Top(t).op = "update",
         StillWaits(t), state'[Top(t).node] = "Clean", NEW ret, NEW h,
         Is(h, Below(t).op, Below(t).node, Below(t).pc, Below(t).todo, Below(t).vals, ret)
  PROVE  TopFine(h)' /\ h.node = Below(t).node /\ h.op = Below(t).op /\ h.op # "mark"
<1>1. StackInv BY DEF GraphInv
<1>2. /\ Depth(t) > 1 /\ Calls(Below(t), Top(t)) BY <1>1, BelowFacts DEF Below
<1>3. Depth(t) \in Nat /\ Top(t) = stack[t][Depth(t)] BY <1>1, TopFacts
<1>4. Depth(t) - 1 \in 1..Depth(t) /\ Depth(t) - 1 < Depth(t) /\ Depth(t) - 1 + 1 = Depth(t)
  BY <1>2, <1>3
<1>5. ASSUME NEW f, NEW g, f = Below(t), g = Top(t) PROVE TopFine(h)'
  <2>1. WaitFine(f, g.node)'
    <3>1. f = stack[t][Depth(t) - 1] /\ g.node = stack[t][Depth(t) - 1 + 1].node
      BY <1>3, <1>4, <1>5 DEF Below
    <3> QED BY <1>4, <3>1 DEF StillWaits
  <2>2. state'[g.node] = "Clean" /\ g.op = "update" /\ Calls(f, g) BY <1>2, <1>5
  <2>3. Is(h, f.op, f.node, f.pc, f.todo, f.vals, ret) BY <1>5
  <2> QED BY <2>1, <2>2, <2>3, AnsweredFine
<1>6. TopFine(h)' BY <1>5
<1>7. h.node = Below(t).node /\ h.op = Below(t).op BY DEF Is
<1>8. Below(t).op # "mark" BY <1>2 DEF Calls
<1> QED BY <1>6, <1>7, <1>8

LEMMA ReturnChangedMemo ==
  ASSUME GraphInv, NEW t \in Threads, MemoInv(t), ReturnChanged(t)
  PROVE  MemoInv(t)'
<1> DEFINE f == Top(t)
           m == f.node
<1>1. StateInv /\ StackInv /\ FrameInv(t) BY DEF GraphInv, MemoInv
<1>2. At(t, "update", "changed") /\ m \in Memos /\ Answered(t, TRUE)
  BY <1>1, ReturnChangedShape
<1>3. PICK h : /\ Returned(t, h)
               /\ Is(h, Below(t).op, Below(t).node, Below(t).pc, Below(t).todo, Below(t).vals, TRUE)
  BY <1>2 DEF Answered
<1>4. ~Idle(t) /\ f.op = "update" /\ f.pc = "changed" BY <1>2 DEF At
<1>5. GraphKept /\ guards'[t] = guards[t] BY KeptByStack DEF ReturnChanged, graph
<1>6. state'[m] = "Clean" BY <1>4, <1>5, TopKnows DEF UpdateFine, GraphKept
<1>7. StillWaits(t) BY <1>1, <1>4, <1>5, WaitsQuiet
<1>8. TopFine(h)' /\ h.node = Below(t).node /\ h.op = Below(t).op /\ h.op # "mark"
  BY <1>3, <1>4, <1>6, <1>7, CallerFine
<1>9. /\ \A x \in Memos : ~Computing(f, x)
      /\ \A x \in Memos : Computing(Below(t), x) => Computing(h, x)
  BY <1>3, <1>4 DEF Computing, Is
<1>10. f.op # "mark" /\ ~At(t, "run", "track") BY <1>4 DEF At
<1> HIDE DEF f, m
<1> QED BY <1>3, <1>4, <1>5, <1>8, <1>9, <1>10, QuietReturned DEF f, m

LEMMA SetCleanMemo ==
  ASSUME GraphInv, NEW t \in Threads, MemoInv(t), SetClean(t)
  PROVE  MemoInv(t)'
<1> DEFINE f == Top(t)
           m == f.node
<1>1. /\ StateInv /\ StackInv /\ FrameInv(t) /\ SourceInv(t) /\ LinkInv(t) /\ SeenInv
      /\ CleanInv(t) /\ FreshInv(t)
  BY DEF GraphInv, MemoInv, TellInv
<1>2. At(t, "update", "clean") /\ m \in Memos /\ Answered(t, FALSE)
  BY <1>1, SetCleanShape
<1>3. PICK h : /\ Returned(t, h)
               /\ Is(h, Below(t).op, Below(t).node, Below(t).pc, Below(t).todo, Below(t).vals, FALSE)
  BY <1>2 DEF Answered
<1>4. ~Idle(t) /\ f.op = "update" /\ f.pc = "clean" BY <1>2 DEF At
<1>5. /\ UNCHANGED <<value, sources, subs, seen, guards>>
      /\ state'[m] = "Clean" /\ \A x \in Memos : x # m => state'[x] = state[x]
  BY <1>1, <1>2 DEF SetClean, StateInv
<1>6. state[m] = "Clean" \/ (state[m] = "Check" /\ Checked(m, {}))
  BY <1>4, TopKnows DEF UpdateFine
<1>7. StillWaits(t) BY <1>1, <1>4, <1>5, WaitsKept
<1>8. TopFine(h)' /\ h.node = Below(t).node /\ h.op = Below(t).op /\ h.op # "mark"
  BY <1>3, <1>4, <1>5, <1>7, CallerFine
<1>9. /\ \A x \in Memos : ~Computing(f, x)
      /\ \A x \in Memos : Computing(Below(t), x) => Computing(h, x)
  BY <1>3, <1>4 DEF Computing, Is
<1>10. FrameInv(t)' BY <1>3, <1>7, <1>8, FrameReturned
<1>11. StillComputes(t)
  <2>1. f = stack[t][Depth(t)] BY <1>4, TopKnows
  <2> QED BY <1>3, <1>9, <2>1, ComputesReturned DEF StillComputes
<1>12. ~Idle(t)' /\ Top(t)'.op # "mark" BY <1>3, <1>8, TopAfter
<1>13. /\ \A x : ~ToBeMarked(t, x)
       /\ \A x, y : ~Reported(t, x, y) /\ ~Tracking(t, x, y)
  BY <1>4 DEF ToBeMarked, Reported, Tracking, At
<1>14. SourceInv(t)' BY <1>1, <1>5, <1>11 DEF SourceInv, StillComputes, ReadSet
<1>15. LinkInv(t)' BY <1>1, <1>5, <1>13 DEF LinkInv
<1>16. SeenInv' BY <1>1, <1>5 DEF SeenInv
<1>17. CleanInv(t)'
  <2> SUFFICES ASSUME NEW x \in Memos, NEW n \in Memos, n \in ToSet(subs[x]),
                      state'[n] = "Clean"
               PROVE  state'[x] = "Clean"
    BY <1>5 DEF CleanInv
  <2>1. state[x] = "Clean" => state'[x] = "Clean" BY <1>5
  <2>2. x \in ToSet(sources[n]) BY <1>1 DEF LinkInv, Sources
  <2>3. CASE state[n] = "Clean" BY <1>1, <1>13, <2>1, <2>3 DEF CleanInv
  <2>4. CASE state[n] # "Clean"
    <3>1. n = m /\ Checked(m, {}) BY <1>5, <1>6, <2>4
    <3> QED BY <2>1, <2>2, <3>1 DEF Checked
  <2> QED BY <2>3, <2>4
<1>18. FreshInv(t)'
  <2>1. \A n \in Memos : state'[n] # "Dirty" => state[n] # "Dirty" BY <1>5, <1>6
  <2>2. \A n \in Memos : ~Computes(t, n)' => ~Computes(t, n) BY <1>11 DEF StillComputes
  <2> QED BY <1>1, <1>5, <1>13, <2>1, <2>2 DEF FreshInv
<1>19. MarkInv(t)' BY <1>12 DEF MarkInv, At
<1>20. guards'[t] = {} BY <1>5 DEF MemoInv
<1> QED BY <1>10, <1>14, <1>15, <1>16, <1>17, <1>18, <1>19, <1>20 DEF MemoInv, TellInv

-----------------------------------------------------------------------------
(* A memo is computed *)

LEMMA UnsubscribeDistinct ==
  ASSUME NEW F, NEW q \in Seq(F), Distinct(q), NEW n
  PROVE  Distinct(Unsubscribe(q, n)) /\ n \notin ToSet(Unsubscribe(q, n))
<1>1. CASE n \notin ToSet(q) BY <1>1 DEF Unsubscribe
<1>2. CASE n \in ToSet(q)
  <2> DEFINE r == Unsubscribe(q, n)
  <2>1. PICK k \in 1..Len(q) :
          /\ q[k] = n /\ r \in Seq(F) /\ Len(r) = Len(q) - 1
          /\ \A i \in 1..(Len(q) - 1) : r[i] = IF i < k THEN q[i] ELSE q[i + 1]
    BY <1>2, UnsubscribeForm
  <2> HIDE DEF r
  <2> DEFINE p(i) == IF i < k THEN i ELSE i + 1
  <2>2. \A i \in 1..Len(r) : p(i) \in 1..Len(q) /\ p(i) # k /\ r[i] = q[p(i)] BY <2>1
  <2>3. \A i, j \in 1..Len(r) : p(i) = p(j) => i = j BY <2>1
  <2> HIDE DEF p
  <2>4. Distinct(r) BY <2>2, <2>3 DEF Distinct
  <2>5. \A i \in 1..Len(r) : r[i] # n BY <2>1, <2>2 DEF Distinct
  <2>6. n \notin ToSet(r) BY <2>1, <2>5 DEF ToSet
  <2> QED BY <2>4, <2>6 DEF r
<1> QED BY <1>1, <1>2

LEMMA SubscribeDistinct ==
  ASSUME NEW F, NEW q \in Seq(F), Distinct(q), NEW n \in F
  PROVE  Distinct(Subscribe(q, n))
<1>1. CASE n \in ToSet(q) BY <1>1 DEF Subscribe
<1>2. CASE n \notin ToSet(q)
  <2> DEFINE r == Append(q, n)
  <2>1. /\ r \in Seq(F) /\ Len(r) = Len(q) + 1 /\ Len(q) \in Nat
        /\ \A i \in 1..Len(q) : r[i] = q[i]
        /\ r[Len(q) + 1] = n
    OBVIOUS
  <2> HIDE DEF r
  <2>2. \A i \in 1..Len(q) : q[i] # n BY <1>2 DEF ToSet
  <2>3. Distinct(r) BY <2>1, <2>2 DEF Distinct
  <2> QED BY <1>2, <2>3 DEF Subscribe, r
<1> QED BY <1>1, <1>2

\* What clearing the sources of n leaves of the relation.
LEMMA ClearedLinks ==
  ASSUME StateInv, NEW n \in Subscribers, ClearSources(n), \A x \in Sources : Distinct(subs[x])
  PROVE  /\ \A x \in Sources : Distinct(subs'[x])
         /\ \A x \in Sources : ToSet(subs'[x]) \subseteq ToSet(subs[x])
         /\ \A x \in Sources, m \in Subscribers :
              m # n /\ m \in ToSet(subs[x]) => m \in ToSet(subs'[x])
         /\ \A x \in ToSet(sources[n]) : n \notin ToSet(subs'[x])
         /\ \A m \in Subscribers : m # n => sources'[m] = sources[m]
         /\ sources'[n] = <<>>
<1>1. /\ \A x \in Subscribers : sources'[x] = IF x = n THEN <<>> ELSE sources[x]
      /\ \A x \in Sources : subs'[x] = IF x \in ToSet(sources[n])
                                       THEN Unsubscribe(subs[x], n) ELSE subs[x]
  BY ClearSourcesTypes
<1>2. ASSUME NEW x \in Sources
      PROVE  /\ Distinct(Unsubscribe(subs[x], n)) /\ n \notin ToSet(Unsubscribe(subs[x], n))
             /\ ToSet(Unsubscribe(subs[x], n)) \subseteq ToSet(subs[x])
             /\ \A m \in ToSet(subs[x]) : m # n => m \in ToSet(Unsubscribe(subs[x], n))
  <2>1. subs[x] \in Seq(Subscribers) /\ Distinct(subs[x]) BY DEF StateInv
  <2>2. Distinct(Unsubscribe(subs[x], n)) /\ n \notin ToSet(Unsubscribe(subs[x], n))
    BY <2>1, UnsubscribeDistinct
  <2>3. /\ ToSet(Unsubscribe(subs[x], n)) \subseteq ToSet(subs[x])
        /\ \A m \in ToSet(subs[x]) : m # n => m \in ToSet(Unsubscribe(subs[x], n))
    BY <2>1, UnsubscribeSeq
  <2> QED BY <2>2, <2>3
<1>3. \A x \in ToSet(sources[n]) : x \in Sources
  <2>1. sources[n] \in Seq(Sources) BY DEF StateInv
  <2> QED BY <2>1 DEF ToSet
<1> QED BY <1>1, <1>2, <1>3

LEMMA StartMemoMemo ==
  ASSUME GraphInv, NEW t \in Threads, MemoInv(t), StartMemo(t)
  PROVE  MemoInv(t)'
<1> DEFINE f == Top(t)
           m == f.node
<1>1. /\ StateInv /\ StackInv /\ FrameInv(t) /\ SourceInv(t) /\ LinkInv(t) /\ SeenInv
      /\ CleanInv(t) /\ FreshInv(t)
  BY DEF GraphInv, MemoInv, TellInv
<1>2. At(t, "update", "clear") /\ m \in Memos BY <1>1, StartMemoShape
<1>3. PICK h, g : /\ Called(t, h, g) /\ Is(h, "update", m, "commit", f.todo, f.vals, f.ret)
                  /\ Is(g, "run", m, "next", <<>>, <<>>, FALSE)
  BY <1>1, StartMemoShape
<1>4. ~Idle(t) /\ f.op = "update" /\ f.pc = "clear" BY <1>2 DEF At
<1>5. UNCHANGED <<value, state, seen, guards>> BY DEF StartMemo
<1>6. /\ h.op = "update" /\ h.node = m /\ h.pc = "commit"
      /\ g.op = "run" /\ g.node = m /\ g.pc = "next" /\ g.vals = <<>>
  BY <1>3 DEF Is
<1>7. /\ \A x \in Sources : Distinct(subs'[x])
      /\ \A x \in Sources : ToSet(subs'[x]) \subseteq ToSet(subs[x])
      /\ \A x \in Sources, n \in Memos :
           n # m /\ n \in ToSet(subs[x]) => n \in ToSet(subs'[x])
      /\ \A x \in ToSet(sources[m]) : m \notin ToSet(subs'[x])
      /\ \A n \in Memos : n # m => sources'[n] = sources[n]
      /\ sources'[m] = <<>>
  <2>1. m \in Subscribers /\ Memos \subseteq Subscribers BY <1>2 DEF Subscribers
  <2>2. ClearSources(m) /\ \A x \in Sources : Distinct(subs[x])
    BY <1>1 DEF StartMemo, LinkInv
  <2> QED BY <1>1, <2>1, <2>2, ClearedLinks
<1>8. StillWaits(t) BY <1>1, <1>4, <1>5, <1>7, WaitsKept
<1>9. state[m] # "Clean" BY <1>4, TopKnows DEF UpdateFine
<1>10. WaitFine(h, g.node)' BY <1>5, <1>6, <1>9 DEF WaitFine
<1>11. TopFine(g)'
  <2>1. ToSet(<<>>) = {} /\ ReadSet(m, 0) = {} BY DEF ToSet, ReadSet
  <2>2. RunFine(g)' BY <1>6, <1>7, <2>1 DEF RunFine, Current, ReadSet
  <2> QED BY <1>6, <2>2 DEF TopFine
<1>12. FrameInv(t)'
  <2>1. h.node = stack[t][Depth(t)].node BY <1>4, <1>6, TopKnows
  <2> QED BY <1>3, <1>8, <1>10, <1>11, <2>1, FrameCalled
<1>13. StillComputes(t)
  <2>1. \A n \in Memos : ~Computing(stack[t][Depth(t)], n)
    <3>1. f = stack[t][Depth(t)] BY <1>4, TopKnows
    <3> QED BY <1>4, <3>1 DEF Computing
  <2> QED BY <1>3, <2>1, ComputesCalled DEF StillComputes
<1>14. \A n : n = m => Computes(t, n)'
  <2>1. Depth(t) \in 1..Depth(t)' /\ Computing(stack'[t][Depth(t)], m)
    BY <1>3, <1>6 DEF Called, Computing
  <2> QED BY <2>1 DEF Computes, Computing, Depth
<1>15. ~Idle(t)' /\ Top(t)'.op = "run" /\ Top(t)'.pc = "next" BY <1>3, <1>6, TopAfter
<1>16. /\ \A x : ~ToBeMarked(t, x)
       /\ \A x, y : ~Reported(t, x, y) /\ ~Tracking(t, x, y)
  BY <1>4 DEF ToBeMarked, Reported, Tracking, At
<1>17. SourceInv(t)'
  <2> SUFFICES ASSUME NEW n \in Memos, ~Computes(t, n)'
               PROVE  ToSet(sources'[n]) = ReadSet(n, Len(seen'[n]))
    BY DEF SourceInv, ReadSet
  <2>1. n # m BY <1>14
  <2>2. sources'[n] = sources[n] /\ seen'[n] = seen[n] BY <1>5, <1>7, <2>1
  <2>3. ToSet(sources[n]) = ReadSet(n, Len(seen[n]))
    BY <1>1, <1>13 DEF SourceInv, StillComputes
  <2> QED BY <2>2, <2>3
<1>18. LinkInv(t)'
  <2>1. ASSUME NEW x \in Sources, NEW n \in Memos, n \in ToSet(subs'[x])
        PROVE  x \in ToSet(sources'[n])
    <3>1. x \in ToSet(sources[n]) BY <1>1, <1>7, <2>1 DEF LinkInv
    <3>2. n # m BY <1>7, <2>1, <3>1
    <3> QED BY <1>7, <3>1, <3>2
  <2>2. ASSUME NEW x \in Sources, NEW n \in Memos, x \in ToSet(sources'[n])
        PROVE  n \in ToSet(subs'[x])
    <3>1. ToSet(<<>>) = {} BY DEF ToSet
    <3>2. n # m BY <1>7, <2>2, <3>1
    <3>3. n \in ToSet(subs[x]) BY <1>1, <1>7, <1>16, <2>2, <3>2 DEF LinkInv
    <3> QED BY <1>7, <3>2, <3>3
  <2> QED BY <1>7, <2>1, <2>2 DEF LinkInv
<1>19. SeenInv' BY <1>1, <1>5 DEF SeenInv
<1>20. CleanInv(t)' BY <1>1, <1>5, <1>7, <1>16 DEF CleanInv, Sources
<1>21. FreshInv(t)' BY <1>1, <1>5, <1>13, <1>16 DEF FreshInv, StillComputes
<1>22. MarkInv(t)' BY <1>15 DEF MarkInv, At
<1>23. guards'[t] = {} BY <1>5 DEF MemoInv
<1> QED BY <1>12, <1>17, <1>18, <1>19, <1>20, <1>21, <1>22, <1>23 DEF MemoInv, TellInv

\* What the result of a computation changes.
Stored(m, vals) ==
  /\ value'[m] = Compute(m, vals) /\ state'[m] = "Clean" /\ seen'[m] = vals
  /\ \A x \in Sources : x # m => value'[x] = value[x]
  /\ \A n \in Memos : n # m => state'[n] = state[n] /\ seen'[n] = seen[n]
  /\ UNCHANGED <<sources, subs, guards>>

LEMMA CommitMemoFacts ==
  ASSUME GraphInv, NEW t \in Threads, MemoInv(t), CommitMemo(t)
  PROVE  LET f == Top(t)
             m == f.node
         IN /\ At(t, "update", "value") /\ m \in Memos /\ f.vals \in Seq(Nat)
            /\ state[m] # "Clean" /\ Current(m, f.vals)
            /\ f.ret = (Compute(m, f.vals) # value[m])
            /\ ToSet(sources[m]) = ReadSet(m, Len(f.vals))
            /\ Len(f.vals) = ReadCount(m, f.vals)
            /\ \A j \in 1..Len(f.vals) : Reads[m][j] # m
            /\ Stored(m, f.vals)
<1> DEFINE f == Top(t)
           m == f.node
<1>1. StateInv /\ StackInv BY DEF GraphInv
<1>2. At(t, "update", "value") /\ m \in Memos /\ f.vals \in Seq(Nat) BY <1>1, CommitMemoShape
<1>3. ~Idle(t) /\ f.op = "update" /\ f.pc = "value" BY <1>2 DEF At
<1>4. UpdateFine(f) BY <1>3, TopKnows
<1>5. /\ state[m] # "Clean" /\ Current(m, f.vals)
      /\ f.ret = (Compute(m, f.vals) # value[m])
      /\ ToSet(sources[m]) = ReadSet(m, Len(f.vals))
      /\ Len(f.vals) = ReadCount(m, f.vals)
  BY <1>3, <1>4 DEF UpdateFine
<1>6. \A j \in 1..Len(f.vals) : Reads[m][j] # m
  <2> SUFFICES ASSUME NEW j \in 1..Len(f.vals) PROVE Reads[m][j] # m OBVIOUS
  <2>1. m \in Subscribers BY <1>2 DEF Subscribers
  <2>2. Reads[m][j] \in ToSet(Reads[m])
    <3>1. Len(Reads[m]) \in Nat /\ \A i \in 1..Len(Reads[m]) : Reads[m][i] \in ToSet(Reads[m])
      BY <2>1, ReadsFacts
    <3>2. Len(f.vals) \in Nat /\ Len(f.vals) <= Len(Reads[m]) BY <1>2, <1>5 DEF Current
    <3> QED BY <3>1, <3>2
  <2>3. \A x \in Memos : x \in ToSet(Reads[m]) => Rank[x] < Rank[m] /\ Rank[x] \in Nat
    BY <1>2, RankFalls
  <2> QED BY <1>2, <2>2, <2>3
<1>7. Stored(m, f.vals)
  BY <1>1, <1>2 DEF CommitMemo, StateInv, Stored, Sources, Subscribers
<1> QED BY <1>2, <1>5, <1>6, <1>7

\* The memos that have read another value of m are marked next.
LEMMA CommitTells ==
  ASSUME GraphInv, NEW t \in Threads, MemoInv(t), CommitMemo(t)
  PROVE  LET f == Top(t)
             m == f.node
         IN /\ ~f.ret => Answered(t, FALSE) /\ Calls(Below(t), f) /\ FrameOK(Below(t))
            /\ f.ret => \E h, g : /\ Called(t, h, g)
                                  /\ Is(h, "update", m, "changed", f.todo, f.vals, f.ret)
                                  /\ Is(g, "mark", m, "mark", MarkAll(ToMark(t, m), "dirty"), <<>>,
                                        FALSE)
            /\ \A n \in Memos : n \in ToSet(ToMark(t, m)) =>
                  n \in ToSet(subs[m]) /\ n # m /\ state[n] # "Clean"
            /\ \A n \in Memos : n \in ToSet(subs[m]) /\ ~Computes(t, n) =>
                  << n, "dirty" >> \in ToSet(MarkAll(ToMark(t, m), "dirty"))
            /\ \A p \in ToSet(MarkAll(ToMark(t, m), "dirty")) : p[1] \in ToSet(ToMark(t, m))
<1> DEFINE f == Top(t)
           m == f.node
           q == ToMark(t, m)
<1>1. StateInv /\ StackInv /\ LinkInv(t) /\ CleanInv(t)
  BY DEF GraphInv, MemoInv, TellInv
<1>2. /\ m \in Memos /\ At(t, "update", "value") /\ state[m] # "Clean"
      /\ ToSet(sources[m]) = ReadSet(m, Len(f.vals))
      /\ \A j \in 1..Len(f.vals) : Reads[m][j] # m
  BY CommitMemoFacts
<1>3. /\ q \in Seq(Subscribers) /\ ToSet(q) \subseteq ToSet(subs[m])
      /\ \A x \in ToSet(subs[m]) : x # Observer(t) => x \in ToSet(q)
  BY <1>1, <1>2, ToMarkSeq
<1>4. ToSet(MarkAll(q, "dirty")) = {<< n, "dirty" >> : n \in ToSet(q)} BY <1>3, MarkAllSet
<1>5. ASSUME NEW n \in Memos, n \in ToSet(q)
      PROVE  n \in ToSet(subs[m]) /\ n # m /\ state[n] # "Clean"
  <2>1. n \in ToSet(subs[m]) BY <1>3, <1>5
  <2>2. m \in ToSet(sources[n]) BY <1>1, <1>2, <2>1 DEF LinkInv, Sources
  <2>3. n # m BY <1>2, <2>2 DEF ReadSet
  <2>4. ~ToBeMarked(t, n) BY <1>2 DEF ToBeMarked, At
  <2>5. state[n] # "Clean" BY <1>1, <1>2, <2>1, <2>4 DEF CleanInv
  <2> QED BY <2>1, <2>3, <2>5
<1>6. ASSUME NEW n \in Memos, n \in ToSet(subs[m]), ~Computes(t, n)
      PROVE  << n, "dirty" >> \in ToSet(MarkAll(q, "dirty"))
  <2>1. n # Observer(t) BY <1>1, <1>6, ObserverComputes
  <2> QED BY <1>3, <1>4, <1>6, <2>1
<1>7. \A p \in ToSet(MarkAll(q, "dirty")) : p[1] \in ToSet(q) BY <1>4
<1>8. /\ Calls(Below(t), f) /\ FrameOK(Below(t))
      /\ \/ ~f.ret /\ Answered(t, FALSE)
         \/ /\ f.ret
            /\ \E h, g : /\ Called(t, h, g)
                         /\ Is(h, "update", m, "changed", f.todo, f.vals, f.ret)
                         /\ Is(g, "mark", m, "mark", MarkAll(ToMark(t, m), "dirty"), <<>>, FALSE)
  BY <1>1, CommitMemoShape
<1> HIDE DEF f, m, q
<1> QED BY <1>5, <1>6, <1>7, <1>8 DEF f, m, q

LEMMA CommitFrames ==
  ASSUME GraphInv, NEW t \in Threads, MemoInv(t), CommitMemo(t)
  PROVE  FrameInv(t)' /\ \A n \in Memos : n # Top(t).node /\ Computes(t, n) => Computes(t, n)'
<1> DEFINE f == Top(t)
           m == f.node
<1>1. StateInv /\ StackInv /\ FrameInv(t) BY DEF GraphInv, MemoInv
<1>2. /\ m \in Memos /\ At(t, "update", "value") /\ state[m] # "Clean" /\ Stored(m, f.vals)
  BY CommitMemoFacts
<1>3. ~Idle(t) /\ f.op = "update" /\ f.pc = "value" BY <1>2 DEF At
<1>4. StillWaits(t) BY <1>1, <1>2, <1>3, WaitsKept DEF Stored
<1>5. \A n : n # m => ~Computing(stack[t][Depth(t)], n)
  <2>1. f = stack[t][Depth(t)] BY <1>3, TopKnows
  <2> QED BY <2>1 DEF Computing
<1>6. CASE f.ret
  <2>1. PICK h, g : /\ Called(t, h, g)
                    /\ Is(h, "update", m, "changed", f.todo, f.vals, f.ret)
                    /\ Is(g, "mark", m, "mark", MarkAll(ToMark(t, m), "dirty"), <<>>, FALSE)
    BY <1>6, CommitTells
  <2>2. h.op = "update" /\ h.node = m /\ h.pc = "changed" /\ g.op = "mark" BY <2>1 DEF Is
  <2>3. WaitFine(h, g.node)' BY <1>2, <2>2 DEF WaitFine, Stored
  <2>4. TopFine(g)' BY <2>2 DEF TopFine
  <2>5. h.node = stack[t][Depth(t)].node BY <1>3, <2>2, TopKnows
  <2>6. FrameInv(t)' BY <1>4, <2>1, <2>3, <2>4, <2>5, FrameCalled
  <2>7. \A n \in Memos : n # m /\ Computes(t, n) => Computes(t, n)'
    BY <1>5, <2>1, ComputesCalled
  <2> QED BY <2>6, <2>7
<1>7. CASE ~f.ret
  <2>1. PICK h : /\ Returned(t, h)
                 /\ Is(h, Below(t).op, Below(t).node, Below(t).pc, Below(t).todo, Below(t).vals,
                       FALSE)
    BY <1>7, CommitTells DEF Answered
  <2>2. TopFine(h)' /\ h.node = Below(t).node
    BY <1>2, <1>3, <1>4, <2>1, CallerFine DEF Stored
  <2>3. FrameInv(t)' BY <1>4, <2>1, <2>2, FrameReturned
  <2>4. \A n : Computing(Below(t), n) => Computing(h, n) BY <2>1 DEF Is, Computing
  <2>5. \A n \in Memos : n # m /\ Computes(t, n) => Computes(t, n)'
    BY <1>5, <2>1, <2>4, ComputesReturned
  <2> QED BY <2>3, <2>5
<1> QED BY <1>6, <1>7

LEMMA CommitReports ==
  ASSUME GraphInv, NEW t \in Threads, MemoInv(t), CommitMemo(t)
  PROVE  /\ ~Top(t).ret => ~Idle(t)' /\ Top(t)'.op # "mark"
         /\ Top(t).ret => /\ ~Idle(t)' /\ Top(t)'.op = "mark" /\ Top(t)'.pc = "mark"
                          /\ Top(t)'.todo = MarkAll(ToMark(t, Top(t).node), "dirty")
<1> DEFINE f == Top(t)
           m == f.node
<1>1. CASE f.ret
  <2>1. PICK h, g : /\ Called(t, h, g)
                    /\ Is(h, "update", m, "changed", f.todo, f.vals, f.ret)
                    /\ Is(g, "mark", m, "mark", MarkAll(ToMark(t, m), "dirty"), <<>>, FALSE)
    BY <1>1, CommitTells
  <2>2. ~Idle(t)' /\ Top(t)' = g BY <2>1, TopAfter
  <2> QED BY <1>1, <2>1, <2>2 DEF Is
<1>2. CASE ~f.ret
  <2>1. PICK h : /\ Returned(t, h)
                 /\ Is(h, Below(t).op, Below(t).node, Below(t).pc, Below(t).todo, Below(t).vals,
                       FALSE)
    BY <1>2, CommitTells DEF Answered
  <2>2. ~Idle(t)' /\ Top(t)' = h BY <2>1, TopAfter
  <2>3. At(t, "update", "value") BY CommitMemoFacts
  <2>4. Calls(Below(t), f) /\ f.op = "update" BY <1>2, <2>3, CommitTells DEF At
  <2>5. Below(t).op # "mark" BY <2>4 DEF Calls
  <2> QED BY <1>2, <2>1, <2>2, <2>5 DEF Is
<1> QED BY <1>1, <1>2

LEMMA CommitMemoMemo ==
  ASSUME GraphInv, NEW t \in Threads, MemoInv(t), CommitMemo(t)
  PROVE  MemoInv(t)'
<1> DEFINE f == Top(t)
           m == f.node
           marks == MarkAll(ToMark(t, m), "dirty")
<1>1. /\ StateInv /\ SourceInv(t) /\ LinkInv(t) /\ SeenInv /\ CleanInv(t) /\ FreshInv(t)
  BY DEF GraphInv, MemoInv, TellInv
<1>2. /\ m \in Memos /\ At(t, "update", "value") /\ state[m] # "Clean" /\ Stored(m, f.vals)
      /\ Current(m, f.vals) /\ f.ret = (Compute(m, f.vals) # value[m])
      /\ ToSet(sources[m]) = ReadSet(m, Len(f.vals)) /\ Len(f.vals) = ReadCount(m, f.vals)
      /\ \A j \in 1..Len(f.vals) : Reads[m][j] # m
  BY CommitMemoFacts
<1>3. FrameInv(t)' /\ \A n \in Memos : n # m /\ Computes(t, n) => Computes(t, n)'
  BY CommitFrames
<1>4. /\ ~f.ret => ~Idle(t)' /\ Top(t)'.op # "mark"
      /\ f.ret => ~Idle(t)' /\ Top(t)'.op = "mark" /\ Top(t)'.pc = "mark" /\ Top(t)'.todo = marks
  BY CommitReports
<1>5. /\ \A n \in Memos : n \in ToSet(ToMark(t, m)) =>
           n \in ToSet(subs[m]) /\ n # m /\ state[n] # "Clean"
      /\ \A n \in Memos : n \in ToSet(subs[m]) /\ ~Computes(t, n) => << n, "dirty" >> \in ToSet(marks)
      /\ \A p \in ToSet(marks) : p[1] \in ToSet(ToMark(t, m))
  BY CommitTells
<1>6. /\ \A x : ~ToBeMarked(t, x)
      /\ \A x, y : ~Reported(t, x, y) /\ ~Tracking(t, x, y)
  BY <1>2 DEF ToBeMarked, Reported, Tracking, At
<1>7. guards'[t] = {} BY <1>2 DEF MemoInv, Stored
<1> HIDE DEF f, m, marks
<1>8. SourceInv(t)'
  <2> SUFFICES ASSUME NEW n \in Memos, ~Computes(t, n)'
               PROVE  ToSet(sources'[n]) = ReadSet(n, Len(seen'[n]))
    BY DEF SourceInv, ReadSet
  <2>1. CASE n = m BY <1>2, <2>1 DEF Stored
  <2>2. CASE n # m BY <1>1, <1>2, <1>3, <2>2 DEF SourceInv, Stored
  <2> QED BY <2>1, <2>2
<1>9. LinkInv(t)' BY <1>1, <1>2, <1>6 DEF LinkInv, Stored
<1>10. SeenInv'
  <2> SUFFICES ASSUME NEW n \in Memos
               PROVE  /\ Len(seen'[n]) <= Len(Reads[n])
                      /\ value'[n] # NoValue => /\ Len(seen'[n]) = ReadCount(n, seen'[n])
                                                /\ value'[n] = Compute(n, seen'[n])
    BY DEF SeenInv
  <2>1. CASE n = m BY <1>2, <2>1 DEF Stored, Current
  <2>2. CASE n # m
    <3>1. n \in Sources BY DEF Sources
    <3> QED BY <1>1, <1>2, <2>2, <3>1 DEF Stored, SeenInv
  <2> QED BY <2>1, <2>2
<1>11. CleanInv(t)'
  <2> SUFFICES ASSUME NEW x \in Memos, NEW n \in Memos, n \in ToSet(subs[x]),
                      state'[n] = "Clean"
               PROVE  state'[x] = "Clean"
    BY <1>2 DEF CleanInv, Stored
  <2>1. state[x] = "Clean" => state'[x] = "Clean" BY <1>2 DEF Stored
  <2>2. x \in ToSet(sources[n]) BY <1>1 DEF LinkInv, Sources
  <2>3. CASE n = m
    <3>1. PICK j \in 1..Len(f.vals) : x = Reads[m][j] BY <1>2, <2>2, <2>3 DEF ReadSet
    <3> QED BY <1>2, <2>1, <3>1 DEF Current
  <2>4. CASE n # m
    <3>1. state[n] = "Clean" BY <1>2, <2>4 DEF Stored
    <3> QED BY <1>1, <1>6, <2>1, <3>1 DEF CleanInv
  <2> QED BY <2>3, <2>4
<1>12. FreshInv(t)'
  <2> SUFFICES ASSUME NEW n \in Memos, ~Computes(t, n)', state'[n] # "Dirty",
                      NEW j \in 1..Len(seen'[n])
               PROVE  seen'[n][j] = value'[Reads[n][j]] \/ Reported(t, n, Reads[n][j])'
    BY DEF FreshInv
  <2>1. CASE n = m
    <3>1. j \in 1..Len(f.vals) /\ seen'[n][j] = f.vals[j] BY <1>2, <2>1 DEF Stored
    <3>2. f.vals[j] = value[Reads[n][j]] /\ Reads[n][j] # m BY <1>2, <2>1, <3>1 DEF Current
    <3>3. Reads[n][j] \in Sources
      <4>1. n \in Subscribers BY DEF Subscribers
      <4>2. Len(Reads[n]) \in Nat /\ \A i \in 1..Len(Reads[n]) : Reads[n][i] \in Sources
        BY <4>1, ReadsFacts
      <4>3. Len(f.vals) \in Nat /\ Len(f.vals) <= Len(Reads[n])
        <5>1. f.vals \in Seq(Nat) BY CommitMemoFacts DEF f
        <5> QED BY <1>2, <2>1, <5>1 DEF Current
      <4> QED BY <3>1, <4>2, <4>3
    <3>4. value'[Reads[n][j]] = value[Reads[n][j]] BY <1>2, <3>2, <3>3 DEF Stored
    <3> QED BY <3>1, <3>2, <3>4
  <2>2. CASE n # m
    <3>1. /\ ~Computes(t, n) /\ state[n] # "Dirty" /\ j \in 1..Len(seen[n])
          /\ seen'[n] = seen[n]
      BY <1>2, <1>3, <2>2 DEF Stored
    <3>2. seen[n][j] = value[Reads[n][j]] BY <1>1, <1>6, <3>1 DEF FreshInv
    <3>3. Reads[n][j] \in ToSet(sources[n]) BY <1>1, <3>1 DEF SourceInv, ReadSet
    <3>4. Reads[n][j] \in Sources
      <4>1. sources[n] \in Seq(Sources) BY <1>1 DEF StateInv, Subscribers
      <4> QED BY <3>3, <4>1 DEF ToSet
    <3>5. CASE Reads[n][j] # m
      <4>1. value'[Reads[n][j]] = value[Reads[n][j]] BY <1>2, <3>4, <3>5 DEF Stored
      <4> QED BY <3>1, <3>2, <4>1
    <3>6. CASE Reads[n][j] = m
      <4>1. CASE f.ret
        <5>1. n \in ToSet(subs[m]) BY <1>1, <1>6, <3>3, <3>4, <3>6 DEF LinkInv
        <5>2. << n, "dirty" >> \in ToSet(marks) BY <1>5, <3>1, <5>1
        <5>3. Reported(t, n, Reads[n][j])' BY <1>4, <4>1, <5>2 DEF Reported, At
        <5> QED BY <5>3
      <4>2. CASE ~f.ret
        <5>1. value'[m] = value[m] BY <1>2, <4>2 DEF Stored
        <5> QED BY <3>1, <3>2, <3>6, <5>1
      <4> QED BY <4>1, <4>2
    <3> QED BY <3>5, <3>6
  <2> QED BY <2>1, <2>2
<1>13. MarkInv(t)'
  <2>1. CASE ~f.ret BY <1>4, <2>1 DEF MarkInv, At
  <2>2. CASE f.ret
    <3>1. \A p \in ToSet(marks) : p[1] \in Memos => state'[p[1]] # "Clean"
      BY <1>2, <1>5 DEF Stored
    <3> QED BY <1>4, <2>2, <3>1 DEF MarkInv
  <2> QED BY <2>1, <2>2
<1> QED BY <1>3, <1>7, <1>8, <1>9, <1>10, <1>11, <1>12, <1>13 DEF MemoInv, TellInv

-----------------------------------------------------------------------------
(* Functions read *)

\* One more read.
LEMMA ReadSetGrows ==
  ASSUME NEW n, NEW k \in Nat
  PROVE  ReadSet(n, k + 1) = ReadSet(n, k) \cup {Reads[n][k + 1]}
BY DEF ReadSet

\* A memo whose function runs is being computed.
LEMMA TopRunComputes ==
  ASSUME GraphInv, NEW t \in Threads, MemoInv(t), ~Idle(t), Top(t).op = "run",
         Top(t).node \in Memos
  PROVE  Computes(t, Top(t).node) /\ state[Top(t).node] # "Clean" /\ RunFine(Top(t))
<1>1. StackInv /\ FrameInv(t) BY DEF GraphInv, MemoInv
<1>2. Top(t) = stack[t][Depth(t)] /\ Depth(t) \in 1..Depth(t) BY <1>1, TopFacts
<1>3. Computes(t, Top(t).node) BY <1>1, <1>2, RunComputes
<1>4. state[Top(t).node] # "Clean" BY <1>1, <1>3, ComputesNotClean
<1> QED BY <1>3, <1>4, TopKnows

LEMMA AddSourceMemo ==
  ASSUME GraphInv, NEW t \in Threads, MemoInv(t), AddSource(t)
  PROVE  MemoInv(t)'
<1> DEFINE f == Top(t)
           m == f.node
           x == NextRead(f)
<1>1. /\ StateInv /\ StackInv /\ FrameInv(t) /\ SourceInv(t) /\ LinkInv(t) /\ SeenInv
      /\ CleanInv(t) /\ FreshInv(t)
  BY DEF GraphInv, MemoInv, TellInv
<1>2. At(t, "run", "next") /\ m \in Subscribers /\ x \in Sources BY <1>1, AddSourceShape
<1>3. PICK h : Replaced(t, h) /\ Is(h, "run", m, "track", f.todo, f.vals, f.ret)
  BY <1>1, AddSourceShape
<1>4. ~Idle(t) /\ f.op = "run" /\ f.pc = "next" BY <1>2 DEF At
<1>5. /\ UNCHANGED <<value, state, subs, seen, guards>>
      /\ sources'[m] = Subscribe(sources[m], x)
      /\ \A n \in Memos : n # m => sources'[n] = sources[n]
  BY <1>1, <1>2 DEF AddSource, StateInv, Subscribers
<1>6. h.op = "run" /\ h.node = m /\ h.pc = "track" /\ h.vals = f.vals BY <1>3 DEF Is
<1>7. ToSet(sources'[m]) = ToSet(sources[m]) \cup {x}
  <2>1. sources[m] \in Seq(Sources) BY <1>1, <1>2 DEF StateInv
  <2> QED BY <1>2, <1>5, <2>1, SubscribeSeq
<1>8. \A n \in Memos : n = m => /\ Computes(t, n) /\ state[n] # "Clean" /\ RunFine(f)
  BY <1>4, TopRunComputes
<1>9. TopFine(h)'
  <2>1. ASSUME m \in Memos PROVE RunFine(h)'
    <3>1. /\ Current(m, f.vals) /\ ToSet(sources[m]) = ReadSet(m, Len(f.vals))
      BY <1>4, <1>8, <2>1 DEF RunFine
    <3>2. Len(f.vals) \in Nat BY <1>1, <1>4, RunTop
    <3>3. ToSet(sources'[m]) = ReadSet(m, Len(f.vals) + 1)
      BY <1>7, <3>1, <3>2, ReadSetGrows DEF NextRead
    <3>4. Current(h.node, h.vals)' BY <1>5, <1>6, <3>1 DEF Current
    <3>5. ToSet(sources'[h.node]) = ReadSet(h.node, Len(h.vals) + 1) BY <1>6, <3>3
    <3> QED BY <1>6, <3>4, <3>5 DEF RunFine, ReadSet
  <2> QED BY <1>6, <2>1 DEF TopFine
<1>10. StillWaits(t) BY <1>1, <1>4, <1>5, WaitsKept
<1>11. f = stack[t][Depth(t)] BY <1>4, TopKnows
<1>12. FrameInv(t)' BY <1>3, <1>6, <1>9, <1>10, <1>11, FrameReplaced
<1>13. StillComputes(t)
  <2>1. \A n \in Memos : ~Computing(stack[t][Depth(t)], n) BY <1>4, <1>11 DEF Computing
  <2> QED BY <1>3, <2>1, ComputesReplaced DEF StillComputes
<1>14. ~Idle(t)' /\ Top(t)' = h BY <1>3, TopAfter
<1>15. /\ \A n : ~ToBeMarked(t, n)
       /\ \A n, y : ~Reported(t, n, y) /\ ~Tracking(t, n, y)
  BY <1>4 DEF ToBeMarked, Reported, Tracking, At
<1>16. SourceInv(t)' BY <1>1, <1>5, <1>8, <1>13 DEF SourceInv, StillComputes, ReadSet
<1>17. LinkInv(t)'
  <2>1. ASSUME NEW y \in Sources, NEW n \in Memos, n \in ToSet(subs[y])
        PROVE  y \in ToSet(sources'[n])
    BY <1>1, <1>5, <1>7, <2>1 DEF LinkInv
  <2>2. ASSUME NEW y \in Sources, NEW n \in Memos, y \in ToSet(sources'[n])
        PROVE  n \in ToSet(subs[y]) \/ Tracking(t, n, y)'
    <3>1. CASE y \in ToSet(sources[n]) BY <1>1, <1>15, <3>1 DEF LinkInv
    <3>2. CASE y \notin ToSet(sources[n])
      <4>1. n = m /\ y = x BY <1>5, <1>7, <2>2, <3>2
      <4>2. NextRead(h) = x BY <1>6 DEF NextRead
      <4>3. At(t, "run", "track")' /\ Top(t)'.node = n BY <1>6, <1>14, <4>1 DEF At
      <4>4. NextRead(Top(t))' = y BY <1>14, <4>1, <4>2 DEF NextRead
      <4> QED BY <4>3, <4>4 DEF Tracking
    <3> QED BY <3>1, <3>2
  <2> QED BY <1>1, <1>5, <2>1, <2>2 DEF LinkInv
<1>18. SeenInv' BY <1>1, <1>5 DEF SeenInv
<1>19. CleanInv(t)' BY <1>1, <1>5, <1>15 DEF CleanInv
<1>20. FreshInv(t)' BY <1>1, <1>5, <1>13, <1>15 DEF FreshInv, StillComputes
<1>21. MarkInv(t)' BY <1>6, <1>14 DEF MarkInv, At
<1>22. guards'[t] = {} BY <1>5 DEF MemoInv
<1> QED BY <1>12, <1>16, <1>17, <1>18, <1>19, <1>20, <1>21, <1>22 DEF MemoInv, TellInv

LEMMA ReadValueMemo ==
  ASSUME GraphInv, NEW t \in Threads, MemoInv(t), ReadValue(t)
  PROVE  MemoInv(t)'
<1> DEFINE f == Top(t)
           m == f.node
           x == NextRead(f)
           vals == Append(f.vals, value[x])
<1>1. StateInv /\ StackInv /\ ValueInv BY DEF GraphInv
<1>2. /\ At(t, "run", "read") /\ m \in Subscribers /\ value[x] \in Nat
      /\ Len(f.vals) + 1 \in 1..Len(Reads[m]) /\ f.vals \in Seq(Nat)
  BY <1>1, ReadValueShape
<1>3. PICK h : Replaced(t, h) /\ Is(h, "run", m, "next", f.todo, vals, f.ret)
  BY <1>1, ReadValueShape
<1>4. ~Idle(t) /\ f.op = "run" /\ f.pc = "read" BY <1>2 DEF At
<1>5. GraphKept /\ guards'[t] = guards[t] BY KeptByStack DEF ReadValue, graph
<1>6. h.op = "run" /\ h.node = m /\ h.pc = "next" /\ h.vals = vals BY <1>3 DEF Is
<1>7. /\ vals \in Seq(Nat) /\ Len(vals) = Len(f.vals) + 1 /\ Len(f.vals) \in Nat
      /\ \A j \in 1..Len(f.vals) : vals[j] = f.vals[j]
      /\ vals[Len(f.vals) + 1] = value[x]
  BY <1>2
<1> HIDE DEF vals
<1>8. TopFine(h)
  <2>1. ASSUME m \in Memos PROVE RunFine(h)
    <3>1. /\ Current(m, f.vals) /\ ToSet(sources[m]) = ReadSet(m, Len(f.vals) + 1)
          /\ x \in Memos => state[x] = "Clean"
      BY <1>4, <2>1, TopRunComputes DEF RunFine
    <3>2. Reads[m][Len(f.vals) + 1] = x BY DEF NextRead
    <3>3. Current(m, vals)
      <4>1. Len(vals) <= Len(Reads[m]) BY <1>2, <1>7
      <4>2. ASSUME NEW j \in 1..Len(vals)
            PROVE  /\ vals[j] = value[Reads[m][j]]
                   /\ Reads[m][j] \in Memos => state[Reads[m][j]] = "Clean"
        <5>1. CASE j = Len(f.vals) + 1 BY <1>7, <3>1, <3>2, <5>1
        <5>2. CASE j # Len(f.vals) + 1
          <6>1. j \in 1..Len(f.vals) BY <1>7, <5>2
          <6> QED BY <1>7, <3>1, <6>1 DEF Current
        <5> QED BY <5>1, <5>2
      <4> QED BY <4>1, <4>2 DEF Current
    <3> QED BY <1>6, <1>7, <3>1, <3>3 DEF RunFine
  <2> QED BY <1>6, <2>1 DEF TopFine
<1>9. TopFine(h)' BY <1>5, <1>6, <1>8, TopFineKept
<1>10. \A n \in Memos : ~Computing(f, n) BY <1>4 DEF Computing
<1>11. f.op # "mark" /\ h.op # "mark" /\ ~At(t, "run", "track") BY <1>4, <1>6 DEF At
<1> HIDE DEF f, m
<1> QED BY <1>3, <1>4, <1>5, <1>6, <1>9, <1>10, <1>11, QuietReplaced DEF f, m

LEMMA EndMemoMemo ==
  ASSUME GraphInv, NEW t \in Threads, MemoInv(t), EndMemo(t)
  PROVE  MemoInv(t)'
<1> DEFINE f == Top(t)
           m == f.node
<1>1. StateInv /\ StackInv BY DEF GraphInv
<1>2. /\ At(t, "run", "next") /\ m \in Memos /\ f.vals \in Seq(Nat)
      /\ Len(f.vals) = ReadCount(m, f.vals)
      /\ Below(t).op = "update" /\ Below(t).pc = "commit" /\ Below(t).node = m
  BY <1>1, EndMemoShape
<1>3. PICK h : /\ Returned(t, h)
               /\ Is(h, "update", m, "commit", Below(t).todo, f.vals,
                     Compute(m, f.vals) # value[m])
  BY <1>1, EndMemoShape
<1>4. ~Idle(t) /\ f.op = "run" /\ f.pc = "next" BY <1>2 DEF At
<1>5. GraphKept /\ guards'[t] = guards[t] BY KeptByStack DEF EndMemo, graph
<1>6. /\ h.op = "update" /\ h.node = m /\ h.pc = "commit" /\ h.vals = f.vals
      /\ h.ret = (Compute(m, f.vals) # value[m])
  BY <1>3 DEF Is
<1>7. /\ Current(m, f.vals) /\ ToSet(sources[m]) = ReadSet(m, Len(f.vals))
      /\ state[m] # "Clean"
  BY <1>2, <1>4, TopRunComputes DEF RunFine
<1>8. TopFine(h) BY <1>2, <1>6, <1>7 DEF TopFine, UpdateFine
<1>9. TopFine(h)' BY <1>2, <1>5, <1>6, <1>8, TopFineKept
<1>10. \A n \in Memos : ~Computing(f, n) BY <1>4 DEF Computing
<1>11. \A n \in Memos : Computing(Below(t), n) => Computing(h, n) BY <1>2, <1>6 DEF Computing
<1>12. f.op # "mark" /\ h.op # "mark" /\ ~At(t, "run", "track") /\ h.node = Below(t).node
  BY <1>2, <1>4, <1>6 DEF At
<1> HIDE DEF f, m
<1> QED BY <1>3, <1>4, <1>5, <1>9, <1>10, <1>11, <1>12, QuietReturned DEF f, m

LEMMA AddSubscriberFrames ==
  ASSUME GraphInv, NEW t \in Threads, MemoInv(t), AddSubscriber(t)
  PROVE  FrameInv(t)' /\ StillComputes(t) /\ Top(t)'.op # "mark" /\ Top(t)'.pc # "track"
<1> DEFINE f == Top(t)
           m == f.node
           x == NextRead(f)
<1>1. StateInv /\ StackInv /\ FrameInv(t) BY DEF GraphInv, MemoInv
<1>2. At(t, "run", "track") /\ m \in Subscribers BY <1>1, AddSubscriberShape
<1>3. ~Idle(t) /\ f.op = "run" /\ f.pc = "track" BY <1>2 DEF At
<1>4. UNCHANGED <<value, state, sources>> BY DEF AddSubscriber
<1>5. StillWaits(t) BY <1>1, <1>3, <1>4, WaitsKept
<1>6. f = stack[t][Depth(t)] BY <1>3, TopKnows
<1>7. \A n \in Memos : ~Computing(stack[t][Depth(t)], n) BY <1>3, <1>6 DEF Computing
<1>8. m \in Memos => /\ Current(m, f.vals) /\ ToSet(sources[m]) = ReadSet(m, Len(f.vals) + 1)
  BY <1>3, TopKnows DEF RunFine
<1>9. \/ /\ x \in Signals
         /\ \E h : Replaced(t, h) /\ Is(h, "run", m, "read", f.todo, f.vals, f.ret)
      \/ /\ x \in Memos
         /\ \E h, g : /\ Called(t, h, g) /\ Is(h, "run", m, "read", f.todo, f.vals, f.ret)
                      /\ Is(g, "update", x, "state", <<>>, <<>>, FALSE)
  BY <1>1, AddSubscriberShape
<1>10. ASSUME NEW h, Is(h, "run", m, "read", f.todo, f.vals, f.ret)
       PROVE  /\ h.op = "run" /\ h.node = m /\ h.pc = "read" /\ h.vals = f.vals
              /\ NextRead(h) = x
              /\ m \in Memos => /\ Current(h.node, h.vals)'
                                /\ ToSet(sources'[h.node]) = ReadSet(h.node, Len(h.vals) + 1)
  <2>1. h.op = "run" /\ h.node = m /\ h.pc = "read" /\ h.vals = f.vals BY <1>10 DEF Is
  <2>2. NextRead(h) = x BY <2>1 DEF NextRead
  <2>3. m \in Memos => Current(h.node, h.vals)' BY <1>4, <1>8, <2>1 DEF Current
  <2> QED BY <1>4, <1>8, <2>1, <2>2, <2>3
<1>11. CASE x \in Signals
            /\ \E h : Replaced(t, h) /\ Is(h, "run", m, "read", f.todo, f.vals, f.ret)
  <2>1. PICK h : Replaced(t, h) /\ Is(h, "run", m, "read", f.todo, f.vals, f.ret) BY <1>11
  <2>2. /\ h.op = "run" /\ h.node = m /\ h.pc = "read" /\ h.vals = f.vals /\ NextRead(h) = x
        /\ m \in Memos => /\ Current(h.node, h.vals)'
                          /\ ToSet(sources'[h.node]) = ReadSet(h.node, Len(h.vals) + 1)
    BY <1>10, <2>1
  <2>3. NextRead(h) \notin Memos BY <1>11, <2>2, KindsAssumption
  <2>4. m \in Memos => RunFine(h)' BY <2>2, <2>3 DEF RunFine, ReadSet, NextRead
  <2>5. TopFine(h)' BY <2>2, <2>4 DEF TopFine
  <2>6. FrameInv(t)' BY <1>5, <1>6, <2>1, <2>2, <2>5, FrameReplaced
  <2>7. StillComputes(t) BY <1>7, <2>1, ComputesReplaced DEF StillComputes
  <2>8. Top(t)' = h BY <2>1, TopAfter
  <2> QED BY <2>2, <2>6, <2>7, <2>8
<1>12. CASE /\ x \in Memos
            /\ \E h, g : /\ Called(t, h, g) /\ Is(h, "run", m, "read", f.todo, f.vals, f.ret)
                         /\ Is(g, "update", x, "state", <<>>, <<>>, FALSE)
  <2>1. PICK h, g : /\ Called(t, h, g) /\ Is(h, "run", m, "read", f.todo, f.vals, f.ret)
                    /\ Is(g, "update", x, "state", <<>>, <<>>, FALSE)
    BY <1>12
  <2>2. /\ h.op = "run" /\ h.node = m /\ h.pc = "read" /\ h.vals = f.vals /\ NextRead(h) = x
        /\ m \in Memos => /\ Current(h.node, h.vals)'
                          /\ ToSet(sources'[h.node]) = ReadSet(h.node, Len(h.vals) + 1)
    BY <1>10, <2>1
  <2>3. g.op = "update" /\ g.pc = "state" BY <2>1 DEF Is
  <2>4. WaitFine(h, g.node)' BY <2>2 DEF WaitFine, ReadSet
  <2>5. TopFine(g)' BY <2>3 DEF TopFine, UpdateFine
  <2>6. FrameInv(t)' BY <1>5, <1>6, <2>1, <2>2, <2>4, <2>5, FrameCalled
  <2>7. StillComputes(t) BY <1>7, <2>1, ComputesCalled DEF StillComputes
  <2>8. Top(t)' = g BY <2>1, TopAfter
  <2> QED BY <2>3, <2>6, <2>7, <2>8
<1> QED BY <1>9, <1>11, <1>12

LEMMA AddSubscriberMemo ==
  ASSUME GraphInv, NEW t \in Threads, MemoInv(t), AddSubscriber(t)
  PROVE  MemoInv(t)'
<1> DEFINE f == Top(t)
           m == f.node
           x == NextRead(f)
<1>1. /\ StateInv /\ StackInv /\ SourceInv(t) /\ LinkInv(t) /\ SeenInv
      /\ CleanInv(t) /\ FreshInv(t)
  BY DEF GraphInv, MemoInv, TellInv
<1>2. At(t, "run", "track") /\ m \in Subscribers /\ x \in Sources BY <1>1, AddSubscriberShape
<1>3. ~Idle(t) /\ f.op = "run" /\ f.pc = "track" BY <1>2 DEF At
<1>4. /\ UNCHANGED <<value, state, sources, seen, guards>>
      /\ subs'[x] = Subscribe(subs[x], m)
      /\ \A y \in Sources : y # x => subs'[y] = subs[y]
  BY <1>1, <1>2 DEF AddSubscriber, StateInv
<1>5. /\ FrameInv(t)' /\ StillComputes(t) /\ Top(t)'.op # "mark" /\ Top(t)'.pc # "track"
  BY AddSubscriberFrames
<1>6. ToSet(subs'[x]) = ToSet(subs[x]) \cup {m} /\ Distinct(subs'[x])
  <2>1. subs[x] \in Seq(Subscribers) /\ Distinct(subs[x]) BY <1>1, <1>2 DEF StateInv, LinkInv
  <2> QED BY <1>2, <1>4, <2>1, SubscribeSeq, SubscribeDistinct
<1>7. \A n \in Memos : n = m => /\ state[n] # "Clean" /\ x \in ToSet(sources[n])
  <2> SUFFICES ASSUME m \in Memos PROVE state[m] # "Clean" /\ x \in ToSet(sources[m]) OBVIOUS
  <2>1. state[m] # "Clean" /\ ToSet(sources[m]) = ReadSet(m, Len(f.vals) + 1)
    BY <1>3, TopRunComputes DEF RunFine
  <2>2. Len(f.vals) \in Nat BY <1>1, <1>3, RunTop
  <2>3. x = Reads[m][Len(f.vals) + 1] BY DEF NextRead
  <2>4. ReadSet(m, Len(f.vals) + 1) = ReadSet(m, Len(f.vals)) \cup {Reads[m][Len(f.vals) + 1]}
    BY <2>2, ReadSetGrows
  <2> QED BY <2>1, <2>3, <2>4
<1>8. /\ \A n : ~ToBeMarked(t, n)
      /\ \A n, y : ~Reported(t, n, y) /\ (Tracking(t, n, y) => n = m /\ y = x)
  BY <1>3 DEF ToBeMarked, Reported, Tracking, At
<1> HIDE DEF f, m, x
<1>9. LinkInv(t)'
  <2>1. \A y \in Sources : Distinct(subs'[y]) BY <1>1, <1>4, <1>6 DEF LinkInv
  <2>2. ASSUME NEW y \in Sources, NEW n \in Memos, n \in ToSet(subs'[y])
        PROVE  y \in ToSet(sources'[n])
    <3>1. CASE n \in ToSet(subs[y]) BY <1>1, <1>4, <3>1 DEF LinkInv
    <3>2. CASE n \notin ToSet(subs[y])
      <4>1. y = x /\ n = m BY <1>4, <1>6, <2>2, <3>2
      <4> QED BY <1>4, <1>7, <4>1
    <3> QED BY <3>1, <3>2
  <2>3. ASSUME NEW y \in Sources, NEW n \in Memos, y \in ToSet(sources'[n])
        PROVE  n \in ToSet(subs'[y])
    <3>1. n \in ToSet(subs[y]) \/ Tracking(t, n, y) BY <1>1, <1>4, <2>3 DEF LinkInv
    <3> QED BY <1>4, <1>6, <1>8, <3>1
  <2> QED BY <2>1, <2>2, <2>3 DEF LinkInv
<1>10. SourceInv(t)' BY <1>1, <1>4, <1>5 DEF SourceInv, StillComputes, ReadSet
<1>11. SeenInv' BY <1>1, <1>4 DEF SeenInv
<1>12. CleanInv(t)'
  <2> SUFFICES ASSUME NEW y \in Memos, NEW n \in Memos, n \in ToSet(subs'[y]),
                      state'[n] = "Clean"
               PROVE  state'[y] = "Clean"
    BY DEF CleanInv
  <2>1. n \in ToSet(subs[y]) BY <1>4, <1>6, <1>7 DEF Sources
  <2> QED BY <1>1, <1>4, <1>8, <2>1 DEF CleanInv
<1>13. FreshInv(t)' BY <1>1, <1>4, <1>5, <1>8 DEF FreshInv, StillComputes
<1>14. MarkInv(t)' BY <1>5 DEF MarkInv, At
<1>15. guards'[t] = {} BY <1>4 DEF MemoInv
<1> QED BY <1>5, <1>9, <1>10, <1>11, <1>12, <1>13, <1>14, <1>15 DEF MemoInv, TellInv

-----------------------------------------------------------------------------
(* A signal changes and is marked *)

\* A signal is set by a step after which its subscribers are about to be marked.
LEMMA Announce ==
  ASSUME GraphInv, NEW t \in Threads, MemoInv(t), NEW s \in Signals,
         \A x \in Sources : x # s => value'[x] = value[x],
         UNCHANGED <<state, sources, subs, guards>>, \A m \in Memos : seen'[m] = seen[m],
         Idle(t) \/ Top(t).op # "mark", ~At(t, "run", "track"),
         FrameInv(t)', StillComputes(t),
         ~Idle(t)', Top(t)'.op = "mark", Top(t)'.pc = "clone", Top(t)'.node = s
  PROVE  MemoInv(t)'
<1>1. /\ StateInv /\ SourceInv(t) /\ LinkInv(t) /\ SeenInv /\ CleanInv(t) /\ FreshInv(t)
  BY DEF GraphInv, MemoInv, TellInv
<1>2. /\ \A n : ~ToBeMarked(t, n)
      /\ \A n, y : ~Reported(t, n, y) /\ ~Tracking(t, n, y)
  BY DEF ToBeMarked, Reported, Tracking, At
<1>3. SourceInv(t)' BY <1>1 DEF SourceInv, StillComputes, ReadSet
<1>4. LinkInv(t)' BY <1>1, <1>2 DEF LinkInv
<1>5. SeenInv'
  <2>1. \A m \in Memos : value'[m] = value[m] BY KindsAssumption DEF Sources
  <2> QED BY <1>1, <2>1 DEF SeenInv
<1>6. CleanInv(t)' BY <1>1, <1>2 DEF CleanInv
<1>7. FreshInv(t)'
  <2> SUFFICES ASSUME NEW m \in Memos, ~Computes(t, m)', state'[m] # "Dirty",
                      NEW j \in 1..Len(seen'[m])
               PROVE  seen'[m][j] = value'[Reads[m][j]] \/ Reported(t, m, Reads[m][j])'
    BY DEF FreshInv
  <2>1. ~Computes(t, m) /\ state[m] # "Dirty" /\ seen'[m] = seen[m] /\ j \in 1..Len(seen[m])
    BY DEF StillComputes
  <2>2. seen[m][j] = value[Reads[m][j]] BY <1>1, <1>2, <2>1 DEF FreshInv
  <2>3. Reads[m][j] \in ToSet(sources[m]) BY <1>1, <2>1 DEF SourceInv, ReadSet
  <2>4. Reads[m][j] \in Sources
    <3>1. sources[m] \in Seq(Sources) BY <1>1 DEF StateInv, Subscribers
    <3> QED BY <2>3, <3>1 DEF ToSet
  <2>5. Reads[m][j] = s => Reported(t, m, Reads[m][j])' BY DEF Reported, At
  <2> QED BY <2>1, <2>2, <2>4, <2>5
<1>8. MarkInv(t)' BY DEF MarkInv, At
<1>9. guards'[t] = {} BY DEF MemoInv
<1> QED BY <1>3, <1>4, <1>5, <1>6, <1>7, <1>8, <1>9 DEF MemoInv, TellInv

LEMMA SetMemo ==
  ASSUME GraphInv, NEW t \in Threads, MemoInv(t), NEW s \in Signals, Set(t, s)
  PROVE  MemoInv(t)'
<1>1. StateInv /\ StackInv BY DEF GraphInv
<1>2. Idle(t) BY DEF Set
<1>3. PICK h : Entered(t, h) /\ Is(h, "mark", s, "clone", <<>>, <<>>, FALSE)
  BY <1>1, SetShape
<1>4. h.op = "mark" /\ h.pc = "clone" /\ h.node = s BY <1>3 DEF Is
<1>5. FrameInv(t)' BY <1>3, <1>4, FrameEntered DEF TopFine
<1>6. StillComputes(t)
  <2>1. Depth(t) = 0 BY <1>3 DEF Entered
  <2> QED BY <2>1 DEF StillComputes, Computes, Depth
<1>7. ~Idle(t)' /\ Top(t)' = h BY <1>3, TopAfter
<1>8. /\ \A x \in Sources : x # s => value'[x] = value[x]
      /\ UNCHANGED <<state, sources, subs, guards>> /\ seen' = seen
  BY <1>1 DEF Set, StateInv
<1>9. ~At(t, "run", "track") BY <1>2 DEF At
<1> QED BY <1>2, <1>4, <1>5, <1>6, <1>7, <1>8, <1>9, Announce

LEMMA EndEffectMemo ==
  ASSUME GraphInv, NEW t \in Threads, MemoInv(t), EndEffect(t)
  PROVE  MemoInv(t)'
<1> DEFINE f == Top(t)
           e == f.node
<1>1. StateInv /\ StackInv BY DEF GraphInv
<1>2. /\ At(t, "run", "next") /\ e \in Effects /\ Depth(t) = 2
      /\ Below(t).op = "task"
  BY <1>1, EndEffectShape
<1>3. ~Idle(t) /\ f.op = "run" /\ f.pc = "next" BY <1>2 DEF At
<1>4. UNCHANGED <<state, sources, subs, guards>> /\ \A m \in Memos : seen'[m] = seen[m]
  <2>1. \A m \in Memos : m # e /\ m \in Subscribers
    BY <1>2, KindsAssumption DEF Sources, Subscribers
  <2> QED BY <1>1, <2>1 DEF EndEffect, StateInv
<1>5. ~At(t, "run", "track") BY <1>3 DEF At
<1>6. \/ Popped(t) /\ value' = value
      \/ \E s \in Signals : \E h :
           /\ value[s] < MaxWrites /\ value' = [value EXCEPT ![s] = @ + 1]
           /\ Replaced(t, h) /\ Is(h, "mark", s, "clone", <<>>, <<>>, FALSE)
  BY <1>1, EndEffectShape
<1>7. CASE Popped(t) /\ value' = value
  <2>1. GraphKept /\ guards'[t] = guards[t] BY <1>4, <1>7 DEF GraphKept
  <2> QED BY <1>2, <1>3, <1>5, <1>7, <2>1, QuietPopped
<1>8. CASE \E s \in Signals : \E h :
             /\ value[s] < MaxWrites /\ value' = [value EXCEPT ![s] = @ + 1]
             /\ Replaced(t, h) /\ Is(h, "mark", s, "clone", <<>>, <<>>, FALSE)
  <2>1. PICK s \in Signals : \E h :
             /\ value[s] < MaxWrites /\ value' = [value EXCEPT ![s] = @ + 1]
             /\ Replaced(t, h) /\ Is(h, "mark", s, "clone", <<>>, <<>>, FALSE)
    BY <1>8
  <2>2. PICK h : Replaced(t, h) /\ Is(h, "mark", s, "clone", <<>>, <<>>, FALSE) BY <2>1
  <2>3. \A x \in Sources : x # s => value'[x] = value[x] BY <1>1, <2>1 DEF StateInv
  <2>4. h.op = "mark" /\ h.pc = "clone" /\ h.node = s BY <2>2 DEF Is
  <2>5. ~Idle(t)' /\ Top(t)' = h BY <2>2, TopAfter
  <2>6. \A i \in 1..Depth(t) : i < Depth(t) => stack[t][i].op = "task" BY <1>2 DEF Below
  <2>7. f = stack[t][Depth(t)] BY <1>3, TopKnows
  <2>8. \A n : \A i \in 1..Depth(t) : ~Computing(stack[t][i], n)
    <3> SUFFICES ASSUME NEW i \in 1..Depth(t), NEW n PROVE ~Computing(stack[t][i], n) OBVIOUS
    <3>1. i < Depth(t) \/ i = Depth(t) BY <1>2
    <3> QED BY <1>3, <2>6, <2>7, <3>1 DEF Computing
  <2>9. StillComputes(t) BY <2>8 DEF StillComputes, Computes, Depth
  <2>10. StillWaits(t) BY <2>6, TaskWaits
  <2>11. FrameInv(t)'
    <3>1. Depth(t)' = 2 /\ stack'[t][1] = stack[t][1] BY <1>2, <2>2 DEF Replaced
    <3>2. stack[t][1].op = "task" BY <1>2, <2>6
    <3>3. \A f2 : f2 = Top(t)' => TopFine(f2)' BY <2>4, <2>5 DEF TopFine
    <3>4. \A i \in 1..Depth(t)' : i < Depth(t)' =>
            \A f2, n : f2 = stack'[t][i] /\ n = stack'[t][i + 1].node => WaitFine(f2, n)'
      BY <3>1, <3>2 DEF WaitFine
    <3> QED BY <3>3, <3>4, FrameForm
  <2> QED BY <1>3, <1>4, <1>5, <2>3, <2>4, <2>5, <2>9, <2>11, Announce
<1> QED BY <1>6, <1>7, <1>8

LEMMA CloneMemo ==
  ASSUME GraphInv, NEW t \in Threads, MemoInv(t), CloneSubscribers(t)
  PROVE  MemoInv(t)'
<1> DEFINE f == Top(t)
           s == f.node
           todo == MarkAll(subs[s], "dirty")
<1>1. StateInv /\ StackInv /\ FrameInv(t) /\ MemoState(t) BY DEF GraphInv, MemoInv, MemoState
<1>2. At(t, "mark", "clone") /\ s \in Signals BY <1>1, CloneShape
<1>3. PICK h : Replaced(t, h) /\ Is(h, "mark", s, "mark", todo, f.vals, f.ret)
  BY <1>1, CloneShape
<1>4. ~Idle(t) /\ f.op = "mark" /\ f.pc = "clone" BY <1>2 DEF At
<1>5. GraphKept /\ guards'[t] = guards[t] BY KeptByStack DEF CloneSubscribers, graph
<1>6. h.op = "mark" /\ h.pc = "mark" /\ h.node = s /\ h.todo = todo BY <1>3 DEF Is
<1>7. f = stack[t][Depth(t)] BY <1>4, TopKnows
<1>8. FrameInv(t)'
  <2>1. StillWaits(t) BY <1>1, <1>4, <1>5, WaitsQuiet
  <2>2. TopFine(h)' BY <1>6 DEF TopFine
  <2> QED BY <1>3, <1>6, <1>7, <2>1, <2>2, FrameReplaced
<1>9. StillComputes(t)
  <2>1. \A n \in Memos : ~Computing(stack[t][Depth(t)], n) BY <1>4, <1>7 DEF Computing
  <2> QED BY <1>3, <2>1, ComputesReplaced DEF StillComputes
<1>10. ~Idle(t)' /\ Top(t)' = h BY <1>3, TopAfter
<1>11. s \notin Memos BY <1>2, KindsAssumption
<1>12. MarkInv(t)' BY <1>6, <1>10, <1>11 DEF MarkInv
<1>13. ~At(t, "run", "track") /\ \A n : ~ToBeMarked(t, n) BY <1>4 DEF At, ToBeMarked
<1>14. ASSUME NEW n \in Memos, NEW x \in Sources, n \in ToSet(subs[x]), Reported(t, n, x)
       PROVE  Reported(t, n, x)'
  <2>1. x = s BY <1>4, <1>14 DEF Reported, At
  <2>2. ToSet(todo) = {<< y, "dirty" >> : y \in ToSet(subs[s])}
    <3>1. subs[s] \in Seq(Subscribers) BY <1>1, <1>2 DEF StateInv, Sources
    <3> QED BY <3>1, MarkAllSet
  <2>3. << n, "dirty" >> \in ToSet(todo) BY <1>14, <2>1, <2>2
  <2> QED BY <1>6, <1>10, <2>3 DEF Reported, At
<1>15. MemoState(t)'
  <2> HIDE DEF f, s, todo
  <2> QED BY <1>1, <1>5, <1>9, <1>12, <1>13, <1>14, TellKept
<1> QED BY <1>5, <1>8, <1>15 DEF MemoInv, MemoState

-----------------------------------------------------------------------------
(* Marks arrive *)

LEMMA MarkEffectMemo ==
  ASSUME GraphInv, NEW t \in Threads, MemoInv(t), MarkEffect(t)
  PROVE  MemoInv(t)'
<1> DEFINE f == Top(t)
           q == f.todo
<1>1. StateInv /\ StackInv /\ FrameInv(t) /\ MemoState(t) BY DEF GraphInv, MemoInv, MemoState
<1>2. /\ At(t, "mark", "mark") /\ q \in Seq(Marks) /\ q # <<>> /\ Head(q)[1] \in Effects
  BY <1>1, MarkEffectShape
<1>3. PICK h : Replaced(t, h) /\ Is(h, "mark", f.node, "mark", Tail(q), f.vals, f.ret)
  BY <1>1, MarkEffectShape
<1>4. ~Idle(t) /\ f.op = "mark" /\ f.pc = "mark" BY <1>2 DEF At
<1>5. GraphKept /\ guards'[t] = guards[t] BY KeptByStack DEF MarkEffect, graph
<1>6. h.op = "mark" /\ h.pc = "mark" /\ h.node = f.node /\ h.todo = Tail(q) BY <1>3 DEF Is
<1>7. f = stack[t][Depth(t)] BY <1>4, TopKnows
<1>8. FrameInv(t)'
  <2>1. StillWaits(t) BY <1>1, <1>4, <1>5, WaitsQuiet
  <2>2. TopFine(h)' BY <1>6 DEF TopFine
  <2> QED BY <1>3, <1>6, <1>7, <2>1, <2>2, FrameReplaced
<1>9. StillComputes(t)
  <2>1. \A n \in Memos : ~Computing(stack[t][Depth(t)], n) BY <1>4, <1>7 DEF Computing
  <2> QED BY <1>3, <2>1, ComputesReplaced DEF StillComputes
<1>10. ~Idle(t)' /\ Top(t)' = h BY <1>3, TopAfter
<1>11. ToSet(q) = {Head(q)} \cup ToSet(Tail(q)) BY <1>2, HeadTail
<1>12. Head(q)[1] \notin Memos BY <1>2, KindsAssumption DEF Sources
<1>13. MarkInv(t)'
  <2>1. f.node \in Memos => \A p \in ToSet(q) : p[1] \in Memos => state[p[1]] # "Clean"
    BY <1>1, <1>2 DEF MemoState, TellInv, MarkInv
  <2> QED BY <1>5, <1>6, <1>10, <1>11, <2>1 DEF MarkInv, GraphKept
<1>14. ~At(t, "run", "track") BY <1>4 DEF At
<1>15. ASSUME NEW n \in Memos, ToBeMarked(t, n) PROVE ToBeMarked(t, n)'
  <2>1. PICK p \in ToSet(q) : p[1] = n BY <1>15 DEF ToBeMarked
  <2>2. p \in ToSet(Tail(q)) BY <1>11, <1>12, <2>1
  <2> QED BY <1>6, <1>10, <2>1, <2>2 DEF ToBeMarked, At
<1>16. ASSUME NEW n \in Memos, NEW x \in Sources, Reported(t, n, x) PROVE Reported(t, n, x)'
  <2>1. << n, "dirty" >> \in ToSet(q) BY <1>4, <1>16 DEF Reported, At
  <2>2. << n, "dirty" >> \in ToSet(Tail(q))
    <3>1. << n, "dirty" >>[1] = n OBVIOUS
    <3> QED BY <1>11, <1>12, <2>1, <3>1
  <2> QED BY <1>6, <1>10, <2>2 DEF Reported, At
<1>17. MemoState(t)'
  <2> HIDE DEF f, q
  <2> QED BY <1>1, <1>5, <1>9, <1>13, <1>14, <1>15, <1>16, TellKept
<1> QED BY <1>5, <1>8, <1>17 DEF MemoInv, MemoState

LEMMA MarkDoneMemo ==
  ASSUME GraphInv, NEW t \in Threads, MemoInv(t), MarkDone(t)
  PROVE  MemoInv(t)'
<1> DEFINE f == Top(t)
<1>1. StateInv /\ StackInv /\ FrameInv(t) /\ MemoState(t) BY DEF GraphInv, MemoInv, MemoState
<1>2. At(t, "mark", "mark") /\ Popped(t) /\ f.todo = <<>> BY <1>1, MarkDoneShape
<1>3. ~Idle(t) /\ f.op = "mark" /\ f.pc = "mark" BY <1>2 DEF At
<1>4. GraphKept /\ guards'[t] = guards[t] BY KeptByStack DEF MarkDone, graph
<1>5. f = stack[t][Depth(t)] BY <1>3, TopKnows
<1>6. StillWaits(t) BY <1>1, <1>3, <1>4, WaitsQuiet
<1>7. ASSUME Depth(t) # 1 PROVE Below(t).op # "mark" /\ \A g : g = Below(t) => TopFine(g)'
  <2>1. Calls(Below(t), f) /\ Depth(t) - 1 \in 1..Depth(t) BY <1>1, <1>3, <1>7, CallerFacts
  <2>2. \/ Below(t).op = "update" /\ Below(t).pc = "changed"
        \/ Below(t).op = "task"
    BY <1>3, <2>1 DEF Calls
  <2>3. ASSUME NEW g, g = Below(t), g.op = "update", g.pc = "changed" PROVE TopFine(g)'
    <3>1. Depth(t) \in Nat BY <1>1, DepthNat
    <3>2. Depth(t) - 1 < Depth(t) /\ g = stack[t][Depth(t) - 1]
      BY <2>3, <3>1 DEF Below
    <3>3. \A n : n = stack[t][Depth(t) - 1 + 1].node => WaitFine(g, n)'
      BY <1>6, <2>1, <3>2 DEF StillWaits
    <3>4. state'[g.node] = "Clean" BY <2>3, <3>3 DEF WaitFine
    <3> QED BY <2>3, <3>4 DEF TopFine, UpdateFine
  <2>4. \A g : g.op = "task" => TopFine(g)' BY DEF TopFine
  <2> QED BY <2>2, <2>3, <2>4
<1>8. FrameInv(t)' BY <1>2, <1>6, <1>7, FramePopped
<1>9. StillComputes(t)
  <2>1. \A n : ~Computing(stack[t][Depth(t)], n) BY <1>3, <1>5 DEF Computing
  <2> QED BY <1>2, <2>1, ComputesPopped DEF StillComputes
<1>10. ~Idle(t)' => Top(t)'.op # "mark" BY <1>2, <1>7, TopPopped
<1>11. ToSet(f.todo) = {} BY <1>2 DEF ToSet
<1>12. /\ \A n : ~ToBeMarked(t, n)
       /\ \A n, x : ~Reported(t, n, x)
       /\ ~At(t, "run", "track")
  BY <1>3, <1>11 DEF ToBeMarked, Reported, At
<1>13. MarkInv(t)' BY <1>10 DEF MarkInv, At
<1>14. MemoState(t)' BY <1>1, <1>4, <1>9, <1>12, <1>13, TellKept
<1> QED BY <1>4, <1>8, <1>14 DEF MemoInv, MemoState

LEMMA MarkMemoFrames ==
  ASSUME GraphInv, NEW t \in Threads, MemoInv(t), MarkMemo(t)
  PROVE  LET f == Top(t)
             m == Head(f.todo)[1]
         IN /\ FrameInv(t)' /\ StillComputes(t)
            /\ ~Idle(t)' /\ Top(t)'.op = "mark" /\ Top(t)'.pc = "mark" /\ Top(t)'.node = f.node
            /\ Top(t)'.todo = MarkAll(subs[m], "check") \o Tail(f.todo)
<1> DEFINE f == Top(t)
           m == Head(f.todo)[1]
           todo == MarkAll(subs[m], "check") \o Tail(f.todo)
<1>1. StateInv /\ StackInv /\ FrameInv(t) /\ MarkInv(t) BY DEF GraphInv, MemoInv, TellInv
<1>2. /\ At(t, "mark", "mark") /\ f.todo \in Seq(Marks) /\ f.todo # <<>> /\ m \in Memos
      /\ f.node \in Sources
  BY <1>1, MarkMemoShape
<1>3. PICK h : Replaced(t, h) /\ Is(h, "mark", f.node, "mark", todo, f.vals, f.ret)
  BY <1>1, MarkMemoShape
<1>4. ~Idle(t) /\ f.op = "mark" /\ f.pc = "mark" BY <1>2 DEF At
<1>5. h.op = "mark" /\ h.pc = "mark" /\ h.node = f.node /\ h.todo = todo BY <1>3 DEF Is
<1>6. f = stack[t][Depth(t)] /\ Depth(t) \in Nat BY <1>1, <1>4, TopKnows, DepthNat
<1>7. /\ UNCHANGED <<value, sources>> /\ state'[m] # "Clean"
      /\ \A n \in Memos : n # m => state'[n] = state[n]
  BY <1>1, <1>2 DEF MarkMemo, StateInv, Marked
<1>8. StillWaits(t)
  <2>1. CASE f.node \in Memos
    <3>1. Head(f.todo) \in ToSet(f.todo) BY <1>2, HeadTail
    <3>2. state[m] # "Clean" BY <1>1, <1>2, <2>1, <3>1 DEF MarkInv
    <3> QED BY <1>1, <1>4, <1>7, <3>2, WaitsKept
  <2>2. CASE f.node \in Signals
    <3>1. \A i \in 1..Depth(t) : i < Depth(t) => stack[t][i].op = "task"
      <4> SUFFICES ASSUME NEW i \in 1..Depth(t), i < Depth(t) PROVE stack[t][i].op = "task"
        OBVIOUS
      <4>1. Depth(t) # 1 BY <1>6
      <4>2. Calls(Below(t), f) /\ FrameOK(Below(t)) /\ Depth(t) - 1 \in 1..Depth(t)
        BY <1>1, <1>4, <4>1, CallerFacts
      <4>3. f.node \notin Memos BY <2>2, KindsAssumption
      <4>4. Below(t).op = "task" BY <1>4, <4>2, <4>3 DEF Calls, FrameOK, UpdateOK
      <4>5. Depth(t) - 1 = 1 BY <1>1, <4>2, <4>4, RootIndex DEF Below
      <4>6. i = Depth(t) - 1 BY <1>6, <4>5
      <4> QED BY <4>4, <4>6 DEF Below
    <3> QED BY <3>1, TaskWaits
  <2> QED BY <1>2, <2>1, <2>2 DEF Sources
<1>9. TopFine(h)' BY <1>5 DEF TopFine
<1>10. FrameInv(t)'
  <2> HIDE DEF f, m, todo
  <2>1. h.node = stack[t][Depth(t)].node
    <3>1. h.node = f.node BY <1>5
    <3>2. f = stack[t][Depth(t)] BY <1>6
    <3> QED BY <3>1, <3>2
  <2>2. Replaced(t, h) BY <1>3
  <2> QED BY <1>8, <1>9, <2>1, <2>2, FrameReplaced
<1>11. StillComputes(t)
  <2>1. \A n \in Memos : ~Computing(stack[t][Depth(t)], n) BY <1>4, <1>6 DEF Computing
  <2> QED BY <1>3, <2>1, ComputesReplaced DEF StillComputes
<1>12. ~Idle(t)' /\ Top(t)' = h BY <1>3, TopAfter
<1> HIDE DEF f, m, todo
<1> QED BY <1>5, <1>10, <1>11, <1>12 DEF f, m, todo

LEMMA MarkMemoMemo ==
  ASSUME GraphInv, NEW t \in Threads, MemoInv(t), MarkMemo(t)
  PROVE  MemoInv(t)'
<1> DEFINE f == Top(t)
           q == f.todo
           m == Head(q)[1]
           how == Head(q)[2]
           todo == MarkAll(subs[m], "check") \o Tail(q)
<1>1. /\ StateInv /\ StackInv /\ SourceInv(t) /\ LinkInv(t) /\ SeenInv
      /\ CleanInv(t) /\ FreshInv(t) /\ MarkInv(t)
  BY DEF GraphInv, MemoInv, TellInv
<1>2. At(t, "mark", "mark") /\ q \in Seq(Marks) /\ q # <<>> /\ m \in Memos
  BY <1>1, MarkMemoShape
<1>3. ~Idle(t) /\ f.op = "mark" /\ f.pc = "mark" BY <1>2 DEF At
<1>4. /\ FrameInv(t)' /\ StillComputes(t)
      /\ ~Idle(t)' /\ Top(t)'.op = "mark" /\ Top(t)'.pc = "mark" /\ Top(t)'.node = f.node
      /\ Top(t)'.todo = todo
  BY MarkMemoFrames
<1>5. /\ UNCHANGED <<value, sources, subs, seen, guards>>
      /\ state' = [state EXCEPT ![m] = Marked(m, how)]
  BY DEF MarkMemo
<1>6. /\ state'[m] # "Clean" /\ \A n \in Memos : n # m => state'[n] = state[n]
      /\ state'[m] # "Dirty" => how = "check" /\ state[m] # "Dirty"
  BY <1>1, <1>2, <1>5 DEF StateInv, Marked
<1>7. /\ Head(q) \in ToSet(q) /\ ToSet(q) = {Head(q)} \cup ToSet(Tail(q))
      /\ Tail(q) \in Seq(Marks) /\ Head(q) \in Marks
  BY <1>2, HeadTail
<1>8. ToSet(todo) = {<< y, "check" >> : y \in ToSet(subs[m])} \cup ToSet(Tail(q))
  <2>1. subs[m] \in Seq(Subscribers) BY <1>1, <1>2 DEF StateInv, Sources
  <2>2. MarkAll(subs[m], "check") \in Seq(Marks) BY <2>1, MarkAllFacts
  <2>3. ToSet(MarkAll(subs[m], "check")) = {<< y, "check" >> : y \in ToSet(subs[m])}
    BY <2>1, MarkAllSet
  <2>4. ToSet(todo) = ToSet(MarkAll(subs[m], "check")) \cup ToSet(Tail(q))
    <3>1. \A a, b \in Seq(Marks) : ToSet(a \o b) = ToSet(a) \cup ToSet(b) BY ConcatSet
    <3> HIDE DEF q, m
    <3> QED BY <1>7, <2>2, <3>1
  <2> QED BY <2>3, <2>4
<1>9. /\ \A n : ToBeMarked(t, n) <=> \E p \in ToSet(q) : p[1] = n
      /\ \A n, x : Reported(t, n, x) <=> << n, "dirty" >> \in ToSet(q)
      /\ \A n, x : ~Tracking(t, n, x)
  BY <1>3 DEF ToBeMarked, Reported, Tracking, At
<1>10. /\ \A n : (\E p \in ToSet(todo) : p[1] = n) => ToBeMarked(t, n)'
       /\ \A n, x : << n, "dirty" >> \in ToSet(todo) => Reported(t, n, x)'
  BY <1>4 DEF ToBeMarked, Reported, At
<1>11. guards'[t] = {} BY <1>5 DEF MemoInv
<1>12. MarkInv(t) => (f.node \in Memos => \A p \in ToSet(q) : p[1] \in Memos =>
                                             state[p[1]] # "Clean")
  BY <1>2 DEF MarkInv
<1>13. /\ Top(t)'.todo = todo /\ Top(t)'.node = f.node BY <1>4
<1> HIDE DEF f, q, m, how, todo
<1>14. SourceInv(t)' BY <1>1, <1>4, <1>5 DEF SourceInv, StillComputes, ReadSet
<1>15. LinkInv(t)' BY <1>1, <1>5, <1>9 DEF LinkInv
<1>16. SeenInv' BY <1>1, <1>5 DEF SeenInv
<1>17. CleanInv(t)'
  <2> SUFFICES ASSUME NEW x \in Memos, NEW n \in Memos, n \in ToSet(subs[x]),
                      state'[n] = "Clean"
               PROVE  state'[x] = "Clean" \/ \E p \in ToSet(todo) : p[1] = n
    BY <1>5, <1>10 DEF CleanInv
  <2>1. n # m /\ state[n] = "Clean" BY <1>6
  <2>2. CASE x = m
    <3>1. << n, "check" >> \in ToSet(todo) BY <1>8, <2>2
    <3> QED BY <3>1
  <2>3. CASE x # m
    <3>1. state[x] = "Clean" \/ \E p \in ToSet(q) : p[1] = n BY <1>1, <1>9, <2>1 DEF CleanInv
    <3>2. CASE state[x] = "Clean" BY <1>6, <2>3, <3>2
    <3>3. ASSUME NEW p \in ToSet(q), p[1] = n PROVE p \in ToSet(todo)
      <4>1. p # Head(q) BY <2>1, <3>3 DEF m
      <4> QED BY <1>7, <1>8, <4>1
    <3> QED BY <3>1, <3>2, <3>3
  <2> QED BY <2>2, <2>3
<1>18. FreshInv(t)'
  <2> SUFFICES ASSUME NEW n \in Memos, ~Computes(t, n)', state'[n] # "Dirty",
                      NEW j \in 1..Len(seen'[n])
               PROVE  \/ seen'[n][j] = value'[Reads[n][j]]
                      \/ << n, "dirty" >> \in ToSet(todo)
    BY <1>10 DEF FreshInv
  <2>1. ~Computes(t, n) /\ state[n] # "Dirty" BY <1>4, <1>6 DEF StillComputes
  <2>2. seen[n][j] = value[Reads[n][j]] \/ << n, "dirty" >> \in ToSet(q)
    BY <1>1, <1>5, <1>9, <2>1 DEF FreshInv
  <2>3. ASSUME << n, "dirty" >> \in ToSet(q) PROVE << n, "dirty" >> \in ToSet(todo)
    <3>1. << n, "dirty" >>[1] = n /\ << n, "dirty" >>[2] = "dirty" OBVIOUS
    <3>2. n = m => how = "check" BY <1>6
    <3>3. << n, "dirty" >> # Head(q) BY <3>1, <3>2 DEF m, how
    <3> QED BY <1>7, <1>8, <2>3, <3>3
  <2> QED BY <1>5, <2>2, <2>3
<1>19. MarkInv(t)'
  <2> SUFFICES ASSUME f.node \in Memos, NEW p \in ToSet(todo), p[1] \in Memos
               PROVE  state'[p[1]] # "Clean"
    BY <1>13 DEF MarkInv
  <2>1. \A r \in ToSet(q) : r[1] \in Memos => state[r[1]] # "Clean" BY <1>1, <1>12
  <2>2. state[m] # "Clean" BY <1>2, <1>7, <2>1 DEF m
  <2>3. CASE p \in ToSet(Tail(q)) BY <1>6, <1>7, <2>1, <2>3
  <2>4. CASE p \notin ToSet(Tail(q))
    <3>1. PICK y \in ToSet(subs[m]) : p = << y, "check" >> BY <1>8, <2>4
    <3>2. p[1] = y BY <3>1
    <3>3. state[y] # "Clean"
      <4>1. ToBeMarked(t, y) => state[y] # "Clean" BY <1>9, <2>1, <3>2
      <4> QED BY <1>1, <1>2, <2>2, <3>2, <4>1 DEF CleanInv
    <3> QED BY <1>6, <3>2, <3>3
  <2> QED BY <2>3, <2>4
<1> QED BY <1>4, <1>11, <1>14, <1>15, <1>16, <1>17, <1>18, <1>19 DEF MemoInv, TellInv

-----------------------------------------------------------------------------
(* Tasks and user code *)

\* A call enters an idle thread, or two.
LEMMA QuietEntered ==
  ASSUME GraphInv, NEW t \in Threads, MemoInv(t), Idle(t), GraphKept, guards'[t] = guards[t],
         NEW h, Entered(t, h), h.op = "task"
  PROVE  MemoInv(t)'
<1>1. StateInv /\ MemoState(t) BY DEF GraphInv, MemoInv, MemoState
<1>2. FrameInv(t)' BY FrameEntered DEF TopFine
<1>3. StillComputes(t)
  <2>1. Depth(t) = 0 BY DEF Entered
  <2> QED BY <2>1 DEF StillComputes, Computes, Depth
<1>4. Top(t)' = h BY TopAfter
<1>5. ~At(t, "run", "track") BY DEF At
<1>6. MemoState(t)' BY <1>1, <1>3, <1>4, <1>5, NoMarkKept
<1> QED BY <1>2, <1>6 DEF MemoInv, MemoState

LEMMA PollMemo ==
  ASSUME GraphInv, NEW t \in Threads, MemoInv(t), NEW e \in Effects, Poll(t, e)
  PROVE  MemoInv(t)'
<1>1. StateInv /\ StackInv BY DEF GraphInv
<1>2. UNCHANGED <<value, state, sources, subs, seen, guards>> BY DEF Poll, graph
<1>3. /\ Idle(t)
      /\ \/ stack' = stack
         \/ \E h : Entered(t, h) /\ Is(h, "task", e, "dirty", <<>>, <<>>, FALSE)
  BY <1>1, PollShape
<1>4. CASE stack' = stack BY <1>2, <1>4, MemoUnchanged
<1>5. CASE \E h : Entered(t, h) /\ Is(h, "task", e, "dirty", <<>>, <<>>, FALSE)
  <2>1. PICK h : Entered(t, h) /\ Is(h, "task", e, "dirty", <<>>, <<>>, FALSE) BY <1>5
  <2>2. GraphKept BY <1>2, KeptByStack
  <2>3. h.op = "task" BY <2>1 DEF Is
  <2> QED BY <1>2, <1>3, <2>1, <2>2, <2>3, QuietEntered
<1> QED BY <1>3, <1>4, <1>5

\* A task goes on, calls an update, or ends.
LEMMA TaskMemo ==
  ASSUME GraphInv, NEW t \in Threads, MemoInv(t), ~Idle(t), Top(t).op = "task", GraphKept,
         guards'[t] = guards[t],
         \/ Popped(t)
         \/ \E h : Replaced(t, h) /\ h.op = "task" /\ h.node = Top(t).node
         \/ \E h, g : /\ Called(t, h, g) /\ h.op = "task" /\ h.node = Top(t).node
                      /\ \/ g.op = "update" /\ g.pc = "state"
                         \/ g.op = "run" /\ g.node \in Effects
  PROVE  MemoInv(t)'
<1>1. StackInv BY DEF GraphInv
<1>2. Depth(t) = 1 BY <1>1, TaskTop
<1>3. Top(t).op # "mark" /\ ~At(t, "run", "track") /\ \A n \in Memos : ~Computing(Top(t), n)
  BY DEF At, Computing
<1>4. CASE Popped(t) BY <1>2, <1>3, <1>4, QuietPopped
<1>5. CASE \E h : Replaced(t, h) /\ h.op = "task" /\ h.node = Top(t).node
  <2>1. PICK h : Replaced(t, h) /\ h.op = "task" /\ h.node = Top(t).node BY <1>5
  <2>2. TopFine(h)' BY <2>1 DEF TopFine
  <2> QED BY <1>3, <2>1, <2>2, QuietReplaced
<1>6. CASE \E h, g : /\ Called(t, h, g) /\ h.op = "task" /\ h.node = Top(t).node
                     /\ \/ g.op = "update" /\ g.pc = "state"
                        \/ g.op = "run" /\ g.node \in Effects
  <2>1. PICK h, g : /\ Called(t, h, g) /\ h.op = "task" /\ h.node = Top(t).node
                    /\ \/ g.op = "update" /\ g.pc = "state"
                       \/ g.op = "run" /\ g.node \in Effects
    BY <1>6
  <2>2. WaitFine(h, g.node)' BY <2>1 DEF WaitFine
  <2>3. TopFine(g)'
    <3>1. g.op = "run" => g.node \notin Memos BY <2>1, KindsAssumption DEF Sources
    <3> QED BY <2>1, <3>1 DEF TopFine, UpdateFine
  <2>4. g.op # "mark" BY <2>1
  <2> QED BY <1>3, <2>1, <2>2, <2>3, <2>4, QuietCalled
<1> QED BY <1>4, <1>5, <1>6

LEMMA TaskDirtyMemo ==
  ASSUME GraphInv, NEW t \in Threads, MemoInv(t), TaskDirty(t)
  PROVE  MemoInv(t)'
<1> DEFINE f == Top(t)
<1>1. StateInv /\ StackInv BY DEF GraphInv
<1>2. GraphKept /\ guards'[t] = guards[t] BY KeptByStack DEF TaskDirty, graph
<1>3. ~Idle(t) /\ f.op = "task" BY <1>1, TaskDirtyShape DEF At
<1>4. \E h : Replaced(t, h) /\ h.op = "task" /\ h.node = f.node
  <2>1. \/ \E h : Replaced(t, h) /\ Is(h, "task", f.node, "run", f.todo, f.vals, f.ret)
        \/ \E h : Replaced(t, h) /\ Is(h, "task", f.node, "sources", sources[f.node], f.vals, f.ret)
    BY <1>1, TaskDirtyShape
  <2> QED BY <2>1, Zenon DEF Is
<1> QED BY <1>2, <1>3, <1>4, TaskMemo

LEMMA TaskSourcesMemo ==
  ASSUME GraphInv, NEW t \in Threads, MemoInv(t), TaskSources(t)
  PROVE  MemoInv(t)'
<1> DEFINE f == Top(t)
<1>1. StateInv /\ StackInv BY DEF GraphInv
<1>2. GraphKept /\ guards'[t] = guards[t] BY KeptByStack DEF TaskSources, graph
<1>3. ~Idle(t) /\ f.op = "task" BY <1>1, TaskSourcesShape DEF At
<1>4. \/ Popped(t)
      \/ \E h : Replaced(t, h) /\ Is(h, "task", f.node, "run", f.todo, f.vals, f.ret)
      \/ \E h : Replaced(t, h) /\ Is(h, "task", f.node, "sources", Tail(f.todo), f.vals, f.ret)
      \/ \E h, g : /\ Called(t, h, g)
                   /\ Is(h, "task", f.node, "sources", Tail(f.todo), f.vals, f.ret)
                   /\ Is(g, "update", Head(f.todo), "state", <<>>, <<>>, FALSE)
  BY <1>1, TaskSourcesShape
<1>5. \/ Popped(t)
      \/ \E h : Replaced(t, h) /\ h.op = "task" /\ h.node = f.node
      \/ \E h, g : /\ Called(t, h, g) /\ h.op = "task" /\ h.node = f.node
                   /\ g.op = "update" /\ g.pc = "state"
  BY <1>4, ZenonT(60) DEF Is
<1> HIDE DEF f
<1>6. \/ Popped(t)
      \/ \E h : Replaced(t, h) /\ h.op = "task" /\ h.node = f.node
      \/ \E h, g : /\ Called(t, h, g) /\ h.op = "task" /\ h.node = f.node
                   /\ \/ g.op = "update" /\ g.pc = "state"
                      \/ g.op = "run" /\ g.node \in Effects
  BY <1>5, ZenonT(60)
<1> QED BY <1>2, <1>3, <1>6, TaskMemo DEF f

LEMMA StartEffectMemo ==
  ASSUME GraphInv, NEW t \in Threads, MemoInv(t), StartEffect(t)
  PROVE  MemoInv(t)'
<1> DEFINE f == Top(t)
           e == f.node
<1>1. StateInv /\ StackInv /\ LinkInv(t) BY DEF GraphInv, MemoInv
<1>2. At(t, "task", "run") /\ e \in Effects BY <1>1, StartEffectShape
<1>3. ~Idle(t) /\ f.op = "task" BY <1>2 DEF At
<1>4. \E h, g : /\ Called(t, h, g) /\ Is(h, "task", e, "end", f.todo, f.vals, f.ret)
                /\ Is(g, "run", e, "next", <<>>, <<>>, FALSE)
  BY <1>1, StartEffectShape
<1>5. \E h, g : /\ Called(t, h, g) /\ h.op = "task" /\ h.node = e
                /\ g.op = "run" /\ g.node \in Effects
  BY <1>2, <1>4, ZenonT(60) DEF Is
<1>6. UNCHANGED <<value, state, seen, guards>> BY DEF StartEffect
<1>7. \A m \in Memos : m # e /\ m \in Subscribers /\ e \in Subscribers
  BY <1>2, KindsAssumption DEF Sources, Subscribers
<1>8. ClearSources(e) /\ \A x \in Sources : Distinct(subs[x])
  BY <1>1 DEF StartEffect, LinkInv
<1>9. GraphKept
  <2>1. e \in Subscribers BY <1>2 DEF Subscribers
  <2>2. /\ \A x \in Sources : Distinct(subs'[x])
        /\ \A x \in Sources : ToSet(subs'[x]) \subseteq ToSet(subs[x])
        /\ \A x \in Sources, m \in Subscribers :
             m # e /\ m \in ToSet(subs[x]) => m \in ToSet(subs'[x])
        /\ \A m \in Subscribers : m # e => sources'[m] = sources[m]
    BY <1>1, <1>8, <2>1, ClearedLinks
  <2> HIDE DEF e
  <2> QED BY <1>6, <1>7, <2>2 DEF GraphKept
<1>10. guards'[t] = guards[t] BY <1>6
<1> HIDE DEF f
<1> QED BY <1>3, <1>5, <1>9, <1>10, TaskMemo DEF f

LEMMA TaskEndMemo ==
  ASSUME GraphInv, NEW t \in Threads, MemoInv(t), TaskEnd(t)
  PROVE  MemoInv(t)'
<1>1. StateInv /\ StackInv BY DEF GraphInv
<1>2. GraphKept /\ guards'[t] = guards[t] BY KeptByStack DEF TaskEnd, graph
<1>3. ~Idle(t) /\ Top(t).op = "task" /\ Popped(t) BY <1>1, TaskEndShape DEF At
<1> QED BY <1>2, <1>3, TaskMemo

LEMMA GetMemo ==
  ASSUME GraphInv, NEW t \in Threads, MemoInv(t), NEW m \in Memos, Get(t, m)
  PROVE  MemoInv(t)'
<1>1. StateInv /\ StackInv /\ MemoState(t) BY DEF GraphInv, MemoInv, MemoState
<1>2. GraphKept /\ guards'[t] = guards[t] BY KeptByStack DEF Get, graph
<1>3. PICK g, h : /\ Got(t, g, h) /\ Is(g, "get", m, "read", <<>>, <<>>, FALSE)
                  /\ Is(h, "update", m, "state", <<>>, <<>>, FALSE)
  BY <1>1, GetShape
<1>4. g.op = "get" /\ h.op = "update" /\ h.pc = "state" BY <1>3 DEF Is
<1>5. TopFine(h)' BY <1>4 DEF TopFine, UpdateFine
<1>6. FrameInv(t)' BY <1>3, <1>4, <1>5, FrameGot
<1>7. Idle(t) /\ Depth(t) = 0 /\ Depth(t)' = 2 /\ stack'[t][2] = h
  BY <1>3 DEF Got, Get
<1>8. StillComputes(t) BY <1>7 DEF StillComputes, Computes, Depth
<1>9. Top(t)' = h BY <1>7, TopIs
<1>10. ~At(t, "run", "track") BY <1>7 DEF At
<1>11. MemoState(t)' BY <1>1, <1>2, <1>4, <1>7, <1>8, <1>9, <1>10, NoMarkKept
<1> QED BY <1>2, <1>6, <1>11 DEF MemoInv, MemoState

LEMMA GetValueMemo ==
  ASSUME GraphInv, ~MayHold, NEW t \in Threads, MemoInv(t), GetValue(t)
  PROVE  MemoInv(t)'
<1>1. StateInv /\ StackInv BY DEF GraphInv
<1>2. GraphKept BY KeptByStack DEF GetValue, graph
<1>3. guards'[t] = guards[t] BY DEF GetValue
<1>4. /\ ~Idle(t) /\ Top(t).op = "get" /\ Depth(t) = 1 /\ Popped(t)
      /\ ~At(t, "run", "track")
  BY <1>1, GetValueShape DEF At
<1> QED BY <1>2, <1>3, <1>4, QuietPopped

-----------------------------------------------------------------------------
(* Every step of the thread *)

LEMMA MemoInit ==
  ASSUME Init, NEW t \in Threads PROVE MemoInv(t)
<1>1. Len(stack[t]) = 0 /\ Idle(t) /\ guards[t] = {} BY DEF Init, Idle
<1>2. FrameInv(t) BY <1>1 DEF FrameInv
<1>3. /\ \A m \in Memos : sources[m] = <<>> /\ seen[m] = <<>> /\ value[m] = NoValue
      /\ \A m \in Memos : state[m] = "Dirty"
      /\ \A x \in Sources : subs[x] = <<>>
  BY KindsAssumption DEF Init, Sources, Subscribers
<1>4. SourceInv(t) BY <1>3 DEF SourceInv, ReadSet, ToSet
<1>5. LinkInv(t) BY <1>3 DEF LinkInv, Distinct, ToSet
<1>6. SeenInv
  <2>1. \A m \in Memos : Len(Reads[m]) \in Nat BY ReadsFacts DEF Subscribers
  <2> QED BY <1>3, <2>1 DEF SeenInv
<1>7. TellInv(t) BY <1>1, <1>3 DEF TellInv, CleanInv, FreshInv, MarkInv, At
<1> QED BY <1>1, <1>2, <1>4, <1>5, <1>6, <1>7 DEF MemoInv

LEMMA MemoNext ==
  ASSUME ~MayHold, NEW t \in Threads, Threads = {t}, GraphInv, MemoInv(t), [Next]_vars
  PROVE  MemoInv(t)'
<1>1. CASE Marking(t) BY <1>1, CloneMemo, MarkMemoMemo, MarkEffectMemo, MarkDoneMemo DEF Marking
<1>2. CASE Updating(t)
  BY <1>2, NeedsUpdateMemo, CheckSourceMemo, CheckOwnMemo, SetCleanMemo, BeginMemo,
     StartMemoMemo, LockMemoMemo, CommitMemoMemo, ReturnChangedMemo DEF Updating
<1>3. CASE Function(t)
  BY <1>3, AddSourceMemo, AddSubscriberMemo, ReadValueMemo, EndMemoMemo, EndEffectMemo
  DEF Function
<1>4. CASE Task(t)
  BY <1>4, TaskDirtyMemo, TaskSourcesMemo, StartEffectMemo, TaskEndMemo DEF Task
<1>5. CASE User(t)
  <2>1. ASSUME NEW e \in Effects, PauseOrResume(t, e) PROVE MemoInv(t)'
    BY <2>1, MemoUnchanged DEF PauseOrResume, graph
  <2>2. \A m \in Memos : ~DropGuard(t, m) BY DEF DropGuard, MemoInv
  <2> QED BY <1>5, <2>1, <2>2, SetMemo, GetMemo DEF User
<1>6. CASE \E e \in Effects : Poll(t, e) BY <1>6, PollMemo
<1>7. CASE GetValue(t) BY <1>7, GetValueMemo
<1>8. CASE UNCHANGED vars BY <1>8, MemoUnchanged DEF vars, graph
<1> QED
  <2>1. Next => \E u \in Threads : Continue(u) \/ User(u) \/ (\E e \in Effects : Poll(u, e))
                \/ UNCHANGED vars
    BY DEF Next, Rest
  <2>2. Next => Continue(t) \/ User(t) \/ (\E e \in Effects : Poll(t, e)) \/ UNCHANGED vars
    BY <2>1
  <2> QED BY <2>2, <1>1, <1>2, <1>3, <1>4, <1>5, <1>6, <1>7, <1>8 DEF Continue

LEMMA MemoInvariant ==
  ASSUME ~MayHold, NEW t \in Threads, Threads = {t} PROVE Spec => []MemoInv(t)
<1>1. Init => MemoInv(t) BY MemoInit
<1>2. GraphInv /\ MemoInv(t) /\ [Next]_vars => MemoInv(t)' BY MemoNext
<1> QED BY <1>1, <1>2, GraphInvariant, PTL DEF Spec

-----------------------------------------------------------------------------
(* A clean memo is current *)

\* No mark of a signal's change is under way.
NotMarking == \A t \in Threads : \A i \in DOMAIN stack[t] : stack[t][i].op = "mark" =>
                                                 stack[t][i].node \notin Signals

\* Then a memo that is Clean is not about to be told anything.
LEMMA NothingToTell ==
  ASSUME GraphInv, NEW t \in Threads, MemoInv(t), NotMarking, NEW m \in Memos,
         state[m] = "Clean"
  PROVE  /\ ~ToBeMarked(t, m) /\ \A x : ~Reported(t, m, x)
         /\ ~Computes(t, m) /\ \A x : ~Tracking(t, m, x)
<1>1. StackInv /\ FrameInv(t) BY DEF GraphInv, MemoInv
<1>2. ~Computes(t, m) BY <1>1, ComputesNotClean
<1>3. \A x : ~Tracking(t, m, x) BY <1>2, TopRunComputes DEF Tracking, At
<1>4. ASSUME ~Idle(t), Top(t).op = "mark"
      PROVE  Top(t).node \in Memos /\ Top(t).pc # "clone"
  <2>1. /\ Top(t) = stack[t][Depth(t)] /\ Depth(t) \in 1..Len(stack[t])
        /\ stack[t] \in Seq(Frames) /\ FrameOK(Top(t))
    BY <1>1, <1>4, TopFacts DEF Depth
  <2>2. Depth(t) \in DOMAIN stack[t] BY <2>1
  <2>3. Top(t).node \notin Signals BY <1>4, <2>1, <2>2 DEF NotMarking
  <2> QED BY <1>4, <2>1, <2>3 DEF FrameOK, MarkOK, Sources
<1>5. At(t, "mark", "mark") => \A p \in ToSet(Top(t).todo) : p[1] # m
  BY <1>4 DEF MemoInv, TellInv, MarkInv, At
<1>6. ~ToBeMarked(t, m) BY <1>5 DEF ToBeMarked
<1>7. \A x : ~Reported(t, m, x)
  <2>1. << m, "dirty" >>[1] = m OBVIOUS
  <2> QED BY <1>4, <1>5, <2>1 DEF Reported, At
<1> QED BY <1>2, <1>3, <1>6, <1>7

\* It has read the present values of clean sources, and its value is its function's.
LEMMA CleanMemo ==
  ASSUME GraphInv, NEW t \in Threads, MemoInv(t), NotMarking, NEW m \in Memos,
         state[m] = "Clean"
  PROVE  /\ seen[m] \in Seq(Nat) /\ Len(seen[m]) <= Len(Reads[m])
         /\ Len(seen[m]) = ReadCount(m, seen[m]) /\ value[m] = Compute(m, seen[m])
         /\ \A j \in 1..Len(seen[m]) :
              /\ seen[m][j] = value[Reads[m][j]]
              /\ Reads[m][j] \in Memos => state[Reads[m][j]] = "Clean"
<1>1. /\ ~ToBeMarked(t, m) /\ \A x : ~Reported(t, m, x)
      /\ ~Computes(t, m) /\ \A x : ~Tracking(t, m, x)
  BY NothingToTell
<1>2. m \in Subscribers BY DEF Subscribers
<1>3. seen[m] \in Seq(Nat) BY <1>2 DEF GraphInv, StateInv
<1>4. Len(seen[m]) <= Len(Reads[m]) BY DEF MemoInv, SeenInv
<1>5. Len(seen[m]) = ReadCount(m, seen[m]) /\ value[m] = Compute(m, seen[m])
  <2>1. value[m] \in Nat BY DEF GraphInv, ValueInv
  <2>2. value[m] # NoValue BY <2>1, GraphAssumption
  <2> QED BY <2>2 DEF MemoInv, SeenInv
<1>6. ASSUME NEW j \in 1..Len(seen[m])
      PROVE  /\ seen[m][j] = value[Reads[m][j]]
             /\ Reads[m][j] \in Memos => state[Reads[m][j]] = "Clean"
  <2>1. seen[m][j] = value[Reads[m][j]] BY <1>1 DEF MemoInv, TellInv, FreshInv
  <2>2. j \in 1..Len(Reads[m]) BY <1>2, <1>3, <1>4, ReadsFacts
  <2>3. Reads[m][j] \in Sources BY <1>2, <2>2, ReadsFacts
  <2>4. Reads[m][j] \in ToSet(sources[m]) BY <1>1 DEF MemoInv, SourceInv, ReadSet
  <2>5. m \in ToSet(subs[Reads[m][j]]) BY <1>1, <2>3, <2>4 DEF MemoInv, LinkInv
  <2>6. Reads[m][j] \in Memos => state[Reads[m][j]] = "Clean"
    BY <1>1, <2>5 DEF MemoInv, TellInv, CleanInv
  <2> QED BY <2>1, <2>6
<1> QED BY <1>3, <1>4, <1>5, <1>6

\* If some clean memo were not current, take one of the least rank: the clean memos it has
\* read are current, so it has its function's value for the true ones.
LEMMA AllCurrent ==
  ASSUME GraphInv, NEW t \in Threads, MemoInv(t), NotMarking
  PROVE  \A m \in Memos : state[m] = "Clean" => value[m] = TruthOf[m]
<1> DEFINE Stale == {m \in Memos : state[m] = "Clean" /\ value[m] # TruthOf[m]}
           Ranks == {Rank[m] : m \in Stale}
<1> SUFFICES ASSUME Stale # {} PROVE FALSE OBVIOUS
<1>1. Ranks \in SUBSET Nat /\ Ranks # {} BY RankFacts
<1>2. PICK k \in Ranks : \A y \in Ranks : k <= y BY <1>1, LeastNat
<1>3. PICK m \in Stale : k = Rank[m] BY <1>2
<1>4. \A x \in Stale : Rank[m] <= Rank[x] BY <1>2, <1>3
<1>5. m \in Memos /\ m \in Subscribers /\ state[m] = "Clean" /\ value[m] # TruthOf[m]
  BY <1>3 DEF Subscribers
<1> HIDE DEF Ranks
<1>6. /\ seen[m] \in Seq(Nat) /\ Len(seen[m]) <= Len(Reads[m])
      /\ Len(seen[m]) = ReadCount(m, seen[m]) /\ value[m] = Compute(m, seen[m])
      /\ \A j \in 1..Len(seen[m]) :
           /\ seen[m][j] = value[Reads[m][j]]
           /\ Reads[m][j] \in Memos => state[Reads[m][j]] = "Clean"
  BY <1>5, CleanMemo
<1>7. \A j \in 1..Len(seen[m]) : seen[m][j] = TruthOf[Reads[m][j]]
  <2> TAKE j \in 1..Len(seen[m])
  <2> DEFINE x == Reads[m][j]
  <2>1. j \in 1..Len(Reads[m]) BY <1>5, <1>6, ReadsFacts
  <2>2. x \in Sources /\ x \in ToSet(Reads[m]) BY <1>5, <2>1, ReadsFacts
  <2>3. CASE x \in Signals
    <3>1. TruthOf[x] = value[x] BY <2>2, <2>3, TruthEquation DEF ValueIn
    <3> QED BY <1>6, <3>1
  <2>4. CASE x \in Memos
    <3>1. Rank[x] < Rank[m] /\ Rank[x] \in Nat /\ Rank[m] \in Nat
      BY <1>5, <2>2, <2>4, RankFalls
    <3>2. x \notin Stale BY <1>4, <3>1
    <3> QED BY <1>6, <2>4, <3>2
  <2> QED BY <2>2, <2>3, <2>4 DEF Sources
<1>8. ReadIn(TruthOf, m) = seen[m] BY <1>5, <1>6, <1>7, ReadsAgree
<1>9. TruthOf[m] = Compute(m, ReadIn(TruthOf, m))
  <2>1. m \in Sources /\ m \notin Signals BY <1>5, KindsAssumption DEF Sources
  <2> QED BY <2>1, TruthEquation DEF ValueIn
<1> QED BY <1>5, <1>6, <1>8, <1>9

\* A memo that is Clean has the value that its function would give now, unless a change of
\* a signal is being marked (graph/node.rs: "either none of its sources have changed, or
\* its sources have changed but its value is unchanged"), for every acyclic graph: on one
\* thread whose user code keeps no read guards of memos, so that no update is put off.
THEOREM CleanMemosAreCurrent ==
  ASSUME ~MayHold, NEW t \in Threads, Threads = {t}
  PROVE  Spec => []CleanIsCurrent
<1>1. GraphInv /\ MemoInv(t) => CleanIsCurrent
  BY AllCurrent DEF CleanIsCurrent, NotMarking
<1> QED BY <1>1, GraphInvariant, MemoInvariant, PTL
=============================================================================
