------------------------- MODULE SignalWritesProofs -------------------------
(***************************************************************************)
(* What holds of SignalWrites for every set of threads and signals and     *)
(* every bound: its types and the record of accesses, and then the stack   *)
(* of calls of a thread, which no call makes wait for itself; deferred     *)
(* writes that are never stranded; changes that are always marked; and the *)
(* register that the threads share.                                        *)
(***************************************************************************)
EXTENDS SignalWrites, FiniteSetTheorems, TLAPS

\* A thread has finitely many live accesses, so its stack has a top level.
FiniteAccesses == \A t \in Threads : IsFiniteSet(acc[t])
TypeInv == TypeOK /\ FiniteAccesses

-----------------------------------------------------------------------------
(* Type correctness *)

\* The level of the running call is a natural number.
LEMMA TopLevelType ==
  ASSUME NEW A, IsFiniteSet(A)
  PROVE  TopLevel(A) \in Nat
<1>1. IsFiniteSet(Calls(A))
  BY FS_Subset DEF Calls
<1> QED BY <1>1, FS_CardinalityType DEF TopLevel

\* Replacing an access of a thread by a well-formed one keeps the types.
LEMMA ReplaceType ==
  ASSUME TypeInv, NEW t \in Threads, NEW a \in acc[t], NEW b \in Accesses,
         Replace(t, a, b)
  PROVE  acc' \in [Threads -> SUBSET Accesses] /\ FiniteAccesses'
<1>1. acc' \in [Threads -> SUBSET Accesses]
  BY DEF TypeInv, TypeOK, Replace
<1>2. IsFiniteSet((acc[t] \ {a}) \cup {b})
  BY FS_AddElement, FS_RemoveElement DEF TypeInv, FiniteAccesses
<1>3. FiniteAccesses'
  BY <1>2 DEF TypeInv, TypeOK, FiniteAccesses, Replace
<1> QED BY <1>1, <1>3

\* So does adding one, at the top of the stack or as a guard.
LEMMA AddType ==
  ASSUME TypeInv, NEW t \in Threads, NEW b \in Accesses,
         acc' = [acc EXCEPT ![t] = @ \cup {b}]
  PROVE  acc' \in [Threads -> SUBSET Accesses] /\ FiniteAccesses'
<1>1. IsFiniteSet(acc[t] \cup {b})
  BY FS_AddElement DEF TypeInv, FiniteAccesses
<1> QED BY <1>1 DEF TypeInv, TypeOK, FiniteAccesses

\* A call is pushed with a level one above the running one.
LEMMA PushType ==
  ASSUME TypeInv, NEW t \in Threads, NEW b \in Accesses, Push(t, b)
  PROVE  acc' \in [Threads -> SUBSET Accesses] /\ FiniteAccesses'
<1>1. TopLevel(acc[t]) \in Nat
  BY TopLevelType DEF TypeInv, FiniteAccesses
<1>2. [b EXCEPT !.lvl = TopLevel(acc[t]) + 1] \in Accesses
  BY <1>1 DEF Accesses
<1> QED BY <1>2, AddType DEF Push

\* And removing one.
LEMMA RemoveType ==
  ASSUME TypeInv, NEW t \in Threads, NEW a \in acc[t],
         acc' = [acc EXCEPT ![t] = @ \ {a}]
  PROVE  acc' \in [Threads -> SUBSET Accesses] /\ FiniteAccesses'
<1>1. IsFiniteSet(acc[t] \ {a})
  BY FS_RemoveElement DEF TypeInv, FiniteAccesses
<1> QED BY <1>1 DEF TypeInv, TypeOK, FiniteAccesses

\* The values and the empty write that the actions use are well-formed.
LEMMA WriteTypes ==
  /\ NoWrite \in Writes
  /\ InitialValue \in Values
  /\ \A t \in Threads, n \in Nat : Value(t, n) \in Values
BY DEF NoWrite, Writes, InitialValue, Values, Value

\* Starting an operation keeps the operation counters natural numbers.
LEMMA StartType ==
  ASSUME TypeInv, NEW t \in Threads, Start(t)
  PROVE  ops' \in [Threads -> Nat]
BY DEF Start, TypeInv, TypeOK

\* A fresh access with a well-formed write is well-formed.
LEMMA AccessType ==
  ASSUME TypeInv, NEW t \in Threads, NEW s \in Signals, NEW kind \in Kinds,
         NEW phase \in Phases, NEW write \in Writes
  PROVE  Access(t, s, kind, phase, write) \in Accesses
BY BoundsAssumption DEF Access, Accesses, TypeInv, TypeOK

\* A nonempty set of positions of a sequence has a last one.
LEMMA LastOf ==
  ASSUME NEW n \in Nat, NEW S, S \subseteq 1..n, S # {}
  PROVE  \E i \in S : \A j \in S : j <= i
<1> DEFINE T == {k \in Nat : n - k \in S}
<1>1. T \subseteq Nat /\ T # {}
  <2>1. PICK i \in S : TRUE
    OBVIOUS
  <2>2. n - i \in Nat /\ n - (n - i) = i
    OBVIOUS
  <2> QED BY <2>2
<1>2. PICK m \in T : \A k \in T : ~(<<k, m>> \in OpToRel(<, Nat))
  <2> HIDE DEF T
  <2> QED BY <1>1, NatLessThanWellFounded, WFMin, Zenon
<1>3. ASSUME NEW k \in T PROVE m <= k
  <2>1. k \in Nat /\ m \in Nat
    BY <1>1
  <2>2. k < m => <<k, m>> \in OpToRel(<, Nat)
    BY <2>1 DEF OpToRel
  <2>3. ~(k < m)
    BY <1>2, <2>2
  <2> QED BY <2>1, <2>3
<1>4. \A j \in S : n - j \in T
  OBVIOUS
<1>5. \A j \in S : m <= n - j
  BY <1>3, <1>4
<1>6. m \in Nat /\ n - m \in S
  BY <1>2
<1> QED BY <1>5, <1>6

\* A nested update works on a value.
LEMMA PendingValueType ==
  ASSUME TypeInv, NEW t \in Threads, NEW s \in Signals
  PROVE  PendingOrCommitted(t, s) \in Values
<1> DEFINE q == pending[t][s]
           sets == DeferredSets(q)
           last == CHOOSE i \in sets : \A j \in sets : j <= i
<1>1. q \in Seq(Writes) /\ committed[s] \in Values
  BY DEF TypeInv, TypeOK
<1>2. CASE sets = {}
  BY <1>1, <1>2 DEF PendingOrCommitted
<1>3. CASE sets # {}
  <2>1. last \in sets
    <3>1. sets \subseteq 1..Len(q) /\ Len(q) \in Nat
      BY <1>1 DEF DeferredSets
    <3>2. \E i \in sets : \A j \in sets : j <= i
      BY <1>3, <3>1, LastOf
    <3> QED BY <3>2, Zenon
  <2>2. last \in DOMAIN q
    BY <2>1 DEF DeferredSets
  <2>3. q[last].val \in Values
    <3> HIDE DEF last, q
    <3>1. q[last] \in Writes
      BY <1>1, <2>2
    <3> QED BY <3>1 DEF Writes
  <2> QED BY <1>3, <2>3 DEF PendingOrCommitted
<1> QED BY <1>2, <1>3

\* The end of an access leaves well-formed accesses, writes and turns.
LEMMA ExitType ==
  ASSUME TypeInv, NEW t \in Threads, NEW a \in acc[t], NEW q \in Seq(Writes),
         Exit(t, a, q)
  PROVE  /\ acc' \in [Threads -> SUBSET Accesses] /\ FiniteAccesses'
         /\ pending' \in [Threads -> [Signals -> Seq(Writes)]]
         /\ turn' \in [Signals -> Threads \cup {NoThread}]
<1> DEFINE rest == acc[t] \ {a}
           flush == [id |-> a.id, sig |-> a.sig, kind |-> "flush",
                     phase |-> IF turn[a.sig] = t THEN "drain" ELSE "turn",
                     lvl |-> TopLevel(rest) + 1, applied |-> 0, write |-> NoWrite]
<1>0. a \in Accesses /\ a.sig \in Signals /\ a.id \in Nat
  BY DEF TypeInv, TypeOK, Accesses
<1>1. IsFiniteSet(rest)
  BY FS_RemoveElement DEF TypeInv, FiniteAccesses
<1>2. flush \in Accesses
  <2>1. TopLevel(rest) \in Nat
    BY <1>1, TopLevelType
  <2> HIDE DEF rest
  <2> QED BY <2>1, <1>0, WriteTypes, BoundsAssumption DEF Accesses, Kinds, Phases
<1>3. IsFiniteSet(rest \cup {flush}) /\ IsFiniteSet(rest \cup {})
  BY <1>1, FS_AddElement, rest \cup {} = rest
<1>4. acc' = [acc EXCEPT ![t] = rest \cup {flush}] \/ acc' = [acc EXCEPT ![t] = rest \cup {}]
  BY DEF Exit, Flush
<1>5. acc' \in [Threads -> SUBSET Accesses] /\ FiniteAccesses'
  <2> HIDE DEF flush
  <2>1. rest \in SUBSET Accesses
    BY DEF TypeInv, TypeOK
  <2> HIDE DEF rest
  <2>2. CASE acc' = [acc EXCEPT ![t] = rest \cup {flush}]
    BY <2>1, <2>2, <1>2, <1>3 DEF TypeInv, TypeOK, FiniteAccesses
  <2>3. CASE acc' = [acc EXCEPT ![t] = rest \cup {}]
    BY <2>1, <2>3, <1>3 DEF TypeInv, TypeOK, FiniteAccesses
  <2> QED BY <1>4, <2>2, <2>3
<1>6. pending' \in [Threads -> [Signals -> Seq(Writes)]]
  BY <1>0 DEF Exit, Flush, TypeInv, TypeOK
<1>7. turn' \in [Signals -> Threads \cup {NoThread}]
  BY <1>0 DEF Exit, Flush, TypeInv, TypeOK
<1> QED BY <1>5, <1>6, <1>7

\* Committing or deferring a write keeps the types.
LEMMA CommitType ==
  ASSUME TypeInv, NEW t \in Threads, NEW a \in acc[t], NEW notify \in BOOLEAN,
         Commit(t, a, notify)
  PROVE  /\ acc' \in [Threads -> SUBSET Accesses] /\ FiniteAccesses'
         /\ pending' \in [Threads -> [Signals -> Seq(Writes)]]
         /\ turn' \in [Signals -> Threads \cup {NoThread}]
<1> DEFINE b == [a EXCEPT !.phase = "swap", !.write.notify = notify,
                          !.lvl = IF a.lvl > 0 THEN a.lvl ELSE TopLevel(acc[t]) + 1]
<1>1. TopLevel(acc[t]) \in Nat
  BY TopLevelType DEF TypeInv, FiniteAccesses
<1>2. b \in Accesses /\ b.write \in Writes
  <2> DEFINE l == IF a.lvl > 0 THEN a.lvl ELSE TopLevel(acc[t]) + 1
             w == [a.write EXCEPT !.notify = notify]
  <2>1. a \in Accesses /\ l \in Nat
    BY <1>1 DEF TypeInv, TypeOK, Accesses
  <2>2. w \in Writes
    BY <2>1 DEF Accesses, Writes
  <2>3. b = [a EXCEPT !.phase = "swap", !.write = w, !.lvl = l]
    BY <2>1 DEF Accesses
  <2> HIDE DEF l, w, b
  <2> QED BY <2>1, <2>2, <2>3 DEF Accesses, Phases
<1>3. CASE Alone(t, a)
  BY <1>2, <1>3, ReplaceType DEF Commit, TypeInv, TypeOK
<1>4. CASE ~Alone(t, a)
  <2>1. pending[t][a.sig] \in Seq(Writes)
    BY DEF TypeInv, TypeOK, Accesses
  <2>2. DeferFirst(b.write, pending[t][a.sig]) \in Seq(Writes)
    BY <1>2, <2>1 DEF DeferFirst
  <2>3. Exit(t, a, DeferFirst(b.write, pending[t][a.sig]))
    BY <1>4 DEF Commit
  <2> QED BY <2>2, <2>3, ExitType
<1> QED BY <1>3, <1>4

\* The signal of an access and the deferred writes of a thread are typed.
LEMMA PendingType ==
  ASSUME TypeInv, NEW t \in Threads, NEW a \in acc[t]
  PROVE  a \in Accesses /\ a.sig \in Signals /\ pending[t][a.sig] \in Seq(Writes)
BY DEF TypeInv, TypeOK, Accesses

\* Every step of a thread keeps the types.
LEMMA TypeStep ==
  ASSUME TypeInv, NEW t \in Threads, Step(t)
  PROVE  TypeInv'
<1> USE DEF TypeInv
<1>1. ASSUME NEW s \in Signals, Read(t, s) PROVE TypeInv'
  <2>1. Access(t, s, "read", "guard", NoWrite) \in Accesses
    BY AccessType, WriteTypes DEF Kinds, Phases
  <2>2. acc' \in [Threads -> SUBSET Accesses] /\ FiniteAccesses'
    BY <1>1, <2>1, AddType DEF Read
  <2> QED BY <1>1, <2>2, StartType DEF Read, TypeOK
<1>2. ASSUME NEW s \in Signals, ReadWaits(t, s) PROVE TypeInv'
  <2>1. Access(t, s, "read", "wait", NoWrite) \in Accesses
    BY AccessType, WriteTypes DEF Kinds, Phases
  <2>2. acc' \in [Threads -> SUBSET Accesses] /\ FiniteAccesses'
    BY <1>2, <2>1, PushType DEF ReadWaits
  <2> QED BY <1>2, <2>2, StartType DEF ReadWaits, TypeOK
<1>3. ASSUME NEW s \in Signals, Refused(t, s) \/ PartRefused(t, s) PROVE TypeInv'
  BY <1>3 DEF Refused, PartRefused, Start, TypeOK, FiniteAccesses
<1>4. ASSUME NEW s \in Signals, NEW notify \in BOOLEAN,
             NEW kind \in {"set", "part", "update", "guard"},
             BeginWrite(t, s, kind, notify)
      PROVE  TypeInv'
  <2> DEFINE w == [mode |-> IF kind \in {"set", "part"} THEN "set" ELSE "update",
                   val |-> Value(t, ops[t] + 1), base |-> InitialValue,
                   own |-> TRUE, notify |-> notify]
  <2>1. ops[t] + 1 \in Nat
    BY DEF TypeOK
  <2>2. w \in Writes
    BY <2>1, WriteTypes DEF Writes
  <2> HIDE DEF w
  <2>3. Access(t, s, kind, "turn", w) \in Accesses
    BY <2>2, AccessType DEF Kinds, Phases
  <2>4. Push(t, Access(t, s, kind, "turn", w))
    BY <1>4 DEF BeginWrite, w
  <2>5. acc' \in [Threads -> SUBSET Accesses] /\ FiniteAccesses'
    BY <2>3, <2>4, PushType
  <2> QED BY <1>4, <2>5, StartType DEF BeginWrite, TypeOK
<1>5. ASSUME NEW s \in Signals, NEW notify \in BOOLEAN, DeferSet(t, s, notify)
      PROVE  TypeInv'
  <2> DEFINE w == [mode |-> "set", val |-> Value(t, ops[t] + 1),
                   base |-> InitialValue, own |-> FALSE, notify |-> notify]
  <2>1. ops[t] + 1 \in Nat
    BY DEF TypeOK
  <2>2. w \in Writes
    BY <2>1, WriteTypes DEF Writes
  <2>3. pending' = [pending EXCEPT ![t][s] = Append(@, w)]
    BY <1>5 DEF DeferSet
  <2> HIDE DEF w
  <2>4. pending' \in [Threads -> [Signals -> Seq(Writes)]]
    BY <2>2, <2>3 DEF TypeOK
  <2> QED BY <1>5, <2>4 DEF DeferSet, Start, TypeOK, FiniteAccesses
<1>6. ASSUME NEW s \in Signals, NEW kind \in {"nested", "nguard"}, BeginNested(t, s, kind)
      PROVE  TypeInv'
  <2> DEFINE w == [mode |-> "update", val |-> InitialValue,
                   base |-> PendingOrCommitted(t, s), own |-> FALSE, notify |-> TRUE]
  <2>1. PendingOrCommitted(t, s) \in Values
    BY PendingValueType
  <2>2. w \in Writes
    BY <2>1, WriteTypes DEF Writes
  <2> HIDE DEF w
  <2>3. /\ Access(t, s, kind, "guard", w) \in Accesses
        /\ Access(t, s, kind, "closure", w) \in Accesses
    BY <2>2, AccessType DEF Kinds, Phases
  <2>4. \/ acc' = [acc EXCEPT ![t] = @ \cup {Access(t, s, kind, "guard", w)}]
        \/ Push(t, Access(t, s, kind, "closure", w))
    BY <1>6 DEF BeginNested, w
  <2>5. acc' \in [Threads -> SUBSET Accesses] /\ FiniteAccesses'
    BY <2>3, <2>4, PushType, AddType
  <2> QED BY <1>6, <2>5, StartType DEF BeginNested, TypeOK
<1>7. ASSUME NEW s \in Signals, Notify(t, s) PROVE TypeInv'
  <2>1. CASE InUse(t, s)
    <3>1. pending' \in [Threads -> [Signals -> Seq(Writes)]]
      <4>1. pending[t][s] \in Seq(Writes) /\ NoWrite \in Writes
        BY WriteTypes DEF TypeOK
      <4>2. Append(pending[t][s], NoWrite) \in Seq(Writes)
        BY <4>1
      <4>3. pending' = [pending EXCEPT ![t][s] = Append(pending[t][s], NoWrite)]
        BY <1>7, <2>1 DEF Notify
      <4> QED BY <4>2, <4>3 DEF TypeOK
    <3> QED BY <1>7, <2>1, <3>1, StartType DEF Notify, TypeOK, FiniteAccesses
  <2>2. CASE ~InUse(t, s)
    <3>1. Access(t, s, "notify", "mark", NoWrite) \in Accesses
      BY AccessType, WriteTypes DEF Kinds, Phases
    <3>2. acc' \in [Threads -> SUBSET Accesses] /\ FiniteAccesses'
      BY <1>7, <2>2, <3>1, PushType DEF Notify
    <3> QED BY <1>7, <2>2, <3>2, StartType DEF Notify, TypeOK
  <2> QED BY <2>1, <2>2
<1>8. ASSUME NEW s \in Signals, BeginBare(t, s) PROVE TypeInv'
  <2> DEFINE w == [mode |-> "update", val |-> Value(t, ops[t] + 1),
                   base |-> committed[s], own |-> FALSE, notify |-> TRUE]
  <2>1. ops[t] + 1 \in Nat /\ committed[s] \in Values
    BY DEF TypeOK
  <2>2. w \in Writes
    BY <2>1, WriteTypes DEF Writes
  <2> HIDE DEF w
  <2>3. Access(t, s, "bare", "closure", w) \in Accesses
    BY <2>2, AccessType DEF Kinds, Phases
  <2>4. Push(t, Access(t, s, "bare", "closure", w))
    BY <1>8 DEF BeginBare, w
  <2>5. acc' \in [Threads -> SUBSET Accesses] /\ FiniteAccesses'
    BY <2>3, <2>4, PushType
  <2> QED BY <1>8, <2>5, StartType DEF BeginBare, TypeOK
<1>9. ASSUME NEW a \in acc[t], ReadGranted(t, a) PROVE TypeInv'
  <2>1. [a EXCEPT !.phase = "guard", !.lvl = 0] \in Accesses
    BY PendingType DEF Accesses, Phases
  <2>2. acc' \in [Threads -> SUBSET Accesses] /\ FiniteAccesses'
    BY <1>9, <2>1, ReplaceType DEF ReadGranted
  <2> QED BY <1>9, <2>2 DEF ReadGranted, TypeOK
<1>10. ASSUME NEW a \in acc[t], DropRead(t, a) PROVE TypeInv'
  BY <1>10, PendingType, ExitType DEF DropRead, TypeOK
<1>11. ASSUME NEW a \in acc[t], TakeTurn(t, a) PROVE TypeInv'
  <2>0. a \in Accesses /\ a.sig \in Signals /\ committed[a.sig] \in Values
    BY PendingType DEF TypeOK
  <2>1. TurnTaken(a) \in Accesses
    BY <2>0 DEF TurnTaken, Accesses, Kinds, Phases, Writes
  <2>2. acc' \in [Threads -> SUBSET Accesses] /\ FiniteAccesses'
    BY <1>11, <2>1, ReplaceType, RemoveType DEF TakeTurn
  <2> QED BY <1>11, <2>0, <2>2 DEF TakeTurn, TypeOK
<1>12. ASSUME NEW a \in acc[t], NEW notify \in BOOLEAN,
              EndUpdate(t, a, notify) \/ DropWriteGuard(t, a, notify)
       PROVE  TypeInv'
  <2>1. Commit(t, a, notify) /\ UNCHANGED <<committed, ops, stale, gone>>
    BY <1>12 DEF EndUpdate, DropWriteGuard
  <2> QED BY <2>1, CommitType DEF TypeOK
<1>13. ASSUME NEW a \in acc[t], NEW notify \in BOOLEAN, EndNested(t, a, notify)
       PROVE  TypeInv'
  <2>1. ops[t] + 1 \in Nat /\ a.write \in Writes
    BY PendingType DEF TypeOK, Accesses
  <2>2. [a.write EXCEPT !.val = Value(t, ops[t] + 1), !.notify = notify] \in Writes
    BY <2>1, WriteTypes DEF Writes
  <2>3. DeferredResult(t, a, notify) \in Seq(Writes)
    BY <2>2, PendingType DEF DeferredResult
  <2>4. Exit(t, a, DeferredResult(t, a, notify))
    BY <1>13 DEF EndNested
  <2>5. /\ acc' \in [Threads -> SUBSET Accesses] /\ FiniteAccesses'
        /\ pending' \in [Threads -> [Signals -> Seq(Writes)]]
        /\ turn' \in [Signals -> Threads \cup {NoThread}]
    BY <2>3, <2>4, ExitType
  <2> QED BY <1>13, <2>1, <2>5 DEF EndNested, TypeOK
<1>14. ASSUME NEW a \in acc[t], EndWrite(t, a)
       PROVE  /\ acc' \in [Threads -> SUBSET Accesses] /\ FiniteAccesses'
              /\ pending' \in [Threads -> [Signals -> Seq(Writes)]]
              /\ turn' \in [Signals -> Threads \cup {NoThread}]
  <2>1. [a EXCEPT !.phase = "drain"] \in Accesses
    BY PendingType DEF Accesses, Phases
  <2>2. CASE a.kind = "flush"
    BY <1>14, <2>1, <2>2, ReplaceType DEF EndWrite, TypeOK
  <2>3. CASE a.kind # "flush"
    BY <1>14, <2>3, ExitType, PendingType DEF EndWrite
  <2> QED BY <2>2, <2>3
<1>15. ASSUME NEW a \in acc[t], SwapIn(t, a) PROVE TypeInv'
  <2>1. [a EXCEPT !.phase = "mark"] \in Accesses
    BY PendingType DEF Accesses, Phases
  <2>2. /\ acc' \in [Threads -> SUBSET Accesses] /\ FiniteAccesses'
        /\ pending' \in [Threads -> [Signals -> Seq(Writes)]]
        /\ turn' \in [Signals -> Threads \cup {NoThread}]
    BY <1>14, <1>15, <2>1, ReplaceType DEF SwapIn, TypeOK
  <2>3. a.sig \in Signals /\ a.write.val \in Values /\ a.write.notify \in BOOLEAN
    BY PendingType DEF Accesses, Writes
  <2>4. committed' \in [Signals -> Values] /\ stale' \in [Signals -> BOOLEAN]
    BY <1>15, <2>3 DEF SwapIn, TypeOK
  <2> QED BY <1>15, <2>2, <2>4 DEF SwapIn, TypeOK
<1>16. ASSUME NEW a \in acc[t], Marked(t, a) PROVE TypeInv'
  BY <1>14, <1>16, PendingType DEF Marked, TypeOK
<1>17. ASSUME NEW a \in acc[t], Drain(t, a) PROVE TypeInv'
  <2> DEFINE q == pending[t][a.sig]
  <2>0. q \in Seq(Writes) /\ a \in Accesses
    BY PendingType
  <2>1. CASE Runaway(a) \/ ~Alone(t, a) \/ q = <<>>
    <3>1. PICK r \in Seq(Writes) : Exit(t, a, r)
      BY <1>17, <2>0, <2>1, <<>> \in Seq(Writes) DEF Drain
    <3>2. /\ acc' \in [Threads -> SUBSET Accesses] /\ FiniteAccesses'
          /\ pending' \in [Threads -> [Signals -> Seq(Writes)]]
          /\ turn' \in [Signals -> Threads \cup {NoThread}]
      BY <3>1, ExitType
    <3> QED BY <1>17, <3>2 DEF Drain, TypeOK
  <2>2. CASE ~(Runaway(a) \/ ~Alone(t, a) \/ q = <<>>)
    <3> DEFINE b == [a EXCEPT !.applied = @ + 1, !.write = Head(q),
                       !.phase = IF Head(q).mode = "notify" THEN "mark" ELSE "swap"]
    <3>1. Head(q) \in Writes /\ Tail(q) \in Seq(Writes)
      BY <2>0, <2>2
    <3>2. a.applied + 1 \in 0..MaxApplied
      BY <2>0, <2>2, BoundsAssumption DEF Accesses, Runaway
    <3>3. b \in Accesses
      BY <2>0, <3>1, <3>2 DEF Accesses, Phases
    <3>4. Replace(t, a, b) /\ pending' = [pending EXCEPT ![t][a.sig] = Tail(q)]
      BY <1>17, <2>2 DEF Drain, PopFront
    <3>5. acc' \in [Threads -> SUBSET Accesses] /\ FiniteAccesses'
      BY <3>3, <3>4, ReplaceType
    <3>6. pending' \in [Threads -> [Signals -> Seq(Writes)]]
      BY <3>1, <3>4 DEF TypeOK
    <3> QED BY <1>17, <2>2, <3>5, <3>6 DEF Drain, PopFront, TypeOK
  <2> QED BY <2>1, <2>2
<1>18. ASSUME NEW a \in acc[t], NEW notify \in BOOLEAN, SetUnrecorded(t, a, notify)
       PROVE  TypeInv'
  <2>1. [a EXCEPT !.phase = "mark"] \in Accesses
    BY PendingType DEF Accesses, Phases
  <2>2. acc' \in [Threads -> SUBSET Accesses] /\ FiniteAccesses'
    BY <1>18, <2>1, ReplaceType, RemoveType DEF SetUnrecorded
  <2>3. a.sig \in Signals /\ a.write.val \in Values
    BY PendingType DEF Accesses, Writes
  <2>4. committed' \in [Signals -> Values] /\ stale' \in [Signals -> BOOLEAN]
    BY <1>18, <2>3 DEF SetUnrecorded, TypeOK
  <2> QED BY <1>18, <2>2, <2>4 DEF SetUnrecorded, TypeOK
<1>19. ASSUME Panic(t) PROVE TypeInv'
  <2>1. IsFiniteSet({})
    BY FS_EmptySet
  <2>2. acc' \in [Threads -> SUBSET Accesses] /\ FiniteAccesses'
    BY <1>19, <2>1 DEF Panic, TypeOK, FiniteAccesses
  <2>3. <<>> \in Seq(Writes)
    OBVIOUS
  <2> QED BY <1>19, <2>2, <2>3 DEF Panic, TypeOK
<1>20. ASSUME Shutdown(t) PROVE TypeInv'
  BY <1>20 DEF Shutdown, TypeOK, FiniteAccesses
<1> QED
  <2> HIDE DEF TypeInv
  <2>1. CASE UserStart(t)
    BY <2>1, <1>1, <1>2, <1>3, <1>4, <1>5, <1>6, <1>7, <1>8 DEF UserStart
  <2>2. CASE Advance(t)
    BY <2>2, <1>9, <1>10, <1>11, <1>12, <1>13, <1>15, <1>16, <1>17, <1>18 DEF Advance
  <2> QED BY <2>1, <2>2, <1>19, <1>20 DEF Step

\* The model's state stays within its types, and one flush never applies more
\* than MaxApplied writes, for any number of threads and signals.
THEOREM TypeCorrect == Spec => []TypeOK
<1>1. Init => TypeInv
  <2> SUFFICES ASSUME Init PROVE TypeInv
    OBVIOUS
  <2>1. IsFiniteSet({})
    BY FS_EmptySet
  <2>2. <<>> \in Seq(Writes)
    OBVIOUS
  <2> QED BY <2>1, <2>2, WriteTypes DEF Init, TypeInv, TypeOK, FiniteAccesses
<1>2. TypeInv /\ [Next]_vars => TypeInv'
  <2> SUFFICES ASSUME TypeInv, [Next]_vars PROVE TypeInv'
    OBVIOUS
  <2>1. CASE Next
    BY <2>1, TypeStep DEF Next, Done, vars, TypeInv, TypeOK, FiniteAccesses
  <2>2. CASE UNCHANGED vars
    BY <2>2 DEF vars, TypeInv, TypeOK, FiniteAccesses
  <2> QED BY <2>1, <2>2
<1>3. TypeInv => TypeOK
  BY DEF TypeInv
<1> QED BY <1>1, <1>2, <1>3, PTL DEF Spec

-----------------------------------------------------------------------------
(* The writer turn and the values updates are computed from *)

\* An update that was outermost on its thread.
Own(w) == w.own /\ w.mode = "update"

\* A thread has at most one write past take_turn on a signal.
OneWriting ==
  \A t \in Threads : \A a, b \in acc[t] :
    Writing(a) /\ Writing(b) /\ a.sig = b.sig => a = b
TurnInv == TurnDiscipline /\ OneWriting

\* Only a write that holds the turn, or waits for it, reaches these phases;
\* a nested write is not outermost.
KindOK(a) ==
  /\ a.phase \in {"swap", "drain", "turn"} => a.kind \in WritingKinds
  /\ a.kind \in {"nested", "nguard"} => ~a.write.own
  /\ a.phase = "drain" => a.kind = "flush"
  /\ a.phase = "wait" => a.kind = "read"
  /\ a.kind \in {"set", "part"} => a.write.mode = "set"
KindInv == \A t \in Threads : \A a \in acc[t] : KindOK(a)

\* With c the committed values, the closure of a was given the current one.
BaseAt(a, c) ==
  Writing(a) /\ a.phase \in {"closure", "guard", "swap"} /\ Own(a.write)
    => a.write.base = c[a.sig]
BaseInv == \A t \in Threads : \A a \in acc[t] : BaseAt(a, committed)

\* An outermost update that had to be deferred is the first deferred write;
\* until it is drained its thread keeps the turn and makes no other write.
HasOwn(q) == q # <<>> /\ Own(q[1])
FirstOwn(q) == \A i \in DOMAIN q : Own(q[i]) => i = 1
Quiet(A, s) == \A a \in A : a.sig = s /\ Writing(a) => a.phase = "drain"
PendingInv ==
  \A t \in Threads, s \in Signals :
    /\ FirstOwn(pending[t][s])
    /\ HasOwn(pending[t][s]) =>
         /\ pending[t][s][1].base = committed[s]
         /\ turn[s] = t
         /\ Quiet(acc[t], s)

\* The inductive invariant.
WriteInv == TypeInv /\ TurnInv /\ KindInv /\ BaseInv /\ PendingInv

\* A write deferred last that is not an own write adds no own write.
LEMMA AppendOwn ==
  ASSUME NEW q \in Seq(Writes), NEW w \in Writes, ~Own(w), FirstOwn(q)
  PROVE  /\ FirstOwn(Append(q, w))
         /\ HasOwn(Append(q, w)) => HasOwn(q) /\ Append(q, w)[1] = q[1]
BY DEF FirstOwn, HasOwn

\* Taking the first deferred write off leaves no own write behind.
LEMMA TailOwn ==
  ASSUME NEW q \in Seq(Writes), q # <<>>, FirstOwn(q)
  PROVE  FirstOwn(Tail(q)) /\ ~HasOwn(Tail(q))
<1>1. \A i \in DOMAIN Tail(q) : i + 1 \in DOMAIN q /\ Tail(q)[i] = q[i + 1] /\ i + 1 # 1
  OBVIOUS
<1>2. \A i \in DOMAIN Tail(q) : ~Own(Tail(q)[i])
  BY <1>1 DEF FirstOwn
<1>3. Tail(q) # <<>> => 1 \in DOMAIN Tail(q)
  OBVIOUS
<1> QED BY <1>2, <1>3 DEF FirstOwn, HasOwn

\* A write deferred first may be an own write; the others stay not own.
LEMMA PushFrontOwn ==
  ASSUME NEW q \in Seq(Writes), NEW w \in Writes, FirstOwn(q), ~HasOwn(q)
  PROVE  FirstOwn(DeferFirst(w, q)) /\ DeferFirst(w, q)[1] = w /\ DeferFirst(w, q) # <<>>
<1> DEFINE r == DeferFirst(w, q)
<1>1. r \in Seq(Writes) /\ Len(r) = Len(q) + 1 /\ r[1] = w
  BY DEF DeferFirst
<1>2. \A i \in DOMAIN r : i # 1 => i - 1 \in DOMAIN q /\ r[i] = q[i - 1]
  BY DEF DeferFirst
<1>3. \A i \in DOMAIN q : ~Own(q[i])
  <2>1. q = <<>> => DOMAIN q = {}
    OBVIOUS
  <2> QED BY <2>1 DEF FirstOwn, HasOwn
<1>4. FirstOwn(r)
  BY <1>2, <1>3 DEF FirstOwn
<1>5. r # <<>>
  BY <1>1
<1> QED BY <1>1, <1>4, <1>5

\* Adding an access without the turn.
LEMMA AddPassive ==
  ASSUME WriteInv, NEW t \in Threads, NEW b \in Accesses, ~Writing(b), KindOK(b),
         acc' = [acc EXCEPT ![t] = @ \cup {b}], UNCHANGED turn
  PROVE  /\ TurnInv' /\ KindInv'
         /\ committed' = committed => BaseInv'
         /\ \A u \in Threads, s \in Signals : Quiet(acc[u], s) => Quiet(acc'[u], s)
<1> USE DEF WriteInv, TypeInv, TypeOK
<1>1. TurnInv'
  BY DEF TurnInv, TurnDiscipline, OneWriting, InUse, Uses, Recorded
<1>2. KindInv'
  BY DEF KindInv
<1>3. committed' = committed => BaseInv'
  BY DEF BaseInv, BaseAt
<1>4. \A u \in Threads, s \in Signals : Quiet(acc[u], s) => Quiet(acc'[u], s)
  BY DEF Quiet
<1> QED BY <1>1, <1>2, <1>3, <1>4

\* Replacing an access by one that uses the signal in the same way.
LEMMA ReplaceSame ==
  ASSUME WriteInv, NEW t \in Threads, NEW a \in acc[t], NEW b \in Accesses,
         Replace(t, a, b), UNCHANGED turn,
         b.sig = a.sig, Writing(b) <=> Writing(a), Recorded(b) <=> Recorded(a),
         KindOK(b)
  PROVE  /\ TurnInv' /\ KindInv'
         /\ (/\ \A u \in Threads : \A c \in acc[u] : u # t \/ c # a => BaseAt(c, committed')
             /\ BaseAt(b, committed')) => BaseInv'
<1> USE DEF WriteInv, TypeInv, TypeOK, Replace
<1>1. TurnInv'
  <2>1. ASSUME NEW u \in Threads, NEW c \in acc'[u], Writing(c) PROVE turn'[c.sig] = u
    BY <2>1 DEF TurnInv, TurnDiscipline
  <2>2. ASSUME NEW u \in Threads, NEW s \in Signals, turn'[s] = u PROVE InUse(u, s)'
    <3>1. PICK c \in acc[u] : c.sig = s /\ Recorded(c)
      BY <2>2 DEF TurnInv, TurnDiscipline, InUse, Uses
    <3>2. \E d \in acc'[u] : d.sig = s /\ Recorded(d)
      BY <3>1
    <3> QED BY <3>2 DEF InUse, Uses
  <2>3. OneWriting'
    BY DEF TurnInv, OneWriting
  <2> QED BY <2>1, <2>2, <2>3 DEF TurnInv, TurnDiscipline
<1>2. KindInv'
  BY DEF KindInv
<1>3. (/\ \A u \in Threads : \A c \in acc[u] : u # t \/ c # a => BaseAt(c, committed')
       /\ BaseAt(b, committed')) => BaseInv'
  BY DEF BaseInv
<1> QED BY <1>1, <1>2, <1>3

\* The end of an access.
LEMMA ExitKeeps ==
  ASSUME WriteInv, NEW t \in Threads, NEW a \in acc[t], NEW q \in Seq(Writes),
         Exit(t, a, q)
  PROVE  /\ TurnInv' /\ KindInv'
         /\ (\A u \in Threads : \A c \in acc[u] : u # t \/ c # a => BaseAt(c, committed'))
              => BaseInv'
         /\ \A s \in Signals \ {a.sig} : turn'[s] = turn[s]
         /\ Quiet(acc[t] \ {a}, a.sig) => Quiet(acc'[t], a.sig)
         /\ \A s \in Signals : s # a.sig /\ Quiet(acc[t], s) => Quiet(acc'[t], s)
         /\ \A u \in Threads \ {t} : acc'[u] = acc[u]
         /\ q # <<>> => \A s \in Signals : turn'[s] = turn[s]
         /\ \A s \in Signals : turn[s] # t => turn'[s] = turn[s]
<1> DEFINE s0 == a.sig
           rest == acc[t] \ {a}
           flush == [id |-> a.id, sig |-> s0, kind |-> "flush",
                     phase |-> IF turn[s0] = t THEN "drain" ELSE "turn",
                     lvl |-> TopLevel(rest) + 1, applied |-> 0, write |-> NoWrite]
           last == Outermost(t, a)
<1> USE DEF WriteInv, TypeInv, TypeOK
<1>0. s0 \in Signals
  BY DEF Accesses
<1>1. /\ acc' = [acc EXCEPT ![t] = rest \cup IF last /\ q # <<>> THEN {flush} ELSE {}]
      /\ turn' = IF last /\ q = <<>> /\ turn[s0] = t
                 THEN [turn EXCEPT ![s0] = NoThread] ELSE turn
  BY DEF Exit, Flush
<1>2. /\ flush.sig = s0 /\ KindOK(flush) /\ ~Own(flush.write)
      /\ Writing(flush) => flush.phase = "drain" /\ turn[s0] = t
      /\ turn[s0] = t => Writing(flush)
  BY DEF KindOK, WritingKinds, Writing, NoWrite, Own
<1>3. last => \A c \in rest : c.sig = s0 => ~Recorded(c)
  BY DEF Outermost, Alone, Uses
<1> HIDE DEF flush, last
<1>4. \A u \in Threads \ {t} : acc'[u] = acc[u]
  BY <1>1
<1>5. acc'[t] = rest \cup IF last /\ q # <<>> THEN {flush} ELSE {}
  BY <1>1
<1>6. TurnInv'
  <2>1. ASSUME NEW u \in Threads, NEW c \in acc'[u], Writing(c) PROVE turn'[c.sig] = u
    <3>1. CASE c \in acc[u]
      <4>1. turn[c.sig] = u
        BY <2>1, <3>1 DEF TurnInv, TurnDiscipline
      <4>2. c \in Accesses /\ c.sig \in Signals
        BY <3>1 DEF Accesses
      <4>3. CASE last /\ q = <<>> /\ turn[s0] = t
        <5>1. turn' = [turn EXCEPT ![s0] = NoThread]
          BY <1>1, <4>3
        <5>2. c.sig # s0
          <6>1. SUFFICES ASSUME c.sig = s0 PROVE FALSE
            OBVIOUS
          <6>2. u = t
            BY <4>1, <4>3, <6>1
          <6>3. c \in rest
            BY <1>5, <2>1, <4>3, <6>2
          <6> QED BY <1>3, <2>1, <4>3, <6>1, <6>3 DEF Recorded
        <5> QED BY <4>1, <4>2, <5>1, <5>2
      <4>4. CASE ~(last /\ q = <<>> /\ turn[s0] = t)
        BY <1>1, <4>1, <4>4
      <4> QED BY <4>3, <4>4
    <3>2. CASE c \notin acc[u]
      <4>1. u = t /\ c = flush /\ q # <<>>
        BY <1>4, <1>5, <3>2
      <4> QED BY <1>1, <1>2, <2>1, <4>1
    <3> QED BY <3>1, <3>2
  <2>2. ASSUME NEW u \in Threads, NEW s \in Signals, turn'[s] = u PROVE InUse(u, s)'
    <3>1. turn[s] = u /\ u # NoThread
      BY <1>0, <1>1, <2>2, ThreadsAssumption
    <3>2. PICK c \in acc[u] : c.sig = s /\ Recorded(c)
      BY <3>1 DEF TurnInv, TurnDiscipline, InUse, Uses
    <3>3. \E d \in acc'[u] : d.sig = s /\ Recorded(d)
      <4>1. CASE c \in acc'[u]
        BY <3>2, <4>1
      <4>2. CASE c \notin acc'[u]
        <5>1. u = t /\ c = a /\ s = s0
          BY <1>4, <1>5, <3>2, <4>2
        <5>2. CASE last
          <6>1. q # <<>>
            BY <1>0, <1>1, <2>2, <3>1, <5>1, <5>2
          <6>2. flush \in acc'[t] /\ Recorded(flush)
            BY <1>2, <1>5, <3>1, <5>1, <5>2, <6>1 DEF Recorded
          <6> QED BY <1>2, <5>1, <6>2
        <5>3. CASE ~last
          <6>1. PICK d \in acc[t] : d # a /\ d.sig = s0 /\ Recorded(d)
            BY <3>2, <5>1, <5>3 DEF last, Outermost, Alone, Uses
          <6>2. d \in acc'[t]
            BY <1>5, <6>1
          <6> QED BY <5>1, <6>1, <6>2
        <5> QED BY <5>2, <5>3
      <4> QED BY <4>1, <4>2
    <3> QED BY <3>3 DEF InUse, Uses
  <2>3. OneWriting'
    <3> SUFFICES ASSUME NEW u \in Threads, NEW c \in acc'[u], NEW d \in acc'[u],
                        Writing(c), Writing(d), c.sig = d.sig
                 PROVE  c = d
      BY DEF OneWriting
    <3>1. CASE c \in acc[u] /\ d \in acc[u]
      BY <3>1 DEF TurnInv, OneWriting
    <3>2. CASE c \notin acc[u] \/ d \notin acc[u]
      <4>1. u = t /\ last /\ (c = flush \/ d = flush)
        BY <1>4, <1>5, <3>2
      <4>2. \A e \in rest : e.sig = s0 => ~Writing(e)
        BY <1>3, <4>1 DEF Recorded
      <4> QED BY <1>2, <1>5, <4>1, <4>2
    <3> QED BY <3>1, <3>2
  <2> QED BY <2>1, <2>2, <2>3 DEF TurnInv, TurnDiscipline
<1>7. KindInv'
  <2> SUFFICES ASSUME NEW u \in Threads, NEW c \in acc'[u] PROVE KindOK(c)
    BY DEF KindInv
  <2>1. c \in acc[u] \/ c = flush
    BY <1>4, <1>5
  <2> QED BY <1>2, <2>1 DEF KindInv
<1>8. ASSUME \A u \in Threads : \A c \in acc[u] : u # t \/ c # a => BaseAt(c, committed')
      PROVE  BaseInv'
  <2> SUFFICES ASSUME NEW u \in Threads, NEW c \in acc'[u] PROVE BaseAt(c, committed')
    BY DEF BaseInv
  <2>1. (c \in acc[u] /\ (u # t \/ c # a)) \/ c = flush
    BY <1>4, <1>5
  <2>2. BaseAt(flush, committed')
    BY <1>2 DEF BaseAt
  <2> QED BY <1>8, <2>1, <2>2
<1>9. \A s \in Signals \ {a.sig} : turn'[s] = turn[s]
  BY <1>0, <1>1
<1>10. Quiet(rest, s0) => Quiet(acc'[t], s0)
  BY <1>2, <1>5 DEF Quiet
<1>11. \A s \in Signals : s # s0 /\ Quiet(acc[t], s) => Quiet(acc'[t], s)
  BY <1>2, <1>5 DEF Quiet
<1>12. q # <<>> => \A s \in Signals : turn'[s] = turn[s]
  BY <1>1
<1>13. \A s \in Signals : turn[s] # t => turn'[s] = turn[s]
  BY <1>0, <1>1
<1> QED BY <1>4, <1>6, <1>7, <1>8, <1>9, <1>10, <1>11, <1>12, <1>13

\* The part of the invariant beyond types.
SafeInv == TurnInv /\ KindInv /\ BaseInv /\ PendingInv

\* A step that only adds an access without the turn keeps the invariant.
LEMMA AddStep ==
  ASSUME WriteInv, NEW t \in Threads, NEW b \in Accesses, ~Writing(b), KindOK(b),
         acc' = [acc EXCEPT ![t] = @ \cup {b}], UNCHANGED <<turn, committed, pending>>
  PROVE  SafeInv'
<1>1. /\ TurnInv' /\ KindInv' /\ BaseInv'
      /\ \A u \in Threads, s \in Signals : Quiet(acc[u], s) => Quiet(acc'[u], s)
  BY AddPassive
<1>2. PendingInv'
  BY <1>1 DEF WriteInv, PendingInv
<1> QED BY <1>1, <1>2 DEF SafeInv

\* A step that only pushes a call without the turn keeps the invariant.
LEMMA PushStep ==
  ASSUME WriteInv, NEW t \in Threads, NEW b \in Accesses, ~Writing(b), KindOK(b),
         Push(t, b), UNCHANGED <<turn, committed, pending>>
  PROVE  SafeInv'
<1> DEFINE c == [b EXCEPT !.lvl = TopLevel(acc[t]) + 1]
<1>1. TopLevel(acc[t]) \in Nat
  BY TopLevelType DEF WriteInv, TypeInv, FiniteAccesses
<1>2. c \in Accesses
  BY <1>1 DEF Accesses
<1>3. ~Writing(c) /\ KindOK(c)
  BY DEF Writing, KindOK, Accesses
<1>4. acc' = [acc EXCEPT ![t] = @ \cup {c}]
  BY DEF Push
<1> HIDE DEF c
<1> QED BY <1>2, <1>3, <1>4, AddStep

\* A nested write is deferred behind the others.
LEMMA AppendStep ==
  ASSUME WriteInv, NEW t \in Threads, NEW s \in Signals, NEW w \in Writes, ~Own(w),
         pending' = [pending EXCEPT ![t][s] = Append(@, w)],
         UNCHANGED <<acc, turn, committed>>
  PROVE  SafeInv'
<1>0. pending \in [Threads -> [Signals -> Seq(Writes)]]
  BY DEF WriteInv, TypeInv, TypeOK
<1>1. pending'[t][s] = Append(pending[t][s], w)
  BY <1>0
<1>2. \A u \in Threads, r \in Signals : u # t \/ r # s => pending'[u][r] = pending[u][r]
  BY <1>0
<1>3. /\ FirstOwn(pending'[t][s])
      /\ HasOwn(pending'[t][s]) => HasOwn(pending[t][s]) /\ pending'[t][s][1] = pending[t][s][1]
  BY <1>0, <1>1, AppendOwn DEF WriteInv, PendingInv
<1>4. PendingInv'
  BY <1>2, <1>3 DEF WriteInv, PendingInv
<1>5. TurnInv' /\ KindInv' /\ BaseInv'
  BY DEF WriteInv, TurnInv, TurnDiscipline, OneWriting, InUse, Uses, KindInv, BaseInv
<1> QED BY <1>4, <1>5 DEF SafeInv

\* A step that changes only counters and marks keeps the invariant.
LEMMA SameStep ==
  ASSUME WriteInv, UNCHANGED <<acc, turn, committed, pending>>
  PROVE  SafeInv'
BY DEF WriteInv, SafeInv, TurnInv, TurnDiscipline, OneWriting, InUse, Uses, KindInv,
       BaseInv, PendingInv

\* An access goes on without committing or deferring anything.
LEMMA ReplaceStep ==
  ASSUME WriteInv, NEW t \in Threads, NEW a \in acc[t], NEW b \in Accesses,
         Replace(t, a, b), UNCHANGED <<turn, committed, pending>>,
         b.sig = a.sig, Writing(b) <=> Writing(a), Recorded(b) <=> Recorded(a),
         KindOK(b), BaseAt(b, committed),
         HasOwn(pending[t][a.sig]) /\ Writing(b) => b.phase = "drain"
  PROVE  SafeInv'
<1>1. TurnInv' /\ KindInv' /\ BaseInv'
  BY ReplaceSame DEF WriteInv, BaseInv
<1>2. PendingInv'
  <2> SUFFICES ASSUME NEW u \in Threads, NEW s \in Signals, HasOwn(pending[u][s]),
                      Quiet(acc[u], s)
               PROVE  Quiet(acc'[u], s)
    BY DEF WriteInv, PendingInv
  <2> QED BY DEF Quiet, Replace, WriteInv, TypeInv, TypeOK
<1> QED BY <1>1, <1>2 DEF SafeInv

\* An access ends, leaving the deferred writes q.
LEMMA ExitStep ==
  ASSUME WriteInv, NEW t \in Threads, NEW a \in acc[t], NEW q \in Seq(Writes),
         Exit(t, a, q), UNCHANGED committed, FirstOwn(q),
         HasOwn(q) => /\ q[1].base = committed[a.sig]
                      /\ turn[a.sig] = t
                      /\ Quiet(acc[t] \ {a}, a.sig)
  PROVE  SafeInv'
<1>1. /\ TurnInv' /\ KindInv' /\ BaseInv'
      /\ \A s \in Signals \ {a.sig} : turn'[s] = turn[s]
      /\ Quiet(acc[t] \ {a}, a.sig) => Quiet(acc'[t], a.sig)
      /\ \A s \in Signals : s # a.sig /\ Quiet(acc[t], s) => Quiet(acc'[t], s)
      /\ \A u \in Threads \ {t} : acc'[u] = acc[u]
      /\ q # <<>> => \A s \in Signals : turn'[s] = turn[s]
      /\ \A s \in Signals : turn[s] # t => turn'[s] = turn[s]
  <2>1. \A u \in Threads : \A c \in acc[u] : u # t \/ c # a => BaseAt(c, committed')
    BY DEF WriteInv, BaseInv, BaseAt
  <2>2. /\ TurnInv' /\ KindInv'
        /\ (\A u \in Threads : \A c \in acc[u] : u # t \/ c # a => BaseAt(c, committed'))
             => BaseInv'
    BY ExitKeeps
  <2>3. BaseInv'
    BY <2>1, <2>2
  <2>4. \A s \in Signals \ {a.sig} : turn'[s] = turn[s]
    BY ExitKeeps
  <2>5. Quiet(acc[t] \ {a}, a.sig) => Quiet(acc'[t], a.sig)
    BY ExitKeeps
  <2>6. \A s \in Signals : s # a.sig /\ Quiet(acc[t], s) => Quiet(acc'[t], s)
    BY ExitKeeps
  <2>7. \A u \in Threads \ {t} : acc'[u] = acc[u]
    BY ExitKeeps
  <2>8. q # <<>> => \A s \in Signals : turn'[s] = turn[s]
    BY ExitKeeps
  <2>9. \A s \in Signals : turn[s] # t => turn'[s] = turn[s]
    BY ExitKeeps
  <2> QED BY <2>2, <2>3, <2>4, <2>5, <2>6, <2>7, <2>8, <2>9
<1>2. /\ pending'[t][a.sig] = q
      /\ \A u \in Threads, s \in Signals : u # t \/ s # a.sig => pending'[u][s] = pending[u][s]
  <2>1. pending' = [pending EXCEPT ![t][a.sig] = q]
    BY DEF Exit, Flush
  <2>2. a.sig \in Signals /\ pending \in [Threads -> [Signals -> Seq(Writes)]]
    BY PendingType DEF WriteInv, TypeInv, TypeOK
  <2> QED BY <2>1, <2>2
<1>3. PendingInv'
  <2> SUFFICES ASSUME NEW u \in Threads, NEW s \in Signals
               PROVE  /\ FirstOwn(pending'[u][s])
                      /\ HasOwn(pending'[u][s]) =>
                           /\ pending'[u][s][1].base = committed[s]
                           /\ turn'[s] = u
                           /\ Quiet(acc'[u], s)
    BY DEF PendingInv
  <2>1. CASE u = t /\ s = a.sig
    <3>1. pending'[u][s] = q /\ (HasOwn(q) => \A r \in Signals : turn'[r] = turn[r])
      BY <1>1, <1>2, <2>1 DEF HasOwn
    <3> QED BY <1>1, <2>1, <3>1
  <2>2. CASE u = t /\ s # a.sig
    BY <1>1, <1>2, <2>2 DEF WriteInv, PendingInv
  <2>3. CASE u # t
    <3>1. pending'[u][s] = pending[u][s] /\ acc'[u] = acc[u]
      BY <1>1, <1>2, <2>3
    <3>2. turn[s] = u => turn'[s] = u
      BY <1>1, <2>3
    <3> QED BY <3>1, <3>2 DEF WriteInv, PendingInv
  <2> QED BY <2>1, <2>2, <2>3
<1> QED BY <1>1, <1>3 DEF SafeInv

\* Deferred writes that stay as they were meet the condition of ExitStep.
LEMMA PendingStays ==
  ASSUME WriteInv, NEW t \in Threads, NEW a \in acc[t]
  PROVE  /\ FirstOwn(pending[t][a.sig])
         /\ HasOwn(pending[t][a.sig]) => /\ pending[t][a.sig][1].base = committed[a.sig]
                                         /\ turn[a.sig] = t
                                         /\ Quiet(acc[t] \ {a}, a.sig)
         /\ HasOwn(pending[t][a.sig]) /\ Writing(a) => a.phase = "drain"
<1>1. a.sig \in Signals
  BY PendingType DEF WriteInv
<1> QED BY <1>1 DEF WriteInv, PendingInv, Quiet

\* A commit does not touch the value another update was computed from.
LEMMA SwapKeeps ==
  ASSUME WriteInv, NEW t \in Threads, NEW a \in acc[t], NEW v,
         (Writing(a) /\ a.phase = "swap") \/ turn[a.sig] = NoThread,
         committed' = [committed EXCEPT ![a.sig] = v]
  PROVE  /\ \A u \in Threads : \A c \in acc[u] : u # t \/ c # a => BaseAt(c, committed')
         /\ \A u \in Threads, s \in Signals :
              HasOwn(pending[u][s]) => pending[u][s][1].base = committed'[s]
<1> DEFINE s0 == a.sig
<1>0. s0 \in Signals /\ committed \in [Signals -> Values]
  BY PendingType DEF WriteInv, TypeInv, TypeOK
<1>1. \A s \in Signals \ {s0} : committed'[s] = committed[s]
  BY <1>0
<1>2. ASSUME NEW u \in Threads, NEW c \in acc[u], u # t \/ c # a
      PROVE  BaseAt(c, committed')
  <2>1. c.sig \in Signals /\ BaseAt(c, committed)
    BY PendingType DEF WriteInv, BaseInv
  <2>2. CASE c.sig # s0
    BY <1>1, <2>1, <2>2 DEF BaseAt
  <2>3. CASE c.sig = s0
    <3>1. ~Writing(c)
      BY <1>2, <2>3, ThreadsAssumption DEF WriteInv, TurnInv, TurnDiscipline, OneWriting
    <3> QED BY <3>1 DEF BaseAt
  <2> QED BY <2>2, <2>3
<1>3. ASSUME NEW u \in Threads, NEW s \in Signals, HasOwn(pending[u][s])
      PROVE  pending[u][s][1].base = committed'[s]
  <2>1. pending[u][s][1].base = committed[s] /\ turn[s] = u /\ Quiet(acc[u], s)
    BY <1>3 DEF WriteInv, PendingInv
  <2>2. s # s0
    <3>1. SUFFICES ASSUME s = s0 PROVE FALSE
      OBVIOUS
    <3>2. turn[s0] = u /\ u # NoThread
      BY <2>1, <3>1, ThreadsAssumption
    <3>3. Writing(a) /\ a.phase = "swap" /\ u = t
      BY <3>2 DEF WriteInv, TurnInv, TurnDiscipline
    <3> QED BY <2>1, <3>1, <3>3 DEF Quiet
  <2> QED BY <1>1, <2>1, <2>2
<1> QED BY <1>2, <1>3

\* The swap of a value in, and what follows it.
LEMMA SwapStep ==
  ASSUME WriteInv, NEW t \in Threads, NEW a \in acc[t], SwapIn(t, a)
  PROVE  SafeInv'
<1>0. a \in Accesses /\ a.sig \in Signals /\ pending[t][a.sig] \in Seq(Writes)
  BY PendingType DEF WriteInv
<1>1. Writing(a) /\ a.phase = "swap"
  BY DEF SwapIn, WriteInv, KindInv, KindOK, Writing
<1>2. /\ \A u \in Threads : \A c \in acc[u] : u # t \/ c # a => BaseAt(c, committed')
      /\ \A u \in Threads, s \in Signals :
           HasOwn(pending[u][s]) => pending[u][s][1].base = committed'[s]
  BY <1>1, SwapKeeps DEF SwapIn
<1>3. ~HasOwn(pending[t][a.sig])
  BY <1>1, PendingStays
<1>4. ASSUME NEW phase \in {"mark", "drain"}, a.kind = "flush" \/ phase = "mark",
             Replace(t, a, [a EXCEPT !.phase = phase]), UNCHANGED <<turn, pending>>
      PROVE  SafeInv'
  <2> DEFINE b == [a EXCEPT !.phase = phase]
  <2>1. b \in Accesses /\ b.phase = phase
    BY <1>0 DEF Accesses, Phases
  <2>2. b.sig = a.sig /\ b.kind = a.kind /\ b.write = a.write
    BY <1>0 DEF Accesses
  <2>3. Writing(b) /\ Recorded(b) /\ Recorded(a)
    BY <1>1, <2>1, <2>2 DEF Writing, Recorded
  <2>4. KindOK(b) /\ BaseAt(b, committed')
    BY <1>1, <1>4, <2>1, <2>2 DEF WriteInv, KindInv, KindOK, BaseAt, Writing
  <2>5. Replace(t, a, b)
    BY <1>4
  <2> HIDE DEF b
  <2>6. TurnInv' /\ KindInv' /\ BaseInv'
    BY <1>1, <1>2, <1>4, <2>1, <2>2, <2>3, <2>4, <2>5, ReplaceSame
  <2>7. PendingInv'
    <3> SUFFICES ASSUME NEW u \in Threads, NEW s \in Signals, HasOwn(pending[u][s]),
                        Quiet(acc[u], s)
                 PROVE  Quiet(acc'[u], s)
      BY <1>2, <1>4 DEF WriteInv, PendingInv
    <3>1. u # t \/ s # a.sig
      BY <1>3
    <3> QED BY <2>2, <2>5, <3>1 DEF Quiet, Replace, WriteInv, TypeInv, TypeOK
  <2> QED BY <2>6, <2>7 DEF SafeInv
<1>5. ASSUME Exit(t, a, pending[t][a.sig]) PROVE SafeInv'
  <2>1. TurnInv' /\ KindInv' /\ BaseInv'
    BY <1>0, <1>2, <1>5, ExitKeeps
  <2>2. /\ \A s \in Signals : s # a.sig /\ Quiet(acc[t], s) => Quiet(acc'[t], s)
        /\ \A u \in Threads \ {t} : acc'[u] = acc[u]
    BY <1>0, <1>5, ExitKeeps
  <2>3. /\ \A s \in Signals \ {a.sig} : turn'[s] = turn[s]
        /\ \A s \in Signals : turn[s] # t => turn'[s] = turn[s]
    BY <1>0, <1>5, ExitKeeps
  <2>4. pending' = pending
    BY <1>0, <1>5 DEF Exit, Flush, WriteInv, TypeInv, TypeOK
  <2>5. PendingInv'
    <3> SUFFICES ASSUME NEW u \in Threads, NEW s \in Signals, HasOwn(pending[u][s]),
                        turn[s] = u, Quiet(acc[u], s)
                 PROVE  turn'[s] = u /\ Quiet(acc'[u], s)
      BY <1>2, <2>4 DEF WriteInv, PendingInv
    <3>1. u # t \/ s # a.sig
      BY <1>3
    <3> QED BY <2>2, <2>3, <3>1
  <2> QED BY <2>1, <2>5 DEF SafeInv
<1> QED BY <1>4, <1>5 DEF SwapIn, EndWrite

\* The writer turn is taken.
LEMMA TurnStep ==
  ASSUME WriteInv, NEW t \in Threads, NEW a \in acc[t], TakeTurn(t, a)
  PROVE  SafeInv'
<1>0. a \in Accesses /\ a.sig \in Signals
  BY PendingType DEF WriteInv
<1>1. /\ a.kind \in WritingKinds /\ a.phase = "turn" /\ ~Writing(a) /\ ~Recorded(a)
      /\ turn[a.sig] = NoThread
  BY DEF TakeTurn, TurnFree, WriteInv, KindInv, KindOK, Writing, Recorded, WritingKinds
<1>2. /\ \A u \in Threads : \A c \in acc[u] : Writing(c) => c.sig # a.sig
      /\ \A u \in Threads : ~HasOwn(pending[u][a.sig])
  BY <1>0, <1>1, ThreadsAssumption
     DEF WriteInv, TurnInv, TurnDiscipline, PendingInv
<1>3. CASE acc' = [acc EXCEPT ![t] = @ \ {a}] /\ UNCHANGED turn
  <2>1. UNCHANGED <<committed, pending>>
    BY DEF TakeTurn
  <2> QED
    BY <1>1, <1>3, <2>1 DEF SafeInv, WriteInv, TypeInv, TypeOK, TurnInv, TurnDiscipline,
       OneWriting, InUse, Uses, KindInv, BaseInv, PendingInv, Quiet
<1>4. CASE turn' = [turn EXCEPT ![a.sig] = t] /\ Replace(t, a, TurnTaken(a))
  <2> DEFINE b == TurnTaken(a)
  <2>1. /\ b.sig = a.sig /\ b.kind = a.kind
        /\ b.phase \in {"swap", "closure", "guard", "drain"}
        /\ b.phase = "drain" => b.kind = "flush"
        /\ b.write.own = a.write.own /\ b.write.mode = a.write.mode
    BY <1>0, <1>1 DEF TurnTaken, Accesses, WritingKinds, Writes
  <2>2. Writing(b) /\ Recorded(b) /\ KindOK(b)
    BY <1>1, <2>1 DEF Writing, Recorded, KindOK, WriteInv, KindInv, WritingKinds
  <2>3. BaseAt(b, committed)
    <3>1. CASE a.kind \in {"update", "guard"}
      BY <1>0, <3>1 DEF BaseAt, TurnTaken, Accesses, Writes
    <3>2. CASE a.kind \in {"set", "part"}
      BY <1>0, <3>2, SMT DEF BaseAt, TurnTaken, Accesses, Own, WriteInv, KindInv, KindOK
    <3>3. CASE a.kind = "flush"
      BY <1>0, <3>3 DEF BaseAt, TurnTaken, Accesses
    <3> QED BY <1>1, <3>1, <3>2, <3>3 DEF WritingKinds
  <2> HIDE DEF b
  <2>4. /\ acc' = [acc EXCEPT ![t] = (acc[t] \ {a}) \cup {b}]
        /\ UNCHANGED <<committed, pending>>
    BY <1>4 DEF Replace, TakeTurn, b
  <2>5. /\ acc'[t] = (acc[t] \ {a}) \cup {b}
        /\ \A u \in Threads \ {t} : acc'[u] = acc[u]
        /\ turn'[a.sig] = t
        /\ \A s \in Signals \ {a.sig} : turn'[s] = turn[s]
    BY <1>0, <1>4, <2>4 DEF WriteInv, TypeInv, TypeOK
  <2>6. TurnDiscipline'
    <3>1. ASSUME NEW u \in Threads, NEW c \in acc'[u], Writing(c) PROVE turn'[c.sig] = u
      <4>1. CASE c \in acc[u]
        <5>1. c.sig # a.sig /\ turn[c.sig] = u /\ c.sig \in Signals
          BY <1>2, <3>1, <4>1 DEF WriteInv, TypeInv, TypeOK, Accesses, TurnInv, TurnDiscipline
        <5> QED BY <2>5, <5>1
      <4>2. CASE c \notin acc[u]
        BY <2>1, <2>5, <4>2
      <4> QED BY <4>1, <4>2
    <3>2. ASSUME NEW u \in Threads, NEW s \in Signals, turn'[s] = u
          PROVE  \E c \in acc'[u] : c.sig = s /\ Recorded(c)
      <4>1. CASE s = a.sig
        BY <2>1, <2>2, <2>5, <3>2, <4>1
      <4>2. CASE s # a.sig
        <5>1. PICK c \in acc[u] : c.sig = s /\ Recorded(c)
          BY <2>5, <3>2, <4>2 DEF WriteInv, TurnInv, TurnDiscipline, InUse, Uses
        <5> QED BY <1>1, <2>5, <5>1
      <4> QED BY <4>1, <4>2
    <3> QED BY <3>1, <3>2 DEF TurnDiscipline, InUse, Uses
  <2>7. OneWriting'
    <3> SUFFICES ASSUME NEW u \in Threads, NEW c \in acc'[u], NEW d \in acc'[u],
                        Writing(c), Writing(d), c.sig = d.sig
                 PROVE  c = d
      BY DEF OneWriting
    <3>1. CASE c \in acc[u] /\ d \in acc[u]
      BY <3>1 DEF WriteInv, TurnInv, OneWriting
    <3>2. CASE c \notin acc[u] \/ d \notin acc[u]
      BY <1>2, <2>1, <2>5, <3>2
    <3> QED BY <3>1, <3>2
  <2>8. KindInv' /\ BaseInv'
    BY <2>2, <2>3, <2>4, <2>5 DEF WriteInv, KindInv, BaseInv
  <2>9. PendingInv'
    <3> SUFFICES ASSUME NEW u \in Threads, NEW s \in Signals, HasOwn(pending[u][s]),
                        turn[s] = u, Quiet(acc[u], s)
                 PROVE  turn'[s] = u /\ Quiet(acc'[u], s)
      BY <2>4 DEF WriteInv, PendingInv
    <3>1. s # a.sig
      BY <1>2
    <3> QED BY <2>1, <2>5, <3>1 DEF Quiet
  <2> QED BY <2>6, <2>7, <2>8, <2>9 DEF SafeInv, TurnInv
<1> QED BY <1>3, <1>4 DEF TakeTurn

\* A thread in shutdown writes only when nobody holds the turn.
LEMMA BareStep ==
  ASSUME WriteInv, NEW t \in Threads, NEW a \in acc[t], NEW notify \in BOOLEAN,
         SetUnrecorded(t, a, notify)
  PROVE  SafeInv'
<1>0. a \in Accesses /\ a.sig \in Signals /\ ~Writing(a) /\ ~Recorded(a)
  BY PendingType DEF WriteInv, SetUnrecorded, Writing, Recorded, WritingKinds
<1>1. UNCHANGED <<turn, pending>>
  BY DEF SetUnrecorded
<1>2. \A u \in Threads : \A c \in acc[u] : BaseAt(c, committed')
  <2>1. CASE UNCHANGED committed
    BY <2>1 DEF WriteInv, BaseInv, BaseAt
  <2>2. CASE TurnFree(a.sig) /\ committed' = [committed EXCEPT ![a.sig] = a.write.val]
    <3>1. \A u \in Threads : \A c \in acc[u] : u # t \/ c # a => BaseAt(c, committed')
      BY <2>2, SwapKeeps DEF TurnFree
    <3>2. BaseAt(a, committed')
      BY <1>0 DEF BaseAt
    <3> QED BY <3>1, <3>2
  <2> QED BY <2>1, <2>2 DEF SetUnrecorded
<1>3. \A u \in Threads, s \in Signals :
        HasOwn(pending[u][s]) => pending[u][s][1].base = committed'[s]
  <2>1. CASE UNCHANGED committed
    BY <2>1 DEF WriteInv, PendingInv
  <2>2. CASE TurnFree(a.sig) /\ committed' = [committed EXCEPT ![a.sig] = a.write.val]
    BY <2>2, SwapKeeps DEF TurnFree
  <2> QED BY <2>1, <2>2 DEF SetUnrecorded
<1>4. CASE Replace(t, a, [a EXCEPT !.phase = "mark"])
  <2> DEFINE b == [a EXCEPT !.phase = "mark"]
  <2>1. /\ b \in Accesses /\ b.sig = a.sig /\ b.kind = a.kind /\ b.phase = "mark"
        /\ b.write = a.write
    BY <1>0 DEF Accesses, Phases
  <2>2. ~Writing(b) /\ ~Recorded(b) /\ KindOK(b)
    BY <1>0, <2>1 DEF Writing, Recorded, KindOK, WriteInv, KindInv, SetUnrecorded, WritingKinds
  <2>3. BaseAt(b, committed')
    BY <2>2 DEF BaseAt
  <2>4. Replace(t, a, b)
    BY <1>4
  <2> HIDE DEF b
  <2>5. TurnInv' /\ KindInv' /\ BaseInv'
    BY <1>0, <1>1, <1>2, <2>1, <2>2, <2>3, <2>4, ReplaceSame
  <2>6. PendingInv'
    <3> SUFFICES ASSUME NEW u \in Threads, NEW s \in Signals, Quiet(acc[u], s)
                 PROVE  Quiet(acc'[u], s)
      BY <1>1, <1>3 DEF WriteInv, PendingInv
    <3> QED BY <2>2, <2>4 DEF Quiet, Replace, WriteInv, TypeInv, TypeOK
  <2> QED BY <2>5, <2>6 DEF SafeInv
<1>5. CASE acc' = [acc EXCEPT ![t] = @ \ {a}]
  <2>1. TurnInv' /\ KindInv'
    BY <1>0, <1>1, <1>5 DEF WriteInv, TypeInv, TypeOK, TurnInv, TurnDiscipline, OneWriting,
       InUse, Uses, KindInv
  <2>2. BaseInv'
    BY <1>2, <1>5 DEF BaseInv, WriteInv, TypeInv, TypeOK
  <2>3. PendingInv'
    <3> SUFFICES ASSUME NEW u \in Threads, NEW s \in Signals, Quiet(acc[u], s)
                 PROVE  Quiet(acc'[u], s)
      BY <1>1, <1>3 DEF WriteInv, PendingInv
    <3> QED BY <1>5 DEF Quiet, WriteInv, TypeInv, TypeOK
  <2> QED BY <2>1, <2>2, <2>3 DEF SafeInv
<1> QED BY <1>4, <1>5 DEF SetUnrecorded

\* A panic releases what its thread holds and drops what it deferred.
LEMMA PanicStep ==
  ASSUME WriteInv, NEW t \in Threads, Panic(t)
  PROVE  SafeInv'
<1>1. /\ acc'[t] = {} /\ \A u \in Threads \ {t} : acc'[u] = acc[u]
      /\ \A s \in Signals : pending'[t][s] = <<>>
      /\ \A u \in Threads \ {t} : pending'[u] = pending[u]
      /\ \A s \in Signals : turn'[s] = IF turn[s] = t THEN NoThread ELSE turn[s]
      /\ committed' = committed
  BY DEF Panic, WriteInv, TypeInv, TypeOK
<1>2. TurnDiscipline'
  <2>1. ASSUME NEW u \in Threads, NEW c \in acc'[u], Writing(c) PROVE turn'[c.sig] = u
    <3>1. u # t /\ c \in acc[u] /\ c.sig \in Signals
      BY <1>1 DEF WriteInv, TypeInv, TypeOK, Accesses
    <3>2. turn[c.sig] = u
      BY <2>1, <3>1 DEF WriteInv, TurnInv, TurnDiscipline
    <3> QED BY <1>1, <3>1, <3>2
  <2>2. ASSUME NEW u \in Threads, NEW s \in Signals, turn'[s] = u
        PROVE  \E c \in acc'[u] : c.sig = s /\ Recorded(c)
    <3>1. u # t /\ turn[s] = u
      BY <1>1, <2>2, ThreadsAssumption
    <3> QED BY <1>1, <3>1 DEF WriteInv, TurnInv, TurnDiscipline, InUse, Uses
  <2> QED BY <2>1, <2>2 DEF TurnDiscipline, InUse, Uses
<1>3. OneWriting' /\ KindInv' /\ BaseInv'
  <2> SUFFICES ASSUME NEW u \in Threads, NEW c \in acc'[u]
               PROVE  /\ \A d \in acc'[u] : Writing(c) /\ Writing(d) /\ c.sig = d.sig => c = d
                      /\ KindOK(c) /\ BaseAt(c, committed')
    BY DEF OneWriting, KindInv, BaseInv
  <2>1. u # t /\ acc'[u] = acc[u]
    BY <1>1
  <2> QED BY <1>1, <2>1 DEF WriteInv, TurnInv, OneWriting, KindInv, BaseInv
<1>4. PendingInv'
  <2> SUFFICES ASSUME NEW u \in Threads, NEW s \in Signals
               PROVE  /\ FirstOwn(pending'[u][s])
                      /\ HasOwn(pending'[u][s]) =>
                           /\ pending'[u][s][1].base = committed'[s]
                           /\ turn'[s] = u
                           /\ Quiet(acc'[u], s)
    BY DEF PendingInv
  <2>1. CASE u = t
    BY <1>1, <2>1 DEF FirstOwn, HasOwn
  <2>2. CASE u # t
    <3>1. pending'[u][s] = pending[u][s] /\ acc'[u] = acc[u]
      BY <1>1, <2>2
    <3>2. turn[s] = u => turn'[s] = u
      BY <1>1, <2>2
    <3> QED BY <1>1, <3>1, <3>2 DEF WriteInv, PendingInv
  <2> QED BY <2>1, <2>2
<1> QED BY <1>2, <1>3, <1>4 DEF SafeInv, TurnInv

\* An outermost write commits, or is deferred first.
LEMMA CommitStep ==
  ASSUME WriteInv, NEW t \in Threads, NEW a \in acc[t], NEW notify \in BOOLEAN,
         Commit(t, a, notify), UNCHANGED committed,
         a.kind \in {"update", "guard"}, a.phase \in {"closure", "guard"}
  PROVE  SafeInv'
<1> DEFINE l == IF a.lvl > 0 THEN a.lvl ELSE TopLevel(acc[t]) + 1
           w == [a.write EXCEPT !.notify = notify]
           b == [a EXCEPT !.phase = "swap", !.write.notify = notify, !.lvl = l]
<1>0. a \in Accesses /\ a.sig \in Signals /\ pending[t][a.sig] \in Seq(Writes)
  BY PendingType DEF WriteInv
<1>1. TopLevel(acc[t]) \in Nat
  BY TopLevelType DEF WriteInv, TypeInv, FiniteAccesses
<1>2. l \in Nat /\ w \in Writes
  BY <1>0, <1>1 DEF Accesses, Writes
<1>3. /\ w.own = a.write.own /\ w.mode = a.write.mode /\ w.base = a.write.base
      /\ b = [a EXCEPT !.phase = "swap", !.write = w, !.lvl = l]
  BY <1>0 DEF Accesses, Writes
<1>4. /\ b \in Accesses /\ b.sig = a.sig /\ b.kind = a.kind /\ b.phase = "swap" /\ b.write = w
  <2> HIDE DEF w, l, b
  <2> QED BY <1>0, <1>2, <1>3 DEF Accesses, Phases
<1>5. Writing(a) /\ BaseAt(a, committed)
  BY DEF Writing, WritingKinds, WriteInv, BaseInv
<1>6. ~HasOwn(pending[t][a.sig])
  BY <1>5, PendingStays
<1>7. CASE Alone(t, a)
  <2>1. Replace(t, a, b) /\ UNCHANGED <<turn, committed, pending>>
    BY <1>7 DEF Commit
  <2> HIDE DEF b, w
  <2>2. Writing(b) /\ Recorded(b) /\ Recorded(a) /\ KindOK(b)
    BY <1>4, <1>5 DEF Writing, WritingKinds, Recorded, KindOK
  <2>3. BaseAt(b, committed)
    BY <1>3, <1>4, <1>5 DEF BaseAt, Own
  <2> QED BY <1>4, <1>5, <1>6, <2>1, <2>2, <2>3, ReplaceStep
<1>8. CASE ~Alone(t, a)
  <2> DEFINE q == DeferFirst(w, pending[t][a.sig])
  <2>1. Exit(t, a, q)
    BY <1>4, <1>8 DEF Commit
  <2> HIDE DEF b, w
  <2>2. q \in Seq(Writes)
    BY <1>0, <1>2 DEF DeferFirst
  <2>3. FirstOwn(q) /\ q[1] = w
    BY <1>0, <1>2, <1>6, PushFrontOwn, PendingStays
  <2>4. Own(w) => w.base = committed[a.sig]
    BY <1>3, <1>5 DEF BaseAt, Own
  <2>5. turn[a.sig] = t
    BY <1>5 DEF WriteInv, TurnInv, TurnDiscipline
  <2>6. Quiet(acc[t] \ {a}, a.sig)
    BY <1>5 DEF Quiet, WriteInv, TurnInv, OneWriting
  <2> HIDE DEF q
  <2> QED BY <2>1, <2>2, <2>3, <2>4, <2>5, <2>6, ExitStep DEF HasOwn
<1> QED BY <1>7, <1>8

\* One turn of the drain loop.
LEMMA DrainStep ==
  ASSUME WriteInv, NEW t \in Threads, NEW a \in acc[t], Drain(t, a)
  PROVE  SafeInv'
<1> DEFINE q == pending[t][a.sig]
<1>0. a \in Accesses /\ a.sig \in Signals /\ q \in Seq(Writes)
  BY PendingType DEF WriteInv
<1>1. Writing(a) /\ a.phase = "drain" /\ UNCHANGED committed
  BY DEF Drain, WriteInv, KindInv, KindOK, Writing
<1>2. CASE Runaway(a) \/ ~Alone(t, a) \/ q = <<>>
  <2>1. CASE Exit(t, a, q)
    BY <1>0, <1>1, <2>1, ExitStep, PendingStays
  <2>2. CASE Exit(t, a, <<>>)
    <3>1. FirstOwn(<<>>) /\ ~HasOwn(<<>>) /\ <<>> \in Seq(Writes)
      BY DEF FirstOwn, HasOwn
    <3> QED BY <1>1, <2>2, <3>1, ExitStep
  <2> QED BY <1>2, <2>1, <2>2 DEF Drain
<1>3. CASE ~(Runaway(a) \/ ~Alone(t, a) \/ q = <<>>)
  <2> DEFINE w == q[1]
             b == [a EXCEPT !.applied = @ + 1, !.write = w,
                            !.phase = IF w.mode = "notify" THEN "mark" ELSE "swap"]
  <2>1. /\ Replace(t, a, b) /\ UNCHANGED turn
        /\ pending' = [pending EXCEPT ![t][a.sig] = Tail(q)]
    <3>1. Head(q) = w
      BY <1>0, <1>3
    <3> QED BY <1>3, <3>1 DEF Drain, PopFront
  <2>2. w \in Writes /\ a.applied + 1 \in 0..MaxApplied
    BY <1>0, <1>3, BoundsAssumption DEF Accesses, Runaway
  <2>3. FirstOwn(q) /\ (Own(w) => w.base = committed[a.sig])
    BY <1>3, PendingStays DEF HasOwn
  <2>4. FirstOwn(Tail(q)) /\ ~HasOwn(Tail(q))
    BY <1>0, <1>3, <2>3, TailOwn
  <2> HIDE DEF q, w
  <2>5. /\ b \in Accesses /\ b.sig = a.sig /\ b.kind = a.kind /\ b.write = w
        /\ b.phase \in {"mark", "swap"}
    BY <1>0, <2>2 DEF Accesses, Phases
  <2> HIDE DEF b
  <2>6. Writing(b) /\ Recorded(b) /\ Recorded(a)
    BY <1>1, <2>5 DEF Writing, Recorded
  <2>7. a.kind = "flush"
    BY <1>1 DEF WriteInv, KindInv, KindOK
  <2>8. KindOK(b) /\ BaseAt(b, committed')
    BY <1>1, <2>3, <2>5, <2>6, <2>7 DEF KindOK, BaseAt, WritingKinds
  <2>9. \A u \in Threads : \A c \in acc[u] : BaseAt(c, committed')
    BY <1>1 DEF WriteInv, BaseInv, BaseAt
  <2>10. TurnInv' /\ KindInv' /\ BaseInv'
    BY <1>1, <2>1, <2>5, <2>6, <2>8, <2>9, ReplaceSame
  <2>11. /\ pending'[t][a.sig] = Tail(q)
         /\ \A u \in Threads, s \in Signals : u # t \/ s # a.sig => pending'[u][s] = pending[u][s]
    BY <1>0, <2>1 DEF WriteInv, TypeInv, TypeOK
  <2>12. \A u \in Threads, s \in Signals :
           (u # t \/ s # a.sig) /\ Quiet(acc[u], s) => Quiet(acc'[u], s)
    BY <2>1, <2>5 DEF Quiet, Replace, WriteInv, TypeInv, TypeOK
  <2>13. PendingInv'
    <3> SUFFICES ASSUME NEW u \in Threads, NEW s \in Signals
                 PROVE  /\ FirstOwn(pending'[u][s])
                        /\ HasOwn(pending'[u][s]) =>
                             /\ pending'[u][s][1].base = committed'[s]
                             /\ turn'[s] = u
                             /\ Quiet(acc'[u], s)
      BY DEF PendingInv
    <3>1. CASE u = t /\ s = a.sig
      BY <2>4, <2>11, <3>1
    <3>2. CASE u # t \/ s # a.sig
      BY <1>1, <2>1, <2>11, <2>12, <3>2 DEF WriteInv, PendingInv
    <3> QED BY <3>1, <3>2
  <2> QED BY <2>10, <2>13 DEF SafeInv
<1> QED BY <1>2, <1>3

\* The result of a nested write is deferred, or lost.
LEMMA NestedStep ==
  ASSUME WriteInv, NEW t \in Threads, NEW a \in acc[t], NEW notify \in BOOLEAN,
         EndNested(t, a, notify)
  PROVE  SafeInv'
<1> DEFINE w == [a.write EXCEPT !.val = Value(t, ops[t] + 1), !.notify = notify]
           p == pending[t][a.sig]
           q == DeferredResult(t, a, notify)
<1>0. a \in Accesses /\ a.write \in Writes /\ p \in Seq(Writes) /\ ops[t] + 1 \in Nat
  BY PendingType DEF WriteInv, TypeInv, TypeOK, Accesses
<1>1. a.kind \in {"nested", "nguard"} /\ Exit(t, a, q) /\ UNCHANGED committed
  BY DEF EndNested
<1>2. w \in Writes /\ ~Own(w)
  <2>1. w \in Writes /\ w.own = a.write.own
    BY <1>0, WriteTypes DEF Writes
  <2> QED BY <1>1, <2>1 DEF Own, WriteInv, KindInv, KindOK
<1>3. q = Append(p, w) \/ q = p
  BY DEF DeferredResult
<1> HIDE DEF w, q
<1>4. /\ q \in Seq(Writes) /\ FirstOwn(q)
      /\ HasOwn(q) => HasOwn(p) /\ q[1] = p[1]
  <2>1. FirstOwn(p)
    BY PendingStays
  <2> HIDE DEF p
  <2>2. CASE q = p
    BY <1>0, <2>1, <2>2
  <2>3. CASE q = Append(p, w)
    BY <1>0, <1>2, <2>1, <2>3, AppendOwn
  <2> QED BY <1>3, <2>2, <2>3
<1>5. HasOwn(q) => /\ q[1].base = committed[a.sig]
                   /\ turn[a.sig] = t
                   /\ Quiet(acc[t] \ {a}, a.sig)
  <2>1. HasOwn(p) => /\ p[1].base = committed[a.sig]
                     /\ turn[a.sig] = t
                     /\ Quiet(acc[t] \ {a}, a.sig)
    BY PendingStays
  <2> HIDE DEF p
  <2> QED BY <1>4, <2>1
<1> QED BY <1>1, <1>4, <1>5, ExitStep

\* Every step of a thread keeps the invariant.
LEMMA SafeStep ==
  ASSUME WriteInv, NEW t \in Threads, Step(t)
  PROVE  SafeInv'
<1>0. TypeInv
  BY DEF WriteInv
<1>1. ASSUME NEW s \in Signals, NEW kind \in Kinds, NEW phase \in Phases, NEW w \in Writes
      PROVE  /\ Access(t, s, kind, phase, w) \in Accesses
             /\ Access(t, s, kind, phase, w).sig = s
             /\ Access(t, s, kind, phase, w).kind = kind
             /\ Access(t, s, kind, phase, w).phase = phase
             /\ Access(t, s, kind, phase, w).write = w
  BY <1>0, AccessType DEF Access
<1>2. ASSUME NEW s \in Signals, Read(t, s) \/ ReadWaits(t, s) PROVE SafeInv'
  <2>1. ASSUME NEW phase \in {"guard", "wait"}
        PROVE  LET b == Access(t, s, "read", phase, NoWrite)
               IN b \in Accesses /\ ~Writing(b) /\ KindOK(b)
    BY <1>1, WriteTypes DEF Writing, KindOK, WritingKinds, Kinds, Phases
  <2>2. CASE Read(t, s)
    BY <2>1, <2>2, AddStep DEF Read
  <2>3. CASE ReadWaits(t, s)
    BY <2>1, <2>3, PushStep DEF ReadWaits
  <2> QED BY <1>2, <2>2, <2>3
<1>3. ASSUME NEW s \in Signals, Refused(t, s) \/ PartRefused(t, s) PROVE SafeInv'
  BY <1>3, SameStep DEF Refused, PartRefused
<1>4. ASSUME NEW s \in Signals, NEW notify \in BOOLEAN,
             NEW kind \in {"set", "part", "update", "guard"},
             BeginWrite(t, s, kind, notify)
      PROVE  SafeInv'
  <2> DEFINE w == [mode |-> IF kind \in {"set", "part"} THEN "set" ELSE "update",
                   val |-> Value(t, ops[t] + 1), base |-> InitialValue,
                   own |-> TRUE, notify |-> notify]
             b == Access(t, s, kind, "turn", w)
  <2>1. ops[t] + 1 \in Nat
    BY <1>0 DEF TypeInv, TypeOK
  <2>2. w \in Writes /\ (kind \in {"set", "part"} => w.mode = "set")
    BY <2>1, WriteTypes DEF Writes
  <2>3. Push(t, b) /\ UNCHANGED <<turn, committed, pending>>
    BY <1>4 DEF BeginWrite
  <2> HIDE DEF w
  <2>4. b \in Accesses /\ b.kind = kind /\ b.phase = "turn" /\ b.write = w
    BY <1>1, <2>2 DEF Kinds, Phases
  <2> HIDE DEF b
  <2>5. ~Writing(b) /\ KindOK(b)
    BY <2>2, <2>4 DEF Writing, KindOK, WritingKinds
  <2> QED BY <2>3, <2>4, <2>5, PushStep
<1>5. ASSUME NEW s \in Signals, NEW notify \in BOOLEAN, DeferSet(t, s, notify)
      PROVE  SafeInv'
  <2> DEFINE w == [mode |-> "set", val |-> Value(t, ops[t] + 1),
                   base |-> InitialValue, own |-> FALSE, notify |-> notify]
  <2>1. ops[t] + 1 \in Nat
    BY <1>0 DEF TypeInv, TypeOK
  <2>2. w \in Writes /\ ~Own(w)
    BY <2>1, WriteTypes DEF Writes, Own
  <2>3. pending' = [pending EXCEPT ![t][s] = Append(@, w)] /\ UNCHANGED <<acc, turn, committed>>
    BY <1>5 DEF DeferSet
  <2> HIDE DEF w
  <2> QED BY <2>2, <2>3, AppendStep
<1>6. ASSUME NEW s \in Signals, NEW kind \in {"nested", "nguard"}, BeginNested(t, s, kind)
      PROVE  SafeInv'
  <2> DEFINE w == [mode |-> "update", val |-> InitialValue,
                   base |-> PendingOrCommitted(t, s), own |-> FALSE, notify |-> TRUE]
  <2>1. w \in Writes /\ ~w.own
    BY <1>0, PendingValueType, WriteTypes DEF Writes
  <2>2. /\ \/ acc' = [acc EXCEPT ![t] = @ \cup {Access(t, s, kind, "guard", w)}]
           \/ Push(t, Access(t, s, kind, "closure", w))
        /\ UNCHANGED <<turn, committed, pending>>
    BY <1>6 DEF BeginNested
  <2> HIDE DEF w
  <2>3. ASSUME NEW phase \in {"guard", "closure"}
        PROVE  LET b == Access(t, s, kind, phase, w)
               IN b \in Accesses /\ ~Writing(b) /\ KindOK(b)
    BY <1>1, <2>1 DEF Writing, KindOK, WritingKinds, Kinds, Phases
  <2>4. CASE acc' = [acc EXCEPT ![t] = @ \cup {Access(t, s, kind, "guard", w)}]
    BY <2>2, <2>3, <2>4, AddStep
  <2>5. CASE Push(t, Access(t, s, kind, "closure", w))
    BY <2>2, <2>3, <2>5, PushStep
  <2> QED BY <2>2, <2>4, <2>5
<1>7. ASSUME NEW s \in Signals, Notify(t, s) PROVE SafeInv'
  <2>1. CASE InUse(t, s)
    <3>1. ~Own(NoWrite) /\ NoWrite \in Writes
      BY WriteTypes DEF Own, NoWrite
    <3>2. /\ pending' = [pending EXCEPT ![t][s] = Append(@, NoWrite)]
          /\ UNCHANGED <<acc, turn, committed>>
      BY <1>7, <2>1 DEF Notify
    <3> QED BY <3>1, <3>2, AppendStep
  <2>2. CASE ~InUse(t, s)
    <3> DEFINE b == Access(t, s, "notify", "mark", NoWrite)
    <3>1. b \in Accesses /\ ~Writing(b) /\ KindOK(b)
      BY <1>1, WriteTypes DEF Writing, KindOK, WritingKinds, Kinds, Phases
    <3>2. Push(t, b) /\ UNCHANGED <<turn, committed, pending>>
      BY <1>7, <2>2 DEF Notify
    <3> HIDE DEF b
    <3> QED BY <3>1, <3>2, PushStep
  <2> QED BY <2>1, <2>2
<1>8. ASSUME NEW s \in Signals, BeginBare(t, s) PROVE SafeInv'
  <2> DEFINE w == [mode |-> "update", val |-> Value(t, ops[t] + 1),
                   base |-> committed[s], own |-> FALSE, notify |-> TRUE]
             b == Access(t, s, "bare", "closure", w)
  <2>1. ops[t] + 1 \in Nat /\ committed[s] \in Values
    BY <1>0 DEF TypeInv, TypeOK
  <2>2. w \in Writes
    BY <2>1, WriteTypes DEF Writes
  <2>3. Push(t, b) /\ UNCHANGED <<turn, committed, pending>>
    BY <1>8 DEF BeginBare
  <2> HIDE DEF w
  <2>4. b \in Accesses /\ ~Writing(b) /\ KindOK(b)
    BY <1>1, <2>2 DEF Writing, KindOK, WritingKinds, Kinds, Phases
  <2> HIDE DEF b
  <2> QED BY <2>3, <2>4, PushStep
<1>9. ASSUME NEW a \in acc[t], ReadGranted(t, a) PROVE SafeInv'
  <2> DEFINE b == [a EXCEPT !.phase = "guard", !.lvl = 0]
  <2>1. a \in Accesses /\ a.phase = "wait"
    BY <1>0, <1>9, PendingType DEF ReadGranted
  <2>2. /\ b \in Accesses /\ b.sig = a.sig /\ b.kind = a.kind /\ b.phase = "guard"
        /\ b.write = a.write
    BY <2>1 DEF Accesses, Phases
  <2>3. Replace(t, a, b) /\ UNCHANGED <<turn, committed, pending>>
    BY <1>9 DEF ReadGranted
  <2> HIDE DEF b
  <2>4. ~(a.kind \in WritingKinds)
    BY <2>1 DEF WriteInv, KindInv, KindOK, WritingKinds
  <2>5. ~Writing(a) /\ ~Writing(b) /\ (Recorded(b) <=> Recorded(a)) /\ KindOK(b)
    BY <2>2, <2>4 DEF Writing, Recorded, KindOK, WritingKinds, WriteInv, KindInv
  <2>6. BaseAt(b, committed)
    BY <2>5 DEF BaseAt
  <2> QED BY <2>2, <2>3, <2>5, <2>6, ReplaceStep
<1>10. ASSUME NEW a \in acc[t], DropRead(t, a) PROVE SafeInv'
  BY <1>0, <1>10, PendingType, PendingStays, ExitStep DEF DropRead
<1>11. ASSUME NEW a \in acc[t], NEW notify \in BOOLEAN,
              EndUpdate(t, a, notify) \/ DropWriteGuard(t, a, notify)
       PROVE  SafeInv'
  BY <1>11, CommitStep DEF EndUpdate, DropWriteGuard
<1>12. ASSUME NEW a \in acc[t], Marked(t, a) PROVE SafeInv'
  <2>1. CASE Exit(t, a, pending[t][a.sig])
    BY <1>0, <1>12, <2>1, PendingType, PendingStays, ExitStep DEF Marked
  <2>2. CASE a.kind = "flush" /\ Replace(t, a, [a EXCEPT !.phase = "drain"])
               /\ UNCHANGED <<turn, pending>>
    <3> DEFINE b == [a EXCEPT !.phase = "drain"]
    <3>1. a \in Accesses /\ a.phase = "mark" /\ UNCHANGED committed
      BY <1>0, <1>12, PendingType DEF Marked
    <3>2. b \in Accesses /\ b.sig = a.sig /\ b.kind = a.kind /\ b.phase = "drain"
      BY <3>1 DEF Accesses, Phases
    <3>3. Replace(t, a, b)
      BY <2>2
    <3> HIDE DEF b
    <3>4. /\ Writing(a) /\ Writing(b) /\ Recorded(b) /\ Recorded(a)
          /\ KindOK(b) /\ BaseAt(b, committed)
      BY <2>2, <3>1, <3>2 DEF Writing, Recorded, KindOK, WritingKinds, BaseAt
    <3> QED BY <2>2, <3>1, <3>2, <3>3, <3>4, ReplaceStep
  <2> QED BY <1>12, <2>1, <2>2 DEF Marked, EndWrite
<1>13. ASSUME Shutdown(t) PROVE SafeInv'
  BY <1>13, SameStep DEF Shutdown
<1>14. CASE UserStart(t)
  BY <1>14, <1>2, <1>3, <1>4, <1>5, <1>6, <1>7, <1>8 DEF UserStart
<1>15. CASE Advance(t)
  BY <1>15, <1>9, <1>10, <1>11, <1>12, TurnStep, SwapStep, DrainStep, NestedStep, BareStep
     DEF Advance
<1> QED BY <1>13, <1>14, <1>15, PanicStep DEF Step

\* WriteInv is an inductive invariant of the specification.
LEMMA WriteInvInductive ==
  /\ Init => WriteInv
  /\ WriteInv /\ [Next]_vars => WriteInv'
<1>1. ASSUME Init PROVE WriteInv
  <2>1. IsFiniteSet({}) /\ <<>> \in Seq(Writes)
    BY FS_EmptySet
  <2>2. TypeInv
    BY <1>1, <2>1, WriteTypes DEF Init, TypeInv, TypeOK, FiniteAccesses
  <2>3. TurnInv /\ KindInv /\ BaseInv
    BY <1>1, ThreadsAssumption DEF Init, TurnInv, TurnDiscipline, OneWriting, KindInv, BaseInv
  <2>4. PendingInv
    BY <1>1 DEF Init, PendingInv, FirstOwn, HasOwn
  <2> QED BY <2>2, <2>3, <2>4 DEF WriteInv
<1>2. ASSUME WriteInv, [Next]_vars PROVE WriteInv'
  <2>1. ASSUME NEW t \in Threads, Step(t) PROVE WriteInv'
    BY <1>2, <2>1, TypeStep, SafeStep DEF WriteInv, SafeInv
  <2>2. ASSUME UNCHANGED vars PROVE WriteInv'
    <3>1. SafeInv'
      BY <1>2, <2>2, SameStep DEF vars
    <3>2. TypeInv'
      BY <1>2, <2>2 DEF vars, WriteInv, TypeInv, TypeOK, FiniteAccesses
    <3> QED BY <3>1, <3>2 DEF WriteInv, SafeInv
  <2> QED BY <1>2, <2>1, <2>2 DEF Next, Done
<1> QED BY <1>1, <1>2

\* The writer turn is held by every write past take_turn, and only as long as
\* its thread uses the signal, for any number of threads and signals: with
\* re-entrant writes, out-of-order guard drops, panics and thread shutdown.
THEOREM TurnSafe == Spec => []TurnDiscipline
<1>1. WriteInv => TurnDiscipline
  BY DEF WriteInv, TurnInv
<1> QED BY <1>1, WriteInvInductive, PTL DEF Spec

\* An outermost update or write guard is committed over the very value its
\* closure was given, however many threads write the signal.
THEOREM UpdateSafe == Spec => []UpdateOverCommitted
<1>1. ASSUME WriteInv PROVE UpdateOverCommitted
  <2> SUFFICES ASSUME NEW t \in Threads, NEW s \in Signals, NEW w \in OwnWrites(t, s), Own(w)
               PROVE  w.base = committed[s] /\ turn[s] = t
    BY DEF UpdateOverCommitted, Own
  <2>1. ASSUME NEW a \in acc[t], a.sig = s, Writing(a),
               a.phase \in {"closure", "guard", "swap"}, w = a.write
        PROVE  w.base = committed[s] /\ turn[s] = t
    BY <1>1, <2>1 DEF WriteInv, BaseInv, BaseAt, TurnInv, TurnDiscipline
  <2>2. ASSUME NEW i \in DOMAIN pending[t][s], w = pending[t][s][i]
        PROVE  w.base = committed[s] /\ turn[s] = t
    <3>1. pending[t][s] \in Seq(Writes)
      BY <1>1 DEF WriteInv, TypeInv, TypeOK
    <3>2. i = 1 /\ HasOwn(pending[t][s])
      BY <1>1, <2>2, <3>1 DEF WriteInv, PendingInv, FirstOwn, HasOwn
    <3> QED BY <1>1, <2>2, <3>2 DEF WriteInv, PendingInv
  <2> QED BY <2>1, <2>2 DEF OwnWrites
<1> QED BY <1>1, WriteInvInductive, PTL DEF Spec

-----------------------------------------------------------------------------
(* The stack of calls of one thread *)

\* With A its accesses, the calls have distinct levels up to the top one, and only the call at
\* the top waits for something.
UserPhases == {"closure", "mark"}
StackOK(A) ==
  /\ IsFiniteSet(A) /\ TopLevel(A) \in Nat
  /\ \A a \in A : a.lvl \in Nat /\ (a.lvl = 0 <=> a.phase = "guard")
  /\ \A a \in Calls(A) : a.lvl <= TopLevel(A)
  /\ \A a, b \in Calls(A) : a.lvl = b.lvl => a = b
  /\ \A a \in Calls(A) : a.phase \notin UserPhases => a.lvl = TopLevel(A)

\* The stack when user code runs, or when the call at the top has ended.
Ready(A) == StackOK(A) /\ \A a \in Calls(A) : a.phase \in UserPhases

\* Whoever waits for the turn does not use the signal, and whoever swaps is alone with it.
NoUse(A, s) == \A a \in A : ~(a.sig = s /\ Recorded(a))
BlockedOK(A) ==
  /\ \A a \in A : a.phase = "turn" => NoUse(A, a.sig)
  /\ \A a \in A : a.phase = "swap" => NoUse(A \ {a}, a.sig)

StackInv == \A t \in Threads : StackOK(acc[t]) /\ BlockedOK(acc[t])

\* A guard is added.
LEMMA StackGuard ==
  ASSUME NEW A, Ready(A), NEW b, b.lvl = 0, b.phase = "guard"
  PROVE  Ready(A \cup {b})
<1>1. Calls(A \cup {b}) = Calls(A)
  BY DEF Calls
<1>2. IsFiniteSet(A \cup {b})
  BY FS_AddElement DEF Ready, StackOK
<1>3. TopLevel(A \cup {b}) = TopLevel(A)
  BY <1>1 DEF TopLevel
<1>4. \A a \in A \cup {b} : a.lvl \in Nat /\ (a.lvl = 0 <=> a.phase = "guard")
  BY DEF Ready, StackOK
<1> QED BY <1>1, <1>2, <1>3, <1>4 DEF Ready, StackOK

\* A call is pushed.
LEMMA StackPush ==
  ASSUME NEW A, Ready(A), NEW b, b.lvl = TopLevel(A) + 1, b.phase # "guard"
  PROVE  StackOK(A \cup {b})
<1>0. IsFiniteSet(A) /\ TopLevel(A) \in Nat
  BY DEF Ready, StackOK
<1>1. Calls(A \cup {b}) = Calls(A) \cup {b} /\ b \notin Calls(A)
  BY <1>0 DEF Calls, Ready, StackOK
<1>2. IsFiniteSet(A \cup {b}) /\ IsFiniteSet(Calls(A))
  BY <1>0, FS_AddElement, FS_Subset DEF Calls
<1>3. TopLevel(A \cup {b}) = TopLevel(A) + 1
  BY <1>1, <1>2, FS_AddElement DEF TopLevel
<1>4. \A a \in A : a.lvl \in Nat /\ (a.lvl = 0 <=> a.phase = "guard")
  BY DEF Ready, StackOK
<1>5. \A a \in Calls(A) : a.phase \in UserPhases /\ a.lvl <= TopLevel(A) /\ a.lvl \in Nat
  BY <1>4 DEF Ready, StackOK, Calls
<1>6. b.lvl \in Nat /\ b.lvl # 0 /\ b.phase # "guard"
  BY <1>0
<1>7. \A a \in A \cup {b} : a.lvl \in Nat /\ (a.lvl = 0 <=> a.phase = "guard")
  BY <1>4, <1>6
<1>8. \A a \in Calls(A \cup {b}) : a.lvl <= TopLevel(A \cup {b})
  <2>1. \A a \in Calls(A) : a.lvl <= TopLevel(A) + 1
    BY <1>0, <1>5
  <2>2. b.lvl <= TopLevel(A) + 1
    BY <1>0
  <2> QED BY <1>1, <1>3, <2>1, <2>2
<1>9. \A c, d \in Calls(A \cup {b}) : c.lvl = d.lvl => c = d
  <2>1. \A c, d \in Calls(A) : c.lvl = d.lvl => c = d
    BY DEF Ready, StackOK
  <2>2. \A c \in Calls(A) : c.lvl # b.lvl
    BY <1>0, <1>5
  <2> QED BY <1>1, <2>1, <2>2
<1>10. \A a \in Calls(A \cup {b}) : a.phase \notin UserPhases => a.lvl = TopLevel(A \cup {b})
  BY <1>1, <1>3, <1>5
<1>11. TopLevel(A \cup {b}) \in Nat
  BY <1>0, <1>3
<1> QED BY <1>2, <1>7, <1>8, <1>9, <1>10, <1>11 DEF StackOK

\* The call at the top ends.
LEMMA StackPop ==
  ASSUME NEW A, StackOK(A), NEW a \in Calls(A), a.lvl = TopLevel(A)
  PROVE  Ready(A \ {a}) /\ TopLevel(A) = TopLevel(A \ {a}) + 1
<1>0. IsFiniteSet(A) /\ TopLevel(A) \in Nat /\ a \in A /\ a.lvl > 0 /\ a.lvl \in Nat
  BY DEF StackOK, Calls
<1>1. Calls(A \ {a}) = Calls(A) \ {a}
  BY DEF Calls
<1>2. IsFiniteSet(A \ {a}) /\ IsFiniteSet(Calls(A))
  BY <1>0, FS_RemoveElement, FS_Subset DEF Calls
<1>3. TopLevel(A \ {a}) = TopLevel(A) - 1
  BY <1>1, <1>2, FS_RemoveElement DEF TopLevel
<1>4. \A b \in Calls(A) \ {a} : b.phase \in UserPhases /\ b.lvl <= TopLevel(A) - 1
  <2> SUFFICES ASSUME NEW b \in Calls(A) \ {a}
               PROVE  b.phase \in UserPhases /\ b.lvl <= TopLevel(A) - 1
    OBVIOUS
  <2>1. b.lvl \in Nat /\ b.lvl <= TopLevel(A) /\ b.lvl # TopLevel(A)
    BY DEF StackOK, Calls
  <2>2. b.phase \in UserPhases
    BY <2>1 DEF StackOK
  <2> QED BY <1>0, <2>1, <2>2
<1>5. TopLevel(A) - 1 \in Nat
  BY <1>0
<1>6. StackOK(A \ {a})
  BY <1>0, <1>1, <1>2, <1>3, <1>4, <1>5 DEF StackOK
<1>7. Ready(A \ {a})
  BY <1>1, <1>4, <1>6 DEF Ready
<1>8. TopLevel(A) = TopLevel(A \ {a}) + 1
  BY <1>0, <1>3
<1> QED BY <1>7, <1>8

\* A guard is dropped.
LEMMA StackDrop ==
  ASSUME NEW A, Ready(A), NEW a \in A, a.lvl = 0
  PROVE  Ready(A \ {a}) /\ TopLevel(A \ {a}) = TopLevel(A)
<1>1. Calls(A \ {a}) = Calls(A)
  BY DEF Calls
<1>2. IsFiniteSet(A \ {a})
  BY FS_RemoveElement DEF Ready, StackOK
<1> QED BY <1>1, <1>2 DEF Ready, StackOK, TopLevel

\* User code runs where nothing waits.
LEMMA UserReady ==
  ASSUME NEW t \in Threads, StackOK(acc[t]), UserCode(t)
  PROVE  Ready(acc[t])
<1>1. SUFFICES ASSUME NEW a \in Calls(acc[t]) PROVE a.phase \in UserPhases
  BY DEF Ready
<1>2. a \in acc[t]
  BY DEF Calls
<1>3. CASE a.lvl = TopLevel(acc[t])
  BY <1>2, <1>3 DEF UserCode, Running, UserPhases
<1>4. CASE a.lvl # TopLevel(acc[t])
  BY <1>4 DEF StackOK
<1> QED BY <1>3, <1>4

\* What a step leaves, and what it adds: a guard, or a call that does not wait for its thread.
Kept(t, R) ==
  \/ UserCode(t) /\ R = acc[t]
  \/ \E a \in acc[t] : R = acc[t] \ {a} /\ (Running(t, a) \/ (UserCode(t) /\ a.lvl = 0))
Added(R, b) ==
  \/ b.lvl = 0 /\ b.phase = "guard"
  \/ /\ b.lvl = TopLevel(R) + 1 /\ b.phase # "guard"
     /\ b.phase = "turn" => ~Recorded(b)
     /\ b.phase \in {"turn", "swap"} => NoUse(R, b.sig)

LEMMA KeptReady ==
  ASSUME NEW t \in Threads, StackOK(acc[t]), NEW R, Kept(t, R)
  PROVE  Ready(R)
BY UserReady, StackPop, StackDrop DEF Kept, Running

LEMMA ReadyBlocked ==
  ASSUME NEW R, Ready(R)
  PROVE  BlockedOK(R)
BY DEF Ready, StackOK, BlockedOK, UserPhases, Calls

LEMMA StackStep ==
  ASSUME StackInv, acc \in [Threads -> SUBSET Accesses], NEW t \in Threads, NEW R, NEW b,
         Kept(t, R), \/ acc' = [acc EXCEPT ![t] = R]
                     \/ acc' = [acc EXCEPT ![t] = R \cup {b}] /\ Added(R, b)
  PROVE  StackInv'
<1>1. Ready(R) /\ StackOK(R) /\ BlockedOK(R)
  BY KeptReady, ReadyBlocked DEF StackInv, Ready
<1>2. Added(R, b) => StackOK(R \cup {b}) /\ BlockedOK(R \cup {b})
  <2> SUFFICES ASSUME Added(R, b) PROVE StackOK(R \cup {b}) /\ BlockedOK(R \cup {b})
    OBVIOUS
  <2>1. CASE b.lvl = 0 /\ b.phase = "guard"
    BY <1>1, <2>1, StackGuard, ReadyBlocked DEF Ready
  <2>2. CASE b.lvl # 0 \/ b.phase # "guard"
    <3>1. StackOK(R \cup {b})
      BY <1>1, <2>2, StackPush DEF Added
    <3>2. \A a \in R : a.phase \notin {"turn", "swap"}
      BY <1>1 DEF Ready, StackOK, UserPhases, Calls
    <3>3. BlockedOK(R \cup {b})
      <4>1. b.phase = "turn" => NoUse(R \cup {b}, b.sig)
        BY <2>2 DEF Added, NoUse
      <4>2. b.phase = "swap" => NoUse((R \cup {b}) \ {b}, b.sig)
        BY <2>2 DEF Added, NoUse
      <4> QED BY <3>2, <4>1, <4>2 DEF BlockedOK
    <3> QED BY <3>1, <3>3
  <2> QED BY <2>1, <2>2
<1> QED BY <1>1, <1>2 DEF StackInv

-----------------------------------------------------------------------------
(* What a step does to the accesses *)

\* Which writes the accesses carry, and where the guard of a nested write is.
PlaceOK(a) ==
  /\ a.phase = "swap" => a.write.mode # "notify"
  /\ a.kind \notin {"read", "notify", "flush"} => a.write.mode # "notify"
  /\ a.kind = "nguard" => a.phase = "guard"
  /\ a.kind = "nested" => a.phase = "closure"
PlaceInv == \A t \in Threads : \A a \in acc[t] : PlaceOK(a)

OrderInv == WriteInv /\ StackInv /\ PlaceInv

\* A thread's step leaves its accesses but for one that ended, and adds at most one.
Shape(t) ==
  \E R : /\ Kept(t, R)
         /\ \/ acc' = [acc EXCEPT ![t] = R]
            \/ \E b : Added(R, b) /\ PlaceOK(b) /\ acc' = [acc EXCEPT ![t] = R \cup {b}]

LEMMA ShapeKeeps ==
  ASSUME OrderInv, NEW t \in Threads, Shape(t)
  PROVE  StackInv' /\ PlaceInv'
<1>0. acc \in [Threads -> SUBSET Accesses] /\ StackInv /\ PlaceInv
  BY DEF OrderInv, WriteInv, TypeInv, TypeOK
<1>1. PICK R : /\ Kept(t, R)
               /\ \/ acc' = [acc EXCEPT ![t] = R]
                  \/ \E b : /\ Added(R, b) /\ PlaceOK(b)
                           /\ acc' = [acc EXCEPT ![t] = R \cup {b}]
  BY DEF Shape
<1>2. R \subseteq acc[t]
  BY <1>1 DEF Kept
<1>3. CASE acc' = [acc EXCEPT ![t] = R]
  <2>1. StackInv'
    BY <1>0, <1>1, <1>3, StackStep
  <2>2. PlaceInv'
    BY <1>0, <1>2, <1>3 DEF PlaceInv
  <2> QED BY <2>1, <2>2
<1>4. ASSUME NEW b, Added(R, b), PlaceOK(b), acc' = [acc EXCEPT ![t] = R \cup {b}]
      PROVE  StackInv' /\ PlaceInv'
  <2>1. StackInv'
    BY <1>0, <1>1, <1>4, StackStep
  <2>2. PlaceInv'
    BY <1>0, <1>2, <1>4 DEF PlaceInv
  <2> QED BY <2>1, <2>2
<1> QED BY <1>1, <1>3, <1>4

\* The access a can end: it is the running call, or a guard that user code owns.
Ends(t, a) == a \in acc[t] /\ (Running(t, a) \/ (UserCode(t) /\ a.phase = "guard"))

LEMMA EndsKept ==
  ASSUME OrderInv, NEW t \in Threads, NEW a, Ends(t, a)
  PROVE  /\ Kept(t, acc[t] \ {a})
         /\ Running(t, a) => a.lvl = TopLevel(acc[t] \ {a}) + 1 /\ a.phase # "guard"
         /\ a.phase = "guard" => TopLevel(acc[t]) = TopLevel(acc[t] \ {a})
<1>1. StackOK(acc[t])
  BY DEF OrderInv, StackInv
<1>2. a \in acc[t] /\ (a.lvl = 0 <=> a.phase = "guard") /\ a.lvl \in Nat
  BY <1>1 DEF Ends, StackOK
<1>3. Kept(t, acc[t] \ {a})
  BY <1>2 DEF Ends, Kept
<1>4. CASE Running(t, a)
  <2>1. a \in Calls(acc[t]) /\ a.lvl = TopLevel(acc[t]) /\ a.lvl # 0
    BY <1>4 DEF Running, Calls
  <2>2. TopLevel(acc[t]) = TopLevel(acc[t] \ {a}) + 1
    BY <1>1, <2>1, StackPop
  <2> QED BY <1>2, <1>3, <2>1, <2>2
<1>5. CASE ~Running(t, a)
  <2>1. UserCode(t) /\ a.lvl = 0
    BY <1>2, <1>5 DEF Ends
  <2>2. Ready(acc[t])
    BY <1>1, <2>1, UserReady
  <2> QED BY <1>2, <1>3, <1>5, <2>1, <2>2, StackDrop
<1> QED BY <1>4, <1>5

\* Replacing such an access.
LEMMA ShapeReplace ==
  ASSUME OrderInv, NEW t \in Threads, NEW a, Ends(t, a), NEW b, Replace(t, a, b),
         Added(acc[t] \ {a}, b), PlaceOK(b)
  PROVE  Shape(t)
BY EndsKept DEF Shape, Replace, OrderInv, WriteInv, TypeInv, TypeOK

LEMMA ShapeRemove ==
  ASSUME OrderInv, NEW t \in Threads, NEW a, Ends(t, a), acc' = [acc EXCEPT ![t] = @ \ {a}]
  PROVE  Shape(t)
BY EndsKept DEF Shape, OrderInv, WriteInv, TypeInv, TypeOK

\* Its exit.
LEMMA ShapeExit ==
  ASSUME OrderInv, NEW t \in Threads, NEW a, Ends(t, a), NEW q, Exit(t, a, q)
  PROVE  Shape(t)
<1> DEFINE R == acc[t] \ {a}
           b == Flush(t, a)
<1>1. Kept(t, R)
  BY EndsKept
<1>2. \/ acc' = [acc EXCEPT ![t] = R \cup {}]
      \/ Outermost(t, a) /\ acc' = [acc EXCEPT ![t] = R \cup {b}]
  BY DEF Exit, OrderInv, WriteInv, TypeInv, TypeOK
<1>3. Outermost(t, a) => NoUse(R, a.sig)
  BY DEF Outermost, Alone, Uses, NoUse
<1>4. /\ b.lvl = TopLevel(R) + 1 /\ b.phase \in {"turn", "drain"} /\ b.sig = a.sig
      /\ b.phase = "turn" => ~Recorded(b)
      /\ PlaceOK(b)
  BY DEF Flush, Recorded, Writing, WritingKinds, PlaceOK
<1> HIDE DEF b
<1>5. Outermost(t, a) => Added(R, b)
  BY <1>3, <1>4 DEF Added
<1>6. R \cup {} = R
  OBVIOUS
<1> HIDE DEF R
<1> QED BY <1>1, <1>2, <1>4, <1>5, <1>6 DEF Shape

\* A guard or a call of user code.
LEMMA ShapeGuard ==
  ASSUME OrderInv, NEW t \in Threads, UserCode(t), NEW b, b.lvl = 0, b.phase = "guard", PlaceOK(b),
         acc' = [acc EXCEPT ![t] = @ \cup {b}]
  PROVE  Shape(t)
BY DEF Shape, Kept, Added, OrderInv, WriteInv, TypeInv, TypeOK

LEMMA ShapePush ==
  ASSUME OrderInv, NEW t \in Threads, UserCode(t), NEW b \in Accesses, Push(t, b), PlaceOK(b),
         b.phase # "guard", b.phase # "swap",
         b.phase = "turn" => ~Recorded(b) /\ NoUse(acc[t], b.sig)
  PROVE  Shape(t)
<1> DEFINE c == [b EXCEPT !.lvl = TopLevel(acc[t]) + 1]
<1>1. /\ c.lvl = TopLevel(acc[t]) + 1 /\ c.phase = b.phase /\ c.sig = b.sig
      /\ Recorded(c) <=> Recorded(b)
      /\ PlaceOK(c)
  BY DEF Accesses, Recorded, Writing, PlaceOK
<1>2. acc' = [acc EXCEPT ![t] = acc[t] \cup {c}]
  BY DEF Push, OrderInv, WriteInv, TypeInv, TypeOK
<1> HIDE DEF c
<1>3. Added(acc[t], c)
  BY <1>1 DEF Added
<1> QED BY <1>1, <1>2, <1>3 DEF Shape, Kept

LEMMA ShapeSame ==
  ASSUME OrderInv, NEW t \in Threads, UserCode(t), UNCHANGED acc
  PROVE  Shape(t)
<1>1. acc' = [acc EXCEPT ![t] = acc[t]]
  BY DEF OrderInv, WriteInv, TypeInv, TypeOK
<1> QED BY <1>1 DEF Shape, Kept

\* A new access of user code.
LEMMA AccessFields ==
  ASSUME NEW t, NEW s, NEW kind, NEW phase, NEW write
  PROVE  LET b == Access(t, s, kind, phase, write)
         IN b.sig = s /\ b.kind = kind /\ b.phase = phase /\ b.lvl = 0 /\ b.write = write
BY DEF Access

\* Going on from the end of a write.
LEMMA ShapeEndWrite ==
  ASSUME OrderInv, NEW t \in Threads, NEW a \in acc[t], Running(t, a), EndWrite(t, a)
  PROVE  Shape(t)
<1>1. Ends(t, a) /\ a \in Accesses /\ PlaceOK(a)
  BY DEF Ends, OrderInv, PlaceInv, WriteInv, TypeInv, TypeOK
<1>2. CASE a.kind = "flush"
  <2> DEFINE b == [a EXCEPT !.phase = "drain"]
  <2>1. b.lvl = a.lvl /\ b.phase = "drain" /\ PlaceOK(b)
    BY <1>1, <1>2 DEF Accesses, PlaceOK
  <2>2. Replace(t, a, b)
    BY <1>2 DEF EndWrite
  <2> HIDE DEF b
  <2>3. Added(acc[t] \ {a}, b)
    BY <1>1, <2>1, EndsKept DEF Added
  <2> QED BY <1>1, <2>1, <2>2, <2>3, ShapeReplace
<1>3. CASE a.kind # "flush"
  BY <1>1, <1>3, ShapeExit DEF EndWrite
<1> QED BY <1>2, <1>3

\* Committing a write, or deferring it.
LEMMA ShapeCommit ==
  ASSUME OrderInv, NEW t \in Threads, NEW a, Ends(t, a), a.kind \in {"update", "guard"},
         NEW notify \in BOOLEAN, Commit(t, a, notify)
  PROVE  Shape(t)
<1> DEFINE l == IF a.lvl > 0 THEN a.lvl ELSE TopLevel(acc[t]) + 1
           w == [a.write EXCEPT !.notify = notify]
           b == [a EXCEPT !.phase = "swap", !.write.notify = notify, !.lvl = l]
           R == acc[t] \ {a}
<1>1. a \in acc[t] /\ a \in Accesses /\ PlaceOK(a) /\ a.write \in Writes
  BY DEF Ends, OrderInv, PlaceInv, WriteInv, TypeInv, TypeOK, Accesses
<1>2. CASE Alone(t, a)
  <2>1. b.lvl = l /\ b.phase = "swap" /\ b.sig = a.sig /\ b.kind = a.kind /\ b.write = w
    BY <1>1 DEF Accesses
  <2>2. w.mode = a.write.mode
    BY <1>1 DEF Writes
  <2>3. PlaceOK(b)
    BY <1>1, <2>1, <2>2 DEF PlaceOK
  <2>4. Replace(t, a, b)
    BY <1>2 DEF Commit
  <2>5. NoUse(R, a.sig)
    BY <1>2 DEF Alone, Uses, NoUse
  <2>6. l = TopLevel(R) + 1
    <3>1. a.lvl \in Nat /\ (a.lvl = 0 <=> a.phase = "guard")
      BY <1>1 DEF OrderInv, StackInv, StackOK
    <3> QED BY <3>1, EndsKept DEF Ends
  <2> HIDE DEF b, l, R
  <2>7. Added(R, b)
    BY <2>1, <2>5, <2>6 DEF Added
  <2> QED BY <2>3, <2>4, <2>7, ShapeReplace DEF R
<1>3. CASE ~Alone(t, a)
  BY <1>3, ShapeExit DEF Commit
<1> QED BY <1>2, <1>3

\* Taking the turn.
LEMMA ShapeTurn ==
  ASSUME OrderInv, NEW t \in Threads, NEW a \in acc[t], TakeTurn(t, a)
  PROVE  Shape(t)
<1> DEFINE R == acc[t] \ {a}
           b == TurnTaken(a)
<1>1. Running(t, a) /\ a.phase = "turn" /\ Ends(t, a)
  BY DEF TakeTurn, Ends
<1>2. a \in Accesses /\ PlaceOK(a) /\ KindOK(a) /\ a.write \in Writes
  BY DEF OrderInv, PlaceInv, WriteInv, KindInv, TypeInv, TypeOK, Accesses
<1>3. a.lvl = TopLevel(R) + 1 /\ NoUse(R, a.sig)
  BY <1>1, EndsKept DEF OrderInv, StackInv, BlockedOK, NoUse
<1>4. CASE acc' = [acc EXCEPT ![t] = @ \ {a}]
  BY <1>1, <1>4, ShapeRemove
<1>5. CASE Replace(t, a, b)
  <2>1. a.kind \in WritingKinds
    BY <1>1, <1>2 DEF KindOK
  <2>2. CASE a.kind \in {"set", "part"}
    <3>1. b = [a EXCEPT !.phase = "swap"]
      BY <2>2 DEF TurnTaken
    <3>2. /\ b.lvl = a.lvl /\ b.sig = a.sig /\ b.phase = "swap" /\ b.kind = a.kind
          /\ b.write = a.write
      BY <1>2, <3>1 DEF Accesses
    <3> HIDE DEF b, R
    <3>3. Added(R, b) /\ PlaceOK(b)
      BY <1>2, <1>3, <2>2, <3>2 DEF Added, PlaceOK, KindOK
    <3> QED BY <1>1, <1>5, <3>3, ShapeReplace DEF R
  <2>3. CASE a.kind = "update"
    <3>1. b = [a EXCEPT !.phase = "closure", !.write.base = committed[a.sig]]
      BY <2>3 DEF TurnTaken
    <3>2. /\ b.lvl = a.lvl /\ b.sig = a.sig /\ b.phase = "closure" /\ b.kind = a.kind
          /\ b.write.mode = a.write.mode
      BY <1>2, <3>1 DEF Accesses, Writes
    <3> HIDE DEF b, R
    <3>3. Added(R, b) /\ PlaceOK(b)
      BY <1>2, <1>3, <2>3, <3>2 DEF Added, PlaceOK
    <3> QED BY <1>1, <1>5, <3>3, ShapeReplace DEF R
  <2>4. CASE a.kind = "guard"
    <3>1. b = [a EXCEPT !.phase = "guard", !.lvl = 0, !.write.base = committed[a.sig]]
      BY <2>4 DEF TurnTaken
    <3>2. /\ b.lvl = 0 /\ b.sig = a.sig /\ b.phase = "guard" /\ b.kind = a.kind
          /\ b.write.mode = a.write.mode
      BY <1>2, <3>1 DEF Accesses, Writes
    <3> HIDE DEF b, R
    <3>3. Added(R, b) /\ PlaceOK(b)
      BY <1>2, <1>3, <2>4, <3>2 DEF Added, PlaceOK
    <3> QED BY <1>1, <1>5, <3>3, ShapeReplace DEF R
  <2>5. CASE a.kind = "flush"
    <3>1. b = [a EXCEPT !.phase = "drain"]
      BY <2>5 DEF TurnTaken
    <3>2. b.lvl = a.lvl /\ b.sig = a.sig /\ b.phase = "drain" /\ b.kind = a.kind
      BY <1>2, <3>1 DEF Accesses
    <3> HIDE DEF b, R
    <3>3. Added(R, b) /\ PlaceOK(b)
      BY <1>2, <1>3, <2>5, <3>2 DEF Added, PlaceOK
    <3> QED BY <1>1, <1>5, <3>3, ShapeReplace DEF R
  <2> QED BY <2>1, <2>2, <2>3, <2>4, <2>5 DEF WritingKinds
<1> QED BY <1>4, <1>5 DEF TakeTurn

LEMMA StepShape ==
  ASSUME OrderInv, NEW t \in Threads, Step(t)
  PROVE  Shape(t) \/ Panic(t)
<1> USE DEF OrderInv, WriteInv
<1>0. /\ ops[t] + 1 \in Nat
      /\ \A a \in acc[t] : a \in Accesses /\ PlaceOK(a) /\ KindOK(a) /\ a.write \in Writes
      /\ \A a \in acc[t] : Running(t, a) => Ends(t, a)
  BY DEF TypeInv, TypeOK, PlaceInv, KindInv, Accesses, Ends
<1>1. ASSUME NEW s \in Signals, Read(t, s) PROVE Shape(t)
  <2> DEFINE b == Access(t, s, "read", "guard", NoWrite)
  <2>1. b.lvl = 0 /\ b.phase = "guard" /\ PlaceOK(b)
    BY AccessFields DEF PlaceOK
  <2> HIDE DEF b
  <2>2. UserCode(t) /\ acc' = [acc EXCEPT ![t] = @ \cup {b}]
    BY <1>1 DEF Read, Start, b
  <2> QED BY <2>1, <2>2, ShapeGuard
<1>2. ASSUME NEW s \in Signals, ReadWaits(t, s) PROVE Shape(t)
  <2> DEFINE b == Access(t, s, "read", "wait", NoWrite)
  <2>1. b.phase = "wait" /\ PlaceOK(b) /\ b \in Accesses
    BY AccessFields, AccessType, WriteTypes DEF PlaceOK, Kinds, Phases
  <2> HIDE DEF b
  <2>2. UserCode(t) /\ Push(t, b)
    BY <1>2 DEF ReadWaits, Start, b
  <2> QED BY <2>1, <2>2, ShapePush
<1>3. ASSUME NEW s \in Signals, Refused(t, s) \/ PartRefused(t, s) PROVE Shape(t)
  BY <1>3, ShapeSame DEF Refused, PartRefused, Start
<1>4. ASSUME NEW s \in Signals, NEW notify \in BOOLEAN,
             NEW kind \in {"set", "part", "update", "guard"}, BeginWrite(t, s, kind, notify)
      PROVE  Shape(t)
  <2> DEFINE w == [mode |-> IF kind \in {"set", "part"} THEN "set" ELSE "update",
                   val |-> Value(t, ops[t] + 1), base |-> InitialValue,
                   own |-> TRUE, notify |-> notify]
             b == Access(t, s, kind, "turn", w)
  <2>1. w \in Writes /\ w.mode # "notify"
    BY <1>0, WriteTypes DEF Writes
  <2>2. UserCode(t) /\ Push(t, b) /\ ~InUse(t, s)
    BY <1>4 DEF BeginWrite, Start
  <2> HIDE DEF w
  <2>3. b.phase = "turn" /\ b.sig = s /\ b.kind = kind /\ b.write = w /\ b \in Accesses
    BY <2>1, AccessFields, AccessType DEF Kinds, Phases
  <2> HIDE DEF b
  <2>4. PlaceOK(b) /\ ~Recorded(b)
    BY <2>1, <2>3 DEF PlaceOK, Recorded, Writing
  <2>5. NoUse(acc[t], s)
    BY <2>2 DEF InUse, Uses, NoUse
  <2> QED BY <2>2, <2>3, <2>4, <2>5, ShapePush
<1>5. ASSUME NEW s \in Signals, NEW notify \in BOOLEAN, DeferSet(t, s, notify) PROVE Shape(t)
  BY <1>5, ShapeSame DEF DeferSet, Start
<1>6. ASSUME NEW s \in Signals, NEW kind \in {"nested", "nguard"}, BeginNested(t, s, kind)
      PROVE  Shape(t)
  <2> DEFINE w == [mode |-> "update", val |-> InitialValue,
                   base |-> PendingOrCommitted(t, s), own |-> FALSE, notify |-> TRUE]
  <2>1. w \in Writes /\ w.mode # "notify"
    BY PendingValueType, WriteTypes DEF Writes
  <2>2. /\ UserCode(t)
        /\ kind = "nguard" => acc' = [acc EXCEPT ![t] = @ \cup {Access(t, s, kind, "guard", w)}]
        /\ kind = "nested" => Push(t, Access(t, s, kind, "closure", w))
    BY <1>6 DEF BeginNested, Start
  <2> HIDE DEF w
  <2>3. CASE kind = "nguard"
    <3> DEFINE b == Access(t, s, kind, "guard", w)
    <3>1. b.lvl = 0 /\ b.phase = "guard" /\ PlaceOK(b)
      BY <2>1, <2>3, AccessFields DEF PlaceOK
    <3> HIDE DEF b
    <3>2. acc' = [acc EXCEPT ![t] = @ \cup {b}]
      BY <2>2, <2>3 DEF b
    <3> QED BY <2>2, <3>1, <3>2, ShapeGuard
  <2>4. CASE kind = "nested"
    <3> DEFINE b == Access(t, s, kind, "closure", w)
    <3>1. b.phase = "closure" /\ PlaceOK(b) /\ b \in Accesses
      BY <2>1, <2>4, AccessFields, AccessType DEF PlaceOK, Kinds, Phases
    <3> HIDE DEF b
    <3>2. Push(t, b)
      BY <2>2, <2>4 DEF b
    <3> QED BY <2>2, <3>1, <3>2, ShapePush
  <2> QED BY <2>3, <2>4
<1>7. ASSUME NEW s \in Signals, Notify(t, s) PROVE Shape(t)
  <2> DEFINE b == Access(t, s, "notify", "mark", NoWrite)
  <2>1. b.phase = "mark" /\ PlaceOK(b) /\ b \in Accesses
    BY AccessFields, AccessType, WriteTypes DEF PlaceOK, Kinds, Phases
  <2> HIDE DEF b
  <2>2. UserCode(t) /\ (UNCHANGED acc \/ Push(t, b))
    BY <1>7 DEF Notify, Start, b
  <2> QED BY <2>1, <2>2, ShapePush, ShapeSame
<1>8. ASSUME NEW s \in Signals, BeginBare(t, s) PROVE Shape(t)
  <2> DEFINE w == [mode |-> "update", val |-> Value(t, ops[t] + 1),
                   base |-> committed[s], own |-> FALSE, notify |-> TRUE]
             b == Access(t, s, "bare", "closure", w)
  <2>1. w \in Writes /\ w.mode # "notify"
    BY <1>0, WriteTypes DEF Writes, TypeInv, TypeOK
  <2>2. UserCode(t) /\ Push(t, b)
    BY <1>8 DEF BeginBare, Start
  <2> HIDE DEF w
  <2>3. b.phase = "closure" /\ b.kind = "bare" /\ b.write = w /\ b \in Accesses
    BY <2>1, AccessFields, AccessType DEF Kinds, Phases
  <2> HIDE DEF b
  <2>4. PlaceOK(b)
    BY <2>1, <2>3 DEF PlaceOK
  <2> QED BY <2>2, <2>3, <2>4, ShapePush
<1>9. ASSUME NEW a \in acc[t], ReadGranted(t, a) PROVE Shape(t)
  <2> DEFINE b == [a EXCEPT !.phase = "guard", !.lvl = 0]
  <2>1. Ends(t, a) /\ Replace(t, a, b) /\ a.kind = "read"
    BY <1>0, <1>9 DEF ReadGranted, KindOK
  <2>2. b.lvl = 0 /\ b.phase = "guard" /\ b.kind = a.kind
    BY <1>0 DEF Accesses
  <2> HIDE DEF b
  <2>3. PlaceOK(b) /\ Added(acc[t] \ {a}, b)
    BY <2>1, <2>2 DEF PlaceOK, Added
  <2> QED BY <2>1, <2>3, ShapeReplace
<1>10. ASSUME NEW a \in acc[t], DropRead(t, a) PROVE Shape(t)
  BY <1>10, ShapeExit DEF DropRead, Ends
<1>11. ASSUME NEW a \in acc[t], TakeTurn(t, a) PROVE Shape(t)
  BY <1>11, ShapeTurn
<1>12. ASSUME NEW a \in acc[t], NEW notify \in BOOLEAN,
              EndUpdate(t, a, notify) \/ DropWriteGuard(t, a, notify)
       PROVE  Shape(t)
  BY <1>0, <1>12, ShapeCommit DEF EndUpdate, DropWriteGuard, Ends
<1>13. ASSUME NEW a \in acc[t], NEW notify \in BOOLEAN, EndNested(t, a, notify)
       PROVE  Shape(t)
  BY <1>0, <1>13, ShapeExit DEF EndNested, Ends, PlaceOK
<1>14. ASSUME NEW a \in acc[t], SwapIn(t, a) PROVE Shape(t)
  <2> DEFINE b == [a EXCEPT !.phase = "mark"]
  <2>1. Running(t, a) /\ Ends(t, a) /\ (EndWrite(t, a) \/ Replace(t, a, b)) /\ a.phase = "swap"
    BY <1>0, <1>14 DEF SwapIn
  <2>2. b.lvl = a.lvl /\ b.phase = "mark" /\ b.kind = a.kind /\ b.write = a.write
    BY <1>0 DEF Accesses
  <2> HIDE DEF b
  <2>3. a.kind \in WritingKinds /\ a.lvl = TopLevel(acc[t] \ {a}) + 1
    BY <1>0, <2>1, EndsKept DEF KindOK
  <2>4. PlaceOK(b) /\ Added(acc[t] \ {a}, b)
    BY <1>0, <2>2, <2>3 DEF PlaceOK, Added, WritingKinds
  <2> QED BY <2>1, <2>4, ShapeReplace, ShapeEndWrite
<1>15. ASSUME NEW a \in acc[t], Marked(t, a) PROVE Shape(t)
  BY <1>15, ShapeEndWrite DEF Marked
<1>16. ASSUME NEW a \in acc[t], Drain(t, a) PROVE Shape(t)
  <2> DEFINE q == pending[t][a.sig]
  <2>0. Running(t, a) /\ Ends(t, a) /\ a.phase = "drain" /\ a.kind = "flush"
    BY <1>0, <1>16 DEF Drain, KindOK
  <2>1. CASE Runaway(a) \/ ~Alone(t, a) \/ q = <<>>
    <3>1. \E r : Exit(t, a, r)
      BY <1>16, <2>1 DEF Drain
    <3> QED BY <2>0, <3>1, ShapeExit
  <2>2. CASE ~(Runaway(a) \/ ~Alone(t, a) \/ q = <<>>)
    <3> DEFINE b == [a EXCEPT !.applied = @ + 1, !.write = Head(q),
                       !.phase = IF Head(q).mode = "notify" THEN "mark" ELSE "swap"]
               R == acc[t] \ {a}
    <3>1. Replace(t, a, b) /\ NoUse(R, a.sig)
      BY <1>16, <2>2 DEF Drain, PopFront, Alone, Uses, NoUse
    <3>2. /\ b.lvl = a.lvl /\ b.kind = a.kind /\ b.write = Head(q) /\ b.sig = a.sig
          /\ b.phase = IF Head(q).mode = "notify" THEN "mark" ELSE "swap"
      BY <1>0 DEF Accesses
    <3> HIDE DEF b, q
    <3>3. PlaceOK(b)
      BY <2>0, <3>2 DEF PlaceOK
    <3>4. a.lvl = TopLevel(R) + 1
      BY <2>0, EndsKept
    <3> HIDE DEF R
    <3>5. Added(R, b)
      BY <3>1, <3>2, <3>4 DEF Added
    <3> QED BY <2>0, <3>1, <3>3, <3>5, ShapeReplace DEF R
  <2> QED BY <2>1, <2>2
<1>17. ASSUME NEW a \in acc[t], NEW notify \in BOOLEAN, SetUnrecorded(t, a, notify)
       PROVE  Shape(t)
  <2> DEFINE b == [a EXCEPT !.phase = "mark"]
  <2>1. /\ Running(t, a) /\ Ends(t, a) /\ a.kind = "bare"
        /\ acc' = [acc EXCEPT ![t] = @ \ {a}] \/ Replace(t, a, b)
    BY <1>0, <1>17 DEF SetUnrecorded
  <2>2. b.lvl = a.lvl /\ b.phase = "mark" /\ b.kind = a.kind /\ b.write = a.write
    BY <1>0 DEF Accesses
  <2> HIDE DEF b
  <2>3. a.lvl = TopLevel(acc[t] \ {a}) + 1
    BY <1>0, <2>1, EndsKept
  <2>4. PlaceOK(b) /\ Added(acc[t] \ {a}, b)
    BY <1>0, <2>1, <2>2, <2>3 DEF PlaceOK, Added
  <2> QED BY <2>1, <2>4, ShapeReplace, ShapeRemove
<1>18. ASSUME Shutdown(t) PROVE Shape(t)
  BY <1>18, ShapeSame DEF Shutdown, UserCode
<1> QED
  <2> HIDE DEF OrderInv, WriteInv
  <2>1. CASE UserStart(t)
    BY <2>1, <1>1, <1>2, <1>3, <1>4, <1>5, <1>6, <1>7, <1>8 DEF UserStart
  <2>2. CASE Advance(t)
    BY <2>2, <1>9, <1>10, <1>11, <1>12, <1>13, <1>14, <1>15, <1>16, <1>17 DEF Advance
  <2> QED BY <2>1, <2>2, <1>18 DEF Step

LEMMA OrderInit == Init => OrderInv
<1> SUFFICES ASSUME Init PROVE OrderInv
  OBVIOUS
<1>1. WriteInv
  BY WriteInvInductive
<1>2. acc = [t \in Threads |-> {}]
  BY DEF Init
<1>3. PlaceInv
  BY <1>2 DEF PlaceInv
<1>4. Calls({}) = {} /\ IsFiniteSet({}) /\ TopLevel({}) = 0
  BY FS_EmptySet DEF Calls, TopLevel
<1>5. StackInv
  BY <1>2, <1>4 DEF StackInv, StackOK, BlockedOK
<1> QED BY <1>1, <1>3, <1>5 DEF OrderInv

\* Every step keeps the stack of every thread.
LEMMA OrderStep == OrderInv /\ [Next]_vars => OrderInv'
<1> SUFFICES ASSUME OrderInv, [Next]_vars PROVE OrderInv'
  OBVIOUS
<1>1. WriteInv'
  BY WriteInvInductive DEF OrderInv
<1>2. ASSUME UNCHANGED acc PROVE StackInv' /\ PlaceInv'
  BY <1>2 DEF OrderInv, StackInv, PlaceInv
<1>3. ASSUME NEW t \in Threads, Step(t) PROVE StackInv' /\ PlaceInv'
  <2>1. CASE Shape(t)
    BY <2>1, ShapeKeeps
  <2>2. CASE Panic(t)
    <3>1. acc' = [acc EXCEPT ![t] = {}] /\ acc \in [Threads -> SUBSET Accesses]
      BY <2>2 DEF Panic, OrderInv, WriteInv, TypeInv, TypeOK
    <3>2. Calls({}) = {} /\ IsFiniteSet({}) /\ TopLevel({}) = 0
      BY FS_EmptySet DEF Calls, TopLevel
    <3>3. StackOK({}) /\ BlockedOK({})
      BY <3>2 DEF StackOK, BlockedOK
    <3> QED BY <3>1, <3>3 DEF OrderInv, StackInv, PlaceInv
  <2> QED BY <1>3, <2>1, <2>2, StepShape
<1> QED BY <1>1, <1>2, <1>3 DEF Next, Done, vars, OrderInv

\* NeverWaitsForItself: no thread waits for a turn it holds or swaps a value in under a read of
\* its own (begin_write asks the record first; commit_now and drain ask it whether the access is
\* alone), for any number of threads, signals and nested accesses.
THEOREM NoSelfWait == Spec => []NeverWaitsForItself
<1>1. OrderInv => NeverWaitsForItself
  <2> SUFFICES ASSUME OrderInv, NEW t \in Threads, NEW a \in acc[t]
               PROVE  /\ a.phase = "swap" => ~ReadLocked(t, a.sig)
                      /\ a.phase = "turn" => turn[a.sig] # t
    BY DEF NeverWaitsForItself
  <2>0. a.sig \in Signals
    BY DEF OrderInv, WriteInv, TypeInv, TypeOK, Accesses
  <2>1. a.phase = "swap" => ~ReadLocked(t, a.sig)
    BY DEF OrderInv, StackInv, BlockedOK, NoUse, ReadLocked, Recorded
  <2>2. a.phase = "turn" => ~InUse(t, a.sig)
    BY DEF OrderInv, StackInv, BlockedOK, NoUse, InUse, Uses
  <2>3. turn[a.sig] = t => InUse(t, a.sig)
    BY <2>0 DEF OrderInv, WriteInv, TurnInv, TurnDiscipline
  <2> QED BY <2>1, <2>2, <2>3
<1> QED BY <1>1, OrderInit, OrderStep, PTL DEF Spec

-----------------------------------------------------------------------------
(* Deferred writes are never stranded *)

\* The access a, when it ends, flushes the deferred writes of s.
Flusher(a, s) == a.sig = s /\ (Recorded(a) \/ a.kind = "flush")
Watched(A, s) == \E a \in A : Flusher(a, s)

\* A step of one thread keeps the property where that thread keeps it.
LEMMA FlushOne ==
  ASSUME PendingHasFlusher, NEW t \in Threads,
         \A u \in Threads \ {t} : acc'[u] = acc[u] /\ pending'[u] = pending[u],
         \A s \in Signals : pending'[t][s] # <<>> => Watched(acc'[t], s)
  PROVE  PendingHasFlusher'
BY DEF PendingHasFlusher, Watched, Flusher

\* Accesses are added, or replaced by ones that flush too; nothing new is deferred.
LEMMA FlushKept ==
  ASSUME TypeInv, PendingHasFlusher, NEW t \in Threads, NEW A,
         acc' = [acc EXCEPT ![t] = A],
         pending' \in [Threads -> [Signals -> Seq(Writes)]],
         \A u \in Threads \ {t} : pending'[u] = pending[u],
         \A s \in Signals : pending'[t][s] # <<>> => pending[t][s] # <<>>,
         \A c \in acc[t] : c \in A \/ \A s \in Signals : Flusher(c, s) => Watched(A, s)
  PROVE  PendingHasFlusher'
<1>1. acc'[t] = A /\ \A u \in Threads \ {t} : acc'[u] = acc[u]
  BY DEF TypeInv, TypeOK
<1>2. ASSUME NEW s \in Signals, pending'[t][s] # <<>> PROVE Watched(A, s)
  <2>1. PICK c \in acc[t] : Flusher(c, s)
    BY <1>2 DEF PendingHasFlusher, Flusher
  <2> QED BY <2>1 DEF Watched
<1> QED BY <1>1, <1>2, FlushOne

\* A write is deferred by a thread that uses the signal.
LEMMA FlushDeferred ==
  ASSUME TypeInv, PendingHasFlusher, NEW t \in Threads, NEW s \in Signals, NEW q, InUse(t, s),
         pending' = [pending EXCEPT ![t][s] = q], UNCHANGED acc
  PROVE  PendingHasFlusher'
<1>1. /\ \A u \in Threads \ {t} : acc'[u] = acc[u] /\ pending'[u] = pending[u]
      /\ \A r \in Signals : r # s => pending'[t][r] = pending[t][r]
  BY DEF TypeInv, TypeOK
<1>2. Watched(acc'[t], s)
  BY DEF InUse, Uses, Watched, Flusher
<1>3. ASSUME NEW r \in Signals, pending'[t][r] # <<>> PROVE Watched(acc'[t], r)
  BY <1>1, <1>2, <1>3 DEF PendingHasFlusher, Watched, Flusher
<1> QED BY <1>1, <1>3, FlushOne

\* An access ends: the outermost one flushes, any other leaves one that will.
LEMMA FlushExit ==
  ASSUME TypeInv, PendingHasFlusher, NEW t \in Threads, NEW a \in acc[t], NEW q, Exit(t, a, q),
         a.kind = "flush" => Recorded(a),
         q # <<>> => Watched(acc[t], a.sig)
  PROVE  PendingHasFlusher'
<1> DEFINE R == acc[t] \ {a}
           b == Flush(t, a)
           out == Outermost(t, a) /\ q # <<>>
<1>1. /\ acc' = [acc EXCEPT ![t] = R \cup IF out THEN {b} ELSE {}]
      /\ pending' = [pending EXCEPT ![t][a.sig] = q]
  BY DEF Exit
<1>2. Flusher(b, a.sig)
  BY DEF Flush, Flusher
<1>3. a.sig \in Signals
  BY PendingType
<1> HIDE DEF b, R, out
<1>4. /\ acc'[t] = R \cup IF out THEN {b} ELSE {}
      /\ \A u \in Threads \ {t} : acc'[u] = acc[u] /\ pending'[u] = pending[u]
      /\ pending'[t][a.sig] = q
      /\ \A s \in Signals : s # a.sig => pending'[t][s] = pending[t][s]
  BY <1>1, <1>3 DEF TypeInv, TypeOK
<1>5. ASSUME NEW s \in Signals, s # a.sig, pending'[t][s] # <<>> PROVE Watched(acc'[t], s)
  <2>1. PICK c \in acc[t] : Flusher(c, s)
    BY <1>4, <1>5 DEF PendingHasFlusher, Flusher
  <2>2. c \in R
    BY <1>5, <2>1 DEF Flusher, R
  <2> QED BY <1>4, <2>1, <2>2 DEF Watched
<1>6. ASSUME q # <<>> PROVE Watched(acc'[t], a.sig)
  <2>1. CASE Outermost(t, a)
    BY <1>2, <1>4, <1>6, <2>1 DEF Watched, out
  <2>2. CASE ~Outermost(t, a)
    <3>1. PICK c \in acc[t] : Flusher(c, a.sig)
      BY <1>6 DEF Watched
    <3>2. \E d \in acc[t] : d # a /\ Flusher(d, a.sig)
      BY <2>2, <3>1 DEF Outermost, Alone, Uses, Flusher
    <3> QED BY <1>4, <3>2 DEF Watched, R
  <2> QED BY <2>1, <2>2
<1>7. ASSUME NEW s \in Signals, pending'[t][s] # <<>> PROVE Watched(acc'[t], s)
  BY <1>4, <1>5, <1>6, <1>7
<1> QED BY <1>4, <1>7, FlushOne

\* Nothing is deferred, and an access is added or replaced.
LEMMA FlushAdd ==
  ASSUME TypeInv, PendingHasFlusher, NEW t \in Threads, NEW b,
         acc' = [acc EXCEPT ![t] = @ \cup {b}], UNCHANGED pending
  PROVE  PendingHasFlusher'
<1>1. acc' = [acc EXCEPT ![t] = acc[t] \cup {b}]
  BY DEF TypeInv, TypeOK
<1>2. \A c \in acc[t] : c \in acc[t] \cup {b}
  OBVIOUS
<1> QED BY <1>1, <1>2, FlushKept DEF TypeInv, TypeOK

LEMMA FlushReplace ==
  ASSUME TypeInv, PendingHasFlusher, NEW t \in Threads, NEW a \in acc[t], NEW b,
         Replace(t, a, b), \A s \in Signals : Flusher(a, s) => Flusher(b, s),
         pending' \in [Threads -> [Signals -> Seq(Writes)]],
         \A u \in Threads \ {t} : pending'[u] = pending[u],
         \A s \in Signals : pending'[t][s] # <<>> => pending[t][s] # <<>>
  PROVE  PendingHasFlusher'
<1> DEFINE A == (acc[t] \ {a}) \cup {b}
<1>1. acc' = [acc EXCEPT ![t] = A]
  BY DEF TypeInv, TypeOK, Replace
<1>2. \A c \in acc[t] : c \in A \/ \A s \in Signals : Flusher(c, s) => Watched(A, s)
  BY DEF Watched
<1> HIDE DEF A
<1> QED BY <1>1, <1>2, FlushKept

LEMMA FlushRemove ==
  ASSUME TypeInv, PendingHasFlusher, NEW t \in Threads, NEW a \in acc[t],
         acc' = [acc EXCEPT ![t] = @ \ {a}], \A s \in Signals : ~Flusher(a, s),
         UNCHANGED pending
  PROVE  PendingHasFlusher'
<1> DEFINE A == acc[t] \ {a}
<1>1. acc' = [acc EXCEPT ![t] = A]
  BY DEF TypeInv, TypeOK
<1>2. \A c \in acc[t] : c \in A \/ \A s \in Signals : Flusher(c, s) => Watched(A, s)
  OBVIOUS
<1> HIDE DEF A
<1> QED BY <1>1, <1>2, FlushKept DEF TypeInv, TypeOK

\* What a thread starts strands nothing.
LEMMA FlushStart ==
  ASSUME OrderInv, PendingHasFlusher, NEW t \in Threads, UserStart(t)
  PROVE  PendingHasFlusher'
<1>0. TypeInv
  BY DEF OrderInv, WriteInv
<1>1. ASSUME UNCHANGED <<acc, pending>> PROVE PendingHasFlusher'
  BY <1>1 DEF PendingHasFlusher
<1>2. ASSUME NEW b, Push(t, b), UNCHANGED pending PROVE PendingHasFlusher'
  BY <1>0, <1>2, FlushAdd DEF Push
<1>3. PICK s \in Signals :
        \/ Read(t, s) \/ ReadWaits(t, s) \/ Refused(t, s)
        \/ \E notify \in BOOLEAN :
             \/ \E kind \in {"set", "part", "update", "guard"} : BeginWrite(t, s, kind, notify)
             \/ DeferSet(t, s, notify)
        \/ PartRefused(t, s)
        \/ \E kind \in {"nested", "nguard"} : BeginNested(t, s, kind)
        \/ Notify(t, s)
        \/ BeginBare(t, s)
  BY DEF UserStart
<1>4. CASE Read(t, s)
  BY <1>0, <1>4, FlushAdd DEF Read
<1>5. CASE ReadWaits(t, s)
  BY <1>2, <1>5 DEF ReadWaits
<1>6. CASE Refused(t, s) \/ PartRefused(t, s)
  BY <1>1, <1>6 DEF Refused, PartRefused
<1>7. ASSUME NEW notify, NEW kind, BeginWrite(t, s, kind, notify) PROVE PendingHasFlusher'
  BY <1>2, <1>7 DEF BeginWrite
<1>8. ASSUME NEW notify, DeferSet(t, s, notify) PROVE PendingHasFlusher'
  <2>1. PICK q : pending' = [pending EXCEPT ![t][s] = q]
    BY <1>8, Zenon DEF DeferSet
  <2> QED BY <1>0, <1>8, <2>1, FlushDeferred DEF DeferSet
<1>9. ASSUME NEW kind, BeginNested(t, s, kind) PROVE PendingHasFlusher'
  BY <1>0, <1>2, <1>9, FlushAdd DEF BeginNested
<1>10. CASE Notify(t, s)
  <2>1. CASE InUse(t, s)
    <3>1. PICK q : pending' = [pending EXCEPT ![t][s] = q]
      BY <1>10, <2>1, Zenon DEF Notify
    <3> QED BY <1>0, <1>10, <2>1, <3>1, FlushDeferred DEF Notify
  <2>2. CASE ~InUse(t, s)
    BY <1>2, <1>10, <2>2 DEF Notify
  <2> QED BY <2>1, <2>2
<1>11. CASE BeginBare(t, s)
  BY <1>2, <1>11 DEF BeginBare
<1> QED BY <1>3, <1>4, <1>5, <1>6, <1>7, <1>8, <1>9, <1>10, <1>11

\* Nor does what ends or advances an access.
LEMMA FlushAdvance ==
  ASSUME OrderInv, PendingHasFlusher, NEW t \in Threads, Advance(t)
  PROVE  PendingHasFlusher'
<1>0. TypeInv /\ pending \in [Threads -> [Signals -> Seq(Writes)]]
  BY DEF OrderInv, WriteInv, TypeInv, TypeOK
<1>1. PICK a \in acc[t] :
        \/ ReadGranted(t, a) \/ DropRead(t, a)
        \/ TakeTurn(t, a) \/ SwapIn(t, a) \/ Marked(t, a) \/ Drain(t, a)
        \/ \E notify \in BOOLEAN :
             \/ EndUpdate(t, a, notify) \/ DropWriteGuard(t, a, notify)
             \/ EndNested(t, a, notify) \/ SetUnrecorded(t, a, notify)
  BY DEF Advance
<1>2. a \in Accesses /\ a.sig \in Signals /\ KindOK(a)
  BY <1>0, PendingType DEF OrderInv, WriteInv, KindInv
<1>3. pending[t][a.sig] # <<>> => Watched(acc[t], a.sig)
  BY <1>2 DEF PendingHasFlusher, Watched, Flusher
<1>4. ASSUME NEW b, Replace(t, a, b), UNCHANGED pending,
             b.sig = a.sig, b.kind = a.kind, b.phase # "turn"
      PROVE  PendingHasFlusher'
  <2>1. \A s \in Signals : Flusher(a, s) => Flusher(b, s)
    BY <1>4 DEF Flusher, Recorded, Writing
  <2> QED BY <1>0, <1>4, <2>1, FlushReplace
<1>5. ASSUME EndWrite(t, a), a.phase # "turn" PROVE PendingHasFlusher'
  <2>1. CASE a.kind = "flush"
    BY <1>2, <1>4, <1>5, <2>1 DEF EndWrite, Accesses
  <2>2. CASE a.kind # "flush"
    BY <1>0, <1>3, <1>5, <2>2, FlushExit DEF EndWrite
  <2> QED BY <2>1, <2>2
<1>6. CASE ReadGranted(t, a)
  BY <1>2, <1>4, <1>6 DEF ReadGranted, Accesses
<1>7. CASE DropRead(t, a)
  BY <1>0, <1>3, <1>7, FlushExit DEF DropRead
<1>8. CASE TakeTurn(t, a)
  <2>1. CASE a.kind \in {"update", "guard"} /\ ~CanRead(t, a.sig)
    <3>1. \A s \in Signals : ~Flusher(a, s)
      BY <1>8, <2>1 DEF TakeTurn, Flusher, Recorded, Writing
    <3> QED BY <1>0, <1>8, <2>1, <3>1, FlushRemove DEF TakeTurn
  <2>2. CASE ~(a.kind \in {"update", "guard"} /\ ~CanRead(t, a.sig))
    <3>1. /\ TurnTaken(a).sig = a.sig /\ TurnTaken(a).kind = a.kind
          /\ TurnTaken(a).phase # "turn"
      BY <1>2 DEF TurnTaken, Accesses
    <3> QED BY <1>4, <1>8, <2>2, <3>1 DEF TakeTurn
  <2> QED BY <2>1, <2>2
<1>9. CASE SwapIn(t, a)
  <2>1. [a EXCEPT !.phase = "mark"].sig = a.sig /\ [a EXCEPT !.phase = "mark"].kind = a.kind
        /\ [a EXCEPT !.phase = "mark"].phase # "turn"
    BY <1>2 DEF Accesses
  <2> QED BY <1>4, <1>5, <1>9, <2>1 DEF SwapIn
<1>10. CASE Marked(t, a)
  BY <1>5, <1>10 DEF Marked
<1>11. CASE Drain(t, a)
  <2> DEFINE q == pending[t][a.sig]
  <2>0. a.phase = "drain" /\ a.kind = "flush" /\ q \in Seq(Writes)
    BY <1>0, <1>2, <1>11 DEF Drain, KindOK
  <2>1. CASE Runaway(a) \/ ~Alone(t, a) \/ q = <<>>
    <3>1. PICK r : Exit(t, a, r) /\ (r # <<>> => r = q)
      BY <1>11, <2>1 DEF Drain
    <3>2. Recorded(a)
      BY <2>0 DEF Recorded, Writing, WritingKinds
    <3> QED BY <1>0, <1>3, <3>1, <3>2, FlushExit
  <2>2. CASE ~(Runaway(a) \/ ~Alone(t, a) \/ q = <<>>)
    <3> DEFINE b == [a EXCEPT !.applied = @ + 1, !.write = Head(q),
                       !.phase = IF Head(q).mode = "notify" THEN "mark" ELSE "swap"]
    <3>1. Replace(t, a, b) /\ pending' = [pending EXCEPT ![t][a.sig] = Tail(q)]
      BY <1>11, <2>2 DEF Drain, PopFront
    <3>2. b.sig = a.sig /\ b.kind = a.kind
      BY <1>2 DEF Accesses
    <3>3. \A s \in Signals : Flusher(a, s) => Flusher(b, s)
      BY <2>0, <3>2 DEF Flusher
    <3>4. q # <<>> /\ Tail(q) \in Seq(Writes)
      BY <2>0, <2>2
    <3> HIDE DEF b, q
    <3>5. /\ pending' \in [Threads -> [Signals -> Seq(Writes)]]
          /\ \A u \in Threads \ {t} : pending'[u] = pending[u]
          /\ \A s \in Signals : s # a.sig => pending'[t][s] = pending[t][s]
      BY <1>0, <1>2, <3>1, <3>4
    <3>6. \A s \in Signals : pending'[t][s] # <<>> => pending[t][s] # <<>>
      BY <3>4, <3>5 DEF q
    <3> QED BY <1>0, <3>1, <3>3, <3>5, <3>6, FlushReplace
  <2> QED BY <2>1, <2>2
<1>12. ASSUME NEW notify \in BOOLEAN, EndUpdate(t, a, notify) \/ DropWriteGuard(t, a, notify)
       PROVE  PendingHasFlusher'
  <2>0. Commit(t, a, notify) /\ a.kind # "flush" /\ a.kind \in WritingKinds /\ a.phase # "turn"
    BY <1>12 DEF EndUpdate, DropWriteGuard, WritingKinds
  <2>1. CASE Alone(t, a)
    <3> DEFINE b == [a EXCEPT !.phase = "swap", !.write.notify = notify,
                              !.lvl = IF a.lvl > 0 THEN a.lvl ELSE TopLevel(acc[t]) + 1]
    <3>1. Replace(t, a, b) /\ UNCHANGED pending
      BY <2>0, <2>1 DEF Commit
    <3>2. b.sig = a.sig /\ b.kind = a.kind /\ b.phase = "swap"
      BY <1>2 DEF Accesses
    <3> HIDE DEF b
    <3> QED BY <1>4, <3>1, <3>2
  <2>2. CASE ~Alone(t, a)
    <3>1. \E r : Exit(t, a, r)
      BY <2>0, <2>2 DEF Commit
    <3>2. Watched(acc[t], a.sig)
      BY <2>0 DEF Watched, Flusher, Recorded, Writing
    <3> QED BY <1>0, <2>0, <3>1, <3>2, FlushExit
  <2> QED BY <2>1, <2>2
<1>13. ASSUME NEW notify \in BOOLEAN, EndNested(t, a, notify) PROVE PendingHasFlusher'
  <2>1. Exit(t, a, DeferredResult(t, a, notify)) /\ a.kind # "flush"
    BY <1>13 DEF EndNested
  <2>2. CASE InUse(t, a.sig)
    <3>1. Watched(acc[t], a.sig)
      BY <2>2 DEF InUse, Uses, Watched, Flusher
    <3> QED BY <1>0, <2>1, <3>1, FlushExit
  <2>3. CASE ~InUse(t, a.sig)
    BY <1>0, <1>3, <2>1, <2>3, FlushExit DEF DeferredResult
  <2> QED BY <2>2, <2>3
<1>14. ASSUME NEW notify \in BOOLEAN, SetUnrecorded(t, a, notify) PROVE PendingHasFlusher'
  <2>1. /\ a.kind = "bare" /\ UNCHANGED pending
        /\ acc' = [acc EXCEPT ![t] = @ \ {a}] \/ Replace(t, a, [a EXCEPT !.phase = "mark"])
    BY <1>14 DEF SetUnrecorded
  <2>2. \A s \in Signals : ~Flusher(a, s)
    BY <2>1 DEF Flusher, Recorded, Writing, WritingKinds
  <2> QED BY <1>0, <2>1, <2>2, FlushRemove, FlushReplace
<1> QED BY <1>1, <1>6, <1>7, <1>8, <1>9, <1>10, <1>11, <1>12, <1>13, <1>14

LEMMA FlushStep == OrderInv /\ PendingHasFlusher /\ [Next]_vars => PendingHasFlusher'
<1> SUFFICES ASSUME OrderInv, PendingHasFlusher, [Next]_vars PROVE PendingHasFlusher'
  OBVIOUS
<1>1. ASSUME UNCHANGED <<acc, pending>> PROVE PendingHasFlusher'
  BY <1>1 DEF PendingHasFlusher
<1>2. ASSUME NEW t \in Threads, Panic(t) PROVE PendingHasFlusher'
  <2>1. /\ \A u \in Threads \ {t} : acc'[u] = acc[u] /\ pending'[u] = pending[u]
        /\ \A s \in Signals : pending'[t][s] = <<>>
    BY <1>2 DEF Panic, OrderInv, WriteInv, TypeInv, TypeOK
  <2> QED BY <2>1, FlushOne
<1> QED BY <1>1, <1>2, FlushStart, FlushAdvance DEF Next, Step, Shutdown, Done, vars

\* PendingHasFlusher: a write that was deferred is never stranded (defer, put_pending and exit of
\* reentry.rs): as long as it is pending, an access of its thread will flush it, whatever order
\* the guards are dropped in, after a panic and after a runaway drain too.
THEOREM NeverStranded == Spec => []PendingHasFlusher
<1>1. Init => PendingHasFlusher
  BY DEF Init, PendingHasFlusher
<1> QED BY <1>1, FlushStep, OrderInit, OrderStep, PTL DEF Spec

-----------------------------------------------------------------------------
(* Changes are marked *)

\* The access a marks the subscribers of s after a change of its value.
Marks(a, s) == a.sig = s /\ a.phase = "mark" /\ a.write.mode # "notify"
MarkInv == \A s \in Signals : stale[s] => \E t \in Threads : \E a \in acc[t] : Marks(a, s)

\* Advancing the access a leaves the other ones.
LEMMA AdvanceRest ==
  ASSUME TypeInv, NEW t \in Threads, NEW a \in acc[t], NEW notify,
         \/ ReadGranted(t, a) \/ DropRead(t, a)
         \/ TakeTurn(t, a) \/ SwapIn(t, a) \/ Marked(t, a) \/ Drain(t, a)
         \/ EndUpdate(t, a, notify) \/ DropWriteGuard(t, a, notify)
         \/ EndNested(t, a, notify) \/ SetUnrecorded(t, a, notify)
  PROVE  /\ acc[t] \ {a} \subseteq acc'[t]
         /\ \A u \in Threads \ {t} : acc'[u] = acc[u]
<1> USE DEF TypeInv, TypeOK
<1>1. ASSUME NEW b, Replace(t, a, b)
      PROVE  acc[t] \ {a} \subseteq acc'[t] /\ \A u \in Threads \ {t} : acc'[u] = acc[u]
  BY <1>1 DEF Replace
<1>2. ASSUME acc' = [acc EXCEPT ![t] = @ \ {a}]
      PROVE  acc[t] \ {a} \subseteq acc'[t] /\ \A u \in Threads \ {t} : acc'[u] = acc[u]
  BY <1>2
<1>3. ASSUME NEW q, Exit(t, a, q)
      PROVE  acc[t] \ {a} \subseteq acc'[t] /\ \A u \in Threads \ {t} : acc'[u] = acc[u]
  <2>1. PICK B : acc' = [acc EXCEPT ![t] = (@ \ {a}) \cup B]
    BY <1>3, Zenon DEF Exit
  <2> QED BY <2>1
<1>4. \/ \E b : Replace(t, a, b)
      \/ acc' = [acc EXCEPT ![t] = @ \ {a}]
      \/ \E q : Exit(t, a, q)
  BY Zenon DEF ReadGranted, DropRead, TakeTurn, SwapIn, Marked, Drain, EndUpdate, DropWriteGuard,
     EndNested, SetUnrecorded, EndWrite, Commit
<1> QED BY <1>1, <1>2, <1>3, <1>4

\* What user code starts leaves all of them.
LEMMA StartRest ==
  ASSUME TypeInv, NEW t \in Threads, UserStart(t)
  PROVE  /\ acc[t] \subseteq acc'[t] /\ \A u \in Threads \ {t} : acc'[u] = acc[u]
         /\ UNCHANGED <<stale, committed, gone>>
<1>1. UNCHANGED acc \/ \E b : acc' = [acc EXCEPT ![t] = @ \cup {b}]
  BY Zenon DEF UserStart, Read, ReadWaits, Refused, BeginWrite, DeferSet, PartRefused,
     BeginNested, Notify, BeginBare, Push
<1>2. UNCHANGED <<stale, committed, gone>>
  BY DEF UserStart, Read, ReadWaits, Refused, BeginWrite, DeferSet, PartRefused,
     BeginNested, Notify, BeginBare
<1> QED BY <1>1, <1>2 DEF TypeInv, TypeOK

\* The marking accesses stay, and so does what they mark.
LEMMA MarksStay ==
  ASSUME MarkInv, NEW t \in Threads, NEW s \in Signals, stale[s],
         \A c \in acc[t] : Marks(c, s) => c \in acc'[t],
         \A u \in Threads \ {t} : acc'[u] = acc[u]
  PROVE  \E u \in Threads : \E a \in acc'[u] : Marks(a, s)
<1>1. PICK u \in Threads : \E a \in acc[u] : Marks(a, s)
  BY DEF MarkInv
<1>2. CASE u = t
  BY <1>1, <1>2
<1>3. CASE u # t
  BY <1>1, <1>3
<1> QED BY <1>2, <1>3

\* A change is committed: it is marked, or nobody is to be told.
LEMMA MarkChange ==
  ASSUME OrderInv, MarkInv, NEW t \in Threads, NEW a \in acc[t], a.phase # "mark",
         a.write.mode # "notify", NEW n \in BOOLEAN,
         stale' = [stale EXCEPT ![a.sig] = @ \/ n],
         n => Replace(t, a, [a EXCEPT !.phase = "mark"]),
         acc[t] \ {a} \subseteq acc'[t], \A u \in Threads \ {t} : acc'[u] = acc[u]
  PROVE  MarkInv'
<1> SUFFICES ASSUME NEW s \in Signals, stale'[s]
             PROVE  \E u \in Threads : \E c \in acc'[u] : Marks(c, s)
  BY DEF MarkInv
<1>0. a \in Accesses /\ a.sig \in Signals /\ acc \in [Threads -> SUBSET Accesses]
  BY DEF OrderInv, WriteInv, TypeInv, TypeOK, Accesses
<1>1. stale[s] \/ (n /\ s = a.sig)
  BY <1>0 DEF OrderInv, WriteInv, TypeInv, TypeOK
<1>2. CASE stale[s]
  <2>1. \A c \in acc[t] : Marks(c, s) => c \in acc'[t]
    BY DEF Marks
  <2> QED BY <1>2, <2>1, MarksStay
<1>3. CASE n /\ s = a.sig
  <2> DEFINE b == [a EXCEPT !.phase = "mark"]
  <2>1. Marks(b, s)
    BY <1>0, <1>3 DEF Marks, Accesses
  <2>2. b \in acc'[t]
    BY <1>0, <1>3 DEF Replace
  <2> HIDE DEF b
  <2> QED BY <2>1, <2>2
<1> QED BY <1>1, <1>2, <1>3

LEMMA MarkAdvance ==
  ASSUME OrderInv, MarkInv, NEW t \in Threads, Advance(t)
  PROVE  MarkInv'
<1>1. PICK a \in acc[t] : \E notify \in BOOLEAN :
        \/ ReadGranted(t, a) \/ DropRead(t, a)
        \/ TakeTurn(t, a) \/ SwapIn(t, a) \/ Marked(t, a) \/ Drain(t, a)
        \/ EndUpdate(t, a, notify) \/ DropWriteGuard(t, a, notify)
        \/ EndNested(t, a, notify) \/ SetUnrecorded(t, a, notify)
  BY DEF Advance
<1>2. PICK notify \in BOOLEAN :
        \/ ReadGranted(t, a) \/ DropRead(t, a)
        \/ TakeTurn(t, a) \/ SwapIn(t, a) \/ Marked(t, a) \/ Drain(t, a)
        \/ EndUpdate(t, a, notify) \/ DropWriteGuard(t, a, notify)
        \/ EndNested(t, a, notify) \/ SetUnrecorded(t, a, notify)
  BY <1>1
<1>3. a \in Accesses /\ a.sig \in Signals /\ PlaceOK(a) /\ a.write.notify \in BOOLEAN
  BY DEF OrderInv, WriteInv, TypeInv, TypeOK, Accesses, Writes, PlaceInv
<1>4. acc[t] \ {a} \subseteq acc'[t] /\ \A u \in Threads \ {t} : acc'[u] = acc[u]
  BY <1>2, AdvanceRest DEF OrderInv, WriteInv
<1>5. ASSUME UNCHANGED stale, \A s \in Signals : ~Marks(a, s) PROVE MarkInv'
  <2> SUFFICES ASSUME NEW s \in Signals, stale[s]
               PROVE  \E u \in Threads : \E c \in acc'[u] : Marks(c, s)
    BY <1>5 DEF MarkInv
  <2> QED BY <1>4, <1>5, MarksStay
<1>6. CASE \/ ReadGranted(t, a) \/ DropRead(t, a) \/ TakeTurn(t, a) \/ Drain(t, a)
          \/ EndUpdate(t, a, notify) \/ DropWriteGuard(t, a, notify) \/ EndNested(t, a, notify)
  <2>1. UNCHANGED stale
    BY <1>6 DEF ReadGranted, DropRead, TakeTurn, Drain, EndUpdate, DropWriteGuard, EndNested
  <2>2. a.phase # "mark"
    BY <1>3, <1>6 DEF ReadGranted, DropRead, TakeTurn, Drain, EndUpdate, DropWriteGuard, EndNested,
       PlaceOK
  <2> QED BY <1>5, <2>1, <2>2 DEF Marks
<1>7. CASE SwapIn(t, a)
  <2>1. a.phase = "swap" /\ a.write.mode # "notify"
    BY <1>3, <1>7 DEF SwapIn, PlaceOK
  <2>2. stale' = [stale EXCEPT ![a.sig] = @ \/ a.write.notify]
    BY <1>7, Zenon DEF SwapIn
  <2>3. a.write.notify => Replace(t, a, [a EXCEPT !.phase = "mark"])
    BY <1>7, Zenon DEF SwapIn, MustMark
  <2> QED BY <1>3, <1>4, <2>1, <2>2, <2>3, MarkChange
<1>8. CASE SetUnrecorded(t, a, notify)
  <2> DEFINE n == TurnFree(a.sig) /\ NoReaders(a.sig) /\ notify
  <2>1. a.phase = "closure" /\ a.write.mode # "notify"
    BY <1>3, <1>8 DEF SetUnrecorded, PlaceOK
  <2>2. CASE TurnFree(a.sig) /\ NoReaders(a.sig)
    <3>1. stale' = [stale EXCEPT ![a.sig] = @ \/ notify]
      BY <1>8, <2>2, Zenon DEF SetUnrecorded
    <3>2. notify => Replace(t, a, [a EXCEPT !.phase = "mark"])
      BY <1>8, <2>2, Zenon DEF SetUnrecorded
    <3> QED BY <1>3, <1>4, <2>1, <3>1, <3>2, MarkChange
  <2>3. CASE ~(TurnFree(a.sig) /\ NoReaders(a.sig))
    <3>1. UNCHANGED stale
      BY <1>8, <2>3 DEF SetUnrecorded
    <3> QED BY <1>5, <2>1, <3>1 DEF Marks
  <2> QED BY <2>2, <2>3
<1>9. CASE Marked(t, a)
  <2>1. CASE a.write.mode = "notify"
    BY <1>5, <1>9, <2>1 DEF Marked, Marks
  <2>2. CASE a.write.mode # "notify"
    <3> SUFFICES ASSUME NEW s \in Signals, stale'[s]
                 PROVE  \E u \in Threads : \E c \in acc'[u] : Marks(c, s)
      BY DEF MarkInv
    <3>1. stale' = [stale EXCEPT ![a.sig] = FALSE]
      BY <1>9, <2>2 DEF Marked
    <3>2. s # a.sig /\ stale[s]
      BY <1>3, <3>1 DEF OrderInv, WriteInv, TypeInv, TypeOK
    <3>3. \A c \in acc[t] : Marks(c, s) => c \in acc'[t]
      BY <1>4, <3>2 DEF Marks
    <3> QED BY <1>4, <3>2, <3>3, MarksStay
  <2> QED BY <2>1, <2>2
<1> QED BY <1>2, <1>6, <1>7, <1>8, <1>9

\* ChangesAreMarked: a committed change is being marked by some thread until every subscriber has
\* been marked (swap_in and set_unrecorded go on to mark_subscribers, the drain after every write).
THEOREM NoSilentChange == Spec => []ChangesAreMarked
<1>1. Init => MarkInv
  BY DEF Init, MarkInv
<1>2. OrderInv /\ MarkInv /\ [Next]_vars => MarkInv'
  <2> SUFFICES ASSUME OrderInv, MarkInv, [Next]_vars PROVE MarkInv'
    OBVIOUS
  <2>1. ASSUME UNCHANGED <<acc, stale>> PROVE MarkInv'
    BY <2>1 DEF MarkInv
  <2>2. ASSUME NEW t \in Threads, Panic(t) PROVE MarkInv'
    <3> SUFFICES ASSUME NEW s \in Signals, stale'[s]
                 PROVE  \E u \in Threads : \E c \in acc'[u] : Marks(c, s)
      BY DEF MarkInv
    <3>1. stale'[s] = (stale[s] /\ ~ \E a \in acc[t] : a.sig = s /\ a.phase = "mark")
      BY <2>2, Zenon DEF Panic
    <3>2. stale[s] /\ \A c \in acc[t] : ~Marks(c, s)
      BY <3>1, Zenon DEF Marks
    <3>3. \A u \in Threads \ {t} : acc'[u] = acc[u]
      BY <2>2 DEF Panic, OrderInv, WriteInv, TypeInv, TypeOK
    <3> QED BY <3>2, <3>3, MarksStay
  <2>3. ASSUME NEW t \in Threads, UserStart(t) PROVE MarkInv'
    <3>1. /\ acc[t] \subseteq acc'[t] /\ \A u \in Threads \ {t} : acc'[u] = acc[u]
          /\ UNCHANGED stale
      BY <2>3, StartRest DEF OrderInv, WriteInv
    <3> SUFFICES ASSUME NEW s \in Signals, stale[s]
                 PROVE  \E u \in Threads : \E c \in acc'[u] : Marks(c, s)
      BY <3>1 DEF MarkInv
    <3> QED BY <3>1, MarksStay
  <2> QED BY <2>1, <2>2, <2>3, MarkAdvance DEF Next, Step, Shutdown, Done, vars
<1>3. MarkInv => ChangesAreMarked
  BY DEF MarkInv, ChangesAreMarked, Marks
<1> QED BY <1>1, <1>2, <1>3, OrderInit, OrderStep, PTL DEF Spec

-----------------------------------------------------------------------------
(* The writes of one thread land in order *)

\* The deferred values of q: in order, after n, and thread t's up to its operation n.
Ordered(q) == \A i, j \in DeferredSets(q) : i < j => q[i].val.n < q[j].val.n
Below(n, q) == \A i \in DeferredSets(q) : n < q[i].val.n
UpTo(t, q, n) == \A i \in DeferredSets(q) : q[i].val.by = t /\ q[i].val.n <= n

\* The write of a is still to be committed.
ToCome(a) ==
  /\ a.kind \in WritingKinds
  /\ a.phase \in {"closure", "guard", "swap"} \/ (a.phase = "turn" /\ a.kind # "flush")
Coming(A, s) == {a \in A : a.sig = s /\ ToCome(a)}

\* With A the accesses of t, q its deferred writes to s, n its operations so far, c the committed
\* value of s and G the threads that are gone: what t still has to commit comes in the order it
\* was made, and after what it has committed.
InOrder(t, s, A, q, n, c, G) ==
  /\ UpTo(t, q, n) /\ Ordered(q)
  /\ \A a \in Coming(A, s) :
       a.write.val.by = t /\ a.write.val.n <= n /\ Below(a.write.val.n, q)
  /\ c.by = t => c.n <= n
  /\ c.by = t /\ t \notin G => Below(c.n, q) /\ \A a \in Coming(A, s) : c.n < a.write.val.n
OrdersInv ==
  \A t \in Threads, s \in Signals :
    InOrder(t, s, acc[t], pending[t][s], ops[t], committed[s], gone)

\* Writes without the record are made by threads that are gone.
BareOK(t, A, n, G) ==
  \A a \in A : a.kind = "bare" => t \in G /\ a.write.val.by = t /\ a.write.val.n <= n
BareInv == \A t \in Threads : BareOK(t, acc[t], ops[t], gone)

LEMMA DeferredTypes ==
  ASSUME NEW q \in Seq(Writes)
  PROVE  \A i \in DeferredSets(q) : i \in DOMAIN q /\ i \in Nat /\ q[i].val.n \in Nat
<1> SUFFICES ASSUME NEW i \in DeferredSets(q)
             PROVE  i \in DOMAIN q /\ i \in Nat /\ q[i].val.n \in Nat
  OBVIOUS
<1>1. i \in DOMAIN q /\ i \in Nat /\ q[i] \in Writes
  BY DEF DeferredSets
<1> QED BY <1>1 DEF Writes, Values

LEMMA AppendOrder ==
  ASSUME NEW t, NEW q \in Seq(Writes), NEW n \in Nat, NEW w \in Writes, UpTo(t, q, n), Ordered(q),
         w.mode = "notify" \/ w.val = Value(t, n + 1)
  PROVE  /\ UpTo(t, Append(q, w), n + 1) /\ Ordered(Append(q, w))
         /\ \A m \in Nat : m <= n /\ Below(m, q) => Below(m, Append(q, w))
<1> DEFINE r == Append(q, w)
<1>1. /\ \A i \in DeferredSets(r) : i \in DeferredSets(q) \/ (i = Len(q) + 1 /\ w.mode # "notify")
      /\ \A i \in DOMAIN q : r[i] = q[i] /\ i < Len(q) + 1 /\ i \in Nat
      /\ r[Len(q) + 1] = w /\ Len(q) \in Nat
  BY DEF DeferredSets
<1>2. \A i \in DeferredSets(q) : i \in DOMAIN q /\ q[i].val.n \in Nat
  BY DeferredTypes
<1>3. w.mode # "notify" => w.val.by = t /\ w.val.n = n + 1
  BY DEF Value
<1> HIDE DEF r
<1>4. UpTo(t, r, n + 1)
  BY <1>1, <1>2, <1>3 DEF UpTo
<1>5. Ordered(r)
  <2> SUFFICES ASSUME NEW i \in DeferredSets(r), NEW j \in DeferredSets(r), i < j
               PROVE  r[i].val.n < r[j].val.n
    BY DEF Ordered
  <2>1. CASE j \in DeferredSets(q)
    <3>1. i \in DeferredSets(q)
      BY <1>1, <1>2, <2>1
    <3> QED BY <1>1, <1>2, <2>1, <3>1 DEF Ordered
  <2>2. CASE j = Len(q) + 1 /\ w.mode # "notify"
    <3>0. i # Len(q) + 1
      BY <1>1, <2>2
    <3>1. i \in DeferredSets(q)
      BY <1>1, <3>0
    <3>2. r[i] = q[i] /\ q[i].val.n <= n /\ q[i].val.n \in Nat /\ r[j].val.n = n + 1
      BY <1>1, <1>2, <1>3, <2>2, <3>1 DEF UpTo
    <3> QED BY <3>2
  <2> QED BY <1>1, <2>1, <2>2
<1>6. ASSUME NEW m \in Nat, m <= n, Below(m, q) PROVE Below(m, r)
  <2> SUFFICES ASSUME NEW i \in DeferredSets(r) PROVE m < r[i].val.n
    BY DEF Below
  <2>1. CASE i \in DeferredSets(q)
    BY <1>1, <1>2, <1>6, <2>1 DEF Below
  <2>2. CASE i = Len(q) + 1 /\ w.mode # "notify"
    BY <1>1, <1>3, <1>6, <2>2
  <2> QED BY <1>1, <2>1, <2>2
<1> QED BY <1>4, <1>5, <1>6 DEF r

LEMMA TailOrder ==
  ASSUME NEW t, NEW q \in Seq(Writes), q # <<>>, NEW n \in Nat, UpTo(t, q, n), Ordered(q)
  PROVE  /\ UpTo(t, Tail(q), n) /\ Ordered(Tail(q))
         /\ \A m \in Nat : Below(m, q) => Below(m, Tail(q))
         /\ Head(q).mode # "notify" =>
              /\ Head(q).val.by = t /\ Head(q).val.n <= n /\ Below(Head(q).val.n, Tail(q))
              /\ \A m \in Nat : Below(m, q) => m < Head(q).val.n
<1> DEFINE r == Tail(q)
<1>1. \A i \in DeferredSets(r) : i \in Nat /\ i > 0 /\ i + 1 \in DeferredSets(q) /\ r[i] = q[i + 1]
  BY DEF DeferredSets
<1>2. Head(q) = q[1] /\ (Head(q).mode # "notify" => 1 \in DeferredSets(q))
  BY DEF DeferredSets
<1>3. \A i \in DeferredSets(q) : q[i].val.n \in Nat
  BY DeferredTypes
<1> HIDE DEF r
<1>4. UpTo(t, r, n)
  BY <1>1 DEF UpTo
<1>5. Ordered(r)
  <2> SUFFICES ASSUME NEW i \in DeferredSets(r), NEW j \in DeferredSets(r), i < j
               PROVE  r[i].val.n < r[j].val.n
    BY DEF Ordered
  <2>1. i + 1 < j + 1
    BY <1>1
  <2> QED BY <1>1, <2>1 DEF Ordered
<1>6. \A m \in Nat : Below(m, q) => Below(m, r)
  BY <1>1 DEF Below
<1>7. ASSUME Head(q).mode # "notify"
      PROVE  /\ Head(q).val.by = t /\ Head(q).val.n <= n /\ Below(Head(q).val.n, r)
             /\ \A m \in Nat : Below(m, q) => m < Head(q).val.n
  <2>1. 1 \in DeferredSets(q) /\ Head(q) = q[1]
    BY <1>2, <1>7
  <2>2. Head(q).val.by = t /\ Head(q).val.n <= n
    BY <2>1 DEF UpTo
  <2>3. Below(Head(q).val.n, r)
    <3> SUFFICES ASSUME NEW i \in DeferredSets(r) PROVE q[1].val.n < r[i].val.n
      BY <2>1 DEF Below
    <3>1. 1 < i + 1 /\ i + 1 \in DeferredSets(q) /\ r[i] = q[i + 1]
      BY <1>1
    <3> QED BY <2>1, <3>1 DEF Ordered
  <2>4. \A m \in Nat : Below(m, q) => m < Head(q).val.n
    BY <2>1 DEF Below
  <2> QED BY <2>2, <2>3, <2>4
<1> QED BY <1>4, <1>5, <1>6, <1>7 DEF r

LEMMA FrontOrder ==
  ASSUME NEW t, NEW q \in Seq(Writes), NEW n \in Nat, NEW w \in Writes, UpTo(t, q, n), Ordered(q),
         w.val.by = t, w.val.n <= n, Below(w.val.n, q)
  PROVE  /\ UpTo(t, DeferFirst(w, q), n) /\ Ordered(DeferFirst(w, q))
         /\ \A m \in Nat : m < w.val.n /\ Below(m, q) => Below(m, DeferFirst(w, q))
<1> DEFINE r == DeferFirst(w, q)
<1>1. /\ r[1] = w
      /\ \A i \in DeferredSets(r) :
           i \in Nat /\ (i = 1 \/ (i > 1 /\ i - 1 \in DeferredSets(q) /\ r[i] = q[i - 1]))
  <2>1. r \in Seq(Writes) /\ Len(r) = Len(q) + 1 /\ r[1] = w
    BY DEF DeferFirst
  <2>2. \A i \in DOMAIN r : i # 1 => i - 1 \in DOMAIN q /\ r[i] = q[i - 1]
    BY DEF DeferFirst
  <2>3. \A i \in DOMAIN r : i \in Nat /\ i >= 1
    BY <2>1
  <2> HIDE DEF r
  <2> QED BY <2>1, <2>2, <2>3 DEF DeferredSets
<1>2. (\A i \in DeferredSets(q) : q[i].val.n \in Nat) /\ w.val.n \in Nat
  BY DeferredTypes DEF Writes, Values
<1> HIDE DEF r
<1>3. UpTo(t, r, n)
  BY <1>1 DEF UpTo
<1>4. Ordered(r)
  <2> SUFFICES ASSUME NEW i \in DeferredSets(r), NEW j \in DeferredSets(r), i < j
               PROVE  r[i].val.n < r[j].val.n
    BY DEF Ordered
  <2>1. j > 1 /\ j - 1 \in DeferredSets(q) /\ r[j] = q[j - 1] /\ j \in Nat
    BY <1>1
  <2>2. CASE i = 1
    BY <1>1, <2>1, <2>2 DEF Below
  <2>3. CASE i # 1
    <3>1. i - 1 \in DeferredSets(q) /\ r[i] = q[i - 1] /\ i \in Nat
      BY <1>1, <2>3
    <3>2. i - 1 < j - 1
      BY <2>1, <3>1
    <3> QED BY <2>1, <3>1, <3>2 DEF Ordered
  <2> QED BY <2>2, <2>3
<1>5. ASSUME NEW m \in Nat, m < w.val.n, Below(m, q) PROVE Below(m, r)
  BY <1>1, <1>5 DEF Below
<1> QED BY <1>3, <1>4, <1>5 DEF r

\* Every write that is to come with B was to come with A.
Carried(A, B, s) ==
  \A b \in Coming(B, s) : \E a \in Coming(A, s) : b.write.val = a.write.val

LEMMA ComingTypes ==
  ASSUME NEW A \in SUBSET Accesses, NEW s, NEW a \in Coming(A, s)
  PROVE  a.write \in Writes /\ a.write.val \in Values /\ a.write.val.n \in Nat
BY DEF Coming, Accesses, Writes, Values

\* Nothing is deferred or committed.
LEMMA OrderKeep ==
  ASSUME NEW t, NEW s, NEW A \in SUBSET Accesses, NEW B, NEW q \in Seq(Writes), NEW n \in Nat,
         NEW m \in Nat, n <= m, NEW c \in Values, NEW G, NEW H, G \subseteq H,
         InOrder(t, s, A, q, n, c, G), Carried(A, B, s)
  PROVE  InOrder(t, s, B, q, m, c, H)
<1>0. c.n \in Nat
  BY DEF Values
<1>1. UpTo(t, q, m) /\ Ordered(q)
  BY DeferredTypes DEF InOrder, UpTo
<1>2. ASSUME NEW b \in Coming(B, s)
      PROVE  b.write.val.by = t /\ b.write.val.n <= m /\ Below(b.write.val.n, q)
  <2>1. PICK a \in Coming(A, s) : b.write.val = a.write.val
    BY DEF Carried
  <2>2. a.write.val.by = t /\ a.write.val.n <= n /\ Below(a.write.val.n, q)
    BY DEF InOrder
  <2> QED BY <2>1, <2>2, ComingTypes
<1>3. c.by = t => c.n <= m
  BY <1>0 DEF InOrder
<1>4. c.by = t /\ t \notin H => Below(c.n, q) /\ \A b \in Coming(B, s) : c.n < b.write.val.n
  BY DEF InOrder, Carried
<1> QED BY <1>1, <1>2, <1>3, <1>4 DEF InOrder

\* A write is deferred last, as the next operation of the thread.
LEMMA OrderAppend ==
  ASSUME NEW t, NEW s, NEW A \in SUBSET Accesses, NEW B, NEW q \in Seq(Writes), NEW n \in Nat,
         NEW c \in Values, NEW G, NEW w \in Writes, w.mode = "notify" \/ w.val = Value(t, n + 1),
         InOrder(t, s, A, q, n, c, G), Carried(A, B, s)
  PROVE  InOrder(t, s, B, Append(q, w), n + 1, c, G)
<1> DEFINE r == Append(q, w)
<1>0. c.n \in Nat
  BY DEF Values
<1>1. UpTo(t, q, n) /\ Ordered(q)
  BY DEF InOrder
<1>2. /\ UpTo(t, r, n + 1) /\ Ordered(r)
      /\ \A m \in Nat : m <= n /\ Below(m, q) => Below(m, r)
  BY <1>1, AppendOrder
<1> HIDE DEF r
<1>3. ASSUME NEW b \in Coming(B, s)
      PROVE  b.write.val.by = t /\ b.write.val.n <= n + 1 /\ Below(b.write.val.n, r)
  <2>1. PICK a \in Coming(A, s) : b.write.val = a.write.val
    BY DEF Carried
  <2>2. a.write.val.by = t /\ a.write.val.n <= n /\ Below(a.write.val.n, q)
    BY DEF InOrder
  <2> QED BY <1>2, <2>1, <2>2, ComingTypes
<1>4. c.by = t => c.n <= n /\ c.n <= n + 1
  BY <1>0 DEF InOrder
<1>5. c.by = t /\ t \notin G => Below(c.n, r) /\ \A b \in Coming(B, s) : c.n < b.write.val.n
  BY <1>0, <1>2, <1>4 DEF InOrder, Carried
<1> QED BY <1>2, <1>3, <1>4, <1>5 DEF InOrder, r

\* The deferred writes are dropped.
LEMMA OrderDrop ==
  ASSUME NEW t, NEW s, NEW A \in SUBSET Accesses, NEW B, NEW q \in Seq(Writes), NEW n \in Nat,
         NEW c \in Values, NEW G, InOrder(t, s, A, q, n, c, G), Carried(A, B, s)
  PROVE  InOrder(t, s, B, <<>>, n, c, G)
<1>1. DeferredSets(<<>>) = {}
  BY DEF DeferredSets
<1> QED BY <1>1 DEF InOrder, Carried, UpTo, Ordered, Below

\* The first deferred write is taken off, to be committed unless it only notifies.
LEMMA OrderTail ==
  ASSUME NEW t, NEW s, NEW A \in SUBSET Accesses, NEW B, NEW q \in Seq(Writes), q # <<>>,
         NEW n \in Nat, NEW c \in Values, NEW G, InOrder(t, s, A, q, n, c, G),
         \A b \in Coming(B, s) : Head(q).mode # "notify" /\ b.write.val = Head(q).val
  PROVE  InOrder(t, s, B, Tail(q), n, c, G)
<1>0. c.n \in Nat
  BY DEF Values
<1>1. UpTo(t, q, n) /\ Ordered(q)
  BY DEF InOrder
<1>2. /\ UpTo(t, Tail(q), n) /\ Ordered(Tail(q))
      /\ \A m \in Nat : Below(m, q) => Below(m, Tail(q))
      /\ Head(q).mode # "notify" =>
           /\ Head(q).val.by = t /\ Head(q).val.n <= n /\ Below(Head(q).val.n, Tail(q))
           /\ \A m \in Nat : Below(m, q) => m < Head(q).val.n
  BY <1>1, TailOrder
<1> QED BY <1>0, <1>2 DEF InOrder

\* The write of a is deferred first.
LEMMA OrderFront ==
  ASSUME NEW t, NEW s, NEW A \in SUBSET Accesses, NEW B, NEW q \in Seq(Writes),
         NEW n \in Nat, NEW c \in Values, NEW G, InOrder(t, s, A, q, n, c, G),
         NEW a \in Coming(A, s), NEW w \in Writes, w.val = a.write.val, Coming(B, s) = {}
  PROVE  InOrder(t, s, B, DeferFirst(w, q), n, c, G)
<1>0. c.n \in Nat
  BY DEF Values
<1>1. /\ UpTo(t, q, n) /\ Ordered(q)
      /\ w.val.by = t /\ w.val.n <= n /\ Below(w.val.n, q)
  BY DEF InOrder
<1>2. /\ UpTo(t, DeferFirst(w, q), n) /\ Ordered(DeferFirst(w, q))
      /\ \A m \in Nat : m < w.val.n /\ Below(m, q) => Below(m, DeferFirst(w, q))
  BY <1>1, FrontOrder
<1>3. c.by = t /\ t \notin G => c.n < w.val.n /\ Below(c.n, q)
  BY DEF InOrder
<1> QED BY <1>0, <1>2, <1>3 DEF InOrder

\* A write begins, as the next operation, when nothing is deferred.
LEMMA OrderBegin ==
  ASSUME NEW t, NEW s, NEW A \in SUBSET Accesses, NEW b, NEW q \in Seq(Writes),
         NEW n \in Nat, NEW c \in Values, NEW G, InOrder(t, s, A, q, n, c, G),
         b.sig = s => q = <<>>, b.write.val = Value(t, n + 1)
  PROVE  InOrder(t, s, A \cup {b}, q, n + 1, c, G)
<1>0. c.n \in Nat /\ b.write.val.by = t /\ b.write.val.n = n + 1
  BY DEF Values, Value
<1>1. UpTo(t, q, n + 1) /\ Ordered(q)
  BY DeferredTypes DEF InOrder, UpTo
<1>2. ASSUME NEW a \in Coming(A \cup {b}, s)
      PROVE  /\ a.write.val.by = t /\ a.write.val.n <= n + 1 /\ Below(a.write.val.n, q)
             /\ c.by = t /\ t \notin G => c.n < a.write.val.n
  <2>1. CASE a \in Coming(A, s)
    <3>1. a.write.val.by = t /\ a.write.val.n <= n /\ Below(a.write.val.n, q)
      BY <2>1 DEF InOrder
    <3>2. c.by = t /\ t \notin G => c.n < a.write.val.n
      BY <2>1 DEF InOrder
    <3> QED BY <2>1, <3>1, <3>2, ComingTypes
  <2>2. CASE a = b /\ b.sig = s
    <3>1. c.by = t => c.n <= n
      BY DEF InOrder
    <3>2. Below(a.write.val.n, q)
      BY <2>2 DEF Below, DeferredSets
    <3> QED BY <1>0, <2>2, <3>1, <3>2
  <2> QED BY <2>1, <2>2 DEF Coming
<1>3. c.by = t => c.n <= n + 1
  BY <1>0 DEF InOrder
<1>4. c.by = t /\ t \notin G => Below(c.n, q)
  BY DEF InOrder
<1> QED BY <1>1, <1>2, <1>3, <1>4 DEF InOrder

\* The write of a is committed, with no other one to come.
LEMMA OrderCommit ==
  ASSUME NEW t, NEW s, NEW A \in SUBSET Accesses, NEW B, NEW q \in Seq(Writes),
         NEW n \in Nat, NEW c \in Values, NEW G, InOrder(t, s, A, q, n, c, G),
         NEW a \in Coming(A, s), Coming(B, s) = {}
  PROVE  InOrder(t, s, B, q, n, a.write.val, G)
BY DEF InOrder

\* Another thread commits, or a thread that is gone.
LEMMA OrderOther ==
  ASSUME NEW t, NEW s, NEW A \in SUBSET Accesses, NEW B, NEW q \in Seq(Writes),
         NEW n \in Nat, NEW c \in Values, NEW G, InOrder(t, s, A, q, n, c, G), Carried(A, B, s),
         NEW d \in Values, d.by # t \/ (t \in G /\ d.n <= n)
  PROVE  InOrder(t, s, B, q, n, d, G)
<1>1. InOrder(t, s, B, q, n, c, G)
  BY OrderKeep
<1> QED BY <1>1 DEF InOrder

\* The new access b goes on with a write of A, or makes none.
Follows(A, b) ==
  /\ ToCome(b) => \E a \in A : a.sig = b.sig /\ ToCome(a) /\ b.write.val = a.write.val
  /\ b.kind = "bare" => \E a \in A : a.kind = "bare" /\ b.write.val = a.write.val
Follow(A, B) == \A b \in B : b \in A \/ Follows(A, b)

LEMMA FollowCarried ==
  ASSUME NEW A, NEW B, Follow(A, B), NEW s
  PROVE  Carried(A, B, s)
BY DEF Follow, Follows, Carried, Coming

LEMMA FollowBare ==
  ASSUME NEW A \in SUBSET Accesses, NEW B, Follow(A, B), NEW t, NEW n \in Nat, NEW m \in Nat, n <= m,
         NEW G, NEW H, G \subseteq H, BareOK(t, A, n, G)
  PROVE  BareOK(t, B, m, H)
<1> SUFFICES ASSUME NEW b \in B, b.kind = "bare"
             PROVE  t \in H /\ b.write.val.by = t /\ b.write.val.n <= m
  BY DEF BareOK
<1>1. PICK a \in A : a.kind = "bare" /\ b.write.val = a.write.val
  BY DEF Follow, Follows
<1>2. a.write.val.n \in Nat
  BY DEF Accesses, Writes, Values
<1> QED BY <1>1, <1>2 DEF BareOK

\* A step of t that changes only what t does with the signal s0.
LEMMA OrdersOne ==
  ASSUME TypeInv, TypeInv', OrdersInv, BareInv, NEW t \in Threads, NEW s0 \in Signals,
         \A u \in Threads \ {t} :
           acc'[u] = acc[u] /\ pending'[u] = pending[u] /\ ops'[u] = ops[u],
         ops[t] <= ops'[t], gone \subseteq gone',
         \A s \in Signals \ {s0} :
           /\ Carried(acc[t], acc'[t], s)
           /\ pending'[t][s] = pending[t][s] /\ committed'[s] = committed[s],
         committed'[s0] = committed[s0] \/ committed'[s0].by = t,
         InOrder(t, s0, acc'[t], pending'[t][s0], ops'[t], committed'[s0], gone'),
         BareOK(t, acc'[t], ops'[t], gone')
  PROVE  OrdersInv' /\ BareInv'
<1>0. /\ \A u \in Threads : acc[u] \in SUBSET Accesses /\ ops[u] \in Nat /\ ops'[u] \in Nat
      /\ \A u \in Threads, s \in Signals : pending[u][s] \in Seq(Writes)
      /\ \A s \in Signals : committed[s] \in Values /\ committed'[s] \in Values
  BY DEF TypeInv, TypeOK
<1>1. ASSUME NEW u \in Threads \ {t}, NEW s \in Signals
      PROVE  InOrder(u, s, acc'[u], pending'[u][s], ops'[u], committed'[s], gone')
  <2> DEFINE A == acc[u]
             q == pending[u][s]
             n == ops[u]
             c == committed[s]
             d == committed'[s]
  <2>1. /\ A \in SUBSET Accesses /\ q \in Seq(Writes) /\ n \in Nat /\ c \in Values /\ d \in Values
        /\ acc'[u] = A /\ pending'[u][s] = q /\ ops'[u] = n /\ n <= n
    BY <1>0
  <2>2. InOrder(u, s, A, q, n, c, gone)
    BY DEF OrdersInv
  <2>3. d = c \/ d.by # u
    BY <1>1
  <2> HIDE DEF A, q, n, c, d
  <2>4. Carried(A, A, s)
    BY DEF Carried
  <2>5. InOrder(u, s, A, q, n, c, gone')
    BY <2>1, <2>2, <2>4, OrderKeep
  <2>6. InOrder(u, s, A, q, n, d, gone')
    BY <2>1, <2>3, <2>4, <2>5, OrderOther
  <2> QED BY <2>1, <2>6 DEF d
<1>2. ASSUME NEW s \in Signals
      PROVE  InOrder(t, s, acc'[t], pending'[t][s], ops'[t], committed'[s], gone')
  <2>1. CASE s = s0
    BY <2>1
  <2>2. CASE s # s0
    <3>1. InOrder(t, s, acc[t], pending[t][s], ops[t], committed[s], gone)
      BY DEF OrdersInv
    <3>2. InOrder(t, s, acc'[t], pending[t][s], ops'[t], committed[s], gone')
      BY <1>0, <2>2, <3>1, OrderKeep
    <3> QED BY <2>2, <3>2
  <2> QED BY <2>1, <2>2
<1>3. OrdersInv'
  BY <1>1, <1>2 DEF OrdersInv
<1>4. BareInv'
  <2> SUFFICES ASSUME NEW u \in Threads PROVE BareOK(u, acc'[u], ops'[u], gone')
    BY DEF BareInv
  <2>1. CASE u = t
    BY <2>1
  <2>2. CASE u # t
    BY <2>2 DEF BareInv, BareOK
  <2> QED BY <2>1, <2>2
<1> QED BY <1>3, <1>4

\* With a write past take_turn, nothing else of its thread is to be committed to the signal.
LEMMA OnlyComing ==
  ASSUME OrderInv, NEW t \in Threads, NEW a \in acc[t], Writing(a), NEW b \in acc[t], b # a
  PROVE  ~(b.sig = a.sig /\ ToCome(b))
<1> SUFFICES ASSUME b.sig = a.sig, ToCome(b) PROVE FALSE
  OBVIOUS
<1>1. CASE b.phase = "turn"
  <2>1. NoUse(acc[t], b.sig)
    BY <1>1 DEF OrderInv, StackInv, BlockedOK
  <2> QED BY <2>1 DEF NoUse, Recorded
<1>2. CASE b.phase # "turn"
  <2>1. Writing(b)
    BY <1>2 DEF ToCome, Writing
  <2> QED BY <2>1 DEF OrderInv, WriteInv, TurnInv, OneWriting
<1> QED BY <1>1, <1>2

\* User code that does not use a signal has deferred nothing to it.
LEMMA NothingDeferred ==
  ASSUME OrderInv, PendingHasFlusher, NEW t \in Threads, NEW s \in Signals, UserCode(t),
         ~InUse(t, s)
  PROVE  pending[t][s] = <<>>
<1> SUFFICES ASSUME pending[t][s] # <<>> PROVE FALSE
  OBVIOUS
<1>1. PICK a \in acc[t] : a.sig = s /\ (Recorded(a) \/ a.kind = "flush")
  BY DEF PendingHasFlusher
<1>2. ~Recorded(a)
  BY <1>1 DEF InUse, Uses
<1>3. a.phase = "turn"
  BY <1>1, <1>2 DEF Recorded, Writing, WritingKinds
<1>4. Ready(acc[t])
  BY UserReady DEF OrderInv, StackInv
<1>5. a.lvl # 0 /\ a.lvl \in Nat
  BY <1>3, <1>4 DEF Ready, StackOK
<1>6. a \in Calls(acc[t])
  BY <1>5 DEF Calls
<1> QED BY <1>3, <1>4, <1>6 DEF Ready, UserPhases

SeqInv == OrderInv /\ PendingHasFlusher /\ OrdersInv /\ BareInv

OpsStep(t) == ops' = ops \/ ops' = [ops EXCEPT ![t] = @ + 1]

\* The state of the thread that takes a step.
LEMMA SeqTypes ==
  ASSUME SeqInv, NEW t \in Threads, NEW s \in Signals
  PROVE  /\ TypeInv /\ acc[t] \in SUBSET Accesses /\ ops[t] \in Nat
         /\ pending[t][s] \in Seq(Writes) /\ committed[s] \in Values
         /\ InOrder(t, s, acc[t], pending[t][s], ops[t], committed[s], gone)
         /\ BareOK(t, acc[t], ops[t], gone)
         /\ OpsStep(t) => /\ ops'[t] \in {ops[t], ops[t] + 1}
                          /\ \A u \in Threads \ {t} : ops'[u] = ops[u]
BY DEF SeqInv, OrderInv, WriteInv, TypeInv, TypeOK, OrdersInv, BareInv, OpsStep

\* The accesses of t and its deferred writes to s0 change.
LEMMA OrdersDeferred ==
  ASSUME SeqInv, TypeInv', NEW t \in Threads, NEW s0 \in Signals, NEW B, NEW q,
         acc' = [acc EXCEPT ![t] = B],
         pending' = [pending EXCEPT ![t][s0] = q], OpsStep(t), UNCHANGED <<committed, gone>>,
         \A s \in Signals \ {s0} : Carried(acc[t], B, s),
         BareOK(t, B, ops'[t], gone),
         InOrder(t, s0, B, q, ops'[t], committed[s0], gone)
  PROVE  OrdersInv' /\ BareInv'
<1>1. /\ TypeInv /\ OrdersInv /\ BareInv
      /\ \A u \in Threads \ {t} : ops'[u] = ops[u]
      /\ ops[t] <= ops'[t]
  BY SeqTypes DEF SeqInv
<1>2. /\ acc'[t] = B
      /\ \A u \in Threads \ {t} : acc'[u] = acc[u] /\ pending'[u] = pending[u]
      /\ pending'[t][s0] = q
      /\ \A s \in Signals \ {s0} : pending'[t][s] = pending[t][s]
  BY <1>1 DEF TypeInv, TypeOK
<1> QED BY <1>1, <1>2, OrdersOne

\* Only the accesses of t change.
LEMMA OrdersQuiet ==
  ASSUME SeqInv, TypeInv', NEW t \in Threads, NEW s0 \in Signals, NEW B,
         acc' = [acc EXCEPT ![t] = B], Follow(acc[t], B),
         pending' = pending \/ pending' = [pending EXCEPT ![t][s0] = pending[t][s0]],
         OpsStep(t), UNCHANGED <<committed, gone>>
  PROVE  OrdersInv' /\ BareInv'
<1> DEFINE q == pending[t][s0]
<1>1. /\ TypeInv /\ acc[t] \in SUBSET Accesses /\ ops[t] \in Nat /\ q \in Seq(Writes)
      /\ committed[s0] \in Values /\ InOrder(t, s0, acc[t], q, ops[t], committed[s0], gone)
      /\ BareOK(t, acc[t], ops[t], gone) /\ ops'[t] \in {ops[t], ops[t] + 1}
      /\ ops[t] <= ops'[t] /\ ops'[t] \in Nat
  BY SeqTypes
<1>2. \A s : Carried(acc[t], B, s)
  BY FollowCarried
<1>3. BareOK(t, B, ops'[t], gone)
  BY <1>1, FollowBare
<1>4. InOrder(t, s0, B, q, ops'[t], committed[s0], gone)
  BY <1>1, <1>2, OrderKeep
<1>5. pending' = [pending EXCEPT ![t][s0] = q]
  BY <1>1 DEF TypeInv, TypeOK
<1> QED BY <1>2, <1>3, <1>4, <1>5, OrdersDeferred

\* A write is deferred last.
LEMMA OrdersAppend ==
  ASSUME SeqInv, TypeInv', NEW t \in Threads, NEW s0 \in Signals, NEW B,
         acc' = [acc EXCEPT ![t] = B], Follow(acc[t], B),
         NEW w \in Writes, w.mode = "notify" \/ w.val = Value(t, ops[t] + 1),
         pending' = [pending EXCEPT ![t][s0] = Append(pending[t][s0], w)],
         ops' = [ops EXCEPT ![t] = @ + 1], UNCHANGED <<committed, gone>>
  PROVE  OrdersInv' /\ BareInv'
<1> DEFINE q == pending[t][s0]
<1>1. /\ TypeInv /\ acc[t] \in SUBSET Accesses /\ ops[t] \in Nat /\ q \in Seq(Writes)
      /\ committed[s0] \in Values /\ InOrder(t, s0, acc[t], q, ops[t], committed[s0], gone)
      /\ BareOK(t, acc[t], ops[t], gone)
  BY SeqTypes
<1>2. ops'[t] = ops[t] + 1 /\ ops[t] <= ops'[t] /\ ops'[t] \in Nat
  BY <1>1 DEF TypeInv, TypeOK
<1>3. \A s : Carried(acc[t], B, s)
  BY FollowCarried
<1>4. BareOK(t, B, ops'[t], gone)
  BY <1>1, <1>2, FollowBare
<1>5. InOrder(t, s0, B, Append(q, w), ops'[t], committed[s0], gone)
  BY <1>1, <1>2, <1>3, OrderAppend
<1> QED BY <1>3, <1>4, <1>5, OrdersDeferred DEF OpsStep

\* The accesses that end or that notify leave nothing to commit.
LEMMA FollowSmall ==
  ASSUME NEW A, NEW B, B \subseteq A
  PROVE  Follow(A, B)
BY DEF Follow

LEMMA FollowAdd ==
  ASSUME NEW A, NEW b, ~ToCome(b), b.kind # "bare"
  PROVE  Follow(A, A \cup {b})
BY DEF Follow, Follows

LEMMA FollowReplace ==
  ASSUME NEW A, NEW a \in A, NEW b, b.sig = a.sig, b.kind = a.kind, b.write.val = a.write.val,
         ToCome(b) => ToCome(a)
  PROVE  Follow(A, (A \ {a}) \cup {b})
BY DEF Follow, Follows

LEMMA FollowExit ==
  ASSUME TypeInv, NEW t \in Threads, NEW a \in acc[t], NEW q, Exit(t, a, q)
  PROVE  \E B : /\ acc' = [acc EXCEPT ![t] = B] /\ Follow(acc[t], B)
                /\ \A b \in B : b \in acc[t] \ {a} \/ ~ToCome(b)
<1> DEFINE D == IF Outermost(t, a) /\ q # <<>> THEN {Flush(t, a)} ELSE {}
           B == (acc[t] \ {a}) \cup D
<1>1. acc' = [acc EXCEPT ![t] = B]
  BY DEF Exit, TypeInv, TypeOK
<1>2. \A b \in D : ~ToCome(b) /\ b.kind # "bare"
  BY DEF Flush, ToCome
<1> HIDE DEF D
<1>3. Follow(acc[t], B) /\ \A b \in B : b \in acc[t] \ {a} \/ ~ToCome(b)
  BY <1>2 DEF Follow, Follows
<1> HIDE DEF B
<1> QED BY <1>1, <1>3

\* What a thread starts comes after all it has made.
LEMMA OrdersStart ==
  ASSUME SeqInv, TypeInv', NEW t \in Threads, UserStart(t)
  PROVE  OrdersInv' /\ BareInv'
<1>0. TypeInv /\ acc \in [Threads -> SUBSET Accesses] /\ OrderInv /\ PendingHasFlusher
  BY DEF SeqInv, OrderInv, WriteInv, TypeInv, TypeOK
<1>1. PICK s \in Signals :
        \/ Read(t, s) \/ ReadWaits(t, s) \/ Refused(t, s)
        \/ \E notify \in BOOLEAN :
             \/ \E kind \in {"set", "part", "update", "guard"} : BeginWrite(t, s, kind, notify)
             \/ DeferSet(t, s, notify)
        \/ PartRefused(t, s)
        \/ \E kind \in {"nested", "nguard"} : BeginNested(t, s, kind)
        \/ Notify(t, s)
        \/ BeginBare(t, s)
  BY DEF UserStart
<1>2. /\ ops' = [ops EXCEPT ![t] = @ + 1] /\ OpsStep(t) /\ UserCode(t)
      /\ UNCHANGED <<committed, gone>>
      /\ ops[t] \in Nat /\ ops'[t] = ops[t] + 1 /\ ops[t] + 1 \in Nat
  <2>1. Start(t)
    BY <1>1 DEF Read, ReadWaits, Refused, BeginWrite, DeferSet, PartRefused, BeginNested, Notify,
       BeginBare
  <2>2. UNCHANGED <<committed, gone>>
    BY <1>0, StartRest
  <2> QED BY <1>0, <2>1, <2>2 DEF Start, OpsStep, TypeInv, TypeOK
<1>3. ASSUME UNCHANGED <<acc, pending>> PROVE OrdersInv' /\ BareInv'
  <2>1. acc' = [acc EXCEPT ![t] = acc[t]] /\ Follow(acc[t], acc[t])
    BY <1>0, <1>3, FollowSmall
  <2> QED BY <1>2, <1>3, <2>1, OrdersQuiet
<1>4. ASSUME NEW b, acc' = [acc EXCEPT ![t] = @ \cup {b}], ~ToCome(b), b.kind # "bare",
             UNCHANGED pending
      PROVE  OrdersInv' /\ BareInv'
  <2>1. acc' = [acc EXCEPT ![t] = acc[t] \cup {b}] /\ Follow(acc[t], acc[t] \cup {b})
    BY <1>0, <1>4, FollowAdd
  <2> QED BY <1>2, <1>4, <2>1, OrdersQuiet
<1>5. ASSUME NEW kind, NEW phase, NEW w, Push(t, Access(t, s, kind, phase, w)),
             kind \notin WritingKinds, kind # "bare", UNCHANGED pending
      PROVE  OrdersInv' /\ BareInv'
  <2> DEFINE b == [Access(t, s, kind, phase, w) EXCEPT !.lvl = TopLevel(acc[t]) + 1]
  <2>1. b.kind = kind
    BY DEF Access
  <2>2. acc' = [acc EXCEPT ![t] = @ \cup {b}]
    BY <1>5 DEF Push
  <2> HIDE DEF b
  <2>3. ~ToCome(b)
    BY <1>5, <2>1 DEF ToCome
  <2> QED BY <1>4, <1>5, <2>1, <2>2, <2>3
<1>6. ASSUME NEW w \in Writes, w.mode = "notify" \/ w.val = Value(t, ops[t] + 1),
             pending' = [pending EXCEPT ![t][s] = Append(@, w)], UNCHANGED acc
      PROVE  OrdersInv' /\ BareInv'
  <2>1. acc' = [acc EXCEPT ![t] = acc[t]] /\ Follow(acc[t], acc[t])
    BY <1>0, <1>6, FollowSmall
  <2>2. pending' = [pending EXCEPT ![t][s] = Append(pending[t][s], w)]
    BY <1>0, <1>6 DEF TypeInv, TypeOK
  <2> QED BY <1>2, <1>6, <2>1, <2>2, OrdersAppend
<1>7. CASE Read(t, s)
  <2> DEFINE b == Access(t, s, "read", "guard", NoWrite)
  <2>1. b.kind = "read"
    BY AccessFields
  <2>2. acc' = [acc EXCEPT ![t] = @ \cup {b}] /\ UNCHANGED pending
    BY <1>7 DEF Read
  <2> HIDE DEF b
  <2> QED BY <1>4, <2>1, <2>2 DEF ToCome, WritingKinds
<1>8. CASE ReadWaits(t, s)
  BY <1>5, <1>8 DEF ReadWaits, WritingKinds
<1>9. CASE Refused(t, s) \/ PartRefused(t, s)
  BY <1>3, <1>9 DEF Refused, PartRefused
<1>10. ASSUME NEW notify \in BOOLEAN, NEW kind \in {"set", "part", "update", "guard"},
              BeginWrite(t, s, kind, notify)
       PROVE  OrdersInv' /\ BareInv'
  <2> DEFINE w == [mode |-> IF kind \in {"set", "part"} THEN "set" ELSE "update",
                   val |-> Value(t, ops[t] + 1), base |-> InitialValue,
                   own |-> TRUE, notify |-> notify]
             b == [Access(t, s, kind, "turn", w) EXCEPT !.lvl = TopLevel(acc[t]) + 1]
             B == acc[t] \cup {b}
  <2>1. w.val = Value(t, ops[t] + 1)
    OBVIOUS
  <2>2. ~InUse(t, s) /\ UNCHANGED pending /\ acc' = [acc EXCEPT ![t] = B]
    BY <1>0, <1>10 DEF BeginWrite, Push
  <2> HIDE DEF w
  <2>3. b.sig = s /\ b.kind = kind /\ b.write = w
    BY DEF Access
  <2> HIDE DEF b
  <2>4. pending[t][s] = <<>>
    BY <1>0, <1>2, <2>2, NothingDeferred
  <2>5. InOrder(t, s, B, pending[t][s], ops'[t], committed[s], gone)
    <3>1. /\ acc[t] \in SUBSET Accesses /\ pending[t][s] \in Seq(Writes) /\ committed[s] \in Values
          /\ InOrder(t, s, acc[t], pending[t][s], ops[t], committed[s], gone)
      BY SeqTypes
    <3>2. (b.sig = s => pending[t][s] = <<>>) /\ b.write.val = Value(t, ops[t] + 1)
      BY <2>1, <2>3, <2>4
    <3>3. InOrder(t, s, acc[t] \cup {b}, pending[t][s], ops[t] + 1, committed[s], gone)
      BY <1>2, <3>1, <3>2, OrderBegin
    <3> QED BY <1>2, <3>3
  <2>6. \A r \in Signals \ {s} : Carried(acc[t], B, r)
    BY <2>3 DEF Carried, Coming
  <2>7. BareOK(t, B, ops'[t], gone)
    <3>1. BareOK(t, acc[t], ops[t], gone) /\ Follow(acc[t], acc[t]) /\ ops[t] <= ops'[t]
      BY <1>2, SeqTypes, FollowSmall
    <3>2. BareOK(t, acc[t], ops'[t], gone)
      BY <1>0, <1>2, <3>1, FollowBare
    <3> QED BY <2>3, <3>2 DEF BareOK
  <2>8. pending' = [pending EXCEPT ![t][s] = pending[t][s]]
    BY <1>0, <2>2 DEF TypeInv, TypeOK
  <2> HIDE DEF B
  <2> QED BY <1>2, <2>2, <2>5, <2>6, <2>7, <2>8, OrdersDeferred
<1>11. ASSUME NEW notify \in BOOLEAN, DeferSet(t, s, notify) PROVE OrdersInv' /\ BareInv'
  <2> DEFINE w == [mode |-> "set", val |-> Value(t, ops[t] + 1),
                   base |-> InitialValue, own |-> FALSE, notify |-> notify]
  <2>1. w \in Writes /\ w.val = Value(t, ops[t] + 1)
    BY <1>2, WriteTypes DEF Writes
  <2>2. pending' = [pending EXCEPT ![t][s] = Append(@, w)] /\ UNCHANGED acc
    BY <1>11 DEF DeferSet
  <2> HIDE DEF w
  <2> QED BY <1>6, <2>1, <2>2
<1>12. ASSUME NEW kind \in {"nested", "nguard"}, BeginNested(t, s, kind)
       PROVE  OrdersInv' /\ BareInv'
  <2>0. UNCHANGED pending
    BY <1>12 DEF BeginNested
  <2>1. CASE kind = "nested"
    <3>1. PICK w : Push(t, Access(t, s, kind, "closure", w))
      BY <1>12, <2>1 DEF BeginNested
    <3> QED BY <1>5, <2>0, <2>1, <3>1 DEF WritingKinds
  <2>2. CASE kind = "nguard"
    <3>1. PICK w : acc' = [acc EXCEPT ![t] = @ \cup {Access(t, s, kind, "guard", w)}]
      BY <1>12, <2>2 DEF BeginNested
    <3> DEFINE b == Access(t, s, kind, "guard", w)
    <3>2. b.kind = "nguard"
      BY <2>2, AccessFields
    <3>3. acc' = [acc EXCEPT ![t] = @ \cup {b}]
      BY <3>1
    <3> HIDE DEF b
    <3> QED BY <1>4, <2>0, <3>2, <3>3 DEF ToCome, WritingKinds
  <2> QED BY <2>1, <2>2
<1>13. CASE Notify(t, s)
  <2>1. CASE InUse(t, s)
    <3>1. pending' = [pending EXCEPT ![t][s] = Append(@, NoWrite)] /\ UNCHANGED acc
      BY <1>13, <2>1 DEF Notify
    <3>2. NoWrite \in Writes /\ NoWrite.mode = "notify"
      BY WriteTypes DEF NoWrite
    <3> QED BY <1>6, <3>1, <3>2
  <2>2. CASE ~InUse(t, s)
    BY <1>5, <1>13, <2>2 DEF Notify, WritingKinds
  <2> QED BY <2>1, <2>2
<1>14. CASE BeginBare(t, s)
  <2> DEFINE w == [mode |-> "update", val |-> Value(t, ops[t] + 1),
                   base |-> committed[s], own |-> FALSE, notify |-> TRUE]
             b == [Access(t, s, "bare", "closure", w) EXCEPT !.lvl = TopLevel(acc[t]) + 1]
             B == acc[t] \cup {b}
  <2>1. w.val = Value(t, ops[t] + 1)
    OBVIOUS
  <2>2. t \in gone /\ UNCHANGED pending /\ acc' = [acc EXCEPT ![t] = B]
    BY <1>0, <1>14 DEF BeginBare, Push
  <2> HIDE DEF w
  <2>3. b.sig = s /\ b.kind = "bare" /\ b.write = w
    BY DEF Access
  <2> HIDE DEF b
  <2>4. \A r \in Signals : Carried(acc[t], B, r)
    BY <2>3 DEF Carried, Coming, ToCome, WritingKinds
  <2>5. InOrder(t, s, B, pending[t][s], ops'[t], committed[s], gone)
    <3>1. /\ acc[t] \in SUBSET Accesses /\ pending[t][s] \in Seq(Writes) /\ committed[s] \in Values
          /\ InOrder(t, s, acc[t], pending[t][s], ops[t], committed[s], gone)
      BY SeqTypes
    <3>2. ops[t] <= ops'[t] /\ ops'[t] \in Nat /\ ops[t] \in Nat /\ Carried(acc[t], B, s)
      BY <1>2, <2>4
    <3> HIDE DEF B
    <3> QED BY <3>1, <3>2, OrderKeep
  <2>6. BareOK(t, B, ops'[t], gone)
    <3>1. BareOK(t, acc[t], ops[t], gone) /\ Follow(acc[t], acc[t]) /\ ops[t] <= ops'[t]
      BY <1>2, SeqTypes, FollowSmall
    <3>2. BareOK(t, acc[t], ops'[t], gone)
      BY <1>0, <1>2, <3>1, FollowBare
    <3>3. b.write.val.by = t /\ b.write.val.n <= ops'[t]
      BY <1>2, <2>1, <2>3 DEF Value
    <3> QED BY <2>2, <3>2, <3>3 DEF BareOK
  <2>7. pending' = [pending EXCEPT ![t][s] = pending[t][s]]
    BY <1>0, <2>2 DEF TypeInv, TypeOK
  <2> HIDE DEF B
  <2> QED BY <1>2, <2>2, <2>4, <2>5, <2>6, <2>7, OrdersDeferred
<1> QED BY <1>1, <1>7, <1>8, <1>9, <1>10, <1>11, <1>12, <1>13, <1>14

\* A value is swapped in: it is the next one of its thread, and nothing else is to come.
LEMMA OrdersSwap ==
  ASSUME SeqInv, TypeInv', NEW t \in Threads, NEW a \in acc[t], SwapIn(t, a)
  PROVE  OrdersInv' /\ BareInv' /\ a \in Coming(acc[t], a.sig) /\ a.write.val.by = t
<1>0. TypeInv /\ OrderInv /\ acc \in [Threads -> SUBSET Accesses] /\ OrdersInv /\ BareInv
  BY DEF SeqInv, OrderInv, WriteInv, TypeInv, TypeOK
<1>1. a \in Accesses /\ a.sig \in Signals /\ KindOK(a) /\ a.phase = "swap"
  BY <1>0, PendingType DEF OrderInv, WriteInv, KindInv, SwapIn
<1>2. Writing(a) /\ a \in Coming(acc[t], a.sig)
  BY <1>1 DEF KindOK, Writing, Coming, ToCome
<1>3. PICK B : /\ acc' = [acc EXCEPT ![t] = B] /\ Follow(acc[t], B)
               /\ \A b \in B : b \in acc[t] \ {a} \/ ~ToCome(b)
  <2>1. ASSUME NEW phase \in {"mark", "drain"}, Replace(t, a, [a EXCEPT !.phase = phase])
        PROVE  \E B : /\ acc' = [acc EXCEPT ![t] = B] /\ Follow(acc[t], B)
                      /\ \A b \in B : b \in acc[t] \ {a} \/ ~ToCome(b)
    <3> DEFINE b == [a EXCEPT !.phase = phase]
               B == (acc[t] \ {a}) \cup {b}
    <3>1. b.sig = a.sig /\ b.kind = a.kind /\ b.write = a.write /\ b.phase = phase
      BY <1>1 DEF Accesses
    <3>2. acc' = [acc EXCEPT ![t] = B]
      BY <1>0, <2>1 DEF Replace
    <3> HIDE DEF b
    <3>3. ~ToCome(b)
      BY <3>1 DEF ToCome
    <3>4. Follow(acc[t], B) /\ \A c \in B : c \in acc[t] \ {a} \/ ~ToCome(c)
      BY <3>1, <3>3, FollowReplace
    <3> HIDE DEF B
    <3> QED BY <3>2, <3>4
  <2>2. \/ Replace(t, a, [a EXCEPT !.phase = "mark"])
        \/ Replace(t, a, [a EXCEPT !.phase = "drain"])
        \/ \E q : Exit(t, a, q)
    BY DEF SwapIn, EndWrite
  <2> QED BY <1>0, <2>1, <2>2, FollowExit
<1>4. /\ acc'[t] = B /\ \A u \in Threads \ {t} : acc'[u] = acc[u]
  BY <1>0, <1>3
<1>5. /\ committed' = [committed EXCEPT ![a.sig] = a.write.val] /\ UNCHANGED <<ops, gone>>
      /\ pending' = pending \/ pending' = [pending EXCEPT ![t][a.sig] = pending[t][a.sig]]
  BY DEF SwapIn, EndWrite, Exit
<1>6. pending' = pending
  BY <1>0, <1>1, <1>5 DEF TypeInv, TypeOK
<1>7. /\ committed'[a.sig] = a.write.val
      /\ \A s \in Signals \ {a.sig} : committed'[s] = committed[s]
  BY <1>0, <1>1, <1>5 DEF TypeInv, TypeOK
<1>8. Coming(B, a.sig) = {}
  BY <1>0, <1>2, <1>3, OnlyComing DEF Coming
<1>9. InOrder(t, a.sig, B, pending[t][a.sig], ops[t], a.write.val, gone)
  <2>1. /\ acc[t] \in SUBSET Accesses /\ pending[t][a.sig] \in Seq(Writes)
        /\ committed[a.sig] \in Values /\ ops[t] \in Nat
        /\ InOrder(t, a.sig, acc[t], pending[t][a.sig], ops[t], committed[a.sig], gone)
    BY <1>1, SeqTypes
  <2> QED BY <1>2, <1>8, <2>1, OrderCommit
<1>10. a.write.val.by = t
  BY <1>1, <1>2, SeqTypes DEF InOrder
<1>11. BareOK(t, B, ops[t], gone)
  <2>1. BareOK(t, acc[t], ops[t], gone) /\ acc[t] \in SUBSET Accesses /\ ops[t] \in Nat
    BY <1>1, SeqTypes
  <2>2. ops[t] <= ops[t]
    BY <2>1
  <2> QED BY <1>3, <2>1, <2>2, FollowBare
<1>12. ops[t] <= ops'[t] /\ ops'[t] = ops[t]
  BY <1>0, <1>5 DEF TypeInv, TypeOK
<1>13. \A s \in Signals \ {a.sig} : Carried(acc[t], acc'[t], s)
  BY <1>3, <1>4, FollowCarried
<1>14. OrdersInv' /\ BareInv'
  BY <1>0, <1>1, <1>4, <1>5, <1>6, <1>7, <1>9, <1>10, <1>11, <1>12, <1>13, OrdersOne
<1> QED BY <1>2, <1>10, <1>14

\* A thread that is gone writes without the record.
LEMMA OrdersBare ==
  ASSUME SeqInv, TypeInv', NEW t \in Threads, NEW a \in acc[t], NEW notify \in BOOLEAN,
         SetUnrecorded(t, a, notify)
  PROVE  OrdersInv' /\ BareInv' /\ t \in gone /\ a.write.val.by = t
<1>0. TypeInv /\ acc \in [Threads -> SUBSET Accesses] /\ OrdersInv /\ BareInv
  BY DEF SeqInv, OrderInv, WriteInv, TypeInv, TypeOK
<1>1. a \in Accesses /\ a.sig \in Signals /\ a.kind = "bare" /\ a.write.val \in Values
  BY <1>0, PendingType DEF SetUnrecorded, Accesses, Writes
<1>2. t \in gone /\ a.write.val.by = t /\ a.write.val.n <= ops[t]
  BY <1>0, <1>1 DEF BareInv, BareOK
<1>3. PICK B : acc' = [acc EXCEPT ![t] = B] /\ Follow(acc[t], B)
  <2>1. CASE acc' = [acc EXCEPT ![t] = @ \ {a}]
    <3>1. acc' = [acc EXCEPT ![t] = acc[t] \ {a}] /\ Follow(acc[t], acc[t] \ {a})
      BY <1>0, <2>1, FollowSmall
    <3> QED BY <3>1
  <2>2. CASE Replace(t, a, [a EXCEPT !.phase = "mark"])
    <3> DEFINE b == [a EXCEPT !.phase = "mark"]
    <3>1. b.sig = a.sig /\ b.kind = a.kind /\ b.write = a.write /\ b.phase = "mark"
      BY <1>1 DEF Accesses
    <3>2. acc' = [acc EXCEPT ![t] = (acc[t] \ {a}) \cup {b}]
      BY <1>0, <2>2 DEF Replace
    <3> HIDE DEF b
    <3> QED BY <3>1, <3>2, FollowReplace DEF ToCome
  <2> QED BY <2>1, <2>2 DEF SetUnrecorded
<1>4. acc'[t] = B /\ \A u \in Threads \ {t} : acc'[u] = acc[u]
  BY <1>0, <1>3
<1>5. UNCHANGED <<pending, ops, gone>>
  BY DEF SetUnrecorded
<1>6. /\ committed'[a.sig] \in {a.write.val, committed[a.sig]}
      /\ \A s \in Signals \ {a.sig} : committed'[s] = committed[s]
  BY <1>0, <1>1 DEF SetUnrecorded, TypeInv, TypeOK
<1>7. /\ acc[t] \in SUBSET Accesses /\ pending[t][a.sig] \in Seq(Writes)
      /\ committed[a.sig] \in Values /\ ops[t] \in Nat /\ ops[t] <= ops[t]
      /\ InOrder(t, a.sig, acc[t], pending[t][a.sig], ops[t], committed[a.sig], gone)
      /\ BareOK(t, acc[t], ops[t], gone)
  BY <1>1, SeqTypes
<1>8. \A s : Carried(acc[t], B, s)
  BY <1>3, FollowCarried
<1>9. InOrder(t, a.sig, B, pending[t][a.sig], ops[t], committed'[a.sig], gone)
  <2>1. InOrder(t, a.sig, B, pending[t][a.sig], ops[t], committed[a.sig], gone)
    BY <1>7, <1>8, OrderKeep
  <2>2. InOrder(t, a.sig, B, pending[t][a.sig], ops[t], a.write.val, gone)
    BY <1>1, <1>2, <1>7, <1>8, OrderOther
  <2> QED BY <1>6, <2>1, <2>2
<1>10. BareOK(t, B, ops[t], gone)
  BY <1>3, <1>7, FollowBare
<1>11. OrdersInv' /\ BareInv'
  BY <1>0, <1>1, <1>2, <1>4, <1>5, <1>6, <1>7, <1>8, <1>9, <1>10, OrdersOne
<1> QED BY <1>2, <1>11

\* A write is committed or deferred, ahead of the writes deferred meanwhile.
LEMMA OrdersCommit ==
  ASSUME SeqInv, TypeInv', NEW t \in Threads, NEW a \in acc[t], NEW notify \in BOOLEAN,
         a.kind \in {"update", "guard"}, a.phase \in {"closure", "guard"},
         Commit(t, a, notify), UNCHANGED <<committed, ops, gone>>
  PROVE  OrdersInv' /\ BareInv'
<1> DEFINE l == IF a.lvl > 0 THEN a.lvl ELSE TopLevel(acc[t]) + 1
           w == [a.write EXCEPT !.notify = notify]
           b == [a EXCEPT !.phase = "swap", !.write.notify = notify, !.lvl = l]
<1>0. TypeInv /\ OrderInv /\ acc \in [Threads -> SUBSET Accesses] /\ OpsStep(t)
  BY DEF SeqInv, OrderInv, WriteInv, TypeInv, TypeOK, OpsStep
<1>1. a \in Accesses /\ a.sig \in Signals /\ a.write \in Writes
  BY <1>0, PendingType DEF Accesses
<1>2. b.sig = a.sig /\ b.kind = a.kind /\ b.write = w
  BY <1>1 DEF Accesses
<1>3. w \in Writes /\ w.val = a.write.val
  BY <1>1 DEF Writes
<1>4. Writing(a) /\ ToCome(a) /\ a \in Coming(acc[t], a.sig)
  BY <1>1 DEF Writing, WritingKinds, ToCome, Coming
<1>5. CASE Alone(t, a)
  <2>1. Replace(t, a, b) /\ UNCHANGED pending
    BY <1>5 DEF Commit
  <2> HIDE DEF b
  <2>2. acc' = [acc EXCEPT ![t] = (acc[t] \ {a}) \cup {b}]
    BY <1>0, <2>1 DEF Replace
  <2>3. Follow(acc[t], (acc[t] \ {a}) \cup {b})
    BY <1>2, <1>3, <1>4, FollowReplace
  <2> QED BY <1>0, <1>1, <2>1, <2>2, <2>3, OrdersQuiet
<1>6. CASE ~Alone(t, a)
  <2> DEFINE q == pending[t][a.sig]
  <2>1. Exit(t, a, DeferFirst(b.write, q))
    BY <1>6 DEF Commit
  <2> HIDE DEF b, w
  <2>2. PICK B : /\ acc' = [acc EXCEPT ![t] = B] /\ Follow(acc[t], B)
                 /\ \A c \in B : c \in acc[t] \ {a} \/ ~ToCome(c)
    BY <1>0, <2>1, FollowExit
  <2>3. Coming(B, a.sig) = {}
    BY <1>0, <1>4, <2>2, OnlyComing DEF Coming
  <2>4. /\ acc[t] \in SUBSET Accesses /\ q \in Seq(Writes)
        /\ committed[a.sig] \in Values /\ ops[t] \in Nat /\ ops[t] <= ops[t]
        /\ InOrder(t, a.sig, acc[t], q, ops[t], committed[a.sig], gone)
        /\ BareOK(t, acc[t], ops[t], gone)
    BY <1>1, SeqTypes
  <2>5. InOrder(t, a.sig, B, DeferFirst(w, q), ops[t], committed[a.sig], gone)
    BY <1>3, <1>4, <2>3, <2>4, OrderFront
  <2>6. BareOK(t, B, ops[t], gone)
    BY <2>2, <2>4, FollowBare
  <2>7. \A s : Carried(acc[t], B, s)
    BY <2>2, FollowCarried
  <2>8. pending' = [pending EXCEPT ![t][a.sig] = DeferFirst(w, q)] /\ ops'[t] = ops[t]
    BY <1>2, <2>1 DEF Exit
  <2> HIDE DEF q
  <2> QED BY <1>0, <1>1, <2>2, <2>5, <2>6, <2>7, <2>8, OrdersDeferred
<1> QED BY <1>5, <1>6

\* One turn of the drain.
LEMMA OrdersDrain ==
  ASSUME SeqInv, TypeInv', NEW t \in Threads, NEW a \in acc[t], Drain(t, a)
  PROVE  OrdersInv' /\ BareInv'
<1> DEFINE q == pending[t][a.sig]
<1>0. TypeInv /\ OrderInv /\ acc \in [Threads -> SUBSET Accesses] /\ OpsStep(t)
  BY DEF SeqInv, OrderInv, WriteInv, TypeInv, TypeOK, OpsStep, Drain
<1>1. /\ a \in Accesses /\ a.sig \in Signals /\ a.phase = "drain" /\ a.kind = "flush"
      /\ UNCHANGED <<committed, ops, gone>>
  BY <1>0, PendingType DEF OrderInv, WriteInv, KindInv, KindOK, Drain
<1>2. Writing(a)
  BY <1>1 DEF Writing, WritingKinds
<1>3. /\ acc[t] \in SUBSET Accesses /\ q \in Seq(Writes)
      /\ committed[a.sig] \in Values /\ ops[t] \in Nat /\ ops[t] <= ops[t]
      /\ InOrder(t, a.sig, acc[t], q, ops[t], committed[a.sig], gone)
      /\ BareOK(t, acc[t], ops[t], gone)
  BY <1>1, SeqTypes
<1>4. CASE Runaway(a) \/ ~Alone(t, a) \/ q = <<>>
  <2>1. Exit(t, a, q) \/ Exit(t, a, <<>>)
    BY <1>4 DEF Drain
  <2>2. PICK B : acc' = [acc EXCEPT ![t] = B] /\ Follow(acc[t], B)
    BY <1>0, <2>1, FollowExit
  <2>3. \A s : Carried(acc[t], B, s)
    BY <2>2, FollowCarried
  <2>4. BareOK(t, B, ops[t], gone)
    BY <1>3, <2>2, FollowBare
  <2>5. InOrder(t, a.sig, B, q, ops[t], committed[a.sig], gone)
    BY <1>3, <2>3, OrderKeep
  <2>6. InOrder(t, a.sig, B, <<>>, ops[t], committed[a.sig], gone)
    BY <1>3, <2>3, OrderDrop
  <2>7. PICK r \in {q, <<>>} : pending' = [pending EXCEPT ![t][a.sig] = r]
    BY <2>1 DEF Exit
  <2> HIDE DEF q
  <2> QED BY <1>0, <1>1, <2>2, <2>3, <2>4, <2>5, <2>6, <2>7, OrdersDeferred
<1>5. CASE ~(Runaway(a) \/ ~Alone(t, a) \/ q = <<>>)
  <2> DEFINE b == [a EXCEPT !.applied = @ + 1, !.write = Head(q),
                     !.phase = IF Head(q).mode = "notify" THEN "mark" ELSE "swap"]
             B == (acc[t] \ {a}) \cup {b}
  <2>1. Replace(t, a, b) /\ pending' = [pending EXCEPT ![t][a.sig] = Tail(q)] /\ q # <<>>
    BY <1>5 DEF Drain, PopFront
  <2>2. /\ b.sig = a.sig /\ b.kind = a.kind /\ b.write = Head(q)
        /\ b.phase = IF Head(q).mode = "notify" THEN "mark" ELSE "swap"
    BY <1>1 DEF Accesses
  <2> HIDE DEF b
  <2>3. acc' = [acc EXCEPT ![t] = B]
    BY <1>0, <2>1 DEF Replace
  <2>4. ToCome(b) => Head(q).mode # "notify"
    BY <2>2 DEF ToCome
  <2>5. \A c \in Coming(B, a.sig) : Head(q).mode # "notify" /\ c.write.val = Head(q).val
    <3> SUFFICES ASSUME NEW c \in Coming(B, a.sig)
                 PROVE  Head(q).mode # "notify" /\ c.write.val = Head(q).val
      OBVIOUS
    <3>1. c \in B /\ c.sig = a.sig /\ ToCome(c)
      BY DEF Coming
    <3>2. c = b
      BY <1>0, <1>2, <3>1, OnlyComing
    <3> QED BY <2>2, <2>4, <3>1, <3>2
  <2>6. InOrder(t, a.sig, B, Tail(q), ops[t], committed[a.sig], gone)
    <3> HIDE DEF q, B
    <3> QED BY <1>3, <2>1, <2>5, OrderTail
  <2>7. \A s \in Signals \ {a.sig} : Carried(acc[t], B, s)
    BY <2>2 DEF Carried, Coming
  <2>8. BareOK(t, B, ops[t], gone)
    BY <1>1, <1>3, <2>2 DEF BareOK
  <2> HIDE DEF q, B
  <2> QED BY <1>0, <1>1, <2>1, <2>3, <2>6, <2>7, <2>8, OrdersDeferred
<1> QED BY <1>4, <1>5

\* What ends or advances an access keeps the order.
LEMMA OrdersAdvance ==
  ASSUME SeqInv, TypeInv', NEW t \in Threads, Advance(t)
  PROVE  OrdersInv' /\ BareInv'
<1>0. TypeInv /\ OrderInv /\ acc \in [Threads -> SUBSET Accesses]
  BY DEF SeqInv, OrderInv, WriteInv, TypeInv, TypeOK
<1>1. PICK a \in acc[t] :
        \/ ReadGranted(t, a) \/ DropRead(t, a)
        \/ TakeTurn(t, a) \/ SwapIn(t, a) \/ Marked(t, a) \/ Drain(t, a)
        \/ \E notify \in BOOLEAN :
             \/ EndUpdate(t, a, notify) \/ DropWriteGuard(t, a, notify)
             \/ EndNested(t, a, notify) \/ SetUnrecorded(t, a, notify)
  BY DEF Advance
<1>2. a \in Accesses /\ a.sig \in Signals /\ KindOK(a) /\ PlaceOK(a) /\ a.write \in Writes
  BY <1>0, PendingType DEF OrderInv, WriteInv, KindInv, PlaceInv, Accesses
<1>3. ASSUME NEW b, Replace(t, a, b), b.sig = a.sig, b.kind = a.kind, b.write.val = a.write.val,
             ToCome(b) => ToCome(a), UNCHANGED <<committed, pending, ops, gone>>
      PROVE  OrdersInv' /\ BareInv'
  <2>1. acc' = [acc EXCEPT ![t] = (acc[t] \ {a}) \cup {b}]
    BY <1>0, <1>3 DEF Replace
  <2>2. Follow(acc[t], (acc[t] \ {a}) \cup {b})
    BY <1>3, FollowReplace
  <2> QED BY <1>2, <1>3, <2>1, <2>2, OrdersQuiet DEF OpsStep
<1>4. ASSUME Exit(t, a, pending[t][a.sig]), OpsStep(t), UNCHANGED <<committed, gone>>
      PROVE  OrdersInv' /\ BareInv'
  <2>1. PICK B : acc' = [acc EXCEPT ![t] = B] /\ Follow(acc[t], B)
    BY <1>0, <1>4, FollowExit
  <2>2. pending' = [pending EXCEPT ![t][a.sig] = pending[t][a.sig]]
    BY <1>4 DEF Exit
  <2> QED BY <1>2, <1>4, <2>1, <2>2, OrdersQuiet
<1>5. CASE ReadGranted(t, a)
  <2> DEFINE b == [a EXCEPT !.phase = "guard", !.lvl = 0]
  <2>1. Replace(t, a, b) /\ a.kind = "read" /\ UNCHANGED <<committed, pending, ops, gone>>
    BY <1>2, <1>5 DEF ReadGranted, KindOK
  <2>2. b.sig = a.sig /\ b.kind = a.kind /\ b.write = a.write
    BY <1>2 DEF Accesses
  <2> HIDE DEF b
  <2>3. ~ToCome(b)
    BY <2>1, <2>2 DEF ToCome, WritingKinds
  <2> QED BY <1>3, <2>1, <2>2, <2>3
<1>6. CASE DropRead(t, a)
  BY <1>4, <1>6 DEF DropRead, OpsStep
<1>7. CASE TakeTurn(t, a)
  <2>0. a.phase = "turn" /\ UNCHANGED <<committed, pending, ops, gone>>
    BY <1>7 DEF TakeTurn
  <2>1. CASE acc' = [acc EXCEPT ![t] = @ \ {a}]
    <3>1. acc' = [acc EXCEPT ![t] = acc[t] \ {a}] /\ Follow(acc[t], acc[t] \ {a})
      BY <1>0, <2>1, FollowSmall
    <3> QED BY <1>2, <2>0, <3>1, OrdersQuiet DEF OpsStep
  <2>2. CASE Replace(t, a, TurnTaken(a))
    <3>1. /\ TurnTaken(a).sig = a.sig /\ TurnTaken(a).kind = a.kind
          /\ TurnTaken(a).write.val = a.write.val
      BY <1>2 DEF TurnTaken, Accesses, Writes
    <3>2. a.kind = "flush" => TurnTaken(a).phase = "drain"
      BY <1>2 DEF TurnTaken, Accesses
    <3>3. ToCome(TurnTaken(a)) => ToCome(a)
      BY <2>0, <3>1, <3>2 DEF ToCome
    <3> QED BY <1>3, <2>0, <2>2, <3>1, <3>3
  <2> QED BY <1>7, <2>1, <2>2 DEF TakeTurn
<1>8. CASE Marked(t, a)
  <2>0. EndWrite(t, a) /\ UNCHANGED <<committed, ops, gone>>
    BY <1>8 DEF Marked
  <2>1. CASE a.kind = "flush"
    <3> DEFINE b == [a EXCEPT !.phase = "drain"]
    <3>1. Replace(t, a, b) /\ UNCHANGED pending
      BY <2>0, <2>1 DEF EndWrite
    <3>2. b.sig = a.sig /\ b.kind = a.kind /\ b.write = a.write /\ b.phase = "drain"
      BY <1>2 DEF Accesses
    <3> HIDE DEF b
    <3>3. ~ToCome(b)
      BY <3>2 DEF ToCome
    <3> QED BY <1>3, <2>0, <3>1, <3>2, <3>3
  <2>2. CASE a.kind # "flush"
    BY <1>4, <2>0, <2>2 DEF EndWrite, OpsStep
  <2> QED BY <2>1, <2>2
<1>9. ASSUME NEW notify \in BOOLEAN, EndUpdate(t, a, notify) \/ DropWriteGuard(t, a, notify)
      PROVE  OrdersInv' /\ BareInv'
  BY <1>9, OrdersCommit DEF EndUpdate, DropWriteGuard
<1>10. ASSUME NEW notify \in BOOLEAN, EndNested(t, a, notify) PROVE OrdersInv' /\ BareInv'
  <2> DEFINE q == pending[t][a.sig]
             w == [a.write EXCEPT !.val = Value(t, ops[t] + 1), !.notify = notify]
  <2>1. /\ Exit(t, a, DeferredResult(t, a, notify)) /\ UNCHANGED <<committed, gone>>
        /\ ops' = [ops EXCEPT ![t] = @ + 1] /\ ops[t] + 1 \in Nat
    BY <1>0, <1>10 DEF EndNested, TypeInv, TypeOK
  <2>2. CASE InUse(t, a.sig)
    <3>1. Exit(t, a, Append(q, w))
      BY <2>1, <2>2 DEF DeferredResult
    <3>2. w \in Writes /\ w.val = Value(t, ops[t] + 1)
      BY <1>2, <2>1, WriteTypes DEF Writes
    <3> HIDE DEF w, q
    <3>3. PICK B : acc' = [acc EXCEPT ![t] = B] /\ Follow(acc[t], B)
      BY <1>0, <3>1, FollowExit
    <3>4. pending' = [pending EXCEPT ![t][a.sig] = Append(q, w)]
      BY <3>1 DEF Exit
    <3> QED BY <1>2, <2>1, <3>2, <3>3, <3>4, OrdersAppend DEF q
  <2>3. CASE ~InUse(t, a.sig)
    BY <1>4, <2>1, <2>3 DEF DeferredResult, OpsStep
  <2> QED BY <2>2, <2>3
<1> QED BY <1>1, <1>5, <1>6, <1>7, <1>8, <1>9, <1>10, OrdersSwap, OrdersBare, OrdersDrain

LEMMA OrdersStep == SeqInv /\ [Next]_vars => SeqInv'
<1> SUFFICES ASSUME SeqInv, [Next]_vars PROVE SeqInv'
  OBVIOUS
<1>0. OrderInv' /\ PendingHasFlusher' /\ TypeInv'
  BY OrderStep, FlushStep DEF SeqInv, OrderInv, WriteInv
<1>1. ASSUME UNCHANGED <<acc, pending, ops, committed, gone>> PROVE OrdersInv' /\ BareInv'
  BY <1>1 DEF SeqInv, OrdersInv, BareInv
<1>2. ASSUME NEW t \in Threads, acc' = [acc EXCEPT ![t] = {}] \/ acc' = acc,
             \A u \in Threads \ {t} : pending'[u] = pending[u],
             pending'[t] = [s \in Signals |-> <<>>] \/ pending'[t] = pending[t],
             UNCHANGED <<ops, committed>>, gone \subseteq gone'
      PROVE  OrdersInv' /\ BareInv'
  <2>0. TypeInv /\ acc'[t] \in {{}, acc[t]} /\ \A u \in Threads \ {t} : acc'[u] = acc[u]
    BY <1>2 DEF SeqInv, OrderInv, WriteInv, TypeInv, TypeOK
  <2>1. ASSUME NEW u \in Threads, NEW s \in Signals
        PROVE  InOrder(u, s, acc'[u], pending'[u][s], ops'[u], committed'[s], gone')
    <3>1. /\ acc[u] \in SUBSET Accesses /\ pending[u][s] \in Seq(Writes)
          /\ committed[s] \in Values /\ ops[u] \in Nat /\ ops[u] <= ops[u]
          /\ InOrder(u, s, acc[u], pending[u][s], ops[u], committed[s], gone)
      BY SeqTypes
    <3>2. Carried(acc[u], acc'[u], s)
      BY <2>0 DEF Carried, Coming
    <3>3. InOrder(u, s, acc'[u], pending[u][s], ops[u], committed[s], gone)
      BY <3>1, <3>2, OrderKeep
    <3>4. pending'[u][s] \in {<<>>, pending[u][s]}
      BY <1>2
    <3>5. InOrder(u, s, acc'[u], pending'[u][s], ops[u], committed[s], gone)
      BY <3>1, <3>2, <3>3, <3>4, OrderDrop
    <3> QED BY <1>2, <3>5 DEF InOrder
  <2>2. BareInv'
    BY <1>2, <2>0 DEF SeqInv, BareInv, BareOK
  <2> QED BY <2>1, <2>2 DEF OrdersInv
<1>3. ASSUME NEW t \in Threads, Panic(t) PROVE OrdersInv' /\ BareInv'
  <2>1. /\ \A u \in Threads \ {t} : pending'[u] = pending[u]
        /\ pending'[t] = [s \in Signals |-> <<>>]
    BY <1>3 DEF Panic, SeqInv, OrderInv, WriteInv, TypeInv, TypeOK
  <2> QED BY <1>2, <1>3, <2>1 DEF Panic
<1>4. ASSUME NEW t \in Threads, Shutdown(t) PROVE OrdersInv' /\ BareInv'
  BY <1>2, <1>4 DEF Shutdown
<1>5. OrdersInv' /\ BareInv'
  BY <1>0, <1>1, <1>3, <1>4, OrdersStart, OrdersAdvance DEF Next, Step, Done, vars
<1> QED BY <1>0, <1>5 DEF SeqInv

LEMMA SeqInductive == Spec => []SeqInv
<1>1. Init => SeqInv
  <2> SUFFICES ASSUME Init PROVE SeqInv
    OBVIOUS
  <2>1. OrderInv /\ PendingHasFlusher
    BY OrderInit DEF Init, PendingHasFlusher
  <2>2. DeferredSets(<<>>) = {} /\ \A s : Coming({}, s) = {}
    BY DEF DeferredSets, Coming
  <2>3. OrdersInv
    BY <2>2, ThreadsAssumption DEF Init, OrdersInv, InOrder, UpTo, Ordered, InitialValue
  <2>4. BareInv
    BY DEF Init, BareInv, BareOK
  <2> QED BY <2>1, <2>3, <2>4 DEF SeqInv
<1> QED BY <1>1, OrdersStep, PTL DEF Spec

\* PendingInOrder: the writes a thread has deferred to a signal stay in the order it made them
\* (defer with `first` for the outermost one, at the back for the others).
THEOREM DeferredInOrder == Spec => []PendingInOrder
<1>1. SeqInv => PendingInOrder
  BY DEF SeqInv, OrdersInv, InOrder, Ordered, PendingInOrder
<1> QED BY <1>1, SeqInductive, PTL

\* CommitsInThreadOrder: no write of a thread is overwritten by an earlier one of the same thread,
\* whether committed at once, when its guard is dropped, or drained later (commit_now, defer and
\* drain of signal/commit.rs); a thread past its thread-locals' destruction gives no such promise.
THEOREM ThreadOrder == Spec => CommitsInThreadOrder
<1> DEFINE Later == \A s \in Signals :
                       \/ committed'[s] = committed[s]
                       \/ committed'[s].by # committed[s].by
                       \/ committed'[s].by \in gone
                       \/ committed'[s].n > committed[s].n
<1>1. SeqInv /\ [Next]_vars => Later \/ UNCHANGED vars
  <2> SUFFICES ASSUME SeqInv, [Next]_vars PROVE Later \/ UNCHANGED vars
    OBVIOUS
  <2>0. TypeInv /\ TypeInv'
    BY OrdersStep DEF SeqInv, OrderInv, WriteInv
  <2>1. ASSUME UNCHANGED committed PROVE Later
    BY <2>1
  <2>2. ASSUME NEW t \in Threads, NEW a \in acc[t], SwapIn(t, a) PROVE Later
    <3>1. a.sig \in Signals /\ a \in Coming(acc[t], a.sig) /\ a.write.val.by = t
      BY <2>0, <2>2, OrdersSwap, PendingType
    <3>2. InOrder(t, a.sig, acc[t], pending[t][a.sig], ops[t], committed[a.sig], gone)
      BY <3>1, SeqTypes
    <3>3. \/ committed[a.sig].by # t \/ t \in gone
          \/ a.write.val.n > committed[a.sig].n
      <4>1. committed[a.sig].by = t /\ t \notin gone => committed[a.sig].n < a.write.val.n
        BY <3>1, <3>2 DEF InOrder
      <4>2. committed[a.sig].n \in Nat /\ a.write.val.n \in Nat
        BY <2>0, <3>1 DEF TypeInv, TypeOK, Values, Accesses, Writes
      <4> QED BY <4>1, <4>2
    <3>4. /\ committed'[a.sig] = a.write.val
          /\ \A s \in Signals \ {a.sig} : committed'[s] = committed[s]
      BY <2>0, <2>2, <3>1 DEF SwapIn, TypeInv, TypeOK
    <3> QED BY <3>1, <3>3, <3>4
  <2>3. ASSUME NEW t \in Threads, NEW a \in acc[t], NEW notify \in BOOLEAN,
               SetUnrecorded(t, a, notify)
        PROVE  Later
    <3>1. t \in gone /\ a.write.val.by = t /\ a.sig \in Signals
      BY <2>0, <2>3, OrdersBare, PendingType
    <3>2. /\ committed'[a.sig] \in {a.write.val, committed[a.sig]}
          /\ \A s \in Signals \ {a.sig} : committed'[s] = committed[s]
      BY <2>0, <2>3, <3>1 DEF SetUnrecorded, TypeInv, TypeOK
    <3> QED BY <3>1, <3>2
  <2>4. ASSUME NEW t \in Threads, NEW a \in acc[t], NEW notify \in BOOLEAN,
               \/ ReadGranted(t, a) \/ DropRead(t, a) \/ TakeTurn(t, a)
               \/ Marked(t, a) \/ Drain(t, a) \/ EndUpdate(t, a, notify)
               \/ DropWriteGuard(t, a, notify) \/ EndNested(t, a, notify)
        PROVE  Later
    BY <2>1, <2>4 DEF ReadGranted, DropRead, TakeTurn, Marked, Drain, EndUpdate,
       DropWriteGuard, EndNested
  <2>5. ASSUME NEW t \in Threads, UserStart(t) PROVE Later
    BY <2>0, <2>1, <2>5, StartRest
  <2> HIDE DEF Later
  <2>6. ASSUME NEW t \in Threads, Advance(t) PROVE Later
    BY <2>2, <2>3, <2>4, <2>6 DEF Advance
  <2> QED BY <2>1, <2>5, <2>6 DEF Next, Step, Panic, Shutdown, Done
<1> QED BY <1>1, SeqInductive, PTL DEF Spec, CommitsInThreadOrder

-----------------------------------------------------------------------------
(* The register that the threads share *)

IsRead(c, s) == c.sig = s /\ c.kind = "read" /\ c.phase = "guard"
Holds(A, s) == \E c \in A : IsRead(c, s)

LEMMA ReadersValue ==
  ASSUME NEW t \in Threads, \A u \in Threads \ {t} : acc'[u] = acc[u]
  PROVE  /\ Readers = [s \in Signals |-> {u \in Threads : Holds(acc[u], s)}]
         /\ Readers' = [s \in Signals |-> {u \in Threads : Holds(acc'[u], s)}]
BY DEF Readers, ReadLocked, Holds, IsRead

\* The thread's reads are what they were.
LEMMA ReadersSame ==
  ASSUME NEW t \in Threads, \A u \in Threads \ {t} : acc'[u] = acc[u],
         \A s \in Signals : Holds(acc'[t], s) <=> Holds(acc[t], s)
  PROVE  Readers' = Readers
<1>1. \A s \in Signals : {u \in Threads : Holds(acc'[u], s)} = {u \in Threads : Holds(acc[u], s)}
  OBVIOUS
<1> QED BY <1>1, ReadersValue

\* It reads s, or reads s no longer.
LEMMA ReadersMore ==
  ASSUME NEW t \in Threads, \A u \in Threads \ {t} : acc'[u] = acc[u],
         NEW s \in Signals, Holds(acc'[t], s),
         \A r \in Signals \ {s} : Holds(acc'[t], r) <=> Holds(acc[t], r)
  PROVE  Readers' = [Readers EXCEPT ![s] = @ \cup {t}]
<1>1. /\ {u \in Threads : Holds(acc'[u], s)} = {u \in Threads : Holds(acc[u], s)} \cup {t}
      /\ \A r \in Signals \ {s} :
           {u \in Threads : Holds(acc'[u], r)} = {u \in Threads : Holds(acc[u], r)}
  OBVIOUS
<1> DEFINE old == [r \in Signals |-> {u \in Threads : Holds(acc[u], r)}]
           new == [r \in Signals |-> {u \in Threads : Holds(acc'[u], r)}]
<1>2. Readers = old /\ Readers' = new
  BY ReadersValue
<1>3. /\ DOMAIN old = Signals /\ DOMAIN new = Signals
      /\ new = [r \in Signals |-> new[r]] /\ old = [r \in Signals |-> old[r]]
      /\ new[s] = old[s] \cup {t} /\ \A r \in Signals \ {s} : new[r] = old[r]
  BY <1>1
<1> HIDE DEF old, new
<1>4. new = [old EXCEPT ![s] = old[s] \cup {t}]
  BY <1>3
<1> QED BY <1>2, <1>4

LEMMA ReadersLess ==
  ASSUME NEW t \in Threads, \A u \in Threads \ {t} : acc'[u] = acc[u],
         NEW s \in Signals, ~Holds(acc'[t], s),
         \A r \in Signals \ {s} : Holds(acc'[t], r) <=> Holds(acc[t], r)
  PROVE  Readers' = [Readers EXCEPT ![s] = @ \ {t}]
<1>1. /\ {u \in Threads : Holds(acc'[u], s)} = {u \in Threads : Holds(acc[u], s)} \ {t}
      /\ \A r \in Signals \ {s} :
           {u \in Threads : Holds(acc'[u], r)} = {u \in Threads : Holds(acc[u], r)}
  OBVIOUS
<1> DEFINE old == [r \in Signals |-> {u \in Threads : Holds(acc[u], r)}]
           new == [r \in Signals |-> {u \in Threads : Holds(acc'[u], r)}]
<1>2. Readers = old /\ Readers' = new
  BY ReadersValue
<1>3. /\ DOMAIN old = Signals /\ DOMAIN new = Signals
      /\ new = [r \in Signals |-> new[r]] /\ old = [r \in Signals |-> old[r]]
      /\ new[s] = old[s] \ {t} /\ \A r \in Signals \ {s} : new[r] = old[r]
  BY <1>1
<1> HIDE DEF old, new
<1>4. new = [old EXCEPT ![s] = old[s] \ {t}]
  BY <1>3
<1> QED BY <1>2, <1>4

\* A step of the register.
RStep == Register!Next \/ UNCHANGED <<committed, turn, Readers, gone>>

LEMMA RAdd ==
  ASSUME TypeInv, NEW t \in Threads, NEW b, acc' = [acc EXCEPT ![t] = @ \cup {b}],
         \A s \in Signals : ~IsRead(b, s), UNCHANGED <<committed, turn, gone>>
  PROVE  RStep
<1>1. \A u \in Threads \ {t} : acc'[u] = acc[u]
  BY DEF TypeInv, TypeOK
<1>2. \A s \in Signals : Holds(acc'[t], s) <=> Holds(acc[t], s)
  BY DEF TypeInv, TypeOK, Holds
<1> QED BY <1>1, <1>2, ReadersSame DEF RStep

LEMMA RRead ==
  ASSUME TypeInv, NEW t \in Threads, NEW A, NEW b, acc' = [acc EXCEPT ![t] = A \cup {b}],
         A \subseteq acc[t], \A c \in acc[t] \ A : \A s \in Signals : ~IsRead(c, s),
         b.sig \in Signals, b.kind = "read", b.phase = "guard", UNCHANGED <<committed, turn, gone>>
  PROVE  RStep
<1>1. acc'[t] = A \cup {b} /\ \A u \in Threads \ {t} : acc'[u] = acc[u]
  BY DEF TypeInv, TypeOK
<1>2. Holds(acc'[t], b.sig)
  BY <1>1 DEF Holds, IsRead
<1>3. \A s \in Signals \ {b.sig} : ~IsRead(b, s)
  BY DEF IsRead
<1>4. \A s \in Signals \ {b.sig} : Holds(acc'[t], s) <=> Holds(acc[t], s)
  BY <1>1, <1>3 DEF Holds
<1>5. Readers' = [Readers EXCEPT ![b.sig] = @ \cup {t}]
  BY <1>1, <1>2, <1>4, ReadersMore
<1> QED BY <1>5 DEF RStep, Register!Next, Register!StartRead

\* Replacing or removing an access that is not a read.
LEMMA ROther ==
  ASSUME TypeInv, NEW t \in Threads, NEW a \in acc[t], \A s \in Signals : ~IsRead(a, s),
         NEW B, \A b \in B : \A s \in Signals : ~IsRead(b, s),
         acc' = [acc EXCEPT ![t] = (@ \ {a}) \cup B]
  PROVE  Readers' = Readers
<1>1. acc'[t] = (acc[t] \ {a}) \cup B /\ \A u \in Threads \ {t} : acc'[u] = acc[u]
  BY DEF TypeInv, TypeOK
<1>2. \A s \in Signals : Holds(acc'[t], s) <=> Holds(acc[t], s)
  BY <1>1 DEF Holds
<1> QED BY <1>1, <1>2, ReadersSame

\* An access ends, the turn with it or not.
LEMMA RExit ==
  ASSUME TypeInv, NEW t \in Threads, NEW a \in acc[t], NEW q, Exit(t, a, q)
  PROVE  /\ \/ turn' = turn
            \/ Outermost(t, a) /\ turn[a.sig] = t /\ turn' = [turn EXCEPT ![a.sig] = NoThread]
         /\ (\A s \in Signals : ~IsRead(a, s)) => Readers' = Readers
         /\ IsRead(a, a.sig) => \/ Readers' = Readers /\ turn' = turn
                                \/ Readers' = [Readers EXCEPT ![a.sig] = @ \ {t}]
<1> DEFINE out == Outermost(t, a) /\ q # <<>>
           B == IF out THEN {Flush(t, a)} ELSE {}
<1>1. acc' = [acc EXCEPT ![t] = (@ \ {a}) \cup B]
  BY DEF Exit
<1>2. \A b \in B : \A s \in Signals : ~IsRead(b, s)
  BY DEF Flush, IsRead
<1> HIDE DEF B
<1>3. \/ turn' = turn
      \/ Outermost(t, a) /\ turn[a.sig] = t /\ turn' = [turn EXCEPT ![a.sig] = NoThread]
  BY DEF Exit
<1>4. (\A s \in Signals : ~IsRead(a, s)) => Readers' = Readers
  BY <1>1, <1>2, ROther
<1>5. ASSUME IsRead(a, a.sig)
      PROVE  \/ Readers' = Readers /\ turn' = turn
             \/ Readers' = [Readers EXCEPT ![a.sig] = @ \ {t}]
  <2>1. acc'[t] = (acc[t] \ {a}) \cup B /\ \A u \in Threads \ {t} : acc'[u] = acc[u]
    BY <1>1 DEF TypeInv, TypeOK
  <2>2. a.sig \in Signals
    BY PendingType
  <2>3. \A s \in Signals \ {a.sig} : Holds(acc'[t], s) <=> Holds(acc[t], s)
    BY <1>2, <2>1 DEF Holds, IsRead
  <2>4. CASE Holds(acc'[t], a.sig)
    <3>1. Readers' = Readers
      <4>1. Holds(acc[t], a.sig)
        BY <1>5 DEF Holds
      <4> QED BY <2>1, <2>3, <2>4, <4>1, ReadersSame
    <3>2. PICK c \in acc[t] : c # a /\ IsRead(c, a.sig)
      BY <1>2, <2>1, <2>2, <2>4 DEF Holds
    <3>3. ~Outermost(t, a)
      BY <3>2 DEF Outermost, Alone, Uses, IsRead, Recorded
    <3> QED BY <1>3, <3>1, <3>3
  <2>5. CASE ~Holds(acc'[t], a.sig)
    BY <2>1, <2>2, <2>3, <2>5, ReadersLess
  <2> QED BY <2>4, <2>5
<1> QED BY <1>3, <1>4, <1>5

\* The end of an access is a step of the register: the turn or the read ends, or both.
LEMMA RExitStep ==
  ASSUME TypeInv, NEW t \in Threads, NEW a \in acc[t], NEW q, Exit(t, a, q),
         UNCHANGED <<committed, gone>>
  PROVE  RStep
<1>0. a.sig \in Signals
  BY PendingType
<1>1. (\A s \in Signals : ~IsRead(a, s)) \/ IsRead(a, a.sig)
  BY DEF IsRead
<1>2. Readers' = Readers \/ Readers' = [Readers EXCEPT ![a.sig] = @ \ {t}]
  BY <1>1, RExit
<1>3. turn' = turn \/ (turn[a.sig] = t /\ turn' = [turn EXCEPT ![a.sig] = NoThread])
  BY RExit
<1>4. CASE turn' = turn
  BY <1>0, <1>2, <1>4 DEF RStep, Register!Next, Register!EndRead
<1>5. CASE turn[a.sig] = t /\ turn' = [turn EXCEPT ![a.sig] = NoThread]
  BY <1>0, <1>2, <1>5 DEF RStep, Register!Next, Register!ReleaseTurn
<1> QED BY <1>3, <1>4, <1>5

\* A write is one: its thread has the turn, or is gone and nobody has, and nobody reads.
LEMMA RWrite ==
  ASSUME TypeInv, NEW t \in Threads, NEW s \in Signals,
         NoReaders(s), NEW v, v.by = t, committed' = [committed EXCEPT ![s] = v],
         \/ turn[s] = t /\ turn' \in {turn, [turn EXCEPT ![s] = NoThread]}
         \/ t \in gone /\ turn[s] = NoThread /\ turn' = turn,
         Readers' = Readers, gone' = gone
  PROVE  RStep
<1>1. Readers[s] = {}
  BY DEF Readers, NoReaders
<1>2. committed' = [committed EXCEPT ![s] = committed'[s]] /\ committed'[s].by = t
  BY DEF TypeInv, TypeOK
<1>3. Register!Put(t, s)
  BY <1>1, <1>2 DEF Register!Put
<1> QED BY <1>3 DEF RStep, Register!Next, Register!Write, Register!WriteAfterLeaving

LEMMA RStart ==
  ASSUME TypeInv, NEW t \in Threads, UserStart(t)
  PROVE  RStep
<1>1. ASSUME UNCHANGED <<acc, committed, turn, gone>> PROVE RStep
  BY <1>1 DEF RStep, Readers, ReadLocked
<1>2. ASSUME NEW s, NEW kind, NEW phase, NEW w, Push(t, Access(t, s, kind, phase, w)),
             UNCHANGED <<committed, turn, gone>>, phase # "guard"
      PROVE  RStep
  <2> DEFINE b == [Access(t, s, kind, phase, w) EXCEPT !.lvl = TopLevel(acc[t]) + 1]
  <2>1. b.phase = phase
    BY DEF Access
  <2>2. acc' = [acc EXCEPT ![t] = @ \cup {b}]
    BY <1>2 DEF Push
  <2> HIDE DEF b
  <2> QED BY <1>2, <2>1, <2>2, RAdd DEF IsRead
<1>3. PICK s \in Signals :
        \/ Read(t, s) \/ ReadWaits(t, s) \/ Refused(t, s)
        \/ \E notify \in BOOLEAN :
             \/ \E kind \in {"set", "part", "update", "guard"} : BeginWrite(t, s, kind, notify)
             \/ DeferSet(t, s, notify)
        \/ PartRefused(t, s)
        \/ \E kind \in {"nested", "nguard"} : BeginNested(t, s, kind)
        \/ Notify(t, s)
        \/ BeginBare(t, s)
  BY DEF UserStart
<1>4. CASE Read(t, s)
  <2> DEFINE b == Access(t, s, "read", "guard", NoWrite)
  <2>1. b.sig = s /\ b.kind = "read" /\ b.phase = "guard"
    BY AccessFields
  <2>2. acc' = [acc EXCEPT ![t] = acc[t] \cup {b}] /\ UNCHANGED <<committed, turn, gone>>
    BY <1>4 DEF Read, TypeInv, TypeOK
  <2> HIDE DEF b
  <2> QED BY <2>1, <2>2, RRead
<1>5. CASE ReadWaits(t, s)
  BY <1>2, <1>5 DEF ReadWaits
<1>6. CASE Refused(t, s) \/ PartRefused(t, s)
  BY <1>1, <1>6 DEF Refused, PartRefused
<1>7. ASSUME NEW notify, NEW kind, BeginWrite(t, s, kind, notify) PROVE RStep
  <2>1. PICK w : Push(t, Access(t, s, kind, "turn", w)) /\ UNCHANGED <<committed, turn, gone>>
    BY <1>7, Zenon DEF BeginWrite
  <2> QED BY <1>2, <2>1
<1>8. ASSUME NEW notify, DeferSet(t, s, notify) PROVE RStep
  BY <1>1, <1>8 DEF DeferSet
<1>9. ASSUME NEW kind \in {"nested", "nguard"}, BeginNested(t, s, kind) PROVE RStep
  <2>1. CASE kind = "nested"
    <3>1. PICK w : Push(t, Access(t, s, kind, "closure", w)) /\ UNCHANGED <<committed, turn, gone>>
      BY <1>9, <2>1 DEF BeginNested
    <3> QED BY <1>2, <3>1
  <2>2. CASE kind = "nguard"
    <3>1. PICK w : /\ acc' = [acc EXCEPT ![t] = @ \cup {Access(t, s, kind, "guard", w)}]
                   /\ UNCHANGED <<committed, turn, gone>>
      BY <1>9, <2>2 DEF BeginNested
    <3>2. \A r \in Signals : ~IsRead(Access(t, s, kind, "guard", w), r)
      BY <2>2, AccessFields DEF IsRead
    <3> QED BY <3>1, <3>2, RAdd
  <2> QED BY <2>1, <2>2
<1>10. CASE Notify(t, s)
  BY <1>1, <1>2, <1>10 DEF Notify
<1>11. CASE BeginBare(t, s)
  <2>1. PICK w : Push(t, Access(t, s, "bare", "closure", w)) /\ UNCHANGED <<committed, turn, gone>>
    BY <1>11, Zenon DEF BeginBare
  <2> QED BY <1>2, <2>1
<1> QED BY <1>3, <1>4, <1>5, <1>6, <1>7, <1>8, <1>9, <1>10, <1>11

LEMMA RAdvance ==
  ASSUME SeqInv, TypeInv', NEW t \in Threads, Advance(t)
  PROVE  RStep
<1>0. TypeInv /\ OrderInv
  BY DEF SeqInv, OrderInv, WriteInv
<1>1. PICK a \in acc[t] :
        \/ ReadGranted(t, a) \/ DropRead(t, a)
        \/ TakeTurn(t, a) \/ SwapIn(t, a) \/ Marked(t, a) \/ Drain(t, a)
        \/ \E notify \in BOOLEAN :
             \/ EndUpdate(t, a, notify) \/ DropWriteGuard(t, a, notify)
             \/ EndNested(t, a, notify) \/ SetUnrecorded(t, a, notify)
  BY DEF Advance
<1>2. a \in Accesses /\ a.sig \in Signals /\ KindOK(a)
  BY <1>0, PendingType DEF OrderInv, WriteInv, KindInv
<1>3. ASSUME NEW b, Replace(t, a, b), a.kind # "read", b.kind = a.kind PROVE Readers' = Readers
  <2>1. acc' = [acc EXCEPT ![t] = (@ \ {a}) \cup {b}]
    BY <1>3 DEF Replace
  <2>2. /\ \A s \in Signals : ~IsRead(a, s)
        /\ \A c \in {b} : \A s \in Signals : ~IsRead(c, s)
    BY <1>3 DEF IsRead
  <2> QED BY <1>0, <2>1, <2>2, ROther
<1>4. ASSUME acc' = [acc EXCEPT ![t] = @ \ {a}], a.kind # "read" PROVE Readers' = Readers
  <2>1. acc' = [acc EXCEPT ![t] = (@ \ {a}) \cup {}]
    BY <1>4
  <2>2. \A s \in Signals : ~IsRead(a, s)
    BY <1>4 DEF IsRead
  <2> DEFINE B == {}
  <2>3. /\ \A c \in B : \A s \in Signals : ~IsRead(c, s)
        /\ acc' = [acc EXCEPT ![t] = (@ \ {a}) \cup B]
    BY <2>1
  <2> HIDE DEF B
  <2> QED BY <1>0, <2>2, <2>3, ROther
<1>5. ASSUME UNCHANGED <<committed, turn, Readers, gone>> PROVE RStep
  BY <1>5 DEF RStep
<1>6. CASE ReadGranted(t, a)
  <2> DEFINE b == [a EXCEPT !.phase = "guard", !.lvl = 0]
             A == acc[t] \ {a}
  <2>1. a.phase = "wait" /\ a.kind = "read"
    BY <1>2, <1>6 DEF ReadGranted, KindOK
  <2>2. b.sig = a.sig /\ b.kind = "read" /\ b.phase = "guard"
    BY <1>2, <2>1 DEF Accesses
  <2>3. acc' = [acc EXCEPT ![t] = A \cup {b}] /\ UNCHANGED <<committed, turn, gone>>
    BY <1>0, <1>6 DEF ReadGranted, Replace, TypeInv, TypeOK
  <2>4. A \subseteq acc[t] /\ \A c \in acc[t] \ A : \A s \in Signals : ~IsRead(c, s)
    BY <2>1 DEF IsRead
  <2> HIDE DEF A, b
  <2> QED BY <1>0, <1>2, <2>2, <2>3, <2>4, RRead
<1>7. CASE DropRead(t, a)
  BY <1>0, <1>7, RExitStep DEF DropRead
<1>8. CASE TakeTurn(t, a)
  <2>1. a.kind # "read"
    BY <1>2, <1>8 DEF TakeTurn, KindOK, WritingKinds
  <2>2. CASE acc' = [acc EXCEPT ![t] = @ \ {a}] /\ UNCHANGED turn
    BY <1>4, <1>5, <1>8, <2>1, <2>2 DEF TakeTurn
  <2>3. CASE turn' = [turn EXCEPT ![a.sig] = t] /\ Replace(t, a, TurnTaken(a))
    <3>1. TurnTaken(a).kind = a.kind
      BY <1>2 DEF TurnTaken, Accesses
    <3>2. Readers' = Readers
      BY <1>3, <2>1, <2>3, <3>1
    <3> QED BY <1>2, <1>8, <2>3, <3>2 DEF TakeTurn, TurnFree, RStep, Register!Next,
              Register!TakeTurn
  <2> QED BY <1>8, <2>2, <2>3 DEF TakeTurn
<1>9. ASSUME EndWrite(t, a), a.kind # "read"
      PROVE  Readers' = Readers /\ turn' \in {turn, [turn EXCEPT ![a.sig] = NoThread]}
  <2>1. CASE a.kind = "flush"
    <3>1. [a EXCEPT !.phase = "drain"].kind = a.kind
      BY <1>2 DEF Accesses
    <3> QED BY <1>3, <1>9, <2>1, <3>1 DEF EndWrite
  <2>2. CASE a.kind # "flush"
    BY <1>0, <1>9, <2>2, RExit DEF EndWrite, IsRead
  <2> QED BY <2>1, <2>2
<1>10. CASE SwapIn(t, a)
  <2>1. a.kind # "read" /\ turn[a.sig] = t /\ NoReaders(a.sig)
    BY <1>0, <1>2, <1>10 DEF SwapIn, KindOK, WritingKinds, Writing, OrderInv, WriteInv, TurnInv,
       TurnDiscipline
  <2>2. [a EXCEPT !.phase = "mark"].kind = a.kind
    BY <1>2 DEF Accesses
  <2>3. Readers' = Readers /\ turn' \in {turn, [turn EXCEPT ![a.sig] = NoThread]}
    BY <1>3, <1>9, <1>10, <2>1, <2>2 DEF SwapIn
  <2>4. /\ committed' = [committed EXCEPT ![a.sig] = a.write.val] /\ gone' = gone
        /\ a.write.val.by = t
    BY <1>10, OrdersSwap DEF SwapIn
  <2> QED BY <1>0, <1>2, <2>1, <2>3, <2>4, RWrite
<1>11. CASE Marked(t, a)
  <2>1. UNCHANGED <<committed, gone>> /\ EndWrite(t, a)
    BY <1>11 DEF Marked
  <2>2. CASE a.kind = "flush"
    <3>1. [a EXCEPT !.phase = "drain"].kind = a.kind
      BY <1>2 DEF Accesses
    <3> QED BY <1>3, <1>5, <2>1, <2>2, <3>1 DEF EndWrite
  <2>3. CASE a.kind # "flush"
    BY <1>0, <2>1, <2>3, RExitStep DEF EndWrite
  <2> QED BY <2>2, <2>3
<1>12. CASE Drain(t, a)
  <2>1. a.kind # "read" /\ UNCHANGED <<committed, gone>>
    BY <1>2, <1>12 DEF Drain, KindOK
  <2>2. CASE \E r : Exit(t, a, r)
    BY <1>0, <2>1, <2>2, RExitStep
  <2>3. CASE UNCHANGED turn /\ \E ap, w, ph :
               Replace(t, a, [a EXCEPT !.applied = ap, !.write = w, !.phase = ph])
    <3>1. PICK ap, w, ph : Replace(t, a, [a EXCEPT !.applied = ap, !.write = w, !.phase = ph])
      BY <2>3
    <3>2. [a EXCEPT !.applied = ap, !.write = w, !.phase = ph].kind = a.kind
      BY <1>2 DEF Accesses
    <3> QED BY <1>3, <1>5, <2>1, <2>3, <3>1, <3>2
  <2>4. \/ \E r : Exit(t, a, r)
        \/ UNCHANGED turn /\ \E ap, w, ph :
               Replace(t, a, [a EXCEPT !.applied = ap, !.write = w, !.phase = ph])
    BY <1>12, Zenon DEF Drain
  <2> QED BY <2>2, <2>3, <2>4
<1>13. ASSUME NEW notify, EndUpdate(t, a, notify) \/ DropWriteGuard(t, a, notify) PROVE RStep
  <2>0. a.kind # "read" /\ UNCHANGED <<committed, gone>> /\ Commit(t, a, notify)
    BY <1>13 DEF EndUpdate, DropWriteGuard
  <2>1. CASE Alone(t, a)
    <3> DEFINE b == [a EXCEPT !.phase = "swap", !.write.notify = notify,
                              !.lvl = IF a.lvl > 0 THEN a.lvl ELSE TopLevel(acc[t]) + 1]
    <3>1. Replace(t, a, b) /\ UNCHANGED turn
      BY <2>0, <2>1 DEF Commit
    <3>2. b.kind = a.kind
      BY <1>2 DEF Accesses
    <3> HIDE DEF b
    <3> QED BY <1>3, <1>5, <2>0, <3>1, <3>2
  <2>2. CASE ~Alone(t, a)
    <3>1. \E r : Exit(t, a, r)
      BY <2>0, <2>2 DEF Commit
    <3> QED BY <1>0, <2>0, <3>1, RExitStep
  <2> QED BY <2>1, <2>2
<1>14. ASSUME NEW notify, EndNested(t, a, notify) PROVE RStep
  BY <1>0, <1>14, RExitStep DEF EndNested
<1>15. ASSUME NEW notify \in BOOLEAN, SetUnrecorded(t, a, notify) PROVE RStep
  <2>1. [a EXCEPT !.phase = "mark"].kind = a.kind
    BY <1>2 DEF Accesses
  <2>2. a.kind # "read" /\ UNCHANGED turn /\ Readers' = Readers
    BY <1>3, <1>4, <1>15, <2>1 DEF SetUnrecorded
  <2>3. CASE TurnFree(a.sig) /\ NoReaders(a.sig)
    <3>1. committed' = [committed EXCEPT ![a.sig] = a.write.val] /\ gone' = gone
      BY <1>15, <2>3 DEF SetUnrecorded
    <3>2. t \in gone /\ a.write.val.by = t
      BY <1>15, OrdersBare
    <3> QED BY <1>0, <1>2, <2>2, <2>3, <3>1, <3>2, RWrite DEF TurnFree
  <2>4. CASE ~(TurnFree(a.sig) /\ NoReaders(a.sig))
    BY <1>5, <1>15, <2>2, <2>4 DEF SetUnrecorded
  <2> QED BY <2>3, <2>4
<1> QED BY <1>1, <1>6, <1>7, <1>8, <1>10, <1>11, <1>12, <1>13, <1>14, <1>15

\* RegisterSpec: to the threads that share it a signal is a register whose value changes only to
\* a write of the turn's holder, or of a thread in shutdown while the turn is free, and only while
\* nobody reads (swap_in, drain, set_unrecorded), for any number of threads and signals; re-entrant
\* uses, guards, deferral and panics show nothing else.
THEOREM SignalIsRegister == Spec => RegisterSpec
<1>1. Init => Register!Init
  <2> SUFFICES ASSUME Init PROVE Register!Init
    OBVIOUS
  <2>1. Readers = [s \in Signals |-> {}]
    BY DEF Init, Readers, ReadLocked
  <2> QED BY <2>1 DEF Init, Register!Init
<1>2. SeqInv /\ [Next]_vars => [Register!Next]_(Register!rvars)
  <2> SUFFICES ASSUME SeqInv, [Next]_vars PROVE RStep
    BY DEF RStep, Register!rvars
  <2>0. TypeInv /\ TypeInv'
    BY OrdersStep DEF SeqInv, OrderInv, WriteInv
  <2>1. ASSUME UNCHANGED <<acc, turn, committed, gone>> PROVE RStep
    BY <2>1 DEF RStep, Readers, ReadLocked
  <2>2. ASSUME NEW t \in Threads, Panic(t) PROVE RStep
    <3>1. \A u \in Threads \ {t} : acc'[u] = acc[u]
      BY <2>0, <2>2 DEF Panic, TypeInv, TypeOK
    <3>2. \A s \in Signals : ~Holds(acc'[t], s)
      BY <2>0, <2>2 DEF Panic, TypeInv, TypeOK, Holds
    <3>3. \A s \in Signals : {u \in Threads : Holds(acc'[u], s)}
                              = {u \in Threads : Holds(acc[u], s)} \ {t}
      BY <3>1, <3>2
    <3>4. Readers' = [s \in Signals |-> Readers[s] \ {t}]
      BY <3>1, <3>3, ReadersValue
    <3> QED BY <2>2, <3>4 DEF Panic, RStep, Register!Next, Register!Abandon
  <2>3. ASSUME NEW t \in Threads, Shutdown(t) PROVE RStep
    <3>1. \A s \in Signals : turn[s] # t /\ t \notin Readers[s]
      BY <2>3 DEF Shutdown, SeqInv, OrderInv, WriteInv, TurnInv, TurnDiscipline, InUse, Uses,
         Readers, ReadLocked
    <3>2. Readers' = Readers
      BY <2>3 DEF Shutdown, Readers, ReadLocked
    <3> QED BY <2>3, <3>1, <3>2 DEF Shutdown, RStep, Register!Next, Register!Leave
  <2> QED BY <2>0, <2>1, <2>2, <2>3, RStart, RAdvance DEF Next, Step, Done, vars
<1> QED BY <1>1, <1>2, SeqInductive, PTL DEF Spec, RegisterSpec, Register!Spec

=============================================================================
