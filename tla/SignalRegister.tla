--------------------------- MODULE SignalRegister ---------------------------
(***************************************************************************)
(* What a signal promises the threads that share it: a register with a     *)
(* writer turn.  A value tells who wrote it.  Only the holder of the turn  *)
(* changes the value, to one of its own, and only while nobody reads; a    *)
(* thread that has left (its shutdown has begun) may also write, but only  *)
(* when nobody has the turn.  Each thread takes and gives back only its    *)
(* own turn and its own reads, which may end together.                     *)
(***************************************************************************)
CONSTANTS Threads, Signals, NoThread, InitialValue
VARIABLES value, writer, readers, left

rvars == <<value, writer, readers, left>>

Init ==
  /\ value = [s \in Signals |-> InitialValue]
  /\ writer = [s \in Signals |-> NoThread]
  /\ readers = [s \in Signals |-> {}]
  /\ left = {}

TakeTurn(t, s) ==
  /\ writer[s] = NoThread
  /\ writer' = [writer EXCEPT ![s] = t]
  /\ UNCHANGED <<value, readers, left>>

\* The outermost use of the signal by its writer ends, a read with it or not.
ReleaseTurn(t, s) ==
  /\ writer[s] = t
  /\ writer' = [writer EXCEPT ![s] = NoThread]
  /\ readers' \in {readers, [readers EXCEPT ![s] = @ \ {t}]}
  /\ UNCHANGED <<value, left>>

StartRead(t, s) ==
  /\ readers' = [readers EXCEPT ![s] = @ \cup {t}]
  /\ UNCHANGED <<value, writer, left>>

EndRead(t, s) ==
  /\ readers' = [readers EXCEPT ![s] = @ \ {t}]
  /\ UNCHANGED <<value, writer, left>>

\* The value of s, which nobody reads, becomes one that t wrote.
Put(t, s) ==
  /\ readers[s] = {}
  /\ value' = [value EXCEPT ![s] = value'[s]]
  /\ value'[s].by = t
  /\ UNCHANGED <<readers, left>>

\* The turn may end with the write.
Write(t, s) ==
  /\ writer[s] = t
  /\ Put(t, s)
  /\ writer' \in {writer, [writer EXCEPT ![s] = NoThread]}

WriteAfterLeaving(t, s) ==
  /\ t \in left /\ writer[s] = NoThread
  /\ Put(t, s)
  /\ UNCHANGED writer

\* A panic gives back everything the thread holds.
Abandon(t) ==
  /\ writer' = [s \in Signals |-> IF writer[s] = t THEN NoThread ELSE writer[s]]
  /\ readers' = [s \in Signals |-> readers[s] \ {t}]
  /\ UNCHANGED <<value, left>>

\* A thread leaves when it holds nothing.
Leave(t) ==
  /\ \A s \in Signals : writer[s] # t /\ t \notin readers[s]
  /\ left' = left \cup {t}
  /\ UNCHANGED <<value, writer, readers>>

Next ==
  \E t \in Threads :
    \/ Abandon(t) \/ Leave(t)
    \/ \E s \in Signals :
         \/ TakeTurn(t, s) \/ ReleaseTurn(t, s)
         \/ StartRead(t, s) \/ EndRead(t, s)
         \/ Write(t, s) \/ WriteAfterLeaving(t, s)

Spec == Init /\ [][Next]_rvars

=============================================================================
