--------------------------- MODULE MCSignalWrites ---------------------------
EXTENDS SignalWrites, TLC

CONSTANTS t1, t2

\* How many operations each thread starts.
Two == [t \in Threads |-> 2]
FourAndOne == t1 :> 4 @@ t2 :> 1

=============================================================================
