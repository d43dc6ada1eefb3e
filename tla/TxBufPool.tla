----------------------------- MODULE TxBufPool -----------------------------
(***************************************************************************)
(* What the free list of transmit buffers (sc->tx.txbuf) promises the      *)
(* unlock handlers: a first-in first-out pool whose length can be read at  *)
(* any moment.                                                             *)
(***************************************************************************)
EXTENDS Integers, Sequences

CONSTANT Buffer
VARIABLES free,     \* the free buffers, the next one to be used first
          reading   \* the last count of them
vars == <<free, reading>>

Members == {free[i] : i \in 1..Len(free)}

\* Every buffer is in the pool once.
Init == /\ Members = Buffer
        /\ \A i, j \in 1..Len(free) : free[i] = free[j] => i = j
        /\ reading = 0

Take == /\ free # <<>>
        /\ free' = Tail(free)
        /\ UNCHANGED reading

\* The buffers of one completed frame come back, in order.
Return == /\ \E b \in Buffer \ Members : free' = Append(free, b)
          /\ UNCHANGED reading

ReturnFrame ==
  /\ \E a, b \in Buffer \ Members : a # b /\ free' = free \o <<a, b>>
  /\ UNCHANGED reading

Count == /\ reading' = Len(free)
         /\ UNCHANGED free

Next == Take \/ Return \/ ReturnFrame \/ Count

Spec == Init /\ [][Next]_vars
=============================================================================
