----------------------------- MODULE TxBufList -----------------------------
(***************************************************************************)
(* The same free list as the driver keeps it: a circular doubly linked     *)
(* list that ath9k edits in process and softirq context, one operation at  *)
(* a time, and that the handlers of unlock.c walk from hard-interrupt      *)
(* context, without its lock, between any two stores of an edit.  The      *)
(* stores to the same field may alias, so the build keeps their order; the *)
(* boards have one CPU, so a walk is never interrupted by an edit.         *)
(***************************************************************************)
EXTENDS Integers, Sequences, FiniteSets

CONSTANTS Buffer,   \* the buffers ath_descdma_setup allocates
          txbuf,     \* sc->tx.txbuf itself
          Poison    \* what list_del leaves in the pointers of its entry
ASSUME ListAssumption == /\ IsFiniteSet(Buffer) /\ Buffer # {}
                         /\ txbuf \notin Buffer /\ Poison \notin Buffer
                         /\ txbuf # Poison

VARIABLES next, prev,  \* the list pointers of every buffer and of the head
          stores,      \* what is left of the edit in progress
          held,        \* buffers carrying a frame, not in the list
          reading      \* what get_buf_size last returned
vars == <<next, prev, stores, held, reading>>

Node == Buffer \cup {txbuf}
Fault == -1  \* the walk of an inconsistent list: no end, or a wild pointer

\* INIT_LIST_HEAD, then list_add_tail of every buffer in the order of the
\* allocation: they all end up in one circle through the head.
Init ==
  /\ \E order \in [1..Cardinality(Buffer) -> Buffer] :
       LET n == Cardinality(Buffer)
           At(i) == IF i \in 1..n THEN order[i] ELSE txbuf
       IN  /\ \A b \in Buffer : \E i \in 1..n : order[i] = b
           /\ next = [x \in Node |-> IF x = txbuf THEN At(1)
                        ELSE At((CHOOSE i \in 1..n : order[i] = x) + 1)]
           /\ prev = [x \in Node |-> IF x = txbuf THEN At(n)
                        ELSE At((CHOOSE i \in 1..n : order[i] = x) - 1)]
  /\ stores = <<>> /\ held = {} /\ reading = 0

----------------------------------------------------------------------------
\* The entries a walk from the head meets: k steps of pos = pos->next.
Reach == LET r[k \in 0..Cardinality(Buffer)] ==
               LET at == IF k = 0 THEN txbuf ELSE r[k - 1]
               IN  IF k > 0 /\ at \notin Buffer THEN at ELSE next[at]
         IN  r
Ends   == \E k \in DOMAIN Reach : Reach[k] = txbuf
Length == CHOOSE k \in DOMAIN Reach :
            Reach[k] = txbuf /\ \A j \in 0..k - 1 : Reach[j] # txbuf
Free   == IF Ends THEN [i \in 1..Length |-> Reach[i - 1]] ELSE <<>>

\* Mutant: the head counts too.
SizeWithHead == IF Ends THEN Length + 1 ELSE Fault

\* get_buf_size, from an interrupt.
GetBufSize == IF Ends THEN Length ELSE Fault

Count == /\ reading' = GetBufSize
         /\ UNCHANGED <<next, prev, stores, held>>

----------------------------------------------------------------------------
(* The list operations of the driver, as the stores they make in order.    *)
Next_(x, y) == [field |-> "next", of |-> x, to |-> y]
Prev_(x, y) == [field |-> "prev", of |-> x, to |-> y]

\* Mutant: the entry is linked before it points on.
AddLinkFirst(b)   == <<Prev_(txbuf, b), Next_(prev[txbuf], b), Next_(b, txbuf),
                       Prev_(b, prev[txbuf])>>

ListDel(b)     == <<Prev_(next[b], prev[b]), Next_(prev[b], next[b]),
                    Next_(b, Poison), Prev_(b, Poison)>>
ListAddTail(b) == <<Prev_(txbuf, b), Next_(b, txbuf), Prev_(b, prev[txbuf]),
                    Next_(prev[txbuf], b)>>

\* ath_tx_get_buffer: nothing to take when list_empty.
GetBuffer ==
  /\ stores = <<>> /\ next[txbuf] # txbuf
  /\ stores' = ListDel(next[txbuf])
  /\ held' = held \cup {next[txbuf]}
  /\ UNCHANGED <<next, prev, reading>>

\* ath_tx_return_buffer
ReturnBuffer ==
  /\ stores = <<>>
  /\ \E b \in held : stores' = ListAddTail(b) /\ held' = held \ {b}
  /\ UNCHANGED <<next, prev, reading>>

\* One store of the edit in progress.
Store ==
  /\ stores # <<>>
  /\ LET s == stores[1]
     IN  IF s.field = "next"
         THEN next' = [next EXCEPT ![s.of] = s.to] /\ UNCHANGED prev
         ELSE prev' = [prev EXCEPT ![s.of] = s.to] /\ UNCHANGED next
  /\ stores' = Tail(stores)
  /\ UNCHANGED <<held, reading>>

\* Mutant: the head still names the old last entry.
SpliceNoBack ==
  /\ stores = <<>>
  /\ \E a \in held : \E b \in held \ {a} :
       /\ next' = [next EXCEPT ![prev[txbuf]] = a, ![a] = b, ![b] = txbuf]
       /\ prev' = [prev EXCEPT ![b] = a, ![a] = prev[txbuf]]
       /\ held' = held \ {a, b}
  /\ UNCHANGED <<stores, reading>>

\* ath_tx_complete_buf splices the buffers of an aggregate, interrupts off.
SpliceTail ==
  /\ stores = <<>>
  /\ \E a \in held : \E b \in held \ {a} :
       /\ next' = [next EXCEPT ![prev[txbuf]] = a, ![a] = b, ![b] = txbuf]
       /\ prev' = [prev EXCEPT ![txbuf] = b, ![b] = a, ![a] = prev[txbuf]]
       /\ held' = held \ {a, b}
  /\ UNCHANGED <<stores, reading>>

Next == GetBuffer \/ ReturnBuffer \/ Store \/ SpliceTail \/ Count
Spec == Init /\ [][Next]_vars

----------------------------------------------------------------------------
TypeOK == /\ next \in [Node -> Node \cup {Poison}]
          /\ prev \in [Node -> Node \cup {Poison}]
          /\ held \subseteq Buffer
          /\ Len(stores) \in 0..4
          /\ reading \in 0..Cardinality(Buffer)

\* Whatever store of an edit it interrupts, a count of the handlers is the
\* length of the pool just before or just after that edit, and the pool is
\* first in, first out (unlock.c:15-24 walks without txbuflock).
Pool == INSTANCE TxBufPool WITH free <- Free
CountsThePool == Pool!Spec

\* Between edits no buffer is lost: it is in the list, which reads the same
\* in both directions, or it carries a frame (main.c:816-825).
NoBufferLost ==
  stores = <<>> =>
    /\ {Free[i] : i \in 1..Len(Free)} = Buffer \ held
    /\ \A x \in Node \ held : prev[next[x]] = x
=============================================================================
