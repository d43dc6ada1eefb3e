------------------------ MODULE EditContentionWindow ------------------------
(***************************************************************************)
(* edit_contentionWindow(window_size) of kernel-module/unlock.c, one       *)
(* iteration of its loop per step, called with the window the handlers     *)
(* derive from the free-buffer count.  The loop reuses its parameter as an *)
(* accumulator, so every iteration shifts what the previous one left.      *)
(***************************************************************************)
EXTENDS ContentionWindow

CONSTANTS BufSizes,  \* the free-buffer counts a handler may read
          Dcu,       \* the DCU units of the chip
          Edited,    \* how many of them, from 0, the loop writes
          ResetIfs   \* what a DCU register holds before the first edit

ASSUME EditAssumption ==
  /\ BufSizes \subseteq Nat
  /\ Dcu \subseteq Nat
  /\ Edited \in Nat \ {0} /\ 0..Edited - 1 \subseteq Dcu
  /\ ResetIfs \in Word

VARIABLES size,         \* buf_size, as the handler read it
          window_size,  \* the parameter, accumulating
          qnum,         \* the loop counter
          lclIfs        \* AR_DLCL_IFS(q) of every DCU
vars == <<size, window_size, qnum, lclIfs>>

Init == /\ size \in BufSizes
        /\ window_size = BitsOf(CwOf(size))
        /\ qnum = 0
        /\ lclIfs = [q \in Dcu |-> ResetIfs]

\* One iteration: accumulate, mask, REG_WRITE.
EditDcu ==
  /\ qnum < Edited
  /\ window_size' = Accumulate(window_size)
  /\ lclIfs' = [lclIfs EXCEPT ![qnum] = CwMask \cap window_size']
  /\ qnum' = qnum + 1
  /\ UNCHANGED size

\* The handler returns and a later one, with another count, edits again.
NextEdit ==
  /\ qnum = Edited
  /\ size' \in BufSizes
  /\ window_size' = BitsOf(CwOf(size'))
  /\ qnum' = 0
  /\ UNCHANGED lclIfs

Next == EditDcu \/ NextEdit

Spec == Init /\ [][Next]_vars

----------------------------------------------------------------------------
\* What a DCU must hold: CWMIN = CWMAX = cw and every other field clear.
Programmed(cw) ==
  LET min == CwMinField \cap BitsOf(cw)
  IN  min \cup {b \in 10..19 : b - 10 \in min}

TypeOK == /\ size \in BufSizes
          /\ window_size \in Word
          /\ qnum \in 0..Edited
          /\ lclIfs \in [Dcu -> Word]

\* Although the loop feeds its own result back into the shift, every DCU it
\* has passed holds exactly CWMIN = CWMAX = the window of the count read
\* (unlock.c:276-285).
EditedFields == \A q \in 0..qnum - 1 : lclIfs[q] = Programmed(CwOf(size))

\* A fuller free list never gets a narrower window (unlock.c:85-103,125-143).
CwMonotone == \A s \in BufSizes : s <= size => CwOf(s) <= CwOf(size)
=============================================================================
