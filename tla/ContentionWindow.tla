-------------------------- MODULE ContentionWindow --------------------------
(***************************************************************************)
(* How the free-buffer count of a node becomes the contention window of    *)
(* its hardware queues: the ladder both handlers of kernel-module/unlock.c *)
(* walk, and the bit arithmetic of edit_contentionWindow.  A 32-bit word   *)
(* is the set of the positions of its one bits.                            *)
(***************************************************************************)
EXTENDS Integers

\* Mutants: the first two rungs swapped; cw_val left 0 under every rung.
SwappedRungs(size) == CASE size > 70       -> 511
                        [] size \in 66..70 -> 1023
                        [] size <= 65      -> 1
NoLastRung(size) == IF size > 5 THEN 3 ELSE 0

\* The if-else ladder: the first rung the count is over decides.
CwOf(size) == CASE size > 70          -> 1023
                [] size \in 66..70    -> 511
                [] size \in 61..65    -> 511
                [] size \in 51..60    -> 255
                [] size \in 41..50    -> 63
                [] size \in 21..40    -> 15
                [] size \in 11..20    -> 7
                [] size \in 6..10     -> 3
                [] size \in 0..5      -> 1

CwValues == {1, 3, 7, 15, 63, 255, 511, 1023}

----------------------------------------------------------------------------
Word == SUBSET (0..31)

\* Every window of the ladder is 2^k - 1, a word of k ones.
Ones == [cw \in CwValues |->
           CASE cw = 1023 -> 10 [] cw = 511 -> 9 [] cw = 255 -> 8
             [] cw = 63   -> 6  [] cw = 15  -> 4 [] cw = 7   -> 3
             [] cw = 3    -> 2  [] cw = 1   -> 1]
BitsOf(cw) == 0..Ones[cw] - 1

\* The fields of the AR_DLCL_IFS registers edit_contentionWindow writes:
\* CWMIN in bits 0-9, CWMAX in bits 10-19; its mask clears all the others.
CwMinField == 0..9
CwMask     == 0..19

\* Mutant: a shift by the wrong distance.
ShiftLeft9(word) == {b \in 9..31 : b - 9 \in word}

ShiftLeft10(word) == {b \in 10..31 : b - 10 \in word}

\* Mutant: the accumulator does not wrap at 32 bits.
AccumulateWide(word) == word \cup {b + 10 : b \in word}

\* tmp = window_size << 10; window_size |= tmp
Accumulate(word) == word \cup ShiftLeft10(word)
=============================================================================
