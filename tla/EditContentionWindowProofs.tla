--------------------- MODULE EditContentionWindowProofs ---------------------
(***************************************************************************)
(* The ladder of unlock.c is total, its values are the eight windows and   *)
(* it never narrows as the free list grows; the loop of                    *)
(* edit_contentionWindow programs every DCU it reaches with CWMIN = CWMAX  *)
(* = the window of the count, however many DCUs it edits.                  *)
(***************************************************************************)
EXTENDS EditContentionWindow, TLAPS

\* CwOf is total on the counts and its value is one of the eight windows.
LEMMA CwOfType ==
  ASSUME NEW n \in Nat
  PROVE  CwOf(n) \in CwValues
BY DEF CwOf, CwValues

\* More free buffers never get a narrower window, for every pair of counts.
THEOREM CwOfMonotone ==
  ASSUME NEW m \in Nat, NEW n \in Nat, m <= n
  PROVE  CwOf(m) <= CwOf(n)
BY DEF CwOf

\* The bits of a window fit the CWMIN field.
LEMMA BitsOfType ==
  ASSUME NEW cw \in CwValues
  PROVE  BitsOf(cw) \subseteq CwMinField
BY DEF BitsOf, CwMinField, CwValues, Ones

\* What the accumulator holds inside the two fields: the window itself, and
\* from the first iteration on its copy in CWMAX.
CopyOf(cw) == {b \in 10..19 : b - 10 \in BitsOf(cw)}
Accumulated ==
  /\ window_size \cap CwMinField = BitsOf(CwOf(size))
  /\ qnum = 0 => window_size \cap (10..19) = {}
  /\ qnum > 0 => window_size \cap (10..19) = CopyOf(CwOf(size))

IInv == TypeOK /\ Accumulated /\ EditedFields

LEMMA ProgrammedIs ==
  ASSUME NEW cw \in CwValues
  PROVE  Programmed(cw) = BitsOf(cw) \cup CopyOf(cw)
BY BitsOfType DEF Programmed, CopyOf

\* One iteration from a word with the window in CWMIN leaves the window in
\* CWMIN and its copy in CWMAX, whatever CWMAX already held of that copy.
LEMMA AccumulateFields ==
  ASSUME NEW w \in Word, NEW cw \in CwValues,
         w \cap CwMinField = BitsOf(cw),
         w \cap (10..19) \subseteq CopyOf(cw)
  PROVE  /\ Accumulate(w) \in Word
         /\ Accumulate(w) \cap CwMinField = BitsOf(cw)
         /\ Accumulate(w) \cap (10..19) = CopyOf(cw)
         /\ CwMask \cap Accumulate(w) = Programmed(cw)
<1>1. Accumulate(w) \in Word
  <2>1. 10..31 \subseteq 0..31
    OBVIOUS
  <2>2. ShiftLeft10(w) \subseteq 10..31
    BY DEF ShiftLeft10
  <2>3. QED  BY <2>1, <2>2 DEF Accumulate, Word
<1>2. ShiftLeft10(w) \cap CwMinField = {}
  BY DEF ShiftLeft10, CwMinField
<1>3. Accumulate(w) \cap CwMinField = BitsOf(cw)
  BY <1>2 DEF Accumulate
<1>4. ShiftLeft10(w) \cap (10..19) = CopyOf(cw)
  BY DEF ShiftLeft10, CopyOf, CwMinField, Word
<1>5. Accumulate(w) \cap (10..19) = CopyOf(cw)
  BY <1>4 DEF Accumulate
<1>6. CwMask = CwMinField \cup (10..19)
  BY DEF CwMask, CwMinField
<1>7. QED  BY <1>1, <1>3, <1>5, <1>6, ProgrammedIs

LEMMA InitIInv == Init => IInv
<1> SUFFICES ASSUME Init PROVE IInv
  OBVIOUS
<1> USE EditAssumption DEF Init
<1>1. CwOf(size) \in CwValues
  BY CwOfType
<1>2. BitsOf(CwOf(size)) \subseteq CwMinField
  BY <1>1, BitsOfType
<1>3. TypeOK
  BY <1>2 DEF TypeOK, CwMinField, Word
<1>4. Accumulated
  BY <1>2 DEF Accumulated, CwMinField
<1>5. EditedFields
  BY DEF EditedFields
<1>6. QED  BY <1>3, <1>4, <1>5 DEF IInv

LEMMA NextIInv == IInv /\ [Next]_vars => IInv'
<1> SUFFICES ASSUME IInv, [Next]_vars PROVE IInv'
  OBVIOUS
<1> USE EditAssumption DEF IInv, TypeOK
<1> DEFINE cw == CwOf(size)
<1>1. CASE EditDcu
  <2>1. cw \in CwValues
    BY CwOfType
  <2>2. window_size \cap (10..19) \subseteq CopyOf(cw)
    BY DEF Accumulated
  <2>3. /\ window_size' \in Word
        /\ window_size' \cap CwMinField = BitsOf(cw)
        /\ window_size' \cap (10..19) = CopyOf(cw)
        /\ CwMask \cap window_size' = Programmed(cw)
    BY <1>1, <2>1, <2>2, AccumulateFields DEF EditDcu, Accumulated
  <2>4. size' = size /\ qnum' = qnum + 1 /\ qnum \in Dcu
    BY <1>1 DEF EditDcu
  <2>5. CwMask \cap window_size' \in Word
    BY <2>3 DEF Word
  <2>6. TypeOK'
    BY <1>1, <2>3, <2>4, <2>5 DEF EditDcu
  <2>7. Accumulated'
    BY <2>3, <2>4 DEF Accumulated
  <2>8. EditedFields'
    BY <1>1, <2>3, <2>4 DEF EditDcu, EditedFields
  <2>9. QED  BY <2>6, <2>7, <2>8
<1>2. CASE NextEdit
  <2>1. CwOf(size') \in CwValues
    BY <1>2, CwOfType DEF NextEdit
  <2>2. BitsOf(CwOf(size')) \subseteq CwMinField
    BY <2>1, BitsOfType
  <2>3. TypeOK'
    BY <1>2, <2>2 DEF NextEdit, CwMinField, Word
  <2>4. Accumulated'
    BY <1>2, <2>2 DEF NextEdit, Accumulated, CwMinField
  <2>5. EditedFields'
    BY <1>2 DEF NextEdit, EditedFields
  <2>6. QED  BY <2>3, <2>4, <2>5
<1>3. CASE UNCHANGED vars
  BY <1>3 DEF vars, Accumulated, EditedFields
<1>4. QED  BY <1>1, <1>2, <1>3 DEF Next

\* Every DCU the loop has passed holds CWMIN = CWMAX = the window of the
\* count, for any number of DCUs (unlock.c:276-285).
THEOREM EditedFieldsCorrect == Spec => []EditedFields
<1>1. IInv => EditedFields
  BY DEF IInv
<1>2. QED  BY <1>1, InitIInv, NextIInv, PTL DEF Spec

\* A wider free list never narrows the window of any edit in progress.
THEOREM CwMonotoneAlways == Spec => []CwMonotone
<1>1. IInv => CwMonotone
  BY EditAssumption, CwOfMonotone DEF IInv, TypeOK, CwMonotone
<1>2. QED  BY <1>1, InitIInv, NextIInv, PTL DEF Spec
=============================================================================
