------------------------- MODULE RateControlProofs -------------------------
(***************************************************************************)
(* The published free count is a promise, for any number of buffers.       *)
(***************************************************************************)
EXTENDS RateControl, TLAPS

Counts ==
  /\ free \in 0..NBuf /\ bufCounter \in 0..NBuf
  /\ sincePulse \in Nat /\ starved \in Nat

\* Every frame since the pulse took at most one buffer.
EachFrameTakesOne == free + sincePulse >= bufCounter

PromiseInv == Counts /\ EachFrameTakesOne /\ CountIsAPromise

\* The variables the promise is about; no other step of main or of its
\* thread touches them.
LEMMA PromiseUntouched ==
  ASSUME PromiseInv, UNCHANGED driverVars
  PROVE  PromiseInv'
BY DEF PromiseInv, Counts, EachFrameTakesOne, CountIsAPromise, driverVars

\* main.c:892-976: a frame takes a buffer or, finding none, is dropped.
LEMMA PromiseAth9kTx ==
  ASSUME PromiseInv, Ath9kTx
  PROVE  PromiseInv'
<1>0. NBuf \in Nat
  BY RateAssumption
<1>1. CASE asleep \/ free > 0
  BY <1>0, <1>1 DEF Ath9kTx, PromiseInv, Counts, EachFrameTakesOne, CountIsAPromise
<1>2. CASE ~asleep /\ ~(free > 0)
  BY <1>0, <1>2 DEF Ath9kTx, PromiseInv, Counts, EachFrameTakesOne, CountIsAPromise
<1> QED
  BY <1>1, <1>2

LEMMA PromiseStep ==
  ASSUME PromiseInv, [Next]_vars
  PROVE  PromiseInv'
<1>0. NBuf \in Nat
  BY RateAssumption
<1>1. CASE Inject
  BY <1>1, PromiseAth9kTx DEF Inject
<1>2. CASE InjectFails \/ AddBytes \/ CheckResult \/ ReadCount \/ Wake \/ CountUp
  BY <1>2, PromiseUntouched
     DEF InjectFails, AddBytes, CheckResult, ReadCount, Wake, CountUp
<1>3. CASE SampleStart \/ SampleEnd \/ SamplePrint
  BY <1>3, PromiseUntouched DEF SampleStart, SampleEnd, SamplePrint
<1>4. CASE Complete
  BY <1>0, <1>4 DEF Complete, PromiseInv, Counts, EachFrameTakesOne, CountIsAPromise
<1>5. CASE PowerChange
  BY <1>5 DEF PowerChange, PromiseInv, Counts, EachFrameTakesOne, CountIsAPromise
<1>6. CASE Pulse
  BY <1>0, <1>6 DEF Pulse, FreeBuffers, PromiseInv, Counts, EachFrameTakesOne, CountIsAPromise
<1>7. CASE UNCHANGED vars
  BY <1>7, PromiseUntouched DEF vars, driverVars
<1> QED
  BY <1>1, <1>2, <1>3, <1>4, <1>5, <1>6, <1>7 DEF Next, Main

\* As many frames as the published count says can be injected after a pulse
\* before one finds no buffer (unlock.c:81-82, main.c:892-976).
THEOREM CountIsAPromiseHolds == Spec => []CountIsAPromise
<1>0. NBuf \in Nat
  BY RateAssumption
<1>1. Init => PromiseInv
  BY <1>0 DEF Init, PromiseInv, Counts, EachFrameTakesOne, CountIsAPromise
<1>2. PromiseInv /\ [Next]_vars => PromiseInv'
  BY PromiseStep
<1>3. PromiseInv => CountIsAPromise
  BY DEF PromiseInv
<1> QED
  BY <1>1, <1>2, <1>3, PTL DEF Spec

-----------------------------------------------------------------------------
(* Ints of any width *)

Half == WordSize \div 2
SignedInt == -Half..Half - 1

LEMMA HalfWord == Half \in Nat \ {0} /\ WordSize = Half + Half /\ WordSize \in Nat \ {0}
BY RateAssumption DEF Half

LEMMA Residue ==
  ASSUME NEW n \in Nat \ {0}, NEW k \in Int, NEW r0 \in 0..n - 1
  PROVE  (k * n + r0) % n = r0
OBVIOUS

LEMMA Division ==
  ASSUME NEW n \in Nat \ {0}, NEW a \in Int
  PROVE  /\ a % n \in 0..n - 1 /\ a \div n \in Int
         /\ a = n * (a \div n) + (a % n)
OBVIOUS

\* The int of x differs from x by whole words.
LEMMA SignedType ==
  ASSUME NEW x \in Int
  PROVE  /\ Signed(x) \in SignedInt
         /\ \E k \in Int : Signed(x) = x + k * WordSize
<1> DEFINE a == x + Half
           q == a \div WordSize
           m == a % WordSize
<1>1. Half \in Nat /\ WordSize \in Nat \ {0} /\ WordSize = Half + Half
  BY HalfWord
<1>2. a \in Int /\ a = x + Half
  BY <1>1
<1>3. Signed(x) = m - Half
  BY DEF Signed, Half
<1> HIDE DEF a
<1>4. m \in 0..WordSize - 1 /\ q \in Int /\ a = WordSize * q + m
  BY <1>1, <1>2, Division
<1> HIDE DEF q, m
<1>5. Signed(x) \in SignedInt
  BY <1>1, <1>3, <1>4 DEF SignedInt
<1>6. Signed(x) = x + (-q) * WordSize /\ -q \in Int
  BY <1>1, <1>2, <1>3, <1>4
<1> QED
  BY <1>5, <1>6

\* It is the only one that does.
LEMMA SignedUnique ==
  ASSUME NEW x \in Int, NEW y \in SignedInt, NEW k \in Int, x = y + k * WordSize
  PROVE  Signed(x) = y
<1>1. Half \in Nat /\ WordSize \in Nat \ {0} /\ WordSize = Half + Half
  BY HalfWord
<1>2. y + Half \in 0..WordSize - 1 /\ y \in Int
  BY <1>1 DEF SignedInt
<1>3. (k * WordSize + (y + Half)) % WordSize = y + Half
  BY <1>1, <1>2, Residue
<1>4. x + Half = k * WordSize + (y + Half)
  BY <1>1, <1>2
<1> QED
  BY <1>1, <1>2, <1>3, <1>4 DEF Signed, Half

LEMMA SignedSmall ==
  ASSUME NEW x \in SignedInt
  PROVE  Signed(x) = x
<1>1. x \in Int /\ x = x + 0 * WordSize
  BY HalfWord DEF SignedInt
<1> QED
  BY <1>1, SignedUnique

\* What has wrapped adds and subtracts as if it had not.
LEMMA SignedAgain ==
  ASSUME NEW x \in Int, NEW y \in Int, NEW k \in Int, y = x + k * WordSize
  PROVE  Signed(y) = Signed(x)
<1>1. Signed(x) \in SignedInt
  BY SignedType
<1>2. PICK j \in Int : Signed(x) = x + j * WordSize
  BY SignedType
<1>3. WordSize \in Int /\ Signed(x) \in Int
  BY <1>1, HalfWord DEF SignedInt
<1>4. y = Signed(x) + (k - j) * WordSize /\ k - j \in Int
  BY <1>2, <1>3
<1> QED
  BY <1>1, <1>4, SignedUnique

LEMMA SignedSum ==
  ASSUME NEW x \in Int, NEW y \in Int
  PROVE  /\ Signed(Signed(x) + y) = Signed(x + y)
         /\ Signed(Signed(x) - Signed(y)) = Signed(x - y)
<1>1. PICK j \in Int : Signed(x) = x + j * WordSize
  BY SignedType
<1>2. PICK k \in Int : Signed(y) = y + k * WordSize
  BY SignedType
<1>3. WordSize \in Int /\ Signed(x) \in Int /\ Signed(y) \in Int
  BY SignedType, HalfWord DEF SignedInt
<1>4. Signed(x) + y = (x + y) + j * WordSize
  BY <1>1, <1>3
<1>5. Signed(x) - Signed(y) = (x - y) + (j - k) * WordSize /\ j - k \in Int
  BY <1>1, <1>2, <1>3
<1>6. Signed(Signed(x) + y) = Signed(x + y)
  <2> DEFINE a == x + y
             c == Signed(x) + y
  <2>1. a \in Int /\ c \in Int /\ c = a + j * WordSize
    BY <1>3, <1>4
  <2> HIDE DEF a, c
  <2>2. Signed(c) = Signed(a)
    BY <2>1, SignedAgain
  <2> QED
    BY <2>2 DEF a, c
<1>7. Signed(Signed(x) - Signed(y)) = Signed(x - y)
  <2> DEFINE a == x - y
             c == Signed(x) - Signed(y)
             i == j - k
  <2>1. a \in Int /\ c \in Int /\ i \in Int /\ c = a + i * WordSize
    BY <1>3, <1>5
  <2> HIDE DEF a, c, i
  <2>2. Signed(c) = Signed(a)
    BY <2>1, SignedAgain
  <2> QED
    BY <2>2 DEF a, c
<1> QED
  BY <1>6, <1>7

-----------------------------------------------------------------------------
(* Types *)

Flags == opened \in BOOLEAN /\ r \in BOOLEAN /\ asleep \in BOOLEAN /\ txReady \in BOOLEAN

Typed ==
  /\ pc \in {"inject", "bytes", "check", "read", "sleep", "count", "done", "failed"}
  /\ count \in CountArgs
  /\ opened => wait_us \in 0..100 * NBuf
  /\ sent \in 0..WordSize - 1
  /\ sentByte \in SignedInt /\ s_byte \in SignedInt /\ e_byte \in SignedInt
  /\ free \in 0..NBuf /\ bufCounter \in 0..NBuf
  /\ sampler \in {"s_byte", "e_byte", "print"}

LEMMA FlagsStep ==
  ASSUME Flags, [Next]_vars
  PROVE  Flags'
<1> USE DEF Flags, mainVars, driverVars
<1>1. CASE Inject \/ InjectFails
  BY <1>1 DEF Inject, InjectFails, Ath9kTx
<1>2. CASE AddBytes \/ CheckResult \/ ReadCount \/ Wake \/ CountUp
  BY <1>2 DEF AddBytes, CheckResult, ReadCount, Wake, CountUp
<1>3. CASE SampleStart \/ SampleEnd \/ SamplePrint
  BY <1>3 DEF SampleStart, SampleEnd, SamplePrint
<1>4. CASE Complete \/ PowerChange \/ Pulse
  BY <1>4 DEF Complete, PowerChange, Pulse
<1>5. CASE UNCHANGED vars
  BY <1>5 DEF vars
<1> QED
  BY <1>1, <1>2, <1>3, <1>4, <1>5 DEF Next, Main

LEMMA TypedStep ==
  ASSUME Typed, [Next]_vars
  PROVE  Typed'
<1>1. /\ NBuf \in Nat \ {0} /\ FrameLen \in Nat /\ WordSize \in Nat \ {0}
      /\ SignedInt \subseteq Int /\ 0 \in SignedInt
  BY HalfWord, RateAssumption DEF SignedInt
<1> USE <1>1 DEF Typed, mainVars, statVars, driverVars
<1>2. CASE Inject
  BY <1>2 DEF Inject, Ath9kTx
<1>3. CASE InjectFails \/ CheckResult \/ Wake
  BY <1>3 DEF InjectFails, CheckResult, Wake
<1>4. CASE AddBytes
  <2>1. sentByte + FrameLen \in Int
    OBVIOUS
  <2>2. sentByte' \in SignedInt
    BY <1>4, <2>1, SignedType DEF AddBytes
  <2> QED
    BY <1>4, <2>2 DEF AddBytes
<1>5. CASE ReadCount
  BY <1>5 DEF ReadCount, Wait
<1>6. CASE CountUp
  <2>1. sent + 1 \in Int
    OBVIOUS
  <2>2. (sent + 1) % WordSize \in 0..WordSize - 1
    BY <2>1, Division
  <2> QED
    BY <1>6, <2>2 DEF CountUp
<1>7. CASE SampleStart \/ SampleEnd
  BY <1>7 DEF SampleStart, SampleEnd
<1>8. CASE SamplePrint
  BY <1>8 DEF SamplePrint
<1>9. CASE Complete \/ PowerChange \/ Pulse
  BY <1>9 DEF Complete, PowerChange, Pulse, FreeBuffers
<1>10. CASE UNCHANGED vars
  BY <1>10 DEF vars
<1> QED
  BY <1>2, <1>3, <1>4, <1>5, <1>6, <1>7, <1>8, <1>9, <1>10 DEF Next, Main

\* No count leaves its range: the pause of a sender with a device is between
\* none and NBuf steps, and the byte counters stay ints of the width given.
THEOREM RateTyped == Spec => []TypeOK
<1>1. Init => Flags
  BY DEF Init, Flags
<1>2. Init => Typed
  <2>1. /\ NBuf \in Nat \ {0} /\ WordSize \in Nat \ {0} /\ 0 \in SignedInt
    BY HalfWord, RateAssumption DEF SignedInt
  <2> QED
    BY <2>1 DEF Init, Typed
<1>3. Flags /\ Typed => TypeOK
  BY DEF Flags, Typed, TypeOK, SignedInt, Half
<1> QED
  BY <1>1, <1>2, <1>3, FlagsStep, TypedStep, PTL DEF Spec

-----------------------------------------------------------------------------
(* How many frames *)

Target == IF count = 0 THEN WordSize ELSE count

\* Between a frame and its count, sent_packet is one behind, and it does not
\* wrap before the last frame, which for a count of 0 is the one that wraps.
FrameInv ==
  /\ count \in CountArgs /\ sent \in Nat /\ injected \in Nat
  /\ pc = "inject" => sent = injected /\ sent < Target
  /\ pc \in {"bytes", "check"} /\ r => injected = sent + 1 /\ sent < Target
  /\ pc \in {"read", "sleep", "count"} => injected = sent + 1 /\ sent < Target
  /\ pc = "done" => injected = Target

LEMMA TargetType ==
  ASSUME count \in CountArgs
  PROVE  Target \in 1..WordSize /\ (Target = WordSize => count = 0) /\ count \in Nat
BY RateAssumption DEF Target

\* The comparison with count is exact although sent_packet wraps.
LEMMA CountUpExact ==
  ASSUME FrameInv, CountUp
  PROVE  FrameInv'
<1>1. /\ Target \in 1..WordSize /\ (Target = WordSize => count = 0) /\ count \in Nat
      /\ WordSize \in Nat \ {0}
  BY TargetType, RateAssumption DEF FrameInv
<1>2. /\ sent \in Nat /\ sent < Target /\ injected = sent + 1 /\ injected \in Nat
      /\ sent' = (sent + 1) % WordSize /\ injected' = injected /\ count' = count
      /\ pc' = IF sent' = count THEN "done" ELSE "inject"
  BY DEF FrameInv, CountUp, mainVars
<1>3. Target' = Target
  BY <1>2 DEF Target
<1>4. CASE sent + 1 < WordSize
  <2>1. sent' = sent + 1
    <3>1. sent + 1 \in 0..WordSize - 1 /\ sent + 1 = 0 * WordSize + (sent + 1)
      BY <1>1, <1>2, <1>4
    <3> QED
      BY <1>1, <1>2, <3>1, Residue
  <2>2. CASE sent' = count
    <3>1. Target = count
      BY <1>2, <2>1, <2>2 DEF Target
    <3> QED
      BY <1>2, <1>3, <2>1, <2>2, <3>1 DEF FrameInv
  <2>3. CASE sent' # count
    <3>1. sent + 1 < Target
      BY <1>1, <1>2, <1>4, <2>1, <2>3 DEF Target
    <3> QED
      BY <1>2, <1>3, <2>1, <2>3, <3>1 DEF FrameInv
  <2> QED
    BY <2>2, <2>3
<1>5. CASE sent + 1 >= WordSize
  <2>1. sent + 1 = WordSize /\ Target = WordSize /\ count = 0
    BY <1>1, <1>2, <1>5
  <2>2. sent' = 0
    <3>1. WordSize = 1 * WordSize + 0 /\ 0 \in 0..WordSize - 1
      BY <1>1
    <3> QED
      BY <1>1, <1>2, <2>1, <3>1, Residue
  <2> QED
    BY <1>2, <1>3, <2>1, <2>2 DEF FrameInv
<1> QED
  BY <1>1, <1>2, <1>4, <1>5

\* Asked for a number of frames, packetspammer ends after exactly that many,
\* for every width of sent_packet (packetspammer.c:415-432).
THEOREM StopsAtCountHolds == Spec => []StopsAtCount
<1>1. Init => FrameInv
  <2> SUFFICES ASSUME Init PROVE FrameInv
    OBVIOUS
  <2>1. Target \in 1..WordSize /\ count \in CountArgs
    BY TargetType DEF Init
  <2> QED
    BY <2>1, RateAssumption DEF Init, FrameInv
<1>2. ASSUME FrameInv, [Next]_vars PROVE FrameInv'
  <2>1. CASE CountUp
    BY <1>2, <2>1, CountUpExact
  <2>2. CASE ~CountUp
    <3> USE DEF FrameInv, mainVars, Target
    <3>1. CASE Inject \/ InjectFails
      BY <1>2, <3>1, TargetType DEF Inject, InjectFails
    <3>2. CASE AddBytes \/ CheckResult \/ ReadCount \/ Wake
      BY <1>2, <3>2 DEF AddBytes, CheckResult, ReadCount, Wake
    <3>3. CASE SampleStart \/ SampleEnd \/ SamplePrint
      BY <1>2, <3>3 DEF SampleStart, SampleEnd, SamplePrint
    <3>4. CASE Complete \/ PowerChange \/ Pulse
      BY <1>2, <3>4 DEF Complete, PowerChange, Pulse
    <3>5. CASE UNCHANGED vars
      BY <1>2, <3>5 DEF vars
    <3> QED
      BY <1>2, <2>2, <3>1, <3>2, <3>3, <3>4, <3>5 DEF Next, Main
  <2> QED
    BY <2>1, <2>2
<1>3. FrameInv => StopsAtCount
  BY DEF FrameInv, StopsAtCount, Target
<1> QED
  BY <1>1, <1>2, <1>3, PTL DEF Spec

-----------------------------------------------------------------------------
(* The printed rate *)

\* Every reading is the int of the bytes counted by then.
ReadingInv ==
  /\ added \in Nat /\ sampled \in 0..added /\ endAdded \in 0..added
  /\ sentByte = Signed(FrameLen * added)
  /\ s_byte = Signed(FrameLen * sampled) /\ e_byte = Signed(FrameLen * endAdded)
  /\ sampler = "print" => sampled <= endAdded

LEMMA ReadingAdd ==
  ASSUME ReadingInv, AddBytes
  PROVE  ReadingInv'
<1>1. FrameLen \in Nat /\ added \in Nat
  BY RateAssumption DEF ReadingInv
<1>2. FrameLen * added \in Int /\ FrameLen * (added + 1) = FrameLen * added + FrameLen
  BY <1>1
<1>3. sentByte' = Signed(FrameLen * (added + 1))
  BY <1>1, <1>2, SignedSum DEF ReadingInv, AddBytes
<1> QED
  BY <1>1, <1>3 DEF ReadingInv, AddBytes, statVars

\* The rate printed is that of the frames counted between the two readings,
\* though sent_byte has wrapped in between, for ints of any width and frames
\* of any length (packetspammer.c:104-110,417).
THEOREM SpeedSurvivesWrapHolds == Spec => []SpeedSurvivesWrap
<1>1. Signed(0) = 0 /\ FrameLen * 0 = 0
  <2>1. 0 \in SignedInt /\ FrameLen \in Nat
    BY HalfWord, RateAssumption DEF SignedInt
  <2> QED
    BY <2>1, SignedSmall
<1>2. Init => ReadingInv
  BY <1>1 DEF Init, ReadingInv
<1>3. ASSUME ReadingInv, [Next]_vars PROVE ReadingInv'
  <2> USE DEF ReadingInv, statVars
  <2>1. CASE AddBytes
    BY <1>3, <2>1, ReadingAdd
  <2>2. CASE Inject \/ InjectFails \/ CheckResult \/ ReadCount \/ Wake \/ CountUp
    BY <1>3, <2>2 DEF Inject, InjectFails, CheckResult, ReadCount, Wake, CountUp
  <2>3. CASE SampleStart
    BY <1>3, <2>3 DEF SampleStart
  <2>4. CASE SampleEnd
    BY <1>3, <2>4 DEF SampleEnd
  <2>5. CASE SamplePrint
    BY <1>1, <1>3, <2>5 DEF SamplePrint
  <2>6. CASE Complete \/ PowerChange \/ Pulse
    BY <1>3, <2>6 DEF Complete, PowerChange, Pulse
  <2>7. CASE UNCHANGED vars
    BY <1>3, <2>7 DEF vars
  <2> QED
    BY <1>3, <2>1, <2>2, <2>3, <2>4, <2>5, <2>6, <2>7 DEF Next, Main
<1>4. ReadingInv => SpeedSurvivesWrap
  <2> DEFINE bytes == FrameLen * (endAdded - sampled)
  <2> SUFFICES ASSUME ReadingInv, sampler = "print", bytes < Half
      PROVE  Speed = bytes
    BY DEF SpeedSurvivesWrap, Half
  <2>1. /\ FrameLen \in Nat /\ sampled \in Nat /\ endAdded \in Nat /\ sampled <= endAdded
    BY RateAssumption DEF ReadingInv
  <2>2. bytes = FrameLen * endAdded - FrameLen * sampled
        /\ FrameLen * endAdded \in Int /\ FrameLen * sampled \in Int
    BY <2>1
  <2>3. bytes \in Nat
    BY <2>1
  <2>4. Speed = Signed(bytes)
    BY <2>2, SignedSum DEF ReadingInv, Speed
  <2>5. bytes \in SignedInt
    BY <2>3, HalfWord DEF SignedInt
  <2> HIDE DEF bytes
  <2> QED
    BY <2>4, <2>5, SignedSmall
<1> QED
  BY <1>2, <1>3, <1>4, PTL DEF Spec
=============================================================================
