---------------------------- MODULE RateControl ----------------------------
(***************************************************************************)
(* The feedback loop from the free transmit buffers to the sending rate:   *)
(* packetspammer injects a frame, ath9k_tx takes a buffer for it or drops  *)
(* it, a pulse of the unlock module publishes the free count, the          *)
(* character device exports it, and packetspammer sleeps the longer the    *)
(* fewer buffers were free.  A second thread samples its statistics.       *)
(***************************************************************************)
EXTENDS Integers

CONSTANTS NBuf,      \* buffers of ath_tx_init
          FrameLen,  \* frame_len
          WordSize,  \* 2^32, of u32 sent_packet and int sent_byte
          CountArgs, \* values of -c
          Garbage    \* what an uninitialised buf_free may hold
ASSUME RateAssumption ==
  /\ NBuf \in Nat \ {0} /\ FrameLen \in Nat \ {0}
  /\ WordSize \in Nat \ {0} /\ WordSize % 2 = 0
  /\ CountArgs \subseteq 0..WordSize - 1 /\ Garbage \subseteq Int

VARIABLES
  pc, count, opened, \* main: where, option -c, whether open() succeeded
  r,                 \* pcap_inject sent the whole frame
  wait_us, sent,     \* the pause computed from buf_free, and sent_packet
  sentByte,          \* stats->sent_byte
  free,              \* length of sc->tx.txbuf
  asleep,            \* the radio is in FULL_SLEEP
  txReady,           \* txbuf_fff # NULL
  bufCounter,        \* buf_counter
  sampler, s_byte, e_byte,  \* print_speed: where, and what it has read
  injected,          \* history: frames handed to ath9k_tx
  added, sampled,    \* history: frames counted in sent_byte, and those at s_byte
  endAdded,          \* history: those at e_byte
  sincePulse,        \* history: frames since buf_counter was written
  starved            \* history: those dropped for want of a buffer
mainVars  == <<count, opened>>
statVars  == <<sampler, s_byte, e_byte, sampled, endAdded>>
driverVars == <<free, asleep, txReady, bufCounter, sincePulse, starved>>
vars == <<pc, mainVars, r, wait_us, sent, sentByte, driverVars, statVars,
          injected, added>>

Signed(x) == ((x + WordSize \div 2) % WordSize) - WordSize \div 2

Init ==
  /\ pc = "inject" /\ count \in CountArgs /\ opened \in BOOLEAN /\ r = TRUE
  /\ wait_us = 0 /\ sent = 0 /\ sentByte = 0
  /\ free = NBuf /\ asleep = FALSE /\ txReady = FALSE /\ bufCounter = 0
  /\ sampler = "s_byte" /\ s_byte = 0 /\ e_byte = 0
  /\ injected = 0 /\ added = 0 /\ sampled = 0 /\ endAdded = 0
  /\ sincePulse = 0 /\ starved = 0

----------------------------------------------------------------------------
\* ath9k_tx: a frame that finds no buffer, or the radio in full sleep, is
\* dropped; its sender is not told.
Ath9kTx ==
  /\ txReady' = TRUE
  /\ sincePulse' = sincePulse + 1
  /\ IF asleep THEN UNCHANGED <<free, starved>>
     ELSE IF free > 0 THEN free' = free - 1 /\ UNCHANGED starved
     ELSE starved' = starved + 1 /\ UNCHANGED free
  /\ UNCHANGED <<asleep, bufCounter>>

Inject ==
  /\ pc = "inject" /\ pc' = "bytes"
  /\ Ath9kTx
  /\ r' = TRUE
  /\ injected' = injected + 1
  /\ UNCHANGED <<mainVars, wait_us, sent, sentByte, statVars, added>>

\* The interface went away: nothing reaches the driver.
InjectFails ==
  /\ pc = "inject" /\ pc' = "bytes"
  /\ r' = FALSE
  /\ UNCHANGED <<mainVars, wait_us, sent, sentByte, driverVars, statVars,
                 injected, added>>

\* Mutant: the counter sticks at its largest value.
AddBytesSaturating ==
  /\ pc = "bytes" /\ pc' = "check"
  /\ sentByte' = IF sentByte + FrameLen < WordSize \div 2
                 THEN sentByte + FrameLen ELSE sentByte
  /\ added' = added + 1
  /\ UNCHANGED <<mainVars, r, wait_us, sent, driverVars, statVars, injected>>

\* The failed frame is counted too.
AddBytes ==
  /\ pc = "bytes" /\ pc' = "check"
  /\ sentByte' = Signed(sentByte + FrameLen)
  /\ added' = added + 1
  /\ UNCHANGED <<mainVars, r, wait_us, sent, driverVars, statVars, injected>>

\* The process returns and takes its thread along.
CheckResult ==
  /\ pc = "check" /\ pc' = IF r THEN "read" ELSE "failed"
  /\ UNCHANGED <<mainVars, r, wait_us, sent, sentByte, driverVars, statVars,
                 injected, added>>

\* Mutant: the pause grows with the free buffers.
WaitBackwards(buf) == 100 * (buf - NBuf)

\* wait
Wait(buf) == 100 * (NBuf - buf)

\* read() on the device copies buf_counter; without a device it fails, its
\* result is not looked at and buf_free stays uninitialised.
ReadCount ==
  /\ pc = "read"
  /\ \E buf_free \in IF opened THEN {bufCounter} ELSE Garbage :
       /\ wait_us' = Wait(buf_free)
       /\ pc' = IF Wait(buf_free) = 0 THEN "count" ELSE "sleep"
  /\ UNCHANGED <<mainVars, r, sent, sentByte, driverVars, statVars, injected,
                 added>>

Wake == /\ pc = "sleep" /\ pc' = "count"
        /\ UNCHANGED <<mainVars, r, wait_us, sent, sentByte, driverVars,
                       statVars, injected, added>>

\* Mutant: sent_packet++ == count.
CountUpLate ==
  /\ pc = "count"
  /\ sent' = (sent + 1) % WordSize
  /\ pc' = IF sent = count THEN "done" ELSE "inject"
  /\ UNCHANGED <<mainVars, r, wait_us, sentByte, driverVars, statVars,
                 injected, added>>

\* ++sent_packet == count
CountUp ==
  /\ pc = "count"
  /\ sent' = (sent + 1) % WordSize
  /\ pc' = IF sent' = count THEN "done" ELSE "inject"
  /\ UNCHANGED <<mainVars, r, wait_us, sentByte, driverVars, statVars,
                 injected, added>>

Main == Inject \/ InjectFails \/ AddBytes \/ CheckResult \/ ReadCount \/ Wake
          \/ CountUp

----------------------------------------------------------------------------
(* print_speed, which main cancels at its end *)
Running == pc \notin {"done", "failed"}

SampleStart ==
  /\ Running /\ sampler = "s_byte" /\ sampler' = "e_byte"
  /\ s_byte' = sentByte /\ sampled' = added
  /\ UNCHANGED <<pc, mainVars, r, wait_us, sent, sentByte, driverVars, e_byte,
                 endAdded, injected, added>>

SampleEnd ==
  /\ Running /\ sampler = "e_byte" /\ sampler' = "print"
  /\ e_byte' = sentByte /\ endAdded' = added
  /\ UNCHANGED <<pc, mainVars, r, wait_us, sent, sentByte, driverVars, s_byte,
                 sampled, injected, added>>

\* The bytes of the interval as the subtraction of two ints gives them.
Speed == Signed(e_byte - s_byte)

\* Then the loop starts over: the old readings are dead.
SamplePrint ==
  /\ Running /\ sampler = "print" /\ sampler' = "s_byte"
  /\ s_byte' = 0 /\ sampled' = 0 /\ e_byte' = 0 /\ endAdded' = 0
  /\ UNCHANGED <<pc, mainVars, r, wait_us, sent, sentByte, driverVars,
                 injected, added>>

----------------------------------------------------------------------------
(* The kernel *)

\* A frame leaves, its buffer comes back.
Complete ==
  /\ free < NBuf /\ free' = free + 1
  /\ UNCHANGED <<pc, mainVars, r, wait_us, sent, sentByte, asleep, txReady,
                 bufCounter, sincePulse, starved, statVars, injected, added>>

PowerChange ==
  /\ asleep' = ~asleep
  /\ UNCHANGED <<pc, mainVars, r, wait_us, sent, sentByte, free, txReady,
                 bufCounter, sincePulse, starved, statVars, injected, added>>

\* Mutant: the buffers in use are published.
UsedBuffers == NBuf - free

\* get_buf_size
FreeBuffers == free

\* A pulse of either handler of unlock.c: buf_counter = get_buf_size.
Pulse ==
  /\ txReady
  /\ bufCounter' = FreeBuffers
  /\ sincePulse' = 0 /\ starved' = 0
  /\ UNCHANGED <<pc, mainVars, r, wait_us, sent, sentByte, free, asleep,
                 txReady, statVars, injected, added>>

Next == Main \/ SampleStart \/ SampleEnd \/ SamplePrint \/ Complete
          \/ PowerChange \/ Pulse
Spec == Init /\ [][Next]_vars

----------------------------------------------------------------------------
TypeOK ==
  /\ pc \in {"inject", "bytes", "check", "read", "sleep", "count", "done", "failed"}
  /\ count \in CountArgs /\ opened \in BOOLEAN /\ r \in BOOLEAN
  /\ opened => wait_us \in 0..100 * NBuf
  /\ sent \in 0..WordSize - 1
  /\ {sentByte, s_byte, e_byte} \subseteq -(WordSize \div 2)..WordSize \div 2 - 1
  /\ free \in 0..NBuf /\ bufCounter \in 0..NBuf
  /\ asleep \in BOOLEAN /\ txReady \in BOOLEAN
  /\ sampler \in {"s_byte", "e_byte", "print"}

\* However stale the published count has become, it is a promise: as many
\* frames as it says can be injected after the pulse before one is dropped
\* for want of a buffer (unlock.c:81-82, main.c:960-964).
CountIsAPromise == starved > 0 => sincePulse > bufCounter

\* Asked for a number of frames, packetspammer ends after exactly that many
\* have reached the driver (packetspammer.c:415-432).  A count of 0 is not
\* such a number: the usage text calls it infinity (packetspammer.c:183), but
\* the comparison with a counter that wraps ends that loop as well.
StopsAtCount == pc = "done" /\ count # 0 => injected = count

\* The rate printed is that of the frames counted between the two readings,
\* even when sent_byte has wrapped in between, as long as the interval itself
\* fits an int (packetspammer.c:104-110,417).
SpeedSurvivesWrap ==
  sampler = "print" /\ FrameLen * (endAdded - sampled) < WordSize \div 2
    => Speed = FrameLen * (endAdded - sampled)
=============================================================================
