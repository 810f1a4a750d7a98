---------------------------- MODULE AudioEngine ----------------------------
(***************************************************************************)
(* CAudioEngine (src/src/audioengine.cpp): the two I2S DMA callbacks on    *)
(* core 0.  PutChunk broadcasts a captured chunk and queues it for the     *)
(* monitor; GetChunk refills the DAC from the monitor FIFO.  The driver    *)
(* serializes them under its spinlock (audioengine.h:12-14), so each       *)
(* callback is one step; in which order they come is the driver's affair.  *)
(*                                                                         *)
(* A captured word is its absolute index.  Ring words are only counted     *)
(* here: CaptureRing models CBroadcastRing::Write step by step.            *)
(***************************************************************************)
EXTENDS Integers, Sequences

CONSTANTS
  MONITOR_WORDS,  \* words of the monitor FIFO
  ChunkSizes,     \* the values of nChunkSize the driver passes
  MaxFrames       \* bound of the model: frames ever captured, and played

ASSUME EngineAssumption ==
  /\ MONITOR_WORDS \in Nat \ {0} /\ MONITOR_WORDS % 2 = 0
  /\ ChunkSizes \subseteq 1..MONITOR_WORDS
  /\ \A n \in ChunkSizes : n % 2 = 0
  /\ MaxFrames \in Nat

Silence == -1
Slot(k) == k % MONITOR_WORDS

VARIABLES
  nMonitorHead,     \* m_nMonitorHead: words pushed
  nMonitorTail,     \* m_nMonitorTail: words popped or dropped
  MonitorFifo,      \* m_MonitorFifo
  nRingHead,        \* words written to the capture ring
  nFramesCaptured, nFramesPlayed, nMonitorStarved, nMonitorDropped,
  pTx               \* the DMA buffer the last GetChunk filled

fifoVars == <<nMonitorHead, nMonitorTail, MonitorFifo>>
vars == <<fifoVars, nRingHead, nFramesCaptured, nFramesPlayed,
          nMonitorStarved, nMonitorDropped, pTx>>

Init ==
  /\ nMonitorHead = 0
  /\ nMonitorTail = 0
  /\ MonitorFifo = [s \in 0..MONITOR_WORDS-1 |-> Silence]
  /\ nRingHead = 0
  /\ nFramesCaptured = 0
  /\ nFramesPlayed = 0
  /\ nMonitorStarved = 0
  /\ nMonitorDropped = 0
  /\ pTx = << >>

-----------------------------------------------------------------------------
Level == nMonitorHead - nMonitorTail

\* How many of the oldest words make room for n more.
Overflow_BugSpareSlot(n) ==
  IF MONITOR_WORDS - Level <= n THEN n - (MONITOR_WORDS - Level) + 1 ELSE 0
Overflow_BugSpareFrame(n) ==
  IF MONITOR_WORDS - Level <= n THEN n - (MONITOR_WORDS - Level) + 2 ELSE 0
Overflow(n) ==
  IF MONITOR_WORDS - Level < n THEN n - (MONITOR_WORDS - Level) ELSE 0

\* The FIFO after words from..from+n-1 went to their slots, the last one wins.
Stored(from, n) ==
  [s \in 0..MONITOR_WORDS-1 |->
     LET W == {k \in from .. from + n - 1 : Slot(k) = s}
     IN  IF W = {} THEN MonitorFifo[s] ELSE CHOOSE k \in W : \A j \in W : j <= k]

CountDropped_BugWords(d) == nMonitorDropped' = nMonitorDropped + d
CountDropped(d) == nMonitorDropped' = nMonitorDropped + d \div 2

PutChunk(n) ==
  /\ nFramesCaptured + n \div 2 <= MaxFrames
  /\ nRingHead' = nRingHead + n
  /\ nMonitorTail' = nMonitorTail + Overflow(n)
  /\ CountDropped(Overflow(n))
  /\ MonitorFifo' = Stored(nMonitorHead, n)
  /\ nMonitorHead' = nMonitorHead + n
  /\ nFramesCaptured' = nFramesCaptured + n \div 2
  /\ UNCHANGED <<nFramesPlayed, nMonitorStarved, pTx>>

\* How many words the FIFO can give to a refill of n.
Copied_BugKeepsFrame(n) == IF Level < n THEN Level ELSE n - 2
Copied_BugShort(n) == IF Level < n THEN 0 ELSE n
Copied(n) == IF Level < n THEN Level ELSE n

\* Always a full chunk: a short one stops the stream for good.
GetChunk(n) ==
  /\ nFramesPlayed + n \div 2 <= MaxFrames
  /\ pTx' = [i \in 1..n |-> IF i <= Copied(n)
                            THEN MonitorFifo[Slot(nMonitorTail + i - 1)]
                            ELSE Silence]
  /\ nMonitorTail' = nMonitorTail + Copied(n)
  /\ nMonitorStarved' = nMonitorStarved + (n - Copied(n)) \div 2
  /\ nFramesPlayed' = nFramesPlayed + n \div 2
  /\ UNCHANGED <<nMonitorHead, MonitorFifo, nRingHead, nFramesCaptured,
                 nMonitorDropped>>

Next == \E n \in ChunkSizes : PutChunk(n) \/ GetChunk(n)

Spec == Init /\ [][Next]_vars

-----------------------------------------------------------------------------
(* Properties *)

TypeOK ==
  /\ nMonitorHead \in Nat /\ nMonitorTail \in Nat /\ nRingHead \in Nat
  /\ MonitorFifo \in [0..MONITOR_WORDS-1 -> Nat \cup {Silence}]
  /\ nFramesCaptured \in Nat /\ nFramesPlayed \in Nat
  /\ nMonitorStarved \in Nat /\ nMonitorDropped \in Nat
  /\ pTx \in Seq(Nat \cup {Silence})

\* The level stays within the FIFO, so the u64 subtraction of nFree
\* (audioengine.cpp:37) cannot wrap and no unplayed word is overwritten.
FifoBounded == Level \in 0..MONITOR_WORDS

\* Every frame is accounted for: what the FIFO took in is what was captured,
\* what left it was either dropped or really played, and the ring has the same
\* words.  The stats line is "our only visibility" (audioengine.h:17-19).
FramesAddUp ==
  /\ nRingHead = nMonitorHead
  /\ nMonitorHead = 2 * nFramesCaptured
  /\ nMonitorTail = 2 * nMonitorDropped + 2 * (nFramesPlayed - nMonitorStarved)

\* Whatever is dropped or missing, left stays left: a word is played on the
\* channel it was captured from (L at even index, config.h:15).
ChannelsKept ==
  \A i \in 1..Len(pTx) : pTx[i] # Silence => pTx[i] % 2 = (i - 1) % 2

\* Every word in the FIFO's window is in its slot.
WindowInv ==
  \A k \in nMonitorTail .. nMonitorHead - 1 : MonitorFifo[Slot(k)] = k

\* The inductive invariant.
EngineInv == TypeOK /\ FifoBounded /\ FramesAddUp /\ WindowInv /\ ChannelsKept

\* The FIFO implements a queue that drops its oldest words when it is full.
Queue == INSTANCE MonitorQueue WITH
  Limit <- MONITOR_WORDS,
  Sizes <- ChunkSizes,
  taken <- nMonitorHead,
  queue <- [i \in 1..Level |-> MonitorFifo[Slot(nMonitorTail + i - 1)]],
  heard <- pTx

\* Every behaviour of the FIFO is a behaviour of the queue.
ImplementsQueue == Queue!Spec
=============================================================================
