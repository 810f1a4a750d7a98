---------------------------- MODULE MonitorProofs ----------------------------
(***************************************************************************)
(* Proofs about the monitor path.  First AudioEngine, for every even FIFO  *)
(* length, every set of even chunk sizes that fit it, any order of the     *)
(* callbacks and a run of any length; they cite EngineAssumption alone.    *)
(* Then MonitorLatency, for every FIFO, chunk and skew that fits.          *)
(***************************************************************************)
EXTENDS MonitorLatency, SequenceTheorems, TLAPS

-----------------------------------------------------------------------------
(* Facts about the constants and the helpers. *)

\* What EngineAssumption gives to arithmetic: a chunk is a number of frames.
LEMMA ConstantFacts ==
  /\ MONITOR_WORDS \in Nat /\ MONITOR_WORDS > 0
  /\ MONITOR_WORDS = 2 * (MONITOR_WORDS \div 2) /\ MONITOR_WORDS \div 2 \in Nat
  /\ \A n \in ChunkSizes : /\ n \in Nat /\ 1 <= n /\ n <= MONITOR_WORDS
                           /\ n \div 2 \in Nat /\ n = 2 * (n \div 2)
<1>1. \A n \in Nat : n % 2 = 0 => n \div 2 \in Nat /\ n = 2 * (n \div 2)
  OBVIOUS
<1> QED BY <1>1, EngineAssumption DEF EngineAssumption

\* Every index has a slot in the FIFO.
LEMMA SlotInFifo ==
  ASSUME NEW k \in Nat
  PROVE  Slot(k) \in 0 .. MONITOR_WORDS - 1
BY ConstantFacts DEF Slot

\* Two words less than a FIFO apart never share a slot.
LEMMA SlotsDistinct ==
  ASSUME NEW a \in Nat, NEW b \in Nat, a < b, b < a + MONITOR_WORDS
  PROVE  Slot(a) # Slot(b)
<1> SUFFICES ASSUME Slot(a) = Slot(b) PROVE FALSE
  OBVIOUS
<1> DEFINE q == b \div MONITOR_WORDS - a \div MONITOR_WORDS
<1>1. q \in Int /\ b - a = MONITOR_WORDS * q
  BY ConstantFacts DEF Slot
<1> HIDE DEF q
<1>2. q >= 1 => MONITOR_WORDS * q >= MONITOR_WORDS
  BY <1>1, ConstantFacts
<1>3. q <= 0 => MONITOR_WORDS * q <= 0
  BY <1>1, ConstantFacts
<1> QED BY <1>1, <1>2, <1>3, ConstantFacts

\* The store loop puts each word of a chunk that fits into its slot, and
\* leaves alone the slots of the words less than a FIFO older than its end.
LEMMA StoredFacts ==
  ASSUME NEW from \in Nat, NEW n \in ChunkSizes,
         MonitorFifo \in [0..MONITOR_WORDS-1 -> Nat \cup {Silence}]
  PROVE  /\ Stored(from, n) \in [0..MONITOR_WORDS-1 -> Nat \cup {Silence}]
         /\ \A k \in from .. from + n - 1 : Stored(from, n)[Slot(k)] = k
         /\ \A k \in Nat : k < from /\ from + n - MONITOR_WORDS <= k
              => Stored(from, n)[Slot(k)] = MonitorFifo[Slot(k)]
<1> DEFINE W(s) == {k \in from .. from + n - 1 : Slot(k) = s}
<1>0. n \in Nat /\ 1 <= n /\ n <= MONITOR_WORDS /\ MONITOR_WORDS \in Nat
  BY ConstantFacts
<1>1. \A k, j \in from .. from + n - 1 : Slot(k) = Slot(j) => k = j
  <2> SUFFICES ASSUME NEW k \in from .. from + n - 1, NEW j \in from .. from + n - 1, k < j
               PROVE  Slot(k) # Slot(j)
    BY <1>0
  <2>1. k \in Nat /\ j \in Nat /\ j < k + MONITOR_WORDS
    BY <1>0
  <2> QED BY <2>1, SlotsDistinct
<1>2. ASSUME NEW s, NEW k \in W(s)
      PROVE  (CHOOSE m \in W(s) : \A j \in W(s) : j <= m) = k
  <2>1. W(s) = {k}
    BY <1>1
  <2>2. k <= k
    BY <1>0
  <2> QED BY <2>1, <2>2
<1>3. ASSUME NEW k \in from .. from + n - 1
      PROVE  Stored(from, n)[Slot(k)] = k
  <2>1. k \in W(Slot(k)) /\ k \in Nat
    BY <1>0
  <2>2. Slot(k) \in 0 .. MONITOR_WORDS - 1
    BY <2>1, SlotInFifo
  <2> QED BY <1>2, <2>1, <2>2 DEF Stored
<1>4. ASSUME NEW k \in Nat, k < from, from + n - MONITOR_WORDS <= k
      PROVE  Stored(from, n)[Slot(k)] = MonitorFifo[Slot(k)]
  <2>1. ASSUME NEW j \in from .. from + n - 1
        PROVE  Slot(k) # Slot(j)
    <3>1. j \in Nat /\ k < j /\ j < k + MONITOR_WORDS
      BY <1>4, <1>0
    <3> QED BY <3>1, SlotsDistinct
  <2>2. W(Slot(k)) = {} /\ Slot(k) \in 0 .. MONITOR_WORDS - 1
    BY <2>1, SlotInFifo
  <2> QED BY <2>2 DEF Stored
<1>5. ASSUME NEW s \in 0..MONITOR_WORDS-1
      PROVE  Stored(from, n)[s] \in Nat \cup {Silence}
  <2>1. CASE W(s) = {}
    BY <2>1 DEF Stored
  <2>2. CASE W(s) # {}
    <3>1. PICK k \in W(s) : TRUE
      BY <2>2
    <3>2. Stored(from, n)[s] = k
      BY <1>2, <2>2, <3>1 DEF Stored
    <3> QED BY <3>1, <3>2, <1>0
  <2> QED BY <2>1, <2>2
<1>6. Stored(from, n) = [s \in 0..MONITOR_WORDS-1 |-> Stored(from, n)[s]]
  BY DEF Stored
<1> QED BY <1>3, <1>4, <1>5, <1>6

-----------------------------------------------------------------------------
(* EngineInv is inductive. *)

\* Head and tail in frames: both are even, and the tail never passes the head.
LEMMA LevelFacts ==
  ASSUME EngineInv
  PROVE  /\ nMonitorHead \in Nat /\ nMonitorTail \in Nat
         /\ Level \in Nat /\ Level <= MONITOR_WORDS
         /\ nMonitorHead = nMonitorTail + Level
         /\ Level \div 2 \in Nat /\ Level = 2 * (Level \div 2)
         /\ nMonitorTail % 2 = 0
<1>1. /\ nMonitorHead \in Nat /\ nMonitorTail \in Nat /\ Level \in Nat
      /\ Level <= MONITOR_WORDS /\ Level = nMonitorHead - nMonitorTail
  BY ConstantFacts DEF EngineInv, TypeOK, FifoBounded, Level
<1> DEFINE t == nMonitorDropped + nFramesPlayed - nMonitorStarved
           l == nFramesCaptured - t
<1>2. t \in Int /\ l \in Int /\ nMonitorTail = 2 * t /\ Level = 2 * l
  BY <1>1 DEF EngineInv, TypeOK, FramesAddUp
<1> HIDE DEF t, l
<1>3. l \in Nat /\ Level \div 2 = l /\ nMonitorTail % 2 = 0
  BY <1>1, <1>2
<1> QED BY <1>1, <1>2, <1>3

\* The invariant holds at power-on.
LEMMA InitEngineInv == Init => EngineInv
BY ConstantFacts
   DEF Init, EngineInv, TypeOK, FifoBounded, FramesAddUp, WindowInv, ChannelsKept, Level

\* A captured chunk preserves the invariant.
LEMMA PutPreserves ==
  ASSUME EngineInv, NEW n \in ChunkSizes, PutChunk(n)
  PROVE  EngineInv'
<1> DEFINE d == Overflow(n)
<1>1. /\ d \in Nat /\ d <= Level /\ d \div 2 \in Nat /\ d = 2 * (d \div 2)
      /\ Level + n - d <= MONITOR_WORDS
  <2>1. CASE MONITOR_WORDS - Level < n
    <3> DEFINE h == n \div 2 - MONITOR_WORDS \div 2 + Level \div 2
    <3>1. h \in Int /\ d = 2 * h /\ d \in Nat
      BY <2>1, ConstantFacts, LevelFacts DEF Overflow
    <3> HIDE DEF h
    <3> QED BY <2>1, <3>1, ConstantFacts, LevelFacts DEF Overflow
  <2>2. CASE ~(MONITOR_WORDS - Level < n)
    BY <2>2, ConstantFacts, LevelFacts DEF Overflow
  <2> QED BY <2>1, <2>2
<1>2. /\ nMonitorTail' = nMonitorTail + d
      /\ nMonitorHead' = nMonitorHead + n
      /\ nMonitorDropped' = nMonitorDropped + d \div 2
      /\ nFramesCaptured' = nFramesCaptured + n \div 2
      /\ nRingHead' = nRingHead + n
      /\ MonitorFifo' = Stored(nMonitorHead, n)
      /\ UNCHANGED <<nFramesPlayed, nMonitorStarved, pTx>>
  BY DEF PutChunk, CountDropped
<1> HIDE DEF d
<1>3. TypeOK /\ FramesAddUp /\ WindowInv /\ ChannelsKept
  BY DEF EngineInv
<1>4. TypeOK'
  <2>1. nMonitorHead \in Nat /\ MonitorFifo \in [0..MONITOR_WORDS-1 -> Nat \cup {Silence}]
    BY <1>3 DEF TypeOK
  <2>2. MonitorFifo' \in [0..MONITOR_WORDS-1 -> Nat \cup {Silence}]
    BY <1>2, <2>1, StoredFacts
  <2>3. n \in Nat /\ n \div 2 \in Nat
    BY ConstantFacts
  <2> QED BY <1>1, <1>2, <1>3, <2>2, <2>3 DEF TypeOK
<1>5. FifoBounded'
  BY <1>1, <1>2, ConstantFacts, LevelFacts DEF FifoBounded, Level
<1>6. FramesAddUp'
  BY <1>1, <1>2, <1>3, ConstantFacts DEF FramesAddUp, TypeOK
<1>7. WindowInv'
  <2> SUFFICES ASSUME NEW k \in nMonitorTail' .. nMonitorHead' - 1
               PROVE  MonitorFifo'[Slot(k)] = k
    BY DEF WindowInv
  <2>1. k \in Nat /\ nMonitorHead \in Nat /\ n \in Nat
    BY <1>1, <1>2, LevelFacts, ConstantFacts
  <2>2. CASE k >= nMonitorHead
    BY <1>2, <1>3, <2>1, <2>2, StoredFacts DEF TypeOK
  <2>3. CASE k < nMonitorHead
    <3>1. nMonitorHead + n - MONITOR_WORDS <= k /\ nMonitorTail <= k
      BY <1>1, <1>2, LevelFacts, ConstantFacts
    <3>2. MonitorFifo'[Slot(k)] = MonitorFifo[Slot(k)]
      BY <1>2, <1>3, <2>1, <2>3, <3>1, StoredFacts DEF TypeOK
    <3> QED BY <1>3, <2>1, <2>3, <3>1, <3>2, LevelFacts DEF WindowInv
  <2> QED BY <2>1, <2>2, <2>3
<1>8. ChannelsKept'
  BY <1>2, <1>3 DEF ChannelsKept
<1> QED BY <1>4, <1>5, <1>6, <1>7, <1>8 DEF EngineInv

\* What a refill hands out: the oldest words, then silence.
LEMMA GetFacts ==
  ASSUME EngineInv, NEW n \in ChunkSizes, GetChunk(n)
  PROVE  /\ Copied(n) \in Nat /\ Copied(n) <= n /\ Copied(n) <= Level
         /\ Copied(n) = n \/ Copied(n) = Level
         /\ Copied(n) \div 2 \in Nat /\ Copied(n) = 2 * (Copied(n) \div 2)
         /\ pTx' \in Seq(Nat \cup {Silence}) /\ Len(pTx') = n
         /\ \A i \in 1..n : pTx'[i] = IF i <= Copied(n) THEN nMonitorTail + i - 1 ELSE Silence
<1>1. /\ Copied(n) \in Nat /\ Copied(n) <= n /\ Copied(n) <= Level
      /\ Copied(n) = n \/ Copied(n) = Level
      /\ Copied(n) \div 2 \in Nat /\ Copied(n) = 2 * (Copied(n) \div 2)
  BY ConstantFacts, LevelFacts DEF Copied
<1>2. pTx' = [i \in 1..n |-> IF i <= Copied(n)
                             THEN MonitorFifo[Slot(nMonitorTail + i - 1)] ELSE Silence]
  BY DEF GetChunk
<1>3. ASSUME NEW i \in 1..n, i <= Copied(n)
      PROVE  MonitorFifo[Slot(nMonitorTail + i - 1)] = nMonitorTail + i - 1
  <2>1. nMonitorTail + i - 1 \in nMonitorTail .. nMonitorHead - 1
    BY <1>1, <1>3, LevelFacts, ConstantFacts
  <2> QED BY <2>1 DEF EngineInv, WindowInv
<1>4. \A i \in 1..n : pTx'[i] = IF i <= Copied(n) THEN nMonitorTail + i - 1 ELSE Silence
  BY <1>2, <1>3
<1>5. \A i \in 1..n : pTx'[i] \in Nat \cup {Silence}
  BY <1>4, LevelFacts, ConstantFacts
<1>6. n \in Nat /\ pTx' = [i \in 1..n |-> pTx'[i]]
  BY <1>2, ConstantFacts
<1>7. pTx' \in Seq(Nat \cup {Silence}) /\ Len(pTx') = n
  BY <1>5, <1>6
<1> QED BY <1>1, <1>4, <1>7

\* A refill preserves the invariant.
LEMMA GetPreserves ==
  ASSUME EngineInv, NEW n \in ChunkSizes, GetChunk(n)
  PROVE  EngineInv'
<1> DEFINE c == Copied(n)
<1>1. /\ c \in Nat /\ c <= n /\ c <= Level /\ c \div 2 \in Nat /\ c = 2 * (c \div 2)
  BY GetFacts
<1>2. /\ nMonitorTail' = nMonitorTail + c
      /\ nMonitorStarved' = nMonitorStarved + (n - c) \div 2
      /\ nFramesPlayed' = nFramesPlayed + n \div 2
      /\ UNCHANGED <<nMonitorHead, MonitorFifo, nRingHead, nFramesCaptured, nMonitorDropped>>
  BY DEF GetChunk
<1>3. TypeOK /\ FramesAddUp /\ WindowInv
  BY DEF EngineInv
<1>4. (n - c) \div 2 = n \div 2 - c \div 2 /\ (n - c) \div 2 \in Nat
  BY <1>1, ConstantFacts
<1> HIDE DEF c
<1>5. TypeOK'
  <2>1. pTx' \in Seq(Nat \cup {Silence})
    BY GetFacts
  <2>2. n \in Nat /\ n \div 2 \in Nat
    BY ConstantFacts
  <2> QED BY <1>1, <1>2, <1>3, <1>4, <2>1, <2>2 DEF TypeOK
<1>6. FifoBounded'
  BY <1>1, <1>2, ConstantFacts, LevelFacts DEF FifoBounded, Level
<1>7. FramesAddUp'
  <2> DEFINE h == n \div 2
             g == c \div 2
  <2>1. h \in Nat /\ g \in Nat /\ c = 2 * g /\ nMonitorStarved' = nMonitorStarved + (h - g)
    BY <1>1, <1>2, <1>4, ConstantFacts
  <2>2. nMonitorTail' = nMonitorTail + 2 * g /\ nFramesPlayed' = nFramesPlayed + h
    BY <1>2, <2>1
  <2> HIDE DEF h, g
  <2> QED BY <1>2, <1>3, <2>1, <2>2 DEF FramesAddUp, TypeOK
<1>8. WindowInv'
  BY <1>1, <1>2, <1>3, LevelFacts DEF WindowInv
<1>9. ChannelsKept'
  <2> SUFFICES ASSUME NEW i \in 1 .. Len(pTx'), pTx'[i] # Silence
               PROVE  pTx'[i] % 2 = (i - 1) % 2
    BY DEF ChannelsKept
  <2>1. i \in 1..n /\ pTx'[i] = nMonitorTail + i - 1
    BY GetFacts
  <2>2. PICK t \in Nat : nMonitorTail = 2 * t
    <3>1. nMonitorTail \in Nat /\ nMonitorTail % 2 = 0
      BY LevelFacts
    <3>2. nMonitorTail \div 2 \in Nat /\ nMonitorTail = 2 * (nMonitorTail \div 2)
      BY <3>1
    <3> QED BY <3>2
  <2>3. i \in Nat /\ i >= 1
    BY <2>1, ConstantFacts
  <2>4. (2 * t + (i - 1)) % 2 = (i - 1) % 2
    BY <2>3
  <2> QED BY <2>1, <2>2, <2>3, <2>4
<1> QED BY <1>5, <1>6, <1>7, <1>8, <1>9 DEF EngineInv

\* The inductive invariant holds in every reachable state of the engine.
THEOREM EngineInvariant == Spec => []EngineInv
<1>1. EngineInv /\ [Next]_vars => EngineInv'
  <2> SUFFICES ASSUME EngineInv, [Next]_vars PROVE EngineInv'
    OBVIOUS
  <2>1. CASE UNCHANGED vars
    BY <2>1 DEF vars, fifoVars, EngineInv, TypeOK, FifoBounded, FramesAddUp, WindowInv,
         ChannelsKept, Level
  <2> QED BY <2>1, PutPreserves, GetPreserves DEF Next
<1> QED BY InitEngineInv, <1>1, PTL DEF Spec

\* The level stays within the FIFO and every frame is accounted for, in
\* whatever order the driver calls back.
THEOREM MonitorIsSound == Spec => [](TypeOK /\ FifoBounded /\ FramesAddUp)
<1>1. EngineInv => TypeOK /\ FifoBounded /\ FramesAddUp
  BY DEF EngineInv
<1> QED BY EngineInvariant, <1>1, PTL

\* Whatever is dropped or missing, every word is played on its channel.
THEOREM WordsKeepTheirChannel == Spec => []ChannelsKept
<1>1. EngineInv => ChannelsKept
  BY DEF EngineInv
<1> QED BY EngineInvariant, <1>1, PTL

-----------------------------------------------------------------------------
(* Refinement: every callback is a step of the queue. *)

\* Length and elements of a run of words, and of silence.
LEMMA WordsFacts ==
  ASSUME NEW from \in Nat, NEW n \in Nat
  PROVE  /\ Queue!Words(from, n) \in Seq(Int) /\ Len(Queue!Words(from, n)) = n
         /\ \A i \in 1..n : Queue!Words(from, n)[i] = from + i - 1
         /\ Queue!Quiet(n) \in Seq(Int) /\ Len(Queue!Quiet(n)) = n
         /\ \A i \in 1..n : Queue!Quiet(n)[i] = -1
BY DEF Queue!Words, Queue!Quiet

\* Consecutive runs of words concatenate to one.
LEMMA WordsConcat ==
  ASSUME NEW from \in Nat, NEW n \in Nat, NEW m \in Nat
  PROVE  Queue!Words(from, n) \o Queue!Words(from + n, m) = Queue!Words(from, n + m)
<1> DEFINE s == Queue!Words(from, n)
           t == Queue!Words(from + n, m)
           u == Queue!Words(from, n + m)
<1>1. /\ s \in Seq(Int) /\ Len(s) = n /\ \A i \in 1..n : s[i] = from + i - 1
      /\ t \in Seq(Int) /\ Len(t) = m /\ \A i \in 1..m : t[i] = from + n + i - 1
      /\ u \in Seq(Int) /\ Len(u) = n + m /\ \A i \in 1..n+m : u[i] = from + i - 1
  <2>1. from + n \in Nat /\ n + m \in Nat
    OBVIOUS
  <2> QED BY <2>1, WordsFacts
<1> HIDE DEF s, t, u
<1>2. /\ s \o t \in Seq(Int) /\ Len(s \o t) = n + m
      /\ \A i \in 1 .. n + m : (s \o t)[i] = IF i <= n THEN s[i] ELSE t[i - n]
  <2>1. s \in Seq(Int) /\ t \in Seq(Int) /\ Len(s) = n /\ Len(t) = m
    BY <1>1
  <2>2. /\ s \o t \in Seq(Int) /\ Len(s \o t) = Len(s) + Len(t)
        /\ \A i \in 1 .. Len(s) + Len(t) :
             (s \o t)[i] = IF i <= Len(s) THEN s[i] ELSE t[i - Len(s)]
    BY ONLY <2>1, ConcatProperties
  <2> QED BY ONLY <2>1, <2>2
<1>3. ASSUME NEW i \in 1 .. n + m
      PROVE  (s \o t)[i] = u[i]
  <2>1. CASE i <= n
    BY <1>1, <1>2, <2>1
  <2>2. CASE ~(i <= n)
    <3>1. i - n \in 1..m /\ from + n + (i - n) - 1 = from + i - 1
      BY <2>2
    <3> QED BY <1>1, <1>2, <2>2, <3>1
  <2> QED BY <2>1, <2>2
<1>4. s \o t = u
  BY <1>1, <1>2, <1>3, SeqEqual
<1> QED BY <1>4 DEF s, t, u

\* A part of a run of words is a run of words.
LEMMA WordsSubSeq ==
  ASSUME NEW from \in Nat, NEW n \in Nat, NEW a \in 1 .. n + 1, NEW b \in 0 .. n, a <= b + 1
  PROVE  SubSeq(Queue!Words(from, n), a, b) = Queue!Words(from + a - 1, b - a + 1)
<1> DEFINE s == Queue!Words(from, n)
           u == Queue!Words(from + a - 1, b - a + 1)
           v == SubSeq(s, a, b)
<1>1. /\ s \in Seq(Int) /\ Len(s) = n /\ \A i \in 1..n : s[i] = from + i - 1
      /\ u \in Seq(Int) /\ Len(u) = b - a + 1
      /\ \A i \in 1 .. b - a + 1 : u[i] = from + a - 1 + i - 1
  <2>1. from + a - 1 \in Nat /\ b - a + 1 \in Nat
    OBVIOUS
  <2> QED BY <2>1, WordsFacts
<1> HIDE DEF s, u
<1>2. \A i \in a..b : s[i] \in Int
  BY <1>1
<1>3. /\ v \in Seq(Int) /\ Len(v) = b - a + 1
      /\ \A i \in 1 .. b - a + 1 : v[i] = s[a + i - 1]
  BY <1>2, SubSeqProperties
<1> HIDE DEF v
<1>4. \A i \in 1 .. b - a + 1 : v[i] = u[i]
  BY <1>1, <1>3
<1>5. v = u
  BY <1>1, <1>3, <1>4, SeqEqual
<1> QED BY <1>5 DEF s, u, v

\* The queue the FIFO stands for: the words from tail to head.
TheQueue == [i \in 1..Level |-> MonitorFifo[Slot(nMonitorTail + i - 1)]]

\* By the invariant the queue is the words from tail to head.
LEMMA QueueIsWords ==
  ASSUME EngineInv
  PROVE  TheQueue = Queue!Words(nMonitorTail, Level)
<1>1. \A i \in 1..Level : nMonitorTail + i - 1 \in nMonitorTail .. nMonitorHead - 1
  BY LevelFacts
<1>2. \A i \in 1..Level : MonitorFifo[Slot(nMonitorTail + i - 1)] = nMonitorTail + i - 1
  BY <1>1 DEF EngineInv, WindowInv
<1> QED BY <1>2 DEF TheQueue, Queue!Words

\* The empty FIFO is the empty queue.
LEMMA QueueInit == Init => Queue!Init
BY DEF Init, Queue!Init, Level

\* PutChunk is the queue's Put: what the FIFO drops is what is too much.
LEMMA PutSimulates ==
  ASSUME EngineInv, NEW n \in ChunkSizes, PutChunk(n)
  PROVE  Queue!Put(n)
<1> DEFINE d == Overflow(n)
<1>1. /\ n \in Nat /\ nMonitorTail \in Nat /\ Level \in Nat /\ Level <= MONITOR_WORDS
      /\ n <= MONITOR_WORDS /\ MONITOR_WORDS \in Nat
      /\ nMonitorHead = nMonitorTail + Level
  BY LevelFacts, ConstantFacts
<1>2. /\ nMonitorTail' = nMonitorTail + d /\ nMonitorHead' = nMonitorHead + n
      /\ pTx' = pTx
  BY DEF PutChunk
<1>3. d \in Nat /\ d = IF MONITOR_WORDS < Level + n THEN Level + n - MONITOR_WORDS ELSE 0
  BY <1>1 DEF Overflow
<1> HIDE DEF d
<1>4. Level' = Level + n - d
  BY <1>1, <1>2, <1>3 DEF Level
<1>5. TheQueue' = Queue!Words(nMonitorTail + d, Level + n - d)
  <2>1. EngineInv'
    BY PutPreserves
  <2> DEFINE t == nMonitorTail + d
             l == Level + n - d
  <2>2. t \in Nat /\ l \in Nat /\ nMonitorTail' = t /\ nMonitorHead' = t + l /\ Level' = l
    BY <1>1, <1>2, <1>3, <1>4
  <2> HIDE DEF t, l
  <2>3. \A i \in 1..l : MonitorFifo'[Slot(t + i - 1)] = t + i - 1
    <3>1. \A i \in 1..l : t + i - 1 \in t .. t + l - 1
      BY <2>2
    <3> QED BY <2>1, <2>2, <3>1 DEF EngineInv, WindowInv
  <2>4. TheQueue' = [i \in 1..l |-> MonitorFifo'[Slot(t + i - 1)]]
    BY <2>2 DEF TheQueue
  <2>5. TheQueue' = Queue!Words(t, l)
    BY <2>3, <2>4 DEF Queue!Words
  <2> QED BY <2>5 DEF t, l
<1> DEFINE all == TheQueue \o Queue!Words(nMonitorHead, n)
<1>6. all = Queue!Words(nMonitorTail, Level + n) /\ Level + n \in Nat
  <2>1. TheQueue = Queue!Words(nMonitorTail, Level)
    BY QueueIsWords
  <2>2. Queue!Words(nMonitorTail, Level) \o Queue!Words(nMonitorTail + Level, n)
          = Queue!Words(nMonitorTail, Level + n)
    BY <1>1, WordsConcat
  <2> QED BY <1>1, <2>1, <2>2
<1> HIDE DEF all
<1>7. Len(all) = Level + n
  <2>1. Len(Queue!Words(nMonitorTail, Level + n)) = Level + n
    BY <1>1, <1>6, WordsFacts
  <2> QED BY <1>6, <2>1
<1>8. Queue!Newest(all) = Queue!Words(nMonitorTail + d, Level + n - d)
  <2>1. CASE Level + n <= MONITOR_WORDS
    <3>1. Queue!Newest(all) = all /\ d = 0
      BY <1>1, <1>3, <1>7, <2>1 DEF Queue!Newest
    <3>2. nMonitorTail + d = nMonitorTail /\ Level + n - d = Level + n
      BY <1>1, <3>1
    <3> QED BY <1>6, <3>1, <3>2
  <2>2. CASE ~(Level + n <= MONITOR_WORDS)
    <3>1. d = Level + n - MONITOR_WORDS
      BY <1>1, <1>3, <2>2
    <3>2. Queue!Newest(all) = SubSeq(all, d + 1, Level + n)
      BY <1>1, <1>7, <2>2, <3>1 DEF Queue!Newest
    <3>3. SubSeq(Queue!Words(nMonitorTail, Level + n), d + 1, Level + n)
            = Queue!Words(nMonitorTail + (d + 1) - 1, (Level + n) - (d + 1) + 1)
      <4>1. /\ Level + n \in Nat /\ d + 1 \in 1 .. Level + n + 1
            /\ Level + n \in 0 .. Level + n /\ d + 1 <= Level + n + 1
        BY <1>1, <1>3, <3>1
      <4> QED BY <1>1, <4>1, WordsSubSeq
    <3>4. nMonitorTail + (d + 1) - 1 = nMonitorTail + d /\ (Level + n) - (d + 1) + 1 = Level + n - d
      BY <1>1, <1>3
    <3> QED BY <1>6, <3>2, <3>3, <3>4
  <2> QED BY <2>1, <2>2
<1> QED BY <1>2, <1>5, <1>8 DEF Queue!Put, TheQueue, all

\* GetChunk is the queue's Get: the oldest words, then silence.
LEMMA GetSimulates ==
  ASSUME EngineInv, NEW n \in ChunkSizes, GetChunk(n)
  PROVE  Queue!Get(n)
<1> DEFINE c == Copied(n)
<1>1. /\ n \in Nat /\ nMonitorTail \in Nat /\ Level \in Nat
      /\ nMonitorHead = nMonitorTail + Level
  BY LevelFacts, ConstantFacts
<1>2. /\ c \in 0..n /\ c <= Level /\ (c = n \/ c = Level)
      /\ pTx' \in Seq(Nat \cup {Silence}) /\ Len(pTx') = n
      /\ \A i \in 1..n : pTx'[i] = IF i <= c THEN nMonitorTail + i - 1 ELSE Silence
  BY <1>1, GetFacts
<1>3. nMonitorTail' = nMonitorTail + c /\ nMonitorHead' = nMonitorHead
  BY DEF GetChunk
<1> HIDE DEF c
<1>4. Level' = Level - c
  BY <1>1, <1>2, <1>3 DEF Level
<1>5. TheQueue = Queue!Words(nMonitorTail, Level) /\ Len(TheQueue) = Level
  BY <1>1, QueueIsWords, WordsFacts
<1>6. TheQueue' = SubSeq(TheQueue, c + 1, Len(TheQueue))
  <2>1. EngineInv'
    BY GetPreserves
  <2> DEFINE t == nMonitorTail + c
             l == Level - c
  <2>2. t \in Nat /\ l \in Nat /\ nMonitorTail' = t /\ nMonitorHead' = t + l /\ Level' = l
    BY <1>1, <1>2, <1>3, <1>4
  <2> HIDE DEF t, l
  <2>3. \A i \in 1..l : MonitorFifo'[Slot(t + i - 1)] = t + i - 1
    <3>1. \A i \in 1..l : t + i - 1 \in t .. t + l - 1
      BY <2>2
    <3> QED BY <2>1, <2>2, <3>1 DEF EngineInv, WindowInv
  <2>6. TheQueue' = [i \in 1..l |-> MonitorFifo'[Slot(t + i - 1)]]
    BY <2>2 DEF TheQueue
  <2>7. TheQueue' = Queue!Words(nMonitorTail + c, Level - c)
    <3>1. TheQueue' = Queue!Words(t, l)
      BY <2>3, <2>6 DEF Queue!Words
    <3> QED BY <3>1 DEF t, l
  <2>4. SubSeq(Queue!Words(nMonitorTail, Level), c + 1, Level)
          = Queue!Words(nMonitorTail + (c + 1) - 1, Level - (c + 1) + 1)
    <3>1. c + 1 \in 1 .. Level + 1 /\ Level \in 0 .. Level /\ c + 1 <= Level + 1
      BY <1>1, <1>2
    <3> QED BY <1>1, <3>1, WordsSubSeq
  <2>5. nMonitorTail + (c + 1) - 1 = nMonitorTail + c /\ Level - (c + 1) + 1 = Level - c
    BY <1>1, <1>2
  <2> QED BY <1>5, <2>4, <2>5, <2>7
<1>7. pTx' = SubSeq(TheQueue, 1, c) \o Queue!Quiet(n - c)
  <2> DEFINE p == SubSeq(TheQueue, 1, c)
             q == Queue!Quiet(n - c)
  <2>1. SubSeq(Queue!Words(nMonitorTail, Level), 1, c)
          = Queue!Words(nMonitorTail + 1 - 1, c - 1 + 1)
    <3>1. 1 \in 1 .. Level + 1 /\ c \in 0 .. Level /\ 1 <= c + 1
      BY <1>1, <1>2
    <3> QED BY <1>1, <3>1, WordsSubSeq
  <2>2. p = Queue!Words(nMonitorTail, c)
    BY <1>1, <1>2, <1>5, <2>1, nMonitorTail + 1 - 1 = nMonitorTail, c - 1 + 1 = c
  <2>3. /\ p \in Seq(Int) /\ Len(p) = c /\ \A i \in 1..c : p[i] = nMonitorTail + i - 1
        /\ q \in Seq(Int) /\ Len(q) = n - c /\ \A i \in 1 .. n - c : q[i] = -1
    <3>1. c \in Nat /\ n - c \in Nat
      BY <1>1, <1>2
    <3>2. LET w == Queue!Words(nMonitorTail, c)
          IN  w \in Seq(Int) /\ Len(w) = c /\ \A i \in 1..c : w[i] = nMonitorTail + i - 1
      BY <1>1, <3>1, WordsFacts
    <3>3. q \in Seq(Int) /\ Len(q) = n - c /\ \A i \in 1 .. n - c : q[i] = -1
      BY <1>1, <3>1, WordsFacts
    <3> HIDE DEF p, q
    <3> QED BY <2>2, <3>2, <3>3
  <2> HIDE DEF p, q
  <2>4. /\ p \o q \in Seq(Int) /\ Len(p \o q) = n
        /\ \A i \in 1..n : (p \o q)[i] = IF i <= c THEN p[i] ELSE q[i - c]
    <3>1. /\ p \o q \in Seq(Int) /\ Len(p \o q) = Len(p) + Len(q)
          /\ \A i \in 1 .. Len(p) + Len(q) :
               (p \o q)[i] = IF i <= Len(p) THEN p[i] ELSE q[i - Len(p)]
      BY <2>3, ConcatProperties
    <3>2. c + (n - c) = n
      BY <1>1, <1>2
    <3> QED BY <2>3, <3>1, <3>2
  <2>5. \A i \in 1..n : (p \o q)[i] = pTx'[i]
    BY <1>1, <1>2, <2>3, <2>4 DEF Silence
  <2>6. pTx' \in Seq(Int)
    BY <1>2, SeqMonotonic DEF Silence
  <2>7. p \o q = pTx'
    BY <1>2, <2>4, <2>5, <2>6, SeqEqual
  <2> QED BY <2>7 DEF p, q
<1> QED BY <1>2, <1>3, <1>5, <1>6, <1>7 DEF Queue!Get, TheQueue

\* The FIFO implements the queue: captured words are heard in order, each at
\* most once, and only the oldest ones are dropped, when there is no room.
THEOREM FifoImplementsQueue == Spec => ImplementsQueue
<1>1. EngineInv /\ [Next]_vars => [Queue!Next]_(Queue!vars)
  <2> SUFFICES ASSUME EngineInv, [Next]_vars PROVE Queue!Next \/ UNCHANGED Queue!vars
    OBVIOUS
  <2>1. CASE UNCHANGED vars
    BY <2>1 DEF vars, fifoVars, Queue!vars, Level
  <2> QED BY <2>1, PutSimulates, GetSimulates DEF Next, Queue!Next
<1> QED BY QueueInit, <1>1, EngineInvariant, PTL DEF Spec, ImplementsQueue, Queue!Spec

-----------------------------------------------------------------------------
(* The driver's schedule. *)

\* A chunk is an even, positive number of words.
LEMMA ChunkFacts ==
  /\ CHUNK_WORDS \in ChunkSizes /\ CHUNK_WORDS \in Nat /\ CHUNK_WORDS > 0
  /\ CHUNK_WORDS \div 2 \in Nat
  /\ MaxSkew \in Nat /\ MaxPriming \in Nat /\ MONITOR_WORDS \in Nat
BY ConstantFacts, LatencyAssumption DEF LatencyAssumption

\* More chunks are more words.
LEMMA ChunksMonotone ==
  ASSUME NEW a \in Int, NEW b \in Int, NEW c \in Nat, a <= b
  PROVE  a * c <= b * c
<1>1. (b - a) * c >= 0
  OBVIOUS
<1> QED BY <1>1

\* One chunk more.
LEMMA ChunkMore ==
  ASSUME NEW k \in Int, NEW c \in Nat
  PROVE  (k + 1) * c = k * c + c
OBVIOUS

\* TX starts late or early, not both.
LEMMA StartFacts ==
  ASSUME skew \in -MaxPriming..MaxSkew
  PROVE  /\ Late \in Nat /\ Late <= MaxSkew /\ Lead \in Nat
         /\ skew = Late - Lead /\ (Late = 0 \/ Lead = 0)
BY ChunkFacts DEF Late, Lead

\* What a steady driver's completions keep, in a FIFO with room for the skew.
SteadyInv ==
  /\ Primed \in 0..Lead
  /\ ahead + Primed \in 0..Late+1
  /\ Level = (ahead + Primed) * CHUNK_WORDS
  /\ nMonitorDropped = 0
  /\ nMonitorStarved = Primed * (CHUNK_WORDS \div 2)

\* The same in numbers: how far the start has come.
LEMMA SteadyFacts ==
  ASSUME LatencyInv, Roomy, steady
  PROVE  /\ SteadyInv
         /\ ahead \in Int /\ skew \in Int /\ skew = Late - Lead /\ (Late = 0 \/ Lead = 0)
         /\ Late \in Nat /\ Late <= MaxSkew /\ Lead \in Nat
         /\ Primed \in Nat /\ Primed <= Lead
         /\ 0 <= ahead + Primed /\ ahead + Primed <= Late + 1
         /\ nMonitorHead = 0 => Primed = -ahead
         /\ nMonitorHead # 0 => Primed = Lead
<1>1. SteadyInv /\ ahead \in Int /\ skew \in -MaxPriming..MaxSkew
  BY DEF LatencyInv, SteadyInv
<1>2. /\ skew \in Int /\ Late \in Nat /\ Late <= MaxSkew /\ Lead \in Nat
      /\ skew = Late - Lead /\ (Late = 0 \/ Lead = 0)
  BY <1>1, ChunkFacts, StartFacts
<1>3. Primed \in 0..Lead /\ ahead + Primed \in 0..Late+1
  BY <1>1 DEF SteadyInv
<1>4. /\ nMonitorHead = 0 => Primed = -ahead
      /\ nMonitorHead # 0 => Primed = Lead
  BY DEF Primed
<1> QED BY <1>1, <1>2, <1>3, <1>4

\* The FIFO is empty before the first completion.
LEMMA InitLatencyInv == LatencyInit => LatencyInv
<1> SUFFICES ASSUME LatencyInit PROVE LatencyInv
  OBVIOUS
<1>1. EngineInv
  BY InitEngineInv DEF LatencyInit
<1>2. skew \in -MaxPriming..MaxSkew /\ ahead = 0
  BY ChunkFacts DEF LatencyInit
<1>3. Primed = 0 /\ Level = 0 /\ nMonitorDropped = 0 /\ nMonitorStarved = 0
  <2>1. nMonitorHead = 0 /\ nMonitorTail = 0
    BY DEF LatencyInit, Init
  <2>2. Primed = -ahead
    BY <2>1 DEF Primed
  <2>3. Level = 0
    BY <2>1 DEF Level
  <2>4. ASSUME NEW k \in Int
        PROVE  k + (-k) = 0
    OBVIOUS
  <2>5. ahead + Primed = 0 /\ Primed \in Int
    BY <1>2, <2>2, <2>4
  <2>6. Primed = 0
    BY <1>2, <2>5
  <2> QED BY <2>3, <2>6 DEF LatencyInit, Init
<1>4. 0 * CHUNK_WORDS = 0 /\ 0 * (CHUNK_WORDS \div 2) = 0
  BY ChunkFacts
<1>5. SteadyInv
  BY <1>2, <1>3, <1>4, StartFacts DEF SteadyInv
<1> QED BY <1>1, <1>2, <1>5 DEF LatencyInv, SteadyInv

\* A chunk captured within the skew finds room.
LEMMA RxPreserves ==
  ASSUME LatencyInv, RxComplete
  PROVE  LatencyInv'
<1>1. EngineInv /\ EngineInv'
  BY ChunkFacts, PutPreserves DEF LatencyInv, RxComplete
<1>2. /\ PutChunk(CHUNK_WORDS) /\ ahead' = ahead + 1 /\ skew' = skew
      /\ ahead <= skew /\ steady
      /\ skew \in -MaxPriming..MaxSkew /\ ahead \in Int
  BY DEF LatencyInv, RxComplete
<1>3. ASSUME Roomy
      PROVE  SteadyInv'
  <2>1. SteadyInv
    BY <1>2, <1>3, SteadyFacts
  <2>2. Late' = Late /\ Lead' = Lead
    BY <1>2 DEF Late, Lead
  <2>3. Primed = Lead
    BY <1>2, <1>3, SteadyFacts
  <2>4. PICK k \in Nat : k = ahead + Lead /\ k <= Late
    <3>1. ahead + Lead \in Nat /\ ahead + Lead <= Late
      BY <1>2, <1>3, <2>3, SteadyFacts
    <3> QED BY <3>1
  <2>5. Level + CHUNK_WORDS <= MONITOR_WORDS
    <3>1. (k + 1) * CHUNK_WORDS <= (MaxSkew + 1) * CHUNK_WORDS
      <4>1. k + 1 <= MaxSkew + 1 /\ k + 1 \in Int /\ MaxSkew + 1 \in Int
        BY <1>2, <1>3, <2>4, ChunkFacts, SteadyFacts
      <4> QED BY <4>1, ChunkFacts, ChunksMonotone
    <3>2. (k + 1) * CHUNK_WORDS = Level + CHUNK_WORDS
      BY <2>1, <2>3, <2>4, ChunkFacts, ChunkMore DEF SteadyInv
    <3> DEFINE x == (k + 1) * CHUNK_WORDS
               y == (MaxSkew + 1) * CHUNK_WORDS
    <3>3. x <= y /\ x = Level + CHUNK_WORDS /\ y <= MONITOR_WORDS /\ x \in Int /\ y \in Int
      BY <1>3, <3>1, <3>2, ChunkFacts DEF Roomy
    <3> HIDE DEF x, y
    <3> QED BY <3>3, ChunkFacts
  <2>6. Overflow(CHUNK_WORDS) = 0
    BY <1>1, <2>5, ChunkFacts, LevelFacts DEF Overflow
  <2>7. /\ nMonitorHead' = nMonitorHead + CHUNK_WORDS /\ nMonitorTail' = nMonitorTail
        /\ nMonitorDropped' = nMonitorDropped /\ nMonitorStarved' = nMonitorStarved
    <3>1. nMonitorDropped \in Nat /\ nMonitorTail \in Nat
      BY <1>1 DEF EngineInv, TypeOK
    <3> QED BY <1>2, <2>6, <3>1 DEF PutChunk, CountDropped
  <2>8. Level' = Level + CHUNK_WORDS /\ nMonitorHead' # 0
    BY <1>1, <2>7, ChunkFacts, LevelFacts DEF Level
  <2>9. Primed' = Lead
    BY <2>2, <2>8 DEF Primed
  <2>10. Level' = (k + 1) * CHUNK_WORDS /\ ahead' + Primed' = k + 1
    BY <1>2, <2>1, <2>3, <2>4, <2>8, <2>9, ChunkFacts, StartFacts, ChunkMore DEF SteadyInv
  <2> QED BY <1>2, <2>1, <2>2, <2>3, <2>4, <2>7, <2>9, <2>10, StartFacts DEF SteadyInv
<1> QED BY <1>1, <1>2, <1>3 DEF LatencyInv, SteadyInv, Roomy

\* A refill before RX's first chunk finds nothing and is counted as starved.
LEMMA TxPrimes ==
  ASSUME LatencyInv, TxComplete, Roomy, nMonitorHead = 0
  PROVE  SteadyInv' /\ pTx' = [i \in 1..CHUNK_WORDS |-> Silence]
<1>1. EngineInv /\ SteadyInv
  BY DEF LatencyInv, SteadyInv, TxComplete
<1>2. /\ GetChunk(CHUNK_WORDS) /\ ahead' = ahead - 1 /\ skew' = skew /\ ahead > skew
      /\ skew \in -MaxPriming..MaxSkew /\ ahead \in Int
  BY DEF LatencyInv, TxComplete
<1>3. Primed = -ahead /\ Primed + 1 \in 0..Lead
  BY <1>2, SteadyFacts DEF TxComplete
<1>4. Level = 0 /\ Copied(CHUNK_WORDS) = 0
  BY <1>1, ChunkFacts, LevelFacts DEF Copied
<1>5. /\ nMonitorHead' = 0 /\ nMonitorTail' = nMonitorTail /\ nMonitorDropped' = 0
      /\ nMonitorStarved' = nMonitorStarved + CHUNK_WORDS \div 2
  <2>1. nMonitorTail \in Nat /\ CHUNK_WORDS - 0 = CHUNK_WORDS
    BY <1>1, LevelFacts, ChunkFacts
  <2> QED BY <1>1, <1>2, <1>4, <2>1 DEF GetChunk, SteadyInv
<1>6. pTx' = [i \in 1..CHUNK_WORDS |-> Silence]
  BY <1>2, <1>4, ChunkFacts DEF GetChunk
<1>7. Late' = Late /\ Lead' = Lead
  BY <1>2 DEF Late, Lead
<1>8. Primed' = Primed + 1 /\ ahead' + Primed' = 0 /\ Primed \in Int
  BY <1>2, <1>3, <1>5 DEF Primed
<1>9. nMonitorStarved' = Primed' * (CHUNK_WORDS \div 2)
  BY <1>1, <1>5, <1>8, ChunkFacts, ChunkMore DEF SteadyInv
<1>10. Level' = 0 * CHUNK_WORDS
  BY <1>1, <1>4, <1>5, ChunkFacts DEF Level
<1> QED BY <1>2, <1>3, <1>5, <1>6, <1>7, <1>8, <1>9, <1>10, StartFacts DEF SteadyInv

\* A refill after it finds a whole chunk, Late + 1 chunks old.
LEMMA TxPlays ==
  ASSUME LatencyInv, TxComplete, Roomy, nMonitorHead # 0
  PROVE  /\ SteadyInv'
         /\ pTx' = [i \in 1..CHUNK_WORDS |->
                      nMonitorHead - (Late + 1) * CHUNK_WORDS + i - 1]
<1>1. EngineInv /\ SteadyInv
  BY DEF LatencyInv, SteadyInv, TxComplete
<1>2. /\ GetChunk(CHUNK_WORDS) /\ ahead' = ahead - 1 /\ skew' = skew /\ ahead > skew
      /\ skew \in -MaxPriming..MaxSkew /\ ahead \in Int
  BY DEF LatencyInv, TxComplete
<1>3. Primed = Lead /\ ahead + Primed = Late + 1
  BY <1>2, SteadyFacts DEF TxComplete
<1>4. /\ Level = (Late + 1) * CHUNK_WORDS
      /\ Level = Late * CHUNK_WORDS + CHUNK_WORDS /\ Late * CHUNK_WORDS \in Nat
  BY <1>1, <1>2, <1>3, ChunkFacts, StartFacts, ChunkMore DEF SteadyInv
<1> DEFINE rest == Late * CHUNK_WORDS
           age == (Late + 1) * CHUNK_WORDS
<1>5. rest \in Nat /\ Level = rest + CHUNK_WORDS /\ Level = age
  BY <1>4
<1> HIDE DEF rest, age
<1>6. /\ nMonitorHead \in Nat /\ nMonitorTail \in Nat
      /\ nMonitorTail = nMonitorHead - age
  BY <1>1, <1>5, ChunkFacts, LevelFacts
<1>7. Copied(CHUNK_WORDS) = CHUNK_WORDS
  BY <1>5, ChunkFacts DEF Copied
<1>8. nMonitorDropped' = 0 /\ nMonitorStarved' = nMonitorStarved
  <2>1. nMonitorStarved \in Nat /\ (CHUNK_WORDS - CHUNK_WORDS) \div 2 = 0
    BY <1>1, ChunkFacts DEF EngineInv, TypeOK
  <2> QED BY <1>1, <1>2, <1>7, <2>1 DEF GetChunk, SteadyInv
<1>9. nMonitorHead' = nMonitorHead /\ nMonitorTail' = nMonitorTail + CHUNK_WORDS
  BY <1>2, <1>7 DEF GetChunk
<1>10. Level' = rest
  BY <1>1, <1>5, <1>9, ChunkFacts, LevelFacts DEF Level
<1>11. Late' = Late /\ Lead' = Lead /\ Primed' = Lead
  BY <1>2, <1>9 DEF Late, Lead, Primed
<1>12. SteadyInv'
  <2>1. ahead' + Primed' = Late
    BY <1>2, <1>3, <1>11, StartFacts
  <2> QED BY <1>1, <1>2, <1>3, <1>8, <1>10, <1>11, <2>1, StartFacts DEF SteadyInv, rest
<1>13. ASSUME NEW i \in 1..CHUNK_WORDS
       PROVE  MonitorFifo[Slot(nMonitorTail + i - 1)] = nMonitorHead - age + i - 1
  <2>1. nMonitorTail + i - 1 \in nMonitorTail .. nMonitorHead - 1
    BY <1>1, <1>5, <1>6, ChunkFacts, LevelFacts
  <2>2. MonitorFifo[Slot(nMonitorTail + i - 1)] = nMonitorTail + i - 1
    BY <1>1, <2>1 DEF EngineInv, WindowInv
  <2> QED BY <1>6, <2>2
<1>14. pTx' = [i \in 1..CHUNK_WORDS |-> nMonitorHead - age + i - 1]
  BY <1>2, <1>7, <1>13 DEF GetChunk
<1> QED BY <1>12, <1>14 DEF age

\* Every completion preserves the invariant.
LEMMA LatencyStep ==
  ASSUME LatencyInv, [LatencyNext]_latencyVars
  PROVE  LatencyInv'
<1>1. CASE RxComplete
  BY <1>1, RxPreserves
<1>2. CASE TxComplete
  <2>1. EngineInv'
    BY <1>2, ChunkFacts, GetPreserves DEF LatencyInv, TxComplete
  <2>2. skew' \in -MaxPriming..MaxSkew /\ ahead' \in Int
    BY <1>2 DEF LatencyInv, TxComplete
  <2>3. Roomy => SteadyInv'
    BY <1>2, TxPrimes, TxPlays
  <2> QED BY <2>1, <2>2, <2>3 DEF LatencyInv, SteadyInv, Roomy
<1>3. CASE AnyCompletion
  <2>1. EngineInv'
    BY <1>3, PutPreserves, GetPreserves DEF LatencyInv, AnyCompletion, Next
  <2> QED BY <1>3, <2>1 DEF LatencyInv, AnyCompletion, driverVars
<1>4. CASE UNCHANGED latencyVars
  BY <1>4 DEF latencyVars, driverVars, vars, fifoVars, LatencyInv, Primed, Late, Lead, Roomy,
    EngineInv, TypeOK, FifoBounded, FramesAddUp, WindowInv, ChannelsKept, Level
<1> QED BY <1>1, <1>2, <1>3, <1>4 DEF LatencyNext

\* The inductive invariant holds in every reachable state.
THEOREM LatencyInvariant == LatencySpec => []LatencyInv
BY InitLatencyInv, LatencyStep, PTL DEF LatencySpec

\* Whatever the FIFO's length and whichever direction starts first: a startup
\* skew costs the silence TX played before RX's first chunk, once, and no more.
THEOREM StarvesOnlyAtStart == LatencySpec => []StarvesOnlyPriming
<1>1. ASSUME LatencyInv, Roomy, steady
      PROVE  /\ nMonitorDropped = 0
             /\ IF nMonitorHead = 0 THEN nMonitorStarved <= Lead * (CHUNK_WORDS \div 2)
                                    ELSE nMonitorStarved = Lead * (CHUNK_WORDS \div 2)
  <2>1. SteadyInv /\ Lead \in Nat /\ Primed \in Int
    BY <1>1, StartFacts DEF LatencyInv, SteadyInv
  <2>2. Primed * (CHUNK_WORDS \div 2) <= Lead * (CHUNK_WORDS \div 2)
    BY <2>1, ChunkFacts, ChunksMonotone DEF SteadyInv
  <2>3. nMonitorHead # 0 => Primed = Lead
    BY DEF Primed
  <2> QED BY <2>1, <2>2, <2>3 DEF SteadyInv
<1>2. LatencyInv => StarvesOnlyPriming
  BY <1>1 DEF StarvesOnlyPriming
<1> QED BY LatencyInvariant, <1>2, PTL

\* And the latency stays what the skew made it, chunk after chunk.
THEOREM LatencyIsConstant == LatencySpec => WaitsForSkew
<1> DEFINE Heard == [i \in 1..CHUNK_WORDS |->
                       IF nMonitorHead = 0 THEN Silence
                       ELSE nMonitorHead - (Late + 1) * CHUNK_WORDS + i - 1]
<1>1. ASSUME LatencyInv, [LatencyNext]_latencyVars, Roomy, steady,
             nFramesPlayed' # nFramesPlayed
      PROVE  pTx' = Heard
  <2>1. CASE RxComplete
    BY <1>1, <2>1 DEF RxComplete, PutChunk
  <2>2. CASE TxComplete
    BY <1>1, <2>2, TxPrimes, TxPlays
  <2>3. CASE AnyCompletion
    BY <1>1, <2>3 DEF AnyCompletion
  <2>4. CASE UNCHANGED latencyVars
    BY <1>1, <2>4 DEF latencyVars, vars
  <2> QED BY <1>1, <2>1, <2>2, <2>3, <2>4 DEF LatencyNext
<1>2. LatencyInv /\ [LatencyNext]_latencyVars =>
        [Roomy /\ steady /\ nFramesPlayed' # nFramesPlayed => pTx' = Heard]_latencyVars
  BY <1>1
<1> QED BY <1>2, LatencyInvariant, PTL DEF LatencySpec, WaitsForSkew

\* The schedule only restricts the callbacks: what holds of the engine for
\* any order of them holds of a steady driver.
THEOREM ScheduleImplementsEngine == LatencySpec => Spec
<1>1. LatencyInit => Init
  BY DEF LatencyInit
<1>2. [LatencyNext]_latencyVars => [Next]_vars
  BY ChunkFacts DEF LatencyNext, RxComplete, TxComplete, AnyCompletion, Next, latencyVars
<1> QED BY <1>1, <1>2, PTL DEF LatencySpec, Spec
=============================================================================
