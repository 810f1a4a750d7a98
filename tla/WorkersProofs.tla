---------------------------- MODULE WorkersProofs ----------------------------
(***************************************************************************)
(* Proofs about Workers, for every ring, every block and request size and  *)
(* a run of any length: the workers on top of the ring leave the ring what *)
(* it is, and what they report adds up.                                    *)
(***************************************************************************)
EXTENDS Workers, CaptureRingProofs

-----------------------------------------------------------------------------
(* The workers only ever do what the ring lets a reader do. *)

\* A step of the workers is a step of the ring, or leaves the ring alone.
LEMMA WorkersStepRing ==
  ASSUME [WorkersNext]_workerVars
  PROVE  [Next]_vars
<1>1. A \in Readers /\ S \in Readers
  BY WorkersAssumption DEF WorkersAssumption
<1>2. CASE UNCHANGED workerVars
  BY <1>2 DEF workerVars
<1>3. CASE Capture
  BY <1>3 DEF Capture, Next
<1>4. CASE Analysis
  BY <1>1, <1>4 DEF Analysis, StartLoop, AnalysisCall, InRead, AnalysisEmpty, AnalysisCount,
    AnalysisPublish, Next, ReadStep
<1>5. CASE Storage
  BY <1>1, <1>5 DEF Storage, StartLoop, StorageCheck, StorageCall, InRead, StorageCount,
    StoragePublish, Next, ReadStep
<1> QED BY <1>2, <1>3, <1>4, <1>5 DEF WorkersNext

\* So every theorem about the ring holds under the two worker loops.
THEOREM WorkersUseTheRing == WorkersSpec => Spec
<1>1. WorkersInit => Init
  BY DEF WorkersInit
<1> QED BY <1>1, WorkersStepRing, PTL DEF WorkersSpec, Spec

-----------------------------------------------------------------------------
(* The invariant *)

WorkerPCs == {"start", "loop", "call", "read", "publish"}

\* What the last Read returned and nobody has counted yet, and what the laps
\* cost at the very least.
Held(r) == IF wk[r] = "read" /\ rpc[r] = "idle" THEN Len(pOut[r]) ELSE 0
Lost(r) == nOverruns[r] * (Headroom + 1)

\* The loop and its Read agree on where they are.
ControlInv(r) ==
  /\ wk[r] = "start" <=> rpc[r] = "off"
  /\ wk[r] \in {"loop", "call", "publish"} => rpc[r] = "idle"

\* The block that storage saw before the call is still there, or a whole one
\* that is newer.
BlockInv ==
  /\ wk[S] = "call" \/ rpc[S] \in {"retry", "head"} => Available(S) >= BLOCK_WORDS
  /\ rpc[S] \in {"copy", "check"} => nWords[S] = BLOCK_WORDS
  /\ Held(S) \in {0, BLOCK_WORDS}
  /\ nStorageBytes % (BytesPerWord * BLOCK_WORDS) = 0

AnalysisInv ==
  /\ nAnalysisFrames \in Nat /\ nAnalysisOverruns \in Nat
  /\ wk[A] = "start" => nAnalysisFrames = 0
  /\ nAnalysisOverruns <= nOverruns[A]
  /\ 2 * nAnalysisFrames + Held(A) + Lost(A) <= nCursor[A]

StorageInv ==
  /\ nStorageBytes \in Nat /\ nStorageOverruns \in Nat
  /\ wk[S] = "start" => nStorageBytes = 0
  /\ nStorageOverruns <= nOverruns[S]
  /\ nStorageBytes + BytesPerWord * Held(S) + BytesPerWord * Lost(S)
       <= BytesPerWord * nCursor[S]

WorkersInv ==
  /\ wk \in [Readers -> WorkerPCs]
  /\ \A r \in Readers : ControlInv(r)
  /\ nCommit > 0 => WriteSizes # {}
  /\ AnalysisInv
  /\ StorageInv
  /\ BlockFits => BlockInv

\* What one more lap costs.
LEMMA LostFacts ==
  ASSUME NEW o \in Nat
  PROVE  /\ o * (Headroom + 1) \in Nat
         /\ (o + 1) * (Headroom + 1) = o * (Headroom + 1) + Headroom + 1
<1> DEFINE H == Headroom + 1
<1>1. H \in Nat /\ Headroom \in Nat
  BY ConstantFacts
<1>2. H = Headroom + 1
  OBVIOUS
<1> HIDE DEF H
<1>3. o * H \in Nat /\ (o + 1) * H = o * H + H
  BY <1>1
<1>4. o * H + H = o * H + Headroom + 1
  BY <1>1, <1>2, <1>3
<1> QED BY <1>3, <1>4 DEF H

\* What RingInv and the assumptions give to arithmetic.
LEMMA WorkerFacts ==
  ASSUME RingInv
  PROVE  /\ Readers = {A, S} /\ A # S
         /\ BLOCK_WORDS \in Nat /\ BLOCK_WORDS > 0
         /\ nCommit \in Nat /\ nReserve \in Nat
         /\ \A r \in Readers :
              /\ nCursor[r] \in Nat /\ nOverruns[r] \in Nat /\ nWords[r] \in Nat
              /\ rpc[r] \in ReaderPCs /\ Len(pOut[r]) \in Nat
              /\ Held(r) \in Nat /\ Lost(r) \in Nat
<1>1. Readers = {A, S} /\ A # S
  BY WorkersAssumption DEF WorkersAssumption, A, S
<1>2. BLOCK_WORDS \in Nat /\ BLOCK_WORDS > 0
  BY <1>1, ConstantFacts DEF BLOCK_WORDS
<1>3. nCommit \in Nat /\ nReserve \in Nat
  BY DEF RingInv, TypeOK
<1>4. ASSUME NEW r \in Readers
      PROVE  /\ nCursor[r] \in Nat /\ nOverruns[r] \in Nat /\ nWords[r] \in Nat
             /\ rpc[r] \in ReaderPCs /\ Len(pOut[r]) \in Nat
  BY DEF RingInv, TypeOK
<1>5. ASSUME NEW r \in Readers
      PROVE  Held(r) \in Nat /\ Lost(r) \in Nat
  BY <1>4, LostFacts DEF Held, Lost
<1> QED BY <1>1, <1>2, <1>3, <1>4, <1>5

-----------------------------------------------------------------------------
(* What a step of the ring does to a reader. *)

\* What a worker other than the one that moves sees of itself.
Same(r) ==
  /\ wk'[r] = wk[r] /\ rpc'[r] = rpc[r] /\ nCursor'[r] = nCursor[r]
  /\ nOverruns'[r] = nOverruns[r] /\ nWords'[r] = nWords[r] /\ pOut'[r] = pOut[r]

\* A step of Read leaves the writer and the other readers alone.
LEMMA ReadIsLocal ==
  ASSUME RingInv, NEW r \in Readers, InitReader(r) \/ ReadStep(r)
  PROVE  /\ nCommit' = nCommit
         /\ \A s \in Readers \ {r} :
              /\ rpc'[s] = rpc[s] /\ nCursor'[s] = nCursor[s]
              /\ nOverruns'[s] = nOverruns[s] /\ nWords'[s] = nWords[s]
              /\ pOut'[s] = pOut[s]
BY DEF RingInv, TypeOK, InitReader, ReadStep, LapCheck, CountLap, LoadHead, ReturnNothing,
   CopyWord, Deliver, Discard, writerVars

\* The frames that analysis counts replace the words it held.
LEMMA FramesReplaceHeld ==
  ASSUME NEW f \in Nat, NEW g \in Nat, NEW h \in Nat, NEW l \in Nat, NEW c \in Nat,
         2 * g <= 2 * f + h, 2 * f + h + l <= c
  PROVE  2 * g + 0 + l <= c
OBVIOUS

\* What holds of words holds of frames.
LEMMA FramesFollowWords ==
  ASSUME NEW frames \in Nat, NEW lost \in Nat, NEW cursor \in Nat,
         NEW held \in Nat, NEW lost1 \in Nat, NEW cursor1 \in Nat,
         2 * frames + lost <= cursor,
         lost1 - lost + held <= cursor1 - cursor
  PROVE  2 * frames + held + lost1 <= cursor1
OBVIOUS

\* The bytes that storage counts replace the words it held.
LEMMA BytesReplaceHeld ==
  ASSUME NEW f \in Nat, NEW g \in Nat, NEW h \in Nat, NEW l \in Nat, NEW c \in Nat,
         g <= f + 4 * h, f + 4 * h + 4 * l <= 4 * c
  PROVE  g + 4 * 0 + 4 * l <= 4 * c
OBVIOUS

\* A step of Read moves the cursor over all the words it hands out and all
\* those it counts as lost.
LEMMA ReadAccounts ==
  ASSUME RingInv, NEW r \in Readers, ReadStep(r)
  PROVE  /\ nOverruns'[r] \in Nat /\ nOverruns[r] <= nOverruns'[r]
         /\ nCursor'[r] \in Nat /\ rpc'[r] # "off"
         /\ Lost(r) \in Nat /\ Lost(r)' \in Nat
         /\ IF rpc'[r] = "idle"
            THEN Len(pOut'[r]) \in Nat
                 /\ Lost(r)' - Lost(r) + Len(pOut'[r]) <= nCursor'[r] - nCursor[r]
            ELSE Lost(r)' - Lost(r) <= nCursor'[r] - nCursor[r]
<1>1. /\ nReserve \in Nat /\ nCursor[r] \in Nat /\ nWords[r] \in Nat
      /\ nOverruns[r] \in Nat /\ Lost(r) \in Nat
      /\ Headroom \in Nat /\ CAPACITY \in Nat
  BY WorkerFacts, ConstantFacts
<1>2. /\ nOverruns'[r] = nOverruns[r] => Lost(r)' = Lost(r)
      /\ nOverruns'[r] = nOverruns[r] + 1 => Lost(r)' = Lost(r) + Headroom + 1
  BY <1>1, LostFacts DEF Lost, Headroom
<1>3. CASE LapCheck(r)
  <2>1. /\ rpc'[r] = "head"
        /\ \/ /\ Lapped(r) /\ nOverruns'[r] = nOverruns[r] + 1
              /\ nCursor'[r] = nReserve - CAPACITY + Headroom
           \/ nOverruns'[r] = nOverruns[r] /\ nCursor'[r] = nCursor[r]
    BY <1>3 DEF RingInv, TypeOK, LapCheck, Resync, CountLap
  <2> QED BY <1>1, <1>2, <2>1 DEF Lapped
<1>4. CASE Deliver(r)
  <2>1. /\ rpc'[r] = "idle" /\ nOverruns'[r] = nOverruns[r]
        /\ nCursor'[r] = nCursor[r] + nWords[r]
        /\ pOut'[r] = pOut[r] /\ Len(pOut[r]) = nWords[r]
    BY <1>4 DEF RingInv, TypeOK, CopyInv, Deliver
  <2> QED BY <1>1, <1>2, <2>1
<1>5. CASE LoadHead(r) \/ CopyWord(r) \/ Discard(r)
  <2>1. /\ nOverruns'[r] = nOverruns[r] /\ nCursor'[r] = nCursor[r] /\ rpc'[r] # "off"
        /\ rpc'[r] = "idle" => pOut'[r] = << >>
    BY <1>5 DEF RingInv, TypeOK, LoadHead, CopyWord, Discard, ReturnNothing
  <2> QED BY <1>1, <1>2, <2>1
<1> QED BY <1>3, <1>4, <1>5 DEF ReadStep

\* The interrupt disturbs no worker; it only ever publishes more.
LEMMA CaptureFacts ==
  ASSUME RingInv, Capture
  PROVE  /\ UNCHANGED <<wk, statVars>> /\ \A r \in Readers : Same(r)
         /\ nCommit' \in Nat /\ nCommit <= nCommit'
         /\ nCommit' > nCommit => WriteSizes # {}
<1>1. UNCHANGED <<wk, statVars, readerVars>>
  BY DEF Capture, Writer, WriteReserve, WriteWord, WriteCommit
<1>2. nCommit' = nCommit \/ nCommit' = nCommit + wLen
  BY DEF Capture, Writer, WriteReserve, WriteWord, WriteCommit
<1>3. nCommit \in Nat /\ wLen \in Nat /\ (wLen > 0 => WriteSizes # {})
  BY ConstantFacts DEF RingInv, TypeOK, WriterInv
<1> QED BY <1>1, <1>2, <1>3 DEF readerVars, Same

-----------------------------------------------------------------------------
(* The analysis loop *)

\* Counting frames never rounds up.
LEMMA HalfFacts ==
  ASSUME NEW n \in Nat
  PROVE  n \div 2 \in Nat /\ 2 * (n \div 2) <= n
OBVIOUS

\* The counters of analysis stand while others move.
LEMMA AnalysisUndisturbed ==
  ASSUME AnalysisInv, Same(A), UNCHANGED <<nAnalysisFrames, nAnalysisOverruns>>
  PROVE  AnalysisInv'
BY DEF AnalysisInv, Same, Held, Lost

\* A step of the analysis loop keeps its own counters honest and leaves
\* storage alone.
LEMMA AnalysisPreserves ==
  ASSUME RingInv, CountInv(A), WorkersInv, Analysis
  PROVE  /\ wk' \in [Readers -> WorkerPCs] /\ ControlInv(A)' /\ AnalysisInv'
         /\ Same(S) /\ nCommit' = nCommit
         /\ UNCHANGED <<nStorageBytes, nStorageOverruns>>
<1>1. A \in Readers /\ S \in Readers /\ A # S
  BY WorkerFacts
<1>2. /\ wk \in [Readers -> WorkerPCs] /\ ControlInv(A) /\ AnalysisInv
      /\ nCursor[A] \in Nat /\ nOverruns[A] \in Nat /\ Len(pOut[A]) \in Nat
      /\ Held(A) \in Nat /\ Lost(A) \in Nat /\ nCommit \in Nat
  BY <1>1, WorkerFacts DEF WorkersInv
<1>3. nAnalysisFrames \in Nat /\ nAnalysisOverruns \in Nat
  BY <1>2 DEF AnalysisInv
<1>4. wk' \in [Readers -> WorkerPCs] /\ wk'[S] = wk[S]
  BY <1>1, <1>2 DEF Analysis, StartLoop, AnalysisCall, InRead, AnalysisEmpty,
     AnalysisCount, AnalysisPublish, Goto, WorkerPCs
<1>5. UNCHANGED <<nStorageBytes, nStorageOverruns>>
  BY DEF Analysis, StartLoop, AnalysisCall, InRead, AnalysisEmpty,
     AnalysisCount, AnalysisPublish, statVars
<1>6. nCommit' = nCommit /\ Same(S)
  <2>1. CASE StartLoop(A) \/ AnalysisCall \/ InRead(A)
    <3>1. InitReader(A) \/ ReadStep(A)
      BY <2>1 DEF StartLoop, AnalysisCall, InRead, ReadStep
    <3> QED BY <1>1, <1>4, <3>1, ReadIsLocal DEF Same
  <2>2. CASE AnalysisEmpty \/ AnalysisCount \/ AnalysisPublish
    BY <1>4, <2>2 DEF AnalysisEmpty, AnalysisCount, AnalysisPublish, vars, writerVars,
       readerVars, Same
  <2> QED BY <2>1, <2>2 DEF Analysis
<1>7. CASE StartLoop(A)
  <2>1. /\ wk[A] = "start" /\ wk'[A] = "loop" /\ rpc'[A] = "idle"
        /\ nCursor'[A] = nCommit /\ nOverruns' = nOverruns /\ nOverruns[A] = 0
        /\ UNCHANGED statVars
    BY <1>1, <1>2, <1>7
       DEF StartLoop, Goto, InitReader, StartWord, CountInv, RingInv, TypeOK
  <2>2. Held(A)' = 0 /\ Lost(A)' = 0
    BY <1>1, <2>1, ConstantFacts DEF Held, Lost
  <2>3. nAnalysisFrames = 0 /\ nAnalysisOverruns = 0
    BY <1>2, <1>3, <2>1 DEF AnalysisInv
  <2>4. AnalysisInv'
    BY <1>2, <1>3, <2>1, <2>2, <2>3 DEF AnalysisInv, statVars
  <2> QED BY <1>4, <1>5, <1>6, <2>1, <2>4 DEF ControlInv
<1>8. CASE AnalysisCall \/ InRead(A)
  <2>1. /\ ReadStep(A) /\ UNCHANGED statVars /\ wk'[A] = "read"
        /\ wk[A] # "start" /\ Held(A) = 0
    BY <1>1, <1>2, <1>8 DEF AnalysisCall, InRead, Goto, ReadStep, Held
  <2>2. /\ nOverruns'[A] \in Nat /\ nOverruns[A] <= nOverruns'[A]
        /\ nCursor'[A] \in Nat /\ rpc'[A] # "off" /\ Lost(A)' \in Nat
        /\ Held(A)' \in Nat
        /\ Lost(A)' - Lost(A) + Held(A)' <= nCursor'[A] - nCursor[A]
    <3>1. CASE rpc'[A] = "idle"
      <4>1. Held(A)' = Len(pOut'[A])
        BY <2>1, <3>1 DEF Held
      <4> QED BY <1>1, <2>1, <3>1, <4>1, ReadAccounts
    <3>2. CASE rpc'[A] # "idle"
      <4>1. Held(A)' = 0
        BY <2>1, <3>2 DEF Held
      <4> QED BY <1>1, <1>2, <2>1, <3>2, <4>1, ReadAccounts
    <3> QED BY <3>1, <3>2
  <2>4. AnalysisInv'
    <3>1. nAnalysisFrames' = nAnalysisFrames /\ nAnalysisOverruns' = nAnalysisOverruns
      BY <2>1 DEF statVars
    <3>2. 2 * nAnalysisFrames + Held(A) + Lost(A) <= nCursor[A]
          /\ nAnalysisOverruns <= nOverruns[A]
      BY <1>2 DEF AnalysisInv
    <3>3. 2 * nAnalysisFrames + Held(A)' + Lost(A)' <= nCursor'[A]
      <4>1. 2 * nAnalysisFrames + Lost(A) <= nCursor[A]
        BY <1>2, <1>3, <2>1, <3>2
      <4>2. Held(A)' \in Nat /\ Lost(A)' \in Nat /\ nCursor'[A] \in Nat
        BY <2>2
      <4>3. Lost(A)' - Lost(A) + Held(A)' <= nCursor'[A] - nCursor[A]
        BY <2>2
      <4>4. Lost(A) \in Nat /\ nCursor[A] \in Nat
        BY <1>2
      <4> QED BY ONLY <1>3, <4>1, <4>2, <4>3, <4>4, FramesFollowWords
    <3>4. nAnalysisOverruns <= nOverruns'[A]
      <4>1. nAnalysisOverruns <= nOverruns[A] /\ nOverruns[A] \in Nat
        BY <1>2, <3>2
      <4>2. nOverruns[A] <= nOverruns'[A] /\ nOverruns'[A] \in Nat
        BY <2>2
      <4> QED BY <1>3, <4>1, <4>2
    <3> QED BY <1>3, <2>1, <3>1, <3>3, <3>4 DEF AnalysisInv
  <2> QED BY <1>4, <1>5, <1>6, <2>1, <2>2, <2>4 DEF ControlInv
<1>9. CASE AnalysisEmpty \/ AnalysisCount \/ AnalysisPublish
  <2>1. /\ UNCHANGED <<rpc, nCursor, nOverruns, pOut>>
        /\ wk[A] # "start" /\ wk'[A] \in {"loop", "publish"} /\ rpc[A] = "idle"
    BY <1>1, <1>2, <1>9 DEF AnalysisEmpty, AnalysisCount, AnalysisPublish, Goto,
       ControlInv, vars, readerVars
  <2>2. Held(A)' = 0 /\ Lost(A)' = Lost(A)
    BY <2>1 DEF Held, Lost
  <2>3. /\ nAnalysisFrames' \in Nat
        /\ 2 * nAnalysisFrames' <= 2 * nAnalysisFrames + Held(A)
        /\ nAnalysisOverruns' \in {nAnalysisOverruns, nOverruns[A]}
    <3>1. CASE AnalysisCount
      <4>1. PICK h \in Nat : h = Len(pOut[A]) \div 2 /\ 2 * h <= Len(pOut[A])
        BY <1>2, HalfFacts
      <4>2. Held(A) = Len(pOut[A]) /\ nAnalysisOverruns' = nAnalysisOverruns
        BY <3>1 DEF AnalysisCount, Goto, Held
      <4>3. nAnalysisFrames' = nAnalysisFrames + h
        BY <3>1, <4>1 DEF AnalysisCount
      <4>4. h \in Nat /\ 2 * h <= Held(A)
        BY <4>1, <4>2
      <4>5. nAnalysisFrames' \in Nat /\ 2 * nAnalysisFrames' = 2 * nAnalysisFrames + 2 * h
        BY <1>3, <4>3, <4>4
      <4>6. 2 * nAnalysisFrames' <= 2 * nAnalysisFrames + Held(A)
        <5>1. 2 * nAnalysisFrames \in Nat /\ 2 * h \in Nat /\ Held(A) \in Nat
          BY <1>2, <1>3, <4>4
        <5> QED BY <4>4, <4>5, <5>1
      <4> QED BY <4>2, <4>5, <4>6
    <3>2. CASE AnalysisEmpty \/ AnalysisPublish
      BY <1>2, <1>3, <3>2 DEF AnalysisEmpty, AnalysisPublish, Reported, statVars
    <3> QED BY <1>9, <3>1, <3>2
  <2>4. AnalysisInv'
    <3>1. 2 * nAnalysisFrames + Held(A) + Lost(A) <= nCursor[A]
          /\ nAnalysisOverruns <= nOverruns[A]
      BY <1>2 DEF AnalysisInv
    <3>2. 2 * nAnalysisFrames' + Held(A)' + Lost(A)' <= nCursor'[A]
      <4>1. nAnalysisFrames' \in Nat /\ 2 * nAnalysisFrames' <= 2 * nAnalysisFrames + Held(A)
        BY <2>3
      <4>2. /\ Held(A) \in Nat /\ Lost(A) \in Nat /\ nCursor[A] \in Nat
            /\ 2 * nAnalysisFrames + Held(A) + Lost(A) <= nCursor[A]
        BY <1>2, <3>1
      <4>3. 2 * nAnalysisFrames' + 0 + Lost(A) <= nCursor[A]
        BY ONLY <1>3, <4>1, <4>2, FramesReplaceHeld
      <4>4. Held(A)' = 0 /\ Lost(A)' = Lost(A) /\ nCursor'[A] = nCursor[A]
        BY <2>1, <2>2
      <4> QED BY ONLY <4>3, <4>4
    <3>3. nAnalysisOverruns' \in Nat /\ nAnalysisOverruns' <= nOverruns'[A]
      BY <1>2, <1>3, <2>1, <2>3, <3>1
    <3>4. wk'[A] # "start"
      BY <2>1
    <3> QED BY ONLY <2>3, <3>2, <3>3, <3>4 DEF AnalysisInv
  <2> QED BY <1>4, <1>5, <1>6, <2>1, <2>4 DEF ControlInv
<1> QED BY <1>7, <1>8, <1>9 DEF Analysis

-----------------------------------------------------------------------------
(* The storage loop *)

\* The counters of storage stand while others move.
LEMMA StorageUndisturbed ==
  ASSUME StorageInv, Same(S), UNCHANGED <<nStorageBytes, nStorageOverruns>>
  PROVE  StorageInv'
BY DEF StorageInv, Same, Held, Lost

\* One more block keeps the bytes a multiple of the block.
LEMMA MultipleFacts ==
  ASSUME NEW m \in Nat \ {0}, NEW x \in Nat, x % m = 0
  PROVE  (x + m) % m = 0
<1> DEFINE q == (x + m) \div m - x \div m - 1
           rest == (x + m) % m
<1>1. q \in Int /\ rest \in 0 .. m - 1 /\ m * q + rest = 0
  OBVIOUS
<1> HIDE DEF q
<1>2. q >= 1 => m * q >= m
  BY <1>1
<1>3. q <= -1 => m * q <= -m
  BY <1>1
<1> QED BY <1>1, <1>2, <1>3

\* What holds of words holds of bytes.
LEMMA BytesFollowWords ==
  ASSUME NEW bytes \in Nat, NEW lost \in Nat, NEW cursor \in Nat,
         NEW held \in Nat, NEW lost1 \in Nat, NEW cursor1 \in Nat,
         bytes + 4 * lost <= 4 * cursor,
         lost1 - lost + held <= cursor1 - cursor
  PROVE  bytes + 4 * held + 4 * lost1 <= 4 * cursor1
OBVIOUS

\* Storage keeps its counters honest and leaves analysis alone.
LEMMA StorageCountersPreserve ==
  ASSUME RingInv, CountInv(S), WorkersInv, Storage
  PROVE  /\ wk' \in [Readers -> WorkerPCs] /\ ControlInv(S)' /\ StorageInv'
         /\ Same(A) /\ nCommit' = nCommit
         /\ UNCHANGED <<nAnalysisFrames, nAnalysisOverruns>>
<1>1. A \in Readers /\ S \in Readers /\ A # S
  BY WorkerFacts
<1>2. /\ wk \in [Readers -> WorkerPCs] /\ ControlInv(S) /\ StorageInv
      /\ nCursor[S] \in Nat /\ nOverruns[S] \in Nat /\ Len(pOut[S]) \in Nat
      /\ Held(S) \in Nat /\ Lost(S) \in Nat /\ nCommit \in Nat
  BY <1>1, WorkerFacts DEF WorkersInv
<1>3. nStorageBytes \in Nat /\ nStorageOverruns \in Nat
  BY <1>2 DEF StorageInv
<1>4. wk' \in [Readers -> WorkerPCs] /\ wk'[A] = wk[A]
  BY <1>1, <1>2 DEF Storage, StartLoop, StorageCheck, StorageCall, InRead,
     StorageCount, StoragePublish, Goto, WorkerPCs
<1>5. UNCHANGED <<nAnalysisFrames, nAnalysisOverruns>>
  BY DEF Storage, StartLoop, StorageCheck, StorageCall, InRead,
     StorageCount, StoragePublish, statVars
<1>6. nCommit' = nCommit /\ Same(A)
  <2>1. CASE StartLoop(S) \/ StorageCall \/ InRead(S)
    <3>1. InitReader(S) \/ ReadStep(S)
      BY <2>1 DEF StartLoop, StorageCall, InRead, ReadStep
    <3> QED BY <1>1, <1>4, <3>1, ReadIsLocal DEF Same
  <2>2. CASE StorageCheck \/ StorageCount \/ StoragePublish
    BY <1>4, <2>2 DEF StorageCheck, StorageCount, StoragePublish, vars, writerVars,
       readerVars, Same
  <2> QED BY <2>1, <2>2 DEF Storage
<1>7. CASE StartLoop(S)
  <2>1. /\ wk[S] = "start" /\ wk'[S] = "loop" /\ rpc'[S] = "idle"
        /\ nCursor'[S] = nCommit /\ nOverruns' = nOverruns /\ nOverruns[S] = 0
        /\ UNCHANGED statVars
    BY <1>1, <1>2, <1>7
       DEF StartLoop, Goto, InitReader, StartWord, CountInv, RingInv, TypeOK
  <2>2. Held(S)' = 0 /\ Lost(S)' = 0
    BY <1>1, <2>1, ConstantFacts DEF Held, Lost
  <2>3. nStorageBytes = 0 /\ nStorageOverruns = 0
    BY <1>2, <1>3, <2>1 DEF StorageInv
  <2>4. StorageInv'
    BY <1>2, <1>3, <2>1, <2>2, <2>3 DEF StorageInv, BytesPerWord, statVars
  <2> QED BY <1>4, <1>5, <1>6, <2>1, <2>4 DEF ControlInv
<1>8. CASE StorageCall \/ InRead(S)
  <2>1. /\ ReadStep(S) /\ UNCHANGED statVars /\ wk'[S] = "read"
        /\ wk[S] # "start" /\ Held(S) = 0
    BY <1>1, <1>2, <1>8 DEF StorageCall, InRead, Goto, ReadStep, Held
  <2>2. /\ nOverruns'[S] \in Nat /\ nOverruns[S] <= nOverruns'[S]
        /\ nCursor'[S] \in Nat /\ rpc'[S] # "off" /\ Lost(S)' \in Nat
        /\ Held(S)' \in Nat
        /\ Lost(S)' - Lost(S) + Held(S)' <= nCursor'[S] - nCursor[S]
    <3>1. CASE rpc'[S] = "idle"
      <4>1. Held(S)' = Len(pOut'[S])
        BY <2>1, <3>1 DEF Held
      <4> QED BY <1>1, <2>1, <3>1, <4>1, ReadAccounts
    <3>2. CASE rpc'[S] # "idle"
      <4>1. Held(S)' = 0
        BY <2>1, <3>2 DEF Held
      <4> QED BY <1>1, <1>2, <2>1, <3>2, <4>1, ReadAccounts
    <3> QED BY <3>1, <3>2
  <2>3. StorageInv'
    <3>1. nStorageBytes' = nStorageBytes /\ nStorageOverruns' = nStorageOverruns
      BY <2>1 DEF statVars
    <3>2. nStorageBytes + 4 * Held(S) + 4 * Lost(S) <= 4 * nCursor[S]
          /\ nStorageOverruns <= nOverruns[S]
      BY <1>2 DEF StorageInv, BytesPerWord
    <3>3. nStorageBytes + 4 * Held(S)' + 4 * Lost(S)' <= 4 * nCursor'[S]
      <4>1. nStorageBytes + 4 * Lost(S) <= 4 * nCursor[S]
        BY <1>2, <1>3, <2>1, <3>2
      <4> QED BY <1>2, <1>3, <2>2, <4>1, BytesFollowWords
    <3>4. nStorageOverruns <= nOverruns'[S]
      <4>1. nStorageOverruns <= nOverruns[S] /\ nOverruns[S] \in Nat
        BY <1>2, <3>2
      <4>2. nOverruns[S] <= nOverruns'[S] /\ nOverruns'[S] \in Nat
        BY <2>2
      <4> QED BY <1>3, <4>1, <4>2
    <3> QED BY <1>3, <2>1, <3>1, <3>3, <3>4 DEF StorageInv, BytesPerWord
  <2> QED BY <1>4, <1>5, <1>6, <2>1, <2>2, <2>3 DEF ControlInv
<1>9. CASE StorageCheck \/ StorageCount \/ StoragePublish
  <2>1. /\ UNCHANGED <<rpc, nCursor, nOverruns, pOut>>
        /\ wk[S] # "start" /\ wk'[S] \in {"loop", "call", "publish"} /\ rpc[S] = "idle"
    BY <1>1, <1>2, <1>9 DEF StorageCheck, StorageCount, StoragePublish, Goto,
       ControlInv, vars, readerVars
  <2>2. Held(S)' = 0 /\ Lost(S)' = Lost(S)
    BY <2>1 DEF Held, Lost
  <2>3. /\ nStorageBytes' \in {nStorageBytes, nStorageBytes + 4 * Held(S)}
        /\ nStorageOverruns' \in {nStorageOverruns, nOverruns[S]}
    <3>1. CASE StorageCount
      BY <3>1 DEF StorageCount, Goto, Held, Drained, BytesPerWord
    <3>2. CASE StorageCheck \/ StoragePublish
      BY <3>2 DEF StorageCheck, StoragePublish, Reported, statVars
    <3> QED BY <1>9, <3>1, <3>2
  <2>4. StorageInv'
    <3>1. nStorageBytes + 4 * Held(S) + 4 * Lost(S) <= 4 * nCursor[S]
          /\ nStorageOverruns <= nOverruns[S]
      BY <1>2 DEF StorageInv, BytesPerWord
    <3>2. nStorageBytes' \in Nat /\ nStorageOverruns' \in Nat
          /\ nStorageOverruns' <= nOverruns[S]
      <4>1. nStorageBytes' \in Nat
        BY <1>2, <1>3, <2>3
      <4>2. nStorageOverruns' \in Nat /\ nStorageOverruns' <= nOverruns[S]
        BY <1>2, <1>3, <2>3, <3>1
      <4> QED BY ONLY <4>1, <4>2
    <3>3. nStorageBytes' <= nStorageBytes + 4 * Held(S)
      BY <1>2, <1>3, <2>3
    <3>4. nStorageBytes' + 4 * Held(S)' + 4 * Lost(S)' <= 4 * nCursor'[S]
      <4>1. Held(S) \in Nat /\ Lost(S) \in Nat /\ nCursor[S] \in Nat
        BY <1>2
      <4>2. nStorageBytes \in Nat /\ nStorageBytes' \in Nat
        BY <1>3, <3>2
      <4>3. nStorageBytes + 4 * Held(S) + 4 * Lost(S) <= 4 * nCursor[S]
        BY <3>1
      <4>4. nStorageBytes' + 4 * 0 + 4 * Lost(S) <= 4 * nCursor[S]
        BY ONLY <3>3, <4>1, <4>2, <4>3, BytesReplaceHeld
      <4>5. Held(S)' = 0 /\ Lost(S)' = Lost(S) /\ nCursor'[S] = nCursor[S]
        BY <2>1, <2>2
      <4> QED BY ONLY <4>4, <4>5
    <3> QED BY <2>1, <3>2, <3>4 DEF StorageInv, BytesPerWord
  <2> QED BY <1>4, <1>5, <1>6, <2>1, <2>4 DEF ControlInv
<1> QED BY <1>7, <1>8, <1>9 DEF Storage

\* Storage only ever asks for a whole block, and gets one or nothing: a lap
\* between the check and the copy leaves a newer whole block behind.
LEMMA BlockPreserves ==
  ASSUME RingInv, WorkersInv, Storage, BlockFits
  PROVE  BlockInv'
<1>1. A \in Readers /\ S \in Readers /\ A # S
  BY WorkerFacts
<1>2. /\ wk \in [Readers -> WorkerPCs] /\ ControlInv(S) /\ BlockInv
      /\ nCursor[S] \in Nat /\ nWords[S] \in Nat /\ Len(pOut[S]) \in Nat
      /\ nCommit \in Nat /\ BLOCK_WORDS \in Nat /\ BLOCK_WORDS > 0
      /\ nStorageBytes \in Nat
  BY <1>1, WorkerFacts DEF WorkersInv, StorageInv
<1>3. nStorageBytes % (BytesPerWord * BLOCK_WORDS) = 0
  BY <1>2 DEF BlockInv
<1>4. CASE StartLoop(S)
  <2>1. wk'[S] = "loop" /\ rpc'[S] = "idle" /\ UNCHANGED statVars
    BY <1>1, <1>2, <1>4 DEF StartLoop, Goto, InitReader, RingInv, TypeOK
  <2> QED BY <1>3, <2>1 DEF BlockInv, Held, statVars
<1>5. CASE StorageCheck
  <2>1. /\ wk'[S] = "call" /\ rpc'[S] = "idle" /\ Available(S)' >= BLOCK_WORDS
        /\ UNCHANGED statVars
    BY <1>1, <1>2, <1>5 DEF StorageCheck, Goto, ControlInv, EnoughForBlock, Available,
       vars, writerVars, readerVars
  <2> QED BY <1>3, <2>1 DEF BlockInv, Held, statVars
<1>6. CASE StorageCall \/ InRead(S)
  <2>1. /\ wk'[S] = "read" /\ ReadStep(S) /\ UNCHANGED <<nStorageBytes, writerVars>>
    BY <1>1, <1>2, <1>6 DEF StorageCall, InRead, Goto, ReadStep, statVars,
       LapCheck, LoadHead, CopyWord, Deliver, Discard
  <2>2. CASE LapCheck(S)
    <3>1. rpc'[S] = "head" /\ Available(S) >= BLOCK_WORDS
      <4>1. rpc[S] = "retry" \/ wk[S] = "call"
        BY <1>6, <2>2 DEF StorageCall, Goto, InRead, LapCheck
      <4> QED BY <1>1, <1>2, <2>2, <4>1 DEF BlockInv, LapCheck, RingInv, TypeOK
    <3>2. Available(S)' >= BLOCK_WORDS
      <4>1. CASE Lapped(S)
        <5>1. nCursor'[S] = nReserve - CAPACITY + Headroom
          BY <1>1, <2>2, <4>1 DEF LapCheck, Resync, RingInv, TypeOK
        <5>2. /\ nReserve = nCommit + wLen /\ wLen \in Nat
              /\ \E n \in WriteSizes : wLen <= n
          <6>1. nReserve = nCommit + wLen /\ wLen \in Nat /\ (wLen > 0 => wLen \in WriteSizes)
            BY DEF RingInv, TypeOK, WriterInv
          <6>2. wLen > 0 \/ nCommit > 0
            BY <1>2, <4>1, <6>1, ConstantFacts DEF Lapped
          <6>3. WriteSizes # {}
            BY <6>1, <6>2 DEF WorkersInv
          <6> QED BY <6>1, <6>3, ConstantFacts
        <5>3. BLOCK_WORDS <= CAPACITY - Headroom - wLen
          BY <1>2, <5>2, ConstantFacts DEF BlockFits
        <5> QED BY <1>2, <2>1, <5>1, <5>2, <5>3, ConstantFacts DEF Available, writerVars
      <4>2. CASE ~Lapped(S)
        BY <2>1, <2>2, <3>1, <4>2 DEF LapCheck, Available, writerVars
      <4> QED BY <4>1, <4>2
    <3> QED BY <1>3, <2>1, <3>1, <3>2 DEF BlockInv, Held
  <2>3. CASE LoadHead(S)
    <3>1. nCommit - nCursor[S] >= BLOCK_WORDS
      BY <1>2, <2>3 DEF BlockInv, LoadHead, Available
    <3>2. ~NothingNew(S) /\ Request(S) = BLOCK_WORDS
      BY <1>2, <3>1 DEF NothingNew, Request, Available, BLOCK_WORDS
    <3>3. rpc'[S] = "copy" /\ nWords'[S] = BLOCK_WORDS
      BY <2>3, <3>2, <1>1 DEF LoadHead, RingInv, TypeOK
    <3> QED BY <1>3, <2>1, <3>3 DEF BlockInv, Held
  <2>4. CASE CopyWord(S)
    <3>1. rpc'[S] \in {"copy", "check"} /\ nWords'[S] = BLOCK_WORDS
      BY <1>1, <1>2, <2>4 DEF BlockInv, CopyWord, RingInv, TypeOK
    <3> QED BY <1>3, <2>1, <3>1 DEF BlockInv, Held
  <2>5. CASE Deliver(S)
    <3>1. rpc'[S] = "idle" /\ Len(pOut'[S]) = BLOCK_WORDS
      BY <1>1, <1>2, <2>5 DEF BlockInv, Deliver, CopyInv, RingInv, TypeOK
    <3> QED BY <1>3, <2>1, <3>1 DEF BlockInv, Held
  <2>6. CASE Discard(S)
    <3>1. Available(S)' >= BLOCK_WORDS
      <4>1. nWords[S] = BLOCK_WORDS /\ nCursor[S] + nWords[S] <= nCommit
        BY <1>1, <1>2, <2>6 DEF BlockInv, Discard, CopyInv, RingInv
      <4>2. nCursor' = nCursor /\ nCommit' = nCommit
        BY <2>1, <2>6 DEF Discard, writerVars
      <4>3. nCommit - nCursor[S] >= BLOCK_WORDS
        BY ONLY <1>2, <4>1
      <4> QED BY <4>2, <4>3 DEF Available
    <3>2. rpc'[S] = "retry" \/ (rpc'[S] = "idle" /\ pOut'[S] = << >>)
      <4>1. /\ rpc \in [Readers -> ReaderPCs]
            /\ pOut \in [Readers -> Seq(Nat \cup {NoWord})]
        BY DEF RingInv, TypeOK
      <4>2. \/ rpc' = [rpc EXCEPT ![S] = "retry"]
            \/ rpc' = [rpc EXCEPT ![S] = "idle"] /\ pOut' = [pOut EXCEPT ![S] = << >>]
        BY <2>6 DEF Discard, ReturnNothing
      <4> QED BY <1>1, <4>1, <4>2
    <3>3. wk'[S] # "call" /\ rpc'[S] \notin {"copy", "check"} /\ Held(S)' = 0
      BY <2>1, <3>2 DEF Held
    <3>4. nStorageBytes' % (BytesPerWord * BLOCK_WORDS) = 0
      BY <1>3, <2>1
    <3> QED BY ONLY <3>1, <3>3, <3>4 DEF BlockInv
  <2> QED BY <2>1, <2>2, <2>3, <2>4, <2>5, <2>6 DEF ReadStep
<1>7. CASE StorageCount
  <2>1. /\ wk'[S] = "publish" /\ rpc'[S] = "idle"
        /\ nStorageBytes' = nStorageBytes + BytesPerWord * Held(S)
        /\ Held(S) \in {0, BLOCK_WORDS}
    BY <1>1, <1>2, <1>7 DEF StorageCount, Goto, Drained, BlockInv, Held, vars, readerVars
  <2>2. nStorageBytes' % (BytesPerWord * BLOCK_WORDS) = 0
    <3>1. CASE Held(S) = 0
      <4>1. nStorageBytes' = nStorageBytes
        BY <1>2, <2>1, <3>1 DEF BytesPerWord
      <4> QED BY <1>3, <4>1
    <3>2. CASE Held(S) = BLOCK_WORDS
      <4> DEFINE m == BytesPerWord * BLOCK_WORDS
      <4>1. m \in Nat \ {0}
        BY <1>2 DEF BytesPerWord
      <4>2. nStorageBytes' = nStorageBytes + m /\ nStorageBytes % m = 0
        BY <1>3, <2>1, <3>2
      <4> HIDE DEF m
      <4>3. (nStorageBytes + m) % m = 0
        BY <1>2, <4>1, <4>2, MultipleFacts
      <4> QED BY <4>2, <4>3 DEF m
    <3> QED BY <2>1, <3>1, <3>2
  <2> QED BY <2>1, <2>2 DEF BlockInv, Held
<1>8. CASE StoragePublish
  <2>1. wk'[S] = "loop" /\ rpc'[S] = "idle" /\ nStorageBytes' = nStorageBytes
    BY <1>1, <1>2, <1>8 DEF StoragePublish, Goto, ControlInv, vars, readerVars
  <2> QED BY <1>3, <2>1 DEF BlockInv, Held
<1> QED BY <1>4, <1>5, <1>6, <1>7, <1>8 DEF Storage

-----------------------------------------------------------------------------
(* Together *)

\* Nothing is drained or counted at power-on.
LEMMA WorkersInitInv == WorkersInit => WorkersInv
<1> SUFFICES ASSUME WorkersInit PROVE WorkersInv
  OBVIOUS
<1> USE DEF WorkersInit, Init
<1>1. A \in Readers /\ S \in Readers /\ Readers = {A, S}
  BY WorkersAssumption DEF WorkersAssumption
<1>2. \A r \in Readers : Held(r) = 0 /\ Lost(r) = 0
  BY ConstantFacts DEF Held, Lost
<1>3. AnalysisInv
  BY <1>1, <1>2 DEF AnalysisInv
<1>4. StorageInv
  BY <1>1, <1>2 DEF StorageInv, BytesPerWord
<1>5. BlockInv
  <2>1. BLOCK_WORDS \in Nat \ {0}
    BY <1>1, ConstantFacts DEF BLOCK_WORDS
  <2> DEFINE m == BytesPerWord * BLOCK_WORDS
  <2>2. m \in Nat \ {0}
    BY <2>1 DEF BytesPerWord
  <2> HIDE DEF m
  <2>3. 0 % m = 0
    BY <2>2
  <2> QED BY <1>1, <1>2, <2>3 DEF BlockInv, m
<1> QED BY <1>3, <1>4, <1>5 DEF WorkersInv, WorkerPCs, ControlInv

\* Every step of the interrupt and the two loops keeps the accounts.
LEMMA WorkersStep ==
  ASSUME RingInv, \A r \in Readers : CountInv(r), WorkersInv, [WorkersNext]_workerVars
  PROVE  WorkersInv'
<1>1. /\ A \in Readers /\ S \in Readers /\ Readers = {A, S}
      /\ nCommit \in Nat
  BY WorkerFacts
<1>2. AnalysisInv /\ StorageInv /\ ControlInv(A) /\ ControlInv(S)
  BY <1>1 DEF WorkersInv
<1>3. BlockFits' <=> BlockFits
  BY DEF BlockFits, BLOCK_WORDS, Headroom
<1>4. ASSUME Same(S), nCommit' \in Nat, nCommit <= nCommit',
             UNCHANGED nStorageBytes, BlockFits
      PROVE  BlockInv'
  <2>1. BlockInv
    BY <1>4 DEF WorkersInv
  <2>2. Available(S) <= Available(S)' /\ Available(S) \in Int /\ Available(S)' \in Int
        /\ BLOCK_WORDS \in Nat
    <3>1. nCursor[S] \in Nat /\ BLOCK_WORDS \in Nat
      BY <1>1, WorkerFacts
    <3>2. nCursor'[S] = nCursor[S]
      BY <1>4 DEF Same
    <3> QED BY <1>1, <1>4, <3>1, <3>2 DEF Available
  <2>3. Held(S)' = Held(S)
    BY <1>4 DEF Held, Same
  <2>4. wk'[S] = wk[S] /\ rpc'[S] = rpc[S] /\ nWords'[S] = nWords[S]
    BY <1>4 DEF Same
  <2>5. wk'[S] = "call" \/ rpc'[S] \in {"retry", "head"} => Available(S)' >= BLOCK_WORDS
    BY <2>1, <2>2, <2>4 DEF BlockInv
  <2>6. (nStorageBytes % (BytesPerWord * BLOCK_WORDS) = 0)'
    BY <1>4, <2>1 DEF BlockInv, BLOCK_WORDS
  <2> QED BY <2>1, <2>3, <2>4, <2>5, <2>6 DEF BlockInv, BLOCK_WORDS
<1>5. CASE UNCHANGED workerVars
  <2>1. Same(A) /\ Same(S) /\ UNCHANGED <<wk, rpc, nCommit, statVars>>
    BY <1>5 DEF workerVars, vars, writerVars, readerVars, Same
  <2>2. AnalysisInv' /\ StorageInv' /\ (BlockFits => BlockInv')
    BY <1>1, <1>2, <1>4, <2>1, AnalysisUndisturbed, StorageUndisturbed DEF statVars
  <2> QED BY <1>3, <2>1, <2>2 DEF WorkersInv, ControlInv
<1>6. CASE Capture
  <2>1. /\ Same(A) /\ Same(S) /\ UNCHANGED <<wk, statVars>>
        /\ nCommit' \in Nat /\ nCommit <= nCommit'
        /\ nCommit' > nCommit => WriteSizes # {}
    BY <1>1, <1>6, CaptureFacts
  <2>2. AnalysisInv' /\ StorageInv' /\ (BlockFits => BlockInv')
    BY <1>1, <1>2, <1>4, <2>1, AnalysisUndisturbed, StorageUndisturbed DEF statVars
  <2>3. \A r \in Readers : ControlInv(r)'
    BY <1>1, <1>2, <2>1 DEF ControlInv, Same
  <2>4. nCommit' > 0 => WriteSizes # {}
    BY <1>1, <2>1 DEF WorkersInv
  <2> QED BY <1>3, <2>1, <2>2, <2>3, <2>4 DEF WorkersInv
<1>7. CASE Analysis
  <2>1. /\ wk' \in [Readers -> WorkerPCs] /\ ControlInv(A)' /\ AnalysisInv'
        /\ Same(S) /\ nCommit' = nCommit
        /\ UNCHANGED <<nStorageBytes, nStorageOverruns>>
    BY <1>1, <1>7, AnalysisPreserves
  <2>2. StorageInv' /\ (BlockFits => BlockInv')
    BY <1>1, <1>2, <1>4, <2>1, StorageUndisturbed
  <2>3. ControlInv(S)'
    BY <1>2, <2>1 DEF ControlInv, Same
  <2> QED BY <1>1, <1>3, <2>1, <2>2, <2>3 DEF WorkersInv
<1>8. CASE Storage
  <2>1. /\ wk' \in [Readers -> WorkerPCs] /\ ControlInv(S)' /\ StorageInv'
        /\ Same(A) /\ nCommit' = nCommit
        /\ UNCHANGED <<nAnalysisFrames, nAnalysisOverruns>>
    BY <1>1, <1>8, StorageCountersPreserve
  <2>2. AnalysisInv' /\ (BlockFits => BlockInv')
    BY <1>2, <1>8, <2>1, AnalysisUndisturbed, BlockPreserves
  <2>3. ControlInv(A)'
    BY <1>2, <2>1 DEF ControlInv, Same
  <2> QED BY <1>1, <1>3, <2>1, <2>2, <2>3 DEF WorkersInv
<1> QED BY <1>5, <1>6, <1>7, <1>8 DEF WorkersNext

\* The inductive invariant holds in every reachable state of the workers.
LEMMA WorkersInvariant == WorkersSpec => []WorkersInv
<1> DEFINE CI == \A r \in Readers : CountInv(r)
<1>1. WorkersSpec => []RingInv /\ []CI
  BY WorkersUseTheRing, RingInvariant, CountInvariant, PTL
<1>2. RingInv /\ CI /\ WorkersInv /\ [WorkersNext]_workerVars => WorkersInv'
  BY WorkersStep
<1> HIDE DEF CI
<1> QED BY WorkersInitInv, <1>1, <1>2, PTL DEF WorkersSpec

\* Storage drains whole blocks only, however it is lapped between its check
\* and its Read.
THEOREM DrainsWholeBlocks == WorkersSpec => []WholeBlocks
<1>1. WorkersInv => WholeBlocks
  BY DEF WorkersInv, BlockInv, WholeBlocks
<1> QED BY WorkersInvariant, <1>1, PTL

\* The bytes, frames and laps that the workers report never add up to more
\* than their cursors have passed.
THEOREM ReportsAreHonest == WorkersSpec => []CountersAreHonest
<1>1. RingInv /\ WorkersInv => CountersAreHonest
  <2> SUFFICES ASSUME RingInv, WorkersInv PROVE CountersAreHonest
    OBVIOUS
  <2> DEFINE H == Headroom + 1
  <2>1. A \in Readers /\ S \in Readers /\ AnalysisInv /\ StorageInv /\ H \in Nat
    BY WorkerFacts, ConstantFacts DEF WorkersInv
  <2>2. /\ nOverruns[A] \in Nat /\ nCursor[A] \in Nat /\ Held(A) \in Nat
        /\ nOverruns[S] \in Nat /\ nCursor[S] \in Nat /\ Held(S) \in Nat
    BY <2>1, WorkerFacts
  <2>3. Lost(A) = nOverruns[A] * H /\ Lost(S) = nOverruns[S] * H
    BY DEF Lost
  <2> HIDE DEF H
  <2>4. ASSUME NEW a \in Nat, NEW b \in Nat, a <= b
        PROVE  a * H \in Nat /\ b * H \in Nat /\ a * H <= b * H
               /\ 4 * a * H = 4 * (a * H)
    BY <2>1, <2>4
  <2>5. /\ nAnalysisOverruns * H \in Nat /\ nAnalysisOverruns * H <= Lost(A)
        /\ Lost(A) \in Nat
    BY <2>1, <2>2, <2>3, <2>4 DEF AnalysisInv
  <2>6. /\ nStorageOverruns * H \in Nat /\ nStorageOverruns * H <= Lost(S)
        /\ Lost(S) \in Nat
        /\ 4 * nStorageOverruns * H = 4 * (nStorageOverruns * H)
    BY <2>1, <2>2, <2>3, <2>4 DEF StorageInv
  <2>7. 2 * nAnalysisFrames + nAnalysisOverruns * H <= nCursor[A]
    BY <2>1, <2>2, <2>5 DEF AnalysisInv
  <2>8. nStorageBytes + 4 * nStorageOverruns * H <= 4 * nCursor[S]
    BY <2>1, <2>2, <2>6 DEF StorageInv, BytesPerWord
  <2> QED BY <2>7, <2>8 DEF CountersAreHonest, BytesPerWord, H
<1>2. WorkersSpec => []RingInv
  BY WorkersUseTheRing, RingInvariant, PTL
<1> QED BY WorkersInvariant, <1>1, <1>2, PTL
=============================================================================
