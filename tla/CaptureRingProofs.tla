------------------------- MODULE CaptureRingProofs -------------------------
(***************************************************************************)
(* Proofs about CaptureRing, for every capacity, every set of write sizes, *)
(* any number of readers and an unbounded run.                             *)
(***************************************************************************)
EXTENDS CaptureRing, TLAPS

-----------------------------------------------------------------------------
(* Facts about the constants, slots and regions. *)

\* What RingAssumption gives to arithmetic.
LEMMA ConstantFacts ==
  /\ CAPACITY \in Nat /\ CAPACITY > 0
  /\ Headroom \in Nat /\ Headroom <= CAPACITY
  /\ \A n \in WriteSizes : n \in Nat /\ 1 <= n /\ n <= CAPACITY
  /\ \A r \in Readers : MaxWords[r] \in Nat /\ MaxWords[r] > 0
  /\ MaxAttempts \in Nat /\ MaxAttempts > 0
BY RingAssumption DEF RingAssumption, Headroom

\* Every index has a slot in the ring.
LEMMA SlotInRing ==
  ASSUME NEW k \in Nat
  PROVE  Slot(k) \in 0 .. CAPACITY - 1
BY ConstantFacts DEF Slot

\* Two words less than a lap apart never share a slot.
LEMMA SlotsDistinct ==
  ASSUME NEW a \in Nat, NEW b \in Nat, a < b, b < a + CAPACITY
  PROVE  Slot(a) # Slot(b)
<1> SUFFICES ASSUME Slot(a) = Slot(b) PROVE FALSE
  OBVIOUS
<1> DEFINE q == b \div CAPACITY - a \div CAPACITY
<1>1. q \in Int /\ b - a = CAPACITY * q
  BY ConstantFacts DEF Slot
<1> HIDE DEF q
<1>2. q >= 1 => CAPACITY * q >= CAPACITY
  BY <1>1, ConstantFacts
<1>3. q <= 0 => CAPACITY * q <= 0
  BY <1>1, ConstantFacts
<1> QED BY <1>1, <1>2, <1>3, ConstantFacts

\* Length and elements of a region of the stream.
LEMMA RegionFacts ==
  ASSUME NEW from \in Int, NEW n \in Nat
  PROVE  /\ Region(from, n) \in Seq(Int)
         /\ Len(Region(from, n)) = n
         /\ \A i \in 1..n : Region(from, n)[i] = from + i - 1
BY DEF Region

\* A region of no words is the empty sequence.
LEMMA RegionEmpty ==
  ASSUME NEW from \in Int
  PROVE  Region(from, 0) = << >>
BY DEF Region

\* The next word of the stream extends a region by one.
LEMMA RegionAppend ==
  ASSUME NEW from \in Int, NEW n \in Nat
  PROVE  Append(Region(from, n), from + n) = Region(from, n + 1)
BY DEF Region

-----------------------------------------------------------------------------
(* RingInv is inductive: one lemma for the writer's steps, one for a reader. *)

\* The invariant holds at power-on.
LEMMA InitRingInv == Init => RingInv
<1> SUFFICES ASSUME Init PROVE RingInv
  OBVIOUS
<1> USE DEF Init
<1>1. TypeOK
  BY ConstantFacts DEF TypeOK, ReaderPCs
<1>2. WriterInv /\ BufferInv
  BY DEF WriterInv, BufferInv
<1>3. NoTornRead /\ \A r \in Readers : CopyInv(r)
  BY DEF NoTornRead, Exact, CopyInv
<1> QED BY <1>1, <1>2, <1>3 DEF RingInv

\* The writer only ever announces more: a lapped reader stays lapped.
LEMMA WriterPreserves ==
  ASSUME RingInv, Writer
  PROVE  RingInv'
<1> USE DEF RingInv
<1>1. ASSUME NEW n \in WriteSizes, WriteReserve(n)
      PROVE  RingInv'
  <2> USE <1>1, ConstantFacts DEF WriteReserve, Announce, readerVars
  <2>1. TypeOK'
    <3>1. nReserve' \in Nat /\ wLen' \in 0 .. CAPACITY
      BY DEF TypeOK
    <3> QED BY ONLY <1>1, <3>1, RingInv DEF WriteReserve, readerVars, RingInv, TypeOK
  <2>2. WriterInv'
    BY DEF TypeOK, WriterInv
  <2>3. BufferInv'
    BY DEF TypeOK, WriterInv, BufferInv
  <2>4. NoTornRead'
    BY DEF NoTornRead, Exact
  <2>5. ASSUME NEW r \in Readers PROVE CopyInv(r)'
    <3>1. nCursor[r] \in Nat /\ nReserve \in Nat /\ nReserve' \in Nat /\ nReserve <= nReserve'
      BY DEF TypeOK, WriterInv
    <3>2. Lapped(r) => Lapped(r)'
      BY ONLY <3>1, <1>1, ConstantFacts DEF WriteReserve, readerVars, Lapped
    <3>3. CopyInv(r) /\ UNCHANGED <<rpc, nCursor, nWords, pOut, nCommit>>
      OBVIOUS
    <3> QED BY ONLY <3>2, <3>3 DEF CopyInv
  <2> QED BY ONLY <2>1, <2>2, <2>3, <2>4, <2>5 DEF RingInv
<1>2. ASSUME WriteWord
      PROVE  RingInv'
  <2> USE <1>2, ConstantFacts DEF WriteWord, readerVars
  <2> DEFINE w == nCommit + wPos
  <2>1. w \in Nat /\ Slot(w) \in 0 .. CAPACITY - 1
    BY SlotInRing DEF TypeOK
  <2>2. TypeOK'
    BY <2>1 DEF TypeOK
  <2>3. WriterInv'
    BY DEF TypeOK, WriterInv
  <2>4. BufferInv'
    <3> SUFFICES ASSUME NEW k \in 0 .. nCommit' + wPos' - 1, nReserve' <= k + CAPACITY
                 PROVE  Buffer'[Slot(k)] = k
      BY DEF BufferInv
    <3>1. k \in Nat /\ k <= w /\ Slot(k) \in 0 .. CAPACITY - 1
      <4>1. k \in Nat /\ k <= w
        BY DEF TypeOK
      <4> QED BY ONLY <4>1, SlotInRing
    <3>2. CASE k = w
      BY <2>1, <3>1, <3>2 DEF TypeOK
    <3>3. CASE k < w
      <4>1. w < k + CAPACITY
        BY <3>1 DEF TypeOK, WriterInv
      <4>2. Slot(k) # Slot(w)
        BY <2>1, <3>1, <3>3, <4>1, SlotsDistinct
      <4>3. Buffer[Slot(k)] = k
        BY <3>1, <3>3 DEF TypeOK, BufferInv
      <4> QED BY <2>1, <3>1, <4>2, <4>3 DEF TypeOK
    <3> QED BY <2>1, <3>1, <3>2, <3>3
  <2>5. NoTornRead'
    BY DEF NoTornRead, Exact
  <2>6. ASSUME NEW r \in Readers PROVE CopyInv(r)'
    BY DEF CopyInv, Lapped
  <2> QED BY ONLY <2>2, <2>3, <2>4, <2>5, <2>6 DEF RingInv
<1>3. ASSUME WriteCommit
      PROVE  RingInv'
  <2> USE <1>3, ConstantFacts DEF WriteCommit, readerVars
  <2>1. TypeOK'
    BY DEF TypeOK
  <2>2. WriterInv'
    BY DEF TypeOK, WriterInv
  <2>3. BufferInv'
    BY DEF TypeOK, WriterInv, BufferInv
  <2>4. NoTornRead'
    BY DEF NoTornRead, Exact
  <2>5. ASSUME NEW r \in Readers PROVE CopyInv(r)'
    BY DEF TypeOK, WriterInv, CopyInv, Lapped
  <2> QED BY ONLY <2>1, <2>2, <2>3, <2>4, <2>5 DEF RingInv
<1> QED BY <1>1, <1>2, <1>3 DEF Writer

\* A reader's step leaves the writer's state and the other readers alone.
LEMMA ReaderPreserves ==
  ASSUME RingInv, NEW r \in Readers, InitReader(r) \/ ReadStep(r)
  PROVE  RingInv'
<1> USE DEF RingInv
<1>1. UNCHANGED writerVars /\ WriterInv' /\ BufferInv'
  BY DEF InitReader, ReadStep, LapCheck, LoadHead, CopyWord, Deliver, Discard,
         writerVars, WriterInv, BufferInv
<1>2. nReserve \in Nat /\ nCommit \in Nat /\ nCommit <= nReserve
      /\ nCursor[r] \in Nat /\ nWords[r] \in Nat
      /\ pOut[r] \in Seq(Nat \cup {NoWord}) /\ Len(pOut[r]) \in Nat
      /\ << >> \in Seq(Nat \cup {NoWord})
  BY DEF TypeOK, WriterInv
<1>3. ASSUME TypeOK', Exact(r)', CopyInv(r)',
             \A s \in Readers \ {r} :
               /\ rpc'[s] = rpc[s] /\ nCursor'[s] = nCursor[s]
               /\ nWords'[s] = nWords[s] /\ pOut'[s] = pOut[s]
      PROVE  RingInv'
  <2>1. NoTornRead'
    BY <1>3 DEF NoTornRead, Exact
  <2>2. ASSUME NEW s \in Readers PROVE CopyInv(s)'
    BY <1>1, <1>3 DEF CopyInv, Lapped, writerVars
  <2> QED BY <1>1, <1>3, <2>1, <2>2
<1>4. ASSUME InitReader(r)
      PROVE  RingInv'
  <2> USE <1>4 DEF InitReader, StartWord
  <2>1. TypeOK'
    BY DEF TypeOK, ReaderPCs, writerVars
  <2>2. pOut[r] = << >>
    BY DEF CopyInv
  <2>3. Exact(r)' /\ CopyInv(r)'
    BY <1>2, <2>2, RegionEmpty DEF TypeOK, Exact, CopyInv
  <2> QED BY <1>3, <2>1, <2>3 DEF TypeOK
<1>5. ASSUME LapCheck(r)
      PROVE  RingInv'
  <2> USE <1>5, ConstantFacts DEF LapCheck, Lapped, Resync, CountLap
  <2>1. TypeOK'
    <3>1. CASE Lapped(r)
      <4>1. Resync \in Nat
        BY <1>2, <3>1
      <4>2. pOut' \in [Readers -> Seq(Nat \cup {NoWord})]
        BY <1>2 DEF TypeOK
      <4>3. /\ nCursor' = [nCursor EXCEPT ![r] = Resync]
            /\ nOverruns' = [nOverruns EXCEPT ![r] = nOverruns[r] + 1]
        BY <3>1
      <4>5. nCursor' \in [Readers -> Nat]
        BY <4>1, <4>3 DEF TypeOK
      <4>6. nOverruns' \in [Readers -> Nat]
        BY <4>3 DEF TypeOK
      <4>4. rpc' \in [Readers -> ReaderPCs]
        BY DEF TypeOK, ReaderPCs
      <4> QED BY <1>1, <4>2, <4>4, <4>5, <4>6 DEF TypeOK, writerVars
    <3>2. CASE ~Lapped(r)
      BY <1>2, <3>2 DEF TypeOK, ReaderPCs, writerVars
    <3> QED BY <3>1, <3>2
  <2>2. Exact(r)' /\ CopyInv(r)'
    BY <1>2 DEF TypeOK, Exact, CopyInv
  <2> QED BY <1>3, <2>1, <2>2 DEF TypeOK
<1>6. ASSUME LoadHead(r)
      PROVE  RingInv'
  <2> USE <1>6, ConstantFacts DEF LoadHead, NothingNew, ReturnNothing
  <2>1. CASE NothingNew(r)
    <3>1. TypeOK'
      <4>1. pOut' \in [Readers -> Seq(Nat \cup {NoWord})]
        BY <1>2, <2>1 DEF TypeOK
      <4>2. rpc' \in [Readers -> ReaderPCs]
        BY <2>1 DEF TypeOK, ReaderPCs
      <4>3. nAttempt' = [nAttempt EXCEPT ![r] = 0] /\ nWords' = [nWords EXCEPT ![r] = 0]
        BY <2>1
      <4>4. nAttempt' \in [Readers -> Nat] /\ nWords' \in [Readers -> Nat]
        BY <4>3 DEF TypeOK
      <4> QED BY <1>1, <2>1, <4>1, <4>2, <4>4 DEF TypeOK, writerVars
    <3>2. Exact(r)' /\ CopyInv(r)'
      BY <1>2, <2>1, RegionEmpty DEF TypeOK, Exact, CopyInv
    <3>3. \A x \in Readers \ {r} :
            /\ rpc'[x] = rpc[x] /\ nCursor'[x] = nCursor[x]
            /\ nWords'[x] = nWords[x] /\ pOut'[x] = pOut[x]
      BY <2>1 DEF TypeOK
    <3> QED BY ONLY <1>3, <3>1, <3>2, <3>3
  <2>2. CASE ~NothingNew(r)
    <3>1. Request(r) \in Nat /\ 0 < Request(r) /\ nCursor[r] + Request(r) <= nCommit
      BY <1>2, <2>2 DEF Request, Available
    <3>2. TypeOK'
      <4>1. nWords' = [nWords EXCEPT ![r] = Request(r)] /\ rpc' = [rpc EXCEPT ![r] = "copy"]
        BY <2>2
      <4>2. nWords' \in [Readers -> Nat] /\ rpc' \in [Readers -> ReaderPCs]
        BY <3>1, <4>1 DEF TypeOK, ReaderPCs
      <4>3. UNCHANGED <<nAttempt, pOut, nCursor, nOverruns, nInvalid>>
        BY <2>2
      <4> QED BY <1>1, <4>2, <4>3 DEF TypeOK, writerVars
    <3>3. pOut'[r] = << >> /\ nWords'[r] = Request(r) /\ rpc'[r] = "copy"
      BY <2>2 DEF TypeOK, CopyInv
    <3>4. nCursor'[r] = nCursor[r] /\ nCommit' = nCommit /\ Len(<< >>) = 0
      BY DEF writerVars
    <3>5. Exact(r)' /\ CopyInv(r)'
      BY <1>2, <3>1, <3>3, <3>4, RegionEmpty DEF Exact, CopyInv
    <3> QED BY <1>3, <2>2, <3>2, <3>5 DEF TypeOK
  <2> QED BY <2>1, <2>2
<1>7. ASSUME CopyWord(r)
      PROVE  RingInv'
  <2> DEFINE k == nCursor[r] + Len(pOut[r])
  <2>1. k \in Nat /\ k < nCommit
    <3>1. /\ nCursor[r] \in Nat /\ nWords[r] \in Nat /\ nCommit \in Nat
          /\ Len(pOut[r]) \in Nat
      BY <1>2 DEF TypeOK
    <3>2. Len(pOut[r]) < nWords[r] /\ nCursor[r] + nWords[r] <= nCommit
      BY <1>2, <1>7 DEF CopyWord, CopyInv
    <3> QED BY <3>1, <3>2
  <2> USE <1>7, ConstantFacts DEF CopyWord
  <2> HIDE DEF k
  <2>0. Slot(k) \in 0 .. CAPACITY - 1
    BY <2>1, SlotInRing
  <2> USE DEF k
  <2>2. Buffer[Slot(k)] \in Nat \cup {NoWord}
    BY <2>0 DEF TypeOK
  <2>3. /\ pOut'[r] = Append(pOut[r], Buffer[Slot(k)])
        /\ pOut'[r] \in Seq(Nat \cup {NoWord})
        /\ Len(pOut'[r]) = Len(pOut[r]) + 1
    BY <1>2, <2>2 DEF TypeOK
  <2>4. TypeOK'
    BY <2>3 DEF TypeOK, ReaderPCs, writerVars
  <2>5. Lapped(r) \/ pOut'[r] = Region(nCursor[r], Len(pOut'[r]))
    <3> SUFFICES ASSUME ~Lapped(r) PROVE pOut'[r] = Region(nCursor[r], Len(pOut'[r]))
      OBVIOUS
    <3>1. nReserve <= k + CAPACITY
      BY <1>2 DEF Lapped
    <3>2. Buffer[Slot(k)] = k
      BY <2>1, <3>1 DEF TypeOK, BufferInv
    <3>3. pOut[r] = Region(nCursor[r], Len(pOut[r]))
      BY DEF CopyInv
    <3>4. pOut'[r] = Append(Region(nCursor[r], Len(pOut[r])), nCursor[r] + Len(pOut[r]))
      BY <2>3, <3>2, <3>3
    <3>5. nCursor[r] \in Int /\ Len(pOut[r]) \in Nat
      BY <1>2
    <3>6. Append(Region(nCursor[r], Len(pOut[r])), nCursor[r] + Len(pOut[r]))
          = Region(nCursor[r], Len(pOut[r]) + 1)
      BY ONLY <3>5, RegionAppend
    <3> QED BY <2>3, <3>4, <3>6
  <2>6. Exact(r)' /\ CopyInv(r)'
    <3>1. rpc'[r] = IF Len(pOut[r]) + 1 = nWords[r] THEN "check" ELSE "copy"
      BY DEF TypeOK
    <3>2. UNCHANGED <<nCommit, nReserve, nCursor, nWords>>
      BY DEF writerVars
    <3>3. /\ 0 < nWords[r] /\ nCursor[r] + nWords[r] <= nCommit
          /\ Len(pOut[r]) < nWords[r]
      BY DEF CopyInv
    <3>4. (rpc'[r] = "copy" => Len(pOut'[r]) < nWords[r])
          /\ (rpc'[r] = "check" => Len(pOut'[r]) = nWords[r])
      BY ONLY <1>2, <2>3, <3>1, <3>3
    <3> QED BY ONLY <2>5, <3>1, <3>2, <3>3, <3>4 DEF Exact, CopyInv, Lapped
  <2>7. ASSUME NEW x \in Readers \ {r}
        PROVE  /\ rpc'[x] = rpc[x] /\ nCursor'[x] = nCursor[x]
               /\ nWords'[x] = nWords[x] /\ pOut'[x] = pOut[x]
    BY DEF TypeOK
  <2> QED BY ONLY <1>3, <2>4, <2>6, <2>7
<1>8. ASSUME Deliver(r)
      PROVE  RingInv'
  <2> USE <1>8 DEF Deliver, StillValid
  <2>1. TypeOK'
    <3>1. nCursor[r] + nWords[r] \in Nat
      BY <1>2
    <3> QED BY <1>2, <3>1 DEF TypeOK, ReaderPCs, writerVars
  <2>2. pOut[r] = Region(nCursor[r], nWords[r]) /\ Len(pOut[r]) = nWords[r]
    BY <1>2, ConstantFacts DEF CopyInv, Lapped
  <2>3. Exact(r)' /\ CopyInv(r)'
    BY <1>2, <2>2 DEF TypeOK, Exact, CopyInv
  <2> QED BY <1>3, <2>1, <2>3 DEF TypeOK
<1>9. ASSUME Discard(r)
      PROVE  RingInv'
  <2> USE <1>9 DEF Discard, ReturnNothing
  <2>1. TypeOK'
    <3>1. pOut' \in [Readers -> Seq(Nat \cup {NoWord})]
      BY <1>2 DEF TypeOK
    <3>2. rpc' \in [Readers -> ReaderPCs]
      BY DEF TypeOK, ReaderPCs
    <3>3. \E a \in Nat, w \in Nat :
             /\ nAttempt' = [nAttempt EXCEPT ![r] = a]
             /\ nWords' = [nWords EXCEPT ![r] = w]
             /\ nInvalid' = [nInvalid EXCEPT ![r] = nInvalid[r] + 1]
      <4>1. nWords = [nWords EXCEPT ![r] = nWords[r]] /\ nAttempt[r] + 1 \in Nat
        BY DEF TypeOK
      <4> QED BY <4>1, <1>2
    <3>4. nAttempt' \in [Readers -> Nat] /\ nWords' \in [Readers -> Nat]
      BY <3>3 DEF TypeOK
    <3>5. nInvalid' \in [Readers -> Nat]
      BY <3>3 DEF TypeOK
    <3> QED BY <1>1, <3>1, <3>2, <3>4, <3>5 DEF TypeOK, writerVars
  <2>2. Exact(r)' /\ CopyInv(r)'
    BY <1>2, RegionEmpty DEF TypeOK, Exact, CopyInv
  <2>3. ASSUME NEW x \in Readers \ {r}
        PROVE  /\ rpc'[x] = rpc[x] /\ nCursor'[x] = nCursor[x]
               /\ nWords'[x] = nWords[x] /\ pOut'[x] = pOut[x]
    <3>1. nCursor'[x] = nCursor[x] /\ rpc'[x] = rpc[x]
      BY DEF TypeOK
    <3>2. nWords'[x] = nWords[x] /\ pOut'[x] = pOut[x]
      BY DEF TypeOK
    <3> QED BY ONLY <3>1, <3>2
  <2> QED BY ONLY <1>3, <2>1, <2>2, <2>3
<1> QED BY <1>4, <1>5, <1>6, <1>7, <1>8, <1>9 DEF ReadStep

\* A stuttering step preserves the invariant.
LEMMA StutterPreserves ==
  ASSUME RingInv, UNCHANGED vars
  PROVE  RingInv'
BY DEF RingInv, vars, writerVars, readerVars, TypeOK, WriterInv, BufferInv,
       NoTornRead, Exact, CopyInv, Lapped

\* Every step of the ring preserves the invariant.
LEMMA NextPreserves ==
  ASSUME RingInv, [Next]_vars
  PROVE  RingInv'
BY WriterPreserves, ReaderPreserves, StutterPreserves DEF Next

\* The inductive invariant holds in every reachable state of the ring.
THEOREM RingInvariant == Spec => []RingInv
<1>1. RingInv /\ [Next]_vars => RingInv'
  BY NextPreserves
<1> QED BY InitRingInv, <1>1, PTL DEF Spec

\* Type correctness of the ring.
THEOREM TypeCorrect == Spec => []TypeOK
<1>1. RingInv => TypeOK
  BY DEF RingInv
<1> QED BY RingInvariant, <1>1, PTL

\* No Read ever returns a torn, stale or unwritten word.
THEOREM ReadsAreNotTorn == Spec => []NoTornRead
<1>1. RingInv => NoTornRead
  BY DEF RingInv
<1> QED BY RingInvariant, <1>1, PTL

-----------------------------------------------------------------------------
(* The lap and discard counters. *)

\* A reader owes the counters at most one lap, and none while a copy that
\* began unlapped is under way; before it joins it has counted nothing.
CountInv(r) ==
  /\ nInvalid[r] <= nOverruns[r] + 1
  /\ ~Lapped(r) => nInvalid[r] <= nOverruns[r]
  /\ rpc[r] \in {"head", "copy", "check"} => nInvalid[r] <= nOverruns[r]
  /\ rpc[r] = "off" => nOverruns[r] = 0 /\ nInvalid[r] = 0
  /\ nOverruns[r] * (Headroom + 1) <= nCursor[r]

\* The counters add up at power-on.
LEMMA CountInvInit ==
  ASSUME Init, NEW r \in Readers
  PROVE  CountInv(r)
BY ConstantFacts DEF Init, CountInv, Lapped

\* Every step keeps the counters adding up.
LEMMA CountInvStep ==
  ASSUME RingInv, NEW r \in Readers, CountInv(r), [Next]_vars
  PROVE  CountInv(r)'
<1> DEFINE H == Headroom + 1
           o == nOverruns[r]
<1>1. /\ nReserve \in Nat /\ nCommit \in Nat /\ nReserve = nCommit + wLen /\ wLen \in Nat
      /\ wLen <= CAPACITY
      /\ nCursor[r] \in Nat /\ o \in Nat /\ nInvalid[r] \in Nat /\ nWords[r] \in Nat
      /\ H \in Nat /\ o * H \in Nat /\ (o + 1) * H = o * H + H
  BY ConstantFacts DEF RingInv, TypeOK, WriterInv
<1> HIDE DEF H, o
<1>2. ASSUME UNCHANGED <<rpc, nCursor, nOverruns, nInvalid>>, nReserve <= nReserve', nReserve' \in Nat
      PROVE  CountInv(r)'
  BY <1>1, <1>2, ConstantFacts DEF CountInv, Lapped
<1>3. CASE UNCHANGED vars
  BY <1>1, <1>2, <1>3 DEF vars, writerVars, readerVars
<1>4. CASE Writer
  <2>1. nReserve' \in Nat /\ nReserve <= nReserve'
    BY <1>1, <1>4, ConstantFacts
       DEF Writer, WriteReserve, Announce, WriteWord, WriteCommit, RingInv, WriterInv
  <2> QED BY <1>2, <1>4, <2>1 DEF Writer, WriteReserve, WriteWord, WriteCommit, readerVars
<1>5. ASSUME NEW s \in Readers, s # r, InitReader(s) \/ ReadStep(s)
      PROVE  CountInv(r)'
  <2>1. /\ rpc'[r] = rpc[r] /\ nCursor'[r] = nCursor[r] /\ nOverruns'[r] = nOverruns[r]
        /\ nInvalid'[r] = nInvalid[r] /\ nReserve' = nReserve
    BY <1>5 DEF RingInv, TypeOK, InitReader, ReadStep, LapCheck, CountLap, LoadHead,
         ReturnNothing, CopyWord, Deliver, Discard, writerVars
  <2> QED BY <2>1 DEF CountInv, Lapped
<1>6. ASSUME InitReader(r)
      PROVE  CountInv(r)'
  <2>1. /\ nCursor'[r] = nCommit /\ nOverruns'[r] = o /\ nInvalid'[r] = nInvalid[r]
        /\ nReserve' = nReserve /\ o = 0 /\ nInvalid[r] = 0 /\ rpc'[r] = "idle"
    BY <1>6 DEF RingInv, TypeOK, InitReader, StartWord, writerVars, CountInv, o
  <2> QED BY <1>1, <2>1, ConstantFacts DEF CountInv, Lapped
<1>7. ASSUME LapCheck(r)
      PROVE  CountInv(r)'
  <2>1. nReserve' = nReserve /\ nInvalid'[r] = nInvalid[r] /\ rpc'[r] = "head"
    BY <1>7 DEF RingInv, TypeOK, LapCheck, writerVars
  <2>2. CASE Lapped(r)
    <3>1. nCursor'[r] = nReserve - CAPACITY + Headroom /\ nOverruns'[r] = o + 1
      BY <1>7, <2>2 DEF RingInv, TypeOK, LapCheck, Resync, CountLap, o
    <3>2. o * H <= nCursor[r] /\ nInvalid[r] <= o + 1
      BY DEF CountInv, H, o
    <3>3. (o + 1) * H <= nCursor'[r]
      BY <1>1, <2>2, <3>1, <3>2, ConstantFacts DEF Lapped, H
    <3> QED BY <1>1, <2>1, <3>1, <3>2, <3>3, ConstantFacts DEF CountInv, Lapped, H
  <2>3. CASE ~Lapped(r)
    <3>1. nCursor' = nCursor /\ nOverruns' = nOverruns
      BY <1>7, <2>3 DEF LapCheck
    <3> QED BY <1>1, <2>1, <2>3, <3>1, ConstantFacts DEF CountInv, Lapped
  <2> QED BY <2>2, <2>3
<1>8. ASSUME LoadHead(r) \/ CopyWord(r)
      PROVE  CountInv(r)'
  <2>1. /\ nCursor' = nCursor /\ nOverruns' = nOverruns /\ nInvalid' = nInvalid
        /\ nReserve' = nReserve /\ rpc[r] \in {"head", "copy"} /\ rpc'[r] # "off"
    BY <1>8 DEF RingInv, TypeOK, LoadHead, ReturnNothing, CopyWord, writerVars
  <2> QED BY <1>1, <2>1 DEF CountInv, Lapped
<1>9. ASSUME Deliver(r)
      PROVE  CountInv(r)'
  <2>1. /\ nCursor'[r] = nCursor[r] + nWords[r] /\ nOverruns' = nOverruns
        /\ nInvalid' = nInvalid /\ nReserve' = nReserve /\ rpc[r] = "check"
        /\ rpc'[r] = "idle"
    BY <1>9 DEF RingInv, TypeOK, Deliver, writerVars
  <2> QED BY <1>1, <2>1 DEF CountInv, Lapped, o, H
<1>10. ASSUME Discard(r)
       PROVE  CountInv(r)'
  <2>1. /\ nCursor' = nCursor /\ nOverruns' = nOverruns
        /\ nInvalid'[r] = nInvalid[r] + 1 /\ nReserve' = nReserve /\ rpc[r] = "check"
        /\ rpc'[r] \in {"idle", "retry"} /\ Lapped(r)
    BY <1>10, ConstantFacts
       DEF RingInv, TypeOK, Discard, ReturnNothing, StillValid, Lapped, writerVars
  <2> QED BY <1>1, <2>1 DEF CountInv, Lapped, o
<1> QED BY <1>3, <1>4, <1>5, <1>6, <1>7, <1>8, <1>9, <1>10 DEF Next, ReadStep

\* The counters add up in every reachable state.
LEMMA CountInvariant == Spec => [](\A r \in Readers : CountInv(r))
<1> DEFINE CI == \A r \in Readers : CountInv(r)
<1>1. Init => CI
  BY CountInvInit
<1>2. RingInv /\ CI /\ [Next]_vars => CI'
  BY CountInvStep
<1> HIDE DEF CI
<1>3. Spec => []CI
  BY RingInvariant, <1>1, <1>2, PTL DEF Spec
<1> QED BY <1>3 DEF CI

\* Every counted lap really lost a reader more than a quarter of the ring.
THEOREM LapsAreReal == Spec => []LapsCostAQuarter
<1>1. (\A r \in Readers : CountInv(r)) => LapsCostAQuarter
  BY DEF CountInv, LapsCostAQuarter
<1> QED BY CountInvariant, <1>1, PTL

\* Every discarded copy is a lap that is counted, or is about to be.
THEOREM DiscardsAreCounted == Spec => []DiscardsAreLaps
<1>1. RingInv /\ (\A r \in Readers : CountInv(r)) => DiscardsAreLaps
  BY DEF CountInv, DiscardsAreLaps, RingInv, TypeOK
<1> QED BY RingInvariant, CountInvariant, <1>1, PTL

-----------------------------------------------------------------------------
(* Available cannot wrap. *)

\* No cursor is past the head at power-on.
LEMMA CursorInit == Init => CursorBehindHead
BY DEF Init, CursorBehindHead

\* No step takes a cursor past the head.
LEMMA CursorStep ==
  ASSUME RingInv, CursorBehindHead, [Next]_vars
  PROVE  CursorBehindHead'
<1> SUFFICES ASSUME SmallWrites, NEW r \in Readers PROVE nCursor'[r] <= nCommit'
  BY DEF CursorBehindHead, SmallWrites, Headroom
<1>1. /\ nCommit \in Nat /\ nReserve = nCommit + wLen /\ wLen \in Nat
      /\ wLen <= CAPACITY - Headroom
      /\ nCursor[r] \in Nat /\ nCursor[r] <= nCommit
  BY ConstantFacts DEF RingInv, TypeOK, WriterInv, CursorBehindHead, SmallWrites
<1>2. CASE UNCHANGED vars
  BY <1>1, <1>2 DEF vars, writerVars, readerVars
<1>3. CASE Writer
  BY <1>1, <1>3 DEF Writer, WriteReserve, WriteWord, WriteCommit, readerVars
<1>4. ASSUME NEW s \in Readers, s # r, InitReader(s) \/ ReadStep(s)
      PROVE  nCursor'[r] <= nCommit'
  <2>1. nCursor'[r] = nCursor[r] /\ nCommit' = nCommit
    BY <1>4 DEF RingInv, TypeOK, InitReader, ReadStep, LapCheck, LoadHead, CopyWord,
         Deliver, Discard, writerVars
  <2> QED BY <1>1, <2>1
<1>5. ASSUME InitReader(r)
      PROVE  nCursor'[r] <= nCommit'
  BY <1>1, <1>5 DEF RingInv, TypeOK, InitReader, StartWord, writerVars
<1>6. ASSUME LapCheck(r)
      PROVE  nCursor'[r] <= nCommit'
  <2>1. nCommit' = nCommit /\ (nCursor'[r] = Resync \/ nCursor'[r] = nCursor[r])
    BY <1>6 DEF RingInv, TypeOK, LapCheck, writerVars
  <2>2. Resync <= nCommit
    BY <1>1, ConstantFacts DEF Resync
  <2> QED BY <1>1, <2>1, <2>2
<1>7. ASSUME Deliver(r)
      PROVE  nCursor'[r] <= nCommit'
  BY <1>1, <1>7 DEF RingInv, TypeOK, CopyInv, Deliver, writerVars
<1>8. ASSUME LoadHead(r) \/ CopyWord(r) \/ Discard(r)
      PROVE  nCursor'[r] <= nCommit'
  BY <1>1, <1>8 DEF LoadHead, CopyWord, Discard, writerVars
<1> QED BY <1>2, <1>3, <1>4, <1>5, <1>6, <1>7, <1>8 DEF Next, ReadStep

\* With writes that leave the headroom free, no cursor passes the head.
THEOREM AvailableCannotWrap == Spec => []CursorBehindHead
BY RingInvariant, CursorInit, CursorStep, PTL DEF Spec

-----------------------------------------------------------------------------
(* Left stays left. *)

\* With stereo-aligned sizes every index of the ring is even: what the writer
\* has published and is writing, where a reader is and what it is to copy.
Aligned(r) ==
  /\ IsEven(nCursor[r]) /\ IsEven(nWords[r])
  /\ rpc[r] = "idle" => IsEven(Len(pOut[r]))
AlignInv ==
  AlignedConfig => IsEven(nCommit) /\ IsEven(wLen) /\ \A r \in Readers : Aligned(r)

\* All indices are zero at power-on.
LEMMA AlignInit == Init => AlignInv
<1>1. IsEven(0) /\ Len(<< >>) = 0
  BY DEF IsEven
<1> QED BY <1>1 DEF Init, AlignInv, Aligned

\* Every step keeps the indices even.
LEMMA AlignStep ==
  ASSUME RingInv, AlignInv, [Next]_vars
  PROVE  AlignInv'
<1> SUFFICES ASSUME AlignedConfig
             PROVE  IsEven(nCommit') /\ IsEven(wLen') /\ \A r \in Readers : Aligned(r)'
  BY DEF AlignInv, AlignedConfig, Headroom
<1>1. IsEven(nCommit) /\ IsEven(wLen) /\ \A r \in Readers : Aligned(r)
  BY DEF AlignInv
<1>2. /\ nCommit \in Nat /\ wLen \in Nat /\ nReserve = nCommit + wLen
      /\ IsEven(0) /\ IsEven(CAPACITY) /\ IsEven(Headroom)
      /\ CAPACITY \in Nat /\ Headroom \in Nat
  BY ConstantFacts DEF RingInv, TypeOK, WriterInv, AlignedConfig, IsEven
<1>3. CASE UNCHANGED vars
  BY <1>1, <1>3 DEF vars, writerVars, readerVars, Aligned
<1>4. CASE Writer
  <2>1. /\ nCommit' = nCommit \/ nCommit' = nCommit + wLen
        /\ wLen' = wLen \/ wLen' = 0 \/ wLen' \in WriteSizes
    BY <1>4 DEF Writer, WriteReserve, WriteWord, WriteCommit
  <2>3. IsEven(nCommit') /\ IsEven(wLen')
    BY <1>1, <1>2, <2>1 DEF AlignedConfig, IsEven
  <2>2. UNCHANGED readerVars
    BY <1>4 DEF Writer, WriteReserve, WriteWord, WriteCommit
  <2> QED BY <1>1, <2>2, <2>3 DEF readerVars, Aligned
<1>5. ASSUME NEW r \in Readers, InitReader(r) \/ ReadStep(r)
      PROVE  IsEven(nCommit') /\ IsEven(wLen') /\ \A s \in Readers : Aligned(s)'
  <2>1. UNCHANGED writerVars
    BY <1>5 DEF InitReader, ReadStep, LapCheck, LoadHead, CopyWord, Deliver, Discard
  <2>2. \A s \in Readers \ {r} :
          /\ rpc'[s] = rpc[s] /\ nCursor'[s] = nCursor[s]
          /\ nWords'[s] = nWords[s] /\ pOut'[s] = pOut[s]
    BY <1>5 DEF RingInv, TypeOK, InitReader, ReadStep, LapCheck, LoadHead, ReturnNothing,
         CopyWord, Deliver, Discard
  <2>3. Aligned(r) /\ nCursor[r] \in Nat /\ nWords[r] \in Nat
    BY <1>1 DEF RingInv, TypeOK
  <2>4. CASE InitReader(r)
    <3>1. nCursor'[r] = nCommit /\ nWords'[r] = nWords[r] /\ pOut'[r] = pOut[r]
          /\ pOut[r] = << >>
      BY <2>4 DEF RingInv, TypeOK, CopyInv, InitReader, StartWord
    <3> QED BY <1>1, <1>2, <2>1, <2>2, <2>3, <3>1 DEF Aligned, writerVars
  <2>5. CASE LapCheck(r)
    <3>1. /\ nWords'[r] = nWords[r] /\ rpc'[r] # "idle"
          /\ nCursor'[r] = nCursor[r] \/ nCursor'[r] = nReserve - CAPACITY + Headroom
      BY <2>5 DEF RingInv, TypeOK, LapCheck, Resync
    <3>2. IsEven(nReserve - CAPACITY + Headroom)
      BY <1>1, <1>2 DEF IsEven
    <3> QED BY <1>1, <2>1, <2>2, <2>3, <3>1, <3>2 DEF Aligned, writerVars
  <2>6. CASE LoadHead(r)
    <3>1. /\ nCursor'[r] = nCursor[r]
          /\ \/ nWords'[r] = 0 /\ pOut'[r] = << >>
             \/ nWords'[r] = Request(r) /\ rpc'[r] # "idle"
      BY <2>6 DEF RingInv, TypeOK, LoadHead, ReturnNothing
    <3>2. IsEven(nCommit - nCursor[r]) /\ IsEven(MaxWords[r])
      BY <1>1, <1>2, <2>3 DEF Aligned, AlignedConfig, IsEven
    <3>3. IsEven(Request(r))
      BY <3>2 DEF Request, Available
    <3> QED BY <1>1, <1>2, <2>1, <2>2, <2>3, <3>1, <3>3 DEF Aligned, writerVars
  <2>7. CASE CopyWord(r)
    <3>1. nCursor'[r] = nCursor[r] /\ nWords'[r] = nWords[r] /\ rpc'[r] # "idle"
      BY <2>7 DEF RingInv, TypeOK, CopyWord
    <3> QED BY <1>1, <2>1, <2>2, <2>3, <3>1 DEF Aligned, writerVars
  <2>8. CASE Deliver(r)
    <3>1. /\ nCursor'[r] = nCursor[r] + nWords[r] /\ nWords'[r] = 0
          /\ pOut'[r] = pOut[r] /\ Len(pOut[r]) = nWords[r]
      BY <2>8 DEF RingInv, TypeOK, CopyInv, Deliver
    <3>2. IsEven(nCursor[r] + nWords[r])
      BY <2>3 DEF Aligned, IsEven
    <3> QED BY <1>1, <1>2, <2>1, <2>2, <2>3, <3>1, <3>2 DEF Aligned, writerVars
  <2>9. CASE Discard(r)
    <3>1. /\ nCursor'[r] = nCursor[r]
          /\ \/ nWords'[r] = nWords[r] /\ rpc'[r] # "idle"
             \/ nWords'[r] = 0 /\ pOut'[r] = << >>
      BY <2>9 DEF RingInv, TypeOK, Discard, ReturnNothing
    <3> QED BY <1>1, <1>2, <2>1, <2>2, <2>3, <3>1 DEF Aligned, writerVars
  <2> QED BY <1>5, <2>4, <2>5, <2>6, <2>7, <2>8, <2>9 DEF ReadStep
<1> QED BY <1>3, <1>4, <1>5 DEF Next

\* With stereo-aligned sizes a reader's cursor and its block are on the left
\* channel, however often it was lapped or cut short.
THEOREM LeftStaysLeft == Spec => []ChannelAligned
<1>1. RingInv /\ AlignInv => ChannelAligned
  BY DEF AlignInv, Aligned, ChannelAligned
<1> QED BY RingInvariant, AlignInit, AlignStep, <1>1, PTL DEF Spec

-----------------------------------------------------------------------------
(* Refinement: every step of the ring is a step of the stream or a stutter. *)

\* The ring's initial state is one of the stream.
LEMMA StreamInit == Init => Stream!Init
BY DEF Init, Stream!Init

\* A step of the writer is a Publish of the stream or a stutter.
LEMMA WriterSimulates ==
  ASSUME RingInv, Writer
  PROVE  Stream!Next \/ UNCHANGED Stream!vars
<1>1. UNCHANGED readerVars
  BY DEF Writer, WriteReserve, WriteWord, WriteCommit
<1>2. CASE WriteCommit
  <2>1. wLen \in WriteSizes
    BY <1>2, ConstantFacts DEF RingInv, WriterInv, WriteCommit, TypeOK
  <2>2. Stream!Publish(wLen)
    BY <1>1, <1>2 DEF Stream!Publish, WriteCommit, readerVars
  <2> QED BY <2>1, <2>2 DEF Stream!Next
<1>3. CASE WriteWord \/ \E n \in WriteSizes : WriteReserve(n)
  BY <1>1, <1>3 DEF WriteWord, WriteReserve, readerVars, Stream!vars
<1> QED BY <1>2, <1>3 DEF Writer

\* A step of a reader is a step of the stream's subscriber or a stutter.
LEMMA ReaderSimulates ==
  ASSUME RingInv, NEW r \in Readers, InitReader(r) \/ ReadStep(r)
  PROVE  Stream!Next \/ UNCHANGED Stream!vars
<1> DEFINE att == [s \in Readers |-> rpc[s] # "off"]
           got == [s \in Readers |-> IF rpc[s] = "idle" THEN pOut[s] ELSE << >>]
<1>1. nCommit' = nCommit
  BY DEF InitReader, ReadStep, LapCheck, LoadHead, CopyWord, Deliver, Discard, writerVars
<1>2. ASSUME InitReader(r)
      PROVE  Stream!Next
  <2>1. pOut[r] = << >> /\ ~att[r]
    BY <1>2 DEF RingInv, CopyInv, InitReader
  <2>2. att' = [att EXCEPT ![r] = TRUE] /\ got' = got
    BY <1>2, <2>1 DEF InitReader, RingInv, TypeOK
  <2>3. Stream!Attach(r)
    BY <1>1, <1>2, <2>1, <2>2 DEF Stream!Attach, InitReader, StartWord
  <2> QED BY <2>3 DEF Stream!Next
<1>3. ASSUME LapCheck(r)
      PROVE  Stream!Next
  <2>1. att' = att /\ got' = [got EXCEPT ![r] = << >>] /\ att[r]
    BY <1>3 DEF LapCheck, RingInv, TypeOK
  <2>2. CASE Lapped(r)
    <3>1. PICK n \in WriteSizes \cup {0} : n = wLen
      BY DEF RingInv, WriterInv, TypeOK
    <3>2. /\ nReserve = nCommit + n /\ nReserve \in Int /\ nCommit \in Int
          /\ n \in Int /\ nCursor[r] \in Int
      BY <3>1, ConstantFacts DEF RingInv, WriterInv, TypeOK
    <3>3. Resync = nCommit + n - CAPACITY + Headroom
      BY <3>2, ConstantFacts DEF Resync
    <3>4. nCommit + n - nCursor[r] > CAPACITY
      BY <2>2, <3>2, ConstantFacts DEF Lapped
    <3>5. /\ nCursor' = [nCursor EXCEPT ![r] = Resync]
          /\ nOverruns' = [nOverruns EXCEPT ![r] = @ + 1]
      BY <1>3, <2>2 DEF LapCheck, CountLap
    <3>6. Stream!Lap(r, n)
      BY <1>1, <2>1, <3>3, <3>4, <3>5 DEF Stream!Lap
    <3> QED BY <3>6 DEF Stream!Next
  <2>3. CASE ~Lapped(r)
    <3>1. Stream!Ask(r)
      BY <1>1, <1>3, <2>1, <2>3 DEF Stream!Ask, LapCheck
    <3> QED BY <3>1 DEF Stream!Next
  <2> QED BY <2>2, <2>3
<1>4. ASSUME Deliver(r)
      PROVE  Stream!Next
  <2>1. /\ nCommit \in Nat /\ nReserve \in Nat /\ nCommit <= nReserve
        /\ nWords[r] \in 1 .. nCommit - nCursor[r] /\ nCursor[r] \in Nat
        /\ nCursor[r] + nWords[r] <= nCommit /\ nCommit <= nCursor[r] + CAPACITY
        /\ pOut[r] = Region(nCursor[r], nWords[r])
    BY <1>4, ConstantFacts
       DEF RingInv, TypeOK, WriterInv, CopyInv, Deliver, StillValid, Lapped
  <2>2. att' = att /\ got' = [got EXCEPT ![r] = pOut[r]] /\ att[r]
    BY <1>4 DEF Deliver, RingInv, TypeOK
  <2>3. PICK n \in 1 .. nCommit - nCursor[r] : n = nWords[r]
    BY <2>1
  <2>4. Stream!Deliver(r, n)
    BY <1>1, <1>4, <2>1, <2>2, <2>3 DEF Stream!Deliver, Deliver, Region
  <2> QED BY <2>4 DEF Stream!Next
<1>5. ASSUME LoadHead(r) \/ CopyWord(r) \/ Discard(r)
      PROVE  UNCHANGED Stream!vars
  <2>1. nCursor' = nCursor /\ nOverruns' = nOverruns
    BY <1>5 DEF LoadHead, CopyWord, Discard
  <2>2. /\ rpc[r] \in {"head", "copy", "check"} /\ rpc'[r] # "off"
        /\ rpc'[r] = "idle" => pOut'[r] = << >>
    BY <1>5 DEF LoadHead, CopyWord, Discard, ReturnNothing, RingInv, TypeOK
  <2>3. \A s \in Readers \ {r} : rpc'[s] = rpc[s] /\ pOut'[s] = pOut[s]
    BY <1>5 DEF LoadHead, CopyWord, Discard, ReturnNothing, RingInv, TypeOK
  <2>4. att' = att /\ got' = got
    BY <2>2, <2>3
  <2> QED BY <1>1, <2>1, <2>4 DEF Stream!vars
<1> QED BY <1>2, <1>3, <1>4, <1>5 DEF ReadStep

\* The ring implements the stream: consecutive words, each once and in order,
\* and no word lost except in a counted lap.
THEOREM RingImplementsStream == Spec => ImplementsStream
<1>1. RingInv /\ [Next]_vars => [Stream!Next]_(Stream!vars)
  <2> SUFFICES ASSUME RingInv, [Next]_vars PROVE Stream!Next \/ UNCHANGED Stream!vars
    OBVIOUS
  <2>1. CASE UNCHANGED vars
    BY <2>1 DEF vars, writerVars, readerVars, Stream!vars
  <2> QED BY <2>1, WriterSimulates, ReaderSimulates DEF Next
<1> QED BY StreamInit, <1>1, RingInvariant, PTL DEF Spec, ImplementsStream, Stream!Spec
=============================================================================
