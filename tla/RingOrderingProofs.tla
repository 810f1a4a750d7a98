------------------------- MODULE RingOrderingProofs -------------------------
(***************************************************************************)
(* Proofs about RingOrdering, for every capacity, every write and request  *)
(* size, a run of any length, and every reordering that the memory model   *)
(* allows.                                                                 *)
(***************************************************************************)
EXTENDS RingOrdering, SequenceTheorems, TLAPS

-----------------------------------------------------------------------------
(* The invariant *)

\* Who knows of a commit knows of the payload it published.
Founded(v) == v.commits * W <= v.words

\* The reader will know, when it revalidates, that its region was announced
\* for overwriting.
Warned == AfterFence.reserves * W - nCursor > CAPACITY

\* A copy stays below a head that the reader has loaded, and each word of it
\* is the one asked for unless the reader is warned: a newer word in its slot
\* carries the reservation it was written under.
CopyInv ==
  /\ rpc = "head" => pOut = << >>
  /\ rpc = "copy" => Len(pOut) < nWords
  /\ rpc = "check" => Len(pOut) = nWords
  /\ rpc \in {"copy", "check"} =>
       /\ nCursor + nWords <= cur.commits * W
       /\ Warned \/ \A i \in DOMAIN pOut : pOut[i] = nCursor + i - 1

CursorInv == TwoWritesFit => nCursor <= cur.commits * W

OrderingInv ==
  /\ TypeOK
  /\ pOut \in Seq(Nat \cup {NoWord})
  /\ Founded(cur) /\ Founded(pending)
  /\ CopyInv
  /\ NoTornReadWeak
  /\ CursorInv

-----------------------------------------------------------------------------
(* Views, and the words of a number of writes. *)

\* What OrderingAssumption gives to arithmetic.
LEMMA ConstantFacts ==
  /\ CAPACITY \in Nat /\ CAPACITY > 0 /\ Headroom \in Nat /\ Headroom <= CAPACITY
  /\ W \in Nat /\ W > 0 /\ MaxWords \in Nat /\ MaxWords > 0
  /\ MaxAttempts \in Nat /\ MaxAttempts > 0
BY OrderingAssumption DEF OrderingAssumption, Headroom

\* Whole writes are a number of words.
LEMMA WordCount ==
  ASSUME NEW a \in Nat
  PROVE  a * W \in Nat
BY ConstantFacts

\* More writes, more words.
LEMMA WordsGrow ==
  ASSUME NEW a \in Nat, NEW b \in Nat, a <= b
  PROVE  a * W \in Nat /\ b * W \in Nat /\ a * W <= b * W
<1>1. W \in Nat
  BY ConstantFacts
<1>2. PICK c \in Nat : b = a + c
  <2>1. b - a \in Nat /\ b = a + (b - a)
    OBVIOUS
  <2> QED BY <2>1
<1>3. a * W \in Nat /\ c * W \in Nat /\ b * W = a * W + c * W
  BY <1>1, <1>2
<1> QED BY <1>3

\* A word is written under a reservation that ends beyond it.
LEMMA WordOfWrite ==
  ASSUME NEW k \in Nat
  PROVE  k \div W \in Nat /\ k < (k \div W + 1) * W
<1> DEFINE q == k \div W
<1>1. W \in Nat /\ W > 0
  BY ConstantFacts
<1>2. q \in Nat /\ k < W * q + W
  BY <1>1
<1> HIDE DEF q
<1>3. (q + 1) * W = W * q + W
  BY <1>1, <1>2
<1> QED BY <1>2, <1>3 DEF q

\* Joining two views.
LEMMA JoinFacts ==
  ASSUME NEW v \in View, NEW u \in View
  PROVE  /\ Join(v, u) \in View
         /\ Join(v, u).reserves = Max2(v.reserves, u.reserves)
         /\ Join(v, u).words = Max2(v.words, u.words)
         /\ Join(v, u).commits = Max2(v.commits, u.commits)
BY DEF Join, View, Max2

\* A join is founded when both views are.
LEMMA JoinFounded ==
  ASSUME NEW v \in View, NEW u \in View, Founded(v), Founded(u)
  PROVE  Founded(Join(v, u))
<1>1. /\ v.commits \in Nat /\ v.words \in Nat /\ u.commits \in Nat /\ u.words \in Nat
  BY DEF View
<1>2. v.commits * W \in Nat /\ u.commits * W \in Nat
  BY <1>1, WordsGrow
<1> QED BY <1>1, <1>2, JoinFacts DEF Founded, Max2

\* The views that stores carry are founded, and a word's has its reservation.
LEMMA CarriedFacts ==
  ASSUME NEW i \in Nat
  PROVE  /\ CarriedByReserve(i) \in View /\ Founded(CarriedByReserve(i))
         /\ i >= 2 => CarriedByReserve(i).commits = i - 2
         /\ CarriedByWord(i) \in View /\ Founded(CarriedByWord(i))
         /\ CarriedByWord(i).reserves = i \div W + 1
         /\ CarriedByCommit(i) \in View /\ Founded(CarriedByCommit(i))
<1>1. W \in Nat /\ W > 0
  BY ConstantFacts
<1>2. ASSUME NEW j \in Nat
      PROVE  /\ AtFence(j) \in View /\ Founded(AtFence(j))
             /\ j > 0 => AtFence(j).reserves = j /\ AtFence(j).commits = j - 1
  <2>1. CASE j = 0
    BY <1>1, <2>1 DEF AtFence, NoView, View, Founded
  <2>2. CASE j > 0
    <3>1. j - 1 \in Nat /\ (j - 1) * W \in Nat
      BY <2>2, WordsGrow
    <3> QED BY <2>2, <3>1 DEF AtFence, View, Founded
  <2> QED BY <2>1, <2>2
<1>3. /\ CarriedByReserve(i) \in View /\ Founded(CarriedByReserve(i))
      /\ i >= 2 => CarriedByReserve(i).commits = i - 2
  <2>1. CASE i = 0
    BY <1>1, <2>1 DEF CarriedByReserve, NoView, View, Founded
  <2>2. CASE i > 0
    BY <1>2, <2>2 DEF CarriedByReserve
  <2> QED BY <2>1, <2>2
<1>4. /\ CarriedByWord(i) \in View /\ Founded(CarriedByWord(i))
      /\ CarriedByWord(i).reserves = i \div W + 1
  <2>1. i \div W \in Nat
    BY WordOfWrite
  <2> QED BY <1>2, <2>1 DEF CarriedByWord
<1>5. CarriedByCommit(i) \in View /\ Founded(CarriedByCommit(i))
  <2>1. i * W \in Nat
    BY WordsGrow
  <2> QED BY <2>1 DEF CarriedByCommit, View, Founded
<1> QED BY <1>3, <1>4, <1>5

-----------------------------------------------------------------------------
(* What a load of the payload may return. *)

\* Two words in one slot are a lap apart.
LEMMA SlotApart ==
  ASSUME NEW p \in Nat, NEW k \in Nat, SameSlot(p, k), p < k
  PROVE  p + CAPACITY <= k
<1> DEFINE q == k \div CAPACITY - p \div CAPACITY
<1>1. q \in Int /\ k - p = CAPACITY * q
  BY ConstantFacts DEF SameSlot
<1> HIDE DEF q
<1>2. q >= 1 => CAPACITY * q >= CAPACITY
  BY <1>1, ConstantFacts
<1>3. q <= 0 => CAPACITY * q <= 0
  BY <1>1, ConstantFacts
<1>4. k - p > 0 /\ CAPACITY * q = k - p
  BY <1>1
<1>5. q >= 1
  BY <1>1, <1>3, <1>4
<1> QED BY <1>2, <1>4, <1>5, ConstantFacts

\* The lap of a word and its slot.
LEMMA LapFacts ==
  ASSUME NEW k \in Nat
  PROVE  /\ k % CAPACITY \in 0 .. CAPACITY - 1 /\ k \div CAPACITY \in Int
         /\ k % CAPACITY = k - CAPACITY * (k \div CAPACITY)
BY ConstantFacts

\* Laps later in the same slot.
LEMMA SlotLapsLater ==
  ASSUME NEW p \in Nat, NEW q \in Nat
  PROVE  CAPACITY * q \in Nat /\ SameSlot(p, p + CAPACITY * q)
<1> DEFINE x == p + CAPACITY * q
<1>1. CAPACITY * q \in Nat /\ x \in Nat /\ x - p = CAPACITY * q
  BY ConstantFacts
<1> HIDE DEF x
<1>2. PICK a \in Int, i \in 0 .. CAPACITY - 1 : i = p % CAPACITY /\ i = p - CAPACITY * a
  BY LapFacts
<1>3. PICK b \in Int, j \in 0 .. CAPACITY - 1 : j = x % CAPACITY /\ j = x - CAPACITY * b
  BY <1>1, LapFacts
<1> DEFINE laps == a + q - b
<1>4. laps \in Int /\ j - i = CAPACITY * laps
  BY <1>1, <1>2, <1>3, ConstantFacts
<1>5. j - i < CAPACITY /\ -CAPACITY < j - i
  BY ConstantFacts
<1> HIDE DEF laps
<1>6. laps >= 1 => CAPACITY * laps >= CAPACITY
  BY <1>4, ConstantFacts
<1>7. laps <= -1 => CAPACITY * laps <= -CAPACITY
  BY <1>4, ConstantFacts
<1>8. laps = 0
  BY <1>4, <1>5, <1>6, <1>7, ConstantFacts
<1>9. j = i
  BY <1>4, <1>8, ConstantFacts
<1>10. SameSlot(p, x)
  BY <1>2, <1>3, <1>9 DEF SameSlot
<1> QED BY <1>1, <1>10 DEF x

\* The load of a word that the reader has passed returns that word, or a word
\* newer by a lap or more: never what the slot held before.
LEMMA PassedIsReadable ==
  ASSUME NEW p \in Nat, cur \in View, done \in View, p < cur.words, NEW k \in Readable(p)
  PROVE  k \in Nat /\ (k = p \/ p + CAPACITY <= k)
<1> DEFINE n == cur.words
           passed == {j \in 0 .. n - 1 : SameSlot(p, j)}
           ahead == {j \in n .. done.words - 1 : SameSlot(p, j)}
           last == CHOOSE j \in passed : \A m \in passed : m <= j
<1>1. n \in Nat /\ done.words \in Nat
  BY DEF View
<1>2. p \in passed
  BY <1>1 DEF SameSlot
<1>3. \E j \in passed : \A m \in passed : m <= j
  <2> DEFINE q == (n - 1 - p) \div CAPACITY
             top == p + CAPACITY * q
  <2>1. q \in Nat /\ CAPACITY * q <= n - 1 - p /\ n - 1 - p < CAPACITY * q + CAPACITY
    BY <1>1, ConstantFacts
  <2>2. CAPACITY * q \in Nat /\ top \in Nat
    BY <2>1, ConstantFacts
  <2>3. SameSlot(p, top)
    BY <2>1, SlotLapsLater
  <2> HIDE DEF q
  <2>4. top \in passed
    BY <1>1, <2>1, <2>2, <2>3
  <2>5. ASSUME NEW m \in passed, top < m
        PROVE  FALSE
    <3>1. SameSlot(top, m) /\ m \in Nat /\ m <= n - 1
      BY <1>1, <2>3 DEF SameSlot
    <3>2. top + CAPACITY <= m
      BY <2>2, <2>5, <3>1, SlotApart
    <3> QED BY <1>1, <2>1, <2>2, <3>1, <3>2, ConstantFacts
  <2>6. \A m \in passed : m <= top
    BY <1>1, <2>2, <2>5
  <2> QED BY <2>4, <2>6
<1>4. last \in passed /\ \A m \in passed : m <= last
  <2> HIDE DEF passed
  <2> QED BY <1>3
<1>5. k \in ahead \/ k = last
  BY <1>2 DEF Readable
<1>6. k \in Nat /\ SameSlot(p, k) /\ p <= k
  BY <1>1, <1>2, <1>4, <1>5
<1> QED BY <1>6, SlotApart

-----------------------------------------------------------------------------
(* The invariant is inductive. *)

\* What the invariant gives to arithmetic.
LEMMA InvFacts ==
  ASSUME OrderingInv
  PROVE  /\ done \in View /\ cur \in View /\ pending \in View
         /\ done.reserves \in Nat /\ done.commits \in Nat /\ done.words \in Nat
         /\ cur.reserves \in Nat /\ cur.commits \in Nat /\ cur.words \in Nat
         /\ pending.reserves \in Nat
         /\ nCursor \in Nat /\ nWords \in Nat /\ Len(pOut) \in Nat
         /\ pOut \in Seq(Nat \cup {NoWord})
         /\ AfterFence \in View /\ Founded(AfterFence)
         /\ AfterFence.reserves = Max2(cur.reserves, pending.reserves)
         /\ AfterFence.commits >= cur.commits
         /\ AfterFence.commits \in Nat
<1>1. done \in View /\ cur \in View /\ pending \in View
  BY DEF OrderingInv, TypeOK
<1>2. /\ done.reserves \in Nat /\ done.commits \in Nat /\ done.words \in Nat
      /\ cur.reserves \in Nat /\ cur.commits \in Nat /\ cur.words \in Nat
      /\ pending.reserves \in Nat /\ pending.commits \in Nat
  BY <1>1 DEF View
<1>3. AfterFence \in View /\ Founded(AfterFence)
  BY <1>1, JoinFacts, JoinFounded DEF AfterFence, OrderingInv
<1>4. /\ AfterFence.reserves = Max2(cur.reserves, pending.reserves)
      /\ AfterFence.commits = Max2(cur.commits, pending.commits)
  BY <1>1, JoinFacts DEF AfterFence
<1>5. AfterFence.commits \in Nat /\ AfterFence.commits >= cur.commits
  BY <1>2, <1>4 DEF Max2
<1> QED BY <1>1, <1>2, <1>3, <1>4, <1>5 DEF OrderingInv, TypeOK

\* It holds before the first store.
LEMMA OrderingInit == Init => OrderingInv
<1> SUFFICES ASSUME Init PROVE OrderingInv
  OBVIOUS
<1> USE DEF Init
<1>1. NoView \in View /\ Founded(NoView) /\ W \in Nat
  BY ConstantFacts DEF NoView, View, Founded
<1>2. TypeOK
  BY <1>1, ConstantFacts DEF TypeOK
<1>3. CursorInv
  BY <1>1 DEF CursorInv, NoView
<1> QED BY <1>1, <1>2, <1>3 DEF OrderingInv, CopyInv, NoTornReadWeak

\* The writer changes nothing that the reader knows.
LEMMA WriterKeeps ==
  ASSUME OrderingInv, Writer
  PROVE  OrderingInv'
<1>1. UNCHANGED readerVars
  BY DEF Writer, StoreReserve, StoreWord, StoreCommit
<1>2. done' \in View
  <2>1. done \in View
    BY InvFacts
  <2>2. CASE StoreReserve
    BY <2>1, <2>2 DEF StoreReserve, View
  <2>3. CASE StoreWord
    BY <2>1, <2>3 DEF StoreWord, View
  <2>4. CASE StoreCommit
    BY <2>1, <2>4 DEF StoreCommit, View
  <2> QED BY <2>2, <2>3, <2>4 DEF Writer
<1> QED BY <1>1, <1>2 DEF OrderingInv, readerVars, TypeOK, CopyInv, Warned, AfterFence,
        NoTornReadWeak, CursorInv, TwoWritesFit, Headroom, Founded

\* After a lap the reader resumes at or behind a head that the reservation it
\* loaded lets it see.
LEMMA LapCheckKeeps ==
  ASSUME OrderingInv, LapCheck
  PROVE  OrderingInv'
<1>1. PICK i \in cur.reserves .. done.reserves : cur' = ReserveView(i) /\ nCursor' = Resumed(i)
  BY DEF LapCheck
<1>2. /\ rpc' = "head" /\ pOut' = << >>
      /\ UNCHANGED <<done, nWords, nAttempt, pending>>
  BY DEF LapCheck
<1>3. i \in Nat /\ i * W \in Nat
  <2>1. i \in Nat
    BY InvFacts
  <2> QED BY <2>1, WordCount
<1> DEFINE v == [cur EXCEPT !.reserves = i]
<1>4. v \in View /\ v.commits = cur.commits /\ Founded(v)
  BY <1>3, InvFacts DEF View, Founded, OrderingInv
<1> HIDE DEF v
<1>5. cur' \in View /\ Founded(cur')
  BY <1>1, <1>3, <1>4, CarriedFacts, JoinFacts, JoinFounded DEF ReserveView, v
<1>6. /\ cur'.commits \in Nat /\ cur.commits <= cur'.commits
      /\ i >= 2 => i - 2 <= cur'.commits
  <2>1. cur' = Join(v, CarriedByReserve(i))
    BY <1>1 DEF ReserveView, v
  <2>2. CarriedByReserve(i) \in View /\ (i >= 2 => CarriedByReserve(i).commits = i - 2)
    BY <1>3, CarriedFacts
  <2>3. cur'.commits = Max2(cur.commits, CarriedByReserve(i).commits)
    BY <1>4, <2>1, <2>2, JoinFacts
  <2>4. cur.commits \in Nat /\ CarriedByReserve(i).commits \in Nat
    BY <2>2, InvFacts DEF View
  <2> QED BY <1>3, <2>2, <2>3, <2>4 DEF Max2
<1>7. \/ nCursor' = nCursor
      \/ i * W - nCursor > CAPACITY /\ nCursor' = i * W - CAPACITY + Headroom
  BY <1>1 DEF Resumed
<1>8. nCursor' \in Nat
  BY <1>3, <1>7, InvFacts, ConstantFacts
<1>9. CursorInv'
  <2> SUFFICES ASSUME TwoWritesFit PROVE nCursor' <= cur'.commits * W
    BY DEF CursorInv, TwoWritesFit, Headroom
  <2>1. 2 * W <= CAPACITY - Headroom /\ nCursor <= cur.commits * W
    BY DEF TwoWritesFit, OrderingInv, CursorInv
  <2>2. CASE nCursor' = nCursor
    <3>1. cur.commits * W <= cur'.commits * W /\ cur.commits * W \in Nat
          /\ cur'.commits * W \in Nat
      BY <1>6, InvFacts, WordsGrow
    <3>2. nCursor <= cur'.commits * W
      <4> DEFINE a == cur.commits * W
                 b == cur'.commits * W
      <4>1. nCursor \in Nat /\ a \in Nat /\ b \in Nat /\ nCursor <= a /\ a <= b
        BY <2>1, <3>1, InvFacts
      <4> HIDE DEF a, b
      <4> QED BY ONLY <4>1 DEF b
    <3> QED BY ONLY <2>2, <3>2
  <2>3. CASE i * W - nCursor > CAPACITY /\ nCursor' = i * W - CAPACITY + Headroom
    <3>1. i >= 2
      <4>1. i <= 2 => i * W <= 2 * W
        BY <1>3, WordsGrow
      <4>2. i * W > CAPACITY /\ 2 * W <= CAPACITY
        BY <1>3, <2>1, <2>3, InvFacts, ConstantFacts
      <4> QED BY <1>3, <4>1, <4>2, ConstantFacts
    <3>2. i - 2 \in Nat /\ (i - 2) * W = i * W - 2 * W
      BY <1>3, <3>1, ConstantFacts
    <3>3. (i - 2) * W <= cur'.commits * W /\ cur'.commits * W \in Nat
      BY <1>6, <3>1, <3>2, WordsGrow
    <3> QED BY <1>3, <2>1, <2>3, <3>2, <3>3, ConstantFacts
  <2> QED BY <1>7, <2>2, <2>3
<1>10. TypeOK'
  BY <1>2, <1>5, <1>8 DEF OrderingInv, TypeOK
<1>11. CopyInv' /\ NoTornReadWeak'
  BY <1>2 DEF CopyInv, NoTornReadWeak
<1> QED BY <1>2, <1>5, <1>9, <1>10, <1>11 DEF OrderingInv, Founded

\* The head that is loaded covers what is then copied.
LEMMA LoadHeadKeeps ==
  ASSUME OrderingInv, LoadHead
  PROVE  OrderingInv'
<1>1. PICK i \in cur.commits .. done.commits :
        /\ cur' = Join([cur EXCEPT !.commits = i], CarriedByCommit(i))
        /\ \/ /\ i * W <= nCursor
              /\ rpc' = "idle"
              /\ nAttempt' = 0
              /\ UNCHANGED nWords
           \/ /\ i * W > nCursor
              /\ rpc' = "copy"
              /\ nWords' = IF i * W - nCursor < MaxWords THEN i * W - nCursor ELSE MaxWords
              /\ UNCHANGED nAttempt
  BY DEF LoadHead
<1>2. rpc = "head" /\ UNCHANGED <<done, nCursor, pOut, pending>> /\ pOut = << >>
  BY DEF LoadHead, OrderingInv, CopyInv
<1>3. i \in Nat /\ i * W \in Nat /\ cur.commits <= i
  <2>1. i \in Nat /\ cur.commits <= i
    BY InvFacts
  <2> QED BY <2>1, WordCount
<1> DEFINE v == [cur EXCEPT !.commits = i]
           u == CarriedByCommit(i)
<1>4. /\ v \in View /\ v.commits = i /\ v.words = cur.words
      /\ u \in View /\ u.commits = i /\ u.words = i * W
  BY <1>3, InvFacts DEF View, CarriedByCommit
<1> HIDE DEF v, u
<1>5. /\ cur' \in View /\ cur'.commits = i
      /\ cur'.words = Max2(cur.words, i * W)
  <2>1. cur' = Join(v, u)
    BY <1>1 DEF v, u
  <2>2. /\ Join(v, u) \in View /\ Join(v, u).commits = Max2(v.commits, u.commits)
        /\ Join(v, u).words = Max2(v.words, u.words)
    BY ONLY <1>4, JoinFacts
  <2>3. cur' \in View /\ cur'.commits = Max2(i, i) /\ cur'.words = Max2(cur.words, i * W)
    BY ONLY <1>4, <2>1, <2>2
  <2>4. Max2(i, i) = i
    BY DEF Max2
  <2> QED BY ONLY <2>3, <2>4
<1>6. Founded(cur')
  BY <1>3, <1>5, InvFacts DEF Founded, Max2
<1>7. /\ nWords' \in Nat
      /\ rpc' \in {"idle", "copy"}
      /\ rpc' = "copy" => 0 < nWords' /\ nCursor + nWords' <= i * W
  <2>1. nCursor \in Nat /\ nWords \in Nat
    BY InvFacts
  <2> DEFINE n == i * W
  <2>2. n \in Nat
    BY <1>3
  <2>3. \/ /\ rpc' = "idle" /\ nWords' = nWords
        \/ /\ rpc' = "copy" /\ n > nCursor
           /\ nWords' = IF n - nCursor < MaxWords THEN n - nCursor ELSE MaxWords
    BY <1>1
  <2> HIDE DEF n
  <2>4. nWords' \in Nat /\ rpc' \in {"idle", "copy"}
        /\ (rpc' = "copy" => 0 < nWords' /\ nCursor + nWords' <= n)
    BY <2>1, <2>2, <2>3, ConstantFacts
  <2> QED BY <2>4 DEF n
<1>8. TypeOK'
  BY <1>1, <1>2, <1>5, <1>7, ConstantFacts DEF OrderingInv, TypeOK
<1>9. CopyInv' /\ NoTornReadWeak'
  BY <1>2, <1>5, <1>7 DEF CopyInv, NoTornReadWeak
<1>10. CursorInv'
  <2>1. cur.commits * W <= i * W /\ cur.commits * W \in Nat
    BY <1>3, InvFacts, WordsGrow
  <2> QED BY <1>2, <1>3, <1>5, <2>1, InvFacts DEF OrderingInv, CursorInv, TwoWritesFit, Headroom
<1> QED BY <1>2, <1>6, <1>8, <1>9, <1>10 DEF OrderingInv, Founded

\* A word that is not the one asked for brings the reservation it was written
\* under, which ends more than a lap beyond the cursor.
LEMMA CopyWordKeeps ==
  ASSUME OrderingInv, CopyWord
  PROVE  OrderingInv'
<1> DEFINE p == nCursor + Len(pOut)
<1>1. PICK k \in Readable(p) :
        /\ pOut' = Append(pOut, k)
        /\ pending' = IF k = NoWord THEN pending ELSE Join(pending, CarriedByWord(k))
  BY DEF CopyWord
<1>2. /\ rpc = "copy" /\ rpc' = IF Len(pOut) + 1 = nWords THEN "check" ELSE "copy"
      /\ UNCHANGED <<done, nCursor, nWords, nAttempt, cur>>
  BY DEF CopyWord
<1>3. /\ Len(pOut) < nWords /\ nCursor + nWords <= cur.commits * W
      /\ Warned \/ \A i \in DOMAIN pOut : pOut[i] = nCursor + i - 1
      /\ cur.commits * W <= cur.words /\ cur.commits * W \in Nat
  BY <1>2, InvFacts, WordCount DEF OrderingInv, CopyInv, Founded
<1>4. p \in Nat /\ p < cur.words
  <2> DEFINE c == cur.commits * W
  <2>1. /\ nCursor \in Nat /\ nWords \in Nat /\ Len(pOut) \in Nat
        /\ cur.words \in Nat /\ c \in Nat
    BY <1>3, InvFacts
  <2>2. Len(pOut) < nWords /\ nCursor + nWords <= c /\ c <= cur.words
    BY <1>3
  <2> HIDE DEF c
  <2> QED BY <2>1, <2>2
<1>5. k \in Nat /\ (k = p \/ p + CAPACITY <= k)
  BY <1>4, InvFacts, PassedIsReadable
<1>6. pending' = Join(pending, CarriedByWord(k))
  BY <1>1, <1>5 DEF NoWord
<1>7. CarriedByWord(k) \in View /\ Founded(CarriedByWord(k))
      /\ CarriedByWord(k).reserves = k \div W + 1 /\ k \div W + 1 \in Nat
  <2>1. k \div W \in Nat
    BY <1>5, WordOfWrite
  <2>2. k \div W + 1 \in Nat
    BY <2>1
  <2> QED BY <1>5, <2>2, CarriedFacts
<1>8. /\ pending' \in View /\ Founded(pending')
      /\ pending'.reserves = Max2(pending.reserves, k \div W + 1)
  <2>1. pending \in View /\ Founded(pending)
    BY DEF OrderingInv, TypeOK
  <2>2. Founded(pending')
    BY ONLY <1>6, <1>7, <2>1, JoinFounded
  <2>3. pending' \in View /\ pending'.reserves = Max2(pending.reserves, k \div W + 1)
    BY ONLY <1>6, <1>7, <2>1, JoinFacts
  <2> QED BY <2>2, <2>3
<1>9. AfterFence'.reserves = Max2(cur.reserves, pending'.reserves)
  BY <1>2, <1>8, InvFacts, JoinFacts DEF AfterFence
<1>10. /\ AfterFence.reserves \in Nat /\ AfterFence'.reserves \in Nat
       /\ AfterFence.reserves <= AfterFence'.reserves
       /\ k \div W + 1 <= AfterFence'.reserves
  <2> DEFINE e == k \div W + 1
  <2>1. e \in Nat /\ pending'.reserves = Max2(pending.reserves, e)
    BY <1>7, <1>8
  <2> HIDE DEF e
  <2>2. /\ AfterFence.reserves \in Nat /\ AfterFence'.reserves \in Nat
        /\ AfterFence.reserves <= AfterFence'.reserves
        /\ e <= AfterFence'.reserves
    <3>1. /\ cur.reserves \in Nat /\ pending.reserves \in Nat
          /\ AfterFence.reserves = Max2(cur.reserves, pending.reserves)
      BY InvFacts
    <3> QED BY ONLY <1>9, <2>1, <3>1 DEF Max2
  <2> QED BY <2>2 DEF e
<1>11. /\ AfterFence.reserves * W \in Nat /\ AfterFence'.reserves * W \in Nat
       /\ AfterFence.reserves * W <= AfterFence'.reserves * W
       /\ k < AfterFence'.reserves * W
  <2>1. /\ AfterFence.reserves * W \in Nat /\ AfterFence'.reserves * W \in Nat
        /\ AfterFence.reserves * W <= AfterFence'.reserves * W
    BY <1>10, WordsGrow
  <2>2. /\ (k \div W + 1) * W \in Nat
        /\ (k \div W + 1) * W <= AfterFence'.reserves * W
    BY <1>7, <1>10, WordsGrow
  <2>3. k < (k \div W + 1) * W
    BY <1>5, WordOfWrite
  <2> QED BY <1>5, <2>1, <2>2, <2>3
<1> DEFINE known == AfterFence.reserves * W
           knows == AfterFence'.reserves * W
<1>12. /\ known \in Nat /\ knows \in Nat /\ known <= knows /\ k < knows
       /\ Warned <=> known - nCursor > CAPACITY
       /\ Warned' <=> knows - nCursor > CAPACITY
       /\ nCursor \in Nat /\ Len(pOut) \in Nat /\ CAPACITY \in Nat
  <2>1. nCursor' = nCursor
    BY <1>2
  <2>2. Warned' <=> knows - nCursor > CAPACITY
    BY <2>1 DEF Warned
  <2> QED BY <1>11, <2>2, InvFacts, ConstantFacts DEF Warned
<1> HIDE DEF known, knows
<1>13. (Warned => Warned') /\ (k = p \/ Warned')
  BY <1>5, <1>12
<1>14. /\ pOut' \in Seq(Nat \cup {NoWord}) /\ Len(pOut') = Len(pOut) + 1
       /\ DOMAIN pOut' = 1 .. Len(pOut) + 1 /\ DOMAIN pOut = 1 .. Len(pOut)
       /\ pOut'[Len(pOut) + 1] = k
       /\ \A i \in DOMAIN pOut : pOut'[i] = pOut[i]
  <2>1. pOut \in Seq(Nat \cup {NoWord}) /\ k \in Nat \cup {NoWord} /\ pOut' = Append(pOut, k)
    BY <1>1, <1>5, InvFacts
  <2> QED BY ONLY <2>1
<1>15. Warned' \/ \A i \in DOMAIN pOut' : pOut'[i] = nCursor + i - 1
  <2> SUFFICES ASSUME ~Warned', NEW i \in DOMAIN pOut' PROVE pOut'[i] = nCursor + i - 1
    OBVIOUS
  <2>1. k = p /\ \A j \in DOMAIN pOut : pOut[j] = nCursor + j - 1
    BY <1>3, <1>13
  <2>2. CASE i = Len(pOut) + 1
    BY <1>14, <2>1, <2>2, InvFacts
  <2>3. CASE i \in DOMAIN pOut
    BY <1>14, <2>1, <2>3
  <2>4. i = Len(pOut) + 1 \/ i \in DOMAIN pOut
    BY <1>14, InvFacts
  <2> QED BY <2>2, <2>3, <2>4
<1>16. TypeOK'
  <2>1. \A i \in DOMAIN pOut' : pOut'[i] \in Nat \cup {NoWord}
    BY <1>14, InvFacts
  <2> QED BY <1>2, <1>8, <2>1 DEF OrderingInv, TypeOK
<1>17. CopyInv'
  <2>1. /\ rpc' \in {"copy", "check"} /\ Len(pOut') <= nWords
        /\ rpc' = "check" <=> Len(pOut') = nWords
    BY <1>2, <1>3, <1>14, InvFacts
  <2>2. nCursor' = nCursor /\ nWords' = nWords /\ cur' = cur
    BY <1>2
  <2>3. rpc' = "copy" => Len(pOut') < nWords'
    BY <1>14, <2>1, <2>2, InvFacts
  <2> QED BY <1>3, <1>15, <2>1, <2>2, <2>3 DEF CopyInv
<1>18. NoTornReadWeak' /\ CursorInv' /\ Founded(cur)'
  BY <1>2 DEF OrderingInv, NoTornReadWeak, CursorInv, TwoWritesFit, Headroom, Founded
<1> QED BY <1>8, <1>14, <1>16, <1>17, <1>18 DEF OrderingInv, Founded

\* A copy that survives the reload of m_nReserve was not warned, and so is the
\* words before the cursor.
LEMMA RevalidateKeeps ==
  ASSUME OrderingInv, Revalidate
  PROVE  OrderingInv'
<1>1. PICK i \in AfterFence.reserves .. done.reserves :
        /\ cur' = [AfterFence EXCEPT !.reserves = i]
        /\ pending' = Join(pending, CarriedByReserve(i))
        /\ \/ /\ i * W - nCursor <= CAPACITY
              /\ nCursor' = nCursor + nWords
              /\ rpc' = "idle"
              /\ nAttempt' = 0
              /\ UNCHANGED pOut
           \/ /\ i * W - nCursor > CAPACITY
              /\ nAttempt + 1 < MaxAttempts
              /\ nAttempt' = nAttempt + 1
              /\ rpc' = "retry"
              /\ UNCHANGED <<nCursor, pOut>>
           \/ /\ i * W - nCursor > CAPACITY
              /\ nAttempt + 1 >= MaxAttempts
              /\ nAttempt' = 0
              /\ rpc' = "idle"
              /\ pOut' = << >>
              /\ UNCHANGED nCursor
  BY DEF Revalidate
<1>2. /\ rpc = "check" /\ UNCHANGED <<done, nWords>>
      /\ Len(pOut) = nWords /\ nCursor + nWords <= cur.commits * W
      /\ Warned \/ \A j \in DOMAIN pOut : pOut[j] = nCursor + j - 1
  BY DEF Revalidate, OrderingInv, CopyInv
<1>3. /\ AfterFence.reserves \in Nat /\ i \in Nat /\ AfterFence.reserves <= i
      /\ AfterFence \in View
  <2>1. AfterFence.reserves \in Nat /\ done.reserves \in Nat /\ AfterFence \in View
    BY InvFacts DEF View
  <2> QED BY ONLY <2>1, i \in AfterFence.reserves .. done.reserves
<1>4. /\ cur' \in View /\ cur'.commits = AfterFence.commits /\ Founded(cur')
  BY <1>1, <1>3, InvFacts DEF View, Founded
<1>5. pending' \in View /\ Founded(pending')
  BY <1>1, <1>3, InvFacts, CarriedFacts, JoinFacts, JoinFounded DEF OrderingInv
<1>6. /\ cur.commits * W \in Nat /\ cur'.commits * W \in Nat
      /\ cur.commits * W <= cur'.commits * W
  BY <1>4, InvFacts, WordsGrow
<1>7. /\ AfterFence.reserves * W \in Nat /\ i * W \in Nat
      /\ AfterFence.reserves * W <= i * W
  BY <1>3, WordsGrow
<1>8. /\ nCursor' \in Nat /\ rpc' \in {"idle", "retry"}
      /\ nCursor' <= nCursor + nWords
  BY <1>1, InvFacts
<1>9. /\ nAttempt' \in 0 .. MaxAttempts - 1
      /\ pOut' = pOut \/ pOut' = << >>
  <2>1. nAttempt \in 0 .. MaxAttempts - 1
    BY DEF OrderingInv, TypeOK
  <2>2. nAttempt' = 0 \/ (nAttempt + 1 < MaxAttempts /\ nAttempt' = nAttempt + 1)
    BY <1>1
  <2> QED BY <1>1, <2>1, <2>2, ConstantFacts
<1>10. TypeOK'
  BY <1>2, <1>4, <1>5, <1>8, <1>9 DEF OrderingInv, TypeOK
<1>11. CopyInv'
  BY <1>8 DEF CopyInv
<1>12. CursorInv'
  <2> SUFFICES ASSUME TwoWritesFit PROVE nCursor' <= cur'.commits * W
    BY DEF CursorInv, TwoWritesFit, Headroom
  <2> DEFINE a == cur.commits * W
             b == cur'.commits * W
  <2>1. /\ a \in Nat /\ b \in Nat /\ a <= b /\ nCursor' \in Nat
        /\ nCursor' <= nCursor + nWords /\ nCursor + nWords <= a
    BY <1>2, <1>6, <1>8
  <2>2. nCursor \in Nat /\ nWords \in Nat
    BY InvFacts
  <2> HIDE DEF a, b
  <2> QED BY ONLY <2>1, <2>2 DEF b
<1>13. NoTornReadWeak'
  <2> SUFFICES ASSUME rpc' = "idle", NEW j \in DOMAIN pOut'
               PROVE  pOut'[j] = nCursor' - Len(pOut') + j - 1
    BY DEF NoTornReadWeak
  <2>1. CASE pOut' = << >>
    BY <2>1
  <2>2. CASE i * W - nCursor <= CAPACITY /\ nCursor' = nCursor + nWords /\ pOut' = pOut
    <3>1. ~Warned
      <4> DEFINE a == AfterFence.reserves * W
                 b == i * W
      <4>1. a \in Nat /\ b \in Nat /\ a <= b /\ b - nCursor <= CAPACITY
        BY <1>7, <2>2
      <4>2. nCursor \in Nat /\ CAPACITY \in Nat
        BY InvFacts, ConstantFacts
      <4>3. Warned <=> a - nCursor > CAPACITY
        BY DEF Warned
      <4> HIDE DEF a, b
      <4> QED BY ONLY <4>1, <4>2, <4>3
    <3>2. pOut[j] = nCursor + j - 1 /\ j \in Int
      BY <1>2, <2>2, <3>1, InvFacts
    <3> QED BY <1>2, <2>2, <3>2, InvFacts
  <2> QED BY <1>1, <2>1, <2>2
<1>14. pOut' \in Seq(Nat \cup {NoWord})
  <2>1. pOut \in Seq(Nat \cup {NoWord}) /\ << >> \in Seq(Nat \cup {NoWord})
    BY InvFacts
  <2> QED BY <1>9, <2>1
<1> QED BY <1>4, <1>5, <1>10, <1>11, <1>12, <1>13, <1>14 DEF OrderingInv, Founded

\* A stuttering step changes nothing.
LEMMA StutterKeeps ==
  ASSUME OrderingInv, UNCHANGED vars
  PROVE  OrderingInv'
BY DEF OrderingInv, vars, readerVars, TypeOK, CopyInv, Warned, AfterFence,
       NoTornReadWeak, CursorInv, TwoWritesFit, Headroom, Founded

\* The inductive invariant holds under every reordering.
LEMMA OrderingInvariant == Spec => []OrderingInv
<1>1. OrderingInv /\ [Next]_vars => OrderingInv'
  BY WriterKeeps, LapCheckKeeps, LoadHeadKeeps, CopyWordKeeps, RevalidateKeeps, StutterKeeps
     DEF Next, Reader
<1> QED BY OrderingInit, <1>1, PTL DEF Spec

-----------------------------------------------------------------------------
(* The properties *)

\* Type correctness of the ring under the memory model.
THEOREM TypeCorrect == Spec => []TypeOK
<1>1. OrderingInv => TypeOK
  BY DEF OrderingInv
<1> QED BY OrderingInvariant, <1>1, PTL

\* Whatever is reordered, no Read returns a torn or stale word.
THEOREM WeakReadsAreNotTorn == Spec => []NoTornReadWeak
<1>1. OrderingInv => NoTornReadWeak
  BY DEF OrderingInv
<1> QED BY OrderingInvariant, <1>1, PTL

\* Where two writes fit behind the headroom, no head that the reader can still
\* load lies behind its cursor.
THEOREM WeakAvailableCannotWrap == Spec => []AvailableCannotWrapWeak
<1>1. OrderingInv => AvailableCannotWrapWeak
  BY DEF OrderingInv, CursorInv, AvailableCannotWrapWeak
<1> QED BY OrderingInvariant, <1>1, PTL
=============================================================================
