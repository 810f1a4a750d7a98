---------------------------- MODULE RingOrdering ----------------------------
(***************************************************************************)
(* CBroadcastRing under the C11 memory model: which orderings of           *)
(* src/src/ringbuffer.h do the work.  A load may return any store that the *)
(* reader is not yet known to have passed; what it has passed is a view,   *)
(* and a store carries to whoever reads it a view of the writer:           *)
(*   - a RELEASE store, all the stores before it;                          *)
(*   - a RELAXED store, the stores before the last RELEASE fence.          *)
(* An ACQUIRE load takes the view it reads at once; a RELAXED load takes   *)
(* it at the next ACQUIRE fence.  Every Write stores W words, so a view is *)
(* three counts: reserve stores, payload words and commit stores.          *)
(*                                                                         *)
(* The host tests cannot reach this: run-tests.sh:11-13 says that TSan     *)
(* does not verify the fences' strength.  One reader is enough, since the  *)
(* writer and the other readers read nothing it stores.                    *)
(***************************************************************************)
EXTENDS Integers, Sequences, FiniteSets

CONSTANTS
  CAPACITY,
  W,           \* nWords of every Write
  MaxWords,    \* nMaxWords of every Read
  MaxAttempts,
  MaxWrites    \* bound of the model: Write calls

ASSUME OrderingAssumption ==
  /\ CAPACITY \in Nat \ {0} /\ W \in 1..CAPACITY
  /\ MaxWords \in Nat \ {0} /\ MaxAttempts \in Nat \ {0} /\ MaxWrites \in Nat

NoWord == -1
Headroom == CAPACITY \div 4

VARIABLES
  done,        \* the writer's stores so far, as a view
  rpc, nCursor, nWords, nAttempt, pOut,
  cur,         \* the view the reader has passed
  pending      \* views of RELAXED loads, taken at the next ACQUIRE fence

readerVars == <<rpc, nCursor, nWords, nAttempt, pOut, cur, pending>>
vars == <<done, readerVars>>

View == [reserves : Nat, words : Nat, commits : Nat]
NoView == [reserves |-> 0, words |-> 0, commits |-> 0]
Max2(a, b) == IF a < b THEN b ELSE a
Join(v, u) == [f \in DOMAIN v |-> Max2(v[f], u[f])]

\* The stores before the release fence of Write number i (none for i = 0).
AtFence(i) == IF i = 0 THEN NoView
              ELSE [reserves |-> i, words |-> (i - 1) * W, commits |-> i - 1]

\* What the three kinds of store carry.
CarriedByReserve(i) == IF i = 0 THEN NoView ELSE AtFence(i - 1)
CarriedByWord_BugNoFence(k) == NoView
CarriedByWord(k) == AtFence(k \div W + 1)
CarriedByCommit(i) == [reserves |-> i, words |-> i * W, commits |-> i]

Init ==
  /\ done = NoView
  /\ rpc = "idle"
  /\ nCursor = 0
  /\ nWords = 0
  /\ nAttempt = 0
  /\ pOut = << >>
  /\ cur = NoView
  /\ pending = NoView

-----------------------------------------------------------------------------
(* Write, in program order. *)

StoreReserve ==
  /\ done.reserves = done.commits
  /\ done.reserves < MaxWrites
  /\ done' = [done EXCEPT !.reserves = @ + 1]
  /\ UNCHANGED readerVars

StoreWord ==
  /\ done.words < done.reserves * W
  /\ done' = [done EXCEPT !.words = @ + 1]
  /\ UNCHANGED readerVars

StoreCommit ==
  /\ done.commits < done.reserves
  /\ done.words = done.reserves * W
  /\ done' = [done EXCEPT !.commits = @ + 1]
  /\ UNCHANGED readerVars

-----------------------------------------------------------------------------
(* Read.  Each load picks a store the reader has not passed. *)

\* ACQUIRE load of m_nReserve, lap check and resync.
ReserveView_BugRelaxed(i) == [cur EXCEPT !.reserves = i]
ReserveView(i) == Join([cur EXCEPT !.reserves = i], CarriedByReserve(i))

\* Where the attempt starts, given the reservation i it loaded.
Resumed_BugAlways(i) == i * W - CAPACITY + Headroom
Resumed(i) == IF i * W - nCursor > CAPACITY THEN i * W - CAPACITY + Headroom ELSE nCursor

LapCheck ==
  /\ rpc \in {"idle", "retry"}
  /\ \E i \in cur.reserves .. done.reserves :
       /\ cur' = ReserveView(i)
       /\ nCursor' = Resumed(i)
  /\ rpc' = "head"
  /\ pOut' = << >>
  /\ UNCHANGED <<done, nWords, nAttempt, pending>>

\* ACQUIRE load of m_nCommit.
LoadHead ==
  /\ rpc = "head"
  /\ \E i \in cur.commits .. done.commits :
       /\ cur' = Join([cur EXCEPT !.commits = i], CarriedByCommit(i))
       /\ \/ /\ i * W <= nCursor
             /\ rpc' = "idle"
             /\ nAttempt' = 0
             /\ UNCHANGED nWords
          \/ /\ i * W > nCursor
             /\ rpc' = "copy"
             /\ nWords' = IF i * W - nCursor < MaxWords THEN i * W - nCursor ELSE MaxWords
             /\ UNCHANGED nAttempt
  /\ UNCHANGED <<done, nCursor, pOut, pending>>

\* The stores to the slot of word p that a load may still return.
SameSlot(p, k) == k % CAPACITY = p % CAPACITY
Readable(p) ==
  LET passed == {k \in 0 .. cur.words - 1 : SameSlot(p, k)}
      ahead  == {k \in cur.words .. done.words - 1 : SameSlot(p, k)}
  IN  ahead \cup (IF passed = {} THEN {NoWord}
                  ELSE {CHOOSE k \in passed : \A j \in passed : j <= k})

\* RELAXED load of one payload word.
CopyWord ==
  /\ rpc = "copy"
  /\ \E k \in Readable(nCursor + Len(pOut)) :
       /\ pOut' = Append(pOut, k)
       /\ pending' = IF k = NoWord THEN pending ELSE Join(pending, CarriedByWord(k))
  /\ rpc' = IF Len(pOut) + 1 = nWords THEN "check" ELSE "copy"
  /\ UNCHANGED <<done, nCursor, nWords, nAttempt, cur>>

\* The view after the ACQUIRE fence of the revalidation.
AfterFence == Join(cur, pending)

\* The fence, the RELAXED reload of m_nReserve, and the verdict.
Revalidate ==
  /\ rpc = "check"
  /\ \E i \in AfterFence.reserves .. done.reserves :
       /\ cur' = [AfterFence EXCEPT !.reserves = i]
       /\ pending' = Join(pending, CarriedByReserve(i))
       /\ \/ /\ i * W - nCursor <= CAPACITY
             /\ nCursor' = nCursor + nWords
             /\ rpc' = "idle"
             /\ nAttempt' = 0
             /\ UNCHANGED pOut
          \/ /\ i * W - nCursor > CAPACITY
             /\ nAttempt + 1 < MaxAttempts
             /\ nAttempt' = nAttempt + 1
             /\ rpc' = "retry"
             /\ UNCHANGED <<nCursor, pOut>>
          \/ /\ i * W - nCursor > CAPACITY
             /\ nAttempt + 1 >= MaxAttempts
             /\ nAttempt' = 0
             /\ rpc' = "idle"
             /\ pOut' = << >>
             /\ UNCHANGED nCursor
  /\ UNCHANGED <<done, nWords>>

Writer == StoreReserve \/ StoreWord \/ StoreCommit
Reader == LapCheck \/ LoadHead \/ CopyWord \/ Revalidate
Next == Writer \/ Reader

Spec == Init /\ [][Next]_vars

-----------------------------------------------------------------------------
(* Properties *)

TypeOK ==
  /\ done \in View /\ cur \in View /\ pending \in View
  /\ rpc \in {"idle", "retry", "head", "copy", "check"}
  /\ nCursor \in Nat /\ nWords \in Nat /\ nAttempt \in 0 .. MaxAttempts - 1
  /\ \A i \in DOMAIN pOut : pOut[i] \in Nat \cup {NoWord}

\* Whatever the hardware and the compiler reorder, Read returns the words
\* before the cursor, in order, none torn or stale (ringbuffer.h:19-29).
NoTornReadWeak ==
  rpc = "idle" => \A i \in DOMAIN pOut : pOut[i] = nCursor - Len(pOut) + i - 1

\* No head the reader can still load lies behind its cursor, so Available, which
\* StorageLoop calls between Reads, cannot wrap (ringbuffer.h:110).  After a lap
\* this rests on the ACQUIRE of the lap check and on the previous Write's fence.
TwoWritesFit == 2 * W <= CAPACITY - Headroom
AvailableCannotWrapWeak ==
  TwoWritesFit /\ rpc = "idle" => nCursor <= cur.commits * W
=============================================================================
