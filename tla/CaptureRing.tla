---------------------------- MODULE CaptureRing ----------------------------
(***************************************************************************)
(* CBroadcastRing (src/src/ringbuffer.h): one producer, the I2S interrupt  *)
(* on core 0, broadcasts audio words to readers that each own a cursor.    *)
(* Every shared access is a step of its own, so a copy may interleave with *)
(* the writer word by word.  Accesses are sequentially consistent here;    *)
(* what the fences add is the subject of RingOrdering.                           *)
(*                                                                         *)
(* A word is identified by its absolute index in the stream, the integrity *)
(* scheme of src/tests/ringbuffer_test.cpp: slot contents and copied words *)
(* are absolute indices, and NoWord is the zero of the boot-time BSS.      *)
(*                                                                         *)
(* An operator whose name ends in _Bug... is the definition after it with  *)
(* a plausible bug; it is used only to show that a property can fail.      *)
(***************************************************************************)
EXTENDS Integers, Sequences

CONSTANTS
  CAPACITY,     \* words in the ring; masking with CAPACITY-1 is % CAPACITY
  WriteSizes,   \* the values of nWords the producer calls Write with
  Readers,      \* the readers: analysis (core 1), storage (core 2)
  MaxWords,     \* MaxWords[r] is the nMaxWords reader r calls Read with
  MaxAttempts,  \* attempts of one Read call (16 in the code)
  MaxStream     \* bound of the model: words ever captured

ASSUME RingAssumption ==
  /\ CAPACITY \in Nat \ {0}
  /\ WriteSizes \subseteq 1..CAPACITY
  /\ MaxWords \in [Readers -> Nat \ {0}]
  /\ MaxAttempts \in Nat \ {0}
  /\ MaxStream \in Nat

NoWord == -1
Headroom == CAPACITY \div 4
Slot(k) == k % CAPACITY

VARIABLES
  nReserve,   \* m_nReserve: the writer's frontier, announced before payload
  nCommit,    \* m_nCommit: words published, stored after payload
  Buffer,     \* m_Buffer
  wpc,        \* where the writer is: between calls, or storing payload
  wLen,       \* nWords of the Write in progress (0 between calls)
  wPos,       \* payload words it has stored
  rpc,        \* where each reader is in Read
  nCursor,    \* TReader::nCursor
  nOverruns,  \* TReader::nOverruns
  nInvalid,   \* TReader::nInvalid
  nAttempt,   \* failed attempts of the Read in progress
  nWords,     \* words the attempt in progress copies
  pOut        \* words copied; between calls, what the last Read returned

writerVars == <<nReserve, nCommit, Buffer, wpc, wLen, wPos>>
readerVars == <<rpc, nCursor, nOverruns, nInvalid, nAttempt, nWords, pOut>>
vars == <<writerVars, readerVars>>

ReaderPCs == {"off", "idle", "retry", "head", "copy", "check"}

\* The words from..from+n-1 of the stream, in order.
Region(from, n) == [i \in 1..n |-> from + i - 1]

Init ==
  /\ nReserve = 0
  /\ nCommit = 0
  /\ Buffer = [s \in 0..CAPACITY-1 |-> NoWord]
  /\ wpc = "idle"
  /\ wLen = 0
  /\ wPos = 0
  /\ rpc = [r \in Readers |-> "off"]
  /\ nCursor = [r \in Readers |-> 0]
  /\ nOverruns = [r \in Readers |-> 0]
  /\ nInvalid = [r \in Readers |-> 0]
  /\ nAttempt = [r \in Readers |-> 0]
  /\ nWords = [r \in Readers |-> 0]
  /\ pOut = [r \in Readers |-> << >>]

-----------------------------------------------------------------------------
(* Write: announce the reservation, store the payload, publish. *)

Announce(n) == nReserve' = nCommit + n

WriteReserve(n) ==
  /\ wpc = "idle"
  /\ nCommit + n <= MaxStream
  /\ Announce(n)
  /\ wpc' = "fill"
  /\ wLen' = n
  /\ UNCHANGED <<nCommit, Buffer, wPos, readerVars>>

WriteWord ==
  /\ wpc = "fill"
  /\ wPos < wLen
  /\ Buffer' = [Buffer EXCEPT ![Slot(nCommit + wPos)] = nCommit + wPos]
  /\ wPos' = wPos + 1
  /\ UNCHANGED <<nReserve, nCommit, wpc, wLen, readerVars>>

WriteCommit ==
  /\ wpc = "fill"
  /\ wPos = wLen
  /\ nCommit' = nCommit + wLen
  /\ wpc' = "idle"
  /\ wLen' = 0
  /\ wPos' = 0
  /\ UNCHANGED <<nReserve, Buffer, readerVars>>

Writer == (\E n \in WriteSizes : WriteReserve(n)) \/ WriteWord \/ WriteCommit

-----------------------------------------------------------------------------
(* The reader: InitReader once, then Read calls. *)

\* Start at "now", not at the oldest word.
StartWord == nCommit

InitReader(r) ==
  /\ rpc[r] = "off"
  /\ rpc' = [rpc EXCEPT ![r] = "idle"]
  /\ nCursor' = [nCursor EXCEPT ![r] = StartWord]
  /\ UNCHANGED <<writerVars, nOverruns, nInvalid, nAttempt, nWords, pOut>>

\* Has the writer announced overwriting anything at or after the cursor?
Lapped(r) == nReserve - nCursor[r] > CAPACITY

\* Where a lapped reader resumes: the oldest word, plus headroom.
Resync_BugNoHeadroom == nReserve - CAPACITY
Resync_BugBeyondHead == nReserve + 1
Resync == nReserve - CAPACITY + Headroom

CountLap_BugForgotten(r) == UNCHANGED nOverruns
CountLap(r) == nOverruns' = [nOverruns EXCEPT ![r] = @ + 1]

\* Top of the attempt loop.
LapCheck(r) ==
  /\ rpc[r] \in {"idle", "retry"}
  /\ rpc' = [rpc EXCEPT ![r] = "head"]
  /\ pOut' = [pOut EXCEPT ![r] = << >>]
  /\ \/ /\ Lapped(r)
        /\ nCursor' = [nCursor EXCEPT ![r] = Resync]
        /\ CountLap(r)
     \/ /\ ~Lapped(r)
        /\ UNCHANGED <<nCursor, nOverruns>>
  /\ UNCHANGED <<writerVars, nInvalid, nAttempt, nWords>>

\* Read returns 0: nothing readable, or every attempt was discarded.
ReturnNothing(r) ==
  /\ rpc' = [rpc EXCEPT ![r] = "idle"]
  /\ nAttempt' = [nAttempt EXCEPT ![r] = 0]
  /\ nWords' = [nWords EXCEPT ![r] = 0]
  /\ pOut' = [pOut EXCEPT ![r] = << >>]

\* A cursor can be past the head after a resync: <=, not =.
NothingNew(r) == nCommit <= nCursor[r]

\* Words published and not yet consumed; u64, so a negative one is huge.
Available(r) == nCommit - nCursor[r]
Request(r) == IF Available(r) \in 0 .. MaxWords[r] THEN Available(r) ELSE MaxWords[r]

LoadHead(r) ==
  /\ rpc[r] = "head"
  /\ \/ /\ NothingNew(r)
        /\ ReturnNothing(r)
     \/ /\ ~NothingNew(r)
        /\ nWords' = [nWords EXCEPT ![r] = Request(r)]
        /\ rpc' = [rpc EXCEPT ![r] = "copy"]
        /\ UNCHANGED <<nAttempt, pOut>>
  /\ UNCHANGED <<writerVars, nCursor, nOverruns, nInvalid>>

CopyWord(r) ==
  /\ rpc[r] = "copy"
  /\ pOut' = [pOut EXCEPT ![r] =
                Append(@, Buffer[Slot(nCursor[r] + Len(@))])]
  /\ rpc' = [rpc EXCEPT ![r] =
               IF Len(pOut[r]) + 1 = nWords[r] THEN "check" ELSE "copy"]
  /\ UNCHANGED <<writerVars, nCursor, nOverruns, nInvalid, nAttempt, nWords>>

\* Nobody started overwriting the region during the copy.  Against the commit
\* index instead, it is the bug the header says the host test once caught.
StillValid_BugCommit(r) == nCommit - nCursor[r] <= CAPACITY
StillValid_BugEager(r) == nReserve - nCursor[r] < CAPACITY
StillValid(r) == nReserve - nCursor[r] <= CAPACITY

Deliver(r) ==
  /\ rpc[r] = "check"
  /\ StillValid(r)
  /\ nCursor' = [nCursor EXCEPT ![r] = @ + nWords[r]]
  /\ rpc' = [rpc EXCEPT ![r] = "idle"]
  /\ nAttempt' = [nAttempt EXCEPT ![r] = 0]
  /\ nWords' = [nWords EXCEPT ![r] = 0]
  /\ UNCHANGED <<writerVars, nOverruns, nInvalid, pOut>>

Discard(r) ==
  /\ rpc[r] = "check"
  /\ ~StillValid(r)
  /\ nInvalid' = [nInvalid EXCEPT ![r] = @ + 1]
  /\ \/ /\ nAttempt[r] + 1 < MaxAttempts
        /\ nAttempt' = [nAttempt EXCEPT ![r] = @ + 1]
        /\ rpc' = [rpc EXCEPT ![r] = "retry"]
        /\ UNCHANGED <<nWords, pOut>>
     \/ /\ nAttempt[r] + 1 >= MaxAttempts
        /\ ReturnNothing(r)
  /\ UNCHANGED <<writerVars, nCursor, nOverruns>>

ReadStep(r) ==
  LapCheck(r) \/ LoadHead(r) \/ CopyWord(r) \/ Deliver(r) \/ Discard(r)

Next == Writer \/ \E r \in Readers : InitReader(r) \/ ReadStep(r)

Spec == Init /\ [][Next]_vars

-----------------------------------------------------------------------------
(* Properties *)

TypeOK ==
  /\ nReserve \in Nat /\ nCommit \in Nat
  /\ Buffer \in [0..CAPACITY-1 -> Nat \cup {NoWord}]
  /\ wpc \in {"idle", "fill"}
  /\ wLen \in 0..CAPACITY /\ wPos \in 0..CAPACITY
  /\ rpc \in [Readers -> ReaderPCs]
  /\ nCursor \in [Readers -> Nat]
  /\ nOverruns \in [Readers -> Nat]
  /\ nInvalid \in [Readers -> Nat]
  /\ nAttempt \in [Readers -> Nat]
  /\ nWords \in [Readers -> Nat]
  /\ pOut \in [Readers -> Seq(Nat \cup {NoWord})]

\* Between calls, pOut[r] holds the words just before the cursor.
Exact(r) ==
  rpc[r] = "idle" => pOut[r] = Region(nCursor[r] - Len(pOut[r]), Len(pOut[r]))

\* What Read returned is exactly the words before the cursor, in order: no
\* word of it is torn, stale or unwritten, however the copy interleaved with
\* the writer (ringbuffer.h:13-29, CheckRegion of the host test).
NoTornRead == \A r \in Readers : Exact(r)

\* The words lapped readers lose are accounted for: each counted overrun
\* moved the cursor over more than a quarter of the ring, so the laps the
\* stats line prints are real (ringbuffer.h:113-117).
LapsCostAQuarter ==
  \A r \in Readers : nOverruns[r] * (Headroom + 1) <= nCursor[r]

\* A copy is discarded only because the writer really lapped the reader, and
\* the next lap check counts it: discards never exceed laps by more than the
\* lap not yet counted (nInvalid, nOverruns of TReader).
DiscardsAreLaps ==
  \A r \in Readers :
    nInvalid[r] <= nOverruns[r]
                   + (IF Lapped(r) THEN 1 ELSE 0)

\* No cursor passes the published head, so the u64 subtraction of Available
\* (ringbuffer.h:110) cannot wrap.  It needs writes that leave the headroom.
SmallWrites == \A n \in WriteSizes : n <= CAPACITY - Headroom
CursorBehindHead ==
  SmallWrites => \A r \in Readers : nCursor[r] <= nCommit

\* With stereo-aligned sizes the left channel stays at even indices for every
\* reader, across laps and short reads (config.h:15).
IsEven(n) == n % 2 = 0
AlignedConfig ==
  /\ IsEven(CAPACITY) /\ IsEven(Headroom)
  /\ \A n \in WriteSizes : IsEven(n)
  /\ \A r \in Readers : IsEven(MaxWords[r])
ChannelAligned ==
  AlignedConfig =>
    \A r \in Readers : IsEven(nCursor[r]) /\ (rpc[r] = "idle" => IsEven(Len(pOut[r])))

-----------------------------------------------------------------------------
(* The inductive invariant behind NoTornRead. *)

\* The two indices differ by the Write in progress, and only by it.
WriterInv ==
  /\ nReserve = nCommit + wLen
  /\ wPos <= wLen
  /\ wpc = "idle" => wLen = 0
  /\ wpc = "fill" => wLen \in WriteSizes

\* Every word written and not yet announced for overwriting is in its slot.
BufferInv ==
  \A k \in 0 .. nCommit + wPos - 1 :
    nReserve <= k + CAPACITY => Buffer[Slot(k)] = k

\* A copy in progress is exact unless the writer has announced a lap.
CopyInv(r) ==
  /\ rpc[r] = "copy" => Len(pOut[r]) < nWords[r]
  /\ rpc[r] = "check" => Len(pOut[r]) = nWords[r]
  /\ rpc[r] \in {"off", "head"} => pOut[r] = << >>
  /\ rpc[r] \in {"copy", "check"} =>
       /\ 0 < nWords[r] /\ nCursor[r] + nWords[r] <= nCommit
       /\ Lapped(r) \/ pOut[r] = Region(nCursor[r], Len(pOut[r]))

\* Inductive, and what the proofs use to establish the properties above.
RingInv ==
  TypeOK /\ WriterInv /\ BufferInv /\ NoTornRead /\ \A r \in Readers : CopyInv(r)

-----------------------------------------------------------------------------
(* The ring implements a broadcast stream that loses words only by laps. *)

Stream == INSTANCE BroadcastStream WITH
  Capacity  <- CAPACITY,
  Quarter   <- Headroom,
  Sizes     <- WriteSizes,
  published <- nCommit,
  next      <- nCursor,
  laps      <- nOverruns,
  attached  <- [r \in Readers |-> rpc[r] # "off"],
  got       <- [r \in Readers |-> IF rpc[r] = "idle" THEN pOut[r] ELSE << >>]

\* Every behaviour of the ring is a behaviour of the stream.
ImplementsStream == Stream!Spec
=============================================================================
