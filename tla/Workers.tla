------------------------------ MODULE Workers ------------------------------
(***************************************************************************)
(* The analysis and storage loops of src/src/cores.cpp on top of the       *)
(* capture ring: core 1 drains whatever is there, core 2 waits for a whole *)
(* block before it reads.  Both publish their counters for core 3.  Every  *)
(* step of a Read is a step of CaptureRing; sleeping between polls is      *)
(* left out.  The level meter of core 1 is in PeakMeter.                   *)
(***************************************************************************)
EXTENDS CaptureRing

VARIABLES
  wk,                 \* where each worker is in its loop
  nAnalysisFrames,    \* TAudioStats, in the order the workers write them
  nAnalysisOverruns,
  nStorageBytes,
  nStorageOverruns

statVars == <<nAnalysisFrames, nAnalysisOverruns, nStorageBytes, nStorageOverruns>>
workerVars == <<vars, wk, statVars>>

A == "analysis"
S == "storage"
BLOCK_WORDS == MaxWords[S]
BytesPerWord == 4

ASSUME WorkersAssumption == Readers = {A, S}

WorkersInit ==
  /\ Init
  /\ wk = [r \in Readers |-> "start"]
  /\ nAnalysisFrames = 0
  /\ nAnalysisOverruns = 0
  /\ nStorageBytes = 0
  /\ nStorageOverruns = 0

Goto(r, from, to) == wk[r] = from /\ wk' = [wk EXCEPT ![r] = to]

-----------------------------------------------------------------------------
StartLoop(r) ==
  /\ Goto(r, "start", "loop")
  /\ InitReader(r)
  /\ UNCHANGED statVars

\* Until Read returns: the steps of the call in progress.
InRead(r) ==
  /\ wk[r] = "read"
  /\ rpc[r] # "idle"
  /\ ReadStep(r)
  /\ UNCHANGED <<wk, statVars>>

AnalysisCall ==
  /\ Goto(A, "loop", "read")
  /\ LapCheck(A)
  /\ UNCHANGED statVars

\* Read returned 0: sleep and start over, publishing nothing.
AnalysisEmpty ==
  /\ Goto(A, "read", "loop")
  /\ rpc[A] = "idle"
  /\ pOut[A] = << >>
  /\ UNCHANGED <<vars, statVars>>

AnalysisCount ==
  /\ Goto(A, "read", "publish")
  /\ rpc[A] = "idle"
  /\ pOut[A] # << >>
  /\ nAnalysisFrames' = nAnalysisFrames + Len(pOut[A]) \div 2
  /\ UNCHANGED <<vars, nAnalysisOverruns, nStorageBytes, nStorageOverruns>>

Reported_BugInvalid(r) == nInvalid[r]
Reported(r) == nOverruns[r]

AnalysisPublish ==
  /\ Goto(A, "publish", "loop")
  /\ nAnalysisOverruns' = Reported(A)
  /\ UNCHANGED <<vars, nAnalysisFrames, nStorageBytes, nStorageOverruns>>

\* Wait until a whole block is available.
EnoughForBlock_BugAny == Available(S) > 0
EnoughForBlock_BugMore == Available(S) > BLOCK_WORDS
EnoughForBlock == Available(S) >= BLOCK_WORDS

StorageCheck ==
  /\ Goto(S, "loop", "call")
  /\ EnoughForBlock
  /\ UNCHANGED <<vars, statVars>>

StorageCall ==
  /\ Goto(S, "call", "read")
  /\ LapCheck(S)
  /\ UNCHANGED statVars

Drained_BugBlock == BytesPerWord * BLOCK_WORDS
Drained == BytesPerWord * Len(pOut[S])

\* Also when Read returned 0.
StorageCount ==
  /\ Goto(S, "read", "publish")
  /\ rpc[S] = "idle"
  /\ nStorageBytes' = nStorageBytes + Drained
  /\ UNCHANGED <<vars, nAnalysisFrames, nAnalysisOverruns, nStorageOverruns>>

StoragePublish ==
  /\ Goto(S, "publish", "loop")
  /\ nStorageOverruns' = Reported(S)
  /\ UNCHANGED <<vars, nAnalysisFrames, nAnalysisOverruns, nStorageBytes>>

Capture == Writer /\ UNCHANGED <<wk, statVars>>

Analysis == StartLoop(A) \/ AnalysisCall \/ InRead(A) \/ AnalysisEmpty
            \/ AnalysisCount \/ AnalysisPublish
Storage == StartLoop(S) \/ StorageCheck \/ StorageCall \/ InRead(S)
           \/ StorageCount \/ StoragePublish

WorkersNext == Capture \/ Analysis \/ Storage

WorkersSpec == WorkersInit /\ [][WorkersNext]_workerVars

\* Each loop has a core to itself; a Write that began finishes.
WorkersFairSpec ==
  /\ WorkersSpec
  /\ WF_workerVars(Capture /\ wpc = "fill")
  /\ WF_workerVars(Analysis)
  /\ WF_workerVars(Storage)

-----------------------------------------------------------------------------
(* Properties *)

\* Storage only ever drains whole blocks, the write granularity of the SD card
\* (cores.cpp:121-123), even when it is lapped between the check and the Read.
\* A block must fit behind the headroom and the Write in progress.
BlockFits == \A n \in WriteSizes : BLOCK_WORDS <= CAPACITY - Headroom - n
WholeBlocks == BlockFits => nStorageBytes % (BytesPerWord * BLOCK_WORDS) = 0

\* The storage counters never claim more than the cursor has passed: bytes
\* drained, plus what the reported laps cost at the very least.
CountersAreHonest ==
  /\ nStorageBytes + BytesPerWord * nStorageOverruns * (Headroom + 1)
       <= BytesPerWord * nCursor[S]
  /\ 2 * nAnalysisFrames + nAnalysisOverruns * (Headroom + 1) <= nCursor[A]

\* Every lap is reported in the end, although the analysis loop publishes
\* nothing after an empty Read: after a lap there is always more to read.
LapsReported ==
  <>[](wpc = "idle") =>
    /\ <>[](nAnalysisOverruns = nOverruns[A])
    /\ <>[](nStorageOverruns = nOverruns[S])

\* When the stream pauses, core 1 has seen all of it and core 2 all but a part
\* of a block.
WorkersDrain ==
  <>[](wpc = "idle") =>
    /\ <>[](nCursor[A] = nCommit)
    /\ <>[](nCommit - nCursor[S] < BLOCK_WORDS)
=============================================================================
