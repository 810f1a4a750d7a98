--------------------------- MODULE MonitorLatency ---------------------------
(***************************************************************************)
(* The driver's schedule around AudioEngine.  As long as nothing stalls,   *)
(* both directions run off the one bus clock: TX starts some chunk periods *)
(* after RX, or before it and then finds the FIFO empty, the "startup      *)
(* phase skew" of src/src/config.h:57-62 and audioengine.cpp:67-72; from   *)
(* then on RX and TX completions alternate.  A driver that stalls may call *)
(* back in any order.  The driver itself is not in the repository.         *)
(***************************************************************************)
EXTENDS AudioEngine

CONSTANTS
  CHUNK_WORDS,  \* GDAW_CHUNK_WORDS
  MaxSkew,      \* chunk periods TX may start after RX
  MaxPriming    \* chunk periods TX may start before RX

ASSUME LatencyAssumption ==
  /\ CHUNK_WORDS \in ChunkSizes
  /\ MaxSkew \in Nat /\ MaxPriming \in Nat

VARIABLES
  steady,   \* does this driver keep to the bus clock?
  skew,     \* chunk periods TX starts after RX; before RX when negative
  ahead     \* steady: completions of RX minus those of TX

driverVars == <<steady, skew, ahead>>
latencyVars == <<vars, driverVars>>

LatencyInit ==
  /\ Init
  /\ steady \in BOOLEAN
  /\ skew \in IF steady THEN -MaxPriming..MaxSkew ELSE {0}
  /\ ahead = 0

RxComplete ==
  /\ steady /\ ahead <= skew
  /\ PutChunk(CHUNK_WORDS)
  /\ ahead' = ahead + 1
  /\ UNCHANGED <<steady, skew>>

TxComplete ==
  /\ steady /\ ahead > skew
  /\ GetChunk(CHUNK_WORDS)
  /\ ahead' = ahead - 1
  /\ UNCHANGED <<steady, skew>>

AnyCompletion ==
  /\ ~steady
  /\ Next
  /\ UNCHANGED driverVars

LatencyNext == RxComplete \/ TxComplete \/ AnyCompletion

LatencySpec == LatencyInit /\ [][LatencyNext]_latencyVars

-----------------------------------------------------------------------------
(* Properties *)

Late == IF skew > 0 THEN skew ELSE 0      \* chunk periods TX starts late
Lead == IF skew < 0 THEN -skew ELSE 0     \* chunk periods it starts early
Roomy == (MaxSkew + 1) * CHUNK_WORDS <= MONITOR_WORDS

\* On a steady bus clock the startup skew is all that is ever paid for: nothing
\* is dropped, and the frames starved are those TX played before RX's first
\* chunk.  From then on the count is frozen, as the bring-up saw it ("frozen at
\* the one-time 16-frame startup priming, drop 0", planning/build-plan.md:64).
StarvesOnlyPriming ==
  Roomy /\ steady =>
    /\ nMonitorDropped = 0
    /\ LET priming == Lead * (CHUNK_WORDS \div 2)
       IN  IF nMonitorHead = 0 THEN nMonitorStarved <= priming
                               ELSE nMonitorStarved = priming

\* The inductive invariant: the FIFO holds what RX is ahead by, the refills
\* that found it empty at the start not counted.
Primed == IF nMonitorHead = 0 THEN -ahead ELSE Lead
LatencyInv ==
  /\ EngineInv
  /\ skew \in -MaxPriming..MaxSkew /\ ahead \in Int
  /\ Roomy /\ steady =>
       /\ Primed \in 0..Lead
       /\ ahead + Primed \in 0..Late+1
       /\ Level = (ahead + Primed) * CHUNK_WORDS
       /\ nMonitorDropped = 0
       /\ nMonitorStarved = Primed * (CHUNK_WORDS \div 2)

\* The monitor's latency neither creeps nor jitters: on a steady bus clock a
\* refill hands out silence until RX has produced, and then for the whole
\* session the words that are Late + 1 chunks old, in order.  With TX at RX's
\* heels or before it, that is the budget of config.h:37-38; a late TX, which
\* the FIFO absorbs, is paid for in latency.
WaitsForSkew ==
  [][Roomy /\ steady /\ nFramesPlayed' # nFramesPlayed =>
       pTx' = [i \in 1..CHUNK_WORDS |->
                 IF nMonitorHead = 0 THEN Silence
                 ELSE nMonitorHead - (Late + 1) * CHUNK_WORDS + i - 1]
    ]_latencyVars
=============================================================================
