----------------------------- MODULE PeakMeter -----------------------------
(***************************************************************************)
(* The level meter: core 1 sign-extends samples, tracks the peak of a      *)
(* window and merges it into TAudioStats::nPeakAbs24; core 3 reports the   *)
(* peak and clears it (AnalysisLoop and StatsLoop of src/src/cores.cpp,    *)
(* SignExtend24 of src/src/audiostats.h).  The cores share one counter,    *)
(* each access to it atomic, the sequences of accesses not.                *)
(*                                                                         *)
(* Widths are parameters: 24-bit samples in 32-bit words in the code.  A   *)
(* shift is what it does to a number: a product, cut to a word, or a       *)
(* quotient.                                                               *)
(***************************************************************************)
EXTENDS Integers

CONSTANTS
  HALF_RANGE,     \* samples lie in -HALF_RANGE .. HALF_RANGE - 1 (2^23)
  SHIFT,          \* what a shift by 8 multiplies with (2^8)
  Words,          \* the words the ring delivers
  WINDOW_FRAMES,  \* frames of a meter window (12000)
  MaxWindows      \* bound of the model: windows ever closed

ASSUME MeterAssumption ==
  /\ HALF_RANGE \in Nat /\ SHIFT \in Nat \ {0}
  /\ HALF_RANGE > 101    \* a sample is finer than a percent
  /\ Words \subseteq 0 .. 2 * (HALF_RANGE * SHIFT) - 1
  /\ WINDOW_FRAMES \in Nat \ {0} /\ MaxWindows \in Nat

FullScale == HALF_RANGE - 1

VARIABLES
  nWindowPeak, nWindowFrames,  \* locals of AnalysisLoop
  currentMax,                  \* the peak it loaded when closing a window
  apc,                         \* "sum", or "load", "store" at a window's end
  nPeakAbs24,                  \* shared
  nPeak,                       \* local of StatsLoop
  nPeakPct,                    \* what the last status line showed
  spc,                         \* "sleep", "clear", "report"
  owed,                        \* history: largest window peak not yet reported
  fresh,                       \* history: largest window peak since the last clear
  nWindows                     \* history: windows closed

analysisLocals == <<nWindowPeak, nWindowFrames, currentMax, apc>>
statsLocals == <<nPeak, nPeakPct, spc>>
history == <<owed, fresh, nWindows>>
meterVars == <<analysisLocals, nPeakAbs24, statsLocals, history>>

MaxOf(a, b) == IF a < b THEN b ELSE a

MeterInit ==
  /\ nWindowPeak = 0 /\ nWindowFrames = 0 /\ currentMax = 0 /\ apc = "sum"
  /\ nPeakAbs24 = 0
  /\ nPeak = 0 /\ nPeakPct = 0 /\ spc = "sleep"
  /\ owed = 0 /\ fresh = 0 /\ nWindows = 0

-----------------------------------------------------------------------------
(* Core 1 *)

\* (int32_t) (nWord << 8) >> 8: up to the top, then an arithmetic shift down.
SignBit == HALF_RANGE * SHIFT
WordRange == 2 * SignBit
SignExtend24_BugLogical(w) == ((w * SHIFT) % WordRange) \div SHIFT
SignExtend24(w) ==
  LET up == (w * SHIFT) % WordRange
  IN  (IF up >= SignBit THEN up - WordRange ELSE up) \div SHIFT

Magnitude(w) == LET s == SignExtend24(w) IN IF s < 0 THEN -s ELSE s

\* A Read of some frames whose loudest sample is in word w.
Meter(frames, w) ==
  /\ apc = "sum"
  /\ nWindows < MaxWindows
  /\ nWindowPeak' = MaxOf(nWindowPeak, Magnitude(w))
  /\ nWindowFrames' = nWindowFrames + frames
  /\ apc' = IF nWindowFrames' >= WINDOW_FRAMES THEN "load" ELSE "sum"
  /\ UNCHANGED <<currentMax, nPeakAbs24, statsLocals, history>>

LoadMax ==
  /\ apc = "load"
  /\ currentMax' = nPeakAbs24
  /\ apc' = "store"
  /\ UNCHANGED <<nWindowPeak, nWindowFrames, nPeakAbs24, statsLocals, history>>

\* The window is closed: its peak is owed to the next status line.
Merged_BugResurrects == MaxOf(nWindowPeak, currentMax)
Merged == IF nWindowPeak > currentMax THEN nWindowPeak ELSE nPeakAbs24

CloseWindow ==
  /\ apc = "store"
  /\ nPeakAbs24' = Merged
  /\ owed' = MaxOf(owed, nWindowPeak)
  /\ fresh' = MaxOf(fresh, nWindowPeak)
  /\ nWindowPeak' = 0
  /\ nWindowFrames' = 0
  /\ nWindows' = nWindows + 1
  /\ apc' = "sum"
  /\ UNCHANGED <<currentMax, statsLocals>>

-----------------------------------------------------------------------------
(* Core 3 *)

\* A report settles the debt it is large enough for.
LoadPeak ==
  /\ spc = "sleep"
  /\ nPeak' = nPeakAbs24
  /\ owed' = IF nPeakAbs24 >= owed THEN 0 ELSE owed
  /\ spc' = "clear"
  /\ UNCHANGED <<analysisLocals, nPeakAbs24, nPeakPct, fresh, nWindows>>

ClearPeak ==
  /\ spc = "clear"
  /\ nPeakAbs24' = 0
  /\ fresh' = 0
  /\ spc' = "report"
  /\ UNCHANGED <<analysisLocals, nPeak, nPeakPct, owed, nWindows>>

Report ==
  /\ spc = "report"
  /\ nPeakPct' = (nPeak * 100) \div FullScale
  /\ spc' = "sleep"
  /\ UNCHANGED <<analysisLocals, nPeakAbs24, nPeak, history>>

MeterNext == (\E f \in 1..WINDOW_FRAMES, w \in Words : Meter(f, w))
        \/ LoadMax \/ CloseWindow \/ LoadPeak \/ ClearPeak \/ Report

MeterSpec == MeterInit /\ [][MeterNext]_meterVars

-----------------------------------------------------------------------------
(* Properties *)

MeterTypeOK ==
  /\ {nWindowPeak, currentMax, nPeakAbs24, nPeak, owed, fresh} \subseteq 0 .. HALF_RANGE
  /\ nWindowFrames \in Nat /\ nPeakPct \in Nat /\ nWindows \in Nat
  /\ apc \in {"sum", "load", "store"} /\ spc \in {"sleep", "clear", "report"}

\* A status line shows 0 to 100 percent for every word the ring can carry: the
\* most negative sample, whose magnitude exceeds full scale, and words with
\* anything above the sample's bits included (cores.cpp:157-159).
PercentInRange == nPeakPct \in 0..100

\* The shared peak never holds a peak older than the last clear: what was
\* reported once does not come back, whatever core 1 had loaded before.
NoStalePeak == nPeakAbs24 <= fresh

MeterInv == MeterTypeOK /\ PercentInRange /\ NoStalePeak

\* "running peak" (audiostats.h:43), "clear after reading" (cores.cpp:152): what
\* is cleared has been read, so the next line will cover every closed window
\* that no line has covered yet.
NoPeakLost == spc = "sleep" => owed <= nPeakAbs24
=============================================================================
