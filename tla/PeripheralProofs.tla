-------------------------- MODULE PeripheralProofs --------------------------
(***************************************************************************)
(* Proofs about the three small machines around the audio path: the boot   *)
(* of the kernel (for any temperatures and any trip point), the level      *)
(* meter (for any widths of sample and word, any words and window), and    *)
(* the Nano's clock (for any number of gate windows, failing calls,        *)
(* reboots and brownouts).                                                 *)
(***************************************************************************)
EXTENDS KernelBoot, PeakMeter, NanoMclk, TLAPS

(* The boot of the kernel *)

\* Initialize leaves the flag down, and the workers with it.
LEMMA InitializeStep ==
  ASSUME BootInv, NEW d \in {"screen", "serial"},
         TryOptional(d, d, IF d = "screen" THEN "serial" ELSE "logger")
         \/ InitLogger \/ InitInterrupt \/ InitTimer \/ InitCores
  PROVE  BootInv'
<1>1. /\ TypeOK /\ WorkersHold /\ flag # 1
      /\ pc \in {"screen", "serial", "logger", "interrupt", "timer", "cores"}
      /\ flag' = flag /\ UNCHANGED loopVars
  BY DEF BootInv, TryOptional, InitLogger, InitInterrupt, InitTimer, InitCores, Goto, MustInit,
    boot
<1>2. pc' \in {"serial", "logger", "interrupt", "timer", "cores", "audio", "halted"}
  BY DEF TryOptional, InitLogger, InitInterrupt, InitTimer, InitCores, Goto, MustInit
<1>3. \A c \in Workers : core[c] # "work"
  BY <1>1 DEF WorkersHold
<1>4. core' = core \/ core' = [c \in Workers |-> "hold"]
  BY DEF TryOptional, InitLogger, InitInterrupt, InitTimer, InitCores, boot
<1>5. core' \in [Workers -> {"off", "hold", "work"}] /\ \A c \in Workers : core'[c] # "work"
  BY <1>1, <1>3, <1>4 DEF TypeOK
<1>6. up' \subseteq {"screen", "serial", "audio"}
  BY <1>1 DEF TryOptional, InitLogger, InitInterrupt, InitTimer, InitCores, boot, TypeOK
<1>7. target' \in {"none", "null"} \cup Optional
  BY <1>1 DEF TryOptional, InitLogger, InitInterrupt, InitTimer, InitCores, boot, TypeOK, Target,
    Optional
<1>8. /\ nLoop' \in 0 .. LoopsPerBurst - 1 /\ nTemp' \in Nat /\ blinks' \in 0..6
      /\ fan' \in BOOLEAN /\ flag' \in {0, 1}
  BY <1>1 DEF TypeOK, loopVars
<1> QED BY <1>1, <1>2, <1>5, <1>6, <1>7, <1>8 DEF BootInv, TypeOK, WorkersHold

\* The workers are released once audio has been tried, into the main loop.
LEMMA RunStep ==
  ASSUME BootInv, StartAudio \/ StartWorkers
  PROVE  BootInv'
<1>1. TypeOK /\ UNCHANGED <<core, target, loopVars>> /\ pc \in {"audio", "release"}
  BY DEF BootInv, StartAudio, StartWorkers, Goto
<1>2. \A c \in Workers : core'[c] # "work"
  BY <1>1 DEF BootInv, WorkersHold
<1>3. /\ up' \subseteq {"screen", "serial", "audio"}
      /\ \/ pc' = "release" /\ flag' = flag /\ flag # 1
         \/ pc' = "update" /\ flag' = 1
  BY <1>1 DEF BootInv, TypeOK, StartAudio, StartWorkers, Goto, AfterAudio, ReleaseFlag
<1> QED BY <1>1, <1>2, <1>3 DEF BootInv, TypeOK, WorkersHold, loopVars

\* The main loop is never left.
LEMMA MainLoopStep ==
  ASSUME BootInv, Update \/ Beat \/ BurstBlink \/ BurstEnd
  PROVE  BootInv'
<1>1. TypeOK /\ UNCHANGED boot /\ pc' \in {"update", "beat", "burst"}
  BY DEF BootInv, Update, Beat, BurstBlink, BurstEnd, Goto
<1>2. nTemp' \in Nat
  BY <1>1, BootAssumption DEF BootAssumption, TypeOK, Update, Beat, BurstBlink, BurstEnd
<1>3. fan' \in BOOLEAN
  <2>1. CASE Update
    BY <1>1, <2>1 DEF TypeOK, Update
  <2>2. CASE ~Update
    BY <1>1, <2>2 DEF TypeOK, Beat, BurstBlink, BurstEnd
  <2> QED BY <2>1, <2>2
<1>4. Update => UNCHANGED <<nLoop, blinks>>
  BY DEF Update
<1>5. nLoop' \in 0 .. LoopsPerBurst - 1
  BY <1>1, <1>4 DEF TypeOK, Beat, BurstBlink, BurstEnd, LoopsPerBurst
<1>6. blinks' \in 0..6
  <2>1. nTemp \in Nat /\ blinks \in 0..6
    BY <1>1 DEF TypeOK
  <2>2. Band(nTemp) <= 6
    BY <2>1 DEF Band
  <2>3. CASE BurstBlink
    BY <2>1, <2>2, <2>3 DEF BurstBlink, MoreBlinks, Band
  <2>4. CASE ~BurstBlink
    BY <2>1, <2>4, <1>4 DEF Beat, BurstEnd
  <2> QED BY <2>3, <2>4
<1>7. UNCHANGED <<up, target, flag, core>>
  BY <1>1 DEF boot
<1>8. TypeOK'
  BY <1>1, <1>2, <1>3, <1>5, <1>6, <1>7 DEF TypeOK
<1> QED BY <1>1, <1>7, <1>8 DEF BootInv, WorkersHold

\* A worker gets to work when it sees the flag.
LEMMA WorkStep ==
  ASSUME BootInv, NEW c \in Workers, Work(c)
  PROVE  BootInv'
<1>1. /\ TypeOK /\ pc \in {"update", "beat", "burst"}
      /\ core' = [core EXCEPT ![c] = "work"]
      /\ UNCHANGED <<pc, world, up, target, flag, loopVars>>
  BY DEF BootInv, Work, Released
<1> QED BY <1>1 DEF BootInv, TypeOK, WorkersHold, loopVars

\* The inductive invariant holds in every reachable state of the boot.
THEOREM BootInvariant == Spec => []BootInv
<1>1. Init => BootInv
  <2> SUFFICES ASSUME Init PROVE BootInv
    OBVIOUS
  <2>1. fan \in BOOLEAN
    BY DEF Init, FanAtPowerOn
  <2> QED BY <2>1 DEF Init, BootInv, TypeOK, WorkersHold, LoopsPerBurst
<1>2. ASSUME BootInv, [Next]_vars
      PROVE  BootInv'
  <2>1. CASE UNCHANGED vars
    BY <1>2, <2>1 DEF vars, world, boot, loopVars, BootInv, TypeOK, WorkersHold
  <2>2. CASE Core0
    BY <1>2, <2>2, InitializeStep, RunStep, MainLoopStep DEF Core0
  <2>3. CASE \E c \in Workers : Work(c)
    BY <1>2, <2>3, WorkStep
  <2> QED BY <1>2, <2>1, <2>2, <2>3 DEF Next
<1> QED BY <1>1, <1>2, PTL DEF Spec

\* Every variable of the boot keeps its type: the burst is of six blinks at
\* most, whatever the sensor reads.
THEOREM BootTypeCorrect == Spec => []TypeOK
<1>1. BootInv => TypeOK
  BY DEF BootInv
<1> QED BY <1>1, BootInvariant, PTL

\* Whatever is missing or fails, no worker runs before core 0 is done with the
\* audio device.
THEOREM WorkersWait == Spec => []WorkersHold
<1>1. BootInv => WorkersHold
  BY DEF BootInv
<1> QED BY <1>1, BootInvariant, PTL

\* Whatever is missing, the logger finds what is there.
LEMMA LogStep ==
  ASSUME LogInv, [Next]_vars
  PROVE  LogInv'
<1>1. CASE TryOptional("screen", "screen", "serial")
  BY <1>1 DEF TryOptional, Goto, world, LogInv, LogsSomewhere
<1>2. CASE TryOptional("serial", "serial", "logger")
  BY <1>2 DEF TryOptional, Goto, world, LogInv, LogsSomewhere
<1>3. CASE InitLogger
  <2>1. /\ pc = "logger" /\ pc' \in {"interrupt", "halted"} /\ target' = Target
        /\ UNCHANGED <<present, up>>
    BY <1>3 DEF InitLogger, MustInit, world
  <2>2. ("screen" \in up <=> "screen" \in present) /\ ("serial" \in up <=> "serial" \in present)
    BY <2>1 DEF LogInv
  <2>3. IF present = {} THEN Target = "null" ELSE Target \in present
    BY <2>2 DEF Target, LogInv, Optional
  <2> QED BY <2>1, <2>2, <2>3 DEF LogInv, LogsSomewhere
<1>4. ASSUME UNCHANGED <<present, target>>, UNCHANGED up \/ up' = up \cup {"audio"},
             pc \notin {"screen", "serial", "logger", "halted"},
             pc' \notin {"screen", "serial", "logger"}
      PROVE  LogInv'
  BY <1>4 DEF LogInv, LogsSomewhere
<1>5. CASE InitInterrupt \/ InitTimer \/ InitCores
  BY <1>4, <1>5 DEF InitInterrupt, InitTimer, InitCores, MustInit, world, boot
<1>6. CASE StartAudio \/ StartWorkers
  BY <1>4, <1>6 DEF StartAudio, StartWorkers, Goto, AfterAudio, world
<1>7. CASE Update \/ Beat \/ BurstBlink \/ BurstEnd
  BY <1>4, <1>7 DEF Update, Beat, BurstBlink, BurstEnd, Goto, world, boot
<1>8. CASE \E c \in Workers : Work(c)
  BY <1>8 DEF Work, world, LogInv, LogsSomewhere
<1>9. CASE UNCHANGED vars
  BY <1>9 DEF vars, world, boot, LogInv, LogsSomewhere
<1> QED BY <1>1, <1>2, <1>3, <1>5, <1>6, <1>7, <1>8, <1>9 DEF Next, Core0

\* The logger's target is a device that is there, or the null device when none
\* is: the part of HeadlessSafe that needs no fairness.
THEOREM LoggerFindsItsTarget == Spec => []LogsSomewhere
<1>1. Init => LogInv
  BY DEF Init, LogInv, LogsSomewhere
<1>2. LogInv => LogsSomewhere
  BY DEF LogInv
<1> QED BY <1>1, <1>2, LogStep, PTL DEF Spec

-----------------------------------------------------------------------------
(* The level meter *)

\* A quotient lies within the bounds its numerator has in multiples.
LEMMA Quotient ==
  ASSUME NEW a \in Int, NEW s \in Nat \ {0}, NEW h \in Nat,
         -(h * s) <= a, a < h * s
  PROVE  (a \div s) \in Int /\ -h <= a \div s /\ a \div s < h
<1> DEFINE q == a \div s
<1>1. q \in Int /\ q * s <= a /\ a < q * s + s
  OBVIOUS
<1> HIDE DEF q
<1>2. q < h
  <2>1. q >= h => q * s >= h * s
    BY <1>1
  <2>2. h * s \in Int /\ q * s \in Int
    BY <1>1
  <2> QED BY <1>1, <2>1, <2>2
<1>3. -h <= q
  <2>1. q + 1 <= -h => (q + 1) * s <= (-h) * s
    BY <1>1
  <2>2. (q + 1) * s = q * s + s /\ (-h) * s = -(h * s)
    BY <1>1
  <2>3. h * s \in Int /\ q * s \in Int
    BY <1>1
  <2> QED BY <1>1, <2>1, <2>2, <2>3
<1> QED BY <1>1, <1>2, <1>3 DEF q

\* Sign extension stays within the range of a sample, whatever the bits above.
LEMMA SampleRange ==
  ASSUME NEW w \in Words
  PROVE  Magnitude(w) \in 0 .. HALF_RANGE
<1> DEFINE raised == (w * SHIFT) % WordRange
<1>1. /\ HALF_RANGE \in Nat /\ HALF_RANGE > 101 /\ SHIFT \in Nat \ {0}
      /\ Words \subseteq 0 .. 2 * (HALF_RANGE * SHIFT) - 1
  BY MeterAssumption DEF MeterAssumption
<1>2. \A a, b \in Nat : a * b \in Nat
  OBVIOUS
<1>3. SignBit \in Nat /\ w * SHIFT \in Nat
  BY <1>1, <1>2 DEF SignBit
<1>4. SignBit > 0
  BY <1>1 DEF SignBit
<1>5. raised \in 0 .. 2 * SignBit - 1
  BY <1>3, <1>4 DEF WordRange
<1> HIDE DEF raised
<1> DEFINE low == IF raised >= SignBit THEN raised - WordRange ELSE raised
<1>6. low \in Int /\ -SignBit <= low /\ low < SignBit
  BY <1>3, <1>5 DEF WordRange
<1> HIDE DEF low
<1>7. /\ (low \div SHIFT) \in Int
      /\ -HALF_RANGE <= low \div SHIFT /\ low \div SHIFT < HALF_RANGE
  BY <1>1, <1>6, Quotient DEF SignBit
<1>8. SignExtend24(w) = low \div SHIFT
  BY DEF SignExtend24, low, raised
<1> QED BY <1>1, <1>7, <1>8 DEF Magnitude

\* Core 1
LEMMA AnalysisStep ==
  ASSUME MeterInv,
         (\E f \in 1..WINDOW_FRAMES, w \in Words : Meter(f, w)) \/ LoadMax \/ CloseWindow
  PROVE  MeterInv'
<1>1. MeterTypeOK /\ PercentInRange /\ NoStalePeak /\ HALF_RANGE \in Nat
  BY MeterAssumption DEF MeterAssumption, MeterInv
<1>2. UNCHANGED statsLocals
  BY DEF Meter, LoadMax, CloseWindow
<1>3. CASE \E f \in 1..WINDOW_FRAMES, w \in Words : Meter(f, w)
  <2>1. PICK f \in 1..WINDOW_FRAMES, w \in Words : Meter(f, w)
    BY <1>3
  <2>2. nWindowPeak' \in 0 .. HALF_RANGE
    BY <1>1, <2>1, SampleRange DEF Meter, MaxOf, MeterTypeOK
  <2>3. nWindowFrames' \in Nat /\ apc' \in {"sum", "load", "store"}
    BY <1>1, <2>1, MeterAssumption DEF MeterAssumption, Meter, MeterTypeOK
  <2>4. UNCHANGED <<currentMax, nPeakAbs24, nPeak, nPeakPct, spc, owed, fresh, nWindows>>
    BY <2>1 DEF Meter, statsLocals, history
  <2> QED BY <1>1, <2>2, <2>3, <2>4 DEF MeterInv, MeterTypeOK, PercentInRange, NoStalePeak
<1>4. CASE LoadMax
  BY <1>1, <1>2, <1>4
    DEF LoadMax, statsLocals, history, MeterInv, MeterTypeOK, PercentInRange, NoStalePeak
<1>5. CASE CloseWindow
  BY <1>1, <1>2, <1>5
    DEF CloseWindow, Merged, MaxOf, statsLocals, MeterInv, MeterTypeOK, PercentInRange, NoStalePeak
<1> QED BY <1>3, <1>4, <1>5

\* Even the most negative sample, one above full scale, shows as 100 percent.
LEMMA PercentRange ==
  ASSUME NEW n \in 0 .. HALF_RANGE
  PROVE  (n * 100) \div FullScale \in 0..100
<1> DEFINE q == (n * 100) \div FullScale
<1>1. FullScale \in Nat /\ FullScale > 100 /\ n * 100 <= FullScale * 100 + 100 /\ n * 100 \in Nat
  BY MeterAssumption DEF MeterAssumption, FullScale
<1>2. n * 100 < 101 * FullScale
  BY <1>1
<1>3. q \in Int /\ -101 <= q /\ q < 101
  BY <1>1, <1>2, Quotient
<1>4. q >= 0
  BY <1>1
<1> QED BY <1>3, <1>4

\* Core 3
LEMMA StatsStep ==
  ASSUME MeterInv, LoadPeak \/ ClearPeak \/ Report
  PROVE  MeterInv'
<1>1. MeterTypeOK /\ PercentInRange /\ NoStalePeak /\ HALF_RANGE \in Nat
  BY MeterAssumption DEF MeterAssumption, MeterInv
<1>2. UNCHANGED analysisLocals
  BY DEF LoadPeak, ClearPeak, Report
<1>3. CASE LoadPeak
  BY <1>1, <1>2, <1>3
    DEF LoadPeak, analysisLocals, MeterInv, MeterTypeOK, PercentInRange, NoStalePeak
<1>4. CASE ClearPeak
  BY <1>1, <1>2, <1>4
    DEF ClearPeak, analysisLocals, MeterInv, MeterTypeOK, PercentInRange, NoStalePeak
<1>5. CASE Report
  <2>1. nPeakPct' \in 0..100
    BY <1>1, <1>5, PercentRange DEF Report, MeterTypeOK
  <2> QED BY <1>1, <1>2, <1>5, <2>1
    DEF Report, analysisLocals, history, MeterInv, MeterTypeOK, PercentInRange, NoStalePeak
<1> QED BY <1>3, <1>4, <1>5

\* The inductive invariant holds in every reachable state of the meter.
THEOREM MeterInvariant == MeterSpec => []MeterInv
<1>1. MeterInit => MeterInv
  BY MeterAssumption
     DEF MeterAssumption, MeterInit, MeterInv, MeterTypeOK, PercentInRange, NoStalePeak
<1>2. ASSUME MeterInv, [MeterNext]_meterVars
      PROVE  MeterInv'
  <2>1. CASE UNCHANGED meterVars
    BY <1>2, <2>1 DEF meterVars, analysisLocals, statsLocals, history, MeterInv, MeterTypeOK,
      PercentInRange, NoStalePeak
  <2> QED BY <1>2, <2>1, AnalysisStep, StatsStep DEF MeterNext
<1> QED BY <1>1, <1>2, PTL DEF MeterSpec

\* For any words the ring carries, a status line shows 0 to 100 percent.
THEOREM PercentIsInRange == MeterSpec => []PercentInRange
<1>1. MeterInv => PercentInRange
  BY DEF MeterInv
<1> QED BY <1>1, MeterInvariant, PTL

\* However the two cores interleave, a peak once cleared does not come back.
THEOREM ClearedPeaksStayCleared == MeterSpec => []NoStalePeak
<1>1. MeterInv => NoStalePeak
  BY DEF MeterInv
<1> QED BY <1>1, MeterInvariant, PTL

-----------------------------------------------------------------------------
(* The Nano's clock *)

\* After a reset nothing is counted and no clock is claimed.
LEMMA RebootStep ==
  ASSUME NanoInv, Reboot
  PROVE  NanoInv'
<1>1. /\ step' = "mclk" /\ held' = 0 /\ count' = 0
      /\ UNCHANGED <<printed, total, shown>>
      /\ printed \in 0..MaxGates /\ total \in 0..MaxGates /\ shown \in 0..MaxGates
  BY DEF Reboot, FirstStep, NanoInv, NanoTypeOK
<1>2. held' \in 0..MaxGates /\ count' \in 0..MaxGates /\ MaxGates \in Nat
  BY <1>1, NanoAssumption DEF NanoAssumption
<1>3. NoPulseTwice'
  <2>1. shown + held <= total /\ held \in 0..MaxGates
    BY DEF NanoInv, NanoTypeOK, NoPulseTwice
  <2> QED BY <1>1, <2>1 DEF NoPulseTwice
<1>4. powered' = TRUE /\ mclk' = FALSE /\ counting' = FALSE
  BY DEF Reboot
<1>5. powered' \in BOOLEAN /\ mclk' \in BOOLEAN /\ counting' \in BOOLEAN /\ powered'
  BY <1>4
<1> QED BY <1>1, <1>2, <1>3, <1>5 DEF NanoInv, NanoTypeOK, ClockBeforeWaiting

\* setup()
LEMMA SetupStep ==
  ASSUME NanoInv, StartMclk \/ BeginSerial \/ StartFrequencyCounter
  PROVE  NanoInv'
<1>1. NanoTypeOK /\ ClockBeforeWaiting /\ (~powered => ~mclk) /\ NoPulseTwice
  BY DEF NanoInv
<1>2. CASE StartMclk
  BY <1>1, <1>2, RebootStep
     DEF StartMclk, AfterMclk, NanoInv, NanoTypeOK, ClockBeforeWaiting, NoPulseTwice
<1>3. CASE BeginSerial
  BY <1>1, <1>3 DEF BeginSerial, AfterSerial, NanoInv, NanoTypeOK, ClockBeforeWaiting, NoPulseTwice
<1>4. CASE StartFrequencyCounter
  <2>1. CASE Reboot
    BY <2>1, RebootStep
  <2>2. CASE ~Reboot
    <3>1. /\ step = "counter" /\ step' = "gate" /\ held' = 0 /\ counting' = TRUE
          /\ UNCHANGED <<powered, mclk, count, printed, total, shown>>
      BY <1>4, <2>2 DEF StartFrequencyCounter
    <3>2. counting' \in BOOLEAN
      BY <3>1
    <3>3. ClockBeforeWaiting' /\ (~powered => ~mclk)'
      BY <1>1, <3>1 DEF ClockBeforeWaiting
    <3>4. held' \in 0..MaxGates /\ NoPulseTwice'
      BY <1>1, <3>1, NanoAssumption DEF NanoAssumption, NanoTypeOK, NoPulseTwice
    <3> QED BY <1>1, <3>1, <3>2, <3>3, <3>4 DEF NanoInv, NanoTypeOK
  <2> QED BY <2>1, <2>2
<1> QED BY <1>2, <1>3, <1>4

\* loop()
LEMMA LoopStep ==
  ASSUME NanoInv, Gate \/ ReadCount \/ ClearCount
  PROVE  NanoInv'
<1>1. /\ NanoTypeOK /\ ClockBeforeWaiting /\ NoPulseTwice /\ step \in {"gate", "read", "clear"}
      /\ powered /\ mclk /\ MaxGates \in Nat
      /\ step = "clear" => count = held
  BY NanoAssumption
     DEF NanoAssumption, NanoInv, NanoTypeOK, ClockBeforeWaiting, Gate, ReadCount, ClearCount
<1>2. UNCHANGED <<powered, mclk, counting>> /\ step' \in {"gate", "read", "clear"}
  BY DEF Gate, ReadCount, ClearCount, SoftFail
<1>3. CASE Gate
  <2>1. held + 1 <= MaxGates /\ total + 1 <= MaxGates
    BY <1>1, <1>3 DEF Gate, NoPulseTwice, NanoTypeOK
  <2> QED BY <1>1, <1>2, <1>3, <2>1 DEF Gate, NanoInv, NanoTypeOK, ClockBeforeWaiting, NoPulseTwice
<1>4. CASE ReadCount
  BY <1>1, <1>2, <1>4 DEF ReadCount, SoftFail, NanoInv, NanoTypeOK, ClockBeforeWaiting, NoPulseTwice
<1>5. CASE ClearCount
  <2>1. shown + count <= total /\ total <= MaxGates
    BY <1>1, <1>5 DEF ClearCount, NoPulseTwice, NanoTypeOK
  <2> QED BY <1>1, <1>2, <1>5, <2>1
        DEF ClearCount, ShowReading, SoftFail, NanoInv, NanoTypeOK, ClockBeforeWaiting, NoPulseTwice
<1> QED BY <1>3, <1>4, <1>5

\* The supply
LEMMA SupplyStep ==
  ASSUME NanoInv, Brownout \/ PowerUp
  PROVE  NanoInv'
<1>1. CASE Brownout
  BY <1>1 DEF Brownout, NanoInv, NanoTypeOK, ClockBeforeWaiting, NoPulseTwice
<1>2. CASE PowerUp
  BY <1>2, RebootStep DEF PowerUp
<1> QED BY <1>1, <1>2

\* The inductive invariant holds in every reachable state.
THEOREM NanoInvariant == NanoSpec => []NanoInv
<1>1. NanoInit => NanoInv
  <2> SUFFICES ASSUME NanoInit PROVE NanoInv
    OBVIOUS
  <2>1. /\ step = "mclk" /\ held = 0 /\ count = 0 /\ printed = 0 /\ total = 0 /\ shown = 0
        /\ MaxGates \in Nat
    BY NanoAssumption DEF NanoAssumption, NanoInit, FirstStep
  <2>2. powered = TRUE /\ mclk = FALSE /\ counting = FALSE
    BY DEF NanoInit
  <2>3. powered \in BOOLEAN /\ mclk \in BOOLEAN /\ counting \in BOOLEAN /\ powered
    BY <2>2
  <2> QED BY <2>1, <2>3 DEF NanoInv, NanoTypeOK, ClockBeforeWaiting, NoPulseTwice
<1>2. ASSUME NanoInv, [NanoNext]_nanoVars
      PROVE  NanoInv'
  <2>1. CASE UNCHANGED nanoVars
    BY <1>2, <2>1 DEF nanoVars, NanoInv, NanoTypeOK, ClockBeforeWaiting, NoPulseTwice
  <2> QED BY <1>2, <2>1, SetupStep, LoopStep, SupplyStep DEF NanoNext
<1> QED BY <1>1, <1>2, PTL DEF NanoSpec

\* Every variable keeps its type: no count exceeds the windows there were.
THEOREM CountsAreBounded == NanoSpec => []NanoTypeOK
<1>1. NanoInv => NanoTypeOK
  BY DEF NanoInv
<1> QED BY <1>1, NanoInvariant, PTL

\* The clock is on before the sketch blocks anywhere.
THEOREM ClockComesFirst == NanoSpec => []ClockBeforeWaiting
<1>1. NanoInv => ClockBeforeWaiting
  BY DEF NanoInv
<1> QED BY <1>1, NanoInvariant, PTL

\* No window's pulses are printed twice.
THEOREM PulsesPrintedOnce == NanoSpec => []NoPulseTwice
<1>1. NanoInv => NoPulseTwice
  BY DEF NanoInv
<1> QED BY <1>1, NanoInvariant, PTL

\* In loop() the clock goes on as long as there is power.
THEOREM ClockKeepsRunning == NanoSpec => LoopKeepsClock
<1>1. ASSUME NanoInv, [NanoNext]_nanoVars, powered', step \in {"gate", "read", "clear"}
      PROVE  mclk' = mclk
  <2>1. CASE PowerUp
    BY <1>1, <2>1 DEF PowerUp, Reboot, NanoInv, NanoTypeOK
  <2>2. CASE ~PowerUp
    BY <1>1, <2>2 DEF NanoNext, nanoVars, StartMclk, BeginSerial, StartFrequencyCounter, Gate,
      ReadCount, ClearCount, SoftFail, Brownout
  <2> QED BY <2>1, <2>2
<1>2. NanoInv /\ [NanoNext]_nanoVars =>
        [powered' /\ step \in {"gate", "read", "clear"} => mclk' = mclk]_nanoVars
  BY <1>1
<1> QED BY <1>2, NanoInvariant, PTL DEF NanoSpec, LoopKeepsClock
=============================================================================
