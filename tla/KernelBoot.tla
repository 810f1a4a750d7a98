----------------------------- MODULE KernelBoot -----------------------------
(***************************************************************************)
(* CKernel (src/src/kernel.cpp) from main() to its main loop, and the      *)
(* start of the three worker cores (CAppCores::Run, src/src/cores.cpp).    *)
(* Peripherals may be absent or fail; what must not depend on them is the  *)
(* heartbeat, the fan and the workers.                                     *)
(***************************************************************************)
EXTENDS Integers

CONSTANTS
  Temps,      \* SoC temperatures the sensor may read, in degrees C
  TripTemp    \* socmaxtemp: where the fan goes on

ASSUME BootAssumption == Temps \subseteq Nat /\ TripTemp \in Nat

Workers == 1..3
Optional == {"logdev", "screen", "serial"}             \* hardware or option present
Fatal == {"logger", "interrupt", "timer", "cores"}     \* Initialize may return FALSE
LoopsPerBurst == 10

VARIABLES
  pc,         \* core 0
  present,    \* what is attached or named on the command line
  broken,     \* what fails to initialize or start
  up,         \* m_bScreenOK, m_bSerialOK, m_bAudioOK
  target,     \* the log target
  flag,       \* m_nStartFlag
  core,       \* cores 1-3: "off", "hold" (WaitForStart), "work"
  nLoop,      \* modulo LoopsPerBurst
  nTemp,      \* the reading of this cycle
  blinks,     \* quick blinks of the current burst
  fan         \* the Active Cooler, driven by CCPUThrottle

world == <<present, broken>>
boot == <<up, target, flag, core>>
loopVars == <<nLoop, nTemp, blinks, fan>>
vars == <<pc, world, boot, loopVars>>

\* The CCPUThrottle constructor drives the fan on.
FanAtPowerOn == TRUE

Init ==
  /\ pc = "screen"
  /\ present \in SUBSET Optional
  /\ broken \in SUBSET (Fatal \cup {"audio"})
  /\ up = {}
  /\ target = "none"
  /\ flag = 0
  /\ core = [c \in Workers |-> "off"]
  /\ nLoop = 0 /\ nTemp = 0 /\ blinks = 0
  /\ fan = FanAtPowerOn

Goto(from, to) == pc = from /\ pc' = to

-----------------------------------------------------------------------------
(* Initialize *)

\* Screen and serial: remember what worked, move on.
TryOptional(d, from, to) ==
  /\ Goto(from, to)
  /\ up' = IF d \in present THEN up \cup {d} ELSE up
  /\ UNCHANGED <<world, target, flag, core, loopVars>>

\* An Initialize that fails makes main() halt.
MustInit(d, from, to) ==
  /\ pc = from
  /\ pc' = IF d \in broken THEN "halted" ELSE to

Target ==
  IF "logdev" \in present THEN "logdev"
  ELSE IF "screen" \in up THEN "screen"
  ELSE IF "serial" \in up THEN "serial" ELSE "null"

InitLogger ==
  /\ MustInit("logger", "logger", "interrupt")
  /\ target' = Target
  /\ UNCHANGED <<world, up, flag, core, loopVars>>

InitInterrupt == MustInit("interrupt", "interrupt", "timer") /\ UNCHANGED <<world, boot, loopVars>>
InitTimer == MustInit("timer", "timer", "cores") /\ UNCHANGED <<world, boot, loopVars>>

\* Last: launches cores 1-3, before the audio device is started.
InitCores ==
  /\ MustInit("cores", "cores", "audio")
  /\ core' = IF "cores" \in broken THEN core ELSE [c \in Workers |-> "hold"]
  /\ UNCHANGED <<world, up, target, flag, loopVars>>

-----------------------------------------------------------------------------
(* Run *)

\* A dead audio engine does not stop the boot.
AfterAudio_BugGates == IF "audio" \in broken THEN "halted" ELSE "release"
AfterAudio == "release"
StartAudio ==
  /\ Goto("audio", AfterAudio)
  /\ up' = IF "audio" \in broken THEN up ELSE up \cup {"audio"}
  /\ UNCHANGED <<world, target, flag, core, loopVars>>

ReleaseFlag_BugOnlyIfAudio == IF "audio" \in up THEN 1 ELSE 0
ReleaseFlag == 1
StartWorkers ==
  /\ Goto("release", "update")
  /\ flag' = ReleaseFlag
  /\ UNCHANGED <<world, up, target, core, loopVars>>

\* CCPUThrottle::Update, which may fail and leave the fan as it is.  The
\* hysteresis of the fan is 5 degrees.
Update ==
  /\ Goto("update", "beat")
  /\ nTemp' \in Temps
  /\ fan' \in {fan, IF nTemp' >= TripTemp THEN TRUE
                    ELSE IF nTemp' < TripTemp - 5 THEN FALSE ELSE fan}
  /\ UNCHANGED <<world, boot, nLoop, blinks>>

Band(t) ==
  IF t < 40 THEN 1 ELSE IF t < 50 THEN 2 ELSE IF t < 60 THEN 3
  ELSE IF t < 70 THEN 4 ELSE IF t < 80 THEN 5 ELSE 6

\* One long blink; every tenth cycle a burst follows.
Beat ==
  /\ pc = "beat"
  /\ IF nLoop = LoopsPerBurst - 1 THEN pc' = "burst" /\ nLoop' = nLoop
                                  ELSE pc' = "update" /\ nLoop' = nLoop + 1
  /\ blinks' = 0
  /\ UNCHANGED <<world, boot, nTemp, fan>>

MoreBlinks_BugExtra == blinks <= Band(nTemp)
MoreBlinks == blinks < Band(nTemp)
BurstBlink ==
  /\ pc = "burst"
  /\ MoreBlinks
  /\ blinks' = blinks + 1
  /\ UNCHANGED <<pc, world, boot, nLoop, nTemp, fan>>

BurstEnd ==
  /\ Goto("burst", "update")
  /\ ~MoreBlinks
  /\ nLoop' = 0
  /\ UNCHANGED <<world, boot, nTemp, blinks, fan>>

Core0 ==
  \/ TryOptional("screen", "screen", "serial")
  \/ TryOptional("serial", "serial", "logger")
  \/ InitLogger \/ InitInterrupt \/ InitTimer \/ InitCores
  \/ StartAudio \/ StartWorkers \/ Update \/ Beat \/ BurstBlink \/ BurstEnd

-----------------------------------------------------------------------------
(* Cores 1-3: WaitForStart, then a loop that never returns. *)

Released_BugAtOnce(c) == TRUE
Released(c) == flag = 1
Work(c) ==
  /\ core[c] = "hold"
  /\ Released(c)
  /\ core' = [core EXCEPT ![c] = "work"]
  /\ UNCHANGED <<pc, world, up, target, flag, loopVars>>

Next == Core0 \/ \E c \in Workers : Work(c)

\* Every core runs; nothing blocks but the wait for the flag.
Spec == Init /\ [][Next]_vars /\ WF_vars(Core0) /\ \A c \in Workers : WF_vars(Work(c))

-----------------------------------------------------------------------------
(* Properties *)

TypeOK ==
  /\ pc \in {"screen", "serial", "logger", "interrupt", "timer", "cores", "audio",
             "release", "update", "beat", "burst", "halted"}
  /\ up \subseteq {"screen", "serial", "audio"}
  /\ target \in {"none", "null"} \cup Optional
  /\ flag \in {0, 1} /\ core \in [Workers -> {"off", "hold", "work"}]
  /\ nLoop \in 0 .. LoopsPerBurst - 1 /\ nTemp \in Nat /\ blinks \in 0..6 /\ fan \in BOOLEAN

\* No worker touches the ring or the logger while core 0 is still bringing up
\* the audio device (cores.h:14-18, kernel.cpp:95-98).
WorkersHold ==
  (\E c \in Workers : core[c] = "work") => pc \in {"update", "beat", "burst"}

\* The inductive invariant: the flag is up in the main loop only.
BootInv ==
  /\ TypeOK
  /\ flag = 1 => pc \in {"update", "beat", "burst"}
  /\ WorkersHold

\* Past its initialization the logger writes to something that is there, and to
\* the null device only when nothing is (kernel.cpp:62-76).
LogsSomewhere ==
  pc \notin {"screen", "serial", "logger", "halted"} =>
    IF present = {} THEN target = "null" ELSE target \in present

\* Inductive: m_bScreenOK and m_bSerialOK say what is there once it was tried.
LogInv ==
  /\ pc \in {"screen", "serial"} => "serial" \notin up
  /\ pc = "screen" => "screen" \notin up
  /\ pc # "screen" => ("screen" \in up <=> "screen" \in present)
  /\ pc \notin {"screen", "serial"} => ("serial" \in up <=> "serial" \in present)
  /\ present \subseteq Optional
  /\ LogsSomewhere

\* Headless-safe (kernel.h:18-20): with every optional part missing and audio
\* dead, the thermal loop and the temperature bursts still go on for ever, and
\* whatever there is to log to is found.
HeadlessSafe ==
  (broken \cap Fatal = {}) =>
    []<>(pc = "update") /\ []<>(pc = "burst") /\ []LogsSomewhere

\* Workers tolerate a dead audio engine: once launched they all get to work
\* (kernel.cpp:143-146).
WorkersRun ==
  \A c \in Workers : core[c] = "hold" ~> core[c] = "work"
=============================================================================
