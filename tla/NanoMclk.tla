------------------------------ MODULE NanoMclk ------------------------------
(***************************************************************************)
(* The Nano ESP32 sketch (src/esp32-mclk/esp32-mclk.ino): it starts the    *)
(* 12.288 MHz master clock, then measures it once a second with a pulse    *)
(* counter.  A call inside ESP_ERROR_CHECK that fails reboots the board,   *)
(* and with it stops the clock.  A count is modelled by the number of      *)
(* one-second gate windows whose pulses it holds.                          *)
(***************************************************************************)
EXTENDS Integers

CONSTANT MaxGates   \* bound of the model: gate windows since power-on

ASSUME NanoAssumption == MaxGates \in Nat

VARIABLES
  step,      \* "mclk", "serial", "counter" (setup); "gate", "read", "clear" (loop)
  powered,   \* does the USB or Pi supply hold the board up?
  mclk,      \* is the clock on the pin?
  counting,  \* is the pulse counter running?
  held,      \* gate windows in the counter
  count,     \* what pcnt_unit_get_count returned, in windows
  printed,   \* the last frequency printed, in windows (0: none yet)
  total,     \* history: all gate windows counted so far
  shown      \* history: sum of everything printed

nanoVars == <<step, powered, mclk, counting, held, count, printed, total, shown>>

FirstStep_BugSerial == "serial"
FirstStep == "mclk"
AfterMclk == "serial"
AfterSerial == "counter"

NanoInit ==
  /\ step = FirstStep
  /\ powered = TRUE
  /\ mclk = FALSE /\ counting = FALSE
  /\ held = 0 /\ count = 0 /\ printed = 0 /\ total = 0 /\ shown = 0

\* The state after a panic or a reset: setup() starts over, the clock is off.
Reboot ==
  /\ step' = FirstStep
  /\ powered' = TRUE
  /\ mclk' = FALSE
  /\ counting' = FALSE
  /\ held' = 0
  /\ count' = 0
  /\ UNCHANGED <<printed, total, shown>>

-----------------------------------------------------------------------------
(* setup() *)

\* ESP_ERROR_CHECK around every call of StartMclk.
StartMclk ==
  /\ powered
  /\ step = "mclk"
  /\ \/ /\ mclk' = TRUE
        /\ step' = AfterMclk
        /\ UNCHANGED <<powered, counting, held, count, printed, total, shown>>
     \/ Reboot

\* Serial.begin and the two-second wait for a monitor to attach.
BeginSerial ==
  /\ powered
  /\ step = "serial"
  /\ step' = AfterSerial
  /\ UNCHANGED <<powered, mclk, counting, held, count, printed, total, shown>>

\* ESP_ERROR_CHECK around every call of StartFrequencyCounter.
StartFrequencyCounter ==
  /\ powered
  /\ step = "counter"
  /\ \/ /\ counting' = TRUE
        /\ held' = 0
        /\ step' = "gate"
        /\ UNCHANGED <<powered, mclk, count, printed, total, shown>>
     \/ Reboot

-----------------------------------------------------------------------------
(* loop(): every failure returns, to start over with the next window. *)

\* delay(1000): one more window of pulses accumulates (accum_count folds the
\* 16-bit counter's overflows together).
Gate ==
  /\ powered
  /\ step = "gate"
  /\ total < MaxGates
  /\ held' = held + 1
  /\ total' = total + 1
  /\ step' = "read"
  /\ UNCHANGED <<powered, mclk, counting, count, printed, shown>>

\* A failing call in loop() is reported and the function returns.
SoftFail_BugErrorCheck == Reboot
SoftFail ==
  /\ step' = "gate"
  /\ UNCHANGED <<powered, mclk, counting, held, count, printed, total, shown>>

ReadCount ==
  /\ powered
  /\ step = "read"
  /\ \/ /\ count' = held
        /\ step' = "clear"
        /\ UNCHANGED <<powered, mclk, counting, held, printed, total, shown>>
     \/ SoftFail

\* Serial.printf("Measured MCLK: ...", count / 1.0e6)
ShowReading ==
  /\ printed' = count
  /\ shown' = shown + count

\* The count goes on the serial line only if the counter could be cleared.
ClearCount_BugPrintsAnyway ==
  /\ powered
  /\ step = "clear"
  /\ \/ held' = 0
     \/ held' = held
  /\ ShowReading
  /\ step' = "gate"
  /\ UNCHANGED <<powered, mclk, counting, count, total>>

ClearCount ==
  /\ powered
  /\ step = "clear"
  /\ \/ /\ held' = 0
        /\ ShowReading
        /\ step' = "gate"
        /\ UNCHANGED <<powered, mclk, counting, count, total>>
     \/ SoftFail

-----------------------------------------------------------------------------
(* The supply *)

\* The supply drops: the clock stops with it.
Brownout ==
  /\ powered
  /\ powered' = FALSE
  /\ mclk' = FALSE
  /\ UNCHANGED <<step, counting, held, count, printed, total, shown>>

PowerUp ==
  /\ ~powered
  /\ Reboot

NanoNext == StartMclk \/ BeginSerial \/ StartFrequencyCounter
        \/ Gate \/ ReadCount \/ ClearCount
        \/ Brownout \/ PowerUp

NanoSpec == NanoInit /\ [][NanoNext]_nanoVars

-----------------------------------------------------------------------------
(* Properties *)

NanoTypeOK ==
  /\ step \in {"mclk", "serial", "counter", "gate", "read", "clear"}
  /\ powered \in BOOLEAN /\ mclk \in BOOLEAN /\ counting \in BOOLEAN
  /\ held \in 0..MaxGates /\ count \in 0..MaxGates /\ printed \in 0..MaxGates
  /\ total \in 0..MaxGates /\ shown \in 0..MaxGates

\* The clock is on before the sketch blocks anywhere: no silent window after a
\* reset but the start of the clock itself (ino:110-113).
ClockBeforeWaiting == powered /\ step # "mclk" => mclk

\* Whatever the counter does in loop(), a powered board keeps its clock running
\* (ino:130-132).
LoopKeepsClock ==
  [][powered' /\ step \in {"gate", "read", "clear"} => mclk' = mclk]_nanoVars

\* No pulse is reported twice: a window's pulses appear in one printed line at
\* most, however reads and clears fail in between.
NoPulseTwice == shown + held <= total

\* The inductive invariant.  What is shown is what was read, and stays in the
\* counter until the clear; a board without power has no clock.
NanoInv ==
  /\ NanoTypeOK
  /\ ClockBeforeWaiting
  /\ ~powered => ~mclk
  /\ NoPulseTwice
  /\ step = "clear" => count = held
=============================================================================
