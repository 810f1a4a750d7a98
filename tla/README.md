# Formal models of guitardawliteos

TLA+ models, model-checking runs and machine-checked proofs for the bare-metal
guitar recorder in this repository: a Raspberry Pi 5 kernel on the Circle
framework that captures a guitar over I2S, plays it back at once as a monitor
signal, and broadcasts it to worker cores; an ESP32 sketch that feeds the codec
its master clock; the script that builds the kernel; and the scripts that
generate the netlist of its carrier board and check the board against it.

Paths below are relative to the repository; `ringbuffer.h:126` is short for
`src/ringbuffer.h`, line 126, and so on for the files of `src/`.

## 1. Inventory

| Component | State it keeps | Operations | Talks to |
|---|---|---|---|
| **Capture ring** `ringbuffer.h` (`CBroadcastRing`) | `m_nReserve`, `m_nCommit`, 2^20 words of payload; one cursor and two counters per reader (`TReader`) | `Write` (interrupt, core 0); `InitReader`, `Available`, `Read` (one reader per core) | written by the audio engine, read by the workers; shared memory, no locks |
| **Audio engine** `audioengine.cpp/.h` | monitor FIFO (8 chunks) with head and tail, four frame counters | `PutChunk` (RX DMA done), `GetChunk` (TX DMA refill), `InitializeAndStart` | called by Circle's I2S driver under its spinlock; calls `Write` |
| **Worker cores** `cores.cpp/.h`, `audiostats.h` | a `TReader` per worker, a meter window, `TAudioStats` (relaxed atomics), the start flag | `AnalysisLoop` (core 1), `StorageLoop` (core 2), `StatsLoop` (core 3), `WaitForStart`, `StartWorkers` | ring, `TAudioStats`, the audio engine's counters, logger |
| **Kernel and boot** `kernel.cpp/.h`, `main.cpp` | what came up (`m_bScreenOK`, `m_bSerialOK`, `m_bAudioOK`), log target, thermal loop | `Initialize`, `Run`, blink and fan control | everything above; Circle's devices |
| **MCLK generator** `esp32-mclk/esp32-mclk.ino` | clock on/off, pulse counter | `setup`, `loop` | ESP-IDF drivers; no link to the Pi but the clock wire |
| **Build script** `scripts/build.sh`, `src/Makefile` | `Config.mk`, the toolchain stamp, object and dep files | configure, `ensure_define`, clean, make, size guard, stage | Circle's makefiles |
| Host tests `tests/` | - | a stress test of the ring under sanitizers | ring |
| **PCB generator and checks** `kicad/*.py` | the tables `COMP` and `NETS`; three artifacts on disk per revision; the board file | `gen.py` (rev-B pivot, ERC, write), `test_rev.py`, `validate.py`, `check_pcb.py`, `render_pcb.py` | a developer who edits the tables, git, KiCad |
| Debug, SD and board documents | configuration data | - | - |
| Circle driver and framework | external to this repository | calls back `PutChunk`, `GetChunk` | audio engine, kernel |
| Boot self-check `docs/boot-selfcheck.md` | a proposal, not implemented | - | - |

What makes each of them correct, and what is hard about it:

* **Capture ring.** Readers copy payload while the interrupt overwrites it.
  `Read` must never return a word that is not the one at its cursor, must count
  every loss, and must keep the stereo phase. The difficulties are the
  word-by-word interleaving of a copy with several Writes, the two indices
  (announce before, publish after the payload), the retry loop, the boundary at
  exactly one ring of distance, unsigned subtraction of cursors, and a weakly
  ordered CPU. The host test samples interleavings; `run-tests.sh:11-13` says
  that TSan does not verify the strength of the fences.
* **Audio engine.** RX and TX completions come in an order the driver chooses.
  The FIFO must lose only its oldest words, only when full, in whole frames, and
  count them. The difficulties are the overflow arithmetic, short refills, and
  what a startup phase skew, in either direction, costs in silence and latency.
* **Workers.** `Available` and `Read` are two calls with a lap possible in
  between; counters are published by one core in separate stores and read by
  another; the peak is a read-modify-write on one core and a load-and-clear on
  another.
* **Kernel.** Every optional device may be missing, audio may be dead, and the
  fan and heartbeat must not care. The worker cores start before audio does.
* **MCLK.** A failing diagnostic call must not take the clock down; a failed
  clear must not count pulses twice.
* **Build script.** A cache of compiled objects whose validity is tracked in
  shell variables: interrupting the script or editing `Config.mk` by hand lies
  outside what the stamp and the `grep` can see, and a failing clean goes unnoticed.
* **PCB scripts.** Each script is sequential; what is hard is their history. The
  tables are edited, `gen.py` writes three files one after another and may die in
  between, the rev-B pivot patches whatever the tables have become, and
  `test_rev.py` judges files that its own run overwrites. The board is imported
  once, edited by hand in KiCad and read back by a parser that takes an
  unfinished file without complaint. The artifacts must agree with each other and
  with their revision, and the gates must neither pass a wrong board nor turn
  down a right one.

`PROJECT.json` lists the hazards one by one, at their lines, with the properties
aimed at each.

## 2. Modules

| Module | Models | Correspondence |
|---|---|---|
| `CaptureRing` | `CBroadcastRing`, sequentially consistent | one action per shared access of `Write` (reserve, each word, commit) and of an attempt of `Read` (lap check, head load, each word, revalidation) |
| `BroadcastStream` | *abstract*: what the ring promises | readers get consecutive words; words are lost in counted laps only |
| `RingOrdering` | the same code under the C11 memory model | each load picks any store it may legally return; fences, ACQUIRE and RELEASE move views |
| `CaptureRingProofs`, `RingOrderingProofs`, `WorkersProofs`, `BuildCacheProofs`, `NetlistFlowProofs`, `BoardCheckProofs` | proofs about the module in their name | section 5 |
| `MonitorProofs` | proofs about `AudioEngine` and `MonitorLatency` | section 5 |
| `PeripheralProofs` | proofs about `KernelBoot`, `PeakMeter` and `NanoMclk` | section 5; it extends all three, so two of them name their specification after themselves (`MeterSpec`, `NanoSpec`) |
| `Workers` | `AnalysisLoop` and `StorageLoop` | extends `CaptureRing`: every step of a `Read` in a loop is a step of the ring |
| `PeakMeter` | the level meter of core 1 and the report of core 3 | each access to `nPeakAbs24` is a step |
| `AudioEngine` | `PutChunk`, `GetChunk` | one action per callback: the driver's spinlock serializes them (`audioengine.h:12-14`) |
| `MonitorQueue` | *abstract*: what the monitor path promises | a queue that keeps the newest `Limit` words and fills up with silence |
| `MonitorLatency` | the driver's schedule | steady: RX and TX alternate, after one of them has been running alone for a startup skew; otherwise completions come in any order |
| `KernelBoot` | `main`, `CKernel::Initialize`, `Run`, the start of the cores | one action per initialization step; what is present and what fails is chosen at power-on |
| `NanoMclk` | `setup` and `loop` of the sketch | each ESP-IDF call may fail; `ESP_ERROR_CHECK` is a reboot |
| `BuildCache` | the default target and `--libs` of `build.sh` | one action per numbered step of the script, one per thing a developer does between runs |
| `BoardDesign` | `gen.py` up to its first write: the tables, `apply_rev_b`, `erc` | operators: a design is a pair of tables, the pivot maps designs to designs |
| `NetlistFlow` | `gen.py`'s `main`, `test_rev.py`, `validate.py`'s `check_netlist` | extends `BoardDesign`: one action per artifact written, one each for the start and the end of a test run, and for what a developer does in between (edit, interrupt, `git checkout`) |
| `BoardCheck` | `render_pcb.py`'s `parse`, `load` and ratsnest, `check_pcb.py` | extends `BoardDesign`: a board imported into KiCad, hand edits, a save; one action for `load`, one per line the ratsnest draws |
| `MCCaptureRing`, `MCWorkers` | instances for TLC | give values to readers and request sizes |

Modelling decisions that matter:

* **A word is its index.** The ring and the FIFO never look into a word, so its
  payload is its absolute position in the stream, the integrity scheme of
  `tests/ringbuffer_test.cpp`. A torn, stale or repeated word is then visible as
  a wrong number.
* **64-bit cursors are integers.** They start at zero and count words; 2^64
  words at 96 kHz are out of reach. What does wrap is a subtraction with a
  negative result; where the code subtracts, a property says that it cannot
  be negative (`CursorBehindHead`, `FifoBounded`), and `Request` in `CaptureRing`
  models the huge value the code would see.
* **`Write` is not blocked by readers in the model either**: the writer's
  guards mention only the writer's own state and the bound `MaxStream`.
* **`InitReader`** leaves the counters of the `TReader` alone in the model: they
  are the zeroes it stores, and it is called once.
* **The tables are a slice** of `COMP` and `NETS`: the parts `apply_rev_b` touches,
  and a load on the 5 V rail. One pin stands for those that share its fate (the
  LDO for itself and its two capacitors, mode pin MD0 for MD1, one ground pin of
  the Nano header for both). Nothing in `gen.py` depends on how many there are.
* **What an artifact says, not its text.** `NetlistFlow` keeps for each file what a
  reader gets out of it and whether it was written to its end. `BoardCheck` keeps
  the tokens of the board file, since what a truncated text parses to is the
  question there.
* **KiCad** is not in the repository. What it saves is modelled from what
  `load()` expects (`render_pcb.py:94`), in both formats; the import is modelled from
  what `check_pcb.py` compares with. It is complete; one that silently loses a part,
  as rev A's trimmer was lost (`docs/kicad-gui-review-2026-07-28.md:36-39`), gives
  the board that `DeleteFootprint` leaves, which `check_pcb.py` must turn down
  (`CheckedBoardIsDesign`). `FreshBoardPasses` is about complete imports.
* **Operators called `X_Bug...`** are `X` with a plausible bug. Nothing uses them
  in the specification: they document, for each property, a bug in the code that
  the property would find, and `PROJECT.json` ("mutants") pairs them up.

## 3. Runs

| Run | Question | Bounds, and why they are enough |
|---|---|---|
| `ring_two` | Two readers and a writer that laps them, one shared access at a time: are reads exact, losses counted, and is the ring the stream it promises? | Ring of 4 words, writes of 1, 2 and 4 (the whole ring, the largest legal Write), 8 words captured: two full laps, which is the longest wrap-around a cursor can be confused by. Readers ask for 2 and 3 words, so that requests are shorter, equal to and longer than what is there, and wrap over the end. Two attempts reach both the retry and the give-up path. The proofs lift every one of these bounds. |
| `ordering` | Does the code survive the reordering C11 allows? | Ring of 8, Writes of 2, 10 Writes: two and a half laps. One reader: writer and other readers read nothing a reader stores. |
| `workers` | Do the two loops drain whole blocks, keep channels, publish honest counters and see all laps in the end? | Stereo-aligned ring of 8 with writes of 2 and blocks of 4, 12 words, one attempt: a storage reader lapped during its copy gives up and returns nothing, and the loops have to recover from that. The retry inside `Read` is in `ring_two`. |
| `monitor` | Is the FIFO a drop-oldest queue whatever the order of callbacks, what does a startup skew in either direction cost in silence and in latency? | FIFO of 8 words, chunks of 2, 4 and 6 in any order and in steady alternation with RX up to 3 chunks early (the most that fits) or TX up to 2 (`MaxPriming`; hardware shows 1); 12 frames wrap the FIFO three times. |
| `meter` | Is the reported percentage in range, and is a cleared peak gone for good? | 8-bit samples in 12-bit words (`HALF_RANGE` = 128, `SHIFT` = 16), with zero, small, largest, most negative, -1, and words with junk above the sample; windows of 2 frames, 3 windows |
| `meter_lost_peak` | Does every closed window reach a status line? *(No.)* | as `meter` |
| `boot` | With any subset of devices missing or failing: order of start, fan control, heartbeat, workers | All 8 x 32 combinations; temperatures on both sides of the first band, of the fan's trip point and of its hysteresis |
| `nano` | Is the clock on before anything waits, does a failing counter leave it on, is no pulse counted twice? | 6 gate windows; every call may fail at any time, and power may drop |
| `build` | Is what is staged coherent and does it fit, unless a run was interrupted or a limit raised by hand? | 2 compilers, 2 kernel sizes, 3 limits; interrupts, edits and failures of `make clean` in `src/` allowed |
| `netlist` | Are the artifacts on disk sound, of their revision and of one mind, whatever was edited and interrupted, and what is a passing `test_rev.py` worth? | `MaxEdits` = 2: edits take out, add or move a node, drop a net or a part, take away a footprint, change the pins of a part, so two of them make any pair of slips; `MaxStops` = 1 interrupted run, after which the next run sees a torn set. Nodes that an edit adds are those the pivot moves. |
| `test_head` | Does a passing `test_rev.py` mean that git sees no change? *(No.)* | `MaxEdits` = 1, `MaxStops` = 0 |
| `board` | Does `check_pcb.py` pass the boards of the tables and no others, what does it make of a truncated file, and does the ratsnest reach every pad? | `MaxTouches` = 2 hand edits (two can cancel out, or hide one another in a count); both revisions and file formats; every point at which the save of an untouched board can stop; a second design with a net of one node |

What the properties say:

* *Capture ring*: `NoTornRead` (what `Read` returned is exactly the words before
  the cursor), `LapsCostAQuarter` (each counted overrun moved the cursor over
  more than a quarter of the ring), `DiscardsAreLaps` (a discarded copy is a real
  lap, counted by the next check), `ImplementsStream` (refinement). `workers` adds `ChannelAligned` (left
  stays at even indices across laps and short reads) and `CursorBehindHead` (no
  cursor passes the published head, so `Available` cannot wrap).
* *Memory model*: `NoTornReadWeak` and `AvailableCannotWrapWeak`. The second one
  holds only where two Writes fit into what a lap leaves of the ring
  (`TwoWritesFit`; in the code two chunks of 32 words against three quarters of
  2^20), and rests on the ACQUIRE of the lap check.
* *Workers*: `WholeBlocks`, `CountersAreHonest`, and the liveness properties
  `LapsReported` and `WorkersDrain`.
* *Monitor*: `FramesAddUp`, `ChannelsKept`, `StarvesOnlyPriming` (on a steady clock
  nothing is dropped, and what starves is what TX played before RX's first
  chunk, once), `WaitsForSkew` (every refill on a steady clock is silent until RX
  has produced, and then hands out exactly the words that are one chunk plus the
  chunks TX started late old) and `ImplementsQueue` (refinement).
* *Meter*: `PercentInRange`, `NoStalePeak`.
* *Boot*: `WorkersHold`, `HeadlessSafe` (the main loop goes on, and logs to whatever
  is there), `WorkersRun`.
* *Nano*: `ClockBeforeWaiting`, `NoPulseTwice`, `LoopKeepsClock`.
* *Build*: `CoherentUnlessDisturbed`, `FitsUnlessDisturbed`, `NoStaleDeps`,
  `GuardReadsItsLimit`.
* *Netlist*: `NetlistSound` (a whole netlist passes `check_netlist` and lists no pin
  twice), `PivotSurvivesEdits` (a rev-B netlist has the pivot, whatever the tables
  were), `ArtifactsAgree` (netlist, symbols and BOM are of one run unless the last
  was interrupted), `TestVouches`, `RevAUntouched`.
* *Board*: `CheckedBoardIsDesign` (no wrong board passes), `FreshBoardPasses` (no
  right board is turned down, and none passes for the other revision),
  `CutLoadsNothing`, `RatsnestSpans`.

### Where code and text disagree

1. **Lost peaks** (`meter_lost_peak`). `cores.cpp:151-152` loads the peak and
   stores zero as two accesses; a window closed in between is cleared unread.
2. **The test heals itself** (`test_head`). `test_rev.py:40` says it confirms that
   "git sees no change". It compares the files with themselves before its own
   run: after one run of `gen.py` on edited tables, or after a first failing run
   of the test, it passes on artifacts that are not the committed ones. What a
   pass does mean is `TestVouches`: the artifacts are what the tables give, and
   revision B generates.

Observations without a run of their own:

* *Latency.* `config.h:37-38` budgets at most one chunk of waiting between RX and
  TX. The FIFO gives out its oldest chunk, so a TX that starts k chunks late, which
  `config.h:60-62` says the FIFO absorbs, has k chunks more of latency for the whole
  session. `WaitsForSkew` states the latency there is.
* *Priming.* A TX that starts k chunks early costs k chunks of silence instead
  (`audioengine.cpp:67-72`) and no latency. `StarvesOnlyPriming` states that cost:
  with one chunk of 16 frames it is the `starve` "frozen at the one-time 16-frame
  startup priming, `drop 0`" of the bring-up (`planning/build-plan.md:64`).
* *A make clean that fails.* `clean_tree` ignores it (`build.sh:35`). The dep files
  go all the same (36) and the objects depend on `Config.mk`, so the next make
  neither breaks nor keeps an old DEFINE; but after a compiler upgrade the objects
  of `src/` may stay those of the old compiler, and as the stamp is new, no later
  run notices. `StagedCoherent` excepts these objects (`spared`), and nothing else.
* *Interrupted build.* `build.sh` appends a DEFINE at 60 and cleans at 77-80;
  `NEED_CLEAN` lives in the shell. An interruption in between leaves libraries
  without the DEFINE, and the next run links them. `StagedCoherent` holds in an
  undisturbed tree only.
* *Raised limit.* The guard's advice at `build.sh:113` changes the value of
  `KERNEL_MAX_SIZE`; `ensure_define` only looks for the key, so nothing is cleaned
  and the libraries keep the old memory map. `StagedFits` holds in an undisturbed
  tree only.
* *One-node nets.* `gen.py:10` lists "every net >=2 nodes" among what its ERC
  checks; at 183 it only warns. Such a netlist is written, and the board imported
  from it fails `check_pcb.py:72`: that is why `FreshBoardPasses` excepts them.
* *Copies.* `check_pcb.py` collects references, and pairs of reference and pin, in
  sets: a part pasted a second time under its own reference is invisible to it
  unless its wiring differs. `CheckedBoardIsDesign` compares wiring on boards
  without copies.
* *`validate.py`* reads the rev-A artifacts only (61-62).
* `esp32-mclk.ino:128` and `140`: after a failed read or clear, the next reading
  printed covers two windows or more and shows a multiple of the frequency.
* In `setup()` the frequency counter is started with `ESP_ERROR_CHECK` (`ino:119`)
  after the clock: a failure there reboots the board, contrary to the intent of
  `ino:130-132`, which covers `loop()` only. `LoopKeepsClock` is limited to it.
* `build.sh:72-74`: the stamp is written before the clean, and an absent stamp
  asks for none.

## 4. Fairness

Safety properties assume none. Liveness is checked in two runs:

* `workers` uses `WorkersFairSpec`: weak fairness of each loop, which has a core
  to itself and is never preempted, and of the steps of a Write in progress (the
  interrupt handler runs to its end). Nothing says that another interrupt comes:
  `LapsReported` and `WorkersDrain` speak of runs in which the stream pauses for
  good, `<>[](wpc = "idle")`. A stream that never pauses may lap a reader on every
  attempt, and then nothing can be promised.
* `boot` uses weak fairness of core 0 and of each worker: all of them busy-wait
  or sleep on a timer, nothing blocks on another but for the start flag.

The PCB models state safety only: when a script runs is up to the developer, and
nothing obliges anybody to run one.

Three runs switch the deadlock check off: `boot` (a fatal initialization failure
halts the board, `main.cpp:10`), `monitor` (the bound on frames ends the steady
schedule) and `board` (the reader ends, by a traceback or with its drawing). In the other models some step is always
possible, or the bound is reached only with readers still polling.

## 5. Proofs

What each proof holds for:

* `CaptureRingProofs`: every capacity, every set of write sizes up to the
  capacity, any set of readers with positive request sizes, any number of attempts
  and a stream of any length (`RingAssumption`; `MaxStream` only bounds the stream
  and no proof uses it).
* `RingOrderingProofs`: every capacity, write size and request size, a run of any
  length, and every store a load may read from under the memory model
  (`OrderingAssumption`).
* `WorkersProofs`: any ring whose two readers are the analysis and the storage
  worker, any request sizes (`WorkersAssumption`).
* `MonitorProofs`: every even FIFO length, every set of even chunk sizes that fit
  the FIFO, any order of callbacks (`EngineAssumption`; the bound `MaxFrames` is not
  used); on the driver's schedule, any chunk among them, and any number of
  chunks by which either direction starts first (`LatencyAssumption`).
* `PeripheralProofs`: any temperatures and any trip point (`BootAssumption`); any
  sample finer than a percent, any word wider than it, any words and any window
  (`MeterAssumption`); any number of gate windows (`NanoAssumption`).
* `BuildCacheProofs`: any number of compiler versions, of interruptions and of
  cleans that fail in `src/`.
* `NetlistFlowProofs`: any number of edits and interruptions, and for all but
  `RevBIsPivoted` in fact any edit: the proofs treat the edited tables as arbitrary,
  and use only that a run passes the ERC. It assumes that the committed tables do
  (`HeadGenerates`, which TLC evaluates).
* `BoardCheckProofs`: any number of hand edits, either file format, and any place
  at which the file is cut, be it of an edited board; the drawing of the ratsnest
  (`RatsnestSpans`) for any board at all. The tables are the two designs of the
  model, as they stand and pivoted.

| Module | Theorem | Says |
|---|---|---|
| `CaptureRingProofs` | `RingInvariant`, `TypeCorrect` | `RingInv` is inductive; every variable has its type and no cursor goes below zero |
| | `ReadsAreNotTorn` | `NoTornRead` |
| | `LapsAreReal`, `DiscardsAreCounted` | `LapsCostAQuarter`, `DiscardsAreLaps` |
| | `AvailableCannotWrap` | `CursorBehindHead` |
| | `LeftStaysLeft` | `ChannelAligned` |
| | `RingImplementsStream` | `Spec => Stream!Spec` |
| `RingOrderingProofs` | `OrderingInvariant`, `TypeCorrect` | `OrderingInv` is inductive; `TypeOK` |
| | `WeakReadsAreNotTorn`, `WeakAvailableCannotWrap` | `NoTornReadWeak`, `AvailableCannotWrapWeak` |
| `WorkersProofs` | `WorkersUseTheRing` | `WorkersSpec => Spec` of `CaptureRing` |
| | `DrainsWholeBlocks`, `ReportsAreHonest` | `WholeBlocks`, `CountersAreHonest` |
| `MonitorProofs` | `EngineInvariant`, `MonitorIsSound`, `WordsKeepTheirChannel` | `EngineInv` is inductive; `TypeOK`, `FifoBounded`, `FramesAddUp`; `ChannelsKept` |
| | `FifoImplementsQueue` | `Spec => Queue!Spec` |
| | `ScheduleImplementsEngine` | `LatencySpec => Spec` of `AudioEngine` |
| | `LatencyInvariant`, `StarvesOnlyAtStart`, `LatencyIsConstant` | `LatencyInv` is inductive; `StarvesOnlyPriming`; `WaitsForSkew` |
| `PeripheralProofs` | `BootInvariant`, `BootTypeCorrect`, `WorkersWait`, `LoggerFindsItsTarget` | `BootInv` is inductive; `TypeOK`; `WorkersHold`; `LogsSomewhere`, the safety part of `HeadlessSafe` |
| | `MeterInvariant`, `PercentIsInRange`, `ClearedPeaksStayCleared` | `MeterInv` is inductive; `PercentInRange`; `NoStalePeak` |
| | `NanoInvariant`, `CountsAreBounded`, `ClockComesFirst`, `PulsesPrintedOnce`, `ClockKeepsRunning` | `NanoInv` is inductive; its type invariant; `ClockBeforeWaiting`; `NoPulseTwice`; `LoopKeepsClock` |
| `BuildCacheProofs` | `BuildInvariant`, `StagedImageIsCoherent`, `StagedImageFits`, `MakesMeetNoStaleDeps`, `GuardReadsCompiledLimit` | `BuildInv` is inductive; `CoherentUnlessDisturbed`; `FitsUnlessDisturbed`; `NoStaleDeps`; `GuardReadsItsLimit` |
| `NetlistFlowProofs` | `FlowInvariant`, `NetlistsAreSound`, `ArtifactsDoAgree`, `PassMeansUpToDate`, `RevAStays` | `FlowInv` is inductive; `NetlistSound`; `ArtifactsAgree`; `TestVouches`; `RevAUntouched` |
| | `RevBIsPivoted` | `PivotSurvivesEdits` |
| `BoardCheckProofs` | `LinesSpanTheNet` | `RatsnestSpans` |
| | `TornFileLoadsNothing` | `CutLoadsNothing` |
| | `CheckedBoardHasTheWiring`, `FreshBoardAgrees` | `CheckedBoardIsDesign`, `FreshBoardPasses` |

### The ring

`NoTornRead` is not inductive: it speaks of a reader between calls. `RingInv` adds
what makes it true.
(1) `WriterInv`: reserve and commit differ by the Write in progress only.
(2) `BufferInv`: a word written and not announced for overwriting is in its slot.
(3) `CopyInv`: a copy in progress is exact *or* the writer has announced a lap,
and an announced lap cannot be taken back (the reservation only grows).
The step that matters is `WriteWord`: it overwrites a slot whose old word is
`CAPACITY` indices older, and by (1) that word was announced. So a reader copying
it is lapped, and the revalidation, which compares the cursor with the
reservation and not with the commit index, discards the copy. Two words less than
a ring apart share no slot (`SlotsDistinct`), so everything else stays intact.

Two invariants stand on top of it. `CountInv`: a lap moves a cursor by more than the
headroom, and a discard leaves a lap to be counted. `AlignInv`: with even sizes and
an even headroom every index stays even, the cursor after a lap included.
The refinement proof maps every step of the writer to a `Publish` or a stutter
and every step of a reader to `Attach`, `Ask`, `Deliver`, `Lap` or a stutter.

### The ring under the memory model

The same argument, about what the reader *can know* instead of what is in memory.
`OrderingInv` says that views are founded (`Founded`: who knows of a commit knows of
the payload it published) and that a copy is exact unless the reader is *warned*
(`Warned`: what it will know behind its fence announces the region it copies). A
newer word in a slot of the copy was stored under a reservation at least a ring
ahead, and the writer's fence makes the word carry that reservation: reading it
warns the reader, and the revalidation behind the reader's fence cannot miss the
warning. `CursorInv`, for `AvailableCannotWrapWeak`, needs two Writes to fit behind
the headroom: the reservation a lap check reads carries the commit before the last
(`CarriedByReserve`), so the head the reader knows is at most two Writes behind it.

### The workers

`WorkersUseTheRing` maps every step of the loops to a step of the ring or a stutter,
so the ring's theorems hold under them. `WorkersInv` relates what a loop has
published to its cursor: `AnalysisInv` and `StorageInv` say that what was published,
what the last Read returned and is not yet published (`Held`), and what laps cost
(`Lost`) add up to no more than the cursor has passed. `BlockInv` is the one that needs the
interleaving: between `Available` and `Read` the storage reader may be lapped, but a
lap leaves it three quarters of a ring to read, and the head does not go back, so
a block that was there, or a newer one, still is (`BlockFits`: a block is no
longer than what a lap leaves behind the Write in progress).

### The monitor

`ChannelsKept` speaks of the last refill only and
`ImplementsQueue` of a queue the code does not have. `EngineInv` adds `WindowInv`:
each word between tail and head is in its slot. A chunk of n words makes room for
itself first, so every word it overwrites is older than the new tail
(`StoredFacts`). `FramesAddUp` keeps head and tail even, and with even chunks the
overflow is even, hence whole frames are dropped and the channels stay. The
refinement proof rewrites the FIFO's window as the run of words from tail to head
(`QueueIsWords`) and computes with runs: concatenation (`WordsConcat`) and parts
(`WordsSubSeq`).

`LatencyInv`: on a steady clock the FIFO holds exactly what RX is ahead by, not
counting the refills that found it empty before RX's first chunk (`Primed`;
`Level = (ahead + Primed) * CHUNK_WORDS`). Each of those is a chunk starved
(`TxPrimes`). Once RX has produced there are no more of them (`Primed = Lead`):
with room for one chunk more than the skew nothing overflows (`RxPreserves`), and
every refill finds a whole chunk, whose words `WindowInv` tells apart (`TxPlays`).

### The others

* `BootInv`: the flag is up in the main loop only, which core 0 never leaves.
* `MeterInv`: what either core holds is the magnitude of a sample, and the shared
  peak is bounded by the largest window since the last clear. `SampleRange` computes
  the sign extension, `PercentRange` the percentage of the most negative sample.
  The proof rests on widths given as ranges (`HALF_RANGE`, `SHIFT`) and not as
  exponents, of which the prover knows nothing.
* `NanoInv`: `NoPulseTwice` is true between a read and a clear only because the
  counter still holds what was read.
* `BuildInv`: `StepInv` says what the script has established when it reaches a step,
  whatever happened before; `CacheInv` says that in an undisturbed tree either a
  clean is due and will come, or a configuration with nothing left to add fits
  all library objects, and one whose stamp is current fits the compiler of all
  objects and dep files (those of `src/` that a failing clean spared excepted). For
  `src/` the configuration is the makefile's affair (`GuardReadsItsLimit`). The step that
  matters is the stamp: a tree without one has no DEFINE yet, so it is cleaned
  for that (`stamp = 0 => config.multi = 0`).
* `FlowInv`: between its writes a run's earlier artifacts are what the tables still
  give, since nobody edits during a run in the model. ERC's verdict is what makes
  the netlist sound (`ErcMakesSound`) and the artifacts agree (`ErcMakesAgree`).
* `RevBIsPivoted` needs `DesignInv` too: whatever is edited, a net stays a list of
  nodes. Then `ErcMakesPivoted`: the pivot assigns the clock nets and adds the new
  pins, and whatever would contradict it the ERC turns down: a node of the LDO names a
  part that is gone, header pin 7 is gone, a mode pin still on ground would be on
  two nets. `Drop` in `BoardDesign` is written with
  positions and ranks, not as a recursive filter, so that `DropFacts` can be proved.
* `ChainInv`: a pad of the net has been drawn to, once, or remains.

### The board and its file

The invariant, `BoardInv`, is short: the board has footprints of its design and
nothing else, on whatever nets; untouched, it is the imported one; the file is the
board's, whole or cut short; and `fps` is what `load()` makes of the file. What has
to be proved is what that is, and it is proved about `parse` itself, not about a
summary of it:

1. `ParseToken` on a state without an error (`At(stack, cur)`): an opening
   parenthesis, a word, a closing one.
2. A line of each kind, token by token (`ParseHeadLine`, `ParsePadLine` in its three
   forms, `ParseFirstLine`, `ParseLastLine`). Each lemma has two halves: the line
   parses to one more item of the list it is in, and *wherever it is cut* the list
   at hand is `Headed`: it is empty, or its first item is a word. This is why a
   truncated file is harmless: `parse` returns the list at hand, `load()` takes its
   first item for the board, and a word has no footprints in it
   (`FindsNothing`). Had `parse` returned the outermost list, the same cut would
   load half a board, which is the bug the mutant of this property has.
3. Lines put together: `ParseItems` and `ParseBlocks` (induction over the pads of a
   footprint and the footprints of a board), `ParseParts` for what stands before and
   after. `ParseBoard` is their sum, `ParseCut` the half about files cut short.
4. The way back: `LoadPadItems`, `LoadFootItems` and `LoadBoard` find in the parsed
   lists the footprints, pads and nets that were written, so that a whole file loads
   as the board that was saved (`WholeLoads`).
5. The tables: `TablesOk` computes the four of them (`TableNets`, `PivotedTableNets`,
   `TableComp`, `PivotedTableComp`): nodes are pins of parts, no node is in two places,
   and `U4` and `J4` tell the revisions apart.

`CheckedBoardIsDesign` follows: a cut file loads nothing and has the wrong parts; the
parts then give the revision (`RevOfBoard`), and in `CheckedFootprint` the net of each
pad is squeezed from both sides. A pad on a net puts its node on that net, where
the tables must have it; a pad on no net, where the tables give it one, must have a
second pad of its name, which only a copy can be. That is where `NoCopies` is needed,
and the only place. `FreshBoardPasses` is the converse for an untouched board
(`FaithfulNodes`), with `TwoNodes` for the nets of one node.

Induction is over sets: `Induction` says that a set with 0 and the successor of each
of its members has all numbers, and the property is put into the set. A step that
varies (a token, a line, an item to select) cannot be a parameter of a lemma, so the
three runs that `Run` makes have their lemmas each (`Tokens`, `Lines`, `Selects`).
`Select` is written with `Run` rather than with `SelectSeq`, which the prover does not
expand.

### Only model-checked

* Liveness (`LapsReported`, `WorkersDrain`, `HeadlessSafe`, `WorkersRun`): temporal
  proofs from fairness are out of the prover's reach.
* That the specifications are live at all: that every action is taken and no state
  is a deadlock is what the runs show.

Every safety property of a passing run, invariant or action property, is a theorem.

## 6. Not modelled

* The Circle driver, its DMA and its deadlines: not in the repository. It appears
  as schedules (`MonitorLatency`) and failures (`KernelBoot`). The cyclic DMA that
  replays stale data when a refill is late (`audioengine.h:17`) is a hazard no
  model covers, because none of this code can see it.
* Of `kicad/`: the layout of symbols and of the drawing, rotation and sizes, the
  text-level `sexpr_ok`, `check_symbols`, and parts outside the slice. Edits of the
  tables while `gen.py` or `test_rev.py` runs are not modelled; `gen.py` reads them
  once, `test_rev.py` twice.
* Core 3's status line: only the load and the clear of the peak are steps
  (`PeakMeter`). Its other loads are of one moment each, so a line may mix counters
  of different moments; each is honest by itself (`CountersAreHonest`).
* Host tests, debug and SD configuration, documents; the boot self-check, which is
  only a proposal; building a Circle sample with `build.sh`; log wording, and
  `SystemThrottledHandler`, which only logs.

* Whether the fan runs after a fatal failure (`main.cpp:10`): it is left to what the
  constructor of Circle's `CCPUThrottle` did.

## 7. Plan

Written, in this order, the core of the system first: capture ring, its abstract
stream, its proofs; memory model; workers; monitor FIFO and its abstract queue,
its proofs; meter; boot; Nano; build; the PCB scripts; the proofs of the monitor's
latency, of Nano, build and PCB scripts; the proofs of the memory model, of the
workers, of the rev-B pivot, of boot and meter; the proofs of the parser and of
the board check.

Next:

1. `RingOrdering` as a refinement: under the memory model too, the ring implements
   `BroadcastStream`.
2. The stats reporter of core 3 as a third actor of `Workers`: what a status line
   composed of nine loads may show.
3. The whole of core 0: `PutChunk` as the `Write` of `CaptureRing` in one composed
   module with the workers and the boot order.
