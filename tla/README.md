# EmbedBench in TLA+

EmbedBench runs an Arduino sketch on a PC in virtual time. A single-threaded
host environment (`src/src/`) implements the hooks of the Arduino core, moves a
clock of its own, calls the models of the attached parts (`src/devices/`), and
records everything into a trace. There are no threads and no locks. What makes
the program hard is that its calls nest: a wait calls a device, a device raises
an interrupt, the interrupt handler makes a bus transfer, the transfer calls a
device. Every order in which these may nest, and every moment that a clock moved
by nested calls may step over, is a behaviour that no single test writes down.
These modules enumerate them, and the proofs cover the instances that no
enumeration reaches.

Each definition is translated from the source that `PROJECT.json` ("map") names
for it. Below, `H` is `src/src/embedbench_host.cpp`, and a number after it a line.

## Parts of the system

| Part | State | Operations | Hard behaviour | What makes it correct |
|---|---|---|---|---|
| Virtual clock and wake table (H `onWait` 649, `fireTick` 615, `requestWake` 1475) | time, next tick boundary, pending and late ticks, 8 wake slots, director and interrupt depth | waits of zero, of the core's slice, of any length; waits inside callbacks; wake requests; a new window | a callback that waits moves the time of the wait it interrupts; wakes and ticks at one moment; a full table | no tick lost or fired twice; no accepted wake lost or skipped; a wait neither short nor endless |
| Device calls and deferral (H `enterDevice` 551, `queueDeferred` 577, `deliverDeferred` 595) | device, director and interrupt depth, a queue of 4 effects, the SPI transaction flag | bus operations, pin injection, frames, ticks, wakes, interrupt handlers | handlers that call devices from inside a delivery; effects raised inside a transaction | a running device is never entered; effects are delivered in order, once, after the device; none lost in silence |
| Event record (H `vrecord` 393, `foldCycle` 208, `foldShapeCycle` 292) | 64 lines, counters, truncation flags | record, fold, summarise, truncate, new window | folds of folds, summaries of summaries, the last slot | every event kept, counted or reported lost; nothing cut while it can be folded |
| Run window (H `armRunWindow` 1242, `onLifecycle` 934, `runBegin` 1166, `runEnd` 1220) | running, armed, closed, loops done | phases of `setup` and `loop`, opening and closing by hand | windows armed, opened and closed in any order | an armed window spans the loops asked for and is closed in the end |
| Buses (H `onWireWriteOn` 792, `onWireReadOn` 834, SPI, UART) | bound devices, the open address of each bus, line settings, bulk counters | transfers with and without STOP | a handler's transfer between the sketch's pointer write and its read | a repeated start is told exactly when there was one |
| Formats and frames (H `registerFormat` 1425, `frameAccept` 1340, `frameTx`, `frameRx`) | 8 formats with name (19 characters) and layout | register, send, receive, hold | names that collide or are cut, a full registry, frames held across calls | a number means one format for everybody and for ever; no frame lost in silence |
| Listeners (H 433-442, `addListener` 1117, `removeListener` 1133) | 4 slots, a flag while they are walked | add, remove, fan-out | listeners that add and remove each other while they are called | a standing one is called once and in its turn |
| Ready-made port (H `DevicePort` 1567) | tables of lines and pins | map, forward | the same line mapped twice | a line reaches the pin it was mapped to |
| Device models (`src/devices/src`, 27 parts) | per part | `i2cWrite`, `spiTransfer`, `serialIn`, `lineIn`, `frameIn`, `channelWrite`, `advanceTo`, `reset` | late, early and repeated advances; refused wakes; commands cut short; power cycles | per part: command locks, limits of buffers, busy times, framing |
| Native test environment (`src/tests/common_env`) | a clock and logs | a second, smaller host | its own wake handling | the same time contract |
| Capture shims, offline tools | none that outlives a call | logging, conversion | none | (not modelled) |

How they interact. The sketch calls the core, the core calls the host's hooks.
The host calls devices, interrupt handlers, listeners, the frame receiver and
the director's handlers; devices call back through `HostPort` (`lineOut`,
`requestWake`, `serialOut`, `frameOut`, `diagnose`). All of it is on one stack,
and all of it shares the host's one `State`. The component list in
`PROJECT.json` says of each part, every device model by name, whether it is
modelled; its hazard list says at which line each of them can go wrong.

## Modules

| Module | Role |
|---|---|
| `TimeContract` | abstract: what `requestWake` and `advanceTo` promise each other |
| `HostClock` | the clock; implements `TimeContract` |
| `DeferralContract` | abstract: the re-entrancy contract |
| `Reentry` | the call stack and the queue; implements `DeferralContract` |
| `EventBuffer` (`MCEventBuffer`: symmetry) | the record |
| `RunWindow` | the window and the phases of the program |
| `Listeners` | the walk over the observers |
| `HostParts` | `RunWindow` and `Listeners`, one of them examined at a time |
| `Frames` (`MCFrames`: the libraries) | the registry and the frames |
| `Environment` | what any device sees: time under `TimeContract`, wakes granted or refused, callbacks, power cycles |
| `EnvSensor` | the environment sensor in it |
| `WireSensor` | two buses composed with `EnvSensor` and nested handlers |
| `ProgrammableArray` | abstract: what a non-volatile part promises |
| `Flash` | the SPI flash in `Environment`; implements `ProgrammableArray` |
| `Imu`, `Rtc`, `Sonic`, `Pir`, `Sht30`, `Qmp6988` | sensors in `Environment` |
| `SdCard`, `Tape` | the SD card, and the part that plays a capture back |
| `Chunk`, `Ir`, `Lora`, `Uwb` | parts that send frames on their own |
| `Modbus`, `Gps`, `Modem` | parts on a serial line |
| `Catalog` (`MCCatalog`: the tape's steps) | all of these parts and `Flash`, one of them on the bench, and what is promised of all |
| `HostClockProofs`, `ReentryProofs`, `EventBufferProofs`, `RunWindowProofs`, `ListenersProofs`, `FramesProofs`, `WireSensorProofs` | theorems about the module of that name |
| `CatalogProofs` | theorems about all parts of `Catalog`, and about `Flash` alone |

The contracts tie the two halves together. `HostClock` implements
`TimeContract`; the devices are modelled in `Environment`, where time moves in
any way `TimeContract` allows. What is shown of a device therefore holds in
every environment that keeps the contract, and the host is one of them. Likewise
`Reentry` shows that what a device raises reaches nobody while the device runs,
which is why a device operation or a bus transfer is one step of the device
modules.

### Correspondence

*HostClock.* `vnow`, `nextTick`, `wakes`, `ticks`, `pendingTicks`, ... are the
fields of `State`. `pc` is where the outermost `onWait` stands; calls made from
inside it are steps of their own while it stands there (`RequestWake`,
`IsrEnter`, `NestedWait`, `ZeroWaitNested`). The wake table is a set: two
requests for a moment share a slot. Ticks are the clock's own; whether a tick
device is bound makes no difference to it. `delay()` is a loop of the core outside the
repository, modelled from what `onWait` says of it: slices until its deadline.
`owed` is a history variable, the moments accepted and not served yet.

*Reentry.* `stack` is the C++ call stack, reduced to the frames that matter, and
each action is a call or a return. Capture, refusal (`diag.reentrant`), deferral
and the lookup of the handler when an effect is delivered follow the code, and so do
ticks with a tick device bound and with none, after which nothing is delivered; the
data of a transfer is left out. The three counters of `State` are kept beside
the stack, so that a property can compare them.

*EventBuffer.* A line is a shape and a value. A checksum is a sum modulo a small
number. Search order, widths, counts, times and the notice follow the code. That
no line but the notice has the notice's text is an assumption (`BufferAssumption`):
every line of the host begins with the kind of its event, and none is
`trace.truncated`. The total of a fold (`SumTo`) and the checksum (`Crc`) are
recursive functions, which is what the proofs can reason about.

*RunWindow.* One action per lifecycle phase the core announces, with the calls
`onLifecycle` makes, and the program's own calls between them.

*Listeners.* The loop over the table, one slot per step, with additions,
removals and records by whoever is being called.

*HostParts.* One run for two small parts that keep no state in common. A line
recorded with no window open returns before the walk (H 394-400), so a walk is
of a line inside a window. What a listener does to the window is an action of
the program like any other, except while a line of the lifecycle itself is
offered: between the count of a loop and the test whether it was the last one
(H 948-951) a listener could arm the window again, and that moment is left out.

*Frames.* What a library sends carries the number it was given; `frameAccept`,
the queue and both directions follow the code, with a frame device bound and
with none: then `frameTx` answers true and nobody hears it (H 1385). Other effects that share the
queue are in `Reentry`.

*EnvSensor, WireSensor.* Pointer, repeated start, forced measurement and its
wake; `open` is the open address of each bus, and `level` counts handlers that
interrupt each other. The histories `selected`, `left` and `disturbed` say what
each level has begun on the bus and whether another level has cut into it.

*Flash.* Chip select, phases, the command lock, staging, the write latch, and
writes under way. Bytes are read as what they are in their phase.

*The other parts.* Each is a module of its own over `Environment`: one action
per method of the device and branch that changes state, `advanceTo` with
`Serves` when it asks for the next wake itself and with `Advances` when it does
not. Variables are the fields of the class under a prefix (`imuNext` is
`nextSampleUs_`); those marked "history" exist for the properties only.
`Asks(t, left, refused)` is `requestWake`, granted or refused, and every part
goes on as the code does, which is without looking at the answer. Loops in
`advanceTo` are one step over the number of turns they take. What a sample, a
frame, a register or a reply says is left out; how many there are, which one
they are and when they come is kept: a result of the humidity sensor is the
number of its measurement, a byte of a chunked message the message it is of, its
place and that message's length, a Modbus request its length. Two histories say
what the code does not keep: `mbSince` and `mbMissed`, how many bytes came since
the line was last quiet for a gap and whether such a silence passed unnoticed, and
`tapeAsked`, what the application asked the tape for; they are measured on the
line, not where the part clears its buffer or moves on. Both ends of the
chunked link are in one module, with a link that loses any piece. Several
anchors are in one module, so that a poll reaches any set of them. The six bytes
of a command of the SD card are one step.

*Catalog.* One module that extends all parts. `part` says which one is on the
bench; parts share nothing but the time, and no state of one is read by another.
So one run covers them all, and properties that mean the same for every part are
stated once for all: `DueIsOwed`, `EndsOnTime`, `KeepsSchedule`, `MessagesWhole`.

## Runs and what they show

| Run | States | Shows |
|---|---|---|
| `clock` | 635,580 | ticks are accounted for; accepted wakes keep their slots; only the core's slice may return early; the time contract is kept; every wait and every `delay()` returns, unless its callbacks wait for ever |
| `clock_served_when_due` (violation) | | a wake overtaken by a wait inside a callback is not served when it is due |
| `reentry` | 215,456 | a device that runs is alone; nothing is left behind outside a transaction; the tick handler sees everything delivered while a tick device is bound; the deferral contract is kept; what is held is delivered in the end |
| `event_buffer` | 281,000 | events are kept, counted or reported lost; truncation is final and justified; beginning and order are kept; lossless folds count exactly |
| `event_buffer_last_time` (violation) | | the last time of a folded line may be that of another line of the cycle |
| `host_parts` | 7,613 | an armed window left alone spans exactly its loops; whatever is done by hand, it is reported closed in the end, unless the program arms it for ever; standing registrations of listeners are called in turn and once |
| `frames` | 818,568 | a number a library remembers names its own format; a frame is read as it was written; none is lost in silence |
| `frames_carried` (violation) | | `frameRx` answers true for a frame it drops |
| `wire_sensor` | 1,400,000 | a reading is never answered with another context's register; one nobody cut into is answered; measurements end when due |
| `catalog` | 1,360,898 | for sixteen parts: what a part has yet to do is owed its wake; it ends on time, or late only when the wake was refused or waited past; schedules are kept through late advances; messages and blocks are whole; a result is read once; the flash is an array that changes by one whole, enabled, undisturbed write at a time; a tape keeps its pace |
| `gps_delivers_all_due` (violation) | | an advance over several periods sends one sentence |
| `sd_writes_in_place` (violation) | | a block filled by the director while the card is busy takes the accepted write along |

### Bounds

`MaxCount`, `MaxRaised`, `MaxSent`, `MaxEvents`, `MaxRejected`, `Horizon`, `MaxStack`, `MaxIsr`,
 `MaxLevel`, `MaxOutside`, `ShtMax`, `ChunkMessages` are bounds of the models; the other
constants are the code's own (`Slots`, `Capacity`, `WakeSlots`, `MaxFormats`, ...),
taken small.

- *clock*: a tick of 3, a slice of 2, waits of 0 to 4, wakes 0 to 2 ahead, two
  slots, to time 10. A wait passes no, one or several boundaries, wakes fall
  before, on and after them, the table is full after two requests, and one level
  of handlers is enough for a wait inside a wait.
- *reentry*: one pin (each effect is matched against its own pin only), a queue
  of two, stacks of three frames under a call and three effects: a full queue
  and a delivery inside a delivery both happen.
- *event_buffer*: four slots, cycles of one and two, three shapes, seven events:
  folds of folds, summaries, truncation, and a window after it.
- *host_parts*: arming for 0, 1 and 2 loops, and windows by hand, as often as the
  program likes (counts stay at `MaxCount` once they reach it); two functions in
  three slots, so that one may hold two slots, and any number of events.
- *frames*: seven libraries: three that agree or collide on a name, two others,
  two with names too long that differ only at the end; two slots; a queue of one.
- *wire_sensor*: two buses, two addresses, handlers that interrupt a handler, a
  measurement that is requested, passed and ended within three moments.
- *catalog*: four moments, one level of callbacks. Durations are chosen so that
  what is begun ends inside the horizon in some runs and beyond it in others, and
  so that a wake of something that was cancelled is still to come when the next is
  begun. *flash*: a page and an array of two cells, a program of 3 and an erase of
  4, so that a power cycle and the next write overlap with the wakes of both.
  *imu*: a FIFO of two, a sample each moment: a jump overflows it. *rtc*: seconds
  modulo 3, so that the difference to an alarm wraps. *sd*: two blocks of one
  byte, two values. *chunk*: messages of up to three bytes over links that carry
  none, one or two, two messages. *ir*: up to three repeats. *uwb*: two anchors.
  *modbus*: a buffer one byte longer than a request. *sht*: three measurements of
  two durations, a master with and without patience. *tape*: nine steps of all
  kinds, busy steps at the start and one behind another.

### Fairness

The program is one thread: a call that can go on goes on (weak fairness of the
host's own steps). Callbacks come from outside: it is assumed that one which can
return does so in the end and does not call for ever. Each model says so with
strong fairness, because a nested call disables the return while it lasts:
`HostClock` for `CallbackReturns`; `Reentry` for `CallbackReturns` at each depth
up to `MaxStack` (weak above it, where callbacks make no calls) and for the end
of an SPI transaction the sketch began. `RunWindow` (in `HostParts`) assumes that the core goes
through its phases. The code's scheduling justifies no more and the properties
need no more. The other modules assume no fairness and state safety only.

Two liveness properties need more than fairness, and say so in their premise,
because the code would break them otherwise. `WaitsReturn` is about callbacks that
do not wait for ever: a tick handler that waits one period each time it is called
leaves a tick pending each time (H 668-672), the loop that fires them (H 736-740)
never ends, and the wait of the sketch does not return although every callback
does. Time is
bounded in the run, so every behaviour of it satisfies the premise; what the run
shows is that nothing else keeps a wait from returning once callbacks stop waiting.
`ArmedCloses` is about a program that stops arming: `armRunWindow` in every
`loop()` with a count of two or more starts the count of loops again (H 1247).

Deadlock is checked in every run.

## Theorems

All are proved for every value of the constants that the named assumptions
allow (positive tick and slice, sizes that are naturals, sentinels that are not
names). The list is in `PROJECT.json`.

*HostClockProofs.* Inductive invariant `ClockInv`: the types, the exact
bookkeeping of boundaries (`NextTickIsNext`: the next boundary is the first one
neither fired nor pending; without it `TicksAccounted` is not inductive because
a nested wait moves `nextTick` by any number of periods), `owed` within `wakes`,
and where the splitter may stand with which depths. From it: `TicksAccounted`,
`NextTickIsNext`, `OwedIsHeld`, `OneShotNeverShort`, and the refinement
`KeepsTimeContract`.

*ReentryProofs.* `StackInv` says what may lie above what on the stack and ties
the counters to it; `QueueInv` orders the numbers of the effects held after
those served; `DeliveryInv` says that whenever something is held there is a
frame on the stack that will deliver it, or a transaction is open. From them:
`DeviceRunsAlone`, `HeldInOrder`, `NothingLostInSilence`, `NothingLeftBehind`,
`HandlerSeesAllDelivered`, and the refinement `KeepsDeferralContract`.

*WireSensorProofs.* For the sensor alone, `SensorInv` (a measurement under way
is owed its wake unless refused) gives `EndsWhenDue`. For the bus, the two
properties of readings need an account of all levels at once: levels above the
running one have nothing open; a sequence nobody cut into is the open one; and
the bus of a sequence that was cut into is closed, or some handler above still
has to end what it began. That last part rests on an assumption of the model: a
handler ends the sequences it begins (`IsrExit`). The composition is shown to be
the sensor in an environment (`KeepsSensor`), which carries the theorem about
the sensor over.

*EventBufferProofs.* `EventInv` adds five parts to the types. `Whole`: until the
fold is exhausted nothing was dropped and every slot holds an event's line.
`Cut`: after it something was dropped, the buffer is full, its last slot is the
notice, and it repeats nothing, by text or by shape. `Numbered`: the numbers of the
slots rise and are numbers already given, and the first is 1. `LastIsOne`: the last slot stands for one
event. This is what makes the rest inductive, because the slot the notice takes
then costs exactly one event, and the event that did not fit another.
`Accounted`: the counts of the lines and the drops add up to what was recorded,
and the counts to the slots that hold lines and what was folded. TLC has checked `EventInv` on the instance of the run.
`NoticeRepeatsNothing` shows that a notice put into the last slot completes no
cycle; a cut therefore stays justified for the rest of the window.
The folds compute sums, and what a sum over a buffer becomes when a cycle of any
width and number of copies is folded is a fact by induction. The library's
induction rules take an operator, which no prover here can instantiate. `NatSets`
states the rule for sets of numbers instead: a set that holds zero and, with each
number, the next holds all of them; it follows from the library's theorem that a
well-founded relation has minimal elements. From it: `SumNext`, `SumJoins` (sums
of two stretches), `RowIsBlock` (the sums down the columns of a cycle add up to
the sum of the stretch), `SumFolds`, `FoldCounts` (a fold keeps the count of every
set of lines), `FoldOrder`. `TextFoldIsLossless` and `LosslessCounts` use
`FoldCounts` for the set of a single line.

*RunWindowProofs.* `WindowInv`: before `setup` nothing was counted; a window the
lifecycle opened was armed, and while it is not closed its count is not
complete. Hence `WindowSpansLoops`.

*ListenersProofs.* `ListenersInv`: the walk's index has begun, whoever held a slot
throughout still holds it, and only a walk calls anybody. Hence `SteadyIsCalled`.

*FramesProofs.* `RegistryInv`: what a library remembers is its own entry, no
name twice, and a numbered name is not a long one. Every step refuses somebody
who had no number, gives a number already there, or appends under a new name;
hence numbers stand (`AnswerStands`). `FramesInv` adds that each frame held, and
the last one handed over, was meant as the registry says; since the registry
only grows, it still is when it arrives: `UnderstoodAsSent`, `EveryFrameAccounted`.

*CatalogProofs.* Each part has an inductive invariant of its own (`FlashInv`,
`ImuInv`, ..., `ModemInv`), which holds when the part is new, is kept by each of
its steps, and carries the part's share of the properties. All rest on the same few facts about
time: an advance never passes a moment that is owed (`AdvanceTime`), what was
asked for is owed or was refused (`AskedIsExpected`) and stays so until its moment
(`StaysExpected`), and what was expected and ends with an advance ends in time
(`EndsInTime`). The parts that work on their own need arithmetic besides: any
number of periods after a moment on the grid is a moment on the grid
(`GridStep`). Some invariants say more than types, wakes and the properties: the chunked
link's relates what the far end has put together to what the near end has still
to send; the SD card's says that a transfer is for the block the command named
unless the director moved it, and that a write that was accepted is a whole block;
the Modbus slave's ties its buffer to the bytes since the last silence of the line
unless one was missed, and a silence can be missed only when its wake was refused
or waited past; the tape's says of each step when it was begun and when it is due. The last section puts one part on
the bench and shows that the others stand still (`AsideAsNew`), so that
`CatalogInv` is the conjunction of all. From it come `DueIsOwed`, `KeepsSchedule`,
`ImuTellsTheTruth`, `ShtReadOnce`, `MessagesWhole`, `EndsOnTime`, `SdWritesWhole`,
`TapeKeepsPace` and, for the flash, `WriteEndsWhenDue` and the refinement
`KeepsArray`. The mapping of `KeepsArray` reads the change that is under way from
the part's own page and address, so that the proof shows that nothing on the
wire reaches them.

### What is checked and what is proved

Only model-checked: liveness (`WaitsReturn`, `HeldIsDelivered`, `ArmedCloses`),
which needs fairness and `ENABLED`, out of reach of the provers. Every other
property of the passing runs has a theorem. Only proved, because a run would
repeat what its neighbours check: `NextTickIsNext`, `HeldInOrder`,
`NothingLostInSilence`, `MeasuringIsOwed`, `SequenceIsOpen`, `KeepsSensor`,
`AnswerStands`, `FlashTypeOK`, and the types of `HostClock` and `Frames`.
`WritingIsOwed` is a part of `DueIsOwed`, which the run of the catalog checks.

## Findings

The five violation runs are disagreements between the code and its documents;
`PROJECT.json` ("findings") quotes both sides. Others were met while reading and
have no run (`D` is `src/devices/src`):

- a handler called by a delivery may make a device call, whose own delivery loop
  calls the next handlers above it, so that not each is "a fresh top-level call
  chain" (H 595 and its comment; the order of delivery is kept all the same);
- a tick left pending by a wait inside an interrupt handler outside any wait is
  fired by the next wait, not when the callback returns (H 665, `src/docs/GUIDE.md` 286-288);
- `delay()` may end up to a slice after its deadline when a wake cuts a slice
  short (H 716 and its comment at 677-679);
- a transfer to an address with no device leaves it open on the bus, and the next
  transfer there, when a device has been bound meanwhile, is a continuation (H 818);
- `outsideWindow` counts the lifecycle's own lines too (H 398);
- events recorded by a listener are offered to nobody (H 433), and a listener
  removed by another one misses the current event already, one added behind the
  walk gets it, where the header speaks of the events that follow (H 436-437,
  `src/src/embedbench_host.h` 133-134);
- the flash's header says that deselecting it in the middle of a command abandons
  it, while a program whose bytes were staged is committed by just that (which is
  how the real part works, `D/unit_flash_model.cpp` 61);
- after a soft reset of the humidity sensor "Until a command comes, reads get
  0000", but one within the 1.5 ms of the reset gets the result that was held
  (`D/sht30_model.cpp` 95 and 132);
- with no tick device bound, `fireTick` delivers nothing, and the tick handler runs
  with whatever an open SPI transaction holds, which the brackets around the
  device would have delivered (H 618-624, `src/src/embedbench_host.h` 86-87);
- a frame sent while no frame device is bound is answered true and heard by nobody
  (H 1385);
- the Modbus slave sets the end of the silence anew without looking whether the
  last one is over: two requests with a full silence between them are read as one
  when the wake was refused or waited past (`D/unit_modbus_model.cpp` 39);
- a send that is too long for the chunked link is refused and yet changes the size
  of the pieces of the message that is going out (`D/unit_chunk_model.cpp` 52);
- a poll in the middle of a ranging round is said to be ignored, but the anchors
  that have answered take it, and their answers may meet those of the round before
  (`D/unit_uwb_model.cpp` 35);
- a press without repeats leaves the hold of the key before it for one repeat more
  (`D/unit_ir_model.cpp` 80);
- the modem asks for no wake: its late reply comes with whatever advance comes
  next (`D/modem_model.cpp` 54);
- a command line that is too long for modem or GPS loses its beginning, and the
  rest is read as a command (`D/gps_model.cpp` 36);
- the end of an echo, of a GPS period, and of a tape's step count from the advance
  that noticed the one before, the FIFO's, the remote's and the pressure sensor's
  from when it was due.

## Not modelled, and why

- Widths of counters: time has 64 bits and counts 32; no run of a program on
  this host reaches them. A tick period of zero is excluded by assumption (H 733
  would not end); no caller in the repository passes it.
- Texts, formatting, the trace's layout and the reading of a trace.
- `runBegin` from inside a callback, which resets the depths under the calls on
  the stack: no document or test does it.
- UART and analog hooks, single SPI transfers outside the depth they raise, the
  ready-made port: an assignment and a call each, of which the call is in `Reentry`.
- The link of a response to its request in the record: no document promises that
  it resolves after a fold.
- The register tables and the parts made of them, simple parts (button, relay,
  temperature, light, angle, encoder, ...) and the faulty part: a few assignments
  per call, with nothing of their own that time or another caller could disturb.
- Of the parts marked "partly" in `PROJECT.json`, what changes no state another
  call depends on: values, checksums, status words, which register a read shows,
  how the bytes of a command line are collected.
- The native test environment: test code. What a device may meet there is in
  `Environment`, as far as it keeps the time contract.
- Capture shims, offline tools, images, tests, examples.

## Plan

Done: the host (`HostClock`, `Reentry`, `EventBuffer`, `RunWindow`, `Listeners`,
`Frames`, `WireSensor`) and the parts of the catalog that act on their own, with
the proofs above. What could still be added, in this order:

1. Theorems that go beyond the runs: that a record which was not cut shows each
   event by its shape (summaries included), and that a buffer that is cut stays
   as it is but for its counters.
2. The instances of `Environment` tied to `HostClock` by a theorem: what the host
   shows of `TimeContract` is what `Environment` takes from it.
