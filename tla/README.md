# Verification of the Raspberry Pi 4 device tree

This directory holds TLA+ specifications of the programs in `src/` (the Android
device tree for the Raspberry Pi 4 and the CutiePi tablet), TLC configurations
that check them on small instances, and TLAPS proofs of the properties that
matter most. It is meant to be read beside the code: each definition stands for
the lines that `PROJECT.json` ("map") names for it.

How to run, in this directory:

    tlc -workers 2 -config AudioOut.cfg MCAudioOut      # any line of the table of runs
    tlapm AudioOutProofs.tla                            # any module ...Proofs

Operators marked "(a mutation)" in a comment belong to no specification. Each is
a plausible bug; put in place of the definition that follows it, it makes the
property `PROJECT.json` pairs it with fail. They are there so that a property
that nothing could break would be noticed.

## 1. The system

Most of the tree is build files, tables and policies. The programs in it are
small services and hardware abstraction layers (HALs), each of which talks to a
piece of hardware, to init through properties, or to a framework service through
a table of functions:

    location service --init/start/stop--> GPS HAL   --tty--> receiver
    audio service    --write/standby----> audio HAL --PCM--> HDMI, jack, ...
    power service    --interactive/hint-> power HAL --sysfs-> cpufreq <--- init
    battery service  --getHealthInfo----> health HAL <--properties-- ttyreader <--UART-- MCU
    init (restarts)  -------------------> btuart    --UART--> Bluetooth controller
    init (property triggers) -----------> gpiod, gpiosetd --gpiochip--> GPIO lines
    DeviceParts (settings page) --properties--> init, audio HAL, power HAL
    init library (at boot) --properties--> audio HAL (card), init (output device)
    init (property triggers) -----------> alsa_loop --PCM loopback--> output device
    init, recovery, shells --> switch_boot --mount, cp--> config.txt <--- firmware

### Inventory

| component | state it keeps | operations | what is hard | module |
|---|---|---|---|---|
| audio HAL, playback (`hal/audio/audio_hw.c`) | two mutexes, `standby`, the PCM handle, the frame counter | open, write, standby, close | any thread may call; two locks in a fixed order, the outer given back before the blocking write; PCM open fails or is busy | `AudioOut`, `AudioSession` |
| btuart (`bluetooth/btuart`) | the UART's speed, the step of the setup, alarm, line discipline; the controller keeps its own | the setup of the controller, waiting for a hangup | lost bytes, the alarm against late answers, restart by init with a controller that was not reset, speeds that must agree | `BtAttach` |
| ttyreader (`service/cutiepi/ttyreader`) | the parser's position, voltage history, idle count | read a batch, parse, set properties | starts in the middle of a frame, drops bytes with every flush, an uninitialised position | `TtyReader`, `McuProperties`, `CutiePi` |
| health HAL (`hal/health/health.cpp`) | `mLastCapacity` | `UpdateHealthInfo`, `getCapacity` | properties change between its reads; must wait until ttyreader has decided; level must not rise on battery | `Battery`, `McuProperties`, `CutiePi` |
| gpiod, gpiosetd (`gpio/src`) | requested lines, the batch being read, `events_done`, the pending signals | poll, read, run a script; set lines | edges while scripts run, a full kernel queue, signal against edges, restart while running, two services that want one line | `Gpio` |
| GPS HAL, lifecycle (`hal/gps/gnsshal/gps_zkw.c`) | `started`, descriptors, epoll set, unread commands | init, start, stop, cleanup; the reader thread | two threads share all of it without a lock; descriptors are closed and their numbers used again | `GpsLifecycle` |
| GPS HAL, sentences (same file) | the line buffer; the fix, satellite list and counts | one character; one sentence | lines that do not fit; lost sentences; what an unreported epoch leaves behind | `NmeaLine`, `NmeaReader`, `NmeaStream` |
| power HAL (`hal/power/power.c`) | two shared buffers, `tid` | `set_interactive`, `power_hint`, the boost thread | the boost thread uses the buffers without the mutex; init writes the same file | `PowerBoost` |
| boot switch (`scripts/switch_boot*.sh`, `init.system.rpi4.rc`, recovery) | `config.txt` in the kernel and on the card, the mount, init's queue | ask for a mode, mount, copy, unmount, reboot | copies that overlap at one mount point, a power cut in a copy, a shutdown that outruns it | `BootSwitch`, `InitSystem` |
| init library (`init/init_rpi4.cpp`), audio part | the audio properties | runs at each boot | what was saved overrides what it decides | `AudioRoute`, `InitSystem` |
| audio output route (`init.vendor.rpi4.rc`, `DeviceSettings.java`) | output device and card, saved or not; alsa_loop and its arguments | choose a device, restart alsa_loop | alsa_loop has its arguments from when it started, while properties go on changing | `AudioRoute`, `InitSystem` |
| DeviceParts, the rest (Java) | settings, properties | user's choices | only what the HALs do with them | as environment |
| audio HAL, capture | time of the last read | `in_read`, `in_standby` | nothing: silence at the pace of one caller | no |
| lights HAL | none | one write | nothing | no |
| Provision, wiringSerial, image scripts, data partition scripts, configuration | | | trivial, third-party, run by hand, or data | no |

### Which properties make each component correct

* **audio playback**: no handle is used that is NULL or closed; every path gives
  its locks back; a freed stream keeps no card; a card plays for one stream; a
  waiter gets the stream though writers keep coming.
* **btuart**: when the kernel takes the UART, both ends agree on speed and
  nothing is left over; the controller is set up; attempts end; with a fresh
  controller they succeed.
* **ttyreader**: only what was sent is reported, what arrives whole is reported,
  the average lies between measurements, presence is decided once,
  and by every reader that has the UART and finds its line silent.
* **health**: a report is consistent, the level does not rise on battery, a
  battery that is there appears.
* **gpiod**: each edge runs one script, in order, or was dropped by the kernel;
  lines do not starve each other; a SIGTERM and a configuration take effect.
* **GPS lifecycle**: a session that starts has a reader; after stop the reader
  leaves nothing behind; descriptor numbers in use are right.
* **GPS sentences**: sentences are cut at lines, an epoch that arrives whole is
  reported exactly.
* **power**: boosts end and leave the lower limit as it was; a dark display is
  slow; a lit one has the user's limit.

* **boot switch**: a mode that is asked for while nothing is under way is what
  the board boots next; scripts leave the partition unmounted.
* **audio output route**: sound goes to the device that is chosen; the HAL and
  alsa_loop use the same card, in this boot and in later ones.

The list of hazards, each with its line and the properties that cover it (or why
none does), is in `PROJECT.json`.

## 2. The modules

Every module names its actions after the functions or the cases they stand for.
One action is what a thread does between two points where another thread, the
kernel or a device can be noticed. Numbers of bytes, frequencies and addresses
are reduced to what the properties can tell apart.

### AudioOut, AudioSession, AudioOutProofs

`AudioOut` is the playback half of the HAL. Threads of the audio service (`pc`,
`op`, `arg`, `res`) make calls on streams (`opened`, `standby`, `pcm`,
`written`); `adevLock` and `outLock` are the mutexes of the device and of each
stream, with their owners. `LockDev` and `LockOut` are the two
`pthread_mutex_lock`s both calls begin with. `StartFails`/`StartOpens`/`Started`
are `start_output_stream` and what `out_write` does with its result, `Running`
the case of a stream that plays; `WriteOk`, `WriteUnderrun`, `WriteFails` are
the outcomes of `pcm_write` (the underrun returns on its own path), `WriteExit`
and `WriteSlept` the label `exit`. `StandbyCloses` to `UnlockDev` are
`out_standby`, and `Free` the end of `adev_close_output_stream`, which calls it.

The audio service is the environment: any thread may call write or standby on
any open stream at any time; close comes when no other call on the stream is
left, as the framework guarantees, for the HAL frees the memory. tinyalsa and the
kernel are the environment too: `PcmIsReady` says that a card opens for one
handle at a time, and a start may always fail (no memory). The card is the
property, which changes at any time (`SetCard`) and is read at a start.

`AudioSession` is what the HAL promises, without locks or threads: a stream
acquires a card nobody holds, plays, releases it, and is renewed while it holds
none. `SessionSpec` is `AudioOut`'s refinement of it, with `holds <- pcm` and
`frames <- written`.

### BtAttach and BtAttachProofs

One service process, the controller, and the line between them. `pc` runs
through the steps of `bcm43xx_init`, whose order is the table `After` and whose
commands are the table `Op`: `Send` writes a command (after a flush, except in
the resets), `Succeed`, `RecordDone` and `Fail` are what the step does with the
event that comes first. `Locate` is the search for a firmware file, `Default`
the return to the initial speed after the launch, `Attach` the end of
`init_uart`. `Test`, `Poll`, `Signal`, `HangUp`, `Restore` are the loop at the
end of `main`, where the test of `__io_canceled` and the entry of `ppoll` are
two steps. `Open`, `Alarm`, `Die` are init and the ends of the process.

The controller is external and modelled from how the code uses it: it takes
commands in order, understands only what is sent at its own speed, changes speed
after the event of the speed command, and comes up with its patched firmware, at
the initial speed and without an address, after the last record. An HCI reset
does not change its speed and nothing in the tree resets it by its pin: this is
why `Attaches` speaks of attempts that begin with a controller at its initial
speed, and why an attempt that ends with it at 3 Mbit/s is listed as a hazard.

### TtyReader

The microcontroller's frames are a stream of bytes. `sent` is the frames, `here`
the place of the next byte (its frame and its number in it), so that the
properties can say which bytes a report is made of. One action per branch of the
byte parser (`Start`, `Header`, `Command`, `LengthLow`, `LengthHigh`, `Data`,
`Validated`, `GoodFrame`, `BadFrame`, `Ignore`), with the parser's variables under
the names of the code; a frame whose sum is right sets two properties, first that
there is a microcontroller (`Validated`) and then its own (`GoodFrame`), and a reader
of the properties may come in between. `Batch`, `Flush` and `Idle` are the loop of
`main`: `Flush` is `serialFlush`, which drops any number of the bytes that follow.
`Open` and `OpenFails` are the outcomes of `serialOpen`: the reader that fails is gone,
and has told nobody whether there is a microcontroller. `Decided` is what can be
promised in view of that: a reader that finds its line silent has decided or comes to.
It counts only polls that find nothing, so on a line that never falls silent and never holds
a right frame it goes on undecided; in the model every line falls silent in the end.
`StoreVoltage` is the ring buffer and its average. The reader may begin in any byte
of a frame, and `charpos` and `payload_len` are used before they are set, so they
start in any position and with anything of the stack (`Garbage`). Bytes are
`0..Base-1` with the checksum modulo `Base`, which stands for 256.

`FrameAssumption` is what the reader needs of the microcontroller's frames: the data
of a frame is a positive int or is not collected at all, and no 0x5A inside a frame has an
0xA5 behind it in the same frame. With one that has, the parser could take the inside of a frame for a frame
with no byte lost, and nothing could be said of the report. It would take a voltage
of 18 V for the shortest data to make such a frame; the cell has 4.2 V.

### McuProperties

The three properties and what ttyreader promises to those who read them, in four
actions: `Validate` and `GiveUp` decide whether there is a microcontroller, once, and
`Measure` and `Charge` come only after `Validate`, one property at a time (`McuSpec`,
with any natural number for a voltage). That it is decided some day is not promised: the
service is oneshot, and one that cannot open the UART decides nothing, so that the health
HAL, which waits for it, shows no battery until the next boot. `TtyReader` and
`Battery` both extend it: the first has it as a property, the second takes its
actions as the only thing that ttyreader does. So the two are composed over this
specification and their product, 596k states by 42k, need not be run: what `Battery`
shows, it shows for the ttyreader of the code.

### CutiePi and CutiePiProofs

That last sentence, as a specification and a theorem. `CutiePi` is the two processes
of the code side by side, the reader with its bytes (`ReaderStep`) and the health HAL
with its reads (`HealthStep`); they share the three properties and nothing else.
`LevelMeasured` is about both: the voltage the HAL makes a level of lies between two
that the microcontroller sent. There is no run of it, for the product is too large;
what is said of it is proved.

### Battery

The health HAL's one thread, with one action per property read
(`IsBatteryDevice`, `Ac`, `SetStatus`, `SetPresent`, `ReadVoltage`,
`ReadCapacity`), because ttyreader may write between any two; `call` says
whether it fills in a report (`UpdateHealthInfo`) or only answers `getCapacity`.
ttyreader is here by what `McuProperties` says of it (`Tty`), on a CutiePi only.
Flags are 0 and 1, as in the properties. `changed` is a history: ttyreader set
another charge since the call began. Four reads of the charge make a report, so one
during which it changed may contradict itself; `Consistent` says that no other
does, whatever the voltage, the validity and the fake battery do meanwhile, and how far
such a torn report can go: it may show a level that is not that of its status, but never a charger
without a status, nor a status without a battery, for each property is read after the one
that it depends on and is never taken back.

### Gpio and GpioProofs

gpiod is `Request`, `Poll` (the poll callback: which lines it flags, and what a
signal does), `Read` (libgpiod reads one edge of each flagged line, in order,
and runs the callback), `ScriptEnds` (`system` returns; `-n` counts). The kernel
is `Edge`, with a queue of bounded length for each line. init is `Change` and
the two restarts: the trigger stops the service and starts it. gpiosetd is
`Set`. libgpiod and the kernel's queue are external, modelled from the calls.
`signal` is the set of blocked signals that are pending for the signalfd. `system`
ignores SIGINT while the script runs, and to ignore a signal discards it where it is
pending, though it is blocked: so the beginning of a script (`Trigger`) takes a SIGINT
away, and one that comes between two scripts of a batch is lost; one that comes during the
last of them stays. A SIGTERM always stays, so `EndsInTime` is about SIGTERM.
`got`, `lost`, `passed` and `late` are histories.

### GpsLifecycle and GpsLifecycleProofs

The location service is one caller (`Init*`, `Start`, `Stop`, `Cleanup*`), the
readers are threads, and everything between them is shared without a lock. A
step of `gps_state_thread` is an action: it caches the numbers of the
descriptors, registers two of them, waits, reads a command or sentences, tests
`started`, deregisters. Descriptors are modelled by their numbers, since the
kernel gives the lowest free ones: `cur` says which numbers `_gps_state` has,
`num` which ones a reader cached, and a reader whose numbers are not current
acts on nothing. `zero` is there because the first `gps_state_done` closes
descriptor 0, which shifts all later numbers by one.

`Trouble` is the set of things the environment does: a restart or a cleanup while
the reader is still there, the device being pulled, a socket pair or a thread
that cannot be created. The history `met` has those that happened, and the
properties say which of them they do without.

### NmeaLine, NmeaReader, NmeaStream and NmeaStreamProofs

`NmeaLine` is `nmea_reader_addc`: the bytes of the lines are told apart only by
their line and by being its newline. `NmeaReader` is `nmea_reader_parse` and the
reports: each second the receiver sends an epoch of sentences, of which any may
be lost. Fields and satellites carry the number of the epoch they come from, so
that a stale one is told from a fresh one. There is an action for each kind of sentence
(`GGA`, `GSA`, `RMC`, `GSV`, `ACCURACY`, `Unknown`), of which `Receive` takes the one of
the next sentence. In the code every sentence ends with the reports that are due,
and only an RMC makes any due: so the reports (`ReportFix`, `ReportSv`) are the end
of `RMC`. Each epoch is on a day of its own, the hardest case for `update_time`,
which puts the time of a GGA on the last day an RMC gave. The reference the
reports are compared with (`InView`, `InUse`, `GivenFields`, `HasFix`) reads the
epoch's sentences as a whole, without any state.

What a receiver sends is the constant `Epochs`, and `EpochAssumption` says what the
reader relies on, whatever the satellites, fields and numbers of systems: GSV sentences
come in numbered groups (`Grouped`), the GSA sentences before them, for a satellite is
marked as used when it is listed (`UsedFirst`), and one RMC comes behind all others
that the reader understands, for it is what makes the reports due (`Ended`).

`NmeaStream` composes the two: the receiver sends each sentence as one line
(`SendLine`), `NmeaLine` takes it character by character, and the newline that
completes it is a step of both (`Complete`: `Parse` and `Receive`), as the
newline of a line that is dropped is (`Dropped`). So which sentences are lost is
not chosen but follows from which lines do not fit, and the run shows that what
`NmeaLine` may lose is what `NmeaReader` gets over. `NmeaSentences` has the
epochs both of the runs use; `NmeaReader` alone, which may lose any sentence, is
still run for the finding `nmea_incomplete`. `StreamAssumption` only says that the
length of a sentence's line (`Normal`) is one that lines can have.

### BootSwitch

`config.txt` is `file` in the kernel and `disk` on the card. A script is `Mount`,
`Open` (cp truncates the target), `Write`, `Umount`, and none of them looks at
whether the one before succeeded: `Mount` of a partition that is mounted fails
and goes on, `Umount` fails while another copy has its file open. There are two
services, one for each mode, which init does not start while they run
(`StartService`), and any number of shells; all share one mount point. `events`
is init's queue of property changes: `SetMode` and `ShutdownRequested` append to
it, `Trigger` and `TriggerShutdown` act on it, the second by setting the first's
property. `Return` and `Leave` are the recovery. A `Reboot` writes the kernel's
copy to the card, a `PowerCut` loses it, and `WriteBack` may have written half of
it; `PowerOn` boots what the card says, if that is a configuration, and sets the
property again, so that each boot of Android copies its configuration over
itself. The histories are the mode asked for last (`asked`) and whether that was
while nothing was under way (`calm`).

### AudioRoute

The audio HAL plays on a loopback card, and the service alsa_loop forwards it
to an output device. `LoadProperties` is the init library at boot under what was
saved in earlier ones; `Choose` and `ChooseCard` are the two calls of the
settings page, `SetProp` is setprop. init acts on a change of the device
(`RestartLoop`: stop, start, and stop again when it is empty) later than it was
made, and gives alsa_loop the properties of that moment (`Start`). A killed or
ended alsa_loop (`LoopExits`) is started again after a while (`LoopAgain`).

### InitSystem and InitSystemProofs

`BootSwitch` and `AudioRoute` composed. They meet in the boots: `SystemOn` is the
firmware's choice and, in Android, the init library's; `SystemOff` (a reboot, a
power cut, the recovery leaving) kills scripts and alsa_loop and drops what init
had to do, while saved properties survive. init has one queue, of which each
module has its part: the triggers of the one do not touch what the other reads.

### PowerBoost and PowerBoostProofs

The binder thread is `hal`, the boost thread `boost`, and `hi`, `lo` are the
buffers `max_freq` and `min_freq` they share. Each read or write of a file or a
buffer is a step. The buffers have no common lock: a reader that meets a writer
sees parts of both strings, so it sees any frequency (`Seen`, `OnPropertyTorn`, `OnWriteTorn`;
the kernel moves a number into the CPU's range). init's trigger on the property
writes the same file at any time (`InitWrites`). The two history bits say which
race a call met.

## 3. The runs

"states" is the number of distinct states.

| run | module, cfg | states | what is checked |
|---|---|---|---|
| `audio_out` | MCAudioOut, AudioOut | 211k | locks, handles, freeing, refinement of AudioSession, two liveness properties |
| `bt_attach` | MCBtAttach, BtAttach | 6k | agreement, setup, attempts end, attempts succeed |
| `tty_reader` | MCTtyReader, TtyReader | 596k | what is reported, that the properties are set as `McuProperties` says, and that a reader on a silent line decides |
| `battery` | MCBattery, Battery | 42k | consistency, no rise on battery, appearance |
| `gpio` | MCGpio, Gpio | 267k | edges, fairness among lines, ends, configuration |
| `gps_lifecycle` | MCGpsLifecycle, GpsLifecycle | 348k | what holds with every trouble, or without the named ones |
| `gps_restart` | MCGpsLifecycle, GpsRestart | violation | a session without a reader after stop and start |
| `nmea_stream` | MCNmeaStream, NmeaStream | 2.2M | sentences are whole lines, losses are bounded, and whole epochs are reported exactly, from bytes to reports |
| `nmea_incomplete` | MCNmeaReader, NmeaIncomplete | violation | an incomplete GSV group is reported |
| `init_system` | InitSystem, InitSystem | 2.2M | requests to boot another system reach the card, the partition is left unmounted, sound goes where it should, cards agree |
| `power_boost` | PowerBoost, PowerBoost | 22k | no stuck boost, dark is slow, lit has the user's limit |
| `power_dim` | PowerBoost, PowerDim | violation | a lit display left with the dark one's limit |

### Bounds, and why they are enough

* `audio_out`: three threads on two streams: a writer, a thread that waits for
  it and a third that waits for the device lock or overtakes; two cards of which
  one is absent, so that a start fails for a missing card and for a busy one.
  `Modulus = 1` keeps no count here (with two the states are four times as many); that
  frames are counted one by one and only for a stream that holds a card is proved for every
  modulus (`Refinement`).
* `bt_attach`: three records of firmware (first, middle, last) and up to six
  troubles (losses, refusals, hangups, signals, deaths) over all attempts, also
  with none left, from where `Attaches` must hold; one command may survive
  in the controller when init restarts the service, and the module assumes no more
  (`BtAssumption`): with a larger backlog an old attempt's commands could reach into
  the next attempt's, which the five seconds init waits exclude for commands that
  take milliseconds.
* `tty_reader`: two frames out of four kinds (a key, a charger, voltages without
  and with the start byte inside), four-bit bytes with a four-bit sum so that
  splices of two frames whose sum holds do occur, one flush that loses any
  number of bytes, a history of two, and 0 or 1 left on the stack for the length, which
  is what a broken frame at the start counts down from.
* `battery`: a table of three levels and voltages below, on, between and above
  them. The code's table has 21 entries, mostly five percent apart.
* `gpio`: two lines, queues of two, three edges each: overflows and edges during
  scripts both happen; one change of configuration, before or during anything.
* `gps_lifecycle`: two readers, the old one and the new one, which is the smallest
  number that can be in each other's way; a third would need two restarts while
  both are still leaving. Two unread commands: they are read one by one and each
  does the same, so a third adds nothing a second one does not.
* `nmea_stream`: three epochs: one, one that disturbs the next, and one after
  it. Four kinds of epochs: two systems, wide numbers, more satellites than the
  list holds (and no date), no fix. Two satellites per sentence and a list of four (4 and 64 in
  the code). A buffer of two characters and lines of up to four: a newline alone,
  a line that fills the buffer, one longer by its newline, and longer; only the
  difference to the size of the buffer is ever looked at. Four lines may be lost,
  which is two that do not fit and the two behind them. With so small a
  buffer only the location's sentences fill it (`LineLength`).
* `nmea_incomplete`: the same epochs, any one sentence lost.
* `init_system`: the two services and one shell, which is three scripts at once;
  one property change init has still to act on for the scripts and one for the
  sound, besides what it is acting on; a board with headphones (card 1) and one
  without (card 0), one output both have and one only the first has. No bound on
  reboots, cuts, requests and changes.
* `power_boost`: frequencies 6..9, so that a torn read can give a limit that is
  none of the three written.

TLC checks deadlock in all runs but `tty_reader` and `gpio`: ttyreader exits when
no microcontroller speaks or the UART does not open, and gpiod and gpiosetd end. `NmeaReader`, `NmeaLine`
and `NmeaStream` have a step (`ReaderDone`, `Done`, `StreamDone`) that stutters when
the bounded input is used up.

### Fairness, and what justifies it

* `AudioOut`: each thread's steps are weakly fair: the kernel schedules it, a
  blocked `pcm_write` returns at the pace of the hardware. Nothing is assumed of
  the mutexes: a thread that waits for one may be overtaken for ever, and
  `WaiterServed` holds in spite of it because overtakers need the device lock,
  which is what the comment in `out_write` says it is taken for.
* `BtAttach`: init restarts the service, the process runs, the alarm goes off,
  the controller works off its commands. No fairness for answers: they may be
  lost as long as there is budget.
* `TtyReader`, `Battery`, `Gpio`: each process runs; scripts end (a script
  that does not end blocks gpiod for ever, listed as a hazard); init runs due
  triggers; the health loop asks again until it is disabled, and this is strong
  fairness since calls of `getCapacity` come in between.
* `GpsLifecycle`: readers run; a command that stays unread is not passed over
  for ever by sentences, since `epoll_wait` reports both descriptors: strong
  fairness of `WakeCtl`. The service's own calls are never forced.
* `PowerBoost`: only the boost thread: `sleep(2)` ends.
* `BootSwitch`, `AudioRoute`, `NmeaStream`: none, for their properties are safety.
  That a script ends is plain from its four steps; whether a requested boot happens
  is the owner's decision to reboot.

### What the runs show to be wrong

Three runs end in a counterexample of what the code says of itself.

* `gps_restart` (`gps_zkw.c:883`, `:953`). Stop only writes a command. A start
  before the reader has deregistered finds `started` still set and creates no
  reader, or the new reader's registrations are removed by the old one, which
  shares the epoll descriptor. Either way the session has no reader that waits
  for sentences. `CalmSessionHeard` in `gps_lifecycle` shows that a service that
  never meets trouble is always heard.
* `nmea_incomplete` (`gps_zkw.c:754`, `:760`). A group of GSV sentences counts
  as complete when it has at most the announced number of satellites, so one
  that lost a sentence is reported, and only a count that is too large is
  dropped, under the message "incomplete". `SvExact` shows that a loss is
  forgotten with the next report.
* `power_dim` (`power.c:112`, `:117`). A boost that begins while the display is
  dark can replace the buffer between `set_interactive(true)` filling and using
  it; the lit display then keeps the dark one's limit until it goes off and on
  again. `LitIsUsers` names the two races that do it and shows there is no other.

`init_system` has no counterexample, but two of its properties name an exception
the code makes:

* `CardsAgree`: the settings page saves card 1 on every board
  (`DeviceSettings.java:173`), also where the loopback is card 0, and what is saved
  overrides the init library in all later boots: the HAL then plays on a card that
  is not the loopback, and nothing is heard.
* `RequestTakes` is about a request made while nothing is under way. Of two that
  overlap, one may be lost (init does not start a running service) or both files
  be mixed (two copies at once); and the copy a reboot to the recovery asks for may
  be outrun by the shutdown, which then boots the old system. Nor is a card
  bootable at every moment: a power cut in a copy, which each boot of Android makes
  once, may leave half of it.

Other weak places that no document contradicts are in the hazards: the
controller left at 3 Mbit/s, the lost SIGTERM in btuart, the SIGINT that a script of
gpiod discards, a presence left undecided when the UART cannot be opened, the reader that loops
in a tty that hung up, the jump to 100 % at or below 3000 mV, the line dropped
behind one that is too long by its newline, Galileo numbers read past
`sv_used_in_fix`.

## 4. The proofs

TLAPS proves, for every value of the constants that satisfies the module's
`ASSUME`:

| module | theorem | property | inductive invariant |
|---|---|---|---|
| AudioOutProofs | `Typing`, `Locking`, `HandleSafety`, `FreeSafety` | `TypeOK` (no run checks it), `LockInv`, `HandleInv`, `FreedReleases` | `IInv` |
| AudioOutProofs | `WriterSafety` | `WriterKeepsHandle` | `IInv` |
| AudioOutProofs | `NoCircularWait` | (`ShortChains`) | `TypeOK`, `LockInv` |
| AudioOutProofs | `Refinement` | `SessionSpec` | `IInv` |
| BtAttachProofs | `Agreement`, `SetUp` | `AttachedAgrees`, `AttachedSetUp` | `IInv` |
| CutiePiProofs | `SentOnly`, `WholeHeard`, `VoltageBounds` | `OnlySent`, `WholeIsHeard`, `VoltageBetween` | `IInv` |
| CutiePiProofs | `ReaderTypes`, `ReaderIsMcu` | the reader's ranges; `McuSpec` | `IInv` |
| CutiePiProofs | `Consistency`, `NoRise` | `Consistent`, `NeverHigher` | `HealthInv` |
| CutiePiProofs | `CutieIsBattery`, `CutieReports` | the composition implements `BatterySpec`, and has its two properties | by `ReaderIsMcu` |
| CutiePiProofs | `LevelsMeasured` | `LevelMeasured` of the composition | `IInv`, `ReadInv` |
| InitSystemProofs | `CalmRequests`, `Unmounts` | `RequestTakes`, `NoStaleMount` | `IInv` |
| GpioProofs | `Conservation`, `Fairness`, `Ending` | `EdgesConserved`, `FairToLines`, `EndsInTime` | `IInv` |
| GpsLifecycleProofs | `Numbering`, `Freshness` | `NoStaleNumbers`, `FreshStart` | `IInv` |
| InitSystemProofs | `SoundFollows`, `CardsSafety` | `LoopFollows`, `CardsAgree` | `RouteInv` |
| InitSystemProofs | `SystemRequests` | `RequestTakes`, `NoStaleMount` of the composition | by `BootImplemented` |
| NmeaStreamProofs | `BufferBound`, `Framing`, `BoundedLoss` | `TypeOK` (no run checks it), `WholeLines`, `LossIsBounded` | `IInv`, `LossInv` |
| NmeaStreamProofs | `FixReported`, `SvReported` | `FixExact`, `SvExact` | `PlaceInv` with `FixInv`, with `SvInv` |
| NmeaStreamProofs | `StreamIsLines`, `StreamIsReader`, `StreamExact` | the composition implements both parts, and has all four properties | `PlaceInv` |
| NmeaStreamProofs | `NothingElseLost` | the sentences lost are the lines dropped, one for one (`Accounted`) | `AccountInv` |
| PowerBoostProofs | `BoostSafety`, `DarkSafety`, `LitSafety` | `NoStuckBoost`, `DarkIsSlow`, `LitIsUsers` | `IInv` |

**AudioOut.** Assumptions: the two null values are not elements of the sets, the
cards that exist are among those that can be chosen, the modulus is positive.
Any number of threads, streams and cards. `HandleInv` is not inductive: that a
free stream has a handle exactly when it is not in standby says nothing of the
moments between `out->pcm = ...` and `out->standby = ...`. `PlaceInv` says what
the owner of a stream's lock knows at each place, `FreeStreamInv` the relation for a
stream nobody has locked, `CallInv` which call a place belongs to, `AllocInv` that
calls are on allocated streams, that a close is the only call on its stream and
leaves it in standby, and `ExclusiveInv` that no card is open on two streams.
`LockInv` makes these usable: at most one thread is inside a stream. The refinement has one step per
action: `StartOpens` is `Acquire`, `WriteOk` is `Play`, `StandbyCloses` is
`Release`, `OpenOutput` is `Renew`, all others stutter.
`NoCircularWait` is the safety half of the two liveness properties: by
`LockInv` the owner of a stream's lock waits for no mutex, and the owner of the
device's lock at most for a stream's, so a chain of waiting threads has at most two
links, and no number of threads can wait in a circle. TLC finds chains of two.

**Battery.** Any table of levels with distinct voltages and without a 99, any
voltages. `PartInv` says that the part of the report that is already filled in
agrees with the charge, unless ttyreader set another since the call began: each of
the four reads adds one conjunct, and the last makes it `Consistent`. `TornInv` is what
is left of it when the charge changed: a charge that is set stays set to something, so
what a later read gives is at least known. `CapInv` is what
`NeverHigher` rests on: an answer without a charger is at least what is remembered.
That the table gives one of its levels needs a highest entry below the voltage,
which exists by the well-foundedness of < on the naturals (`LevelOf`).

**CutiePi.** `CutieIsBattery` and `CutieReports` have one hypothesis, `Voltages = Nat`: the
constant `Voltages` of `Battery`, a small set in its run, is here whatever the reader may
set. `ReaderIsMcu` then makes each step of the reader one of `Tty` or a stutter, and the
properties proved of `Battery` carry over to the two processes. `LevelsMeasured` needs
no hypothesis: `ReadInv` says of the copy of the voltage that the HAL holds what `VoltageInv`
says of the property, and reports are never taken back (`MeasuredStays`).

**BootSwitch.** Any number of shells and either length of the files. `CalmInv` is
the argument: a request made while nothing was under way is with init, as the only
change it has to act on (`Waiting`), or with the only script that runs (`Alone`), or
on the card. `MountInv` says that there is somebody left to unmount, and that the
kernel has nothing to write for a partition that is not mounted, which is what makes
"on the card" true at the unmount; `OffInv` that a board without a system runs nothing.

**BtAttach.** Any number of records and troubles. The code never counts events; that a
step acts on the answer to its own command follows from what can be between the
host and the controller at each step. `FirstInv`: before the first reset there may
be one command or event of an earlier attempt, so up to two events may arrive, and an
answered reset shows that the controller has the initial speed. `SecondInv`: if the
old command was a reset, one reset may still be ahead of the second command, which
then fails. `LaterInv`: from there on there is the step's own command or its event
and nothing else, and the event means that the command was obeyed (`Obeyed`).
`DownloadInv` says that a half-loaded firmware is only found at full speed, so an
attempt that gets past its first step has none; this is why "not found" cannot be a
firmware that is half there.

**Gpio.** Any finite set of lines, any queue length, any count. `Course(l)` is what
`EdgesConserved` says of line l; the moves of an edge (from the kernel to the queue
or to the lost ones, from the queue to the script, from there to the done ones) each
keep it. `WaitInv` bounds by the rest of the batch how often a line that waits has been
passed: within a batch twice the other lines, outside once. `EndInv` bounds the edges
whose scripts begin after a SIGTERM by the batch it came in. `PlaceInv` says what each place
of gpiod means for the batch.

**GpsLifecycle.** Any number of readers, any set of troubles. `NumInv`: if every
cleanup waited for the readers, descriptor numbers change only while there is no
reader, so each reader's cached numbers are the current ones. `CalmInv`: a service
without trouble has at most one reader at a time, which is registered for what its
place says, and the commands that are unread are exactly the stop it has to find;
without a reader nothing is set, registered or unread, which is `FreshStart`.

**InitSystem.** Any boards, outputs and number of changes. `BootImplemented` shows that
the composition implements `BootSwitch` (each of its steps is one of `BootSwitch`'s or
leaves its variables alone), so the two theorems above carry over. `PendingInv` is what
`LoopFollows` needs while changes are outstanding: the last change that init has
still to act on is the device as it is now. `CardInv` adds to `CardsAgree` that alsa_loop
runs only in a system that is up.

**NmeaLine.** Any size of the buffer, any bound on lines. `WholeLines` needs
`BufferInv`: in the middle of a line the buffer holds exactly the part of it that
has arrived, or nothing while the line is being dropped; and nothing between lines.
`ShapeInv` types the histories. `LossInv` adds for `LossIsBounded` why the reader is in
the state in which it drops: the line it is in is too long, or the one before it was
longer than the buffer by just its newline, and was lost.

**NmeaReader.** Any epochs for which `EpochAssumption` holds, any number of satellites in a
sentence and in the list, any losses. `PlaceInv` says that what is still to come is
the rest of the epoch, so `Heard`, the sentences that are past, is all of them at the end. The
two exactness properties become claims about the middle of an epoch. For the location:
until a valid RMC the flags that are set are those the sentences heard have
given, all of this epoch (`FlagsInv`), and afterwards the report is the one due and
nothing is left (`ReportedFix`). `FlagsInv` cannot say it of the accuracy, for whether an
ACCURACY sentence is taken depends on the fix mode, which may be of an epoch before;
it need not, for a report is given an accuracy in any case. For the satellites (`SvInv`):
the entries that count, which are `num_svs` and in the middle of a group `sv_count` more
(`Total`), are the satellites in view so far, in order, as many as fit, each marked
against the satellites in use (`Counted`). It takes the three parts of the assumption: `Grouped`, so
that the count a sentence goes on with is of its own group and never above the count
announced, which would throw the list away; `UsedFirst`, so that no entry is made before its mark is
known; `Ended`, so that nothing comes behind the report. That the folds of the
reference (`View`) and of a sentence (`KeptOf`) exist and what they give is shown by `Stepwise`
and `Upwards`: the numbers at which a step-by-step construction fails have no least one.

**NmeaStream.** `StreamIsLines` and `StreamIsReader` show that a step of the
composition is one of each part or leaves it alone, so that the properties of both carry over.
For the first, the line that is begun must have a length lines may have, and
that takes `PlaceInv`: the next sentence is one of an epoch of `Epochs`. `NothingElseLost`
counts: the lines begun are those parsed, those lost and the one that is on its way.

**PowerBoost.** Any range of frequencies with `CpuMin < CpuMax`. `Limits` says
that the lower limit is raised only between `raise` and `drop`; hence every read of
it, by the one boost there is, gives the CPU's own minimum, and so does the fill of
the same buffer by `set_interactive(false)`: `Buffers`, which is why sharing
`min_freq` does no harm. For `max_freq` `Limits` can only say that it holds the
user's limit as long as nothing raced. `Calls` ties the place of the binder thread
to the last call.

**TtyReader.** Any frames for which `FrameAssumption` holds, any size of a byte, any
history, any number and size of gaps, anything on the stack. `SyncInv` is the argument:
if no byte was lost since the last 0x5A, the parser is in the frame the line is in, at
the same place, with the sum, the command, the length and the number that this frame's bytes
so far make (`InFrame`), or it waits behind a 0x5A for an 0xA5 that never comes. So a
sum that is right is then right for that frame, and the report is of it
(`OnlySent`). `WholeInv` says what the parser owes to a clean frame of which all was read so far,
whatever it was in the middle of: its first byte brings it to the beginning. `ReportInv` ties
`valid` to the place of the loop. `VoltageInv` says that the history holds only reported
voltages, and the average of numbers lies between two of them (`AverageBetween`,
with the division and with the zeros of a history that is not full). That the sums
exist is an argument on the least length for which they would not (`SumsOf`); no proof
uses induction over data.

### Only model-checked

Everything under fairness (`WaiterServed`, `DevLockReleased`, `AttemptEnds`,
`Attaches`, `Decided`, `BatteryAppears`, `EdgesServed`,
`ConfigTakesEffect`, `CalmSessionHeard`, `StopEndsReader`, `BoostEnds`): the
prover does not do liveness under fairness or `ENABLED`. Every invariant the passing runs check is
proved for all values of the constants.

## 5. What is outside

* The kernel, tinyalsa, libgpiod, the Bluetooth controller, the receiver and the
  microcontroller are environments, modelled as far as the code relies on them.
* In `AudioOut`: volume, latency, presentation positions and the routing
  parameters; the conversion of rates (there is none). Capture is independent of
  playback.
* In `NmeaReader`: the conversion of the digits of a field; a field is there or
  not. The time of a fix is reduced to whose it is: that of this epoch on this
  epoch's day, or not. The time zone: `mktime` takes UTC for local time, and the
  correction for it is commented out (`gps_zkw.c:352`), so where the zone is not UTC
  every time is off by it. Sentences that are damaged on the line: the code cuts
  the checksum off without comparing it, so it would parse one as if it were right,
  and nothing could be promised of what it then reports (listed as a hazard). An
  accuracy that is empty: a GSA sentence with a fix has one. Receivers that send the RMC first,
  whose reports the code makes of two epochs.
* In `TtyReader`: the overflow of the sum and the number of a broken frame, which a frame
  that was sent does not reach; a frame of 0 mV before any other divides
  by zero, and the quotient is the 0 that the processor's division gives.
* In `BtAttach`: baud rates other than the two; packets longer than the buffer.
* In `Gpio`: parsing of the options; SIGINT and SIGTERM sent to the script; a signal that arrives before the lines are
  requested.
* In `Battery`: the constant fields of the report.
* In `BootSwitch`: the partition is one block device, where the code has one for
  each kind of boot medium; a copy is two steps, the truncation and the writing; what
  the firmware does besides reading `config.txt`.
* In `AudioRoute`: volumes and the routing the framework does by itself; what alsa_loop
  does with the sound.
* Audio capture returns silence at the pace of its one caller: its state is the time
  of the last read, and what could be wrong is arithmetic on clocks. The lights HAL is
  one write to one file, and is called by one service.
* The rest of the init library (revision, DRM mode, symbolic links of partitions) and of the settings pages
  runs once, on values nothing else changes. The Java of Provision runs once. The
  image and data partition scripts are run by hand on a card nobody else uses.
  wiringSerial is third-party code, modelled by how ttyreader calls it.

## 6. Plan

Done: the components where several actors meet (audio playback, GPS, power), those
that lose or repeat messages (btuart, ttyreader), gpiod and the health HAL; then the
boot switch and the route of sound with their composition in init, the GPS
sentences from bytes to reports, ttyreader and the health HAL from the wire to the
report; and the proofs of all safety properties the passing runs check.

Left, in this order:

1. Liveness of the boot switch (every script ends and unmounts, a card that is never
   cut boots what was asked last), which is plain alone and too expensive in `InitSystem`.
2. Audio capture: the clock of `in_read` against standby.
3. Proofs: what the liveness properties rest on and is safety, such as a bound on the
   steps a waiter in `AudioOut` or an edge in `Gpio` has before it; `StopEndsReader` and
   `EdgesServed` themselves should the prover learn fairness.
