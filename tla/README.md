# A TLA+ model of the LTA daemon

The LTA daemon (`src/source`, started by `configure.cpp`) drives a CCD readout board. Clients
send it one-line commands over TCP; it talks to the board over UDP, collects the data of a
readout in a thread of its own, writes them to `.dat` files and converts those to FITS images.
This directory models the parts of the daemon whose correctness depends on the order in which
several actors do things.

## The system

| Component | State | Operations | Interacts with | Hard because |
|---|---|---|---|---|
| Readout thread: `dumpToDisc.cpp` | `readingFlag`, `readoutStatus`, the open file, the list of files, sample count, `READOUT_TIMEOUT` | start, stop, `saveData` | main thread (two shared integers, no lock; pointers into the caller's frame), data socket, files | interleaving, timeouts, failing opens |
| Readout control: `userInterpreter.cpp` 835-1228 | exposure flags and timers, voltages and switches on the board | `read`, `readraw`, `readoff`, `runseq`, `startseq` | readout thread, board, conversion | waits on a thread, a clock and a board at once |
| Settings and sequencer commands: `userInterpreter.cpp` | image dimensions, readout type, multi mode, file names | get/set, `seq`, `sseq`, variables, calibration | the two sequencers, board | several copies of one truth (file, daemon, board) and failures half-way |
| Main loop: `configure.cpp` | none | accept a command, run it, drain the board's text | all of the above | strictly one command at a time |
| Control protocol: `ethernet.cpp` | none between calls | register reads and writes, the two text handshakes | board, over UDP | lost, late and duplicated datagrams |
| Board simulator: `ltaSimulator.cpp` | registers, text to transfer, sequencer, data thread | answers control packets, sends data | daemon | two threads and a protocol with half-done transfers |
| Legacy compiler: `sequencerHandler.cpp` | compiled instructions, variables and where they are used | load, change a variable, compile | interpreter | loop nesting, delays, state left by a failed load |
| Smart sequencer: `smartSequencerHandler.cpp` | variables, recipes and their links | load, resolve, durations, dimensions, commands for the board | interpreter | recursion over user data, links overwritten |
| Conversion: `dataConversion.cpp` | counters, data files kept or deleted | to FITS, raw, calibration | files | counter wrap-around, partial failure |
| Multi-board master: `masterLtaClass.cpp` | one connection per board | broadcast, single send, replies | several daemons | partial broadcast, a silent board |

What makes each correct, in short: a readout thread is owned by the command that made it, is
joined once, loses no packet and ends neither early nor never; an exposure is undone; a command
answered "nothing done" does nothing; text from the board arrives whole, once and in order; the
sequencer described by the daemon is the one on the board; compiled code is what the source
says; data are deleted only when the image exists.

`PROJECT.json` lists the hazards of the code line by line, with the properties that cover them.

## Modules

| Module | What it is |
|---|---|
| `DumpToDisc` | the readout thread, its flags, files and data socket: one action per step of `saveData` |
| `Readout` | extends it with the main thread (one action per statement group of `start_readout_thread`, `run_readout`, `cleanup_readout`, `stop_readout_thread`), the clients, the board and time |
| `Recording` | the abstract specification: one recording at a time, sealed before it is converted |
| `ReadoutProofs` | the theorems about `Readout` |
| `SequenceFacts` | facts the proofs share: recursions on numbers and on sets have solutions, what folds, concatenations and sequences of sets are, numberings |
| `MCReadout` | `Readout` as TLC checks it |
| `CtrlHandshake` | text between the daemon (`Ethernet`, its callers) and the board (the control side of `ltaSimulator_t`) over UDP |
| `Dialogue` | the abstract specification of a command sent: executed once before its sender goes on to listen |
| `HandshakeProofs` | the theorems about `CtrlHandshake` |
| `MCCtrlHandshake` | `CtrlHandshake` as TLC checks it |
| `DatReader` | the `.dat` files of a readout and `dataFileReader`: packets, words and what their counters say |
| `FitsWriter` | the image file: one sequence of pixels per HDU, cut at the expected size |
| `Conversion` | extends `DatReader` with the five `bin_to_...` functions of `DataConversion`, what they do to files, a kill at any step and `readOldDatFiles` |
| `ConversionProofs` | the theorems about what a conversion deletes and keeps |
| `ImageProofs` | the theorem about what the image of a readout holds, and the types of all the conversions |
| `PixelProofs` | the theorems about smart and interleaved images, staying inside vectors, and readouts called good |
| `MCConversion` | small readouts with lost, doubled and swapped packets |
| `SequencerCompiler` | the legacy compiler as a fold over the lines of a file |
| `LegacySequencer` | extends it with the handler: loads, changes of a variable, and what a failure leaves |
| `SequencerRuns` | extends it with the board running compiled code, and with what the lines mean |
| `SequencerProofs` | the theorems about the legacy compiler, the handler and the clocks of its loops on the board |
| `MCSequencer` | enumerated programs |
| `SmartSequencer` | the smart sequencer: documents, resolution of variables and states, recipes, commands to the board, image dimensions |
| `BoardSimulator` | the sequencers of the simulated board and the size of its readouts |
| `Settings` | composes `LegacySequencer`, `SmartSequencer` and `BoardSimulator` with the daemon's dimensions, uploads that lose commands, and the calibration |
| `MCSettings` | users with legacy files, documents of every nesting and documents with flaws |
| `MasterBroadcast` | several masters, and the daemons as they see them |
| `MasterProofs` | the theorems about the order of broadcasts and about what a master reports |
| `MCMaster` | `MasterBroadcast` as TLC checks it |

### State and actions of DumpToDisc and Readout

`pc` is the main thread's position, named after the function or statement it is about to run;
`thr` is the readout thread's (`none` when there is nothing to join, `exited` between
`pthread_exit` and `pthread_join`). `readingFlag` and `readoutStatus` are the code's variables;
every read and write of them is a step of its own on each side, because that is all the
synchronisation there is. `fileLen` stands for `inFileNames` with the packets in each file;
`fileOpen` for an open stream. A packet is one unit of samples, bytes and expected count: the code
compares the counts and the size of a file with limits and does nothing else with them.
`stale` and `fresh` are the packets in the socket from before and after the sequencer start;
`saved`, `total` and `gaveUp` are history variables.

Undefined behaviour is modelled as what the build can do: going through the null stream of a
failed roll-over kills the process (`crashed`); a second `pthread_join` returns or kills it
(`join_thread`).

Time is `clock`, with three marks: `EXPOSURE_START_DELAY`, the end of the exposure, the startup
timeout. The last is `READ_STARTUP_TIMEOUT` (5 s) plus the exposure, hence the longest; an
exposure shifts voltages only when it is longer than the delay, and exposures are whole seconds.
The marks are therefore at least a second apart, and the loop's `usleep(1000)` crosses at most
one of them. A command to the board may cross any number (`ExposureStart`, `ExposureEnd`). A stall
of the process for seconds between two tests of one turn is outside the model. `QuietTick` is
`READOUT_TIMEOUT` since the last packet.

What is left out of these modules: the names and contents of files, the samples, the conversion
(one step, `BinToFits`), the text exchanged with the board (the waits for it end with or without
success), and the commands that neither read nor start the sequencer.

### State and actions of CtrlHandshake

`pc` is the step of the two handshakes that class `Ethernet` is at; `asked` says that a read
request is out. `Ask` sends a request, with the write that each turn of the loops of `sendCmdEthe`
begins with; `AskAgain` is the time-out of the control socket; `TakeAnswer`, part of each step
that follows, takes the next datagram, whatever it answers, as the code does. The callers are
`talkToBoard` (`SendCmd`, then `ListenReturns` until the awaited text, "ERROR" or the workflow
time-out), `cleanup_readout` and `cmd_run_seq` (`ListenForReadDone`) and the main loop (`Drain`).

The board's variables are the simulator's registers, `responseChunk_` (`chunk`) and
`responseBuff_` (`rest`); one action per case of `listenForControlPacket`, and `ReadDone` for
`mainAction`. A chunk is up to 20 characters; the model keeps which answer it belongs to, its place
there, and whether it completes the message the daemon looks for. A register's value read as text
is `garbage`, text read as a register an unknown word, and text read with too small a length `cut`.

The network keeps the order of datagrams (one direct link), loses those named in `Lossy` and
delays `MaxLate` answers beyond the daemon's time-out. Left out: the commands' meaning, the
simulator's shut-down, failing `send` calls, register set-up at start.

### State and actions of DatReader, FitsWriter and Conversion

`rd` holds the fields of `dataFileReader`, `files` the packets of each file. `NextFile` and
`ReadPacket` are the two things `getWord` may do before it has a word; each iteration of a
`bin_to_...` loop is one action (`FitsWord`, `InterleavingWord`, `SmartWord`, `RawWord`,
`CalibrateWord`), and the end of each function is split where files change: `SaveCounts`,
`DeleteDats`, `CompressFits`. `Kill` may come between any two; `readOldDatFiles` then starts over
with what is on the disk and with its own options. An access outside a vector is undefined
behaviour of the C++ code and ends the behaviour (`phase = "undefined"`; `MisplaceWord` is the
case of a channel that shows up before a lower one).

A sample's value is the number of its word, so an image says which samples it is made of. The
average of the smart conversion is kept as a sum and a divisor; of the noise correction of the
interleaved conversion the model keeps which integrations are used; the sums of the calibration
and the header of the image are left out. Channel ids count from 0: the conversion compares them
and pads `channelIndex` with -1 below the first, so that a higher start changes nothing but its length.

### State and actions of SequencerCompiler, LegacySequencer and SequencerRuns

A line is a record with its keyword and its word; a word has the readings the compiler makes of it
(text, number in base 10, bits in base 2, whether it is binary throughout), so a conversion of text
is a field and not the identity. `CompileLine` is one turn of the compiler's loop over the lines,
its record `c` the members it changes. `seq` holds the handler's members; `loadNewSequencer` and
`changeSeqVarValue` keep what the code keeps when they fail. `SequencerRuns` lets the board execute
the code instruction by instruction (`BoardStep`, from the opcodes and execution times that the
compiler assumes; the real board is not in the repository) and compares with `Meaning`, a reading
of the lines that knows nothing of addresses, jumps or clocks.

### State and actions of SmartSequencer, BoardSimulator and Settings

A document is a record of its sections, the elements of `<sequence>` nested records. Each function
that can fail says how it ends: `ok`, `exception` (a `sequencerException`), `crash` (anything else
that ends the daemon) or `hang` (names that refer to each other). Recipes are linked to mother,
daughter and sister while the element tree is walked, as in the code, and written into the board by
the commands `makeCommandsToBoard` composes. `BoardSimulator` follows those links (`Runs`) and counts
the samples of a readout.

In `Settings` each command of a client is an action that contains the uploads it makes
(`load_seq`, `UploadSmart`); one command of an upload may be lost, executed by the board or not.
The calibration is two actions, before and after its readout. A standard readout changes no setting and
is an action only for its bad end (`cmd_start_standard_readout`): the size of a smart image is computed
after the data are read, and what fails there ends the daemon. `Die` is an exception that nobody
catches, or an endless loop. `incomplete`, `document` and `colsByUser` are history variables.

### State and actions of MasterBroadcast

Each master has its place `pc` in `main`, the boards left to visit `todo`, and `resp`, the member
of that name. `conn` is the connection of a master to a daemon, `queue` the backlog of its listening
socket, `serves` its `client_sock_`. `connectSocket`, `sendMessage` and `listenForReply` are one step
per board; the reads that follow one `select` are of different connections and one step. A master
may be interrupted at any step (`Interrupt`), a daemon may die (`Crash`) or stop waiting for a slow
master (`ReceiveTimesOut`), and it dies when it prints for a master that is gone (`Says`: the first text
breaks the connection, the next one raises SIGPIPE). `executed` is a history variable.

## Runs

| Run | Instance | Shows |
|---|---|---|
| `readout` | 2 commands, 2 packets per sequencer start, expected count 1 or 2, one failing open, files of one packet, all exposures | the type invariant and the properties below, over all interleavings |
| `readout_liveness` | 2 commands, 1 packet, one failing open | `CommandsEnd`, `ClientsServed` under `FairSpec` |
| `refused_read`, `voltages_left` | the smallest instances that show them | two disagreements between the code and what it says (below) |
| `handshake` | 2 commands; answers of one chunk, of three, and of an error; two lost requests, answers or `MASTER_DREADY` writes; no late answer; the data thread ends between transfers | `TypeOK` and the text properties below, `CallsReturn` under `FairSpec` |
| `misaligned` | 1 command, one late answer | text made up from a register |
| `read_done_race` | 1 command that starts the sequencer, whose end may overtake the daemon | a call that never returns |
| `conversion` | readouts of all five kinds, of 0 to 12 samples per channel, short, exact and too long, with 3, 4 and 5 channels; two packets of up to 6, or one of more, lost, doubled or swapped; all runs of packets lost that are one period of the word or of the packet counter; one file or two, split anywhere; compression that fails, a kill anywhere, one `readOldDatFiles` | what the images hold and what happens to the data |
| `sequencer` | all bodies of up to 3 lines over 6, three long ones, nine with flaws; each user with a second file that compiles and one that does not, and two values for the variables | compiled code does what the file says |
| `sibling_loops` | bodies of one line, and the long ones | an iteration that `endsync` leaves unsynchronised |
| `settings` | users with legacy files, with documents of all 14 nestings of 4 elements, with 22 flaws, with dynamic variables over one region, three and six, with both kinds of sequencer; one lost command | the daemon's settings, the documents and the board agree |
| `master` | 2 masters, for all boards or for one, 2 boards, replies of up to 2 pieces read one at a time, one daemon that dies or stops waiting | the properties of broadcasts, `MasterEnds` under the fairness below |

The bounds. Two commands are enough for a command to meet whatever an earlier one left behind
(status -1 after a failed open is permanent, and all other state is reset by the next start). Two
packets with one-packet files make a roll-over happen, and 1 or 2 expected give too few, the right
number and too many. One failure is enough: after a failed first open the thread never runs again,
and after a failed roll-over the process dies at the next packet or at the close.
For `handshake`, two commands let text of an abandoned answer meet the next command, three chunks
leave text behind the one being taken, and two losses hit a request and its repetition.

For `conversion`, packet and word counters wrap at 4 and 16 (256 and 16 in the code) and the start
is 3 packets long (20), so that readouts of a few packets meet a wrap, the end of the start and what
comes after it; the chunk of 10 words (`FITS_CHUNKSIZE`) is flushed in the middle of a row. Two faults
let one hide another. Packets are of one sample of each channel (a period of the word counter is four of
them), of two (two of them), or end inside samples (10 words), so that whole periods are lost at the
start, after it and at the end (`Wrapping`, `PeriodLost`). For `sequencer`, three lines over six make every pair of keywords follow or
nest; the long bodies have loops three deep and the two orders of siblings. For `settings`, four
elements have every combination of child, sister and return to a higher level; one lost command is
one more than the code answers to. For `master`, two masters and two boards are the least that can
disagree about an order, and one fault is the least that makes a broadcast partial.

`CHECK_DEADLOCK` is off where the system really stops: clients that have no commands left and a
crashed process (`Readout`), a readout that is converted (`conversion`), a program at its end
(`sequencer`), a dead daemon (`settings`), masters that have ended (`master`).

Properties:

- `ThreadOwned`: the thread exists exactly while the command that created it runs; it is past the
  caller's arguments when the creating call returns; it has closed its file before conversion.
- `NothingDropped`: from the sequencer start on no packet is dropped; in particular the flush of
  stale data is over by then.
- `FilesHoldSamples`: the listed files hold every counted sample, across roll-overs.
- `NoEarlyEnd`: a readout that no timeout ended has the samples that were asked for.
- `ExposureUndone`: an ended exposure stays undone, and the startup timeout never comes first.
- `JoinedOnce`: no thread is joined twice, unless a data file could not be opened.
- `OneRecordingAtATime`: `Readout` implements `Recording`, with the thread's life as the recording
  and `sampsRead` as the image.
- `CommandsEnd`, `ClientsServed`: no command hangs, and every client is served.
- `TextGenuine`: text from the board arrives from the start of an answer, chunk after chunk, none
  invented, cut, repeated or skipped, and never after text of a later answer.
- `AnswersThisCommand`: what `talkToBoard` collects is the beginning of its own command's answer,
  even when an earlier listener gave up half-way.
- `TextOffered`: the board never holds text that it neither offers nor is about to offer.
- `CommandsExecuted`: `CtrlHandshake` implements `Dialogue`: re-sent requests execute nothing
  twice, and `sendCmdEthe` does not end before the command is executed.
- `CallsReturn`: a call into `Ethernet` comes back.
- `ImageIsTheStream`: each HDU holds the samples of one channel, in order, from the first on, however
  they were chunked and split over files.
- `DataGoodSound`: "data good" is said only of an image that holds a contiguous run of the samples
  the board sent, where faults show (`FaultsShow`): nowhere was a whole period of the word counter lost, unless it
  was after the start and not a whole period of the packet counter. Of such losses the code knows nothing; the
  run has them, and in some of its recordings data good is said of an image with a hole.
- `Recoverable`: killed at any step, a readout of all the channels is still to be had from data
  files or from an image. Excepted is a failed compression with `keepTemp` off, where the code deletes
  the image.
- `ToolKeepsData`: `readOldDatFiles` never deletes data files with data in them.
- `SmartRows`: smart images have every complete row at its place, and each average is that of its
  own samples. For rows with at least one sample: an empty row is written only when pixels of a later
  row come.
- `InterleavedPixels`: an interleaved image has all the pixels, each with the noise seen by the other
  two channels at its own times. Stated for more than one column, and for numbers of columns whose remainder
  by 3 is not 2 (`InStep`): the others leave the channels out of step when a chunk is converted, and with a
  single column it is converted when only channel 0 has a second integration.
- `InBounds`: a readout of the expected size with nothing missing never reaches outside a vector (same
  exception, where the unsigned loop bound underflows).
- `LoopsNest`: the code for the board ends, once, and each of its jumps ends the innermost loop that is
  still open, whatever failed before; the board keeps its loops on a stack.
- `CompiledRunsSource`: the board does what the file says with the values the daemon reports, after any
  loads and changes that failed.
- `SyncedLoops`: an iteration that ends with `endsync` takes a multiple of 20 clocks, for loops that
  are nested and not next to each other.
- `ExpectsWhatIsSent`: the daemon expects as many samples as the uploaded sequencer sends. For users
  of one kind of sequencer whose last upload was complete.
- `BoardRunsDocument`: the recipes on the board, followed from mother to daughter to sister, do what
  the document says. For documents whose steps name a state (`StepsNamed`): `timeToDataPR` inserts an
  empty state for a text that names none, so such a step becomes one with all signals off.
- `SmartImageIsReadout`: a smart image has the rows the daemon believes the readout has, and all the
  samples the board sends, for partitions into one region or many and after changes of the variables that
  widths, rows and samples are named by. For dynamic variables whose values are equal, by whatever
  names, since the simulated board keeps a single one; and for images whose size is computed
  (`DimensionsOutcome`: without rows, with a width of zero or with too few values the daemon ends).
- `CalibrationRestores`: the calibration leaves sequencer, dimensions and board as it found them.
- `AllOrNobody`: a broadcast that could not reach every board is executed by none.
- `SameOrder`: all boards execute broadcasts in the same order.
- `ReportSound`: a reply without an error is all the board printed for this command, in order.
- `MasterEnds`: a master that has the lock ends.

What `handshake` takes for granted is what the code has no answer to. A lost `MASTER_DATA` is a
command that is acknowledged and not executed; a lost `SLAVE_DACK` leaves `recvCmdEthe` polling
(START) or the text untaken (END); `Lossy` leaves these out. A late answer (`MaxLate`) and the end
of the data thread during a transfer (`Overtaking`) have the two runs of their own.

Fairness. `WF(Main)` and `WF(Thread)`: the operating system schedules both threads; each waits only
by polling, so the fairness of the whole process is enough. `WF(BoardSends)`: the board goes on
sending what it has. `WF(QuietTick)` and `SF(ClockTick)`: time passes; the clock is strongly fair
because it is enabled only at the loop's sleep, which the main thread leaves again and again.
Nothing obliges a client to send anything. In `CtrlHandshake`, `WF(Daemon)` and `WF(Board)`: both
programs run, and a listener's time-out comes sooner or later (strongly fair, since its clock is
looked at only between two polls). In `MasterBroadcast`, weak
fairness of each master's steps and of each daemon's `Accept`, `Receive` and `Finish`: processes are
scheduled, and every command of a daemon ends (which is what `CommandsEnd` shows of the commands that
read, and an assumption for the others). Nothing obliges a daemon to print, to die or to be slow.

The disagreements found:

- A read refused with "currently reading or transfering data...nothing done" starts the sequencer:
  the refusal returns `readingFlag`, which is 0 after a failed open, and the caller reads 0 as
  success (`refused_read`).
- Switches and voltages are restored only inside the waiting loop. When data come before the
  exposure is over and then pause, the loop ends first and they stay changed (`voltages_left`).
- A re-sent request may be answered twice; the second answer is taken for that of the next request,
  which a TODO in `ethernet.cpp` wonders about. From then on every answer is one behind
  (`misaligned`).
- The simulator's `mainAction` offers "Read done" while the daemon is between the two
  acknowledgements of another chunk; the daemon then waits for an END that never comes
  (`read_done_race`).

- `endsync` is said to sum "all the number of clocks in the sequencer nested in this loop". The sums
  are indexed by the depth of nesting but a new one is appended for each loop, ended loops included;
  for the second of two loops in a row the delay is computed from the clocks of both
  (`sibling_loops`).

The model also has these behaviours of the code, which contradict nothing the repository says and are
excepted, where they matter, by the conditions named in the properties:

- Legacy compiler: a delay or a status after the last top-level loop indexes `loopInTime[-1]`; an
  unknown name in `loop` compiles to 2^29 repetitions; a second definition of a variable renames it to
  its new value; a literal after `|` is not joined, the variable joined before it is used again; an
  operand of `|` that is not binary throws where nobody catches; a failed change keeps the new value;
  `load_seq` uploads on after a failed command.
- Smart sequencer: names that refer to each other hang the daemon; an unresolvable number that is set
  throws where nobody catches, and so does the size of an image that is not two-dimensional, after its data
  were read; no rows or a region of width zero end the daemon at the same place; setting a variable to the value it has reports success without an upload, also
  after an upload that failed.
- After both kinds have been loaded, `getSeqGood` of the legacy one decides: the legacy sequencer runs
  with the smart one's dimensions.
- Masters: the exit status is 0 whatever happened; without a configuration file there are no boards and
  no error; accepted sockets inherit the 200 ms timeout of the listening one, so that a daemon may
  close a connection before its master has sent, and the master does not look at what `send`
  returns; the second text to a client that is gone ends the daemon.

## Proofs

Each theorem is proved for every value of the constants that satisfies the assumptions named in
the module of its constants: `DumpAssumption` and `ReadoutAssumption` (positive file size, natural
bounds, integer counts), `CtrlAssumption` (the constants are typed), `MasterAssumption` (any
number of masters, boards and faults, replies of any length), `ReaderAssumption` and
`ConversionAssumption` (counters of at least two values; a recording is at least one file of typed
packets, since the constructor of `dataFileReader` opens the first file without a check;
`calculateSmartImageDimensions` gives a smart image at least one row and every row the same number of
pixels, and ends the daemon otherwise; the packets a board sends have words; the image taken for a calibration has a margin
around the region used), `SequencerAssumption`
(a file is a sequence of lines, whatever words they hold). Two groups of theorems about the control
protocol assume more, and two about interleaved images that there are four channels
(`LTA_NUMBER_OF_CHANNELS`; the pairs of channels are written into the code); see there.

| Module | Theorem | Property |
|---|---|---|
| `ReadoutProofs` | `TypeCorrect` | `TypeOK` |
| | `ThreadIsOwned` | `ThreadOwned` |
| | `NoDoubleJoin` | `JoinedOnce` |
| | `NoPacketDropped` | `NothingDropped` |
| | `NoReadoutEndsEarly` | `NoEarlyEnd` |
| | `ExposureIsUndone` | `ExposureUndone` |
| | `FilesHoldAll` | `FilesHoldSamples` |
| | `ImplementsRecording` | `OneRecordingAtATime` (refinement) |
| `HandshakeProofs` | `TypeCorrect` | `TypeOK` |
| | `CommandsAreExecuted` | `CommandsExecuted` (refinement) |
| | `TextArrives` | `TextGenuine` |
| | `AnswersBelong` | `AnswersThisCommand` |
| | `NoTextIsStuck` | `TextOffered` |
| `ConversionProofs` | `ToolDeletesNothing` | `ToolKeepsData` |
| | `ReadoutsSurvive` | `Recoverable` |
| `ImageProofs` | `ImagesAreStreams` | `ImageIsTheStream` |
| | `ConversionTypeCorrect` | `TypeOK` |
| `PixelProofs` | `RowsInPlace` | `SmartRows` |
| | `EveryPixelCorrected` | `InterleavedPixels` |
| | `ReadoutsStayInBounds` | `InBounds` |
| | `GoodDataAreARun` | `DataGoodSound` |
| `MasterProofs` | `TypeCorrect` | `TypeOK` |
| | `BroadcastToAll` | `AllOrNobody` |
| | `BroadcastsInOrder` | `SameOrder` |
| | `ReportsAreSound` | `ReportSound` |
| `SequencerProofs` | `TypeCorrect` | `TypeOK` |
| | `LoopsAreNested` | `LoopsNest` |
| | `SyncedLoopsHold` | `SyncedLoops` |
| | `SyncDelayCompletes` | |

Every inductive invariant, or each of its conjuncts, was checked with TLC on the instance of the
component's run before it was proved.

**Readout.** The properties speak of one or two places of one thread and are not inductive. `IInv`
is: it says for each position of the readout thread what the flags and main's position can be
(`ThreadInv`), the same from main's side (`MainInv`), and when a stream is open (`FileInv`). The
crucial facts are that `readingFlag` is 1 while a thread runs unless main is in `join`, that status
0 with a live thread means it has not announced itself, and that status -1 outlives the thread that
set it. `NoEarlyEnd` and `ExposureUndone` need strengthenings of their own (`EndInv`: the count is
complete wherever the thread or main believes so; `ExposureInv`: the order of the two exposure
steps within a turn of the loop). `FilesHoldSamples` speaks of a sum over the files; `FilesInv`
replaces it by what makes it one, full files but the last, from which the sum follows.

**Control protocol.** `CommandsAreExecuted` assumes only that the datagram with a command is not
lost (`MASTER_DATA`: the code has no answer to that, a command is sent once). Requests and answers
may be lost, late or overtaken. The invariant `CInv` is about the order of datagrams: a command
under way is the only one and was not executed (`OneCommand`), it is ahead of the writes that
start its acknowledgement (`Ahead`), and the acknowledgement alternates between start and end once
per command in the three places where it can be: on the way to the daemon, in the register, on the
way back (`Ordered`). That a repeated request executes nothing twice follows.

The other three assume `Timely`: no answer is late, the data thread does not end while text is
taken, commands and `SLAVE_DACK` are not lost. These are what the code has no answer to: the runs
`misaligned` and `read_done_race` show what the first two do, and the board has no timeout for
an acknowledgement. All other requests, answers and writes may be lost, any number of times, the
board may answer anything and there may be any number of commands. `TInv` adds to `CInv` that one
request is under way, at the end of what is (`OneRequest`), where the two acknowledgements of a
chunk are (`OneAck`), that what is offered is there (`Offered`), that an answer under way is what
the board has now (`Answered`), and that what the daemon has received, what it is about to receive
and what the board still holds are consecutive parts of one answer (`Text`, `Collecting`).

**Conversion.** What is deleted depends on whether there are words in the files, but the code
looks at a counter: `ReaderInv` says that the words behind the reader have been counted, so at the
end a count of zero means that there is nothing to lose. `JobInv` and `KeptInv` say what exists in
each phase, which is more than `Recoverable` says at the end. The theorems hold for any recording
and for a kill at any step.

`ImagesAreStreams` follows a word through the conversion. The words handed out by the reader and
those in its buffer are those of the files up to where the reader is (`HandedOut`); every channel's
words are, in their order, what its HDU has been given followed by what is in its buffer, and an
HDU holds what it was given up to the size of the image (`Converted`, `WrittenPart`). Before all
the channels have been seen, when their places among the HDUs may still change, nothing has been
written (`Waiting`); this is the reason for the test of the number of channels in the loop, and the
step where one more channel completes them is the heart of the proof. At the end the buffers are
empty if all channels were seen, and the numbers from 1 to `NumChannels` are all taken.

Type correctness has two facts worth the name. A channel that is given a place is behind all the
lower ones and before all the higher ones that have come (`Ordered`), so a place is that of a vector
or -1, and `MisplaceWord` is the only step that meets -1. And what an HDU is given is cut by what it has
been given before, in each of the conversions (`Within`), so no HDU outgrows the image.

`RowsInPlace` follows the pixels of one channel. Those that have arrived are, in order, the rows written,
the filled part of the row being filled, and what is left (`Rowed`); a turn of the loop uses pixels or
ends a row, so the turns that the model takes are enough (`Todo`); and what `dump_to_fits` is given
always fits, so nothing is cut off. A row's average is over a part of the row only, and does not
change when more pixels arrive (`AverageStays`).

`EveryPixelCorrected` and `ReadoutsStayInBounds` are about the readout expected: after every word, `q` samples
of each channel have arrived, and one more of the first `r` (`Arrived`). `K` pixels of each channel are in
the image and the samples after `3K` are in the vectors (`Interleaved`). A chunk is converted right after
the sample that makes channel 0 longer than a row; then all four channels have as many whole pixels to
give exactly if the length of a row is not 2 more than a multiple of 3, and every vector has the two
samples that the unsigned bound of the loop needs exactly if a row is longer than 1. This is where
`InStep` comes from; that it must exclude a single column was found by this proof. At the end `3K` plus
what is left is the whole readout, so that the last pixels are whole too.

`GoodDataAreARun` is `DataGoodSound`, whose condition `FaultsShow` is about what was lost between
two packets that arrive one after the other, in words and in packets (negative when a packet came again or too
late): no words, or not a multiple of the word counter's period, or, from the packet on that the code
begins to look at packet counters with, not a multiple of theirs. Without the condition the property is false of
the code, and the run `conversion` has the recordings that show it: a multiple of 16 words lost among the first packets,
or later 256 packets (4 in the run) with a multiple of 16 words; and when packets end inside samples, a
readout longer than expected that loses its first and its last packet is called good with some channels a
sample apart from the others (10 words a packet, 10 samples of 4 channels for an image of 5 pixels), which is why
the first packet to arrive must begin with channel 0. That such losses move a counter is the lemma
`CountersShow`: two numbers that differ by other than a multiple of the period are counted
differently. The proof follows the reader: as
long as it has counted no gap, the words it has passed are consecutive (`RunInv`); `save_counts` finds as
many samples in each channel as pixels are expected (`GoodInv`); and a run in which every channel has
the same number of samples, from a whole sample on, gives every channel the same stretch of them
(`SamplesOfRun`).

**Masters.** `SameOrder` speaks of what daemons have executed; which of two masters comes first is
settled earlier, when they connect. `Precedes(b, m, n)` says that m is before n at daemon b: executed
before it, or before it in the queue, or served while it waits, or closed before that. Whoever holds
the lock and connects is behind all the others everywhere (`NobodyBehind`), daemons serve their queues
in order, so the only steps that add to `Precedes` are those of the connecting master, and those put
it last at every board (`SameWay`). The rest of `IInv` is what this needs: who holds the lock
(`Locked`), that a master has no connection before it connects (`Fresh`), that a queue holds each master
at most once and only those marked so (`Queues`), that a daemon executes only what was sent, once, and only
for connections it has served (`Received`, `Once`), and that a master that failed to reach a board has sent
nothing (`NothingSent`, which gives `AllOrNobody`). `ReportSound` needs that, as long as a master
runs, what it has read and what is still on the connection are together what the board has printed
for its command (`WholeReply`), and that a connection reported without an error has been read to
its end (`ReadToTheEnd`).

**Sequencer.** For every number of clocks the delay of `endsync` is 1 to 20 and completes the
iteration to a multiple of 20. `LoopsNest` is about a fold over the lines: `CodeInv` holds after each
of them, whatever words and values they use and whether or not one has failed. It says of the
addresses on the stack of open loops that they are those of loop instructions, one inside the
other, and none of them between the start and the end of a loop that has been ended (`Open`); this
is what makes the next end of a loop the end of the innermost one. The handler keeps `Complete`
code through all that fails (`HandlerInv`).

`SyncedLoopsHold` says of any file, whatever loads and changes were made and failed, that each iteration
of a synchronised loop takes a multiple of 20 clocks on the board. Code has a profile: its clocks from
the beginning to each place, each loop taken once, and the loops open there (`Profile`). While a file is
compiled whose loops do not begin after another has ended, the compiler's `loopInTime`, summed from
a loop inwards, is the profile's clocks since that loop (`Timed`): this is what `endsync` completes to a
multiple of 20. On the board a loop is repeated, so its clock is not the profile's; but it differs from
it by a multiple of 20 at every place, and so does the beginning of every open loop (`Running`).
Loops one after the other are where `Timed` fails, as the run `sibling_loops` shows.

**Folds and recursive functions.** The provers cannot use an induction rule that takes a predicate
as a parameter, so there is no proof by induction in these modules. What replaces it is in
`SequenceFacts`: a set of counterexamples has a least one (`SmallestNumber`). Recursions over
numbers and over the sets a fold goes through have solutions (`RecursionHasSolution`,
`SetRecursionHasSolution`), hence the function that a fold or a recursive definition *chooses*
satisfies its recursion, and facts about it follow from least counterexamples.

**Only model-checked.** The liveness properties (`CommandsEnd`, `ClientsServed`, `CallsReturn`,
`MasterEnds`): the provers do not reason about fairness and `ENABLED`. `CompiledRunsSource`: that
the board's run is the meaning of the lines is an induction over programs. `SmartSequencer`,
`BoardSimulator` and `Settings`: names are resolved and nested elements traversed by recursive
operators, in modules with which the prover loses its arithmetic.

## Plan

Done: the readout and its proofs; the control protocol and its proofs; the conversion and the
proofs of all its properties; the two sequencers, their settings and
the board that runs them, with the proofs about the legacy one; the masters and their proofs. What is
left, in this order:

1. `Settings`: state what the daemon should do for users of both kinds of sequencer; recursive
   functions in place of the recursive operators, to prove its types.

## Not modelled

- Vendored code: the logging library and two copies of the XML library, with an unused prototype in
  `smartParser`, are more than half of the repository's lines. They hold no state of the
  daemon and no definition here translates them, so the share of all lines that is mapped stays low however
  much of the daemon is modelled.
- `getsoft`/`setsoft` of single values, file names, `multi`, image header variables: assignments and
  formatting without order between them.
- `configureBoard`'s register set-up, telemetry and the simulator's shut-down and sample values: I/O.
- The arithmetic of the calibration and of samples, the FITS header, the durations of smart recipes (floating
  point; that they can throw is modelled).
- `pthread_create` that fails: `start_readout_thread` then waits for ever, as its hazard in `PROJECT.json`
  says.
- Parsing of command lines, of the masters' configuration file and of XML; the text of messages; the
  front ends `seqTools` and `bin_to_fits_interleaving`.
