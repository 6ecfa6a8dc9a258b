# wmr-collector in TLA+

Two programs record what an Oregon WMR88 weather station says. The *forwarder* (`src/forwarder`, C) sits at the
USB device and writes every report of the station to all TCP clients that are connected. The *collector*
(`src/collector`, C++ with boost::asio and mysql++) is such a client: it finds the packets in the byte stream,
checks and parses them and keeps a table of readings in MySQL.

This directory holds TLA+ models of both, checked with TLC on small instances, and TLAPS proofs of the results
that can be had for every size. `PROJECT.json` lists the runs, what each definition models (file and lines), the
mutants that show that each property can fail, the hazards the properties are aimed at and the findings.

    tlc -workers 2 -config MCPipeline.cfg MCPipeline.tla     # any run of PROJECT.json
    tlapm FrameDecoderProofs.tla                             # and the other modules named ...Proofs

## Inventory

| part | state it keeps | operations | hard because |
|---|---|---|---|
| stream decoder, `IoHandler::readComplete` | `m_state`, `m_pos`, `m_data` across reads | one byte through the switch | packets cut and merged by reads; streams joined in the middle; payload that looks like a marker; `size_t` counted down |
| packet format, `WmrMessage` | none | `packetLengthForType`, `checkValidityAndCopyData`, `parse` | bit fields, 16 bit checksum, lengths the parsers rely on |
| recording, `MysqlDatabase::addSensorValue`, destructor | `m_numericCache`, `m_lastInsertIds`; the table outlives the process | update the end of a row, insert a row | two queries that may each fail; crash in between; memory and table must agree |
| rain amount, `Database::convertRainAmountValue` | last amount, delta, time | a window of 15 minutes | gaps, late messages, counter resets |
| schema, `connect`, `createTables`, `createSensorRows` | the database | create what is missing | failure or crash half way |
| connection lifecycle, `main`, `IoHandler` | the asio queue, watchdog, `m_active`, main's `running` | connect, read, close, retry, stop | two threads, a queue of handlers, cancelled timers, signals blocked most of the time |
| pidfile of the collector, `PidFile` | the file, its lock, `m_fd` | acquire, write, destroy | lock lost by `daemon()`; unlink by name |
| options, `Options` | the settings, three debug streams | parse | two sources of options, a stream that is set more than once, values that are not cut at their commas |
| forwarder event loop, `event_loop` | `clientfds`, two timestamps, the epoll set | accept, read and forward, discard, remove, timers | edge-triggered events, descriptors reused, the table changed while it is walked, writes that fail or block |
| forwarder process, `main` of forwarder.c | `g_running`, pidfile, the two descriptors | start up, open, listen, loop, retry, leave | signals outside the wait, restart after unplugging, a pidfile that is locked only while it is written |
| init script of the forwarder | the pidfile | stop: read, kill, remove | three steps during which instances come and go |
| build files | none | none | none |

Interactions: the station's reports go device -> `event_loop` -> one TCP connection per client -> `IoHandler` ->
`WmrMessage` -> `MysqlDatabase` -> table. The collector's main thread and its I/O thread share the handler's
queue and `m_active`. Both programs talk to the kernel (epoll, timers, signals, file locks) in ways the models
have to spell out.

What makes each part correct, in a sentence: the decoder hands over exactly the packets in the stream, over all
connections each one at most once; a measurement is recorded as the station sent it, and the rain that is
recorded is the rain that fell; a client of the forwarder gets every report once and in order while it is
connected, and the station is kept awake; the rows of a sensor are consecutive intervals, and what the program remembers is about the last of them; a
connection is always watched over, nothing is decoded after it was closed, and signals end the program; the
schema becomes complete unless its creation was interrupted; a pidfile is gone when all instances have ended, and
never names one that has ended in order; an option is obeyed or refused.

## Modules

### FrameDecoder, FrameStream, WmrMessage: the stream decoder

`WmrMessage` has the packet types, the length table, the checksum (16 bits) and the validity test as operators.
`FrameDecoder` is the loop of `readComplete`, one action per case of the switch (`StartMarkerByte`, `FlagsByte`,
`TypeByte`, `DataByte`), one for the completion of a read (`ReadComplete(n)`, any number of bytes the socket has
up to `maxReadLength`) and one for `readStart`. `m_pos` is an integer; that it never goes below zero is part of
`TypeOK`. Logging is left out. `window`, `preamble`, `sent` and `parsed` are history variables; `window` holds the
bytes seen since the decoder last started over.

`FrameStream` says what that loop is for without its registers: the first `0xff 0xff` of the window opens a
packet, its length follows from its fourth byte, it is handed over at its last byte, and an unknown type closes
the window. The reads do not occur in it.

These modules have no run of their own: they are checked as a part of `Pipeline`, which drives the decoder with
the streams it really gets.

### Pipeline: from the station to the parser

`Pipeline` composes the two programs. The station sends packets (`StreamOf`: noise, then real packets; what the proofs
need of such a stream is `WellFormed`: behind the noise the packets follow each other to the end, each with its marker, the
length of its type and a valid checksum); the device cuts the bytes into reports anywhere (`Report`); the forwarder is `Broadcast`, which
`Forwarder` is shown to implement, with the collector's connections as its clients; `Deliver` puts the bytes of a report
into the socket of `FrameDecoder`, from where `Decode` takes them as before. `Connect` and `Disconnect` may happen at
any moment: a connection that ends takes with it what is in the socket and what the decoder has of a packet, because
main makes a new `IoHandler` (`Disconnect` is the end of the loop body of `main`), and the next one begins with the
next report, which may begin inside a packet. What a connection parsed is kept in `collected`.

The properties relate what was parsed to what was sent. `OnceInOrder`: over all connections together the parsed
packets are packets of the station, each at most once, in their order. The decoder cannot promise that alone: a piece of
payload that has a marker, a type and a valid checksum is parsed like a packet. `Unmistakable` says that a stream has no such
piece; the streams of the run are of that kind (`MCStreamsAssumption`). `NoneLost`: on a connection every packet is parsed
of which it has the first byte (`WholeFrom` says which is the first of these), as soon as the bytes that have arrived are
decoded. The exception is in `AtMostOneLost`: when the rest of the packet in which the connection was joined holds two marker bytes in a row, the
decoder takes them for a marker and may lose the next packet, and only that one. This is not so for every stream: a false
marker followed by the type of a long packet may swallow more of short ones, and behind it there may be the next false
marker. `Recoverable` says of a stream that neither happens, and the streams of the run, with UV and pressure packets, are
`Recoverable` too.
`EachConnectionFramed` says that each connection for itself behaves like `FrameStream`; `WindowMatches` relates the
registers to the bytes seen, over connections too.

Run: `pipeline`, three sequences of three packets behind four kinds of noise (a lone marker byte, a whole false start with
the type of UV, and one with a byte of its payload). Payloads contain markers and types; two pressure packets have the
same sum and prefix sums, so that the halves of both would make a packet with a valid checksum. Reports carry five bytes,
less than any packet, so packets lie across two and three of them and reports begin everywhere in packets; reads
take one to six bytes; two connections, of which the second may begin at any report.

### RainGauge, Readings: from a packet to its values

`Readings` has the parsers of `WmrMessage.cpp` as operators: they take the vector of bytes and give the calls of
`addSensorValue` in order, with sensor, value and interval. The station is an encoder (`Payload`, `Packet`) written
from the fields the parsers read, with noise in the bits they ignore. A value is an integer in the unit of the station;
the multiplication that makes a float of it is left out, as is all debug output, which is all that is made of the flags, the
forecasts, the wind chill and the date.

`RainGauge` is `Database::convertRainAmountValue`, one action per branch: `FirstAmount`, `CloseWindow`,
`WithinWindow`. Rain, time, resets of the station's counter and restarts of the collector happen when they like, and
a message may come at any time or not at all. `RainMessage` in `Readings` is a rain packet with its conversion, since
`addSensorValue` converts before it does anything else.

`NeverTooMuch`: the closed windows and the open one hold no more rain than fell since the first message.
`NothingLeftOut`: as long as the counter was not reset, they hold all of it. `WindowsKeepTime`: k windows have taken k times
15 minutes, also after a gap, when the windows that follow close at consecutive messages (so the comment "collect for 15
minutes" at `Database.h:68` holds on the average and not for each window). A counter that was reset costs the rain of
the window, which is why the second property has its condition. `RecordsMeasurement`: what is recorded is what
was measured, but for a gust that equals the average.

Run: `readings`, a window of two ticks over six ticks, so that a gap of two windows and the windows after it fit in; three
units of rain, one reset. The numbers of the other packets lie at both sides of the borders of nibbles, bytes and fields;
channels 0, 1 and 3, and 4, which does not exist. The parsers have no state, so such packets come in the first second only.

What the models show and no property forbids: `SensorUVLevel` is recorded, but `createSensorRows` has no row for it.

### Forwarder, Broadcast: the forwarder

`Forwarder` is `event_loop` with `main`'s loop around it. The wait, each accept, each read and each write to one
client are steps of their own, since peers, the device and signals act between them. `clientfds` is a sequence
(its length is `client_count`), `cl` counts from 0 as in C. The batch of events is a queue of records that name
a descriptor; the connection an event was about (`of`) is a history field. The kernel is modelled as far as the
program can tell: lowest free descriptor, an edge-triggered ready list, an accept queue, and connections that
are established, closed by the peer (`fin`), reset (`rst`: a write fails with ECONNRESET) or reset after the
peer's close (`pipe`: a write raises SIGPIPE, which kills the forwarder). `write_exact` is one step: its partial
writes differ from a whole one only if the connection breaks, and then the client is removed. While a socket is
full the step is not enabled; that is the spinning on EAGAIN (`Spinning`). Time passes in `epoll_wait` and while the
forwarder spins; everything else is taken to be quick. `held` is a history variable, the seconds spent spinning since the
loop last looked at its timers. Bytes of a report are left out: a report has its
number, or is `Void` when there is nothing to forward in it (short read, or a length that is not below 8).

`Broadcast` is the promise: clients join and leave, a report is taken up only when the one before has gone to
every member, and each member gets each report once. `ImplementsBroadcast` is checked with the table mapped to
the set of members.

Runs: `forwarder_clients` (three clients in the table, so that removals hit every place while another client is before
or behind the hole; two reports, so that one loop over the table follows another), `forwarder_events` (two
connections, one of them accepted with the table full; data, close and reset in every order, a peer that stalls,
failing set-up of an accepted socket, SIGTERM anywhere; also the liveness property), `forwarder_time` (intervals
scaled to 3 for the reset, 2 for the heartbeat and 2 for one wait; in six seconds a client leaves, the timestamps go stale
and another joins, or a client that does not read holds the loop up past both intervals; accept without a descriptor to
spare; unplugging and reopening). `KeptAwake` is about both intervals: heartbeat and reset come late by at most
one wait and by `held`. A client that does not read delays them for as long as it likes, and the code does nothing about
that; what holds is that the delay is no longer than the stall, since at the next look at the timers all that is due is sent. Two runs
end in a violation on purpose, see Findings.

Fairness: the process is scheduled (weak fairness of its steps together), a stalled peer reads again in the end,
and a write that is possible again and again happens (strong fairness: the code retries in a tight loop, so it
meets a moment with room). Nothing is assumed of peers, device and user otherwise. Without the second
assumption the property is false: one client that stops reading stops the forwarder.

### SensorRows, Timeline: the recording of readings

`AddSensorValue` is the part of the call that decides; `UpdateRowEndTime` and `InsertRow` are the two queries,
each of which succeeds, fails, or, with `LostReplies`, is carried out but reported as failed. `Destroy` is the
destructor, in which any subset of the updates succeeds. `Crash` loses the memory at any point, `Restart` starts
with an empty one (the table is there: how it comes to be is the matter of `Schema`). Values are model values,
`normalInterval` is one second, so the cache is too old after three.
The clock goes on between the queries but never back. The conversion of the rain amount, which precedes the
rest of the call, is a part of its own.

`Timeline` is the promise: per sensor, intervals one after the other; only the last is changed, only at its end.
A row whose insertion was carried out but reported as failed is an orphan: the program does not know of it, the row
before it goes on being extended beside it, and the promise is about the other rows.

Run: `rows` (two sensors, two values, three rows, four seconds: rows of two sensors interleave, a cached value
expires, a row is lost and written again, or written twice).

### Schema: the start at the database

The queries of `connect`, `createTables` and `createSensorRows`, one step each. What is already on the server
decides about their outcome (a database another instance has created, a row whose key is taken); besides, each of
them may fail for a reason of its own, carried out or not, and an instance may die anywhere. The history variable
`broken` is set when that has happened. Instances are started again and again; there is nothing to bound.

Run: `schema` (three instances, three rows instead of nineteen: a first row, which decides who goes on, one in the
middle and a last one). Under weak fairness of an instance's queries a start leads to a complete schema unless
something fails. What the code does not promise, and the model shows, is the same after a failure: when the
first start ends between the two tables, every later one finds a table and connects, and `numeric_data` is never
created. `OneFiller` says how far that can go: a table `numeric_data` is there only if everything else is.

### CollectorSession: the life of a connection

Main's loop (`Create`, `StartThread`, `SignalTaken`, `PollTimesOut`, `Join`, `WakeUp`) and the handlers of
`IoHandler` against a model of asio: `queue` holds the handlers that are due, `"task"` marks where the reactor
looks for completed operations, socket before timers; `expires_from_now` turns a wait that has not expired into
a `"cancelled"` handler and does nothing about one that is already queued. The history variable `silence` is the time since
the peer last sent anything, or since the connect; it is reset when the peer sends, whether or not the thread gets to read it. Time is discrete and passes only when
neither thread has something to do; timers count down, ages are capped, so no bound on time is needed. Before
the thread is started for the first time signals kill the process; afterwards they are blocked and only
`sigtimedwait` takes them.

Run: `session`, under weak fairness of both threads and of time. Decoding may take any time, since it waits for the
database; the history variable `slow` is set once that has happened, and the two bounds in time are about behaviours
in which it has not; `overdue` is set when a single decoding has lasted as long as the watchdog. The name service is taken to be prompt. The constants are scaled (300, 2, 10 seconds and the
kernel's connect timeout become 5, 2, 3 and 4), which keeps their order.

A fact the model shows and no property forbids: when the timer expires in the same pass of the reactor in which
bytes arrive, the connection is closed although the peer has just spoken. `WatchdogWasSilence` is what holds: when the
timer expired the peer had sent nothing for its full length, or one decoding had lasted that long (the watchdog is
reset by the handler of the next read, which has to wait for the database, so a peer that speaks all the while is then taken for
a silent one). A decoding that takes less costs no connection whose peer speaks meanwhile.

### PidFile, ForwarderPidFile: the pidfiles

Several instances are started on one path. Each step of `PidFile` and of `main` around it that the others can tell
apart is an action: open, lock, connect, `daemon()`, truncate, open again, write, return, unlock, unlink, and a kill
anywhere. A path names a file; an unlinked file lives on for those who have it open. A lock belongs to a process
and a file: a child does not inherit it, and any close of the file drops it. The result of this is that after the
fork nobody holds the lock, so two daemons may run; the properties are about what holds all the same. The
database is one step that succeeds or not. That `daemon()` changes the working directory, so that a relative path names
another file afterwards, is left out.

`ForwarderPidFile` has the same files and processes with `main` of `forwarder.c` (`OpenPidFile` to `LeaveLoop`), whose
lock is the other kind: it belongs to the open file and passes to the child. It is given up as soon as the pid is
written; `WritesUndisturbed` says that until then nobody else writes to the file, unless flock itself failed, which the
code only reports. `Stop` is `stop()` of the init script, which reads the file, kills and removes in three steps. A
process that has ended cannot be killed; that its number may belong to another program by then is not modelled.

Run: `pidfile_unlocked`, see Findings; the other properties are checked in `startup`.

### Options, Startup: how the programs start

`Options` is `Options::parse` as an operator over a command: the options on the command line and those in the file it may
name. What boost::program_options does is modelled as far as the program sees it: a value that was stored first stays,
for the composing options (those of the database) a second one is an error, and of the errors only unknown options
and multiple occurrences are caught. The debug streams are records (active, where it writes, the file its filebuf has
open), set one item after the other as the code does. The name of a file is a sequence, because a value that begins with
`all` is not cut at its commas: everything behind its first `=` is one name (`RestOf`).

`Startup` puts it together: a collector is started with a command, and what `parse` makes of it decides whether there is
a pidfile; then the steps of `PidFile` follow, or those of `ForwarderPidFile` with the script.
`OptionsAsGiven`: what is accepted is obeyed, except that debug flags of the file give way to those of the command line.
`StreamsOnlyAsAsked`: no stream is on that no flag names, one that is named without a file is on, and, unless the
value begins with `all`, a stream writes to stdout or to a file that a flag gives for it. That is less than the usage text
promises (a list of flags, of which `all` and `io` are two, "and their files"), and deliberately so: the code does not keep that
promise, as described under Findings. The target is `<host>:<port>`, where `Options.cpp:82` describes `serial:<device>` and `tcp:<host>:<port>`.

Run: `startup`, four processes and three files: two daemons, or one and two that fail, while a path is made and
removed three times. All commands are tried as long as nobody has started (parsing has no state that others see, so
nothing is lost), later ones only choose between daemon and foreground. Nothing here is fair, as nothing is said to
happen in the end. Processes are alike, so the run uses symmetry; it checks no liveness.

## What is proved

`FrameDecoderProofs` proves, for every alphabet of bytes, every set of bursts and preambles and every size of a
read:

* `TypeCorrect`, `PositionCorrect`, `LengthCorrect`: the invariant `TypeOK`, and `PacketPosition` (state, position
  and collected bytes agree) and `MessageLength` (what is handed over has the length of its type). Their conjunction
  `Inv` is inductive: the length of a finished message follows from `PacketPosition`, which in the state Data says how
  many bytes are missing; it needs the table of lengths (`PacketLengths`).
* `WindowCorrect`: `WindowMatches`, the three registers describe the window. It is inductive together with
  `Inv`, and rests on three facts about markers: a window has at most one (`MarkerUnique`), a further byte
  leaves it in place (`MarkerKept`) and makes one only out of the last two bytes (`MarkerMade`).
* `Refinement`: `Spec => FS!Spec`. Each case of the switch is a step of `FrameStream` (`StartMarkerStep`,
  `FlagsStep`, `TypeStep`, `DataStep`), all other actions leave its variables alone.

The only assumption is `ConstantsAssumption` (bytes are bytes, bounds are numbers). The steps are shown with the byte they
take (`FS!Receive(dataByte)`), for the decoder alone as well as inside of the pipeline.

`PipelineProofs` proves, for every well-formed stream, every cut of it into reports and reads and any number of
connections:

* `PipelineTypes` (`TypeOK`), `PipelineWindow` (`WindowMatches`) and `EveryConnectionFramed` (`EachConnectionFramed`): what
  `FrameDecoderProofs` shows for one connection holds for each of many, for every report that the forwarder may deliver and
  with a disconnection at any moment.
* `ParsedPieces`: whatever else the stream holds, what is parsed over all connections together are pieces of it behind
  a marker, complete and valid, and each lies behind the one before. `ParsedOnceInOrder` (`OnceInOrder`) follows
  under the hypothesis that the streams are `Unmistakable`; it is a hypothesis of this theorem only, not of the module.
* `NoPacketLost` (`NoneLost`): a connection with nothing like a marker before its first whole packet loses none. It
  needs no `Unmistakable`: once aligned, the decoder does not look for markers inside of packets.
* `LostAtMostOne` (`AtMostOneLost`): any connection loses its first whole packet at most. Here the streams are assumed to
  be `Unmistakable` and `Recoverable`, again for this theorem only; `MCStreamsAssumption` has TLC check that
  the streams of the run are, and that there is something among them that runs into a packet.

The inductive `PInv` is what ties the three parts together. `ForwarderOK` and `Served` say that a connection has been
delivered consecutive reports from where it joined, all or all but the last. `InTransit` is the heart: window, read buffer
and socket hold, one behind the other, the bytes of the stream between the start of the window (`Opened`), the byte decoded
next (`Decoded`) and what has arrived (`Arrived`), without a gap; `Idle` says that nothing of it is left between two
connections. `OnceInOrder` needs `PiecesBefore` on top (all pieces lie before `Frontier`, where the window begins or, without
a connection, where the next one can begin), and `NoneLost` needs `Aligned` (the window begins where the packet that
is due begins, or before it with no marker between). With `Aligned` the marker that the decoder finds is the one of the packet
that is due (`AlignedMarker`), that packet is not complete yet (`NotYetComplete`), and when the decoder starts over it is at
the end of that packet (`StartOverByte`). `AtMostOneLost` needs `Resuming`: the connection is aligned with its first whole
packet or with the second, or it is still `Waiting` for one of them. While it waits for a packet, what the decoder finds
is the marker of that packet, and then it is aligned, or a false one before it (`WaitingMarker`); what begins there is not
parsed (`FalseFrame`) and ends before the packet, which is waited for still, or runs into it, and then the next
one is waited for and nothing runs into that any more (`WaitingByte`). Assumed are `PipelineAssumption` (the streams are well-formed, nothing precedes
them, a report has one to seven bytes, bounds are numbers) and `ConstantsAssumption`.

`SensorRowsProofs` proves, for all sensors, values, intervals and bounds:

* `TypeCorrect`, `MemoryCorrect`, `RecordedCorrect`, `RowsCorrect`: the four invariants of the run `rows`. They are
  not inductive by themselves. `Inv` adds `Past` (no row ends before it starts or in the future), `CallMatches` (the
  time of a call under way is not before the end of any known row of its sensor; this is what makes the second query
  as safe as the first), `RecordedCall` (what is left to do of a call is what makes the last row match it) and
  `Stopped` (nothing survives in memory).
* `Refinement`: `Spec => T!Spec`. `LatestRow` ties the remembered id to Timeline's last row; `Extension` and
  `Insertion` are the two ways the table changes, shared by the queries and the destructor.

The assumption is `SensorRowsAssumption`: intervals and bounds are numbers, `None` is no reading and no call.

`SchemaProofs` proves, for any number of instances and rows, `TypeCorrect` (`TypeOK`), `FillerCorrect` (`OneFiller`)
and `CompleteCorrect` (`CompleteUnlessBroken`).
`Inv` adds that the list of sensors is filled from the front (`FilledInOrder`), so that the first row is missing only
from an empty list, and that an instance has made the table before it comes to the rows and begins with the first
(`Positions`). `FillerOf` is the heart of it: a row can be inserted as new only by the one filler, or as the first
row while there is none. Completeness rests on `SomeoneLeads`: as long as no start failed, the part that is still missing
is in the hands of an instance that will not stop before it is made. `LeadKept` is about the queries that change nothing
in the database, `LeadHandedOn` about those that do and so begin the next stage. Assumed is `SchemaAssumption`, that there is a row.

`ReadingsProofs` proves, for every length of the window and all rain, times and resets, the four invariants of
`RainGauge` (`GaugeTypes`, `NoRainTwice`, `NoRainLost`, `NoWindowEarly`). Two of them are not inductive: `CounterShows`
adds to `NeverTooMuch` that the closed windows alone hold no more than fell, which is what is left after a reset, and
`NeverBelow` adds to `NothingLeftOut` that a counter which was not reset is not below the amount that counting started
from, so that clipping takes nothing away. Assumed is `RainGaugeAssumption`: bounds are numbers, a window is not empty.

On top of that it proves `MeasurementsRecorded` (`RecordsMeasurement`) for everything that the station can measure, not only
for the border cases of the run: `Measurable` has all values that four, eight and twelve bits and a sign can hold, and the
counter of the rain any that 16 bits can. The packet of a measurement is valid, whatever the bytes in it add up to (`Framed`,
from `SumRange`: the sum of the station and that of the program are of the same bytes, and a 16 bit sum comes back
from its two bytes), and for each type the parser finds the fields again (`TemperatureParsed`, `RainParsed`,
`WindParsed`, `PressureParsed`, `UVParsed`, `DateTimeParsed`): a word from its bytes (`WordBack`), a number from sign and
magnitude (`SignedBack`), both speeds of the wind from the three bytes they share (`SpeedsBack`). `MessageRecorded` and `RainRecorded`
count the calls. `ReadingsGauge` (`ReadingsSpec => GaugeSpec`) is the step from the parser to the gauge: what reaches
`convertRainAmountValue` is the counter of the station, so the four theorems about the gauge hold of what is recorded.
Assumed is `ReadingsAssumption`: measurements are of that kind, and no more rain falls than the 16 bits can count.

`StartupProofs` proves first of the collector by itself (`PidFile`), for any number of processes and files, `Types`, `NothingIsLeft`, `NobodyGoneIsNamed` and `Alone`.
Each has a strengthening of its own, over `TypeOK` and `HasFile` (who is between open and unlock has a file):
`SomebodyRemoves` (while the path names a file, some process has still to unlink or was killed; this is where it matters
that each destructor unlinks whatever is there, and that a fork hands the duty on), `PidsAreOfRunners` (a pid in any file
is of an instance that got as far as running, so an instance that ends before leaves no name behind; and who ends has
unlinked the path) and `HoldsLock` (from lock to fork the lock is held). Assumed is `PidFileAssumption`, that `None` is
no process.

Then it takes these to `StartupSpec`, where the path may also be a forwarder's, commands may be refused and the
script kills and removes. `StartupTypes`, `NothingStays`, `NamedAreThere` and `AloneAtStartup` hold of both programs, and
`Undisturbed` (`WritesUndisturbed`) of forwarders. A step of a collector is one of `PidFile`, for which the lemmas
above are cited, or a refusal (`Command`, `RefusalHarmless`). For the forwarder `ForwarderInv` has its own parts:
`Holders` (a lock is held only between locking and unlocking), which lets one that is refused rely on the holder to
remove the path (`Removers`), `KeepsLock` (between the two the instance is that holder, a daemon in the place of its
parent), which makes all writes those of one instance, and `Writers` (pids in files are of those that wrote them).
`AsGiven` (`OptionsAsGiven`) is about `parse`, for commands of any length: `Success` says which tests a command has passed,
`BothSources` where an option stands in the two sources together, `OnePlace` that one that is not given twice has one place and
one value. `StreamsCorrect` (`StreamsOnlyAsAsked`) is about the debug streams, for lists of any length. `SetStreams` goes over the
items with a recursive function, so `AfterAll` is shown by induction over the items done: the stream of a module is active
only if one of them names it, writes where one of them says or still to stdout, and its filebuf has no file open
but one of these, which is what makes the refusal to open a second one harmless. Assumed are `PidFileAssumption` and
`StartupAssumption`: a command is two sequences, and what is given for debug is a list, of any items in any order.

`CollectorSessionProofs` proves, for all lengths of the timers, the six invariants of the run `session`: `TypeCorrect`,
`SessionCorrect`, `DecodingCorrect`, `WatchdogCorrect`, `ExitCorrect` and `ReconnectCorrect`. Their base is `Inv`, of which
`Service` is the part that matters. While the handler is live there is exactly one operation on the socket, be it under
way, done and in the queue, or being decoded (`OneOperation`); what is in the queue is in an order in which nothing
outruns what it depends on (`InOrder`); and the watchdog is off until the connection is made and from then on awake or
already expired (`Watched`). Three invariants are added on top of it: `Silence` (what is left of the watchdog and the length of
the silence make up at least its time, unless the peer has spoken since; then there is something to read, and as long as it
is not read the thread is decoding, which `overdue` is about), `Obedience` (a signal that is not obeyed yet is still
pending, and waits no longer than what is left of a sleep) and `Contact` (what is left of the patience in each part of the
loop, the sum of the timers that may still run there). Assumed is `SessionAssumption`: the times are
positive numbers.

`ForwarderProofs` proves, for any number of connections, reports, descriptors, events in a batch and any times,
`TableCorrect` (`ClientTable`), `ServiceCorrect` (`Served`), `WakingCorrect` (`KeptAwake`) and `Implementation`
(`ImplementsBroadcast`: the forwarder is a `Broadcast`). The inductive `Inv` has these parts beside the types and `Served`:

* `Entries`: entries of the table are different open descriptors, and every open one is in it unless it was accepted in
  vain. This is what lets the table be changed while it is walked.
* `Places`: a connection is behind one descriptor or at one place in the accept queue. Without it closing one descriptor
  could end another connection.
* `Fresh`: one that is not accepted yet was written nothing, and during the walk all in the table joined before the
  report that is forwarded. It makes what is owed to them one report longer for all at once.
* `Numbered`: reports in the queue are later than all that were forwarded, so that forwarding one extends the sequence.
* `Timely`: with clients in the table the last heartbeat is the one remembered, and neither it nor the last report is
  older than its interval, the present wait and the time spent spinning since the last look at the timers (`waited + held`). The heartbeat of `KeptAwake` needs both halves.

A step does one of eight things to connections and reports: a connection comes, arrives (is accepted), fails (is accepted
and closed again) or is dropped, all are cleared away, a report is taken up or written, or nothing of this. `Effects` finds
for each action which it is, and the invariant and the refinement are shown for the effects (`Arrival` and `Departure`
are those that change the table, `Removal` says what removing an entry does to it, `OwedSoFar`, `OwedLater` and
`OwedNow` what a connection is owed then). None of this uses
which events are ready or fetched: these four theorems hold for whatever epoll_wait returns, in any order, stale ones
included. Assumed is `ForwarderAssumption`: bounds are numbers, `NoConn` is no connection.

Two more are about the events. `TypesCorrect` (`TypeOK`) says that the table never outgrows its array and that no list names
a descriptor which cannot be there; its parts are `Flags`, `Bounds` and `Lists`. `NoEdgeLost` (`EdgesServed`) says that no
edge is lost: with the kernel's edge-triggered notification an event that is not served at once, or kept, is never
announced again. Its invariant follows the events through a batch: `WatchedOpen` (what epoll watches is open and
accepted), `BatchDone` (a batch is finished before the next wait), and two parts that say where an unserved event
still is: `ClientEdges` (a client that sent, closed or was reset is in the ready list or in the batch) and `SocketEdge`
(while there is somebody in the accept queue the listening socket is in one of the two, or the loop that accepts until
EAGAIN is running). They have to hold across everything that leaves a batch or the list: `Only` says what is left of
a list, and its lemmas are shown by induction over the length. `NoEdgeLost` has a hypothesis that the module has not,
`EnoughFds`: there is a descriptor for every connection. Without it the statement is false: when accept
fails with EMFILE the loop ends as if the queue were empty (`forwarder.c:256`), and the connections left in it wait until
another one arrives. The run `forwarder_events`, which checks `EdgesServed`, has a descriptor for each connection too;
`forwarder_time`, which does not, runs out of them.

What a recursive function computes (the checksum, the ready list, the debug streams) is proved by induction over the set of
numbers for which it holds, `AllNumbers`, which rests on the well-foundedness of the order of `Nat`; that the function
exists at all is built up in the same way (`BuiltUp`).

Only model-checked is liveness: `ClosedClientsLeave`, `StartLeadsToSchema` and `SignalEndsIt`. The proof system has no
rules for fairness and ENABLED that would do here.

## Findings

* `forwarder_backlog`: the device is read once per event although it is registered edge-triggered; of two
  reports that queue up before a wake-up the second waits for the third. The comment at `forwarder.c:311` states
  the rule for clients.
* `forwarder_reuse`: an event fetched before its connection was closed is applied to the next connection on the
  same descriptor, which is closed though it is alive; `forwarder.c:340` relies on close being enough.
* `pidfile_unlocked`: an instance that is refused the lock has opened the file, and its destructor unlinks it
  although another instance holds it; the comment at `PidFile.cpp:45` takes an open descriptor for a held lock.

One more disagreement has no run, since a single call of `parse` shows it: the usage at `Options.cpp:59-60` offers "all, io,
message, data, stats, none" as a list of flags "and their files". But `io=<file>` switches nothing on, because `io` is
compared with six characters (`Options.cpp:159`); `all` is a flag only at the head of the value, where all behind the first
`=` is the name of one file for every stream (`Options.cpp:142-150`), and is ignored behind another flag; `stats` is no
flag at all. A property that says what the usage says is false of `SetStreams`, which models the code as it is.

## Not modelled, and the plan

All parts of the inventory that behave are modelled. What is left out, and why:

* the text of log, debug and usage output, the parsing of words into options, and the build files: no behaviour that a
  property could be about;
* floats: values are integers in the unit of the station, so rounding in the sums of the rain is not seen;
* a clock that jumps back (`MysqlDatabase.cpp:214`), and the end a row should have after an outage
  (`MysqlDatabase.cpp:48`): the code has no answer to either that could be right or wrong;
* when a forwarder that got SIGTERM outside of its wait must stop, and what becomes of connections left in the queue
  by a failing accept: the model shows both, and nothing in the repository promises otherwise;
* the contents of the SQL beyond which rows it touches.

Twelve runs are what this project has, each for a question of its own; merging the three of the forwarder was tried and is
too large for one.
