# A TLA+ model of the quadcopter and its ground station

This directory holds TLA+ modules, TLC configurations and TLAPS proofs for the
fault-tolerant quadcopter of this repository. Paths such as `driver/usart.c`
are relative to `src/`. `PROJECT.json` lists the parts of the system, the runs,
where each definition comes from in the code, what the runs contradict, and the
hazards the properties are for.

## The system

The firmware runs on one core of an STM32F303 without an operating system.
`main` initialises the peripherals and then calls two handlers for ever;
everything else happens in interrupt handlers, which share ring buffers and
peripheral registers with the main thread. On the ground, a Python daemon
passes telemetry and commands between TCP and WebSocket clients, a Python
simulator publishes telemetry to a server of its own, and a Node.js server shows
the quadcopter's channels to web pages.

| Part | State | Operations | What is hard |
| --- | --- | --- | --- |
| Ring buffer `common/pcbuffer.c` | two free-running counters, slots, a count of messages | init, add, remove, empty, full, getMessage | shared with interrupt handlers; counters wrap; a handler may take an entry back |
| USART1 `driver/usart.c`, `common/retarget.c` | tx and rx buffers, CR1, the handler's last two characters | `_write`, `_read`, `_putc`, `_getc`, `USART1_Handler` | check and use apart; CR1 read, modified and written; two producers of one wire |
| LIDAR `driver/lidar.c` | parser state, checksum, distance | one byte per interrupt | joins a stream in mid-frame, lost and altered bytes |
| Main loop `app/main.c`, `common/handlers.c` | tick count, last run | `blink_handler`, `telem_handler`, `SysTick_Handler` | a volatile count read several times in one decision |
| Battery `driver/battery.c`, `common/board_config.c` | current measurement, two converters | activate, start, get | a converter shared by three measurements, flags left over, a start that may be declined in silence |
| Gyroscope `driver/gyro.c` | buffers, callback pointer, peripheral enable, rounds of calibration | `gyro_write`, `gyro_read_xyz`, `setOffset`, `getGyroXYZ`, `SPI1_Handler` | a callback changed under way, a peripheral turned off under way, waits without timeout |
| Daemon `py/telemetry` | outputs by name in two streams, threads, an event loop, sockets | connect, read, write, leave; start and stop of two services | a dictionary iterated and changed by several threads; a handler that dies; stopping threads that wait, and a loop that something else stops too |
| Simulator telemetry `py/classes/telemetry` | queue, client and server threads, a buffer of items | set, publish, stream, serve, store, stop | queued objects that go on changing; an empty queue; a server that goes first |
| Ground station `ui/server.js`, `ui/main.js`, `ui/manifest.js` | manifest; each page's hooks and lights | manifest lines, packets, connections, pages | two connections that race; chunks of any length; pages that come late or come back |
| Boot, command line, control, ESC, timers, I2C, accelerometer, GPIO, flight simulator | registers, numbers | | see "Not modelled" |

The parts interact through calls (`telem_handler` calls the gyroscope and the
battery), through shared memory (main thread and handler on a ring buffer, the
daemon's threads on a dictionary), and through wires.

What makes each correct: a buffer is a FIFO that loses nothing it accepted; a
frame reaches the wire whole; a thread that waits for a handler is served; a
parser finds its way back into step; a measurement's result is its own; the
bytes of a gyroscope poll are taken in the order of its registers; a write to a
stream reaches every output that stays, or fails visibly; a client that leaves
takes its output with it; a service that is stopped has stopped; what is
published is sent, fresh, and stored; a page knows a channel before it gets its
data.

## Modules

| Module | Models | Shape |
| --- | --- | --- |
| `PCBuffer` | `common/pcbuffer.c` | operators on a record with the fields of `PC_Buffer`; no state of its own |
| `ByteFifo` | what a ring buffer promises | abstract bounded queue |
| `Usart` (`MCUsart`) | USART1, with `_write` and `_read` | main thread cut at every point an interrupt may matter; the handler is one action |
| `Lidar` (`MCLidar`) | parser, USART2/3 handlers, sensor | one action for each byte: delivered, lost, altered |
| `Telemetry` | `adc_activate`, main loop, SysTick, battery | one action for each read of `ticks` and each call |
| `GyroSpi` | gyroscope and SPI1 | main thread cut like `Usart`, handler, the peripheral's enable bit and FIFOs |
| `Hub` | what a stream of the daemon promises | abstract publish/subscribe hub |
| `StreamManager` | `py/telemetry/StreamManager.py` | operators on a stream and on an iterator over it; no state of its own |
| `TelemetryDaemon` | `telemetry_entry.py` and `py/telemetry`: both services, both streams, their start and stop | one program counter for each thread |
| `SimTelemetry` | `py/classes/telemetry`, `py/web.py`'s server, `Quadcopter.connect` | one program counter for each thread of clients and server |
| `GroundStation` | `ui/server.js` and the pages' socket callbacks | one action for each callback |
| `PCBufferTheorems`, `UsartProofs`, `LidarProofs`, `TelemetryProofs`, `GyroProofs`, `DaemonProofs`, `SimProofs`, `GroundProofs` | lemmas and theorems | see Proofs |

In the firmware's modules `pc` is the main thread's place in the code, and an
interrupt handler is one action since nothing the modules speak of preempts it.

`Usart`: `pc` walks `putc_check`, `putc_add`, `putc_load`, `putc_store` for each
byte of a frame: the check with interrupts on, the add with interrupts off, and
the load and the store of `CR1 |= TXEIE`. `Write` is the start of `_write`,
whose bytes are in `pending`. A frame's contents are reduced to what the
receiver tells apart: markers, the size byte, and body bytes by their distance
from the end. `receiver` is the automaton that follows the wire; `EchoesApart`
reads the register, the buffer and `pending` for an echo with frame bytes on
either side of it.

`Telemetry`: `TestInterval`, `TestFresh` and `Stamp` are the three reads of
`ticks` in `telem_handler`. `Gyro` stands for the two gyroscope calls, which
`GyroSpi` models. A converter is off, starting or ready (ADEN and ADRDY), and
`Started` is `adc_ConversionStart` with the branch that declines: the rank is
written, and a converter that is off or has a conversion on starts nothing. A
converted sample is the converter and channel it came from. `runs` is a history
variable.

`GyroSpi`: `gyro_write` is `SpiOn`, `WriteAddress`, `WriteData`, `EnableTXE`,
`SpiOff`: the peripheral is turned off right after the two bytes are queued,
while they, and earlier ones, may still be in gyro_tx_buf or in a FIFO. With SPE
clear `Exchange` may go on and need not. A value is the register it is the reply
for. `RXNE` comes with two bytes, since the FIFO threshold is never set, and a
16-bit read takes both; `gyro_xyz_Callback` keeps the second. `skew` is a
history variable.

`StreamManager`: `output_streams` is a dict whose single operations are atomic
under the interpreter's lock. The dict is CPython's: a table of entries in the
order of their insertion, in which a removal leaves an empty place and an
insertion that finds no room makes the table anew without those (`Compacted`).
An iterator is its place in the table, the size it expects, the entries it still
expects and the entry it is at; it is not told when the entries move.

`TelemetryDaemon`: the main thread (`run_forever`, and the two `stop_fn`s after
the interrupt), the acceptor, a handler for each TCP client and the event loop,
in which WebSocket handlers run one at a time. A TCP handler's `write_text` and
`write_binary` are inside `StreamManager.write`; a binary packet that is not
UTF-8 raises in the WebSocket's `write` and kills the handler, as a reset of the
connection does, and then the handler's output stays registered; so does a
WebSocket handler's that is sent an invalid message (`WsInvalid`). A client that
has left may connect again, as another connection would under its own address,
once no write is at its output any more. The event loop's thread walks
`setup` (run_until_complete), `listening` (the server listens, the callback that
stops the loop for it is queued), `between` and `running` (run_forever): a
`loop.stop` taken together with that callback in `listening` is spent. `Hub` is
instantiated twice, with a stream's outputs as members and `Owed` as what a
publisher has still to reach.

`SimTelemetry`: the channel object itself is queued, so the queue is a number,
and `to_json` reads what the channel holds by then. `set_data` is three steps:
value, timestamp, publish. `TelemetryBuffer.put` is `PutTest`, `PutCreate` and
`capture`, since two handlers may be in it at once.

`GroundStation`: `manifest` is the set of indices at which the sparse array has
a channel, and `ManifestLength` its JavaScript length. A chunk of a data
connection is the channel indices it has, in or out of range, none included, and
whether it ends before its count and sizes say. It is `Dropped`, `PassedOn` or
`Thrown`: an exception nobody catches, after the values before it were passed
on, ends the server, and `server` says of what. A message stands for what `emit`
sends; a packet's values and the `data_status` 1 behind them are one message
("data"), values without it another ("values"). `skipped` is history: the
channels known and not told when a page connected.

Definitions named `X_Y` after a definition `X` (as `PutcCheck_NoWait`) are
mutants: plausible bugs, not used by any specification, that show each property
can fail.

## Runs

| Run | Expected | Shows |
| --- | --- | --- |
| `usart_telemetry` | pass | frames reach the wire whole and in order, received characters reach `_read` in order; `Usart` implements `ByteFifo!Spec` in both directions; no byte is left in the buffer with the transmit interrupt off; `_write` returns and the buffer drains |
| `usart_overrun` | violation | `_putc`'s "safely add" overruns when the handler echoes a backspace in between |
| `usart_echo` | violation | a backspace's echo goes out between two bytes of a telemetry frame, on the radio that is not to be forwarded to |
| `lidar` | pass | in step, and tracking the sensor, after four whole frames in a row with no header byte behind their headers |
| `telemetry` | pass | at most two runs of telemetry an interval; results belong to their measurement; none stalls the others, and no converter declines one |
| `battery_channel` | violation | the 3s voltage is sampled from another input |
| `gyro` | pass | bytes in order at a fixed skew of 0 or 1, none dropped, one poll ahead, every wait ends unless the peripheral was turned off with the bytes it waits for |
| `daemon` | pass | the telemetry stream, with two subscribers that come and go, implements `Hub`; an interrupted daemon ends unless its `loop.stop` was swallowed |
| `daemon_commands` | pass | the command stream, with two TCP handlers that come, go and die, implements `Hub`; outputs belong to their handlers; a stopped service has stopped |
| `simtelemetry` | pass | no line is older than what was published; what was sent is stored; what is published arrives; a client can always be stopped |
| `sim_buffer` | violation | the server stores the data of the first line of a channel again and again |
| `ground` | pass | an index in range has a channel, so the server ends of nothing but a chunk too short; a page knows a channel before its data, hooks it once for each connection, and does not go on showing a connection that has closed |

Several passing properties are weaker than one would wish, because the code is.

* `TwicePerInterval` allows two runs: SysTick may come between
  `!(ticks % interval)` and `ticks != last_tick`, after a first run in that very tick, and
  then the test passes again.
* `ValuesInOrder` allows a skew of one: `gyro_config` changes `fun_ptr` right
  after it queues the write to CTRL_REG1, and if that transfer's reply has not
  come yet it is queued as an axis byte; from then on every axis is assembled
  from two neighbouring registers.
* `Resyncs` and `Tracks` count frames without a header byte behind their headers.
  Undisturbed frames that have one, repeated, can hold the parser out of step for
  ever: it takes it for a header each time.
* `DriverReturns` excepts `[]BusStopped`: the driver waits for a reply to bytes
  that stay in the FIFO because `driver/gyro.c:82` cleared SPE. Whether they do is
  not in the code.
* `TelemetryIsHub` and `CommandIsHub` let a write fail: a dictionary that
  changes under its iterator raises in the writer, which kills a TCP handler. And
  they let it pass an output over in silence in one case, `JoinFull`: an output is
  added meanwhile, for which the table has no room and is made anew; the entries
  move, and the iterator goes on from its old place.
* `DaemonEnds` excepts `StopSwallowed`: an interrupt in the very turn in which the
  WebSocket server comes to listen. `loop.stop` and run_until_complete's own
  callback then stop the loop once, `run_forever` has nothing to stop it, and the
  main thread spins in `while loop.is_running()`
  (`py/telemetry/WebsocketService.py:59`) or waits in `join`. This is a defect of
  the code.
* `OutputsOwned` counts a dead handler's output among the registered.
* `SentIsStored` bounds the buffer only for a channel of one publisher: two
  handlers may both find the name missing in `DataBuffer.put`, and the second's
  buffer replaces the first's.
* After `TelemetryServer.stop`, whose docstring
  (`py/classes/telemetry/Server.py:59`) promises to stop servicing existing
  clients, handlers go on storing until the process ends; nothing here says
  otherwise.
* `NoHoleThrows` does not say that no packet ends the server: a chunk shorter
  than its count or its channels' sizes say does (`ui/server.js:128` and the reads
  behind it), with nothing to catch the exception.
* `PagesKnow` excepts the channel that was the only one when the page connected:
  the greeting is sent for `manifest.length > 1` (`ui/server.js:41`). This is a
  defect of the code.
* `ClosedIsShown` is of pages that have not been away, and of a server that is up:
  a page that comes back is told nothing of the data connection, and none is told
  of a server that ended.

### Bounds, and why they are enough

* `COUNT_MOD` is a multiple of each buffer's size, as 2^32 is of 128, and small
  enough that the counters wrap several times in every run. For the
  gyroscope's 255 slots 2^32 is not a multiple; after 2^32 bytes, 22 years of
  polling, the order would break. The run leaves this out: `COUNT_MOD` = 39 is a
  multiple of its 13 slots, and more than the bytes queued before the first value
  is taken.
* `USART_BUF` is 2 against frames of 4 to 6 bytes: the buffer is full, empty and
  everything between in the course of one frame.
* `SIZE_MOD` is 3 with writes of 0, 2 and 3 bytes: an empty body, the longest
  allowed, and one too long, which `_write` refuses.
* `RxChars`: in the passing run a character that is stored and one that is not
  (ESC); the two violations have a backspace instead.
* A LIDAR byte has five values: a header, others, and a sum that wraps. One of
  the two measurements has a header byte in its body. One LIDAR is enough: the
  two share nothing. Four frames are tight for `Tracks`: with three it fails.
* `TICK_MOD` = 8 and an interval of 3: the count wraps between multiples that do
  not divide the range, as 1000 does not divide 2^32.
* The gyroscope has its 6 registers; three calibration rounds stand for a
  hundred; 13 slots are the least that two polls and a stray reply need.
* `daemon` has two WebSocket clients and a TCP client, `daemon_commands` one and
  two: the stream with two outputs is the one whose refinement is checked, since
  one output is passed over only if another comes or goes. Clients come and go
  for ever, so the table of two places fills and is made anew again and again
  (CPython's has five; `Rooms` is what a new table has room for).
* `simtelemetry`: two clients that publish twice between them, a line in each
  connection, a buffer of one: queue, connection and buffer are all full and all
  empty in one run. `sim_buffer`'s one client and depth of two let the newest
  item be told from the first.
* `ground`: three channels, a manifest sent twice, a page that connects twice.
  One page is enough: the server emits the same to all, and a page's messages
  change nothing but the page. `Backlog` bounds the messages under way to a
  page, `Joins` and `Rounds` the reconnections and retransmissions.

CHECK_DEADLOCK is off where the system really stops: a daemon or simulator that
has ended, a ground station whose bounded inputs are used up.

### Fairness

Firmware: weak fairness on the main thread inside a driver call (nothing
suspends it), on a pending interrupt (interrupts are off only for single adds
and removes), and on the shift registers and converters (hardware in progress
ends). SPI1's exchange is fair only while SPE is set: `gyro_write` sets it at
its beginning and clears it at its end, so a byte is sure to go out only while
the driver is queueing. Nothing obliges the program to start a `_write` or
`_read`, the other end to send, or an interval to come: `KeepsMeasuring` is
conditional on telemetry running again and again, and asks nothing of how the
loop and SysTick are paced.

Ground: weak fairness on every thread's own next step, and on a page's handling
of its messages. Strong fairness only on the event loop's taking of
`loop.stop`: asyncio runs callbacks in the order they were queued, so clients
that keep the loop busy cannot hold it off for ever. Nobody has to connect,
send, publish, close, stop or interrupt.

### Assumptions about what is outside

A USART character is read before the next arrives (87 microseconds at 115200
baud), and SPI1's receive FIFO does not overrun; the handlers clear neither
overrun flag, and what would follow is listed among the hazards. SPI1 loses
nothing although `gyro_write` clears SPE at once: what is in its transmit FIFO,
and what the handler still moves there from gyro_tx_buf, goes out at once, or
later, or stays. `ValuesInOrder`, `NoReplyDropped` and `OnePollAhead` rest on
this. The manifest comes in whole lines, as `server.js` takes it; a chunk of a
data connection may be anything. Each operation on a Python dict is atomic, and
the dict is laid out as CPython's is from 3.6 on; an iterator that finds an
entry more than it expects may raise or go on, as the versions differ. socket.io
keeps a page's messages in order while it is connected, and loses what is under
way when it is not.

## Proofs

All for every value of the constants that meets the modules' assumptions and the
hypotheses named here. Every safety property that a passing run checks, invariant
or action property, is the statement of a theorem; so are the refinements of
`RxFifo` and of both hubs, and the safety part of `TxIsFifo`.

`PCBufferTheorems`. Each ring buffer operation keeps a buffer a buffer and moves
`Used` by one modulo the counters' width; and, as sequences, an addition appends
to the contents, a removal takes their head, and an entry taken back was their
last. The order rests on the slots: one more addition must not land on a value
that waits, which holds while the counters' range is a multiple of the size or
the count of additions has not wrapped past the other (`Straight`).

`UsartProofs`. Without any hypothesis: `TypeCorrect` and `NoByteStrandedAlways`.
The type invariant carries two facts that make it inductive: CR1 and the main
thread's copy of it never lose the receive interrupt, and `_putc` is only inside a
non-empty frame. The only step that clears TXEIE does so on an empty buffer, and
the only step that fills an empty buffer is followed by the load and store that
`NoByteStranded` allows for. Backspaces, whose echoes are one more add at any
moment, are included, which the run leaves out.

* With no backspace among the characters received, `TxNeverOverrunAlways` and
  `RxNeverUnderrunAlways`: the handler then only removes from tx and only adds to
  rx, so a check stays true until its use. The runs `usart_overrun` and
  `usart_echo` show that this hypothesis cannot be dropped.
* With, besides, a counters' range that is a multiple of the buffer's size (2^32
  of 128), `RxIsFifoAlways`, `TxFifoSafe` and `WireFramedAlways`. The invariant of
  the last is about everything on its way, in the register, in tx and still in
  `_write`: it is the rest of whole frames (`Framed`), and the receiver waits for
  its first byte. A new `_write` appends a frame to nothing, each step of `_putc`
  and of the handler moves a byte along without changing the whole, and only the
  shift register takes one off.

`LidarProofs`, for any bytes, header, measurements and noise, and at least four
frames: `TypeCorrect`, `ResyncsAlways`, `TracksAlways`. The invariant lists where
the parser can be after each whole frame whose body has no header byte (`Reach`):
anywhere before the first; a byte ahead, or waiting for its second header byte,
after it; where the sensor is after the second. From the third on the sum and
the distance are the frame's as well, and from the fourth the distance reported is
the last one's.

`TelemetryProofs`: `TypeCorrect`; `ResultsBelongAlways`, `NeverStallsAlways` and
`RankOneSamplesAlways` from one invariant, which says for each of the two phases
of a measurement what both converters are doing, and that both are ready from
the end of `adc_activate` on, so that none declines; `TwicePerIntervalAlways`
from `Pace`: while the count is on a multiple, the first run stamped it and
blocks the second at the test of `last_tick`; once it has moved on, only a run
that already passed the first test can follow, and its own stamp leaves nothing
behind it.

`GyroProofs`, for any number of registers, of calibration rounds and of slots
above two polls: `TypeCorrect`, `NoReplyDroppedAlways`, `OnePollAheadAlways`. The
invariant balances the bytes (`Balance`): those in gyro_tx_buf and both FIFOs, and
two for each value in gyro_rx_buf, are two for each register queued and not taken
and two for the stray reply, if there is one. Room follows from the balance.
`ValuesInOrderUntilWrap` adds that the bytes in flight and the values waiting are
the registers in their order (`Ordered`); its hypothesis, that no count wraps
unless at a multiple of the size, is a formula of the same behaviour
(`[][NoWrap]_vars`), and a size of 255 needs it after 2^32 bytes only.

`DaemonProofs`, for any number of clients: `TypeCorrect`, `OutputsOwnedAlways`,
`StoppedIsStoppedAlways`, and the two refinements `TelemetryIsHubAlways` and
`CommandIsHubAlways`. The invariant says that no two entries of a stream share a
place and none is beyond the places used, that only a handler inside a write
iterates, that no iterator is at a client that has left, and that the acceptor is
gone before connections are waited for. The lemmas before it show what each
operation of a stream does to `Owed`: an insertion that finds room adds at most
the new entry (`AppendOutput`); one that does not may take any out, but adds none
that was not owed, since entries only move up and keep their order (`RankFacts`,
`MadeAnew`): what was behind the iterator stays behind it. A removal takes out one
entry, `Advance` passes none over (it goes to the least place ahead, which exists
since places are natural numbers), and an iterator with nothing ahead owes
nothing. Each step of the daemon is then a step of the hub or a stutter. The
command stream's one publisher is the event loop, whichever handler it runs.

`SimProofs`, for any clients, publications and depth: `NeverStaleAlways` and
`SentIsStoredAlways`. The first rests on an account of publications: those made
are those queued, sent, and in the streamer's hands (`QueueTrue`), so the line for
the k-th is made when the channel holds the k-th data or newer. The second
rests on one of lines (`Linked`): those sent are in the connection, in the
handler's hands or stored, until the server resets its end; a lone publisher's
buffer grows with each line stored up to its depth (`Kept`).

`GroundProofs`, for any number of pages and channels: `NoHoleThrowsAlways`,
because the lines come in order and the manifest is always `0..n-1` with the
next line at most `n`, so that "within its length" means "known" and the only
exception left is that of a chunk too short; `PagesKnowAlways`, inductive with
the types, because a message goes to the end of every inbox, behind what tells
the page of the channels, and a page that takes a message off has hooked what it
told; `HookedOnceAlways`, where the hooks a page has, the messages under way
that would hook once more, and the one still to come of a channel the server
does not know add up to its connections at most (`HooksLeft`).

Model-checked only: `WriteReturns`, `TxDrains`, `KeepsMeasuring`, `DriverReturns`,
`DaemonEnds`, `Delivered`, `ClientStops`, `ClosedIsShown` and the fairness in
`TxIsFifo`. They are liveness properties under fairness, which the prover cannot
reason about.

## Not modelled

* Command line (`common/cli.c`): `main` has its call commented out, and the buffer
  `check_input` reads, `rx_buf[2]`, is USART3's, whose handler gives every byte to
  the LIDAR's parser (`driver/usart.c:332`). With it goes `pc_buffer_getMessage`,
  and the message count, which `USART1_Handler` keeps and nothing reads.
* Boot (`common/board.c`, `common/board_config.c`): straight-line register
  settings before the main loop. Its hazards (SPI1's handler running before
  `gyro_config` has allocated its buffers, a heap shared by eight buffers and
  stdio) depend on the vector table and the C library, which are not here.
* Control loop, I2C, accelerometer: nothing calls them at this commit. Speed
  controllers, timers, GPIO: register settings without a protocol.
* The values of measurements: gyroscope offsets (a hundred readings summed in
  16 bits), voltages, the simulator's floating-point flight.
* The pages' sliders, requests to the quadcopter (`ui/ui.js:144`: those already
  queued go out after an abort) and the plots' timers (`ui/manifest.js:164`: a
  stop between a start and its timeout does not stop the even loop).
  `server_status`, which tells every page the server is down when any page goes
  (`ui/server.js:36`). Chunks that split a line of the manifest.
* `ServiceManager`'s refusal to start twice, which `telemetry_entry.py` cannot
  reach; `HttpService`, commented out there; `message_count`, only logged.
* The simulation's countdown (`py/sim.py:31`), which runs past zero for ever when
  the duration is no multiple of the step.
* Readers of the simulator's buffer, which nothing calls.
* Vendored ST and CMSIS code, by far the most of the lines of C in the
  repository: it is register access and declarations, and the parts the drivers
  rely on are modelled from how the drivers use them. The firmware's own C is
  about a twentieth of it; the Python and JavaScript parts come on top.

What would come next: invariants that bring the liveness properties nearer to the
prover (that a thread which waits has a step ahead of it that ends its wait); the
page's plots and requests, on top of `GroundStation`; chunks that split a line of
the manifest.
