# Verification of the arale device tree

TLA+ models of the concurrent programs of this repository (the Android device
tree of the Meizu MX4, `arale`), TLC configurations that check them on small
instances, and TLAPS proofs of their main safety properties for all instances.
Source paths below are relative to the repository's root.

## 1. Inventory

Most of the 5471 files are vendored, binary or data. The code with state and
concurrency of its own:

| part | state | operations | hard behaviour |
|---|---|---|---|
| **multiplexer daemon** `mtk/gsm0710muxd/src` (3GPP 27.010 between the modem's serial line and one pty per logical channel) | `serial` (line, state, ping counter), `channellist[]` (pty, `opened`, `sabm_ua_pending`, `disc_ua_pending`, `reopen`, flow control), a ring buffer, setup flags, `write_frame_lock` | `watchdog()` (open, set up, ping, reopen, close), `thread_serial_device_read`, `assemble_frame_thread`, `extract_frames`, `handle_command`, `write_frame`, one `poll_thread` per pty, `retry_write_pty_thread` | 4 kinds of threads, 6 condition variables, partial reads and writes, flow control in both directions, a peer that refuses, closes, stops answering, noise on the line, restarts |
| **RIL AT channels** `mtk/ril/mtk-ril/atchannels.c` | pending response, `tid_myProxy`, `readerClosed`, the tty's descriptor | `at_send_command_*`, `at_handshake`, `readerLoop`, `at_close`; `mainLoop` reopens | unlocked tests, timeouts, late answers, unsolicited lines inside answers, a second reader |
| **RIL event loop** `mtk/ril/librilmtk/ril_event.cpp`, timers and wake lock in `ril.cpp` | timer list, pending list, wakeup pipe, `s_last_wake_timeout_info`, wake lock | timed callbacks, unsolicited responses, the loop | cancellation that races with the callback, lost wakeups, use after free |
| **RIL command socket** `mtk/ril/librilmtk/ril.cpp` | `fdCommand`, pending requests, write mutex, cache of unsolicited responses | accept, read requests, complete them, report responses, close | descriptor numbers that are used again, answers after a disconnect, failed writes |
| **vibrator daemon** `immvibe` | `threadqueue` (message list, node pool), epoll set, driver handle | `thread_queue_add/get/cleanup`, socket loop, worker | lost wakeups, node ownership, edge-triggered events, a stop behind a long vibration |
| vibrator client `immvibe/api.c`, `cmhw` | stored force (legacy file and property) | get, set, migrate | a crash or a failed write between the two stores |
| lights HAL `liblights/lights.c` | `g_backlight`, `g_buttons`, `g_battery`, `g_notification`, `preStatus`, LED files | one setter per light | two lights share an LED, a cached status, an unlocked test |
| power HAL `power` | gesture control file, preference property | set feature, restore on load | one of two writes fails |
| RIL request handlers, C2K RIL, GPS HAL, graphics, Bluetooth, Wi-Fi, NFC glue | various | | vendor code, mostly data conversion |
| build files, overlays, policy, init scripts, vendored strongSwan and NFC, DRM binaries | none | | |

The radio daemon talks AT commands on the multiplexer's ptys; the multiplexer
starts it (`ctl.start ril-daemon-mtk`) when its channels are open. The phone
process talks to the radio daemon over its command sockets. The system
server's vibrator calls reach the vibrator daemon over a Unix socket. Lights and
power are libraries of the system server.

What makes each modelled part correct:

- *thread queue*: a FIFO that loses no wakeup and no node and never frees what it
  handed out;
- *receive buffer*: the ring is a byte FIFO, the two threads never wait for each
  other, and every frame of a clean line is extracted once and in order;
- *receive flow control*: whichever of two threads writes, the pty receives the
  byte stream in order; what is cached is bounded; after FC Off there is an FC On;
- *transmit side*: no FC On is missed, no application stays choked, nothing is
  lost over a hang-up, and every pty is polled;
- *serial write path*: the pieces of a frame stay together, and what is reported as
  written is on the wire;
- *session*: applications send on open channels only, both sides agree on what is
  open, closing is orderly and always finishes;
- *AT channel*: a command gets its own answer, unsolicited lines are kept, every
  command returns, a closed channel is opened again;
- *event loop*: timers fire and are freed once, the wake lock is held while a
  response needs it and no longer;
- *command socket*: answers reach the client that asked, records stay whole, no
  descriptor is used for a file it no longer stands for;
- *vibrator daemon*: a client that waits is served, the chosen force survives the
  migration, the motor comes to rest;
- *lights*: the LED, the buttons and the trackball show what was asked last.

`PROJECT.json` lists all components, with the reason where one is not modelled,
and the hazards at their lines.

## 2. Modules

| module | models | state and actions |
|---|---|---|
| `FifoChannel` | (abstract) what a queue promises | messages sent, messages delivered |
| `ThreadQueue` | `immvibe/threadqueue.c` | a critical section that does not wait is one action; a sleeping `thread_queue_get` is `pc = "waiting"` until a broadcast, a timeout or a spurious wakeup |
| `VibeDaemon` | `immvibe/daemon.c`, `connector.c`, `api.c`, `VibratorHW.java` | `pc` is the main thread between epoll, accept and read, `wpc` the worker; clients, the settings and a crash are the environment |
| `MuxBuffer` | ring buffer, serial reader, basic-mode framing | `rpc` and `apc` are the program counters of the two threads; copying, counting and notifying are separate steps because the code takes a lock for each |
| `MuxRxFlow` | `gsm0710muxd_fc.c` and the UIH branch of `extract_frames` | assembling thread, retry threads, the MSC queue to the modem, the pty's free space |
| `MuxPty` | `poll_thread`, `pseudo_device_read`, MSC from the modem, reopening | one channel; the MSC handler's flag update (locked) and its ioctl (unlocked) are two steps; `watchdog()` opens the new pty, starts its thread and clears `reopen` in three, any of which a hang-up may precede |
| `MuxTx` | `write_frame`, `handle_channel_data`, SIGUSR2 | a thread is at the prefix, the data or the postfix of its frame; `wire` is the sequence of pieces written |
| `MuxSession` | `watchdog()`, `close_devices`, `shutdown_devices`, SABM/DISC/UA/DM/CLD handling | the channel flags are sets of channels; the modem is an explicit peer with FIFO lines |
| `AtChannel` | `atchannels.c`, `mainLoop` and the callbacks of `ril_callbacks.c` | senders (`pc`), reader threads (`rpc`, one per `at_open`), `mainLoop` (`mainpc`), the tty in both directions; a reader that ends sets `readerClosed`, closes the channel and sets `s_closed` in three steps |
| `RilEvent` | `ril_event.cpp`, timers and wake lock of `ril.cpp` | the loop (`lpc`) between its locked sections, threads (`upc`) that grab, cancel, add and trigger; a clock |
| `RilRequests` | command socket of `ril.cpp` | `file` is the process's descriptor table; a request or response (`ipc`) is dequeued, looks up `fdCommand`, writes header and body; the loop closes in three steps, the debug socket (`debugCallback`) in one; `full` are the clients whose sockets take no more |
| `Lights` | `liblights/lights.c` | a critical section of `g_lock` is one action; `set_light_backlight` is three (section, unlocked test, write) |
| `ThreadQueueProofs`, `MuxBufferProofs`, `MuxPtyProofs`, `MuxTxProofs`, `VibeDaemonProofs`, `LightsProofs`, `RilRequestsProofs`, `MuxSessionProofs` | | theorems about the module they extend |
| `MC*` | | what TLC needs on top (model values, properties that need a fold) |

A property a run checks is often the conjunction of named parts, each with a comment
of its own: `RingSound`, for instance, is `TypeOK`, `RingConsistent` and
`RingHoldsPending`. The tables below name the parts where it matters.

Definitions named `X_but...` are faulty variants of `X`. No specification uses
them; `PROJECT.json` pairs each property with one that violates it.

### Abstractions

- `MuxBuffer`: address, control and length of a frame are one header cell, the
  FCS one cell that must repeat the header. Payloads may contain the flag byte, as
  in the basic option. A header that is the flag byte names a channel beyond
  `channellist[]`, whose N1 is arbitrary memory: every outcome is allowed. After
  `Gsm0710Muxd_Assert(13)` the thread is stopped (the release build only raises the
  exit signal).
- `MuxRxFlow`: frames are numbers with a length. `write()` takes what fits.
- `MuxPty`: a chunk is what one `read()` returns; sending it is one step. Where
  `setup_pty_interface` fails, the channel has no pty (`down`). Both this
  model and `MuxRxFlow` are about one session: that `logical_channel_close` closes the
  pty and resets the flow control under a running thread is in neither.
- `MuxTx`: a frame is three pieces (one in advanced mode), each written, cut or
  refused; a port that fails does not recover. Every frame has data: the frames
  without (SABM, UA) and what is sent while `logical_channel_close` sets
  `negotiated_N1` to 0 (`gsm0710muxd.c:873`) are left out.
- `MuxSession`: the line is reliable, the start of the multiplexer (AT dialogue)
  succeeds, after the modem has handled everything older, or fails. The modem
  makes at most one request of its own per channel at a time, and none for single
  channels during the daemon's setup; it may close the session at any time.
- `AtChannel`: lines are records (kind, command, number). Undefined behaviour (a
  response reset under its thread, two readers with one buffer) ends the model with
  `broken`, and the properties say when it can happen. `assert()` is compiled out,
  as `setRadioState`, which asserts 0 on every change, requires. `write()` in
  `writeline` is taken to end, although a tty that takes nothing (a modem that keeps
  FC Off) holds the thread there, with `commandmutex` and without a limit
  (`atchannels.c:660`); `open()` is tried until it succeeds, and the reader thread can
  be created.
- `RilEvent`: time is a number; the descriptors other than the pipe are in
  `RilRequests`.
- `RilRequests`: one SIM. The queue to the proxies and the cache of unsolicited
  responses are in a library without source and taken as FIFOs. SIGPIPE is ignored,
  so a write to a client that is gone fails; one to a client that does not read is
  tried again and again (`ril.cpp:3079`), which is a step that cannot be taken. A write
  to a descriptor that is another file by now ends the model with `misdirected`. Of
  the debug socket's commands the one that closes the client is modelled; the others
  make local requests, and its `recv()`, during which the loop stands still, is taken
  to end. Where `debugCallback` and the client's own event are in one batch,
  `processCommandsCallback` meets its assertion on `fdCommand`; here `select()` fails.
- `VibeDaemon`: a request is one `send()` of at most 16 bytes on a local stream
  socket and arrives whole; the queue is the channel that `ThreadQueue` is shown to
  implement. `init.project.rc` has the daemon as `oneshot`, so `Start` after a crash
  is the next boot.
- `Lights`: a colour of the notification LED is off, transparent, solid or flashing
  at a rate. The system server serialises the calls of one light, not of different
  lights. `open_lights` refuses the battery light in this version (`lights.c:490`); its
  setter is in the model, which so has all behaviours of the program and more.
- Everywhere: the build of the device (`MUX_ANDROID`, `__MUXD_FLOWCONTROL__`,
  `__CCMNI_SUPPORT__`, basic mode, `MTK_RIL`, without `MTK_MD_SHUT_DOWN_NT`, release).

## 3. Runs

### Runs that pass

| run | configuration and bounds | shows |
|---|---|---|
| `threadqueue` | 2 consumers, one with a timeout, 6 messages, at most 5 nodes (malloc fails beyond), pool size 0, so that the trimming branch is taken | `BooksBalance` (counters against lists, no node leaked, the pool's moving bound), `NoLostWakeup`, `NoFreeOfDelivered` (cleanup never frees a delivered pointer), `ImplementsFifo` (refinement of `FifoChannel`), `EveryMessageDelivered` |
| `muxbuffer` | SIZE 5, the least `SizeAssumption` allows for payloads of one cell; 2 frames, so the ring wraps, and at most one stray byte anywhere; resync depth 2 | `RingSound` (the ring is a byte FIFO), `NoMutualSleep`; on a clean line `FramesInOrder` and `ReceiveProgress` (the reader wakes, every frame is extracted) |
| `muxrxflow` | 2 retry threads, a pty of one byte, frames of one or two, 3 frames, VT channel or not, thread creation may fail | `PtyStreamInOrder`, `CacheSound` (list assertions, bounded cache), `FlowProgress` (every frame written or dropped, FC On after FC Off) |
| `muxpty` | 3 chunks, 4 MSC, 2 hang-ups, at any moment, before the setup and between the steps of `watchdog()`, too; a failing setup of the pty; spurious wakeups; 55,000 states | `NoMissedFcOn`, `NotLeftChoked`, `PortSound` (order over hang-ups, the read after select finds data, every pty polled), `EveryChunkSent` |
| `muxtx` | 2 data threads with 3 bytes each, N1 = 2, so a chunk is two frames, one of them beginning like an MSC command; 1 control thread; 2 retries, one write cut short, the port gone or failing, SIGUSR2; both modes; 1.5 million states | `WireSound` (frames contiguous, the P/F bit in an answer), `ReportsTrue` (nothing lost or repeated in whole frames, the assertion only after all retries), `EveryCallReturns` |
| `muxsession` | 2 channels, one session, pings, refusals, 2 requests by the modem, 1 hang-up, spurious wakeups, a modem that may stop answering | `SetupGate` (sending on open channels only, start of the radio daemon), `Agreement` of both sides on what is open, `UaNotMissed`, `OrderlyClose`, `SessionProgress` (setup and closing finish) |
| `atchannel` | 2 senders (one sends multi-line commands and SMS, one handshakes), 2 commands, 2 openings, 2 unsolicited lines anywhere in the answers, or 1 and a hang-up or close of another channel; 1.2 million states | `PendingIsOwned` (who can lose a pending response), `LinesSorted` (own answers, unsolicited lines kept and in order), `CallsReturn` (commands return, handshakes end on a close), `ClosedReopens` |
| `rilevent` | 2 threads, 3 timers or failures, delays up to the wake timeout, a finite clock; 146,000 states | `TimerListSound` (no oversleeping, no use after free), `WakeHeld`, `LoopServes` (every timer fires, the wake lock is released) |
| `rilrequests` | 3 clients in a row, one a stranger, 2 descriptor numbers, 2 requests, 1 unsolicited response, 1 other file, clients that stop reading, the debug socket; 944,000 states | `AnswersDelivered` (answers to the right client, nothing stranded), `WholeRecords`, `DescriptorsSound` (when rild can end or a number be misused), `EveryoneServed` (every item ends while the client reads, clients accepted again) |
| `vibedaemon` | 2 clients, 3 inputs in all (requests, changes of the force, failures, crashes), 2 forces, a legacy file or none that may be unreadable, batches of 2 events; 863,000 states | `RequestsKept` (in order, the first one kept), `ForceKept` over the migration, `ClientsServed` (no client starved, no connection leaked, motor at rest) |
| `lights` | all calls in any order, 4 colours, 2 flash rates, 2 attention values; 10,000 states, complete | `LightsConsistent` (the LED's status against the cached one, buttons and trackball follow), `NotificationTakesLed` (a changed notification sets LED and rate) |

Some properties hold under a condition on what happened before, and state it: a
history variable records the trouble, and one run covers both cases. The conditions
are real limits of the code, not of the models:

- `noise`: with stray bytes in front of a frame that no longer fits, `get_frame`
  (`gsm0710muxd.c:1565`) returns without waking the reader, which sleeps for good
  although `gsm0710muxd.h:56` promises that a whole frame always fits;
- `failed` (`MuxRxFlow`): when a retry thread cannot be created, nothing drains
  `rx_fl` or sends FC On;
- `early` (`MuxPty`): a pty used before the setup is complete loses its thread for
  good (`gsm0710muxd.c:1061` skips the read with the error that ends the thread);
  `raced`: `watchdog()` publishes the new pty (`gsm0710muxd.c:996`) and starts its
  thread (`1029`) before it clears `reopen` (`3445`), so a hang-up that the new thread
  meets in between is forgotten and the pty stays unpolled; `down`: the setup of a
  pty may fail, and what was written to the old one is lost;
- `sessions`: `mux_setup_chnl_complete` is never reset (`gsm0710muxd.c:3400` is a
  comment), so the second session is open to applications at once;
- `hangups`: a channel whose pty is being replaced is skipped by `close_devices`, so
  the modem has it open when CLD arrives (`gsm0710muxd.c:3215`);
- `"refusal"`: a refused channel other than DLCI 26 leaves `main()` waiting for the
  setup with `watch_lock` held, even when it was the control channel and the state
  has become `MUX_STATE_CLOSING` (`gsm0710muxd.c:2593`);
- `"wakeup"`: the wait for the setup is an `if` (`gsm0710muxd.c:3396`), so a wakeup
  without a signal starts the radio daemon early;
- `overlap`, `opens > 1`: the occupancy test of an AT channel is made without the
  lock (`atchannels.c:942`), and `mainLoop` opens every channel again when one was
  closed; either can take a response away from a waiting thread;
- `expired`: the answer to a command that timed out is taken for the next one's;
- `forgot`: `s_closed` is reset once per channel (`ril_callbacks.c:1936`), so a close
  between two resets is not seen; `mainpc = "returned"`: where the modem's main SIM is
  not the expected one `mainLoop` ends (`ril_callbacks.c:1957`), and nothing opens a
  channel until rild is started again;
- `raced` (`RilEvent`): a callback that has read `userParam` before the cancellation
  releases the lock of the newer response; `failed`: an error exit does, too;
- `late`: an answer that a proxy has taken out of the list when its client is closed
  reaches the next client, or a file that has got the number, although
  `ril.cpp:5528` says that cancelled requests are not reported; `werr`: a failed write
  closes the descriptor under the event loop (`ril.cpp:3085`), and the next
  `select()` ends rild; `debugged`: so does command 1 of the debug socket
  (`ril.cpp:6006`), which neither removes the event nor listens again; `NotRead`: a
  client that stays connected and does not read keeps the writer in `blockingWrite`
  (`ril.cpp:3079`) with `s_writeMutex` held; `stranded`: a response cached just after a
  client came waits for the next one;
- `ee`, `stopped` (`MuxTx`): data for a modem that is gone, and data after SIGUSR2,
  are reported as written and dropped;
- `shut`, `broke` (`VibeDaemon`): `EPOLLHUP` is tested before the data is read, and
  an accept loop left at an error gets no new edge for the backlog; `early`: the
  migration overwrites a force chosen while the legacy file was there; `missed`,
  `misread`: a legacy file that is there but cannot be accessed is passed over, and
  for one that cannot be opened or parsed the default is migrated and the file removed
  (`api.c:24-35`), so that the choice is lost;
- `raced` (`Lights`): buttons switched off between the unlocked test and the write
  of the backlight's thread are on again.

Three more deviations need no condition because no property depends on them: the
count of cached bytes is not reduced when a cached frame is written
(`gsm0710muxd_fc.c:335`), so frames are dropped below the watermark (and
`CacheBounded` holds all the more); the FC On of an old retry thread may follow the
FC Off of a new phase (`gsm0710muxd_fc.c:389`); answered pings count as unanswered
(`gsm0710muxd.c:2155`; option `-p` is not given in `init.modem.rc`).

The bounds are small because each model's interesting cases need few objects: two
consumers compete for one broadcast; a ring of five cells wraps in the middle of
a frame; two retry threads are the old and the new one; of two channels one is the
last, the one that may be missing (DLCI 26), and closing one is not closing all; a
DISC and a SABM of the modem for the same channel take two requests; two senders
meet in one AT channel and two openings give it an old and a new reader; three
clients are one that is served, one that is refused and one that inherits a
descriptor; of two vibrator clients one is accepted while the other waits.
`CHECK_DEADLOCK FALSE` is set where the bounds, or a daemon that exits, let a
behaviour end.

### A run that shows a disagreement

`muxrxflow_freed` checks `CachedFramesIntact`, which `gsm0710muxd_fc.c:220` states
("All data sent from the modem before receiving the MSC with FC OFF Rsp will be
inserted into the link list"): `_fc_cacheFrameData` frees the frame as soon as it
has queued it, and the retry thread writes freed memory.

### Fairness

Weak fairness of each thread: the threads loop for the life of the daemon and no
lock is held over an unbounded wait other than a condition variable's own.
The steps of `watchdog()` are fair because `main()` calls `watchdog()` every five
seconds. The application reading its pty (`MuxRxFlow`) and the modem handling its
input (`MuxRxFlow`, `MuxSession!FairSpec`) are assumptions about the environment,
without which the code cannot make progress either. The run `muxsession` uses
`SilentModemSpec`, which drops the one about the modem: closing finishes without
it, and `SetupFinishes` names it as its premise. `AtChannel` assumes nothing of the
modem but that the tty takes what is written: the senders' waits are timed, which is what the fairness of `Expire` says.
`RilEvent` assumes that time passes, `RilRequests` that every pending request is
completed by its proxy (nothing of the clients: one that does not read is named in
the property), `MuxTx` that the lock reaches every waiting thread and that
SIGUSR2's handler runs to its end. `VibeDaemon` assumes both threads run; whether the
daemon is started is up to init. Spurious wakeups, noise, refusals, hang-ups,
crashes, clients, users and requests of the modem are never fair.

## 4. Proofs

Each `*Proofs` module proves an inductive invariant `IInv` (`Init => IInv`,
`IInv /\ [Next]_vars => IInv'`), some a second one on top of it, and derives the theorems
from them. They hold for all values of the constants that satisfy the named
assumptions.

- `ThreadQueueProofs` (from `ConsumersAssumption`, `NullAssumption`,
  `BoundsAssumption`): `NoLostWakeup` and `BooksBalance` with its parts (types,
  `NodesAccounted`, `PoolBounded`). `NoLostWakeup` needs `NodesAccounted`: the
  broadcast depends on `length`, which must be zero exactly when the list is empty.
  `PoolBounded` needs that one get shrinks the limit by at most one step while it trims
  one node.
  On top, `OInv` says what the lists contain: what was sent is what was got followed
  by what is queued (`InOrder`), a pointer is in the queue or with its receiver once and
  not freed as well, and the nodes of the pool carry no message (`Owned`). From it follow
  `NoFreeOfDelivered` and the refinement `ImplementsFifo`: every step of the queue is a
  step of `FifoChannel` or a stutter. The part about the pool is needed because
  `thread_queue_cleanup` also frees what the pool's nodes point to.
- `MuxBufferProofs` (from `SizeAssumption`, `ResyncAssumption`, `LineAssumption`):
  `NoMutualSleep` and `RingSound` with its parts (types, `RingConsistent`,
  `RingHoldsPending`), for every buffer size, payload length and noise. The
  strengthening records that only the reader between its copy and its count has
  uncounted bytes, how far the parser looks, and, for the two sleeps, that a sleeping
  reader has announced itself and that whoever sees `input_sleeping` does not sleep
  (`Handshake`).
- `MuxPtyProofs` (from `PtyAssumption`): `NoMissedFcOn`, `NotLeftChoked`,
  `ReadFindsData` and `PolledOrReopening`, and `PortSound` as a whole. The strengthening
  relates the program counter of the MSC handler to the flag it has set, and that of
  the pty thread to what `select()` found, and says that a pty nobody used early has
  nothing to offer before the setup is complete. It also says where `watchdog()` is
  between opening the pty and clearing `reopen`, which is where `raced` can begin. The order of the chunks has an
  invariant of its own on top (`Order`): only between read and send is a chunk in
  hand, and a pty that is replaced is empty.
- `MuxTxProofs` (from `TxAssumption`): `WireSound` and `ReportsTrue`, for any number of
  threads, chunk length, N1, retries and cuts. `CInv` is about the callers: the
  lock's holder is the one thread inside a frame, the retries are counted, a thread
  that was told of a stop sends nothing more. `WInv` is about the line: an open frame
  at its end is the one the holder is writing (`Joined`), and the whole frames of a
  thread cover, without gap or overlap, exactly the bytes it was told (`Sent`), which is
  what makes `NothingLost` inductive: it speaks of finished chunks, its preservation of
  every frame before. `NothingLost` is stated by positions on the line, not by
  the concatenation of the frames, so that it can be proved without induction.
- `VibeDaemonProofs` (from `ForcesAssumption`, `KindsAssumption`, `BoundsAssumption`,
  `ListenerAssumption`): `ForceKept` from `FInv`, which says where a migration may
  stand when the legacy file is there and that the force the worker has read was a
  recent choice, or the file could not be read; `RequestsKept` from `RInv`, which keeps books of every connection
  (`BooksOf`: what was sent is handled, in the socket, or excused, depending on how
  far the connection is) and relates the epoll batch to the open connections.
- `LightsProofs` (from `ColorsAssumption`, `RatesAssumption`, `AttentionsAssumption`,
  `TrackballAssumption`): `LightsConsistent` and the action property
  `NotificationTakesLed`. The parts of `LightsConsistent` support each other; the one
  strengthening (`SyncAsked`) is about the backlight's thread between its unlocked
  test and its write.
- `RilRequestsProofs` (from `RequestsAssumption`): `DescriptorsSound`,
  `AnswersDelivered` and `WholeRecords`, for any set of descriptor numbers and any
  number of clients, requests, responses and other files. `IInv` is about the
  numbers: the loop watches the client exactly while `fdCommand` names it, until the debug
  socket closes it, after which nobody is accepted any more (`Loop`), the
  holder of `s_writeMutex` is between header and body (`Mutex`), and a thread about to
  write holds the number of the client that is served unless that client was closed
  under it (`Writers`). The answers need who owns a request from the stream to the
  proxy (`Streams`, `Owners`: a request whose answer will go out is that of the client
  served, because closing cancels or makes late all others before the next accept).
  The records need that a header without its body belongs to the holder of the mutex
  or to a client that is gone (`Halves`).
- `MuxSessionProofs` (from `SessionAssumption`): `SetupGate`, `Agreement`, `UaNotMissed`
  and `OrderlyClose`, for any number of channels, requests of the modem and hang-ups.
  The invariant says what is on the two lines, and has one part per question:
  every SABM is counted once (`Counted`) and a pty belongs to a channel that is open or
  awaits its UA (`PtysOpen`), from which `SetupGate` follows; at most one of a channel's
  SABM, DISC, UA and DM is under way, and it tells what each side believes (`Agrees`),
  which on empty lines is `Agreement`; a DM never concerns an open channel and
  the modem keeps open what the daemon has open until it handles the daemon's DISC
  (`Answered`), so the answer to a DISC is the UA that `close_devices` waits for; in a
  session without trouble all channels are open when the ping ends it, so that each
  gets its DISC (`Closes`).
  The proof of `Agreement` showed that its first statement was true of the run's
  instance only: `DmRefuses` completes the setup when the modem refuses DLCI 26, and where
  26 is not the last entry of `ch_cfg` (builds for two SIMs, as this device's) channels are still being
  established then. An application that hangs up at that moment makes `c_alloc_channel`
  send a second SABM for its channel. `Agreement` now excludes that case.

Model-checked only:

- all liveness properties, since fairness is out of the prover's reach;
- `CacheSound` (`MuxRxFlow`): the bytes in the cache are a sum over a list of frames, and
  facts about such a fold need induction;
- `FramesInOrder` (`MuxBuffer`): that the parser finds a frame wherever it starts is an
  induction over the bytes in the ring;
- not proved yet: `PtyStreamInOrder` (`MuxRxFlow`) and the invariants of `AtChannel` and
  `RilEvent`.

## 5. Plan

Done, in this order: `ThreadQueue`, `MuxBuffer`, `MuxRxFlow`, `MuxPty`,
`MuxSession`, proofs for the first two and `MuxPty`; then `AtChannel`, `RilEvent`,
`RilRequests`, `MuxTx`, `VibeDaemon`, `Lights`; then proofs for `Lights`, `MuxTx`,
`VibeDaemon`, `RilRequests`, and the refinement of `FifoChannel` by `ThreadQueue`; then
the proofs for `MuxSession`.

Next, most important first:

1. Proofs: `RilEvent` (`WakeHeld`, `TimerListSound`), `MuxRxFlow` (`PtyStreamInOrder`) and
   `AtChannel` (`PendingIsOwned`).
2. `MuxBuffer` with the assembling thread of an earlier session still running;
   `MuxPty` composed with channels that are closed by the session.
3. The client sockets of `ril.cpp` other than the phone's (ATCI, MAL) and the event
   table with more than one descriptor.

## 6. Not modelled

- The chat with the modem before the multiplexer starts, advanced-mode parsing,
  unit-test builds, the exit path and the report to `muxreport`; option `-t`.
- The RIL's request handlers: they format AT commands and parse answers, one after
  the other in a proxy's thread, on top of what `AtChannel` models. The C2K variant
  is a copy of the same library for CDMA modems.
- The power HAL: two writes in a row by one caller.
- GPS, graphics, Bluetooth, Wi-Fi and NFC glue: data conversion and start-up
  sequences around binary drivers.
- Vendored code (strongSwan with OpenSSL and curl, the NFC stack), headers, binaries
  and configuration. They are nine tenths of the tree's million lines, which is why
  the modelled share of it is small: the models cover the concurrent core of the
  programs that are this device's own.
