# A verification of ble-mqtt-bridge

TLA+ modules for the daemons that pass values between Bluetooth Low Energy
beacons, a joystick, a dust sensor and an MQTT broker. TLC checks them on small
instances, TLAPS proves the most important properties for every instance. Paths
below are relative to the repository (`src/libendpoints/BLEClient.cpp` is the
file of that name in it).

## 1. The system

| Component | State | Operations | Interacts with |
|---|---|---|---|
| `BLEClient` (`src/libendpoints`) | `device`, `service`, `characteristic`, run and terminate flags of two threads, two back-off delays | constructor, destructor, connection thread, reader thread, `write()`, `registerEventReceiver()` | BlueZ through tinyb (one adapter, one scan for all clients), an `EventReceiver` called from the reader thread |
| `MQTTClient` (`src/libendpoints`) | `connected`, default topic | constructor, subscription, `sendMessage()`, `event()`, callbacks of the mosquitto thread | the broker, which keeps one session per client id; an `EventReceiver` |
| `joystickd`: `Joystick`, `Steering`, `main` | the receiver, the steering state | reader thread, `eventAxis()`, `eventButton()`, `process()` every 200 ms | the kernel's joystick device, `MQTTClient` |
| `robbyd`: `MQTTClientRobby`, `main` | `connected`, `ble_client` | `bridge_robby()`, callbacks of the mosquitto thread | the broker, a writing `BLEClient` |
| `floorsensord`: `Config`, `ValueSplitter`, `main` | the imported configuration; three lists: beacons, splitters, the MQTT client | import, check, generation, association, `event()`, clean-up | a JSON file, a reading `BLEClient` per beacon, one `MQTTClient` |
| `SDS011`, `SerialPort` (`src/libsensors`) | a queue of bytes; the parser's state is local to a call | `readSerialPort()`, `read()`, `sleep()`, `wakeup()` | the serial line |
| `dustsensord` | an id, the locals of its loop, two topics | wait for the id, poll, publish | `SDS011`, two `MQTTClient`s with one client id |
| `alarmlightd`: `BluetoothEnabledSwitch` | two pointers, set one after the other | constructor, `event()` | `MQTTClient`, a writing `BLEClient` |
| `generateJsonFromCsv` | the last address, the beacon being put together, the complete ones | one pass over a table | a CSV file, the JSON file of `floorsensord` |

The daemons are separate processes that meet in the broker: `joystickd`
publishes `joystick/cyborg3d/<direction>` and `alarmlight/switch`; `robbyd` and
`alarmlightd` subscribe to them; the sensors' daemons only publish. Within a
process the components call each other directly, from the threads of `BLEClient`,
`Joystick` and the mosquitto library, with no lock anywhere.

What is hard, and what makes each component correct:

- **BLEClient.** Four threads use its members; every pointer is checked in one
  step and followed in another; each tinyb call may block, fail or be undone by
  another client's `stop_discovery()`; the destructor may begin at any moment.
  Correct: no NULL pointer is followed, nothing runs after the destruction, the
  destructor returns, the characteristic is found and the link restored in the
  end.
- **joystickd.** Axes overtake each other, events come before the receiver does,
  the main thread publishes a state that the reader changes. Correct: a movement
  is always one the stick is held in, and ends when it is let go of.
- **robbyd.** Messages are lost on the way or sent again, sessions end,
  subscription and connection race, two lists of topics are kept equal by hand. Correct: the
  robot ends up doing what the steering state says.
- **floorsensord.** Lists that belong together only by index, readers that
  deliver while the lists are built and torn down, words made of signed chars.
  Correct: each checkerboard shows its own sensor's word; nothing is used after
  it is deleted.
- **generateJsonFromCsv.** Rows of one beacon that are not together, rows
  without an address, addresses in two spellings, a row that ends the program.
  Correct: every row ends up under its own beacon, and in the daemon that reads
  the file.
- **SDS011.** Frames cut in pieces, damaged or interleaved with noise, a payload
  that looks like a head. Correct: only complete frames are reported, and the
  first frame in the queue is not missed.
- **dustsensord.** Two clients that end each other's session, messages kept for
  the next one, locals that outlive a failed read. Correct: what is shown under
  a topic is that quantity of that sensor, and in the end the present level.
- **alarmlightd.** A thread that delivers messages while the constructor is still
  assigning the pointers they need; commands nobody repeats, except the library
  in a new session. Correct: no message comes too early; commands are shown in their
  order or not at all, and again only those that are not acknowledged.

`PROJECT.json` lists the hazards one by one, each at its line and with the
properties that cover it.

## 2. Modules

| Module | Models | Extends / instantiates |
|---|---|---|
| `GattAccess` | abstract: one life, one resolution, accesses within both | – |
| `BLEClient` | any number of `BLEClient`s of one process on one adapter | `Gatt == INSTANCE GattAccess` as its refinement |
| `BLEClientLive` | the same with a bounded number of setbacks, on an adapter that does or does not reject the end of a scan that is not there | EXTENDS `BLEClient` |
| `Joystickd` | `joystickd`, the user, the kernel's queue, the queues of the MQTT library | – |
| `Robbyd` | `robbyd`, its session and its robot | – |
| `Mirror` | abstract: a display fed with samples of a source, in their order, with or without loss; samples that are kept may be sent again | – |
| `RobotControl` | joystick, broker and robot together | EXTENDS `Joystickd`, `R == INSTANCE Robbyd`, `Drive == INSTANCE Mirror` as its refinement |
| `MQTTClient` | the `MQTTClient` objects of a process, the library's threads, the broker's sessions | – |
| `Alarmlightd` | `alarmlightd` and its light | `Mqtt == INSTANCE MQTTClient` |
| `AlarmControl` | buttons, broker and light together | EXTENDS `Joystickd`, `A == INSTANCE Alarmlightd`, `Light == INSTANCE Mirror` as its refinement |
| `GenerateJson` | `generateJsonFromCsv` | – |
| `Floorsensord` | `floorsensord` | `Gatt == INSTANCE GattAccess`, whose actions it uses for its beacons |
| `FloorPlan` | from the table to the topics: the generator, then the daemon | EXTENDS `Floorsensord`, `G == INSTANCE GenerateJson`, `Tile(b, s) == INSTANCE Mirror`, one for each sensor of each beacon |
| `FrameSource` | abstract: a stream, and calls that each take a part of it and report the frame at its end | – |
| `SDS011` | the driver, byte by byte, and a faulty line | `Source == INSTANCE FrameSource` as its refinement |
| `Dustsensord` | `dustsensord`, its sensor and the broker | `Source == INSTANCE FrameSource`, `Mqtt == INSTANCE MQTTClient`, whose actions it uses; `Gauge10`, `Gauge25 == INSTANCE Mirror` as its refinement |
| `*_proofs` | theorems | EXTEND their component |
| `MC*` | the instances TLC checks | EXTEND their component |

Two abstract specifications have a detailed one below and a user above: a
daemon is built on what `BLEClient` implements (`GattAccess`: `Floorsensord`)
and on what `SDS011` implements (`FrameSource`: `Dustsensord`), so the daemons'
state spaces do not contain the drivers'. `Mirror` says what a user sees of a whole
path, and is implemented four times: by the path from the stick to the robot and by the
one from the buttons to the light, where samples may be lost, by each of the two
quantities of `dustsensord`, where QoS 1 loses none, and by each checkerboard of the
floor. In the first three the sender keeps what is not acknowledged, so a new session
may bring an older sample once more; what is acknowledged never comes back.

How state and actions correspond to the code:

- A thread is a program counter; an action is one handler step between two
  accesses to a member that another thread writes. In `BLEClient` the round of
  the connection thread is cut at each tinyb call
  (`ConnectionLoop`, `Search`, `StartDiscovery`, `FindDevice`, `CheckLink`,
  `StopDiscovery`, `Disconnect`, `Connect`, `FindService`,
  `FindCharacteristic`), and each call that may fail has a failing action with
  the code's back-off. Sleeps are not states: a thread that sleeps is one at
  `"top"` that has not been scheduled.
- A pointer is whether it is non-NULL. Names, UUIDs, addresses and log lines are
  left out. `was_previously_connected` only chooses a log line.
- tinyb calls outside a `try` block are taken not to throw: an exception there
  ends the process. Whether `stop_discovery()` fails when nothing is being
  scanned differs between versions of BlueZ. `BLEClient` allows both outcomes; in
  `BLEClientLive` it is the constant `IdleStopThrows`, since an adapter that rejects the
  call rejects it in every round (`StopThrows`, `Round`).
- Axis values are three classes, cut at the thresholds of `eventAxis()`. An MQTT
  message is its topic, or its payload for the light; `sendMessage()` drops it when the
  client is not connected or the library refuses it (`Drop`, a disjunct of
  `HandleButton`, `LoseValue`).
- Every message is sent with QoS 1. The library keeps it, over sessions, until it is
  acknowledged: in `outbox` before it has gone out, in `inflight` afterwards. It
  does not wait for one acknowledgement before it sends the next message, so several
  may be in flight (`Delivered`, `Acknowledged`). When a session ends, what is in
  flight goes back in front of `outbox` (`OnDisconnect`), and the broker gets it
  twice. `Joystickd` has the same with the sessions reduced to their one effect on the
  messages (`Deliver`, `Acknowledge`, `Reconnect`). Its `Subscription` is the set of
  messages somebody subscribes to; the others are taken and change nothing.
- `::read()` of the joystick ignores its result. Without a device the event is an
  uninitialised local, modelled as any event at all (`ReadFails`).
- A clean MQTT session loses its subscriptions when it ends. In `MQTTClient` the
  broker's view (`online`, `subscribed`) and the object's flag (`connected`) are
  two variables: a session is lost first (`LoseSession`, or `OnConnect` of another
  object with the same id) and the callback comes later (`OnDisconnect`).
- `write()` of `BLEClient` does not ask for the object's role, so a caller may
  write through a reading client too (`BeginWrite`).
- `alarmlightd`'s constructor is cut at each assignment and call, since the MQTT
  thread runs from its first statement on; `held` is the payload inside `event()`.
- A row of the generator's table keeps the address, the index, the checkerboard id
  and whether its numbers are numbers; the JSON text is the list of beacons and
  the key their sensors are under. `CorrectKey` is a person with an editor.
- `ValueSplitter` joins two plain chars; whether they are signed depends on the
  platform, hence the constant `CharIsSigned`.
- `SDS011` keeps the parser's locals as variables that every call resets, and one
  history variable, `taken`: the bytes the call has taken from the queue. In
  `Dustsensord` a whole frame is one item, a piece of one or noise another.
- `wakeup()` writes one byte and looks at nothing: with an open port, too, the byte
  may be lost and the sensor sleep on (`Wakeup`).

Definitions marked *Faulty* in the modules are not part of any behaviour. Each is
a variant of the definition below it, with a bug that code of this kind might
have, kept to show that a property notices it; `PROJECT.json` pairs them under
"mutants".

## 3. Runs

| Run | Instance | Shows |
|---|---|---|
| `ble_one` | a reader that is also written to, back-off caps 6 and 8 | the inductive invariant `Inv`, no NULL dereference, no use after free, `JoinsStartedThread`, `StopsWithinRound`, `ShutdownCompletes`, `EventsFlow`, refinement of `GattAccess` |
| `ble_live_shared` | two writers on one adapter that accepts `stop_discovery()` at any time, two setbacks | `BecomesUsable`, `Reconnects`, in spite of a shared scan |
| `ble_idle_stop` | the same on an adapter that rejects it without a scan, no setback | violates `BecomesUsable` (finding 1) |
| `joystickd` | axes 0 and 1, one button, two events queued | the inductive invariant `StickInv`, `MovingMeansDeflected` |
| `joystickd_buttons` | both buttons | violates `LampFollowsPress` (finding 2) |
| `robot_control` | one axis, two messages of the daemon kept, one on its way to the robot | types, refinement of `Mirror`, `RestsUntilMoved`, `RobotFollows`, `ReleaseStops` |
| `robot_session` | the same, one message kept | violates `ForwardsWhenConnected` (finding 3) |
| `alarm_control` | two buttons, two commands kept, one on its way and one in `event()` | types, `EventsFindBle`, refinement of `Mirror`, `LightFollows` |
| `floorplan` | five tables, two beacons, two sensors each, unsigned chars | types, `NoEventAfterDelete`, `RowsAccountedFor`, `AllAssociated`, `ShowsOwnSensor`, `KeepsOrder`, `AssociationCompletes`, `EventuallyShown` |
| `generated_config` | the same | violates `RowsReachDaemon` (finding 4) |
| `sds011` | two payloads, noise of head bytes, 21 bytes under way, two line errors | `ParserInv`, `ReportsFrames`, `FirstFrameWins`, refinement of `FrameSource` |
| `dustsensord` | a sensor with the id 0 or 7, two levels that differ in PM10, one item on the line, two messages kept for the client of PM10 and one for the other | types, `ShowsOwnQuantity`, `SentIsRead`, refinement of `Mirror` for both quantities, `FindsSensor`, `NoSessionLasts`, `LevelShown` |

Why the bounds suffice. Two clients are enough to have one stop the other's scan;
one is enough to have its threads, its callers and its destructor overlap. Delay
caps of 6 and 8 are no power of two and a power of two: the doubled delay meets one
exactly and jumps over the other; with caps of 1 the delays are constant, and no
guard depends on them. Two axes are enough for one to overtake the other, two
queued events for one to hide behind the other. The robot needs one axis, with
a direction and a rest position; a longer wire only delays, since each message
repeats the whole state. One command under way and one in `event()` are two that
could change places.

`MaxOutbox` counts what has still to go out and what is in flight. With two, both may
be in flight: FORWARD and STOP reach the broker, neither acknowledgement comes back, and
the new session sends FORWARD and STOP again. That is the smallest instance in which
an older message follows a newer one, and `robot_control`, `alarm_control` and, for
PM10, `dustsensord` have it; the proofs cover any number. `Subscription` is what the
daemon at the other end subscribes to. In the runs of `joystickd` alone it is one
message or none, since they look at nothing behind the library.

The five tables are the cases the generator tells apart: two groups with a row
without an address at the end, which completes the last one; the same without
that row; an empty row between two groups; a row that is not numbered; and no
table. An address appears in two spellings. Two beacons make a wrong association
visible. `IndexLimit` stands for the 256 values of the loop's `uint8_t` and is the
smallest that ends, one more than the number of beacons. With 256 beacons the loop
would not end, which is why 255 is a limit on configurations. The two readings
differ in both bytes, and one has the sign bit in its low byte.

Twenty-one bytes are two frames and a stray byte; the noise consists of head
bytes, the only ones that can confuse the search, and one payload repeats the
head, another has a sum of more than a byte. The code's queue has no bound:
`MaxLine` stands for a caller that keeps up. For `dustsensord` one item at a time
is enough to make every message old: it waits in the outbox while the other client
holds the session. One client has two messages, so that the newer may be sent before
the older is sent again; the other has one and a constant value, which is none of the
first's, so that a mix of quantities shows.

No symmetry is used: most runs check liveness or an action property, and the
others are small.

### Fairness

Each thread the operating system runs is weakly fair: it does not stay for ever
in front of a step that it can take. A blocking call returns or throws. Nothing
obliges an owner to destroy an object, a user to move the stick, a beacon to stay
in range, or `pause()` to return, and no fairness is assumed of these.

What has to happen in the end can be asked only if the outside world works in the
end. `BLEClientLive` bounds the number of setbacks of a behaviour (exceptions,
devices and services not found, lost links) instead of making success fair. With
unboundedly many setbacks neither `BecomesUsable` nor `Reconnects` holds: two
clients can stop each other's scan for ever if each connection attempt fails.
`ShutdownCompletes` and `EventsFlow` need no such bound. That `stop_discovery()`
succeeds without a scan is not assumed: `BecomesUsable` and `Reconnects` are shown for
adapters on which it does, and `ble_idle_stop` shows what happens on the others.
The write to the alarm light is strongly fair, and `LightFollows` still holds only
for a command that the library takes again and again: nobody repeats it otherwise.
Since its outbox is bounded, that includes that messages are sent and acknowledged
again and again, so no fairness of the network is assumed.

A publication, an acknowledgement, a message from the broker to the robot, a value
read and a value published are strongly fair: they may fail any number of times but,
if tried for ever, not for ever. That is what a lossy network is taken to do, and what the
endless loops of `process()` and of the reader threads rely on.

`RobotFollows` and `LightFollows` assume in their premises that the broker keeps
the daemon's subscription; `robot_session` shows what happens without it.
`LevelShown` assumes that the daemon happens, again and again, to send while the
client's flag is set and the library has room: the code sends whether or not
there is a session, and fairness of the threads alone does not make the two
meet. Nothing obliges anybody to correct the generated file; `EventuallyShown`
speaks of the rows that are in the configuration.

### Findings

1. A client that knows its beacon calls `stop_discovery()` before `connect()` in every
   round (`BLEClient.cpp:116`), whether or not anything is being scanned, and never
   scans again (lines 66-89). Where BlueZ answers that with an error, every round of a
   client ends there once its own earlier attempt, or another client, has stopped the
   scan: it never connects, although the bridge "can automatically connect to a BLE
   device" (`README.md`).
2. Releasing a button switches the alarm light as pressing it does, although
   `JoystickEventReceiver.hpp` speaks of a button that "has been pressed". With
   both buttons held, releasing the older undoes the newer.
3. `robbyd` subscribes once, right after an asynchronous connect, ignores the
   result and does not subscribe in `on_connect()`. A daemon that is connected
   may therefore forward nothing, for ever. `alarmlightd` does the same.
4. `generateJsonFromCsv` prints the sensors of a beacon under `sensor`, the daemon
   asks for `sensors`: the import throws, is logged, and the daemon runs without
   beacons. With the key corrected by hand, the last group of rows is missing
   unless a row without an address follows it.

One more deviation depends on the platform. Where a plain `char` is signed, as on x86,
`ValueSplitter.cpp:37` publishes `0xFF80` for `0x0180`: the sign of the low byte covers
the high one, although the comment above it says "Extract 16-bit word". No run is spent
on it: TLC evaluates `SignCoversHighByte` in `MCFloorPlan`, and `floorplan` and the
theorem about `ShowsOwnSensor` are about platforms where it is unsigned, as on ARM.

## 4. Proofs

All proofs hold for every value of the constants that satisfies the named
assumptions of the component's module; `tlapm` checks them to the last leaf.

**BLEClient** (`RolesAssumption`, `DelaysAssumption`; any number of clients,
even infinitely many). `NoNullDereference` is not inductive: that the reader has
a characteristic between its check and its use follows only because nothing
clears the pointer, and the one statement that does (line 69) is reached only
while `device` is NULL, which implies there was nothing to clear. `PointerInv` states
the chain `characteristic => service => device` and what each control point has
checked. `NoUseAfterFree` needs `LifetimeInv`: a running thread has its
`..._running` flag set, so the destructor does not skip the join. `MemoryInv` is their
conjunction with `TypeOK`. The destructor's side needs the converse, `StopInv`: a flag
`..._running` is set only after `pthread_create` succeeded, and a `terminate_...` flag
only by the destructor, which is past every start. `JoinsStartedThread` follows, and
so does `StopsWithinRound`, the safety half of `ShutdownCompletes`: the flags stay set,
and each step of a thread that has been told to stop, failing calls included, lowers
`ConnectionStepsLeft` or `ReaderStepsLeft`, whatever the other clients do to the
common scan. `Inv` is `MemoryInv` with `StopInv`; one lemma per group of actions shows
that it is kept, each split by conjunct. `Refinement` maps each action to one of `GattAccess` or to
a stutter, using `Inv`: `Destroy` needs that the reader has left, `BeginAccess`
that the object lives.

**BLEClientLive** (also `SetbacksAssumption`). `LiveIsBLEClient`: counting setbacks
and fixing what `stop_discovery()` does without a scan removes behaviours and adds
none, so `Inv` and `NoUseAfterFree` hold of the behaviours in which `BecomesUsable` and
`Reconnects` are checked, for any number of clients and both kinds of adapter; the
run `ble_live_shared` checks nothing but these two.

**Joystickd** (`InputsAssumption`, `SubscriptionAssumption`, `BoundsAssumption`; queues
of any length). `MovingMeansDeflected` speaks only of moments without events under
way. `StickInv` says what is true in between: the last report on an axis in the queue
says where the stick is; if there is none, the event being handled does; if there is
none of these either, Steering moves along that axis only where the stick is.
`ReportInv` collects these; `AxisMoves` adds that nothing but an axis makes Steering
move, so that a movement always has an axis that is held in its direction. The
part `BeforeRegistration` covers events dropped before Steering listens: Steering
is then at rest.

**RobotControl** (also `RobbyAssumption`: robbyd subscribes to the topics of steering).
`ControlTypeOK`, and `MovingMeansDeflected` again for the composition: robbyd takes
messages from the wire and leaves the stick and Steering alone, so the invariant of
`Joystickd` carries over. `RobotMirrorsSteering` is the refinement of `Mirror`: what has
still to go out is the outbox followed by the command the main thread has read and not
yet sent (`ToSend`), what is kept is what is in flight, and the way is the wire.
`Process` is a sample and `Publish` a stutter, `Drop` and a message that robbyd does not
get or forward lose the last sample to go out or the first on its way, `Deliver` is a
`Send`, `Acknowledge` a `Forget`, `Reconnect` a `SendAgain`, a write to the robot a
`Show`. It rests on the agreement of the two tables of the code (`TablesAgree`): what
`on_message()` makes of a topic is the meaning of the state `process()` publishes
under it. `RobotRests` puts the two together: a centred stick without a report to
handle has stopped Steering (`StickInv`), only the user makes a report of an axis
(`NothingReported`), so every sample is taken of `STOP`; and what a `Mirror` shows, once
its source, its display, all that is under way and all that is kept agree, it goes on
showing (`MirrorRests`). That the messages in flight count is no detail: a robot that
stands while a FORWARD is unacknowledged is set in motion by the next session.
`ReleaseStops` says that rest is reached.

**AlarmControl** (also `AlarmAssumption`: alarmlightd subscribes to the switch).
`EventsFindBle` follows from `FoundInv`: who is listened to has a BLE client, because
the constructor registers itself last, and only who is listened to is handed a message.
`LightMirrors` maps the path to a `Mirror` whose way begins in `event()`: a button event
that sends is a `Sample`, `Deliver` a `Send`, `Acknowledge` a `Forget`, `Reconnect` a
`SendAgain`, a message handed to `event()` a stutter, a discarded one and a failed write
a `Lose`, a write a `Show`. So the daemon's own losses may drop a command, and only the
library repeats one.

**SDS011** (`BytesAssumption`; any payloads, noise, port and queue sizes).
`ReportsFrames` follows from `Window`: after `state` bytes the parser's locals are
functions of the last `state` bytes taken. A byte that fits lengthens the window,
which therefore keeps its place in `taken`; a byte that does not empties it. The
bounds of the raw values and of the checksum are not inductive by themselves and
follow from `Window` too. `FirstFrameWins` needs `FrontInv` besides: a call that has
taken nothing but the beginning of a frame has not restarted its search. With
both, every step maps to one of `FrameSource`: a byte that moves from the queue to
the call's hands is a stutter, the last byte of a frame is `ReadFrame`, an empty
queue `ReadNothing`; that no call goes past a frame at the front is
`FirstFrameWins`.

**Dustsensord** (`LevelsAssumption`, `BoundsAssumption`; any sensor, levels and
bounds). `ShowsOwnQuantity` is about the end of a long path. `DustInv` says the
same of every station: the items on the line, the answer of the last call, the
id and the two locals, the topic, and each message in each outbox are this
sensor's, and of the outbox's own quantity. Lost sessions and repeated messages
are then steps like others. `SentIsRead` follows from the part about the locals.
`PublishesWhatItRead` maps each quantity to a `Mirror` without loss: its source is
the local that holds the last reading, its queue the outbox, and it keeps what is in
flight. A publication is a `SendAndShow`, an acknowledgement a `Forget`; a session whose
end the library notices is a `SendAgain`, and one that the other client takes a
stutter. Topics of different quantities differ (`TopicsDiffer`), so
neither client disturbs what the other shows.

**FloorPlan** (`TablesAssumption`: rows are typed, and the upper-case form of an
address is an address the daemon knows; `Floorsensord`'s `BoundsAssumption`; any
table, beacons and sensors). `NoEventAfterDelete` needs `ShutInv`: what each place
of the main thread says of the objects, in particular that the splitters and the
MQTT client are deleted only after every beacon's destructor has joined its reader.
`AllAssociated` needs `AssocInv`, which follows the three lists through the main
thread: the index starts at 0, the beacons before it have their splitters, and it
wraps round only onto beacons that have them too (`NarrowIndex`), so that `pause()` is
reached only with all of them. That it is reached is `AssociationCompletes`.
`RowsAccountedFor` is inductive together with `TableInv`'s other parts: `rows` is
the rest of the table, nothing is stored before it is read, and what is printed
are the complete beacons. `ShowsOwnSensor` is proved under the assumption
`~CharIsSigned`, without which it does not hold (section 3): `FloorInv` says that the
daemon's configuration is the generator's list of beacons and that each splitter delivers
for the beacon with its number, and `TableInv` leads from an entry of the
configuration to a row. Of several entries for one index the last counts; that
there is a last one is well-founded induction on the numbers (`WFMin`).
`KeepsOrder` says more of a topic that only one entry publishes to (`Alone`): it is a
lossy `Mirror` of that sensor. `ShowsOwnSensor` would allow an old value of the right
sensor to come back; this does not. The sample under way is the reading in the
reader's hands as long as the splitter has not come to the sensor (`InHand`): a read
that succeeds is a `Sample`, `ReadFails` leaves nothing, the loop that passes the
sensor without publishing is a `Lose`, its publication a `SendAndShow`, and every step of
another reader a stutter, since its topics are others (`OtherReader`). It rests on
`AssocInv`, by which a reader delivers to a splitter with its own number or to none
and the configuration does not change once there are readers (`ConfigKept`). It
needs no assumption about `char`. Two entries with the same checkerboard id may
overtake each other, hence `Alone`.

Only model-checked: all liveness properties (`ShutdownCompletes`, `EventsFlow`,
`BecomesUsable`, `Reconnects`, `RobotFollows`, `ReleaseStops`, `LightFollows`,
`AssociationCompletes`, `EventuallyShown`, `FindsSensor`, `NoSessionLasts`,
`LevelShown`), since fairness and ENABLED are out of the prover's reach. No module
has a recursive operator.

## 5. Not modelled

- Time: delays, poll intervals, the 200 ms of `process()`, the growth of the dust
  sensor's queue when frames come faster than calls. A destructor may have to
  wait for a back-off of 1024 s; the model only says that it returns.
- The deletes at the end of `robbyd` (`main.cpp:62-63`), `alarmlightd` and
  `dustsensord`: `pause()` returns only after a signal that has a handler, and none
  of the daemons installs one that comes back (the handlers of `loguru::init()`,
  which `floorsensord` and `dustsensord` call, log and let the process die); the loops
  of `joystickd` and `dustsensord` have no end. `floorsensord`'s clean-up is modelled
  nevertheless (`Signal`), since its order is where a mistake would hide.
- `Joystick::close()` and the destructor, which no daemon reaches. As written,
  `close()` sets the file descriptor to 0, for which `isOpen()` is still true, and
  the destructor joins a thread that `close()` has joined.
- `BLEClient::stopReaderThread()` followed by a new start, by hand: the flag
  `reader_thread_running` is not cleared, so the start would do nothing. No daemon
  stops a reader other than by the destructor, which is modelled.
- `setReadInterval()`, `setThreadName()`, `MQTTClientRobby::send_message()`,
  `SDS011::sleep()` (which would send one digit of each byte) and the `MQTTClient`
  constructor from strings (which keeps a pointer into its parameter,
  `MQTTClient.cpp:41-53`): used by no daemon.
- Of the mosquitto library: that no more than a window of messages (20 by default) is
  in flight, which only delays the others, and that versions before 1.5 send an
  unacknowledged message again within a session, after a timeout. A message nobody
  subscribes to is not kept in `Joystickd`, and the sessions of `joystickd` are
  only their effect on the messages (`Reconnect`). For `floorsensord` the model ends
  where a word is handed to `sendMessage()`: `ShowsOwnSensor` and `KeepsOrder` speak of
  that, not of a message the library sends again.
- A dust sensor that is exchanged for another while the daemon runs: the topics keep the
  first one's id.
- The overflow of the kernel's joystick queue, after which the kernel reports
  the whole state anew: the model's user waits for a place instead.
- Of the CSV file: a row with fewer than ten fields, past whose end the program
  reads. Of the JSON text: everything but the beacons and one key; sensor indexes
  are taken to be 0 to 14 and checkerboard ids to be shorter than ten characters,
  as in the configurations of the repository.
- The legacy clients beside the daemons' directories (built by no target), the
  playground, and third-party code (loguru).

## 6. Plan

Done: every daemon and the generator have a module; the paths joystick to robot,
buttons to light, table to topics and sensor to topics are modelled end to end;
three abstract specifications are implemented, one of them four times; every safety
property that a run checks, and every refinement, is also a theorem. What could be
asked next:

1. A robot and a light on one joystick: `RobotControl` and `AlarmControl` share
   `Joystickd` but not a run; the question is whether one queue to the broker lets
   either starve.
2. The end of `robbyd`, as if `pause()` returned: its deletes are in the opposite
   order of `floorsensord`'s, and the MQTT thread still runs.
3. A reader that is stopped and started by hand, if a daemon begins to do so.
4. Rates: a bound on the sensor's queue needs a model of how many frames come
   between two calls.
