# A verification project for mixed_reality_table

The repository is the server of a table that tracks markers and touches with
cameras. A table thread takes pictures, runs image processors over them and
tells its clients, with the TUIO protocol, what lies on the table; a second
thread serves a TCP port on which programs send it commands (echo, calibrate a
camera, define touch regions). Beside it live the TUIO library with its client
and transports, a library that finds motion with the camera of a Raspberry Pi,
and RaspiVid, a recorder built on the same firmware. This directory holds TLA+
models of the parts in which state, threads and ordering matter, TLC
configurations that check them, and proofs of the most important results. Paths
are relative to the repository; `mrtable` stands for `lib/mrtable`.

## 1. Inventory

| Part | State | Operations | Interacts with |
|---|---|---|---|
| **Message queue** `mrtable/data/MutexQueue.hpp` | a deque and a mutex | `push`, `pushAll`, `popAll`, each a `try_lock` that gives up at once; `pop`, `isEmpty` (no caller) | pushed by the io thread, popped by the table thread |
| **Command server** `mrtable/server/CommandServer.cpp`, `CommandSession.cpp`, `ServerConnector.cpp` | `sockets`, the armed session; per session a socket and `data_` | `handle_accept`, `handle_read`, `disconnect`, `broadcast`, `handle_write` | handlers run in the io thread; `broadcast` is called by the table thread, without a lock |
| **Table loop** `mrtable/server/TableServer.hpp` | `messages`, `serverCommands`, `keyPress`, the process queue | the loop of `start`: pop, parse, `processServerMessages`, frame | queue, broker, DetectBounds, video source |
| **Message broker** `mrtable/data/MessageBroker.hpp` | code → vector of messages | `bind`, `put`, `respond` | `respond` calls `broadcast` |
| **Bounds detection** `mrtable/config/DetectBounds.cpp` | static ids, corners, orientations; x, y, width, height, rot, sections, ... | `verifyMarkerPlacement`, `calculateRoi`, `getScreenPosition`, `setDefaults`, `read`, `write` | called by the table loop and by ServerConfig, read by the processors |
| **Server configuration** `mrtable/config/ServerConfig.cpp`, `parsers.hpp`, `ContourParams.hpp` | static settings, four parameter files | `read`, `write`, `initTuioServer`; `-o` of `server`, `detect_markers`, `detect_bounds` | DetectBounds, the processors, the senders |
| **Touch and marker tracking** `mrtable/process/Contour*.hpp`, `Aruco*.hpp`, `Touch.cpp`, `Marker.cpp` | regions, contours, touches, markers with death counters | one `process` per frame each | region commands in; adds, updates and removes cursors and objects |
| **Process queue** `mrtable/process/ProcessQueue.hpp`, `FrameProcessor.hpp` | list of processors | `process`, `run` | called once per frame |
| **TUIO registry** `lib/tuio/TuioManager.cpp`, `TuioContainer.cpp` | lists of objects, cursors, blobs; free lists; highest numbers; session counter; update flags; frame time | add, update, remove, stop, reset, `initFrame` | base class of TuioServer |
| **TUIO server** `lib/tuio/TuioServer.cpp` | packets, update times, modes | `commitFrame`, bundles, `sendFullMessages` | senders (UDP, TCP, WebSocket) |
| **TUIO client** `lib/tuio/TuioClient.cpp` | mirrored lists, free lists, current frame | `processOSC`, `disconnect` | receives the bundles of any number of servers |
| **OSC encoding** `lib/tuio/osc`, `OscReceiver.cpp` | the buffer of a packet; places in it | every `<<` of the packet stream; iterators over a received packet | between bundles and transports |
| **TUIO transports** `lib/tuio/*Sender.cpp`, `*Receiver.cpp`, `ip` | sockets, a list of clients, the multiplexer's flag and pipe | accept, read, send, close, `Run`, `Break` | one thread per connection, one that accepts |
| **Motion camera** `lib/rpi_motioncam` (callbacks) | staging and ready queues, regions | two callbacks, region growing, an overlay | two firmware threads and a consumer; a library of its own, not linked into the server |
| **MMAL ports and components** `lib/rpi_motioncam/src/components`, `RaspiPort.cpp` | components, ports, connections, pools | `init`, `connect`, `create_buffer_pool`, destructors | the firmware |
| **Camera controls** `RaspiCamControl` (twice: `tech_tests` in C, `rpi_motioncam` in C++) | parameters and what the camera has | options, setters, zoom keys, demo cycle | firmware |
| **RaspiVid recorder** `tech_tests/RaspiVid.c` | a pipeline, files, circular buffer, flags | the program from its command line to its end | `main` and two firmware threads |
| Video sources `mrtable/sources` | an OpenCV capture | `getFrame`, `isFile`, `reset` | table loop |
| Image processing `mrtable/process/{Canny,Grayscale,Otsu,...}.hpp` | none | one OpenCV call each | process queue |
| Simulators `tuio_simulators` | lists of sticky, joint and active cursors | mouse and key handlers, frame loop | drive a TuioServer |
| Calibration, generators, other `tech_tests`, scripts, build files | none that survives a call | | command-line tools |

What makes the parts right, and what is hard about them:

- *Queue*: no element is lost, doubled or reordered by the queue itself; the
  mutex is only tried, so a caller may fail at any time, and the table may find
  it taken again and again.
- *Command server*: `sockets` and the living sessions must agree while the io
  thread adds and deletes sessions and the table thread iterates. The iterator,
  the pointer it yields, the session behind it and the bytes handed to
  `async_write` can each go stale separately; freed addresses are reused.
- *Table loop*: each command once, in order, whatever was coalesced in a read;
  calibration commands in an order nobody wrote down; no client may stop the
  frames.
- *Bounds*: four markers found in any order must be accepted exactly if they
  stand around one section, and the geometry must work for the four ways a
  camera may hang.
- *Configuration*: what is saved must come back; a key that is missing is read
  as 0, silently.
- *Tracking*: a cursor per touch, a touch per finger, and none left behind when
  a region is deleted, a finger is away for a while or two fingers meet.
- *Registry*: small reusable numbers and unique sessions through every history
  of adds and removals; a free cursor is dereferenced without a test.
- *TUIO server*: nothing is sent that did not change, so a forgotten flag or time
  stamp leaves receivers wrong for ever.
- *TUIO client*: packets are lost, doubled, late; servers restart and count anew;
  several servers share one frame counter.
- *OSC*: arguments grow up, type tags grow down, and both are moved at the end of
  a message: room must be counted before it is used.
- *Transports*: nobody locks the list of sockets; a thread blocks in a read, an
  accept or a `select` and has to be woken to end.
- *Motion camera*: buffers must return to their ports, regions must meet the
  pictures, and no callback may wait for ever; any firmware call may fail.
- *Recorder*: every error path has to release what was made; files split, ring
  buffers wrap, and signals, keys and timeouts end things at any moment.

The hazards are listed with their lines in `PROJECT.json`, each with the properties
that cover it, or the reason why none does.

## 2. Modules

```
AtomicQueue <== MutexQueue <-- CommandServer <-- TableServer <-- MCTableServer
                                                   ^    ^
                                     Lists <-------'    '---- TableServerProofs --> ListLemmas

IdPool <-- TuioManager <-- TuioServer <-- MCTuioServer
                ^               ^-------- TuioProofs --> ListLemmas
      Lists <-- '---- Tracking <-- MCTracking
                         ^-------- TrackingProofs --> ListLemmas

Lists <-- TuioClient <-- Protocol <-- MCProtocol
                            ^-------- ProtocolProofs --> ListLemmas

OscWords <-- OscStream <-- Osc <-- Transports <-- MCTransports
   ^              |         |         |
   |              |         |         +--> TcpEndpoint, UdpEndpoint
   '------ OscReceived <----'
TuioServer, Transports <-- TuioProofs
Lists <-- TcpEndpoint, ListLemmas

MotionRegions <-- MotionCam <-- MCMotionCam
                      ^-------- MotionCamProofs

RecorderOptions, CircularBuffer <-- Recorder <-- MCRecorder
                                        ^------- RecorderProofs

DetectBounds <-- Configuration <-- Settings <-- MCSettings --> MCDetectBounds
                                    |   ^------ SettingsProofs --> ListLemmas
                                CamControl
```

(`A <-- B`, `B --> A`: B EXTENDS A, or has it as an INSTANCE; `<==`: refinement
through INSTANCE.)

### AtomicQueue, MutexQueue

`AtomicQueue` promises a queue whose operations happen at one instant.
`MutexQueue` is the code: `data`, the `lock`, and for every thread the step it
has reached (`pc`), the vector it pops into (`dest`) and what it still has to
push. `push(e)` is `pushAll` of one element. `popAll` locks, copies the deque to the
end of its destination, clears the deque and unlocks, in four steps between which
every other thread may try the lock: the clear of the destination is the caller's
(`ClearDest`), as in `TableServer.hpp:152`. `Contended` is a `try_lock` that
failed. The refinement maps the abstract queue to what a thread would see that
took the lock now (`Visible`).

### CommandServer

One action per handler: `HandleAccept`, `HandleAcceptError`, `HandleRead`,
`HandleEof`, `HandleError` in the io thread, one at a time; `BroadcastStart`,
`-Fetch`, `-Write`, `-End` in the calling thread, interleaved with them.
Sessions are objects at addresses (`heap`), `sockets` is a sequence of addresses,
and a freed address may be used for a later session. The first session exists
before any client does (`fresh`).

Undefined behaviour is a choice among what a build does. A push_back during a
broadcast may or may not move the vector; an iterator into the old storage may
still read the old pointers, end at once, or crash; a write through a pointer to
a deleted session crashes, is harmless, or reaches the session that has the
address now. A response that a socket could not take at once is sent later from
a string that may be gone: the model says of every response whether it is intact,
and one that is not is reachable.

`Faults` chooses which of `FaultKinds` happen: reads failing otherwise than by eof
or reset, failing accepts, garbage in the fresh `data_` (`Garblings`), slow
sockets.

Assumptions: a client sends whole command lines; a read may return several
commands but no half. `sendQueue` is never pushed to by any code, so the
`popAll` of it in `handle_read` finds nothing and is left out.

The loop of `disconnect` is `Erase`, a recursive function with one `Round` per
position. `Lists.Chosen`, what `put` keeps of the parsed commands (`Put`) and
`RemoveClient` of the clients, is a recursive function too, so that proofs can
unfold it, which `SelectSeq` does not allow. The client's lists are chosen with it as well.

### TableServer

The loop of `TableServer::start`, one action per stage: `Poll`, `PopStep`,
`Parse`, then one of `Echo`, `Verify`, `CalculateRoi`, `Ignore` per command with
`Responding` for the broadcast inside `respond`, `ServeEnd`, `Frame`. It composes
the queue and the command server and is where both threads meet. A picture is
what it shows of the corner markers (too few, legal, illegal); the geometry
itself is `DetectBounds`. A string that holds several commands is parsed as one:
`stoi` sees the first number and `getline` the first line. The one installed
processor does nothing, since no server is ever put into `SharedData`, so it has no
step. `keyPress` is copied before the loop, so the ESC of a running preview is never
seen; but at the end of a previewed file the loop calls `waitKey(0)`
(`TableServer.hpp:163`) and stands still until a key is pressed (`PressKey`, a step of
the user). CALCULATE_ROI works on whatever the last picture left, verified or not.
When the picture of a verification cannot be had (`VerifyNothing`; line 90 ignores
what `getFrame` says), the detector throws at the empty one and nobody catches.

### IdPool, TuioManager, TuioServer

`IdPool` is how cursors and blobs get small numbers: the lists and the highest
number as a record, with `Adds` and `Removes` as operators. Positions are left out, so
any free cursor may be the closest. `TuioManager` has the three lists with one
session counter, and the sets of those seen in the current frame, newly added,
and moving; one action per entry point. Two frames may begin in the same
microsecond (`InitFrame`). Listeners change nothing here. The `...External...`
entry points have no caller.

`TuioServer` is `commitFrame` and the discipline of a frame as `TuioServer.h`
documents it and `SimpleSimulator::run` follows it: `initFrame`, changes,
`commitFrame`. `alive` is what a receiver was told last, `unsent` whose data
changed since. A bundle split over several packets is one bundle here and several
in `Protocol`.

### Tracking

The processors for markers and fingers as steps over the registry's own actions:
`Contour` takes the region commands and erases or adds regions, `ContourCompute`
matches the contours of each region to touches, counts the frames a touch was
skipped and culls it, `Aruco` and `ArucoCompute` keep the vector of markers with
its death counters. A contour is the place of its rectangle, or a speck; a picture
is what `findContours` finds in each region and `detectMarkers` in the whole. An
exception (`stoi`, an empty rectangle, an index beyond the markers) ends the
processor where it is thrown, and `ProcessQueue` swallows it.

`Marker::reset` keeps `tObj`: a marker that was removed is removed again through a
dangling pointer, and the counted pointers delete what the registry has already
deleted. From then on the heap is `spoiled`: the process may die at any time, and
until then the model follows the outcome in which the memory holds what it held.
The death counter of a marker is not set back when the marker is seen
(`ArucoCompute.hpp:42-64`): an object leaves after `skippableFrames` pictures and one
more although its marker is in each of them, and since `tObj` is kept
(`Marker.cpp:21`) it is never placed again. So objects do not follow markers, and
`ObjectsAreCounted` says what they do: at most one for a marker (`OneObjectPerMarker`),
on the table for exactly that count of pictures since it was placed, once in the life
of the process (`OneLife`), and no freed memory is used before somebody left the table
(`SpoiledByRemoval`).

At this commit the `addProcessor` calls of these processors are commented out
(`TableServer.hpp:243-253`) and nothing stores a server in `SharedData`; the model
assumes both done.

### TuioClient, Protocol

`TuioClient` is `processOSC` as operators from a client and a bundle to the clients
it may leave, since "the closest free cursor" is any. What a client has of one kind is
one record (`held`): its list, its free list and the highest numbers of the sources. A
bundle is noted entry by entry (`Noted`, `Gone`), and the entries are applied to that
record one after the other (`AllApplied`), each a removal, an addition or an update.
`Protocol` puts servers, the
network and one client together. Of a server it keeps the table, and which of it is not announced yet: that
the bundles of a frame carry the whole alive list and at least the changed data is
`AliveInSync` and `DataInSync` of `TuioServer`, which are proved. Packets are
lost, doubled and reordered up to `MaxDelay` frames; a server may split its bundle
at `Capacity` set messages, end cleanly, or crash and start anew. Cursors and blobs
that were added but not updated yet (state `TUIO_ADDED`; `hidden`) are left out of a
frame's alive list and set messages, while `sendFullMessages` lists and sends all there
are (`TuioServer.cpp:459-503, 576-626`); `whole` keeps of which kinds it was the last to
send, so that what a client should show (`Told`) is everything until the next bundle
of that kind takes the hidden ones away again. Facts the model shows: a restarted server is ignored until
its numbers pass the client's frame or fall more than 100 behind
(`TuioClient.cpp:139`); the frame counter is shared by all sources; an object keeps
its symbol when a restarted server gives its session to another marker (119).

### OscWords, OscStream, OscReceived, Osc

A packet is a sequence of words that say what they are; strings and blobs are
known by their lengths. `OscStream` has one action per `<<` of the packet stream,
with the room it counts and the exception when there is none, the link that an
open element's size slot holds, and the movement of arguments and tags at the end
of a message. `OscReceived` reads a packet that may be cut, with the tests of
`OscReceivedElements.cpp` in their order. `Osc` cuts what was written to what
`recvfrom` hands over and reads it. Facts: the blob tests at lines 631 and 636
build an exception without throwing it; arguments are accepted outside a message: one that is put
between elements is written over by the next, and one that is put after the last
element of a bundle is counted in no size but stays in the packet, since the end of
the bundle leaves `argumentCurrent_` alone (`OscOutboundPacketStream.cpp:315-327`);
a message whose address begins with `#` is read as a bundle; an inner bundle that
is malformed throws where it is constructed, so it ends the loop over the elements of
the bundle around it, which catches that (`OscReceiver.cpp`), while a malformed message
is caught by nobody and ends the thread that receives.

### TcpEndpoint, UdpEndpoint, Transports

`TcpEndpoint` has the three TCP classes, with the accepting thread, one thread per
connection and the thread that sends, each stepping between the system calls.
A client thread takes the *last* socket of the list as its own (`TcpSender.cpp:34`),
which is another's if two connections come in a row; erasing from the list under
the sender's iterator, or writing to a closed socket, may end the process (`crashed`).
An `accept()` that fails on a socket that listens (`AcceptFails`) ends the
accepting thread for good (`TcpSender.cpp:88`, `TcpReceiver.cpp:109`); it will when the
descriptors are used up, since the sockets of clients that left are not closed (42).
`UdpEndpoint` has the sender, the receiver, and the multiplexer's loop with its
flag and pipe: `Run` clears the flag when it begins, so that a `Break` that came
before is lost (`UdpSocket.cpp:372`). `Transports` is one of the parts per
behaviour. Further facts: a browser is listed before its handshake is read, and one
that says nothing keeps all others out; a failed `recv` makes the thread spin; a
`TcpReceiver` cannot connect again; an unknown host is address 0 for UDP and a null
pointer for TCP.

### MotionRegions, MotionCam

`MotionRegions` is how regions grow from the cells with motion: the scan, the search
for a neighbour on each edge, the break at a cell that was already searched
(`MotionVectorCallback.cpp:77`), and the region of interest in pixels.
It is pure, and used by `MotionCam`, which has the camera's thread
(creation, connection, start, destruction, each firmware call failing or not), the
callbacks of the encoder and the splitter, the overlay, and the consumer.
`mmal_port_disable` returns when no callback runs. Facts: what `add_callbacks` and
the nullsink fail at is not returned; a connection that fails leaves its member
dangling (`RaspiPort.cpp:108`); regions and pictures are tied by time alone.

### RecorderOptions, CircularBuffer, Recorder

`RecorderOptions` is `parse_cmdline`, an operator per shape of option.
`CircularBuffer` is the ring with its second ring of intra frames. `Recorder` is the
program: building the pipeline in its order with the jumps to its error label,
opening files, sending pools to ports, the five ways to wait (a time, a key, a
signal, for ever, and with the capture switched in between), the two encoder
callbacks and the splitter's, saving the circular buffer, and closing down.
A buffer whose sending fails, in the callbacks or when the pools are handed out, is
logged and lost for the port (`IsLost`; `RaspiVid.c:1466-1470, 1526-1530, 2851, 2867`).
The size of the ring is `bitrate * (timeout / 1000) / 8` in `int` arithmetic
(`RingBytes`; 2781), modulo `Word`: nothing for a timeout of less than a second, less than
a buffer for a small bitrate, any number or a negative one, for which there is no
memory, when the product wraps around. The model measures the ring in cells of
`CellSize` bytes, one unit of the stream each, and a buffer has at most `BufferUnits` of
them; the second of the two `memcpy` (1323) writes beyond a ring that is shorter
(`Overruns`).
Assumptions: the encoder gives nothing more after the capture was switched off; a
frame spans at most two buffers. `KnownCrashes` names the only ways in which the
program can die: an encoder that was destroyed although its creation reports success
(`RaspiVid.c:2126`, a picture too large for the level), a pool that could not be
made, a ring that is shorter than a buffer of the encoder, a vectors or time
stamp file that could not be opened and is closed at a split (1377-1393), and a
search for an intra frame in a ring that holds none. `PausedSaveIsWhole` says when the
saved part of a ring is the end of the stream; its exceptions are the code's: an intra
frame that is overwritten while it is the only one on the list stays at its start, also
when newer ones join it (`RaspiVid.c:1307`), and a buffer that ends exactly at the end
of the ring does not count as wrapping around (1327). `CommandLinesAssumption` says what a command line is.

### Configuration, CamControl, Settings

`Configuration` is `ServerConfig::read` and `write` with the four parameter files: a
file is a function from keys to nodes, and reading a node of the wrong kind does
what `cv::FileStorage` does (a missing number is 0, a number read as a string is
empty). It also has the three programs whose `-o` writes such files. Facts: `-o`
without a readable configuration overwrites the parameter files with defaults;
measured bounds are never saved by the server; UDP cannot be disabled; bounds that
lack `sections` divide by 0.

`CamControl` is both versions of the camera controls, which differ only where the
comments say so, with a firmware that may refuse any call. Facts: the demo map is
off by one (`RaspiCamControl.c:314, 328, 341`); zooming out adds its step to a width
that was raised to the floor and passes 65536 (1391).

`Settings` is one of bounds, files and camera per behaviour. `DetectBounds`
itself is `verifyMarkerPlacement` over pictures of markers with corners in whole
pixels (the detector is called without corner refinement), the unrolled three
passes of the bubble sort with the early return on duplicates, the tests on numbers
and orientations, `calculateRoi`, and `getScreenPosition` as its numerator over
`sections * baseline`. It starts like the statics: four zero ids with empty corners.

## 3. What the runs check

| Run | Shows (properties) | Distinct states |
|---|---|---|
| `connections` | two clients come, send, leave and come back while the table broadcasts to slow sockets and an accept fails: sockets follow sessions (`OpenIsRegistered`, `SocketsAreConnected`), each command is parsed once and in order (`InOrderOnce`), an undisturbed broadcast reaches everybody once (`CalmBroadcastReachesAll`), and only an accept or a disconnect inside a broadcast can end the process (`CrashNeedsRace`) | 4,585,285 |
| `dispatch` | every kind of command through the whole path, with failing reads and pictures, garbage, and a preview that waits for a key: the queue is atomic (`QueueIsAtomic`), a queued command is parsed if keys are pressed (`QueuedIsParsed`), and no message keeps the table from its frame for ever (`FramesGoOn`) | 227,400 |
| `wire` | three sessions over the three lists: numbers distinct and dense (`NumbersOK`), the order of a removal loop does not matter (`OrderIrrelevant`), between frames a receiver knows the announced members and their latest data (`AliveInSync`, `DataInSync`), in each of the three sending modes | 193,348 |
| `tracking` | regions, fingers and markers that come, go, overlap and slide: `CursorsFollowFingers`; a marker has one object at most, for the pictures counted since it was placed (`ObjectsAreCounted`); and cursors leave exactly when their finger was away for the skippable frames in which their region was searched (`LeavesAfterAbsence`) | 7,467,950 |
| `protocol` | a server that crashes, restarts, shuts down, splits bundles and sends full messages, and a network that loses, doubles and reorders: a client that read everything shows what it was told (`ClientIsRight`), never goes back (`NeverGoesBack`), and shows the table at last if the server repeats itself (`Converges`) | 467,057 |
| `transports` | the senders' and receivers' threads with two clients, and every sequence of calls on a packet, stray arguments included: `FitsTheBuffer`, `ReadsWhatWasPut`, `CutIsDropped`, `ClientListOK`, `CalmFrameReachesAll`, `EveryoneIsAccepted`, `BreakEndsRun` | 1,315,167 |
| `camera` | from creation with any call failing to destruction while callbacks run: `LifeCycleOK`, `PortsStaySupplied`, `RegionsOK`, `NobodyWaits` | 547,005 |
| `recorder` | some 530 command lines with any call failing: everything made is released (`ResourcesOK`), callbacks keep their buffers but those whose sending failed; they write to open files, and beyond a ring only if it is shorter than a buffer (`RunsSafely`), `SplitsFollowRecordings`, `PausedSaveIsWhole`, `AbortEnds` | 2,437,144 |
| `settings` | bounds, files and camera controls: `AcceptedIsASection`, `AnyOrderIsAccepted`, `RoiCoversShare`; what was saved comes back but for what the configuration is known not to save (`SavedComesBack`); `CycledAreRestored`, `RoiIsTheCrop` | 898,444 |

Three runs expect a violation, each of what the repository says about itself:

| Run | Property | What happens |
|---|---|---|
| `push_lost` | `ReadIsQueued` (`src/server.cpp:51`) | a command that is read while the table pops is thrown away |
| `dangling_socket` | `SocketsAreConnected` (`CommandServer.cpp:51`) | a session that failed otherwise than by eof or reset stays in `sockets` |
| `tcp_unread` | `ReadIsProcessed` (`TcpReceiver.h:40`) | the length of a packet is read from one byte of four, is always 0, and a whole packet is never processed |

**Bounds, and why they are enough.**

- *Command server.* Two clients with three connections reuse an address while
  another session is open, which is all a stale pointer needs; two commands
  (`MaxSends`) are enough to be coalesced, reordered or doubled, and
  `CommandsAreParsedInOrder` is proved for any number. There is one address more than
  clients, the least with which the constructor's armed session can exist.
- *Registry, wire.* Three sessions give a gap under the highest number and a refilled
  gap; the theorems cover any number.
- *Tracking.* Two regions that overlap and one outside the picture, fingers at three
  places in a row (neighbours overlap, the ends do not), one skippable frame.
- *Protocol.* A window of one frame for the code's 100 makes "late" and "restarted"
  meet within three frames; two sessions, whose numbers a restarted server gives out
  again, and one set message per packet, so that the second splits a bundle. Three
  frames with changes are an arrival, a change and a removal.
- *Transports.* Two connections are what it takes to cross threads. The OSC buffer of
  52 bytes holds one or two messages of three arguments but not seven calls of any
  kind, and 38 bytes cut a packet within a word.
- *Camera.* A grid of 4 x 5 cells, two pictures, one failure at any call, one buffer
  per pool (the least, which loses supply soonest).
- *Recorder.* Several hundred command lines: every option alone and the pairs that
  change what is built. With cells of 2,500,000 bytes, at most two of them in a buffer,
  and a word of 2^30, the timeouts of the circular recordings give rings of four cells
  and of two, of one and of none, which overrun, one that wraps around to a single cell
  and one to a negative number; seven units of a stream wrap a ring of four once and
  lap an intra frame; three switches of the capture pause, resume and pause.
- *Settings.* One picture after the initial state, as every picture replaces all that
  the last one left: every choice of four numbers up to 5, every quadruple of
  orientations for legal and nearly legal ones, every order of detection. Files differ
  from typical ones in one key. One option from the edge of every range with up to two
  refused calls; a word of 2^18 for `unsigned int`, above every sum the zoom forms.

Symmetry (addresses) is used only in `connections`, which checks no liveness.

**Fairness.**

- `TableServer.FairSpec`: weak fairness of the table thread and of the io thread, each
  as a whole; neither blocks for ever on the other (the table's only lock is tried).
  Where the table does block, in the `waitKey(0)` of a previewed file, it is not fair:
  the step is the user's, and `QueuedIsParsed` has as its hypothesis that the loop is
  outside that wait again and again (`KeysArePressed`). Clients owe nothing, nor does a
  fault have to happen. `QueuedIsParsed` also depends on `MaxSends`: were pushes never to end, each could meet the table's `try_lock`;
  the run shows that a finite burst is worked off.
- `Transports`: the accepting thread while the process lives, and each thread inside
  `Run()`. Peers, browsers and users owe nothing, and nothing makes `accept()` fail,
  which is why `EveryoneIsAccepted` has to except a browser that says nothing and a
  thread that an `accept()` has ended.
- `Protocol`: in periodic mode the server's bundles, and news of a source from the
  network (UDP loses packets, but not all for ever); `Converges` says what is then
  true at last. Without periodic sending nothing is claimed.
- `Recorder`: building and closing down, `main`'s own steps, and the return of buffers
  to each port. Keys and signals are never forced; hence `AbortEnds` excludes the waits
  that only a key or a signal ends.
- `MotionCam`: the steps of callbacks that have begun, the display of the overlay, and
  destruction. Pictures and the consumer are not forced.

`CHECK_DEADLOCK FALSE` is set where the system may really stop: the camera
stopped and all clients are gone, the process crashed, or a bound is used up.
`recorder` does check it: its program ends by stuttering in its final state only.

## 4. What is proved

TLAPS proves these for every value of the constants.

- **TableServerProofs**, the queue. `MutexIsHeldInside` (`QSpec => []QInv`): with any
  number of threads the lock has an owner exactly while that thread is inside.
  `QueueRefinesAtomicQueue`: the queue implements `AtomicQueue`. The refinement needs
  the invariant to know that while one thread stands between the copy and the clear
  no other can push what the clear would destroy. `ServerQueueIsAtomic`
  (`QueueIsAtomic` of `TableServer`'s `Spec`): so does the queue within the composed
  table server, since every step of its sessions, its loop and its clients is one of the
  queue's or leaves it alone. Its hypothesis is that the batches the abstract
  queue knows contain every string a read can yield (`ReadStrings`), which is how
  `dispatch` gives them; what a wire can hold is the small invariant `WireOK`.
- **TableServerProofs**, the commands. `CommandsAreParsedInOrder` (`InOrderOnce`), for any clients,
  faults and coalesced reads, and `QueueIsNeverLeftLocked`. A command passes through
  places: the wires, the pushing thread's argument, the deque, the vector it is
  popped into, and the log of what was parsed. The invariant `PipeOK` says that each
  place is ordered for every client and that each place is before the next
  (`Ordered`, `Before`, `LogBefore`); that one thread's copy is not doubled by
  another's push between the steps of `popAll` needs the lock invariant (`LockOK`).
- **TableServerProofs**, the sockets. `OpenSessionsAreRegistered` (`OpenIsRegistered`)
  from `SessionsOK`: a socket is listed once (`Distinct`), a client has one session,
  and unless a read failed otherwise than by eof or reset the list holds the open
  sessions only. That the erasing loop takes out one socket and no other (`EraseKeeps`)
  is shown round by round: a round changes nothing before it meets the socket, and
  nothing after, since in a list without repetition it cannot meet it again; the
  skipped element is never the one to erase. Three more theorems have the condition
  that `read_error` is not among the faults, which `dangling_socket` shows to be needed:
  `ListedSocketsAreConnected` (`SocketsAreConnected`), `OnlyARaceCrashes`
  (`CrashNeedsRace`: whatever is on the list is alive, so only what the broadcasting
  thread took from the list before can be stale) and `CalmBroadcastsAnswerAll`
  (`CalmBroadcastReachesAll`). The last needs `AnswersOK`: every response anywhere has
  the number of a command that was parsed (`PendingOK`), so that an earlier response to
  the same client is never counted as this one, and a broadcast during which `sockets`
  stays has served exactly the sockets before its iterator (`CastOK`).
- **TuioProofs**, the registry. `RegistryOK == MTypeOK /\ NumbersOK /\ SessionsOK` is the inductive invariant, and
  `RegistryTypes`, `NumbersAreDense` and `SessionsAreUnique` follow. None of the three
  is inductive alone: a gap to be filled exists only because the numbers on the
  table and in the free list are distinct *and* fill 0..max (`GapExists` counts
  them), a pool stays one under removals only because live and free ones do not
  overlap, and that a newcomer is new needs every session to be at most the
  counter, the free lists included. `LoopOrderIsIrrelevant`: taking one and then the
  rest of a set is taking the set (`RemovalsCommute`), so that the model's removal
  of a set stands for any order of the code's loop.
- **TuioProofs**, the wire. `ReceiversKnowTheAlive` and `ReceiversHaveTheData`
  (`AliveInSync`, `DataInSync`) from `WireOK`: also within a frame, a receiver's list
  lags behind only for kinds whose update flag is set, and its data only for
  members that carry the frame's time stamp. `NumbersAreDenseOnTheWire` carries the
  registry's invariant over to the server's frames, and
  `LoopOrderIsIrrelevantOnTheWire` the order of the removal loops (`OrderIrrelevant`),
  in the form in which `wire` checks it.
- **TuioProofs**, the packets. `PacketsFitTheirBuffer`: whatever is called, and whatever
  throws, a packet and the type tags at the end of its buffer stay within it. The
  invariant `BufferOK` is that what would be there after the message ended (`Size`)
  never exceeds the capacity, which each `<<` has to guarantee beforehand; the end of
  a message inserts exactly what `Size` counted.
- **TuioProofs**, what is read back. `BundlesReadBack` (`ReadsWhatWasPut`): a finished
  bundle, whatever its depth, messages and arguments, is read as it was put, and
  `CutBundlesAreDropped` (`CutIsDropped`): a bundle longer than the receiving buffer gives
  no message, and no exception leaves the receiver. Both are about a bundle at whose end
  no stray argument was left (`OneBundle`), which the library's own senders never do:
  with one, more is sent than the sizes count. Both from `CodecOK`, which has no such
  condition and says of stray arguments that they are behind what is finished. While bundles and
  messages are open the words in the buffer make no packet: an open element's size
  slot holds the place of the slot around it, and the tags of an open message are at
  the end of the buffer. So the invariant describes them as a stack (`Below`): each open
  bundle has its slot, its time tag and the elements finished so far (`Partial`), and a
  message that is being written is on top (`OpenWithin`). Each of these stands for a
  stretch of the history of calls (`put`), which a finished element reads as
  (`ReadsAs`). That it still does when words are added after it, and when a size is
  filled in before it, is because the reader looks at nothing outside the element
  (`Inside`, `Visited`, `ElementsInside`). The recursion of the reader is unfolded one
  level at a time, with no induction over the depth: to close a bundle it is enough
  that its elements read as they should. A bundle that is cut arrives with as many bytes
  as the buffer has, which is no multiple of four (4098; `BufferAssumption`), so it is
  rejected before its first element is looked at.
- **TuioProofs**, the clients. `ClientsAreWatched` (`ClientListOK`) from `ListOK`: the thread
  of a connection finds its socket with `back()`, right only as long as that connection
  is the last on the list, and nobody else reads a listed socket, which is what keeps
  it there; `connected` is lowered by the thread that empties the list, and the
  invariant says who still has to. `CalmFramesReachAll` (`CalmFrameReachesAll`) from
  `FrameOK`: a frame on an unchanged list has been written to the clients before the
  sender's position, once, and to none after it.
- **TuioProofs**, the transports together. `TransportsAreSafe` is about
  `TransportsSpec`, which `transports` checks: packets fit, read back and are dropped
  when cut, clients are watched and calm frames complete. `BreaksAreKept`, for any
  number of threads: unless `Run()` is entered after its own break or by a second thread
  (`lost`), the flag is not cleared while a thread that was told to leave is still in
  the loop, and that thread goes to read no further datagram. `BreakEndsRun`,
  which TLC checks, rests on it.
- **RecorderProofs.** `RecorderRunsSafely` (`RunsSafely`) from
  `IInv == OptionsOK /\ BuffersOK /\ RingOK /\ FilesOK /\ PoolsOK /\ KnownCrashes`.
  No part can be carried alone. That the callback never misses a buffer needs
  `BuffersOK`, which counts each port's buffers, those that a failed sending lost
  included, by the stage `main` has reached (`Onward` gives the order of the stages, and that a callback runs only in some of
  them). That it never writes to a closed file needs `FilesOK`: while a callback may
  run (`Live`), the open files are those the options name. That the options name
  them is `OptionsOK`, through the whole command line. That the search for an intra
  frame ends needs `RingOK`, for a ring of any length, none included: a cell of the ring holds
  the unit that was written there last (`Placed`), and the newest intra frame the list
  knows is no older than any (`NewestNoted`). That only a ring shorter than a buffer is
  overrun rests on the place to write at being within the ring, and on a buffer having
  `BufferUnits` at most. `PoolsOK` says that a pool is missing only if a call failed.
  `ResourcesAreGivenBack` (`ResourcesOK`) adds what each stage of closing down
  has still to release (`Returned`). `SplitsAreCounted` (`SplitsFollowRecordings`)
  adds `SwitchesOK`, in which the pause a run begins with is told from later ones.
  `PausedSavesAreWhole` (`PausedSaveIsWhole`) adds `SavedOK`: between the two writes of
  a save the saved part is the ring's end from the intra frame on, and then with its
  beginning; with `Placed` that is the end of the stream without a gap, for a ring of
  any length.
- **SettingsProofs**, the bounds. `MarkersInv == okay => Accepted(markers)` is the invariant:
  markers that were found okay are four, sorted, and passed every test.
  `OkayIsASection`: they are the markers of one section, for any picture;
  `BubbleSortSorts` shows that three passes sort any four markers and that the
  early return catches every duplicate. `OkayBoundsCoverTheirShare`: bounds computed
  from okay markers send the borders' first marker to `sectionNum` and the third to
  `sectionNum + 1` widths, in each of the four ways the camera may hang
  (`RoiCovers`, by cases of `Orientation`), with a denominator that is not zero.
  `OrderOfDetectionIsIrrelevant` (`AnyOrderIsAccepted`): the comparisons only move
  markers about (`BubbleSortShuffles`), and four distinct numbers can be put in
  ascending order in one way (`OneAscendingOrder`), so all 24 orders lead to the
  same tests. `SectionsAreRight` has the three of `SettingsSpec`, which `settings`
  checks: no other part of the settings disturbs what bounds detection keeps.
- **SettingsProofs**, the files. `SavedSettingsComeBack` (`SavedComesBack`) from
  `FilesInv`: what was saved last is either spoiled or still in its files (`Stored`), if
  no two of them have one name (`OwnFiles`; without it the model shows that one
  overwrites the other). That the files read back as what was written needs that the
  settings are such as a start leaves (`ConfigOK`): a name that was not given, a port
  that is off, or parameters without a file are the static ones, so that leaving them
  out of a file loses nothing, and the TCP port is what a `short` holds.
- **SettingsProofs**, the camera. `RecordedRegionIsCropped` (`RoiIsTheCrop`): centring uses
  the width for both coordinates, which agrees with what is recorded. `DemoPutsBack`
  (`CycledAreRestored`), for lists of modes of any length, from `DemoRests`: as long as
  nothing was refused, all parameters before the current one are at rest, and in the
  orientation the rotation is back before the flips are tried (`Rests`). One call may pass
  through three parameters, so this is shown stage by stage (`RangeStage`,
  `ColourStage`, `OrientationStage`) of the list of setters it calls: the last that
  sends to a control decides (`OneMore`), and no two parameters share one
  (`ControlsAreApart`).
- **MotionCamProofs.** `PortsKeepTheirBuffers` (`PortsStaySupplied`), for any number
  of buffers, failures and pictures, from `SupplyOK`: what a callback has in its
  hands follows from where it is (`Held`), and a port that is enabled keeps nothing
  in its pool but between the return of a buffer and the sending of the next. That a
  port gets its pool only once needs to know what is still to be added (`AddingOK`).
  `CameraIsBuiltAndTakenApart` (`LifeCycleOK`) from `LifeOK`, one part per phase: what
  is needed exists or is still to be created, linked inputs belong to components that
  exist (`OwnersOK`), and what exists is still to be destroyed (`EndingOK`). The parts
  hold only together: a null component is connected to, or an overlay that is
  missing is drawn on, only after a failure that an earlier phase had.
  `RegionsAreRight` (`RegionsOK`), for any grid, motion and number of pictures. That
  regions reach the consumer in order is from `QueuesOK`: the pictures that were taken,
  are ready, are being cut and are staged rise, each queue before the next (`Ordered`),
  and none is newer than the last one shown. That growing ends (`RegionGrows`) is shown
  with the room that is left to a region (`Slack`), which every round that changes it
  makes smaller; that the scan misses only what is behind a region is the invariant of
  its two loops (`Visited`, `AtRow`): of the cells in motion that were visited, each has
  a searched cell of a region in its row and not to its right. `FoundOK` carries this
  to the queues.
- **TrackingProofs.** `MarkersAreCounted` (`ObjectsAreCounted`) from `ObjectsOK` and
  `LivesOK`. The first says that a marker that was placed is on the table until somebody
  left (`MarkersFollow`), and that the registry has no objects and cursors but those that
  were added and not removed (`RegistryIs`), so that a session is new when one is placed.
  The second follows the one life of a marker (`Life`): its death counter and the
  pictures since it was placed (`lived`) run together while its object is there, and the
  counter once more from 0 after it was taken away, at whose end the dangling pointer is
  used; and the pointers of two markers are never to the same object (`Pointers`).
  `CursorsAreFollowed` (`CursorsFollowFingers`) from `CursorsOK`. Its first part
  (`TouchesOK`) is that the touches of all maps and the loops' local copies have
  cursors of their own (`Paired`), through every removal and append in the three
  loops. The second (`FingersOK`) is what those loops have done so far: fingers before
  the loop's position are matched (`FingersMatched`) or still potential
  (`PotentialsFound`), and a touch that was just moved has its death counter reset, so
  the loop of expiries that follows cannot take it, nor can a finger that is alone be
  taken for another's.
  `CursorsLeaveAfterAbsence` (`LeavesAfterAbsence`) compares each touch's death counter
  with the frames in which its finger was away and its region was searched
  (`TimesOK`). Between frames they agree; within one they differ by a frame for as
  long as the region's turn has not come, so the relation has three phases (`Before`,
  `Due`, `Done`), told apart by the position in the queue of processors. A region that
  is not searched must not count (`TouchesNeedLooks`).

- **ProtocolProofs.** `ClientStaysRight` (`ClientIsRight`), for one server in any modes,
  any number of sessions, symbols, frames and events, and packets of any size, from
  `IInv`. Its first part is what every packet looks like that may be on its way
  (`PacketOK`), and what the client may hold (`ClientOK`): a session once in each list,
  and numbers of cursors and blobs that are those of a pool (`PoolOK`), which each
  removal and addition keeps although it may take any free number. Its second part is a
  history: the tables a client has in mind that reads every packet in order (a view per read packet),
  from the last one read to the last one sent. The client shows the first, the server
  told the last (`Told`: after a full message that has the hidden cursors and blobs too), and each packet leads from one to the next (`HistoryInv`). A
  bundle that is split leads through tables in which the removals are done and only a
  part of the news has come, which is right because each part carries the whole
  alive list. This gives `LosslessIsExact` at once, and `SymbolsAgree` when everything
  was read; while nothing ended, `SymbolsAgree` holds of a client that has read
  anything, since a session has one marker as long as its server lives (`ClaimInv`).
  `HistoryInv` quantifies over histories, which TLC cannot enumerate; the other parts
  and the theorem's formula were checked on instances first.
  `ClientNeverGoesBack` (the action property `NeverGoesBack`, from `IInv /\ PlaceInv`)
  compares places over the life of packets. `PlaceInv` says, for the number T of the last
  frame sent: a numbered packet on its way is at most `MaxDelay` frames behind T (`Ages`);
  of two packets the one of the later frame does not say an earlier place (`Rising`); the
  table is ahead of all of them and of what the client shows (`Ahead`); and a numbered
  packet that would take the client back is behind the client's frame, so that `Late`
  drops it, or a packet without a number has data of a later frame (`Excused`). That is
  where `DelayAssumption` is needed: were a packet later than `Window`, the client would
  take it for one of a restarted server. `Excused` has to ask that the client's frame is
  not above T, since the frame of a server that ended may be higher than those of its
  successor; then the packets of the old one no longer arrive. A packet of
  `sendFullMessages` does not excuse by being there but by being of a later frame, which
  stays so when others are dropped. TLC checked `PlaceInv` on all states of the
  `protocol` run before it was proved.
  Both theorems are of one server because with two the formulas are false, which TLC
  shows on small instances with two names in `Sources`: the client compares the frames of
  all servers with one number, so that a bundle of a server more than `Window` frames
  behind makes it accept late packets of the other, and it looks for an object's session
  without comparing the source (`ObjectSet`), so that of two servers that both
  number an object 0 it shows only one.

**ListLemmas** holds what several proofs need of lists. The library's induction
theorems cannot be applied, since they take an operator as a parameter. What has to
be known of a loop for every length is obtained without them: `Counting` (a set of
numbers that has 0 and with `i - 1` also `i` has every number up to `n`) from the fact
that a set of numbers has a least element, and `LoopExists` (a recursive function
over `0 .. n` exists and satisfies its equation) by collecting the unfoldings that
agree; `RepetitionExists` is the same for a recursion that repeats a step until it
changes nothing, if every step makes something smaller. With these `RemoveAtFacts`, `ChosenFacts` and `EraseKeeps` are first-order.

Assumptions of the proofs are the named ASSUMEs of the modules; TLC evaluates them
on each run. They say of the constants what the code takes for granted: that the
positions of the sending loop are no peers (`PositionsAssumption`), what an
argument of the command line is (`CommandLinesAssumption`), that a map has a region's
name once (`RegionsAssumption`), that the queue is one `initProcessQueue` builds: no
processor twice, contours found before they are evaluated (`InstallationsAssumption`),
that an option of the camera is one of its table and a region four numbers
(`OptionsAssumption`), that the receiving buffer does not end with a whole word
(`BufferAssumption`), that strings and blobs have lengths and only one blob is empty
(`LengthAssumption`: two of length 0 could not be told apart by who reads them), that a port in a file is a number (`DisksAssumption`), or that a
packet is not delayed by more frames than the client's window (`DelayAssumption`).

**Only model-checked** are the liveness properties: `QueuedIsParsed`, `FramesGoOn`,
`Converges`, `EveryoneIsAccepted`, `BreakEndsRun`, `NobodyWaits` and `AbortEnds`. Liveness
under fairness and ENABLED are not within reach of the prover. Every invariant, action
property and refinement that a passing run checks is stated by a theorem. No module
declares a RECURSIVE operator: recursion is written as recursive functions, whose
equations the proofs get from `LoopExists` and its like, or as folds.

## 5. Not modelled, and why

- *Message queue*: `pop` and `isEmpty`, which have no caller.
- *Registry*: the `...External...` entry points and `getSessionID` have no caller;
  speeds, paths and positions of containers, of which only whether one is moving
  matters there, a free choice.
- *Server*: WRITE_BOUNDS and READ_BOUNDS have no case in the switch: they are consumed
  (`Ignore`). The destructor of `CommandServer`, and the end of the process.
- *Transports*: timers, `RunUntilSigInt`, `SendTo`, `LocalEndpointFor` (unused), the
  destructors of the TCP classes, the copies of the socket code for other platforms,
  `FlashSender` (Windows and Flash shared memory).
- *Configuration*: the files of the blob and contour tools, files that cannot be
  written, and dumps.
- *Camera*: pixels, format values, the settings callback that nothing installs.
- *Video sources, image processing*: one OpenCV call per operation;
  `TableServer.Frame` has what `getFrame`, `isFile` and `reset` answer.
- *Simulators*: interactive programs; the frame loop of `SimpleSimulator::run` is the
  frame discipline of `TuioServer`, their mouse handling is left out.
- *Calibration, generators, other technical tests, scripts*: single-threaded
  command-line tools.

Limits that were met: three commands with faults, or two pictures in a row, exceed
what TLC does in five minutes; so do two sources in `protocol` and four sessions in
`wire`.

## 6. What could come next

1. **Simulators**: the lists of sticky, joint and active cursors of
   `SimpleSimulator`, over the registry's actions.
2. **Two servers and one client** in `protocol`, for the frame counter they share.
3. **The blob tools' files** in `Configuration`.
