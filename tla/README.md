# MyHls, specified

MyHls is a small HLS server for Windows: it pulls (or is pushed) RTSP streams of
cameras, muxes every video frame to MPEG-TS in memory, and hands each browser
session its own sliding list of segments.  This directory holds TLA+
specifications of its core, configurations that check them with TLC on small
instances, and proofs that TLAPS checks for every value of the constants.

Paths below are relative to `src/HLS/`; a line number such as `Camera.h:325`
refers to the revision these specifications were written for.

## 1. The system

### Components

| Component | State | Operations |
|---|---|---|
| `Camera`, window (`Camera.h`) | `inPackets` (at most 100 muxed packets), `packetCount`, `inPacketsLocker` | `CreateTs` appends and evicts; `GetTsSeg(packet)` cuts the first segment of a session; `GetTsSeg(packet, from)` cuts the next one |
| `Camera`, pull thread | `ic` and the FFmpeg contexts, `videoIndex`, `isConnect`, `connectFail`, `tryConnectCount`, `closeEvent` | `Pull` (connect, read frames, reconnect, give up), `Connect`, `StartPullThread`, `~Camera` |
| `Camera`, muxing | the muxer and its buffer, `tsData`, `tsDuration` | `CreateTs`, `InitialTSContext`, `WriteData`, `FillIobuffer` |
| `CameraMangage` (`Camera.h`) | `pullIns` (tag to camera), `keys`, `usePorts` | `Add`, `Get`, `Delete`, `GetFreePort`, `GetListJson`, `GetInfo`, and a thread that deletes failed cameras |
| `Client` (`Client.h`) | one `TsSegBuffer`, `tsTotalCount`, `currentInPacketIndex`, `lastActivityTime` | `ResponeM3u8`, `ResponeTs`, `GetInfo` |
| `TsSegBuffer` (`TSSegment.h`) | `segs` (at most 10), `sequence`, `isSlide`, `targetDuration`, `pushCount` | `Push`, `GetM3u8`, `GetTs` |
| `ClientManage` (`ClientManage.h`) | `clients` (session id to client), `allKeys`, `deleteTheadGo` | `AddClient`, `GetClient`, `DeleteClient`, `ClearClient`, `GetInfo`, a cleaner thread, a destructor |
| `CloseEvent` (`Util.h`) | `isQuit`, an event | `WaitClose`, `CloseNow`: how a thread is told to end and says it has |
| `MongooseHelper` (`HLS.cpp`) | none of its own | `ev_handler`: `Play`, `AddPull`, `AddPush`, `GetPullList`, `GetUsage`, `GetClients` |
| `Util`, `ProcessStat` (`Util.h`) | the last CPU times | `GetCpuUsage`, `GetPortUse`, `Replace`, ... |
| `GuidHelper`, `PacketWrapper.h`, `RTSP.h`, `Filter.h` | | session ids; the last three are used by nothing |

`mongoose.*`, `include/`, `lib/`, `dll/` are third-party, `player/` is the page
with hls.js that plays a stream.

### How they interact

Four kinds of threads share this state.

* One thread polls mongoose and runs `ev_handler` for one request at a time.
  A first playlist request of a session (`/Play/tag/sessionid...`) adds a
  `Client` and answers with one segment, from the newest key frame on; every
  later one takes the packets since the client's cursor, pushes them as a
  segment, and prints the list.  A segment request looks the segment up by name.
* One pull thread per camera produces packets.  It meets the handler in
  `inPackets`, under `inPacketsLocker`.
* One cleaner thread per camera deletes clients that have been idle for ten
  seconds.  It meets the handler in `allKeys`, under `allKeysLock`, and in the
  map and the clients, under no lock.
* One thread deletes cameras that gave up connecting.  It meets the handler in
  `keys`, under `keyLock`, and in the map and the cameras, under no lock; it
  runs `~Camera`, which clears the clients and waits for the pull thread
  (`CloseEvent`) and for the cleaner (`deleteTheadGo`).

### What is hard here

The behaviours a test would hardly reach: the place where a batch is cut and
what the cursor says about it; a window that moves while a session is behind; a
list that slides between two playlists; fields that no constructor sets; a map
and a list of its keys that are changed in separate steps by two threads; a
client judged idle and deleted some steps later; a request that holds a camera
while it is destroyed; three handshakes at the end of threads; a connection that
fails in any of three FFmpeg calls and leaves what it had made so far; a muxer
whose buffer fills at any point of a frame.  `PROJECT.json` lists each at its
line, with the properties that are about it.

What makes each component correct:

* the **window** holds the latest packets, without a hole, at most its size;
* a **session** is given the packets in order, skips nothing it could still
  have been given, and gets on as long as it polls;
* its **playlist** names segments that can be downloaded, is no shorter than it
  says, and its media sequence moves exactly when its oldest segment goes;
* the **sessions of a camera**: map, key list and objects agree, idle clients
  are deleted and others are not, and what the end of the camera deletes twice
  or leaves behind is no more than what was in flight;
* the **cameras**: one per tag, each in the map, none deleted before it failed
  or before its thread ended, all deleted that failed, each port given out once;
* the **server**: the members of a camera go in an order that no thread of its
  own can trip over, neither the deletion nor a request hangs, and only a camera
  that has given up is ever pulled away under a request;
* the **pull thread**: frames come from an open context and with the parameters
  of its stream, contexts are freed once, no byte of a frame is lost, and an
  unreachable camera is given up.

## 2. The modules

| Module | What it specifies |
|---|---|
| `PacketWindow` | the window and both `GetTsSeg`, as operators |
| `PacketWindowLoops` | the two loops of `GetTsSeg` as written, to compare the operators with |
| `TSSegment` | `TsSegBuffer`, as operators on a buffer |
| `HlsStream` | a camera's pull thread, the handler and the cleaner around one stream: extends `TSSegment`, and `PacketWindowLoops` with `PacketWindow` |
| `LivePlaylist` | abstract: what the players of a live stream are promised |
| `HlsStreamRefinement` | the view a session has of its list; `HlsStream` implements `LivePlaylist` |
| `KeyList` | the loop with which both managers erase a key from a vector |
| `ClientManage` | sessions of a camera: handler, cleaner, and the thread that deletes the camera |
| `StreamDirectory` | abstract: what the cameras of the server promise those who play them |
| `CameraManage` | cameras of the server: handler, pull threads, deleting thread; implements `StreamDirectory` |
| `Server` | `CameraManage` and the `ClientManage` of a camera composed, with the requests that go from one to the other |
| `PullThread` | the inside of one pull thread: the calls of `Connect`, the FFmpeg contexts, the muxing of a frame; implements the source of `HlsStream` and the pull thread of `CameraManage` |
| `CpuUsage` | `GetCpuUsage` of `ProcessStat` |
| `PacketWindowProofs`, `HlsStreamProofs`, `HlsStreamDeliveryProofs`, `KeyListProofs`, `ClientManageProofs`, `CameraManageProofs`, `PullThreadProofs`, `ServerProofs` | theorems about these, with proofs |
| `MCHlsStream`, `MCClientManage`, `MCCameraManage`, `MCServer`, `MCPullThread`, `MCCpuUsage` | the values of the constants for TLC |

The stream of one camera is seen at three grains.  `HlsStream` has one step per
critical section of `inPacketsLocker`, and a camera that produces packets;
`PullThread` shows where these packets come from; `CameraManage` has many cameras
and reduces a pull thread to trying, reading and giving up.  `PullThread` is
checked against both of the others, so that what they assume of it is not taken
on trust.  In the same way `Server` is made of the actions of `CameraManage` and
`ClientManage` themselves, not of copies.

### State and actions against the code

`PacketWindow`.  A packet is `[index, isKey, duration, hasData]`; its bytes are
not modelled, and the bytes of a segment are represented by the packets it was
cut from.  `hasData` matters because the muxer may yield nothing for a frame and
`ResponeM3u8` then pushes no segment but still moves its cursor.
`AppendPacket`, `GetTsSegFirst` and `GetTsSegFrom` are each the body of one
critical section of `inPacketsLocker`, so one step is the right grain.  The
operators are closed forms (the newest key packet, the packets above `from`);
`PacketWindowLoops` has the loops, with the `count++ > 30` that leaves the loop
before the index of the last packet is recorded; each is a function on the
position it has come to.  That operators and loops agree is proved, for every
window of a stream.

`TSSegment`.  `Push` and `Refresh` (the state change of `GetM3u8`) are functions
from a buffer to a buffer, `M3u8` is what `GetM3u8` prints, `GetTs` the lookup.
`isSlide` and `targetDuration` have no initial value in the code:
`NewBuffer` takes what the memory held.  A duration is an integer number of
ticks, and `NaN` a float that is no number; `TargetSeconds` is the cast
`(int)(targetDuration + 1)`, with its truncation towards zero and its result
(`IntMin`) for `NaN` and for a value that does not fit into an `int`, whose
width is `IntMax`.

`HlsStream`.  The steps are the critical sections of `inPacketsLocker`:

| Action | Code |
|---|---|
| `CreateTs` (in `Pull`) | `CreateTs`: number, append, evict |
| `Open` | `ev_handler` finds no client: `AddClient` makes one |
| `FirstEmpty`, `FirstSegment` | `ResponeM3u8(c, true)`: `GetTsSeg(packet)`, push, print |
| `Reload` | `ResponeM3u8(c, false)`: `GetTsSeg(packet, from)`, push, print |
| `Expire` | `DeleteClient` removes an idle session |

Between `Open` and the first segment packets may arrive, and do.  `playlist`
and `delivered` record what a session was sent; the code keeps neither, and no
guard reads them.

`ClientManage`.  Each access to the map, the list or an object is a step, since
two of the three are not locked: `AddClient` is `AddToMap` then `AddKey`,
`DeleteClient` is `CopyKeys`, `ReadClock`, `FindExpired`, `DeteteKey`,
`DeleteObject`, `EraseFromMap`; `GetInfo` copies the keys and then finds and
reads one client after the other.  Objects are never reused, so that a use of a
deleted one stays visible (`"twice"`).  `ClearBegin`/`ClearNext`/`ClearEnd` hold
the lock over the whole loop, as `ClearClient` does;
`AskCleaner`/`CleanerGone`/`CheckGo` are the handshake on `deleteTheadGo`.

`CameraManage`.  `Add` is `AddFind`, `AddPullNew` or `AddPushNew`, `AddInsert`,
`AddKey`, and then `StartPullThread` of the caller; `Pull` is `PullLoop`,
`ConnectSuccess`/`ConnectFailure`, `ReadFrame`/`ReadError`, `CloseNow`; the
deleting thread is `GetAllKey`, `FindFailed`, then `Delete`: `DeleteFind` (it
looks the key up a second time), `AskPull`, `DeleteCamera`, `EraseFromMap`,
`EraseKeys`.  `FreePort` goes through the ports as `GetFreePort` does, with a
table of connections for each port, as `GetTcpTable` is called anew for each.
`listenPort` is a field of the camera here; the code keeps the port in the URL
of the camera only.  `GetPortUse` looks the port up in the table: a set of `dwLocalPort`, of which the code uses the two low
bytes, swapped, without masking the two high ones, or a table that does not fit
into its hundred entries, in which no port is found used.

`Server`.  One camera with its clients.  The HTTP thread is in one request:

| Action | Code |
|---|---|
| `AddCamera` | `AddPull`, `AddPush`: `CameraManage`'s steps |
| `Play` | `CameraMangage::Get` of a playlist or a segment request |
| `Playlist`, `Segment`, `Answer` | `ClientManage::GetClient`, then `AddClient` or the answer from the client |
| `GetKeys`, `FindKey` | `GetListJson` and `GetInfo` copy the keys, and find one after the other |
| `ReadCamera`, `ReadClients` | what they read of each camera, and of its clients |
| `UseGone` | the next use of a camera whose members are being destroyed |

The deleting thread runs `~Camera`: `ClearClient`, `WaitClose`,
`DestroyMembers` (which begins `~ClientManage`), `CleanerGone`, `FreeCamera`, and
then the two erasures of `Delete`.  A request that meets a camera past the body of
its destructor becomes `"undefined"` and stays so: nothing is claimed of it
but when it can happen.

`PullThread`.  `Connect` is `AllocContext`, `OpenInput`, `FindStreamInfo`,
`FindBestStream`, each but the first with a failing form, and each failure goes through `Fails`,
where `Pull` tries again or gives up.  Contexts are numbered by the try that made
them, and `ic`, `parameters` and `muxerOf` are such numbers, so that a pointer
into a context that was freed shows.  `avformat_open_input` frees the context
when it fails; `avformat_free_context` frees one but does not close its input
(`"leaked"`).  `CreateTs` is `VideoFrame`, a `ReceivePacket` for each packet the
filter yields (any number, none included), `WriteTrailer`, `AppendTs`.  Of the
data only the number of bytes is kept: those in the buffer of the muxer
(`ioBuffer`), in `tsData`, and `written` in all, which the code does not count.
`AsUShort` is the conversion of the size to the `unsigned short` of `WriteData`.

`CpuUsage`.  The times, the last two of them, and the four ways through
`GetCpuUsage`.  `aborted` says that the assertion failed in a build that has
assertions.

`LivePlaylist`.  Per session a view `[first, next, sequence]`, or `Closed`.  A
playlist is extended by the next segment only, loses its oldest one only when it
is full, and then, and only then, moves its media sequence by one.

`StreamDirectory`.  Per tag `absent`, `offered` or `over`, in that order and
round again: a stream that was added is offered until its camera has given up,
and nothing else takes it out.

## 3. What TLC checks

| Run | Instance | What it shows |
|---|---|---|
| `stream_safety` | 1 session, window of 4, lists of 2, batch limit 1, 7 packets, any garbage in the fields | `WindowIsLatest`, `SegmentsAreLatest`, `PlaylistServable`, `TargetCovers`, `DeliveredInOrder`, `NothingSkipped`; `HlsStream` implements `LivePlaylist`; the operators of `PacketWindow` are the loops of `GetTsSeg` for every window that occurs and every cursor, and a batch always advances the cursor |
| `stream_live` | 2 sessions, window of 3, 4 packets | a session that polls gets every packet with data but the newest of the window, or the window moves past it |
| `clients` | 2 session ids, 3 clients, the camera may be deleted at any time | map, list and clients agree whatever the interleaving of handler and cleaner; idle clients are deleted; the cleaner is gone before its camera; only a client in flight is deleted twice, or left behind, by `ClearClient` |
| `cameras` | 2 tags, 3 cameras, 2 ports, 4 port tables | one camera per tag, failed cameras only are deleted and all are, after their threads; live cameras are in the map; ports are distinct; `CameraManage` implements `StreamDirectory` |
| `server` | 1 tag, 1 camera, 1 session id, 2 clients | `~Camera` takes things away in the right order; only a camera that has given up is destroyed under a request; the deletion of a camera and every request end |
| `pull` | 3 frames, 3 tries, buffer of 2 bytes | contexts and pointers stay sound through every failure; no byte is lost; `PullThread` implements the source of `HlsStream` and the pull thread of `CameraManage`; an unreachable camera is given up |

Six runs are expected to find a violation: what the code does is not what its
own comments, README or assertions say.

| Run | What it shows |
|---|---|
| `stream_duplicates` | A batch of more than 31 packets is cut after 32, but the cursor is left at the 31st (`Camera.h:325`): the next segment starts with a packet the session already has. |
| `stream_sequence` | `isSlide` is not initialized (`TSSegment.h:24`): the first playlist of a session may announce a slide that did not happen. |
| `stream_stuck` | A session whose first request came before there was a key frame polls with an uninitialized cursor (`Client.h:53`): if it happens to be larger than any index, the session never gets a segment, although the stream goes on with key frames. |
| `clients_dead` | The cleaner reads a client's last activity and deletes the client steps later (`ClientManage.h:128`): a request in between does not save it. |
| `cameras_listed` | `Delete` erases the map entry first and the keys later (`Camera.h:631-641`): a tag added in between keeps its camera and loses its key, is in no list, and is not deleted when it fails. |
| `usage_assert` | Two `GetUsage` requests within one tick of the system's clock fail `assert(time_delta != 0)` (`Util.h:91`). |

### Bounds

The code's limits (100 packets, batches of 32, 10 segments) are scaled down so
that each is reached several times within the bound on packets: with a window of
4 and 7 packets the window evicts three times; with a batch limit of 1 a batch
of three is full; with lists of 2 the list slides repeatedly.  The packets are of
three kinds: key frame, other frame, and a frame with no data.  An uninitialized
`targetDuration` is zero, large, negative or no number; an uninitialized cursor
zero or beyond any packet.  `IntMax` is 15 (seconds), above every sum of
durations, so that a garbage target can be too large, and too small, for an
`int`.  Two sessions are enough for `stream_live`, as sessions share nothing
but the window, which they do not change; the safety run has one for the same
reason.

`clients`: three clients under two ids allow a session to expire and come back
while another one lives.  The timeout is 0 and the clock goes to 1, so that a
client is fresh at one reading and idle at the next; the order of the steps is
what matters, and they are all interleaved.  (With the clock to 2 the same
properties were checked once, over 1.27 million states.)

`cameras`: three cameras under two tags allow a tag to be added again while its
old camera is being deleted and the other tag is in use.  Two tries are counted
instead of four, and a camera connects at most once (with two connections:
752,904 states, checked once).  The port tables: none in use, the first port in use,
a row whose upper bytes were not zero, a table that is too long.

`server`: one camera is enough, as `CameraManage` has shown what several do to
each other; what is new is the camera's end seen from its clients and from
requests.  One session id that comes and goes leaves two clients to be cleared,
deleted and asked for.

`pull`: a buffer of 2 bytes and an `unsigned short` of 4 values stand for 4000
and 65536, with a frame that fills the buffer more than twice, one that comes in
two packets and leaves a rest, and one that yields nothing.  The try limit of
2 and three connections let every call of `Connect` fail between two successes.

Every bound is a constant: `MaxPackets`, `MaxTime`, `MaxConnects`, `MaxTicks`,
and the sets `Objects` and `Cameras`, whose elements are not reused.  No symmetry
is used.

`CHECK_DEADLOCK FALSE` is set for the stream and for `pull`, whose camera may
stop sending, or has been given up; for `clients`, where everything ends once the
camera is gone; and for `usage_assert`, where the clock ends.  In `cameras` and
`server` deadlock is checked.

`stream_stuck` must not blame the uninitialized cursor for what any session
meets at the end of a bounded stream.  So `PollerIsServed` asks, of a session
whose first request found no key frame, that its cursor be the index of no
packet, that all `MaxPackets` packets have come, and that the window (of 3)
hold a key frame and two more packets: all of it newer than that first request,
and more than `GetTsSeg(packet, from)` needs.  The violation needs the
uninitialized cursor: with `UninitIndex = {0}` TLC finds none, also without the
conjunct about the cursor.

### Fairness

* `HlsStream`: a request that was begun is finished (weak fairness: the handler
  is one loop that blocks on nothing but a short critical section).  Every open
  session polls: strong fairness of `Reload`, because a player reloads the
  playlist on a timer for as long as it plays, but another session may be served
  at any given moment.  Nothing is assumed of the camera or the cleaner.
* `ClientManage`: each thread that can take a step takes one.  The cleaner's
  `SleepMs(10000)` ends; a mutex that is free is obtained.  No request has to
  come, and the camera need not be deleted.
* `CameraManage`: each thread that can take a step takes one.  Nothing says
  that a connection succeeds or fails, or lasts: a camera may read frames for
  ever.
* `Server`: the same, for a request that was begun and for the threads of the
  camera.
* `PullThread`: every call of FFmpeg returns, with whatever result.
  `UnreachableIsGivenUp` is about cameras that at some time stop being connected.

### Mutants

Beside a definition stands, where a property depends on it, the form it would
have with a plausible mistake in it ("Mutant: ..."): a test with `>=` for `>`, a
flag that is not reset, an answer built before the update, a pointer that is kept
after a free.  Each makes TLC report the property it is listed with in
`PROJECT.json`.  They are never part of a specification.

## 4. What is proved

For every value of the constants under their assumptions:

| Module | Theorem | Statement |
|---|---|---|
| `HlsStreamProofs` | `TypeCorrect` | `Spec => []TypeOK` |
| | `WindowCorrect` | `Spec => []WindowIsLatest` |
| | `SegmentsCorrect` | `Spec => []SegmentsAreLatest` |
| | `PlaylistsCorrect` | `Spec => []PlaylistServable` |
| | `FirstIsTheLoop` | `Spec => []FirstAgrees` |
| | `FromIsTheLoop` | `Spec => []FromAgrees` |
| | `TargetCorrect` | `Spec => []TargetCovers` |
| | `StreamRefines` | `Spec => ImplementsLivePlaylist` |
| `HlsStreamDeliveryProofs` | `DeliveryCorrect` | `Spec => []DeliveredInOrder` |
| | `NothingIsSkipped` | `Spec => NothingSkipped` |
| | `CursorCorrect` | `Spec => []CursorAdvances` |
| `ClientManageProofs` | `TypeCorrect` | `Spec => []TypeOK` |
| | `AllAreListed` | `Spec => []ClientsAreListed` |
| | `NoKeyTwice` | `Spec => []KeysAreUnique` |
| | `MapIsSound` | `Spec => []MapHoldsLive` |
| | `NoneLost` | `Spec => []LiveIsMapped` |
| | `CleanerIsGone` | `Spec => []CleanerGoneFirst` |
| | `TwiceOnlyInFlight` | `Spec => DeletedOnce` |
| | `NoneLeftBehind` | `Spec => ClearLeavesInFlight` |
| `CameraManageProofs` | `TypeCorrect` | `Spec => []TypeOK` |
| | `ThreadIsGone` | `Spec => []ThreadGoneFirst` |
| | `OnlyFailed` | `Spec => []OnlyFailedAreDeleted` |
| | `AllAreMapped` | `Spec => []LiveIsMapped` |
| | `OnePerTag` | `Spec => []OneCameraPerTag` |
| | `PortsDiffer` | `Spec => []PortsAreDistinct` |
| | `CamerasRefine` | `Spec => ImplementsDirectory` |
| `ServerProofs` | `CamerasCompose` | `Spec => Cams!Spec`, that is, CameraManage's |
| | `SessionsCompose` | `Spec => Sess!Spec`, that is, ClientManage's |
| | `TypeCorrect` | `Spec => []TypeOK` |
| | `ThreadsAreGone` | `Spec => []ThreadsGoneFirst` |
| | `OnlyFailedDestroyed` | `Spec => []OnlyFailedIsDestroyed` |
| `PullThreadProofs` | `TypeCorrect` | `Spec => []TypeOK` |
| | `ContextsAreSound` | `Spec => []ContextsSound` |
| | `NoByteLost` | `Spec => []TsDataComplete` |
| | `PullThreadRefines` | `Spec => ImplementsPullThread` |
| | `SourceRefines` | `Spec => ImplementsSource` |

These are all the invariants, action properties and refinements that the
passing runs check.

The assumptions are those of the modules: a positive window and list size, a
batch limit in `Nat`, sets that do not contain `None`, ports that are positive
numbers, a muxer's buffer that is positive and fits into an `unsigned short`.
The sets of sessions, clients, tags, cameras, packets and frames are arbitrary.

### The window and its loops

The library's induction schemas cannot be used (they take an operator as a
parameter), so whatever is to be shown of every position of a window goes by
`IntervalInduction`: if some position had not the wanted form there would be a
least one, whose predecessor has it.  `LoopExists` gives from it the function
that a loop over positions defines; `Sums` is the one of `Duration`, and
`DurationSums` says that it sums.

`FirstIsLoop` says that the two loops of the first `GetTsSeg` find the newest
key packet and take all packets from it on, whatever the index of the caller's
packet held.  For the second, `Pass` is the state of the loop after so many
packets: how many it has counted, the index it has recorded and where it
stopped.  `FromIsLoop` needs to know that the packets above the cursor are the
end of the window, which is the invariant `WindowIsLatest`: `FromIsTheLoop` is
a theorem about the stream and not about windows.

### The stream

`MinIsLeast` and `MaxIsGreatest` (in `PacketWindowProofs`) say that the `CHOOSE` in `Min`
and `Max` finds something, from the well-foundedness of `<` on `Nat`; with them
both `GetTsSeg` return positions of the window, so the cursor is a number and a
segment a sequence of packets (`TypeCorrect`).  `WindowIsLatest` is inductive
given the types: one lemma for the append with and one for the append without an
eviction.

The properties of the sessions are not inductive as they stand.
`SegmentsAreLatest` is, but `PlaylistServable` relates the last playlist, which
is history, to the list as it is now.  `SessionsOK` adds what connects them: a
session that has been answered was told exactly what `GetM3u8` would print now
and has no slide left to announce; a session whose first request is still in the
handler has an empty list and the sequence 0; every listed segment has data.
`RefreshedEffect` reduces a request to two cases, one segment pushed or none, so
that `NextSessions` has one step per action and none of them looks into `Push`.
From `SessionsOK`, `PlaylistServable` follows because names are consecutive and
so distinct (`GetTsFinds`).

`TargetCovers` is about the last playlist and about garbage: `TargetsOK` says
that the list as it is now stays below `targetDuration`, or that this is no
number.  It is inductive since `Push` compares before it drops a segment; an
eviction never lowers the target.  `TargetSecondsCovers` is the arithmetic of
the cast, for a target that an `int` can hold; `TargetCovers` excludes the
playlists that print `IntMin`, which are those of a target that is `NaN` or
larger than an `int`.

`DeliveredInOrder` needs to know where the cursor stands.  It is not always at
the last packet delivered: a full batch leaves it one before, and a batch that
yielded no bytes moves it on and delivers nothing.  `CursorAt` says this: the
last packet delivered is at most one above the cursor, and what lies between
the two has no data.  With `Ordered` and `EndsAhead` it makes `DeliveriesOK`,
which is inductive given `WindowIsLatest`; `NothingSkipped` follows from it too,
as a step property.

For the refinement `Open` of the code is a stutter, the first answer is
`LivePlaylist`'s `Open` (the sequence starts at 0, or at 1 when `isSlide` held
garbage), a reload is `Extend` or a stutter, and an expired session `Close`.
That a reload's slide shows in the same answer is `isSlide = FALSE` in
`SessionsOK` before it.  `ViewAssumption` says that `None` is no view.

### The key lists

`Without` is the erasing loop, a function on the number of keys it has seen.
What it leaves is needed by both managers, and is proved in the same way, by the
least prefix of the list that has not the wanted form.

### The sessions of a camera

None of the four invariants of `ClientManage` is inductive alone: the cleaner
goes by a copy of `allKeys` that is old when it is used, and takes its three
removals in three steps, while the handler adds in two.  `Steady` says what ties
the copy to the list (each key of it is listed still, or is the one being
removed, and none is in it twice), what the cleaner has already done to the
client it is at, that every key is mapped, and that a session that is half added is
known to nobody else.  It holds while the camera lives; `Threads` (types, what
each thread holds, the handshake of the destructor) holds always.  That the
handler and the cleaner cannot be at one session at a time is not an assumption
but follows: a session that is being added is not in the map, one that is being
removed is until the last step.

`Steady` ends where `ClearClient` begins, which deletes clients and leaves the
map as it was.  `ClearOK` says what holds from there: the threads that were
under way are where they were (`UnderWay`), a client still to be deleted lives
or is in the hands of the cleaner (`FreedIsHeld`), and one that lives is still to
be deleted or in flight (`LiveIsLeft`).  The two action properties,
`DeletedOnce` and `ClearLeavesInFlight`, are read off it.

### The cameras

`Lives` describes the life of each camera by itself: it gives up only after its
tries and at the end of its thread, is asked to quit only then, and freed only
after its thread has said it is done.  `Held`, `MapSound` and `DeleterAt` say
what the handler and the deleting thread have in hand: the handler's tag is free
until it inserts, a freed camera is in the map only in the one step between
`delete` and `erase`, and the camera the deleting thread is at is the one the map has
under the key it is at.  `OneCameraPerTag` follows from `LiveIsMapped`, and
`PortsAreDistinct` from `PortsUsed`, as ports are never given back.  For the
refinement the steps that change the directory are `AddInsert` (`Offer`), the
last failure (`GiveUp`) and `EraseFromMap` (`Withdraw`); that no other thread
moves the same tag then is again `MapSound` and `DeleterAt`.

### The server

`Server` is a composition, and is proved as one.  Each of its steps is a step of
`CameraManage` or leaves the cameras alone, and a step of `ClientManage` or leaves
the clients alone (`CamerasCompose`, `SessionsCompose`); so the inductive
invariants of the two managers hold in it, by their own theorems
(`ManagersHold`).  Only the points where the two meet are to be added: `Link`, how
far the deletion of the clients is against that of the camera; `Unconnected`, a
camera that tries to connect or gave up is not connected; and `RequestType`, what
a request holds.  `ThreadsGoneFirst` then combines `Link` with the handshakes of
both managers.

### The pull thread

`ConnectOK` says what is known at each call of `Connect`: outside of it the
current context is open, or there is none; this is what makes `ContextsSound`
inductive, since `AllocContext` frees the current one.  `MuxOK` is the invariant
of the muxing: what was written is in `tsData` or in the buffer, and the buffer
is empty between frames; that a round through the buffer keeps the sum is
division with remainder (`Rounds`).  The refinement of `CameraManage`'s thread
needs no invariant: every step is one of that thread or a stutter.  The one of
the source of `HlsStream` does: a frame becomes a packet only at `AppendTs`, many
steps after it was read, with a duration and a size added up on the way.
`FrameOK` says that the packets still to come are the end of what the filter
makes of the frame, and the sums are those of the part before.

### Only model-checked

* The liveness properties: `DeliversOrEvicts`, `IdleIsDeleted`,
  `FailedIsDeleted`, `FailedIsGone`, `RequestEnds`, `UnreachableIsGivenUp`.  The
  prover has no rules for fairness and `ENABLED`.
* What the six runs that find a violation show; a counterexample is enough.

A theorem is about the model, and inherits its abstractions: a duration is a whole
number of ticks where the code has a `float`, and a step is one of the critical
sections or unlocked accesses of section 2.

## 5. What is not modelled

* Third-party code.  Of the lines of C and C++ in the repository some 2,800 are the
  server's own; mongoose and the headers of FFmpeg and libevent are the other
  95 per cent.  A specification of the server says of them only what it relies
  on: that mongoose handles one request at a time in one thread, and what the
  FFmpeg calls of `Camera` do to the contexts and buffers they are given.
* The bytes: RTSP, demuxing, MPEG-TS, HTTP and JSON text.
* The splitting of the URI in `ev_handler`.  It is pure, and its hard case, a
  part that is not there (`HLS.cpp:173`), is an access past the end of a vector,
  which has no defined outcome.
* A data race on a `std::map` or on `deleteTheadGo` has undefined effects; map
  accesses are taken to be atomic here, so what is shown about them holds for
  the order of the operations and not for the memory model.
* What a request does with a camera after its members are destroyed: `Server`
  shows when that can happen, and nothing after it.
* `AddPush` answers that the camera must connect within 30 seconds
  (`HLS.cpp:202`), while `Connect` makes four tries of its own timeout; the model
  has no time for connections and does not judge this.
* A camera that reconnects keeps the muxer made for the parameters of its first
  stream (`Camera.h:356`).  `muxerOf` shows it; what comes of it depends on
  FFmpeg, and the code does not say that a source keeps its parameters.
* `~CameraMangage` is never run while the server serves.
* `Camera` numbers packets with a `size_t` and the media sequence is one too;
  neither is given a width, as neither can overflow in the life of a server.
* `RTSP.h`, `Filter.h` and `PacketWrapper.h` are compiled but used by nothing;
  `GuidHelper` formats what the system gave it, and a session id is a model
  value.  Of `Util` the string functions are pure.

## 6. Plan

Done: every component with state of its own; two abstract specifications, and the
refinements to them and between the grains; the composition of the managers; and
a proof of every invariant, action property and refinement that a passing run
checks.

Next, in this order:

1. *Composition of the stream*: that `HlsStream` behind the source of `PullThread`
   keeps what is proved of each, by their two refinements.
2. `PacketWrapper`'s reference count, if it comes into use.
