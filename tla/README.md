# Verification of rtsp-wasm-player

TLA+ models of the program's concurrent core, TLC configurations that check
them on small instances, and TLAPS proofs of their main safety properties.

## The system

An RTSP stream (or a file, or a webcam) is read by `rtsp-ws-proxy`, which sends
its packets over WebSocket to players: a page with a WASM decoder
(`ws-wasm-player`), a desktop client (`ws-local-player`), and, without the
proxy, `rtsp-local-player`.

| component | source | state | operations | hard behaviour |
|---|---|---|---|---|
| WebSocket session | `rtsp-ws-proxy/ws_session.h`, `ws_stream_session.*` | send queue, read buffer, outstanding operations | `Run`, `OnAccept`, `DoRead`/`OnRead`, `Send`/`DoSend`, `DoWrite`/`OnWrite`, `OnEventFail` | handlers of one session run on several io threads (no strand); a write refers to bytes the queue owns; failures of read and write race |
| room and stream server | `ws_stream_room.*`, `ws_stream_server.*` | `sessions_map_`, `stream_map_` | `Join`, `Leave`, `Empty`, `Send`, upgrade request, list of streams | packets are sent to a copy of the room; `stream_map_` has no lock |
| listener, io threads | `ws_server_plain.*`, `ws_server_ssl.*` | the `io_context` | `Run`, `DoListen`, `DoSessionHTTP`, signal | `Run` destroys the `io_context` on return |
| main | `rtsp-ws-proxy/main.cc` | streams, players | start, run, stop | order of the shutdown |
| stream thread | `common/media/stream_thread.*` | `is_running_`, `thread_` | `Start`, `Stop`, `Run` with its events | end of file, errors and stop racing; recursion on loop |
| stream, video decoder | `common/media/stream.*`, `stream_video.*` | FFmpeg contexts | `Open`, `GetPacket`, `GetFrame`, `Close` | blocking calls; frames owned by the decoder |
| stream handler, filters | `stream_handler.*`, `stream_filter.*`, `stream_video_encoder.*` | filter chain, `packet_recv_` | `OnRunning`, `DoFilter` | filters outlive the stream they were made for; EAGAIN |
| preview window | `stream_player.*` | `ui_ok_`, `ui_` | `Start`, `Send`, `Stop` | UI thread waits for a first frame |
| desktop client | `ws-local-player/*` | socket, queue, `ui_ok_`, `ui_` | open, send, close, decode | UI handshake; HTTP wait |
| local player | `rtsp-local-player/*` | first frame, frame pointer | event callback, draw | frame pointer after end of file |
| WASM decoder | `ws-wasm-player/src` | decode queue, results | `decode`, `decodeAsync`, `ThreadRun`, `ThreadStop` | two threads, batch hand-over, sentinel |
| page client | `ws-wasm-player/index.html`, `lib/ws_client.js`, `lib/webgl.js` | `#ws`, `#decoder`, player, handles on wasm objects, the WebGL context | button, stream list, `open`, `close`, socket events, `render` | opens that throw, sockets that end by themselves, state of a context left by earlier players |
| packet codec, JSON, CORS, rate, blocking queue, events | `common/net`, `common/util` | - | pure algorithms; a monitor | offsets and widths; clock jumps; lost wake-ups |

Streams' threads call `StreamHandler::OnRunning`, which passes each video packet
through the stream's filters and to the packet callback: `WsStreamServer::Send`,
then the preview's `Send`. The server's `Send` publishes the stream,
asks the room, and sends to a copy of it; each session posts a `DoSend` handler
to the `io_context`, whose threads run it. Sessions enter and leave the room in
their own handlers. `main` starts the streams, runs the server until a signal,
and stops the streams, then the previews.

What makes each part correct: a session writes one packet at a time, from
memory it owns, in order, dropping only old ones, and leaves the room when its
peer is gone; the room holds exactly the open sessions; a watcher gets its
stream without a gap; a stopped thread is gone; a signal ends the process
(but for the cases listed below).
`PROJECT.json` lists the hazards, each at its line, with the properties that
watch over it.

On the players' side: the page feeds each socket's messages to
the decoder and player made for it, draws the planes of the frame, and leaks no
wasm object but what exceptions leave behind; a desktop client ends its process
once it has no window; the filters lose no video packet, and the players are told
what the packets are unless a bitstream filter has changed them or an encoded
stream has looped. Where the code falls short of this, the properties say how
far ("What was found").

## Modules

| module | models | run(s) |
|---|---|---|
| `WsSession` | one session, its io threads, the room as the sender | `session`, `session_bound` |
| `DropOldestChannel` | the promise of a session: a FIFO that drops eldest packets only | refined by `WsSession` (`ChannelSpec`) |
| `WsStreamServer` | streams' threads, room, sessions' life cycle, `main`, shutdown | `server`, `server_clean` |
| `RoomFeed` | what a session and its room are to each other | refined by `WsSession` (`FeedSpec`) and, for each session, by `WsStreamServer` (proved) |
| `StreamThread` | the thread of one stream and its owner | `stream_thread` |
| `StreamHandler` | the running callback of the proxy: filter chain, its set-up and its Stream; its thread is an instance of `StreamThread` | through `StreamPlayer` |
| `StreamPlayer` | a stream of the proxy with its preview window and `main`; extends `StreamHandler` | `preview` |
| `LocalPlayer` | the OpenGL player: `main`, the event callback, the frame pointers; extends `StreamThread` | `local_player`, `local_player_draws` |
| `WsStreamClient` | the desktop client: `main`, its io thread, its ui thread | `client` |
| `WebGLPlayer` | `lib/webgl.js` as operators on the WebGL context | through `PageClient` |
| `PageClient` | the page: button, stream list, `lib/ws_client.js`, sockets, wasm objects; extends `WebGLPlayer` | `page` |
| `Decoder` | the page's decoder: main thread and decoding thread | `decoder` |
| `Rate` | the pace of a loop on a clock that jumps | `rate` |
| `*_proofs` | theorems about the module of that name, and about `DropOldestChannel` (in `WsSession_proofs`), `StreamThread` (in `LocalPlayer_proofs`), `StreamHandler` (in `StreamPlayer_proofs`) and `WebGLPlayer` (in `PageClient_proofs`) | - |
| `MC*` | the module for TLC, where its constants need one | |

Definitions called *Mutant* are wrong versions of the definition that follows
them. No specification uses them; putting one in the place of the right one
makes a stated property fail (list `mutants` of `PROJECT.json`).

### WsSession

State: the field names of the class (`send_queue`, `read_buffer`), one flag per
outstanding operation (`accepting`, `reading`), the buffers of outstanding
writes (`writing`), the io threads (`thread`: idle, or given a handler), the
posted handlers (`posted`), the session's place in the room (`joined`) and the
sender between its copy of the room and its use (`sender`). `log` and `wire` are
history: what was queued and what was handed to the socket.

Steps: a handler that holds `send_mutex_` or the room's mutex throughout is one
step. `OnAccept` is split after `Join`, as the first read starts outside the
room's mutex and a packet may be sent in between. Taking a posted handler
(`PickSend`) and running it (`DoSend`) are two steps, as two threads that have
taken handlers may get the mutex in the other order: the server's sockets have
no strand (`ws_client.h:63-64` has, on the other side). `OnWrite` may succeed
although the peer is gone (bytes go to the kernel). The peer, timeouts and close
frames are external: `PeerLost` makes the outstanding operations able to fail.
A session is alive, and `weak_ptr::lock` succeeds, while the room or a handler
holds it. Packets are numbers; messages received are only counted.

A negative `send_queue_max_size` is not in the model. What Beast does when read and write are *started* concurrently from
two threads is not modelled: handlers are atomic steps.

### WsStreamServer

State: `room` is `sessions_map_`, `stream_map` the keys of `stream_map_`, `conn`
the phase of each connection, `todo` the copy of the room made by
`WsStreamRoom::Send`, `pc` the place of each stream's thread, `ioc` and `main`
the shutdown. `SendTo` sends to one copied session at a time, in any order (the
set is unordered); publishing, looking into the room and copying it are separate
steps since each takes the mutex on its own. `stream_map_` is accessed without a
lock; the model makes each access atomic. Reads of `is_running_` are the steps
`ReadPacket` and `ThreadEnds`. What a session does with a packet is abstracted
to `got`, what was posted to it. The composition with `WsSession` is through the
room, and both sides of it implement `RoomFeed`: in `WsSession` the room is part
of the environment, here it is real, and a session of either joins, leaves and is
sent to in the same way. `GapFree` is why packets are numbers there. Failures of a stream end its thread; loops are in `StreamThread` and
`StreamHandler`.

After `RunReturns` the `io_context` is destroyed. Sessions held by a pending
handler only are destroyed with it; those in the room live on as `orphan`s.
Using the executor of a destroyed `io_context` is undefined behaviour and is
modelled as "goes unnoticed or kills the process" (`UseDestroyed`, `MainReturns`).

### StreamThread

Each call of `Run` that can throw, each dispatched event and each look at
`is_running_` is a step. `Start` with a frequency below 1 throws and `Start` or
`Stop` out of turn return at once; both leave the state alone and are not
actions. The owner is one thread, as in every use of the class. The two modes
(running callback, or packets and frames) and `loop_on_eof_` are chosen in
`Init`. `lateOpens` is history. `Reopening` is where the thread is between the
`LOOP` of one stream and the `OPENED` of the next: on this way `is_running_` is
not looked at, so an input that meets the end of the file whenever it is opened
keeps the thread there for ever, told to stop or not.

### LocalPlayer

It extends `StreamThread`, whose own initial states, steps and specification are
therefore named `ThreadInit`, `ThreadNext` and `ThreadSpec`; every step of the
stream's thread is one of these, with what the callback does to the pointers. A pointer
(`frame_first`, the renderer's `frame_`, and what `OnDraw` is reading) is null,
live or freed: the frame belongs to the `Stream`, which `Unwind` destroys when
an exception leaves the `try` block, *before* `LOOP` or `ERROR` is dispatched.
The callback of `GET_FRAME` is up to three steps (`Update`, `GotFirst`,
`SetFirst`); `mutex_frame_first` is held at `cb = "first"`, and only `Waited`
respects it, as only the wait takes it: `Look` and `OpenWindow` read the same
variables without it. A frame replaced by the next one is the same `AVFrame`,
so there is one live value. `OnDraw` tests `frame_` (`Draw`) and reads it again to
use it (`ReadFrame`; `glfw_frame.h:129-132`): `LOOP`'s `Update(nullptr)` may come
between the two, and the null pointer is dereferenced (`main` is then `died`).
The OpenCV player reads and draws in one
sequential loop without a callback; it is not in the module.

### Decoder

Each section under a mutex is one step: pushing and trimming (`Push`), taking
the whole queue (`Take`), adding a result (`Result`), calling back the results
(`Deliver`). What is read outside of them is a step of its own: `decode_stop_`
(`Loop`, `Taken`, `NextData`), `decode_results_.empty()` (`LookAtResults`), the
notifications. A frame is the packet it was decoded from; as the codec's one
`AVFrame` is decoded into again, `frame` is what any result points to, and
`shown` keeps both the packet a result was for and what it showed. The null
packet of `ThreadStop` is `Null`. `decode` and `decodeAsync` are alternatives of
`Init`, as the page calls one of them (`decode_async`). The codec may return no
frame or fail for any packet. `accepted`, `decoded`, `shown` are history.

### Rate

`now` is the system clock in ticks. It passes, or is set to any value
(`SetClock`), also while the thread sleeps; the sleep is measured apart from it
(`left`), as `std::this_thread::sleep_for` is on a steady clock. `Sleep()` reads
the clock once. `looked`, `planned`, `start` and `setBack` are history.

### StreamHandler and StreamPlayer

`T == INSTANCE StreamThread` shares its variables; the thread runs in its
callback mode. The configuration (`filters`, a sequence of kinds) is chosen in
`Init` from `Chains`. A filter is a `null` that passes packets on as they are
(`null`, and `h264_mp4toannexb` on a stream that is in Annex B already), a `bsf`
that yields one packet for one, with codec parameters of its own
(`h264_mp4toannexb` on a stream that is not), a `split` that yields several (any
other `bsf_name`), or an `enc` that decodes and encodes with a delay of up to
`MaxHeld` frames. `form` is what describes the packet on its way (the source's
parameters, those of a bitstream filter, or the encoder's), `info` what the
Stream's published description is of; a bitstream filter's `par_out` gets into
`form` and never into `info`. `made` says whether the filters' Stream is the
current one or gone, `setUp` which filters have had their first packet, and so
have read the Stream's `AVStream`. The thread lets go of its Stream when an
exception leaves `Run`'s `try` block, and `made` is then `"gone"` for good, as
`video_filters_inited_` is never reset. If a packet of that Stream has been
published, `stream_map_` of the server keeps it alive until the next Stream's
first packet is published; by then every filter has been set up, so a filter that
is set up with `made = "gone"` does read a destroyed Stream. The recursion of `DoFilter` is `level` and `phase`: a level
sends, receives, calls the next one with what it has received into the one
`packet_recv`, and goes on or returns (`Return` finds the level above that may
receive again; only an encoder's loop does). `packet` is the Stream's own packet.
`leaked`, `refused`, `stale` and `flushed` are history. An exception ends the
callback at whatever level it is. It is an error (`FilterFails`) or, as a filter
and the preview's decoder rethrow `AVERROR_EOF` when a packet without data has
flushed them, an end of file that may loop (`FilterEof`); `packet_recv_` keeps
what it holds then (`flushed`).
Reading a freed `AVStream` is undefined: it goes unnoticed or kills the process
(`SetUpDies`).

`StreamPlayer` is one stream and one preview. The sections under `ui_mutex_` are
steps, but the one that sets `ui_ok_` and then `ui_params_` is two, as `ui_ok_`
is also read without the mutex; `MutexIsFree` is what others wait for. The look
at `ui_` in `Send` is without the mutex, the use of it with (`Look`, `Update`).
What the server does with the packet is in `WsStreamServer`. Several previews at
once are not modelled: closing one window calls `glfwTerminate` for all
(`glfw_base.cc:107`).

### WsStreamClient

The HTTP request is one step: `HttpClient::Run` returns when it is over. One
thread runs the `io_context`, so handlers exclude each other and the strand
changes nothing; the ui thread runs beside it and is given `ui_mutex_` as in
`StreamPlayer`. `conn` is the one operation that may be outstanding, since
`Send`, `Close` and the writes of the template have no caller in this program.
The client is released when `main` leaves its block: then it is destroyed before
the `io_context`, or, held by an outstanding operation, within its destructor
(`Released`); the destructor joins the ui thread, whose last act is
`ioc.stop()`. What handlers throw is caught by nobody (`OnReadThrows`).

### WebGLPlayer and PageClient

An event handler of the page runs to completion and is one action. The n-th
click that opens makes decoder n, player n and socket n. External are the
browser's `WebSocket`, which delivers no message after `close()`, and Embind:
an object of the wasm module lives until `delete()` of its handle, so `heap`
holds what is live and the page leaks what no variable of it can reach.
`getContext` of one canvas always returns the same context: `gl` keeps what
earlier players have bound, and the native OpenGL player leaves its own state in
it. `open()` may throw where the decoder refuses the description or `WebSocket`
the url. `decode` yields a frame, nothing, or throws; the callback itself throws
when `getBytes()` or `render()` does, at any of its steps (`RenderThrown`,
`ondecodeThrows`), and as its `delete()` is in no `finally`, the handle it was
given stays in `heap` (`CallbackThrows`). `fill()` does not choose a
texture unit, and `texImage2D` refuses an array that is too short; `Sampled` is
what the program then reads. The early returns of `open()` and `close()` for a
client that is open, or not, are out of the page's reach; so are hooks, which
the page does not set, and `fullscreen()`. Frames have any size; `Plane` has the
chroma planes where FFmpeg puts them, with odd sizes rounded up, while `render()`
shifts the sizes and the length (`LenU`, `LenUV`), which rounds down.

## Runs and bounds

| run | instance | states | shows |
|---|---|---|---|
| `session` | 3 threads, queue maximum 2, 5 packets, 1 message | 59740 | all safety properties of the session, its refinements of the channel and of the room's feed, leaving the room, no stall |
| `session_bound` | 1 thread, maximum 2, 5 packets | (violation) | the queue outgrows its maximum |
| `server` | 2 streams of 3 and 1 packets, 2 sessions | 185858 | room, gaps, staleness, shutdown, service |
| `server_clean` | 1 stream of 2 packets, 1 session | (violation) | shutdown order |
| `stream_thread` | unbounded | 124 | the thread's life cycle, when `Stop` returns |
| `preview` | 8 filter chains, encoder holds up to 2 frames | 173256 | packets, filters and descriptions through loops; the preview; the end |
| `client` | `ui_wait_secs` 0, 1 or 4 | 640 | ui handshake, life of the `io_context`, the end |
| `page` | 3 attempts to open, 3 frames of even and odd size, 1 callback of each decoder that throws | 1162274 | sockets meet their decoder, leaks, what is drawn |
| `decoder` | queue maximum 2, 4 packets | 101828 | null packet, key packets, order, what is shown, no lost notification |
| `rate` | a second of 7 ticks, 2 cycles a second, clock to 11 | 94657 | no burst, not faster |
| `local_player` | unbounded | 487 | the renderer's pointer, the callback's captures, the end |
| `local_player_draws` | unbounded | (violation) | a freed frame is drawn |

Bounds. `MaxSends` 5 with a maximum of 2 lets a packet be written while three
wait and the trimming drop one, then again; three threads let two handlers
overtake a third. `MaxRecv` bounds a counter nothing tests. Three packets of the
first stream let a session be skipped between two packets it gets; the second
stream only has to move between the steps of the first. `MaxPackets` 4 of the
decoder lets the queue pass its maximum once while the thread holds a batch, and
twice while it holds none, with key packets anywhere. The second of 7 ticks at a
frequency of 2 has a remainder (the cycle of 3 is rounded down) and the clock to
11 holds three cycles, so a loop can be late by more than one, and the clock set
back by more than one. Three attempts let a socket of an attempt end late,
during the next, and a third player use the context after two kinds of others;
the three frames differ in shape, and one is odd in width and height, so that
rounding moves its chroma planes and changes their size. One throwing callback
for each decoder (`MaxThrows`) leaves a handle and a half-filled context behind
while the decoder, the player and later ones go on. `TestChains` has no filter,
each kind alone, a delay before and behind another filter, and a filter that
changes nothing behind an encoder; an encoder that may hold two frames
gives one, several or none for a packet. `UiWaitSecs` are a time taken as ten seconds, one of no round at all
(1000/2000) and one of two. Deadlock is not checked where the bounds or the end
of the connection or process stop the system; it is in `stream_thread`.
`page` checks it too: its bound on attempts leaves the list of streams.

Fairness. `WsSession`: io threads run ready handlers; operations on a lost
connection complete, since `Run` sets Beast's suggested timeouts
(`ws_session.h:75-77`: idle timeout and keep-alive pings), which also make a
peer that does not drain its socket a lost one, so a write completes or fails.
`OnRead` and `PeerLost` are not fair. `WsStreamServer`: streams' threads, main
and sessions in handshake go on; the signal is not fair, and a thread need not
end unless told to. `StreamThread`: calls into FFmpeg return (an assumption: no
interrupt callback is installed, `stream.cc:105-108`). What they return is
nobody's promise: no fairness makes an input open, read or end, so `JoinReturns`,
`PlayerEnds` and `ProxyEnds` except the behaviours that stay between `LOOP` and
`OPENED` for ever (`[]Reopening`). `LocalPlayer` and `StreamPlayer`: the same for the stream's
thread; the ui thread goes on, and so does `main` after its loop or a signal;
nothing makes the window close. `WsStreamClient`: `main` and the ui thread go
on, a wait ends with its time; the server, the user and signals need not act.
`Decoder`: a call the main thread has begun goes on, and so does the decoding
thread; no packet need come and the page need not close. `PageClient` and `Rate`
have no liveness property.

## What was found

- `session_bound`: the queue is trimmed only when a write completes
  (`ws_session.h:194-200`); `DoSend` always pushes, so one outstanding write to a
  slow peer lets the queue grow without limit, whatever `send_queue_max_size`.
- `server_clean`: the streams are stopped after `Run` has destroyed the
  `io_context` (`main.cc:90-93`); until then their threads post to it, and the
  sockets of the sessions in the room outlive it, against the comment at
  `ws_server_plain.cc:42-44`.
- `local_player_draws`: the renderer's pointer is reset at `LOOP`
  ("frame is invalid, wait update", `main_ui_with_opengl.cc:77`), when the frame
  has already been freed, and not at all at `ERROR`.

Nothing in the repository says otherwise of these, so they are no findings; the
properties say how far each goes:

- Packets of one stream can be queued in another order than sent when more than
  one io thread runs (`OverlapsOnly`).
- A packet that gives no frame ends the decoder's batch, and the packets behind
  it are lost, key packets included; trimming loses none (`KeysAreKept`). A
  result may show a later picture than its packet's, never an older one
  (`ShownInOrder`).
- Both ui handshakes can use a null `ui_`: the desktop client's before its window
  is made or after it gave up (`NullOnlyBefore`), the preview's after its window
  is closed (`NullOnlyOfClosed`).
- `Stop` of a stream that loops waits for ever if the input meets the end of the
  file whenever it is opened again: from `LOOP` to `OPEN` nobody looks at
  `is_running_` (`stream_thread.cc:80-89`; `JoinReturns`, `PlayerEnds` and
  `ProxyEnds` except it).
- The local player's `OnDraw` tests `frame_` and reads it again: `LOOP` in between
  makes it a null pointer (`ReadFrame`, `main = "died"`).
- `Stop` of a preview waits for ever for a first frame that does not come
  (`ProxyEnds` excepts it).
- A packet that is not video is never unreferenced (`stream_handler.cc:85-87`), a
  splitting bitstream filter that has refused a packet stays stuck, and an end of
  file out of a filter or the preview's decoder leaves the packet in
  `packet_recv_` (`PacketsAccounted` says that nothing else is lost).
- After a loop the filters belong to a Stream that is gone: a late filter is set
  up from freed memory (`StaleOnlyBehind`), and with an encoder the published
  description is the source's (`Described`).
- What a bitstream filter makes of the codec parameters, the extradata among
  them, is published never: the players get the source's (`stream_filter.cc:97-104`,
  `json.h:57-67`; `Described` says exactly for which packets).
- An attempt to open that throws leaves its decoder and player without a handle,
  and a callback that throws the handle on its frame (`OnlyThrowsLeak`).
- The WebGL player draws wrong colours for frames of odd width or height, as a
  `rawvideo` or converted source may have (`webgl.js:150-156`; `DrawsTheFrame`).

## Proofs

Each `*_proofs` module proves an inductive invariant of its component, then the
properties from it. The properties alone are not inductive; this is what each
invariant adds and why. Every invariant and every action property of the passing
runs is a theorem.

`WsSession_proofs`, for every non-empty finite set of threads, every queue
maximum and all bounds (`ThreadsAssumption`, `BoundsAssumption`), by
`SessionInv`:

- `WriteInv` says what is outstanding as a function of the queue: nothing if it
  is empty or a write has failed, else a write of its front. `SingleWrite` alone
  is not inductive: a step from two queued packets without a write would break it.
- `QueueInv`: the queue is a suffix of `log`, which places every packet for the
  refinement mapping (`at`).
- `LifeInv`: accept, first read and read follow each other; the session is in the
  room from its accept to its first `OnEventClosed`; the ends of the read and of
  the write account for each of these.

`EraseEldestProperties` is the lemma on trimming. Each step of the session is
then a step or a stutter of `DropOldestChannel` (`ImplementsChannel`). What the
channel guarantees is proved of it (`OutSubsequence`: `ChannelInv` has a position
in `in` for each packet of `out`) and carries over (`WireSubsequence`).

`OverlapsOnly` needs `OrderInv` besides. Packets are taken from the `io_context`
in the order in which they were sent, so what is still posted is newer than all
that was taken, and none is lost between; and some thread always holds no packet
that has been overtaken: the one that was last to take or to queue, since what it
takes next is newer than the log. The overtaken packets are therefore among those
that the other threads hold, at most one each, which bounds their number by the
number of threads less one (`OvertakingIsBounded`, by the library's lemmas on the
cardinality of finite sets, `FS_Surjection` and `FS_RemoveElement` among them).

`WsStreamServer_proofs`, for any streams, sessions and lengths of streams
(`NoStreamAssumption`, `MaxPacketsAssumption`), by `ServerInv`:

- `LifeInv`: `main` serves exactly while there is an `io_context`; after it a
  session is held by the room or by nobody.
- `TodoInv`: only a thread that is sending has a copy of the room, and who is in
  it has been in the room of that stream.
- `PostInv`: the packet under way is the one that a session in the copy gets
  next, and that a session in the room gets if it is copied at all (`UpToDate`).
  A session that has left is owed the packet it was copied for and nothing more:
  it is in no later copy. `GapFree` and `AtMostOneStale` follow; neither is
  inductive without knowing where between the look into the room and the last
  session of the copy the thread is.

`RoomHoldsOpenSessions` is part of `ServerInv`: it says which copies can contain
whom. `ServesRoomFeed` shows that the server is a `RoomFeed` to each session, and
`ImplementsFeed` that `WsSession` is one with the room it is given, so that the
two models fit: in particular a session that has left is never copied again, and
one that has not can always be sent to. The destruction of the `io_context`
(`Down`), which `WsSession` leaves out, is the one step of the interface that
only the server takes.

`LocalPlayer_proofs` begins with the thread: `StopIsFinal`, `EndIsAnnounced` and
`OneMoreOpen` for `ThreadSpec`, whatever owner starts and stops it, from
`ThreadInv`, which ties `thread_`, the place in `Run` and `is_running_`. The
local player and the proxy's stream both are such an owner and thread
(`UsesStreamThread`, in this module and in `StreamPlayer_proofs`), so these
properties hold there too. The local player's own are by `LocalInv`:

- `CallbackInv`: a callback runs only where `GET_FRAME` has been dispatched, and
  a Stream is destroyed only by a call that throws, with no callback under way.
- `MainInv`: how far `main` has come and how far the thread has been started and
  stopped; `CapturesOutlive` follows from it and `StopIsFinal`.
- `LiveHasStream`: a frame that counts as live has its Stream, so `LOOP` finds no
  live pointer to forget, and `DanglesOnlyBetween` is inductive.

`StreamPlayer_proofs`, for every set of chains of filters, of any length, and
every delay (`HandlerAssumption`), by `ProxyInv`, which takes in `ThreadInv` of
the instance. `HandlerInv` has one part for each question about the filters:

- `PacketPlace`: a packet that is not blank is being sent, unless an end of file
  has left it (`flushed`). So nothing else is there to be received over, at
  whatever level; for `packet_recv` it rests on each level's sending it before
  the next receives.
- `FiltersMade`: the first filter is set up in the call that makes the filters,
  so before their Stream can go.
- `EncoderMade`: what has passed an encoder is behind one that has described
  the Stream the filters were made for, and a packet of the source's form has
  passed none; `Described` is an equivalence and needs both.

`PlayerPlace` ties `ui_` to the place of the ui thread, and a look at it that
has succeeded to one past `Make`. `Returned` is the lemma on where `DoFilter`
returns to.

`WsStreamClient_proofs`, for every `ui_wait_secs` (`UiWaitSecsAssumption`), by
`ClientInv`: `FirstFrame` says that `ui_ok_` without `ui_params_` is seen only
inside the mutex, and `ContextLives` that the `io_context` lives as long as the
ui thread has something to do.

`PageClient_proofs`, for any number of attempts and of throwing callbacks
(`ThrowsAssumption`) and every set of frames of any size (`FramesAssumption`).
Lemmas about the operators of `WebGLPlayer` come first: the slices that `render()`
makes are the y plane, and the u and v planes exactly if width and height are
even (`SlicesArePlanes`, on `Halves` and `Quarters` about the shifts), a new
player leaves the context `Ready` whatever it was (`NewPlayerReady`), rendering
on a `Ready` context draws the frame and keeps it `Ready` (`RenderDraws`), and so
does, without drawing, a `render()` that throws at any of its steps
(`RenderThrownReady`). `ThrowStep` is the step of a callback that throws, and
`OnlyThrowsLeave` the theorem on what is out of reach. `PageInv` adds to the properties `OpenClient` (what an open
client refers to is its own, live, and its context is `Ready`),
`SocketsOfClient` and `LeftOver` (what a closed client still refers to is of an
attempt that failed).

`Decoder_proofs`, for every queue maximum of at least 2 and any number of packets
(`DecoderAssumption`), by `DecoderInv`:

- `PlaceInv`: what each thread holds at each place, and that the main thread's
  calls are made with `decode_stop_` reset, its stopping with it set.
- `NullInv`: there is a null packet only when `decode_stop_` is set. It is what
  makes the second look at `decode_stop_` after the wait enough.
- `OrderInv`: decoded, batch and queue, one after the other, are ordered by
  packet (`Behind`), up to a packet just received and not yet pushed.
- `KeyInv`: until something has been decoded, the first packet of batch and
  queue is a key packet; trimming keeps it (`TrimProperties`).
- `ShownInv`: results and shown frames are not newer than the `AVFrame`.

`KeysAreKept` needs `KeptInv` besides: an accepted packet that waits in the queue
is a key packet, so `Trim` spares it, and what a left batch loses is newer than
the packet that gave no frame and, by `FramedStep`, never gives one.

`EldestProperties` (the `CHOOSE` of the eldest packet) rests on the library's
well-foundedness of the natural numbers, `TrimProperties` on it.

`Rate_proofs` proves its properties for every clock, second and frequency
(`RateAssumption`) from `RateInv`: `time_beg_` is at least the end of the cycles
planned, and at most the end of the sleep.

Proved and in no run of their own, as part of an invariant that says more:
`QueueIsServed`, `JoinedIsWatched`, `ClosedAtMostTwice`, `NeverRejoins`,
`WireIsSubsequence` (`WsSession`), `LongQueueIsKeys` (`Decoder`), `SleepIsShort`
(`Rate`), `CaptionTells` (`PageClient`), and the type invariants; the refinements
of `RoomFeed` by the server and of `StreamThread` by its two users.

Only model-checked: the liveness properties (`LeavesRoom`, `NoStall`,
`ShutdownTerminates`, `WatcherIsServed`, `JoinReturns` of the stream's thread,
`StopReturns` of the decoder, `QueueIsTaken`, `PlayerEnds`, `ProxyEnds`,
`ProcessEnds`), since the prover does not reason about fairness and `ENABLED`.
`QueueWithinMax`, `CleanShutdown` and `DrawsLiveFrame` do not hold.

## Not modelled

- HTTP front of the server and of the clients (`HttpServer`, keep-alive, serving
  files, CORS headers, the list of streams), TLS: library I/O; the program keeps
  no state between two requests. The upgrade is in `WsStreamServer`, but for
  `remote_endpoint()`, which throws for a peer that is gone already
  (`ws_stream_server.cc:63`, `ws_stream_session.cc:19`) and takes the exception
  out of `ioc.run()`.
- Packet codec and JSON: bytes of fields in fixed order and back, without state;
  a packet is a number or a member of a small set here.
- Blocking queue: no program of the repository uses it. `Rate::Reset` and
  `CycleTime`, the desktop client's `Send`, `Close` and writes: likewise.
- Event manager: a table of callbacks; what they do is in the actions of the
  component that dispatches.
- Options and contexts of FFmpeg (`Stream`, `StreamVideo`, the encoder): calls
  into a library; when they are made, and whose memory they read, is modelled.
- Shaders, vertices and windows; the page's form fields, SDL output and bindings.
- The OpenCV player: one loop that reads and draws, without another thread.
- Several previews, or several streams in one `StreamPlayer`: each has state of
  its own, but for GLFW's (above).
- Logging, configuration, time helpers; chat demos (the same templates with
  other handlers); samples; build files; the generated `decoder.js` and `.wasm`.
