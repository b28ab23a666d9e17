------------------------------ MODULE PageClient ------------------------------
(***************************************************************************)
(* The page of the WASM player: its Open/Close button and stream list      *)
(* (ws-wasm-player/index.html), the WsClient behind the button             *)
(* (lib/ws_client.js) and the player it renders with (WebGLPlayer).  An    *)
(* event handler runs to completion, so each is one action.  External are  *)
(* the browser's WebSocket, which delivers no message once close() has     *)
(* been called, and the wasm module, whose objects live until the page     *)
(* calls delete() on their handles.  The n-th attempt to open makes        *)
(* decoder n, player n and socket n.                                       *)
(***************************************************************************)
EXTENDS WebGLPlayer

CONSTANT MaxThrows (* bound: callbacks of one decoder that throw           *)

ASSUME ThrowsAssumption == MaxThrows \in Nat

VARIABLES
  stream,    (* config.getStream() finds a stream                          *)
  opens,     (* attempts to open, at most MaxPlayers                       *)
  ws,        (* #ws: the number of its socket, 0 for null                  *)
  decoder,   (* #decoder, likewise                                         *)
  gl_player, (* the page's handle on an OpenGLPlayer, likewise             *)
  player,    (* #options.player: its kind and number                       *)
  caption,   (* what the button says                                       *)
  socket,    (* the state of each socket                                   *)
  heap,      (* the wasm module's live objects                             *)
  failed,    (* history: the attempts to open that threw                   *)
  thrown,    (* history: how many callbacks of each decoder threw          *)
  gl,        (* the canvas's WebGL context                                 *)
  drawn      (* the last frame drawn and what drawArrays read              *)

page == <<stream, gl_player, caption>>
client == <<ws, decoder, player>>
canvas == <<gl, drawn>>
history == <<failed, thrown>>
vars == <<page, client, canvas, opens, socket, heap, history>>

Opens == 1..MaxPlayers
Nothing == [frame |-> NoFrame, sampled |-> [p \in Planes |-> Blank]]

Object(class, n) == <<class, n>>

Live(n) == socket[n] \in {"connecting", "open"}

Init ==
    /\ stream = FALSE /\ opens = 0 /\ caption = "Open"
    /\ ws = 0 /\ decoder = 0 /\ gl_player = 0
    /\ player = [kind |-> "none", n |-> 0]
    /\ socket = [n \in Opens |-> "none"]
    /\ heap = {} /\ failed = {} /\ thrown = [n \in Opens |-> 0]
    /\ gl = NewContext /\ drawn = Nothing

(* The list of streams arrives or not, and its first one is selected. *)
Refresh ==
    /\ stream' \in BOOLEAN
    /\ UNCHANGED <<gl_player, caption, client, canvas, opens, socket, heap, history>>

isOpen == ws # 0

updateStreamStatus == caption' = IF ws' # 0 THEN "Close" ELSE "Open"

-----------------------------------------------------------------------------
(* The button, closed *)

(* A webgl player is made on the canvas, whether or not there is WebGL. *)
MakeWebGL ==
    \/ /\ player' = [kind |-> "webgl", n |-> opens']
       /\ gl' = NewPlayer(gl, opens')
    \/ /\ player' = [kind |-> "unsupported", n |-> opens']
       /\ UNCHANGED gl

(* new Module.Decoder() replaces what an open() that threw has left. *)
MakeDecoder == decoder' = opens'

(* Either decoder.open() refuses the stream's description or the WebSocket *)
(* refuses its url: open() throws, the button is not updated and #ws stays *)
(* null.  Otherwise the socket begins to connect.                          *)
OpenSocket ==
    \/ /\ failed' = failed \union {opens'}
       /\ UNCHANGED <<ws, socket, caption>>
    \/ /\ ws' = opens'
       /\ socket' = [socket EXCEPT ![opens'] = "connecting"]
       /\ updateStreamStatus
       /\ UNCHANGED failed

(* The early returns of open() are out of the page's reach: the button     *)
(* opens only a closed client, with a url and a stream.                    *)
OpenWebGL ==
    /\ ~isOpen /\ stream /\ opens < MaxPlayers
    /\ opens' = opens + 1
    /\ MakeWebGL /\ MakeDecoder /\ OpenSocket
    /\ heap' = heap \union {Object("Decoder", opens')}
    /\ UNCHANGED <<stream, gl_player, drawn, thrown>>

OpenOpenGL ==
    /\ ~isOpen /\ stream /\ opens < MaxPlayers
    /\ opens' = opens + 1
    /\ gl_player' = opens'
    /\ player' = [kind |-> "opengl", n |-> opens']
    /\ MakeDecoder /\ OpenSocket
    /\ heap' = heap \union {Object("Decoder", opens'), Object("OpenGLPlayer", opens')}
    /\ UNCHANGED <<stream, canvas, thrown>>

(* Without a stream the handler throws: at once for webgl, and for opengl  *)
(* when it makes the url, after the player has been made.                  *)
OpenNoStream ==
    /\ ~isOpen /\ ~stream /\ opens < MaxPlayers
    /\ opens' = opens + 1
    /\ gl_player' = opens'
    /\ heap' = heap \union {Object("OpenGLPlayer", opens')}
    /\ failed' = failed \union {opens'}
    /\ UNCHANGED <<stream, caption, client, canvas, socket, thrown>>

-----------------------------------------------------------------------------
(* The button, open *)

(* Mutant: close() leaves the socket to the browser. *)
SocketForgotten(n) == socket

SocketClosed(n) ==
    [socket EXCEPT ![n] = IF Live(n) THEN "closing" ELSE socket[n]]

(* Mutant: close() drops the decoder's handle without delete(). *)
ClientKept == {Object("OpenGLPlayer", gl_player)}

Deleted == {Object("OpenGLPlayer", gl_player), Object("Decoder", decoder)}

Close ==
    /\ isOpen
    /\ gl_player' = 0
    /\ socket' = SocketClosed(ws)
    /\ ws' = 0
    /\ heap' = heap \ Deleted
    /\ decoder' = 0
    /\ updateStreamStatus
    /\ UNCHANGED <<stream, player, canvas, opens, history>>

-----------------------------------------------------------------------------
(* The socket *)

Buffer(n) == Object("buffer", n)
Result(n) == Object("result", n)

(* The handle that a callback is given, when k - 1 others have thrown. *)
Argument(n, k) == <<"argument", n, k>>

(* In a finally. *)
FreeBuffer(objects, n) == objects \ {Buffer(n)}

(* The OpenGL player binds textures of its own in the canvas's context. *)
NativeCalls ==
    \E u \in Units :
        gl' = [gl EXCEPT !.active = u,
                         !.bound = [i \in Units |-> NoTexture],
                         !.sampler = [p \in Planes |-> u]]

(* The frame is rendered in the callback, out of the decoder's memory, by  *)
(* whatever player the options name.                                       *)
ondecode(f) ==
    \/ /\ player.kind = "webgl"
       /\ gl' = Render(gl, f)
       /\ drawn' = [frame |-> f, sampled |-> Sampled(gl')]
    \/ /\ player.kind = "opengl"
       /\ NativeCalls
       /\ UNCHANGED drawn
    \/ /\ player.kind = "unsupported"
       /\ UNCHANGED canvas

(* getBytes() or render() throws. *)
ondecodeThrows(f) ==
    /\ \/ /\ player.kind = "webgl"
          /\ gl' \in RenderThrown(gl, f)
       \/ /\ player.kind = "opengl"
          /\ NativeCalls \/ UNCHANGED gl
       \/ /\ player.kind = "unsupported"
          /\ UNCHANGED gl
    /\ UNCHANGED drawn

(* The handle that the callback was given and the one that decode()        *)
(* returns are deleted apart.                                              *)
DecodesFrame(n, objects) ==
    /\ \E f \in Frames : ondecode(f)
    /\ LET argument == Argument(n, thrown[n] + 1)
           called == (objects \union {argument}) \ {argument}
           returned == called \union {Result(n)}
       IN  heap' = FreeBuffer(returned \ {Result(n)}, n)
    /\ UNCHANGED thrown

(* The callback deletes its handle last, and in no finally; decode()       *)
(* returns none.                                                           *)
CallbackThrows(n, objects) ==
    /\ thrown[n] < MaxThrows
    /\ \E f \in Frames : ondecodeThrows(f)
    /\ thrown' = [thrown EXCEPT ![n] = @ + 1]
    /\ heap' = FreeBuffer(objects \union {Argument(n, thrown[n] + 1)}, n)

(* The decoder waits for a key packet or for more packets. *)
DecodesNothing(n, objects) ==
    /\ heap' = FreeBuffer(objects, n)
    /\ UNCHANGED <<canvas, thrown>>

(* Before there is a frame. *)
Throws(n, objects) ==
    /\ heap' = FreeBuffer(objects, n)
    /\ UNCHANGED <<canvas, thrown>>

onmessage(n) ==
    /\ socket[n] = "open"
    /\ decoder # 0
    /\ LET objects == heap \union {Buffer(n)}
       IN  \/ DecodesFrame(n, objects)
           \/ CallbackThrows(n, objects)
           \/ DecodesNothing(n, objects)
           \/ Throws(n, objects)
    /\ UNCHANGED <<page, client, opens, socket, failed>>

onopen(n) ==
    /\ socket[n] = "connecting"
    /\ socket' = [socket EXCEPT ![n] = "open"]
    /\ UNCHANGED <<page, client, canvas, opens, heap, history>>

(* Mutant: a socket that has ended makes the client closed. *)
EndsClient(n) == ws' = 0

(* The page sets no hooks: a socket that fails, that the server closes or  *)
(* whose closing is done leaves the client as it is.                       *)
KeepsClient(n) == ws' = ws

onclose(n) ==
    /\ Live(n) \/ socket[n] = "closing"
    /\ socket' = [socket EXCEPT ![n] = "closed"]
    /\ KeepsClient(n)
    /\ UNCHANGED <<page, decoder, player, canvas, opens, heap, history>>

Next ==
    \/ Refresh
    \/ OpenWebGL \/ OpenOpenGL \/ OpenNoStream
    \/ Close
    \/ \E n \in Opens : onopen(n) \/ onmessage(n) \/ onclose(n)

Spec == Init /\ [][Next]_vars

-----------------------------------------------------------------------------
(* Properties *)

TypeOK ==
    /\ stream \in BOOLEAN /\ caption \in {"Open", "Close"}
    /\ opens \in 0..MaxPlayers
    /\ ws \in 0..opens /\ decoder \in 0..opens /\ gl_player \in 0..opens
    /\ player \in [kind : {"none", "webgl", "unsupported", "opengl"}, n : 0..opens]
    /\ socket \in [Opens -> {"none", "connecting", "open", "closing", "closed"}]
    /\ heap \subseteq ({"Decoder", "OpenGLPlayer"} \X (1..opens)) \union
                     ({"argument"} \X Opens \X (1..MaxThrows))
    /\ failed \subseteq 1..opens
    /\ thrown \in [Opens -> 0..MaxThrows]
    /\ gl \in Contexts
    /\ drawn \in [frame : Frames \union {NoFrame}, sampled : [Planes -> Images]]

(* A socket that may still deliver messages is the client's own, and meets *)
(* the decoder that was opened for it and, in that player's hands, its own *)
(* player: a socket of an earlier attempt never feeds a later decoder, and *)
(* no deleted object is called, whenever messages, failures and clicks     *)
(* come (ws_client.js:96, 99-104, 123-135; index.html:268-273).            *)
OwnDecoder ==
    \A n \in Opens : Live(n) =>
        /\ ws = n
        /\ decoder = n /\ Object("Decoder", n) \in heap
        /\ player.n = n
        /\ player.kind = "opengl" => Object("OpenGLPlayer", n) \in heap

(* Between two events the page can reach every live wasm object but for    *)
(* what exceptions have left behind: the decoder and the player of each    *)
(* attempt to open that threw, and of each callback that threw its one     *)
(* handle on the frame.  Nothing else leaks, and no buffer ever            *)
(* (index.html:286, 292; ws_client.js:81-87, 104, 125-140, 146-160).       *)
OnlyThrowsLeak ==
    \A o \in heap :
        \/ o = Object("Decoder", decoder)
        \/ o = Object("OpenGLPlayer", gl_player)
        \/ \E n \in failed : o \in {Object("Decoder", n), Object("OpenGLPlayer", n)}
        \/ \E n \in Opens : \E k \in 1..thrown[n] : o = Argument(n, k)

(* The button offers what a click will do: Close exactly while the client  *)
(* is open, through attempts that throw and sockets that end by themselves *)
(* (index.html:263-265, 297).                                              *)
CaptionTells == (caption = "Close") <=> isOpen

(* What is drawn is the frame, whatever players have used the canvas       *)
(* before, wherever they have thrown, and although fill() does not choose  *)
(* a unit: every sampler of the program reads bytes of the frame last      *)
(* rendered, that of y the whole plane, and those of u and v theirs        *)
(* exactly if width and height are even.  For odd sizes, as a rawvideo     *)
(* source has, the shifts round down where the frame's layout rounds up,   *)
(* and the colours are wrong (webgl.js:19-25, 126-131, 146-159).           *)
DrawsTheFrame ==
    drawn # Nothing =>
        /\ \A p \in Planes : drawn.sampled[p].frame = drawn.frame
        /\ drawn.sampled["y"] = Plane(drawn.frame, "y")
        /\ \A p \in {"u", "v"} :
              drawn.sampled[p] = Plane(drawn.frame, p) <=> Even(drawn.frame)

-----------------------------------------------------------------------------
(* The inductive invariant *)

OpenClient ==
    isOpen =>
        /\ decoder = ws /\ Object("Decoder", ws) \in heap
        /\ player.n = ws /\ player.kind # "none"
        /\ player.kind = "opengl" => Object("OpenGLPlayer", ws) \in heap
        /\ player.kind = "webgl" => Ready(gl, ws)

SocketsOfClient ==
    \A n \in Opens : /\ Live(n) => ws = n
                     /\ n > opens => socket[n] = "none"

(* What a failed attempt has left in the client is known to have failed. *)
LeftOver ==
    /\ decoder # 0 => decoder = ws \/ decoder \in failed
    /\ gl_player # 0 => gl_player = ws \/ gl_player \in failed

PageInv ==
    /\ TypeOK
    /\ OpenClient /\ SocketsOfClient /\ LeftOver
    /\ OnlyThrowsLeak /\ CaptionTells /\ DrawsTheFrame
=============================================================================
