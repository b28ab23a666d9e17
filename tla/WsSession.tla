------------------------------- MODULE WsSession -------------------------------
(***************************************************************************)
(* One WebSocket session of the proxy, rtsp-ws-proxy/ws_session.h as       *)
(* WsStreamSession uses it, from Run() (the handshake is pending) to the   *)
(* end of the connection.                                                  *)
(*                                                                         *)
(* The io_context is run by several threads (config.yaml: threads: 3) and  *)
(* the session has no strand: its handlers run on any of them, at the same *)
(* time.  Send() posts DoSend; a thread takes the posted handler from the  *)
(* io_context's FIFO (PickSend) and only then waits for send_mutex_        *)
(* (DoSend), so two handlers taken in one order may run in the other.      *)
(* What runs under send_mutex_, or under the room's mutex, is one step.    *)
(***************************************************************************)
EXTENDS Naturals, Sequences, FiniteSets

CONSTANTS Threads,    (* the threads that call io_context::run()           *)
          QueueMax,   (* options.stream.send_queue_max_size                *)
          MaxSends,   (* bound: packets the room sends to this session     *)
          MaxRecv     (* bound: messages received from the peer            *)

ASSUME ThreadsAssumption == Threads # {} /\ IsFiniteSet(Threads)
ASSUME BoundsAssumption == QueueMax \in Nat /\ MaxSends \in Nat /\ MaxRecv \in Nat

VARIABLES
  thread,        (* [Threads -> what the thread has been given to do]      *)
  posted,        (* the DoSend handlers queued in the io_context, FIFO     *)
  accepting,     (* async_accept is outstanding                            *)
  reading,       (* async_read is outstanding                              *)
  writing,       (* the buffers of the outstanding async_writes            *)
  send_queue,    (* send_queue_                                            *)
  read_buffer,   (* messages held by read_buffer_                          *)
  joined,        (* the session is in the room's sessions_map_             *)
  sender,        (* WsStreamRoom::Send: "idle", or "snapshot" when it has  *)
                 (* copied the room and holds a weak_ptr to this session   *)
  connected,     (* the peer is there                                      *)
  failed,        (* an async_write has failed                              *)
  sent,          (* packets the room has sent, numbered 1, 2, ...          *)
  closed,        (* how often OnEventClosed has run                        *)
  log,           (* history: the packets in the order they were queued     *)
  wire           (* history: the packets handed to async_write             *)

vars == <<thread, posted, accepting, reading, writing, send_queue, read_buffer,
          joined, sender, connected, failed, sent, closed, log, wire>>

(* send_queue_max_size_ as the constructor leaves it *)
send_queue_max_size == IF QueueMax <= 0 THEN 1 ELSE QueueMax

Data == 1 .. MaxSends

IdleThread == [op |-> "idle", data |-> 0]
ReadStart  == [op |-> "DoRead", data |-> 0]
SendTask(d) == [op |-> "DoSend", data |-> d]

Task == {IdleThread, ReadStart} \cup {SendTask(d) : d \in Data}

Idle(t) == thread[t] = IdleThread

Init == /\ thread = [t \in Threads |-> IdleThread]
        /\ posted = <<>>
        /\ accepting = TRUE
        /\ reading = FALSE
        /\ writing = <<>>
        /\ send_queue = <<>>
        /\ read_buffer = 0
        /\ joined = FALSE
        /\ sender = "idle"
        /\ connected = TRUE
        /\ failed = FALSE
        /\ sent = 0
        /\ closed = 0
        /\ log = <<>>
        /\ wire = <<>>

(* Somebody owns the session: the room, or a pending or running handler. *)
Alive == \/ joined \/ accepting \/ reading
         \/ writing # <<>> \/ posted # <<>>
         \/ \E t \in Threads : ~Idle(t)

-----------------------------------------------------------------------------
(* Mutant: the session stays in the room. *)
ClosedButStays == /\ UNCHANGED joined
                  /\ closed' = closed + 1

(* OnEventFail always ends in OnEventClosed, which leaves the room. *)
OnEventClosed == /\ joined' = FALSE
                 /\ closed' = closed + 1

OnAcceptFail(t) ==
    /\ Idle(t) /\ accepting
    /\ accepting' = FALSE
    /\ OnEventClosed
    /\ UNCHANGED <<thread, posted, reading, writing, send_queue, read_buffer,
                   sender, connected, failed, sent, log, wire>>

(* The handshake succeeds: OnEventOpened joins the room ... *)
OnAccept(t) ==
    /\ Idle(t) /\ accepting /\ connected
    /\ accepting' = FALSE
    /\ joined' = TRUE
    /\ thread' = [thread EXCEPT ![t] = ReadStart]
    /\ UNCHANGED <<posted, reading, writing, send_queue, read_buffer, sender,
                   connected, failed, sent, closed, log, wire>>

(* ... and only then the first read is started. *)
DoRead(t) ==
    /\ thread[t] = ReadStart
    /\ thread' = [thread EXCEPT ![t] = IdleThread]
    /\ reading' = TRUE
    /\ UNCHANGED <<posted, accepting, writing, send_queue, read_buffer, joined,
                   sender, connected, failed, sent, closed, log, wire>>

(* Mutant: only one message is read. *)
ReadOnce == reading' = FALSE

(* OnRead ends in DoRead: there is a next read. *)
ReadAgain == reading' = TRUE

(* A message arrives; OnEventRecv consumes nothing of the buffer. *)
OnRead(t) ==
    /\ Idle(t) /\ reading /\ connected
    /\ read_buffer < MaxRecv
    /\ read_buffer' = read_buffer + 1
    /\ ReadAgain
    /\ UNCHANGED <<thread, posted, accepting, writing, send_queue, joined,
                   sender, connected, failed, sent, closed, log, wire>>

OnReadFail(t) ==
    /\ Idle(t) /\ reading /\ ~connected
    /\ reading' = FALSE
    /\ OnEventClosed
    /\ UNCHANGED <<thread, posted, accepting, writing, send_queue, read_buffer,
                   sender, connected, failed, sent, log, wire>>

-----------------------------------------------------------------------------
(* WsStreamRoom::Send copies the room under its mutex ... *)
RoomSnapshot ==
    /\ sender = "idle" /\ sent < MaxSends
    /\ joined
    /\ sender' = "snapshot"
    /\ UNCHANGED <<thread, posted, accepting, reading, writing, send_queue,
                   read_buffer, joined, connected, failed, sent, closed, log, wire>>

NextPacket == sent + 1

(* Mutant: the newest handler is run first. *)
PostFirst(q, d) == <<d>> \o q

(* asio::post *)
Post(q, d) == Append(q, d)

(* ... and, without it, sends to every session it can still lock. *)
Send ==
    /\ sender = "snapshot"
    /\ sender' = "idle"
    /\ IF Alive
       THEN /\ sent' = NextPacket
            /\ posted' = Post(posted, NextPacket)
       ELSE UNCHANGED <<sent, posted>>
    /\ UNCHANGED <<thread, accepting, reading, writing, send_queue, read_buffer,
                   joined, connected, failed, closed, log, wire>>

(* A thread of the io_context takes the next posted DoSend. *)
PickSend(t) ==
    /\ Idle(t) /\ posted # <<>>
    /\ thread' = [thread EXCEPT ![t] = SendTask(Head(posted))]
    /\ posted' = Tail(posted)
    /\ UNCHANGED <<accepting, reading, writing, send_queue, read_buffer, joined,
                   sender, connected, failed, sent, closed, log, wire>>

(* Mutant: what is left is the eldest ones. *)
EraseNewest(q, max) == IF Len(q) > max THEN SubSeq(q, 1, max) ELSE q

(* The queue without its eldest elements, so that at most max are left. *)
EraseEldest(q, max) ==
    IF Len(q) > max THEN SubSeq(q, Len(q) - max + 1, Len(q)) ELSE q

(* Mutant: the queue is kept short when a packet is pushed. *)
PushAndErase(q, d) == EraseEldest(Append(q, d), send_queue_max_size)

PushBack(q, d) == Append(q, d)

(* Mutant: off by one. *)
IsWritingSecond(q) == Len(q) > 2

(* "Are we already writing?", asked of the queue with the new packet. *)
IsWriting(q) == Len(q) > 1

(* async_write refers to the packet's bytes, it does not own them. *)
DoWrite(w, d) == /\ writing' = Append(w, d)
                 /\ wire' = Append(wire, d)

DoSend(t) ==
    /\ thread[t].op = "DoSend"
    /\ LET d == thread[t].data IN
       /\ send_queue' = PushBack(send_queue, d)
       /\ log' = Append(log, d)
       /\ IF IsWriting(send_queue')
          THEN UNCHANGED <<writing, wire>>
          ELSE DoWrite(writing, Head(send_queue'))
    /\ thread' = [thread EXCEPT ![t] = IdleThread]
    /\ UNCHANGED <<posted, accepting, reading, read_buffer, joined, sender,
                   connected, failed, sent, closed>>

AfterSent(q) == EraseEldest(Tail(q), send_queue_max_size)

(* Mutant: off by one. *)
WriteNextOfTwo(w, q) == IF Len(q) > 1
                        THEN DoWrite(w, Head(q))
                        ELSE writing' = w /\ UNCHANGED wire

(* "Send the next message if any" *)
WriteNext(w, q) == IF q # <<>>
                   THEN DoWrite(w, Head(q))
                   ELSE writing' = w /\ UNCHANGED wire

(* A write has completed; the socket may still take bytes of a lost peer. *)
OnWrite(t) ==
    /\ Idle(t) /\ writing # <<>>
    /\ send_queue' = AfterSent(send_queue)
    /\ WriteNext(Tail(writing), send_queue')
    /\ UNCHANGED <<thread, posted, accepting, reading, read_buffer, joined,
                   sender, connected, failed, sent, closed, log>>

OnWriteFail(t) ==
    /\ Idle(t) /\ writing # <<>> /\ ~connected
    /\ writing' = Tail(writing)
    /\ failed' = TRUE
    /\ OnEventClosed
    /\ UNCHANGED <<thread, posted, accepting, reading, send_queue, read_buffer,
                   sender, connected, sent, log, wire>>

-----------------------------------------------------------------------------
(* The peer closes, vanishes, or is timed out by the stream. *)
PeerLost ==
    /\ connected
    /\ connected' = FALSE
    /\ UNCHANGED <<thread, posted, accepting, reading, writing, send_queue,
                   read_buffer, joined, sender, failed, sent, closed, log, wire>>

Handler(t) == \/ OnAccept(t) \/ OnAcceptFail(t) \/ DoRead(t)
              \/ OnRead(t) \/ OnReadFail(t)
              \/ PickSend(t) \/ DoSend(t)
              \/ OnWrite(t) \/ OnWriteFail(t)

Next == \/ \E t \in Threads : Handler(t)
        \/ RoomSnapshot
        \/ Send
        \/ PeerLost

Spec == Init /\ [][Next]_vars

(***************************************************************************)
(* The threads of the io_context keep running handlers that are ready, and *)
(* every outstanding operation of a lost connection completes; a write to  *)
(* a connected peer completes (the socket drains).                         *)
(***************************************************************************)
Fairness ==
    /\ WF_vars(\E t \in Threads : OnAccept(t) \/ OnAcceptFail(t))
    /\ WF_vars(\E t \in Threads : OnReadFail(t))
    /\ WF_vars(\E t \in Threads : PickSend(t))
    /\ WF_vars(\E t \in Threads : OnWrite(t) \/ OnWriteFail(t))
    /\ \A t \in Threads : WF_vars(DoRead(t)) /\ WF_vars(DoSend(t))

FairSpec == Spec /\ Fairness

-----------------------------------------------------------------------------
TypeOK ==
    /\ thread \in [Threads -> Task]
    /\ posted \in Seq(Data)
    /\ accepting \in BOOLEAN /\ reading \in BOOLEAN /\ joined \in BOOLEAN
    /\ connected \in BOOLEAN /\ failed \in BOOLEAN
    /\ writing \in Seq(Data)
    /\ send_queue \in Seq(Data)
    /\ read_buffer \in 0 .. MaxRecv
    /\ sender \in {"idle", "snapshot"}
    /\ sent \in 0 .. MaxSends
    /\ closed \in Nat
    /\ log \in Seq(Data) /\ wire \in Seq(Data)

(***************************************************************************)
(* At most one async_write is outstanding: a WebSocket stream does not     *)
(* take a second one, and nothing but the queue's length serialises them   *)
(* (ws_session.h:156-161, 203-204).                                        *)
(***************************************************************************)
SingleWrite == Len(writing) <= 1

(***************************************************************************)
(* The bytes an outstanding async_write refers to are kept alive by the    *)
(* front of send_queue_, the only owner left once the room has dropped its *)
(* reference (DoWrite passes a buffer of the data, ws_session.h:171): the   *)
(* packet being written is never erased, neither as sent nor as eldest.    *)
(***************************************************************************)
WriteBufferOwned ==
    writing # <<>> => send_queue # <<>> /\ Head(writing) = Head(send_queue)

(***************************************************************************)
(* Packets never wait without a write whose completion will move them: the *)
(* queue is non-empty exactly while a write is outstanding, except after a *)
(* write has failed.                                                       *)
(***************************************************************************)
QueueIsServed == ~failed => (send_queue # <<>> <=> writing # <<>>)

(***************************************************************************)
(* After a failed write nothing more is handed to the socket, however many *)
(* posted packets still arrive (ws_session.h:186-187 leave the front in    *)
(* the queue, so that DoSend believes a write is in progress).             *)
(***************************************************************************)
SilentAfterFailure == [][failed => wire' = wire /\ writing' = writing]_vars

(***************************************************************************)
(* OnEventClosed may run twice, once for the read and once for the write   *)
(* (ws_session.h:113-120), but no more often, and a session whose closing  *)
(* has begun never gets back into the room.                                *)
(***************************************************************************)
ClosedAtMostTwice == closed <= 2
NeverRejoins == [][closed > 0 => ~joined']_vars

(***************************************************************************)
(* A session in the room has a read outstanding, or a thread is about to   *)
(* start it: only the read's failure is sure to notice a peer that goes    *)
(* away while no packet is sent.                                           *)
(***************************************************************************)
JoinedIsWatched ==
    joined => reading \/ \E t \in Threads : thread[t] = ReadStart

(***************************************************************************)
(* The position in `log' of the newest packet handed to the socket: the    *)
(* queue holds it, while it is being written, and all that came after it.  *)
(***************************************************************************)
at == IF send_queue = <<>> THEN Len(log) ELSE Len(log) - Len(send_queue) + 1

Channel == INSTANCE DropOldestChannel
             WITH Packet <- Data, Capacity <- send_queue_max_size,
                  in <- log, out <- wire, at <- at

(***************************************************************************)
(* The session implements a FIFO that drops only eldest packets, and only  *)
(* when more than send_queue_max_size_ wait behind the one being written.  *)
(***************************************************************************)
ChannelSpec == Channel!Spec

(***************************************************************************)
(* The session and the room it is given here are to each other what the    *)
(* server's are: no handler or failure brings back a session that has      *)
(* left, and one in the room can always be sent to.                        *)
(***************************************************************************)
Feed == INSTANCE RoomFeed
          WITH phase <- IF accepting THEN "out" ELSE IF closed = 0 THEN "in" ELSE "left",
               member <- joined

FeedSpec == Feed!Spec

(* Nothing is handed to the socket twice, out of queue order, or invented. *)
WireIsSubsequence == Channel!OutIsSubsequence

(***************************************************************************)
(* A packet can be queued before an older one only while a thread holds    *)
(* the older one: fewer packets than threads are overtaken at any time,    *)
(* so a single thread queues them in the order in which the room sent them *)
(* (ws_session.h:102-110, 149-154; ws_server_plain.cc:50-68).              *)
(***************************************************************************)
Overtaken == {d \in Data : \E i \in 1 .. Len(log) : /\ log[i] > d
                                                    /\ ~ \E j \in 1 .. Len(log) : log[j] = d}
OverlapsOnly == Cardinality(Overtaken) < Cardinality(Threads)

(* What the name send_queue_max_size says. *)
QueueWithinMax == Len(send_queue) <= send_queue_max_size + 1

(* A session whose peer is gone leaves the room for good. *)
LeavesRoom == ~connected ~> [](~joined)

(***************************************************************************)
(* No packet is stuck: what is queued is handed to the socket, or          *)
(* something newer is, or the peer is lost.                                *)
(***************************************************************************)
NoStall == \A n \in Data : Len(log) >= n ~> (at >= n \/ ~connected)

-----------------------------------------------------------------------------
(***************************************************************************)
(* The inductive invariant behind the safety properties.                   *)
(*                                                                         *)
(* WriteInv: what is outstanding is a function of the queue.               *)
(***************************************************************************)
WriteInv ==
    /\ writing = IF failed \/ send_queue = <<>> THEN <<>> ELSE <<Head(send_queue)>>
    /\ failed => send_queue # <<>>

(* QueueInv: the queue is a suffix of what was queued. *)
QueueInv ==
    /\ Len(send_queue) <= Len(log)
    /\ \A i \in 1 .. Len(send_queue) :
          send_queue[i] = log[Len(log) - Len(send_queue) + i]

(***************************************************************************)
(* LifeInv: the accept, the start of the first read and the read follow    *)
(* each other; the session is in the room from the one to its first        *)
(* OnEventClosed, and is not sent to before; the read's end and the        *)
(* write's end account for every OnEventClosed.                            *)
(***************************************************************************)
StartsRead(t) == thread[t] = ReadStart

LifeInv ==
    /\ \A s, t \in Threads : StartsRead(s) /\ StartsRead(t) => s = t
    /\ \A t \in Threads : StartsRead(t) => ~reading
    /\ accepting => /\ ~reading /\ closed = 0
                    /\ sender = "idle" /\ posted = <<>> /\ writing = <<>>
                    /\ \A t \in Threads : Idle(t)
    /\ joined <=> ~accepting /\ closed = 0
    /\ closed > 1 => failed /\ ~reading /\ \A t \in Threads : ~StartsRead(t)
    /\ closed > 0 /\ ~failed => ~reading /\ \A t \in Threads : ~StartsRead(t)
    /\ closed <= 2
    /\ sender = "snapshot" => sent < MaxSends
    /\ JoinedIsWatched

SessionInv == TypeOK /\ WriteInv /\ QueueInv /\ LifeInv

(***************************************************************************)
(* OrderInv: packets are taken from the io_context in the order in which   *)
(* they were sent, so whatever is still posted is newer than all that was  *)
(* taken; no packet is lost on the way to the queue; and always one thread *)
(* at least holds no packet that has been overtaken: the last one that     *)
(* queued, for a start, and what it takes next is newer than the log.      *)
(***************************************************************************)
Sends(t) == thread[t].op = "DoSend"

OrderInv ==
    /\ \A i, j \in 1 .. Len(posted) : i < j => posted[i] < posted[j]
    /\ \A i \in 1 .. Len(posted) :
         /\ posted[i] <= sent
         /\ \A j \in 1 .. Len(log) : log[j] < posted[i]
         /\ \A t \in Threads : Sends(t) => thread[t].data < posted[i]
    /\ \A j \in 1 .. Len(log) : log[j] <= sent
    /\ \A t \in Threads : Sends(t) => thread[t].data <= sent
    /\ \A d \in 1 .. sent :
         \/ \E j \in 1 .. Len(log) : log[j] = d
         \/ \E t \in Threads : Sends(t) /\ thread[t].data = d
         \/ \E i \in 1 .. Len(posted) : posted[i] = d
    /\ \E t \in Threads : Sends(t) => \A j \in 1 .. Len(log) : log[j] < thread[t].data
=============================================================================
