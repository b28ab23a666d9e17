----------------------------- MODULE WsStreamServer -----------------------------
(***************************************************************************)
(* The proxy as a whole: the threads that read the streams, the room that  *)
(* knows which session watches which stream, the io_context that serves    *)
(* the sessions, and main(), which starts all of it and takes it down on   *)
(* SIGINT or SIGTERM (rtsp-ws-proxy/main.cc, ws_server_plain.cc,           *)
(* ws_stream_server.cc, ws_stream_room.cc, ws_stream_session.cc).          *)
(*                                                                         *)
(* A stream's thread publishes the stream, asks whether somebody watches,  *)
(* copies the watchers under the room's mutex, and sends the packet to one *)
(* after the other without it; sessions join and leave between any two of  *)
(* these steps.  What a session does with a packet is module WsSession;    *)
(* here a session is the life cycle that decides who gets which packet.    *)
(***************************************************************************)
EXTENDS Naturals, Sequences, FiniteSets

CONSTANTS Streams,     (* the ids of the configured streams                *)
          Sessions,    (* the connections that ask for an upgrade          *)
          NoStream,    (* the stream of a connection that has not asked    *)
          MaxPackets   (* bound: [Streams -> packets of the stream]        *)

ASSUME NoStreamAssumption == NoStream \notin Streams
ASSUME MaxPacketsAssumption == MaxPackets \in [Streams -> Nat]

VARIABLES
  ioc,         (* the io_context: "running", "stopped" or "destroyed"      *)
  main,        (* main(): "serving", "stopping", "done"; or "crashed"     *)
  is_running,  (* [Streams -> what StreamThread::is_running_ holds]        *)
  pc,          (* [Streams -> where the stream's thread is]                *)
  packet,      (* [Streams -> number of the newest packet]                 *)
  todo,        (* [Streams -> the copied sessions still to be sent to]     *)
  stream_map,  (* the ids in stream_map_                                   *)
  room,        (* sessions_map_: [Streams -> set of sessions]              *)
  conn,        (* [Sessions -> phase of the connection]                    *)
  watches,     (* [Sessions -> the stream id asked for]                    *)
  got,         (* history: [Sessions -> packets posted to the session]     *)
  stale,       (* history: [Sessions -> packets posted after it had left]  *)
  dangling     (* the destroyed io_context has been used                   *)

streamVars == <<pc, packet, todo, stream_map>>
sessionVars == <<room, conn, watches>>
postVars == <<got, stale, dangling>>
vars == <<ioc, main, is_running, streamVars, sessionVars, postVars>>

(* "new": no request yet; "accepting": the handshake is pending; "open":   *)
(* in the room; "left": out of it, but a handler still holds the session;  *)
(* "orphan": in the room of a server whose io_context is gone; "gone".     *)
Phase == {"new", "accepting", "open", "left", "orphan", "gone"}
Alive(s) == conn[s] \in {"accepting", "open", "left", "orphan"}

Init == /\ ioc = "running"
        /\ main = "serving"
        /\ is_running = [id \in Streams |-> TRUE]
        /\ pc = [id \in Streams |-> "run"]
        /\ packet = [id \in Streams |-> 0]
        /\ todo = [id \in Streams |-> {}]
        /\ stream_map = {}
        /\ room = [id \in Streams |-> {}]
        /\ conn = [s \in Sessions |-> "new"]
        /\ watches = [s \in Sessions |-> NoStream]
        /\ got = [s \in Sessions |-> <<>>]
        /\ stale = [s \in Sessions |-> 0]
        /\ dangling = FALSE

Up == main # "crashed"

-----------------------------------------------------------------------------
(***************************************************************************)
(* Sessions: handlers of the io_context.  Those a thread has taken when it *)
(* is stopped still run to their end.                                      *)
(***************************************************************************)
HandlersRun == ioc # "destroyed"

(* An upgrade request is granted only for a stream that has been published. *)
DoSessionWebSocket(s, id) ==
    /\ HandlersRun /\ conn[s] = "new"
    /\ conn' = [conn EXCEPT ![s] = IF id \in stream_map THEN "accepting" ELSE "gone"]
    /\ watches' = [watches EXCEPT ![s] = id]
    /\ UNCHANGED <<ioc, main, is_running, streamVars, room, postVars>>

Join(s) == room' = [room EXCEPT ![watches[s]] = @ \cup {s}]

(* Mutant: nothing is erased. *)
LeaveNot(s) == UNCHANGED room

Leave(s) == room' = [room EXCEPT ![watches[s]] = @ \ {s}]

OnEventOpened(s) ==
    /\ HandlersRun /\ conn[s] = "accepting"
    /\ conn' = [conn EXCEPT ![s] = "open"]
    /\ Join(s)
    /\ UNCHANGED <<ioc, main, is_running, streamVars, watches, postVars>>

(* The handshake, the read or the write fails; other handlers may remain. *)
OnEventClosed(s) ==
    /\ HandlersRun /\ conn[s] \in {"accepting", "open"}
    /\ conn' = [conn EXCEPT ![s] = "left"]
    /\ Leave(s)
    /\ UNCHANGED <<ioc, main, is_running, streamVars, watches, postVars>>

(* The last handler is done; it may have been a second OnEventClosed. *)
Released(s) ==
    /\ HandlersRun /\ conn[s] = "left"
    /\ conn' = [conn EXCEPT ![s] = "gone"]
    /\ Leave(s)
    /\ UNCHANGED <<ioc, main, is_running, streamVars, watches, postVars>>

-----------------------------------------------------------------------------
(* A stream's thread: the packet callback is WsStreamServer::Send. *)

(* Only here does the thread see that it has been told to stop. *)
ReadPacket(id) ==
    /\ Up /\ pc[id] = "run" /\ is_running[id]
    /\ packet[id] < MaxPackets[id]
    /\ pc' = [pc EXCEPT ![id] = "read"]
    /\ UNCHANGED <<ioc, main, is_running, packet, todo, stream_map, sessionVars, postVars>>

Publish(id) ==
    /\ Up /\ pc[id] = "read"
    /\ packet' = [packet EXCEPT ![id] = @ + 1]
    /\ stream_map' = stream_map \cup {id}
    /\ pc' = [pc EXCEPT ![id] = "check"]
    /\ UNCHANGED <<ioc, main, is_running, todo, sessionVars, postVars>>

(* Mutant: inverted. *)
NotEmpty(id) == room[id] # {}

Empty(id) == room[id] = {}

(* "if no sessions, not send data" *)
CheckEmpty(id) ==
    /\ Up /\ pc[id] = "check"
    /\ pc' = [pc EXCEPT ![id] = IF Empty(id) THEN "run" ELSE "copy"]
    /\ UNCHANGED <<ioc, main, is_running, packet, todo, stream_map, sessionVars, postVars>>

CopyRoom(id) ==
    /\ Up /\ pc[id] = "copy"
    /\ todo' = [todo EXCEPT ![id] = room[id]]
    /\ pc' = [pc EXCEPT ![id] = "send"]
    /\ UNCHANGED <<ioc, main, is_running, packet, stream_map, sessionVars, postVars>>

(* Posting to a session whose io_context is gone is undefined: it may go   *)
(* unnoticed or kill the process.                                          *)
UseDestroyed == /\ dangling' = TRUE
                /\ main' \in {main, "crashed"}

SendTo(id, s) ==
    /\ Up /\ pc[id] = "send" /\ s \in todo[id]
    /\ todo' = [todo EXCEPT ![id] = @ \ {s}]
    /\ IF Alive(s) /\ ioc # "destroyed"
       THEN /\ got' = [got EXCEPT ![s] = Append(@, packet[id])]
            /\ stale' = [stale EXCEPT ![s] = IF conn[s] = "left" THEN @ + 1 ELSE @]
            /\ UNCHANGED <<main, dangling>>
       ELSE /\ IF Alive(s) THEN UseDestroyed ELSE UNCHANGED <<main, dangling>>
            /\ UNCHANGED <<got, stale>>
    /\ UNCHANGED <<ioc, is_running, pc, packet, stream_map, sessionVars>>

(* Mutant: some of the copied sessions are left out. *)
SendDoneEarly(id) ==
    /\ Up /\ pc[id] = "send"
    /\ pc' = [pc EXCEPT ![id] = "run"]
    /\ UNCHANGED <<ioc, main, is_running, packet, todo, stream_map, sessionVars, postVars>>

SendDone(id) ==
    /\ Up /\ pc[id] = "send" /\ todo[id] = {}
    /\ pc' = [pc EXCEPT ![id] = "run"]
    /\ UNCHANGED <<ioc, main, is_running, packet, todo, stream_map, sessionVars, postVars>>

(* Mutant: is_running_ is not looked at. *)
ThreadEndsOnFailure(id) ==
    /\ Up /\ pc[id] = "read"
    /\ pc' = [pc EXCEPT ![id] = "ended"]
    /\ UNCHANGED <<ioc, main, is_running, packet, todo, stream_map, sessionVars, postVars>>

(* The thread ends: told to stop, or the stream fails (is_running_ stays). *)
ThreadEnds(id) ==
    /\ Up
    /\ pc[id] = "read" \/ (pc[id] = "run" /\ ~is_running[id])
    /\ pc' = [pc EXCEPT ![id] = "ended"]
    /\ UNCHANGED <<ioc, main, is_running, packet, todo, stream_map, sessionVars, postVars>>

-----------------------------------------------------------------------------
(* main() *)

Signal ==
    /\ main = "serving" /\ ioc = "running"
    /\ ioc' = "stopped"
    /\ UNCHANGED <<main, is_running, streamVars, sessionVars, postVars>>

(* WsServer::Run joins its threads and returns: its io_context and the     *)
(* handlers queued in it are destroyed; the room still owns its sessions.  *)
RunReturns ==
    /\ main = "serving" /\ ioc = "stopped"
    /\ ioc' = "destroyed"
    /\ main' = "stopping"
    /\ conn' = [s \in Sessions |-> IF conn[s] = "open" THEN "orphan"
                                   ELSE IF conn[s] \in {"accepting", "left"} THEN "gone"
                                   ELSE conn[s]]
    /\ UNCHANGED <<is_running, streamVars, room, watches, postVars>>

(* The streams are stopped one by one, each thread joined. *)
StopStream(id) ==
    /\ main = "stopping" /\ is_running[id]
    /\ \A other \in Streams : ~is_running[other] => pc[other] = "ended"
    /\ is_running' = [is_running EXCEPT ![id] = FALSE]
    /\ UNCHANGED <<ioc, main, streamVars, sessionVars, postVars>>

(* main returns: the room dies, and with it the sessions it still owns. *)
MainReturns ==
    /\ main = "stopping"
    /\ \A id \in Streams : ~is_running[id] /\ pc[id] = "ended"
    /\ IF \E s \in Sessions : conn[s] = "orphan"
       THEN dangling' = TRUE /\ main' \in {"done", "crashed"}
       ELSE dangling' = dangling /\ main' = "done"
    /\ conn' = [s \in Sessions |-> IF conn[s] = "orphan" THEN "gone" ELSE conn[s]]
    /\ room' = [id \in Streams |-> {}]
    /\ UNCHANGED <<ioc, is_running, streamVars, watches, got, stale>>

SessionStep(s) == \/ \E id \in Streams : DoSessionWebSocket(s, id)
                  \/ OnEventOpened(s) \/ OnEventClosed(s) \/ Released(s)

StreamStep(id) == \/ ReadPacket(id) \/ Publish(id) \/ CheckEmpty(id) \/ CopyRoom(id)
                  \/ (\E s \in Sessions : SendTo(id, s)) \/ SendDone(id)

MainStep == RunReturns \/ (\E id \in Streams : StopStream(id)) \/ MainReturns

Next == \/ \E s \in Sessions : SessionStep(s)
        \/ \E id \in Streams : StreamStep(id) \/ ThreadEnds(id)
        \/ Signal
        \/ MainStep

Spec == Init /\ [][Next]_vars

(***************************************************************************)
(* The threads of the streams keep running (av_read_frame returns), and    *)
(* one that has been told to stop ends; main goes on; sessions get their   *)
(* handshake, and their last handler runs.                                 *)
(***************************************************************************)
Fairness ==
    /\ \A id \in Streams : /\ WF_vars(StreamStep(id))
                           /\ WF_vars(~is_running[id] /\ ThreadEnds(id))
    /\ \A s \in Sessions : WF_vars(OnEventOpened(s)) /\ WF_vars(Released(s))
    /\ WF_vars(MainStep)

FairSpec == Spec /\ Fairness

-----------------------------------------------------------------------------
TypeOK ==
    /\ ioc \in {"running", "stopped", "destroyed"}
    /\ main \in {"serving", "stopping", "done", "crashed"}
    /\ is_running \in [Streams -> BOOLEAN]
    /\ pc \in [Streams -> {"run", "read", "check", "copy", "send", "ended"}]
    /\ packet \in [Streams -> Nat]
    /\ \A id \in Streams : packet[id] <= MaxPackets[id]
    /\ todo \in [Streams -> SUBSET Sessions]
    /\ stream_map \subseteq Streams
    /\ room \in [Streams -> SUBSET Sessions]
    /\ conn \in [Sessions -> Phase]
    /\ watches \in [Sessions -> Streams \cup {NoStream}]
    /\ got \in [Sessions -> Seq(Nat)]
    /\ stale \in [Sessions -> Nat]
    /\ dangling \in BOOLEAN

(***************************************************************************)
(* A session is in the room of the stream it asked for, and in no other,   *)
(* exactly from its opening to its closing: whatever the order of its      *)
(* handlers, the room never keeps a session that nobody will take out      *)
(* while the io_context runs.                                              *)
(***************************************************************************)
RoomHoldsOpenSessions ==
    \A s \in Sessions, id \in Streams :
      s \in room[id] <=> watches[s] = id /\ conn[s] \in {"open", "orphan"}

(***************************************************************************)
(* A session gets the packets of its stream without a gap, a repetition or *)
(* a swap, from the first one it gets to the last.                         *)
(***************************************************************************)
GapFree ==
    \A s \in Sessions : \A i \in 1 .. Len(got[s]) - 1 : got[s][i + 1] = got[s][i] + 1

(***************************************************************************)
(* The copy of the room outlives the mutex: a session may be sent to after *)
(* it has left, but only the packet that was under way.                    *)
(***************************************************************************)
AtMostOneStale == \A s \in Sessions : stale[s] <= 1

(***************************************************************************)
(* For each session the room is the one that module WsSession takes it to  *)
(* be; when the io_context is destroyed it has left, for nothing more is   *)
(* posted to it.                                                           *)
(***************************************************************************)
PhaseInRoom(s) == IF conn[s] \in {"new", "accepting"} THEN "out"
                  ELSE IF conn[s] = "open" THEN "in" ELSE "left"

IsMember(s) == ioc # "destroyed" /\ \E id \in Streams : s \in room[id]

IsCopied(s) == ioc # "destroyed" /\ \E id \in Streams : s \in todo[id]

Feed(s) == INSTANCE RoomFeed
             WITH phase <- PhaseInRoom(s), member <- IsMember(s),
                  sender <- IF IsCopied(s) THEN "snapshot" ELSE "idle",
                  sent <- Len(got[s])

-----------------------------------------------------------------------------
(* What makes the three invariants inductive. *)

(* main() serves as long as there is an io_context; after it, a session is *)
(* held by the room or by nobody.                                          *)
LifeInv ==
    /\ main = "serving" <=> ioc # "destroyed"
    /\ \A id \in Streams : pc[id] = "read" => packet[id] < MaxPackets[id]
    /\ \A s \in Sessions :
         /\ conn[s] = "new" <=> watches[s] = NoStream
         /\ conn[s] \in {"accepting", "open", "left"} => ioc # "destroyed"
         /\ conn[s] = "orphan" => ioc = "destroyed"

(* Only a thread that is sending has a copy of the room, and everybody in  *)
(* the copy has been in the room of that stream.                           *)
TodoInv ==
    \A id \in Streams, s \in Sessions :
      s \in todo[id] => pc[id] = "send" /\ watches[s] = id /\ conn[s] # "accepting"

(* The session has got nothing so far, or packet n was the last one. *)
GotUpTo(s, n) == got[s] = <<>> \/ got[s][Len(got[s])] = n

(* The packet under way is the one that a session in the copy gets next,   *)
(* and that a session in the room still gets when it is not yet copied; a  *)
(* session that has left is owed the packet it was copied for and nothing  *)
(* after it.                                                               *)
UpToDate(s, id) ==
    /\ s \in todo[id] => stale[s] = 0 /\ GotUpTo(s, packet[id] - 1)
    /\ conn[s] = "open" /\ watches[s] = id /\ s \notin todo[id] =>
         GotUpTo(s, IF pc[id] \in {"check", "copy"} THEN packet[id] - 1 ELSE packet[id])

PostInv ==
    /\ \A s \in Sessions :
         /\ conn[s] \in {"new", "accepting"} => got[s] = <<>>
         /\ conn[s] \in {"new", "accepting", "open"} => stale[s] = 0
    /\ ioc # "destroyed" => \A s \in Sessions, id \in Streams : UpToDate(s, id)

ServerInv == /\ TypeOK /\ LifeInv /\ RoomHoldsOpenSessions
             /\ TodoInv /\ PostInv /\ GapFree /\ AtMostOneStale

-----------------------------------------------------------------------------
(***************************************************************************)
(* "Capture SIGINT and SIGTERM to perform a clean shutdown"                *)
(* (ws_server_plain.cc:37): the destroyed io_context is not used, neither  *)
(* by the streams' threads nor by main.                                    *)
(***************************************************************************)
CleanShutdown == ~dangling

(***************************************************************************)
(* A signal ends the process whatever the streams' threads were sending,   *)
(* to whomever: each of them sees that it is to stop and is joined         *)
(* (main.cc:90-96).  Here a thread reads, sends and ends; that Stop() can  *)
(* wait on the opening of an input is said by JoinReturns of StreamThread. *)
(***************************************************************************)
ShutdownTerminates == ioc = "stopped" ~> main \in {"done", "crashed"}

(***************************************************************************)
(* A session that stays in the room of a stream that goes on is served,    *)
(* even if it joins between the look into the room and the copy of it.     *)
(***************************************************************************)
WatcherIsServed ==
    \A s \in Sessions, id \in Streams :
      conn[s] = "open" /\ watches[s] = id /\ packet[id] < MaxPackets[id]
        ~> got[s] # <<>> \/ conn[s] # "open" \/ pc[id] = "ended"
=============================================================================
