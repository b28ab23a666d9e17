----------------------------- MODULE StreamThread -----------------------------
(***************************************************************************)
(* The thread that reads one stream, common/media/stream_thread.cc, and    *)
(* the owner that starts and stops it.                                     *)
(*                                                                         *)
(* Run() opens the stream, reads it until is_running_ is reset or a call   *)
(* throws, and at the end of the file, when it is to loop, starts over.    *)
(* is_running_ is looked at only between two packets; a thread that fails  *)
(* ends without resetting it.  The event callback is called on the thread. *)
(***************************************************************************)
EXTENDS Naturals

VARIABLES
  loop_on_eof,  (* a field set by the constructor                          *)
  running_cb,   (* running_cb_ is set: it replaces the reading of packets  *)
  is_running,   (* is_running_                                             *)
  thread,       (* thread_: "none", "running", "ended" (joinable),         *)
                (* "joined", or "assigned" over a joinable one             *)
  owner,        (* "idle", or "joining" inside Stop()                      *)
  pc,           (* where Run() is                                          *)
  event,        (* the last event dispatched                               *)
  lateOpens     (* history: streams opened since Stop() was called         *)

config == <<loop_on_eof, running_cb>>
stream == <<config, is_running, thread, owner, pc, event, lateOpens>>

Place == {"none", "run", "opening", "loop", "body", "frames", "closing", "end"}
Event == {"NONE", "OPEN", "OPENED", "GET_PACKET", "GET_FRAME", "RUNNING",
          "CLOSE", "CLOSED", "LOOP", "ERROR"}

ThreadInit == /\ loop_on_eof \in BOOLEAN
        /\ running_cb \in BOOLEAN
        /\ is_running = FALSE
        /\ thread = "none"
        /\ owner = "idle"
        /\ pc = "none"
        /\ event = "NONE"
        /\ lateOpens = 0

joinable == thread \in {"running", "ended"}

-----------------------------------------------------------------------------
(* Start() does nothing while is_running_ is set; assigning a std::thread  *)
(* over a joinable one terminates the process.                             *)
Start ==
    /\ owner = "idle" /\ ~is_running
    /\ is_running' = TRUE
    /\ thread' = IF joinable THEN "assigned" ELSE "running"
    /\ pc' = "run"
    /\ lateOpens' = 0
    /\ UNCHANGED <<config, owner, event>>

(* Mutant: the thread is detached. *)
NoJoin == UNCHANGED owner

Join == owner' = IF joinable THEN "joining" ELSE "idle"

(* Mutant: the thread is not told. *)
StopForgets ==
    /\ owner = "idle" /\ is_running
    /\ Join
    /\ UNCHANGED <<config, is_running, thread, pc, event, lateOpens>>

Stop ==
    /\ owner = "idle" /\ is_running
    /\ is_running' = FALSE
    /\ Join
    /\ UNCHANGED <<config, thread, pc, event, lateOpens>>

StopJoins ==
    /\ owner = "joining" /\ thread = "ended"
    /\ owner' = "idle"
    /\ thread' = "joined"
    /\ UNCHANGED <<config, is_running, pc, event, lateOpens>>

-----------------------------------------------------------------------------
(* Run() *)

DispatchEvent(e) == event' = e

Open ==
    /\ pc = "run"
    /\ DispatchEvent("OPEN")
    /\ pc' = "opening"
    /\ UNCHANGED <<config, is_running, thread, owner, lateOpens>>

Opened ==
    /\ pc = "opening"
    /\ DispatchEvent("OPENED")
    /\ pc' = "loop"
    /\ lateOpens' = IF is_running THEN 0 ELSE lateOpens + 1
    /\ UNCHANGED <<config, is_running, thread, owner>>

(* Mutant: is_running_ is not looked at. *)
LoopForever ==
    /\ pc = "loop"
    /\ pc' = "body"
    /\ UNCHANGED <<config, is_running, thread, owner, event, lateOpens>>

Loop ==
    /\ pc = "loop" /\ is_running
    /\ pc' = "body"
    /\ UNCHANGED <<config, is_running, thread, owner, event, lateOpens>>

RunningCallback ==
    /\ pc = "body" /\ running_cb
    /\ DispatchEvent("RUNNING")
    /\ pc' = "loop"
    /\ UNCHANGED <<config, is_running, thread, owner, lateOpens>>

GetPacket ==
    /\ pc = "body" /\ ~running_cb
    /\ DispatchEvent("GET_PACKET")
    /\ pc' = "frames"
    /\ UNCHANGED <<config, is_running, thread, owner, lateOpens>>

(* The packet may yield no frame. *)
GetFrame ==
    /\ pc = "frames"
    /\ \E e \in {event, "GET_FRAME"} : DispatchEvent(e)
    /\ pc' = "loop"
    /\ UNCHANGED <<config, is_running, thread, owner, lateOpens>>

Close ==
    /\ pc = "loop" /\ ~is_running
    /\ DispatchEvent("CLOSE")
    /\ pc' = "closing"
    /\ UNCHANGED <<config, is_running, thread, owner, lateOpens>>

RunReturns == /\ pc' = "end"
              /\ thread' = "ended"

Closed ==
    /\ pc = "closing"
    /\ DispatchEvent("CLOSED")
    /\ RunReturns
    /\ UNCHANGED <<config, is_running, owner, lateOpens>>

(* Mutant: the error is swallowed. *)
FailsSilently == RunReturns /\ UNCHANGED event

Fails == RunReturns /\ DispatchEvent("ERROR")

(* Open, GetPacket, the running callback and the decoder throw. *)
Throws == pc \in {"opening", "body", "frames"}

Eof ==
    /\ Throws
    /\ IF loop_on_eof
       THEN /\ DispatchEvent("LOOP")
            /\ pc' = "run"
            /\ UNCHANGED thread
       ELSE Fails
    /\ UNCHANGED <<config, is_running, owner, lateOpens>>

Error ==
    /\ Throws
    /\ Fails
    /\ UNCHANGED <<config, is_running, owner, lateOpens>>

Run == \/ Open \/ Opened \/ Loop \/ RunningCallback \/ GetPacket \/ GetFrame
       \/ Close \/ Closed \/ Eof \/ Error

ThreadNext == Start \/ Stop \/ StopJoins \/ Run

ThreadSpec == ThreadInit /\ [][ThreadNext]_stream

(***************************************************************************)
(* The thread runs and its calls return (av_read_frame has no interrupt    *)
(* callback, stream.cc:105-108: that a silent source returns is assumed),  *)
(* and a join whose thread has ended returns.  What the calls return is    *)
(* left open: an input may meet the end of the file whenever it is opened. *)
(***************************************************************************)
ThreadFairness == WF_stream(Run) /\ WF_stream(StopJoins)

ThreadFairSpec == ThreadSpec /\ ThreadFairness

-----------------------------------------------------------------------------
ThreadTypeOK ==
    /\ loop_on_eof \in BOOLEAN /\ running_cb \in BOOLEAN
    /\ is_running \in BOOLEAN
    /\ thread \in {"none", "running", "ended", "joined"}
    /\ owner \in {"idle", "joining"}
    /\ pc \in Place
    /\ event \in Event
    /\ lateOpens \in Nat

(***************************************************************************)
(* When Stop() has returned, however the thread came to its end, nothing   *)
(* of it is left: it dispatches no more events, its captures may die, and  *)
(* Start() does not assign over a joinable thread.                         *)
(***************************************************************************)
StopIsFinal ==
    owner = "idle" /\ ~is_running => /\ thread \in {"none", "joined"}
                                     /\ pc \in {"none", "end"}

(***************************************************************************)
(* Every end of the thread is announced: by CLOSED when it was told to     *)
(* stop, and otherwise by ERROR.                                           *)
(***************************************************************************)
EndIsAnnounced ==
    pc = "end" => event = "ERROR" \/ (event = "CLOSED" /\ ~is_running)

(***************************************************************************)
(* Stop() racing the end of the file, or the opening, lets the thread open *)
(* at most one more stream.                                                *)
(***************************************************************************)
OneMoreOpen == lateOpens <= 1

(* The thread is on its way from LOOP to OPEN and through the opening,     *)
(* where is_running_ is not looked at.                                     *)
Reopening == loop_on_eof /\ pc \in {"run", "opening"}

(***************************************************************************)
(* Stop() returns, whenever it is called, however the thread fails and     *)
(* wherever it loops, with one exception: an input that is to loop and     *)
(* whose opening meets the end of the file for ever keeps the thread going *)
(* from LOOP to OPEN and Stop() in the join (stream_thread.cc:38-44,       *)
(* 80-89).                                                                 *)
(***************************************************************************)
JoinReturns == owner = "joining" ~> (owner = "idle" \/ []Reopening)

-----------------------------------------------------------------------------
(***************************************************************************)
(* The inductive invariant: what the thread, its place in Run() and the    *)
(* owner know of each other.                                               *)
(***************************************************************************)
ThreadInv ==
    /\ ThreadTypeOK
    /\ thread = "none" <=> pc = "none"
    /\ thread = "running" <=> pc \notin {"none", "end"}
    /\ owner = "joining" => ~is_running /\ joinable
    /\ is_running => joinable
    /\ StopIsFinal
    /\ pc = "closing" => ~is_running /\ owner = "joining"
    /\ EndIsAnnounced
    /\ OneMoreOpen
    /\ lateOpens = 1 => ~is_running /\ pc \in {"loop", "closing", "end"}
=============================================================================
