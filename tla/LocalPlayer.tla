------------------------------ MODULE LocalPlayer ------------------------------
(***************************************************************************)
(* The local player with OpenGL, rtsp-local-player/main_ui_with_opengl.cc: *)
(* main() waits for the first frame of a StreamThread, then draws whatever *)
(* frame the thread's event callback has last given to the renderer        *)
(* (common/gl/glfw_frame.h), until the window is closed.                   *)
(*                                                                         *)
(* Both hold a bare AVFrame pointer.  The frame belongs to the Stream,     *)
(* which is destroyed when an exception leaves the try block of            *)
(* StreamThread::Run, before LOOP or ERROR is dispatched.                  *)
(***************************************************************************)
EXTENDS StreamThread

VARIABLES
  main,            (* where main() is                                       *)
  cb,              (* where the callback of GET_FRAME is, or "none"         *)
  unwound,         (* an exception has destroyed the Stream                 *)
  frame_first_got, (* frame_first_got                                       *)
  frame_first,     (* frame_first                                           *)
  frame,           (* GlfwFrame::frame_                                     *)
  drawn            (* the frame that OnDraw() is reading                    *)

pointers == <<frame_first, frame, drawn>>
vars == <<stream, main, cb, unwound, frame_first_got, pointers>>

(* A pointer is null, or to the frame of the Stream, or to a freed one. *)
Pointer == {"null", "live", "freed"}

Init == /\ ThreadInit /\ loop_on_eof /\ ~running_cb
        /\ main = "start"
        /\ cb = "none"
        /\ unwound = FALSE
        /\ frame_first_got = FALSE
        /\ frame_first = "null" /\ frame = "null" /\ drawn = "null"

-----------------------------------------------------------------------------
(* The thread of the stream.  Where no callback runs it goes on. *)

Reads == cb = "none" /\ ~unwound

Freed(p) == IF p = "live" THEN "freed" ELSE p

FreeFrame == /\ frame_first' = Freed(frame_first)
             /\ frame' = Freed(frame)
             /\ drawn' = Freed(drawn)

(* Steps whose event the callback ignores. *)
GoesOn ==
    /\ Reads
    /\ \/ Open \/ Opened \/ Loop \/ GetPacket \/ Close
    /\ UNCHANGED <<main, cb, unwound, frame_first_got, pointers>>

(* The packet may yield no frame. *)
GotFrame ==
    /\ Reads
    /\ GetFrame
    /\ cb' = IF event' = "GET_FRAME" THEN "update" ELSE "none"
    /\ UNCHANGED <<main, unwound, frame_first_got, pointers>>

Update ==
    /\ cb = "update"
    /\ frame' = "live"
    /\ cb' = IF frame_first_got THEN "none" ELSE "lock"
    /\ UNCHANGED <<stream, main, unwound, frame_first_got, frame_first, drawn>>

(* mutex_frame_first is held from here until cb is "none" again. *)
GotFirst ==
    /\ cb = "lock"
    /\ frame_first_got' = TRUE
    /\ cb' = "first"
    /\ UNCHANGED <<stream, main, unwound, pointers>>

SetFirst ==
    /\ cb = "first"
    /\ frame_first' = "live"
    /\ cb' = "none"
    /\ UNCHANGED <<stream, main, unwound, frame_first_got, frame, drawn>>

Unwind ==
    /\ Reads /\ Throws
    /\ unwound' = TRUE
    /\ FreeFrame
    /\ UNCHANGED <<stream, main, cb, frame_first_got>>

(* Mutant: the renderer keeps the frame. *)
LoopKeepsFrame ==
    /\ unwound /\ Eof
    /\ unwound' = FALSE
    /\ UNCHANGED <<main, cb, frame_first_got, pointers>>

(* The callback of LOOP: ui.Update(nullptr). *)
Looped ==
    /\ unwound /\ Eof
    /\ unwound' = FALSE
    /\ frame' = "null"
    /\ UNCHANGED <<main, cb, frame_first_got, frame_first, drawn>>

(* The callback of ERROR only logs. *)
Failed ==
    /\ unwound /\ Error
    /\ unwound' = FALSE
    /\ UNCHANGED <<main, cb, frame_first_got, pointers>>

StreamClosed ==
    /\ Reads /\ Closed
    /\ FreeFrame
    /\ UNCHANGED <<main, cb, unwound, frame_first_got>>

-----------------------------------------------------------------------------
(* main() *)

StartStream ==
    /\ main = "start" /\ Start
    /\ main' = "wait"
    /\ UNCHANGED <<cb, unwound, frame_first_got, pointers>>

(* The first frame has come, or the time is over. *)
Waited ==
    /\ main = "wait" /\ cb # "first"
    /\ main' = "look"
    /\ UNCHANGED <<stream, cb, unwound, frame_first_got, pointers>>

(* frame_first_got is looked at again, without the mutex. *)
Look ==
    /\ main = "look"
    /\ main' = IF frame_first_got THEN "size" ELSE "stop"
    /\ UNCHANGED <<stream, cb, unwound, frame_first_got, pointers>>

(* The window has the size of the first frame, if it can be opened. *)
OpenWindow ==
    /\ main = "size"
    /\ frame_first' = "null"
    /\ main' \in {"window", "stop"}
    /\ UNCHANGED <<stream, cb, unwound, frame_first_got, frame, drawn>>

(* OnDraw() looks whether there is a frame, and without one draws what the *)
(* textures hold.                                                          *)
Draw ==
    /\ main = "window" /\ frame # "null"
    /\ main' = "tested"
    /\ UNCHANGED <<stream, cb, unwound, frame_first_got, pointers>>

(* It reads the pointer again to use it: LOOP may have made it null since, *)
(* and then the process dies.                                              *)
ReadFrame ==
    /\ main = "tested"
    /\ main' = IF frame = "null" THEN "died" ELSE "draw"
    /\ drawn' = frame
    /\ UNCHANGED <<stream, cb, unwound, frame_first_got, frame_first, frame>>

Drawn ==
    /\ main = "draw"
    /\ main' = "window"
    /\ drawn' = "null"
    /\ UNCHANGED <<stream, cb, unwound, frame_first_got, frame_first, frame>>

CloseWindow ==
    /\ main = "window"
    /\ main' = "stop"
    /\ UNCHANGED <<stream, cb, unwound, frame_first_got, pointers>>

(* Mutant: main() returns without stopping the stream. *)
ReturnAtOnce ==
    /\ main = "stop"
    /\ main' = "returned"
    /\ UNCHANGED <<stream, cb, unwound, frame_first_got, pointers>>

(* Mutant: the thread is joined without being told to stop. *)
JoinOnly ==
    /\ main = "stop"
    /\ main' = "join"
    /\ owner' = "joining"
    /\ UNCHANGED <<config, is_running, thread, pc, event, lateOpens,
                   cb, unwound, frame_first_got, pointers>>

StopStream ==
    /\ main = "stop" /\ Stop
    /\ main' = "join"
    /\ UNCHANGED <<cb, unwound, frame_first_got, pointers>>

Return ==
    /\ main = "join" /\ StopJoins
    /\ main' = "returned"
    /\ UNCHANGED <<cb, unwound, frame_first_got, pointers>>

StreamSteps == /\ main # "died"
               /\ \/ GoesOn \/ GotFrame \/ Update \/ GotFirst \/ SetFirst
                  \/ Unwind \/ Looped \/ Failed \/ StreamClosed

Next == \/ StreamSteps
        \/ StartStream \/ Waited \/ Look \/ OpenWindow
        \/ Draw \/ ReadFrame \/ Drawn \/ CloseWindow \/ StopStream \/ Return

Spec == Init /\ [][Next]_vars

(* As in StreamThread; main() goes on, but the window need not be closed. *)
Fairness == WF_vars(StreamSteps) /\ WF_vars(StopStream) /\ WF_vars(Return)

FairSpec == Spec /\ Fairness

-----------------------------------------------------------------------------
TypeOK ==
    /\ ThreadTypeOK
    /\ main \in {"start", "wait", "look", "size", "window", "tested", "draw",
                 "died", "stop", "join", "returned"}
    /\ cb \in {"none", "update", "lock", "first"}
    /\ unwound \in BOOLEAN /\ frame_first_got \in BOOLEAN
    /\ frame_first \in Pointer /\ frame \in Pointer /\ drawn \in Pointer
    /\ main # "draw" => drawn = "null"

(***************************************************************************)
(* The renderer's pointer dangles only from the destruction of the Stream  *)
(* to the callback of LOOP, or once the thread has ended: a stream that    *)
(* loops, however often and wherever it fails, never leaves the frame of   *)
(* an earlier Stream with the renderer.                                    *)
(***************************************************************************)
DanglesOnlyBetween == frame = "freed" => unwound \/ pc = "end"

(***************************************************************************)
(* The callback captures main()'s locals by reference: when main() returns *)
(* the thread is gone and no callback is under way.                        *)
(***************************************************************************)
CapturesOutlive ==
    main = "returned" => /\ thread \in {"none", "joined"} /\ pc \in {"none", "end"}
                         /\ Reads

(***************************************************************************)
(* A window that is closed, or a wait that was in vain, ends the program   *)
(* wherever the stream is, unless its input meets the end of the file      *)
(* whenever it is opened again, for ever: main() joins the stream's thread *)
(* (main_ui_with_opengl.cc:108; stream_thread.cc:80-89).                   *)
(***************************************************************************)
PlayerEnds == main = "stop" ~> (main = "returned" \/ []Reopening)

(***************************************************************************)
(* "frame is invalid, wait update" (main_ui_with_opengl.cc:77): no invalid *)
(* frame is drawn.                                                         *)
(***************************************************************************)
DrawsLiveFrame == main = "draw" => drawn # "freed"

-----------------------------------------------------------------------------
(***************************************************************************)
(* The inductive invariant.  A callback runs where GET_FRAME has been      *)
(* dispatched, and nothing of the thread goes on meanwhile; the Stream is  *)
(* destroyed only by a call that throws; main() and the thread agree on    *)
(* how far the one has started and stopped the other.                      *)
(***************************************************************************)
CallbackInv == /\ cb # "none" => pc = "loop"
               /\ unwound => Throws

MainInv == /\ main = "start" <=> pc = "none"
           /\ main \in {"wait", "look", "size", "window", "tested", "draw", "died",
                       "stop"} =>
                is_running /\ owner = "idle"
           /\ main = "join" => owner = "joining"
           /\ main = "returned" => owner = "idle" /\ ~is_running

(* What counts as live does have a Stream. *)
LiveHasStream ==
    "live" \in {frame_first, frame, drawn} =>
      ~unwound /\ pc \in {"loop", "body", "frames", "closing"}

LocalInv == /\ ThreadInv /\ TypeOK
            /\ CallbackInv /\ MainInv /\ LiveHasStream /\ DanglesOnlyBetween
=============================================================================
