---------------------------- MODULE WsStreamClient ----------------------------
(***************************************************************************)
(* The desktop client, ws-local-player: main() asks for the streams by     *)
(* HTTP, makes a WsStreamClient and runs its io_context.  The client has a *)
(* thread of its own, Run(), that waits for the first frame, opens the     *)
(* window and, when the window is closed or no frame has come, stops the   *)
(* io_context.  One thread runs the io_context, so the client's strand     *)
(* changes nothing; Send(), Close() and the writes have no caller here.    *)
(* External are the server, the codec and GLFW.                            *)
(***************************************************************************)
EXTENDS Integers

CONSTANT UiWaitSecs  (* the values of ui_wait_secs in config.yaml *)

ASSUME UiWaitSecsAssumption == UiWaitSecs \subseteq Int

VARIABLES
  main,      (* where main() is                                            *)
  ioc,       (* the io_context                                             *)
  conn,      (* the operation of the client that is outstanding            *)
  recv_from_key_frame,
  recv,      (* where OnEventRecv is, on main()'s thread                   *)
  ui,        (* where Run(), on the ui thread, is                          *)
  n,         (* its rounds of waiting left                                 *)
  ui_ok, ui_, ui_params,
             (* ui_ok_; ui_ and ui_params_ have been set                   *)
  died       (* what has ended the process before main() could return      *)

process == <<main, ioc, died>>
client == <<conn, recv_from_key_frame, recv>>
shared == <<ui_ok, ui_, ui_params>>
vars == <<process, client, ui, n, shared>>

Operation == {"posted", "resolve", "connect", "handshake", "read"}

(* Rounds of 2000 ms; a time of less than a second is taken as 10. *)
Rounds(secs) == ((IF secs <= 0 THEN 10 ELSE secs) * 1000) \div 2000

Init ==
    /\ main = "http" /\ ioc = "none" /\ died = "no"
    /\ conn = "none" /\ recv_from_key_frame = FALSE /\ recv = "none"
    /\ ui = "none" /\ \E secs \in UiWaitSecs : n = Rounds(secs)
    /\ ui_ok = FALSE /\ ui_ = FALSE /\ ui_params = FALSE

Goes == died = "no" /\ main # "returned"

(* ui_mutex_ is held from the setting of ui_ok_ to that of ui_params_; the *)
(* other sections under it are single steps.                               *)
MutexIsFree == recv # "params"

Dies(how) ==
    /\ died' = how
    /\ UNCHANGED <<main, ioc>>

-----------------------------------------------------------------------------
(* main() *)

(* The request is over when HttpClient::Run returns.  An answer that is    *)
(* neither ok nor a failure, or without the stream, ends main() too, the   *)
(* former after a wait.                                                    *)
Http ==
    /\ main = "http"
    /\ \/ main' = "returned" /\ UNCHANGED <<ioc, ui>>
       \/ main' = "client" /\ ioc' = "ready" /\ ui' = "wait"
    /\ UNCHANGED <<died, client, n, shared>>

Open ==
    /\ Goes /\ main = "client"
    /\ main' = "open"
    /\ conn' = "posted"
    /\ UNCHANGED <<ioc, died, recv_from_key_frame, recv, ui, n, shared>>

(* Mutant: a stop() before run() is forgotten. *)
RunsAfresh ==
    /\ Goes /\ main = "open"
    /\ main' = "run"
    /\ ioc' = "ready"
    /\ UNCHANGED <<died, client, ui, n, shared>>

IocRun ==
    /\ Goes /\ main = "open"
    /\ main' = "run"
    /\ UNCHANGED <<ioc, died, client, ui, n, shared>>

(* A handler may be taken; the wait for a signal keeps run() from ending   *)
(* when there is no other operation.                                       *)
Handles == Goes /\ main = "run" /\ ioc = "ready" /\ recv = "none"

Signal ==
    /\ Handles
    /\ ioc' = "stopped"
    /\ UNCHANGED <<main, died, client, ui, n, shared>>

(* Mutant: main()'s own pointer to the client dies after the io_context. *)
ReleasedLate == ioc' = "destroyed"

(* The client dies before the io_context unless an outstanding operation   *)
(* holds it: then it dies with it, in its destructor.                      *)
Released == ioc' = IF conn \in Operation THEN "destroying" ELSE ioc

RunReturns ==
    /\ Goes /\ main = "run" /\ ioc = "stopped" /\ recv = "none"
    /\ main' = "join"
    /\ Released
    /\ UNCHANGED <<died, client, ui, n, shared>>

(* ~WsStreamClient joins the ui thread; then everything of main() is gone. *)
Joined ==
    /\ Goes /\ main = "join" /\ ui = "ended"
    /\ main' = "returned"
    /\ ioc' = "destroyed"
    /\ UNCHANGED <<died, client, ui, n, shared>>

-----------------------------------------------------------------------------
(* The client's handlers *)

(* OnEventFail only logs: nothing is outstanding from then on. *)
Fails ==
    /\ Handles /\ conn \in Operation \ {"posted"}
    /\ conn' = "failed"
    /\ UNCHANGED <<process, recv_from_key_frame, recv, ui, n, shared>>

Completes(of, next) ==
    /\ Handles /\ conn = of
    /\ conn' = next
    /\ UNCHANGED <<process, recv_from_key_frame, recv, ui, n, shared>>

DoResolve == Completes("posted", "resolve")
OnResolve == Completes("resolve", "connect")
OnConnect == Completes("connect", "handshake")
OnHandshake == Completes("handshake", "read")

(* A packet before the first key packet is ignored, and a packet may yield *)
(* no frame.                                                               *)
OnRead(key) ==
    /\ Handles /\ conn = "read"
    /\ recv_from_key_frame' = (recv_from_key_frame \/ key)
    /\ \/ UNCHANGED recv
       \/ /\ recv_from_key_frame'
          /\ recv' = IF ui_ok THEN "update" ELSE "lock"
    /\ UNCHANGED <<process, conn, ui, n, shared>>

(* Nobody catches what FromBytes and GetFrame throw. *)
OnReadThrows ==
    /\ Handles /\ conn = "read"
    /\ Dies("throw")
    /\ UNCHANGED <<client, ui, n, shared>>

(* Under ui_mutex_, but the ui thread may not have come to set ui_. *)
Update ==
    /\ Goes /\ recv = "update"
    /\ recv' = "none"
    /\ IF ui_ THEN UNCHANGED process ELSE Dies("null")
    /\ UNCHANGED <<conn, recv_from_key_frame, ui, n, shared>>

SetOk ==
    /\ Goes /\ recv = "lock"
    /\ recv' = "params"
    /\ ui_ok' = TRUE
    /\ UNCHANGED <<process, conn, recv_from_key_frame, ui, n, ui_, ui_params>>

SetParams ==
    /\ Goes /\ recv = "params"
    /\ recv' = "none"
    /\ ui_params' = TRUE
    /\ UNCHANGED <<process, conn, recv_from_key_frame, ui, n, ui_ok, ui_>>

-----------------------------------------------------------------------------
(* Run(), on the ui thread *)

(* A round ends with ui_ok_ set, seen under the mutex, or with its time. *)
Wait ==
    /\ Goes /\ ui = "wait" /\ n > 0 /\ MutexIsFree
    /\ IF ui_ok THEN ui' = "check" /\ UNCHANGED n
                ELSE n' = n - 1 /\ UNCHANGED ui
    /\ UNCHANGED <<process, client, shared>>

WaitOver ==
    /\ Goes /\ ui = "wait" /\ n = 0
    /\ ui' = "check"
    /\ UNCHANGED <<process, client, n, shared>>

(* ui_ok_ is read again, without the mutex. *)
Check ==
    /\ Goes /\ ui = "check"
    /\ ui' = IF ui_ok THEN "make" ELSE "timeout"
    /\ UNCHANGED <<process, client, n, shared>>

(* Mutant: ui_ is set without the mutex. *)
MakeUnlocked ==
    /\ Goes /\ ui = "make"
    /\ ui' = "start"
    /\ ui_' = TRUE
    /\ UNCHANGED <<process, client, n, ui_ok, ui_params>>

Make ==
    /\ Goes /\ ui = "make" /\ MutexIsFree
    /\ ui' = "start"
    /\ ui_' = TRUE
    /\ UNCHANGED <<process, client, n, ui_ok, ui_params>>

(* ui_->Run(ui_params_) opens the window, or cannot. *)
OpenWindow ==
    /\ Goes /\ ui = "start"
    /\ ui' \in {"window", "over"}
    /\ UNCHANGED <<process, client, n, shared>>

(* Mutant: ui_ is reset with the window. *)
CloseResets ==
    /\ Goes /\ ui = "window"
    /\ ui' = "over"
    /\ ui_' = FALSE
    /\ UNCHANGED <<process, client, n, ui_ok, ui_params>>

CloseWindow ==
    /\ Goes /\ ui = "window"
    /\ ui' = "over"
    /\ UNCHANGED <<process, client, n, shared>>

UiIsOver == ui \in {"over", "timeout"}

(* on_ui_exit_: ioc.stop() *)
UiExit ==
    /\ Goes /\ UiIsOver
    /\ ui' = "ended"
    /\ ioc' = IF ioc = "ready" THEN "stopped" ELSE ioc
    /\ UNCHANGED <<main, died, client, n, shared>>

MainGoes == \/ Open \/ IocRun \/ RunReturns \/ Joined
            \/ Update \/ SetOk \/ SetParams
UiGoes == Wait \/ WaitOver \/ Check \/ Make \/ OpenWindow \/ UiExit

Next ==
    \/ MainGoes \/ Http \/ Signal
    \/ DoResolve \/ OnResolve \/ OnConnect \/ OnHandshake \/ Fails
    \/ OnReadThrows \/ \E key \in BOOLEAN : OnRead(key)
    \/ UiGoes \/ CloseWindow

Spec == Init /\ [][Next]_vars

(* Both threads go on, a wait is over in time, and on_ui_exit_ is called.  *)
(* Nothing makes the peer, the user or a signal act.                       *)
FairSpec == Spec /\ WF_vars(MainGoes) /\ WF_vars(UiGoes)

-----------------------------------------------------------------------------
(* Properties *)

TypeOK ==
    /\ main \in {"http", "client", "open", "run", "join", "returned"}
    /\ ioc \in {"none", "ready", "stopped", "destroying", "destroyed"}
    /\ conn \in Operation \union {"none", "failed"}
    /\ recv \in {"none", "update", "lock", "params"}
    /\ ui \in {"none", "wait", "check", "make", "start", "window",
              "over", "timeout", "ended"}
    /\ n \in Nat
    /\ recv_from_key_frame \in BOOLEAN
    /\ ui_ok \in BOOLEAN /\ ui_ \in BOOLEAN /\ ui_params \in BOOLEAN
    /\ died \in {"no", "throw", "null"}

(* The window is opened with the size of the first frame, although ui_ok_  *)
(* is set before ui_params_ and read without the mutex                     *)
(* (ws_stream_client.cc:102-108, 152-155).                                 *)
OpensSized == ui \in {"start", "window"} => ui_params

(* Only a frame that comes before the ui thread has set ui_, or when it    *)
(* has given up waiting, meets a null ui_: never one that comes after the  *)
(* window has been opened, whatever has become of it                       *)
(* (ws_stream_client.cc:102-105, 148-150).                                 *)
NullOnlyBefore ==
    died = "null" => \/ ui \in {"wait", "check", "make", "timeout"}
                     \/ ui = "ended" /\ ~ui_

(* stop() is called on an io_context that exists, and main() returns after *)
(* the ui thread: on every way out, with the client held by main() or by   *)
(* an operation (ws_stream_client.cc:84-86, 113; main.cc:139-164).         *)
StopsLiveContext ==
    /\ UiIsOver => ioc \in {"ready", "stopped", "destroying"}
    /\ main = "returned" => ui \in {"none", "ended"}

(* A client that runs, whatever its connection does, ends by itself unless *)
(* its window is open, and one whose ui thread is over ends, also when it  *)
(* was over before run() (main.cc:150-164, ws_stream_client.cc:88-114).    *)
ProcessEnds ==
    Goes /\ (main = "run" \/ UiIsOver) ~> ~Goes \/ ui = "window"

-----------------------------------------------------------------------------
(* The inductive invariant *)

(* A frame is being received, or the process has died, in run() only, and  *)
(* the ui thread exists as long as the client does.                        *)
Placed ==
    /\ recv # "none" => main = "run"
    /\ died # "no" => main = "run"
    /\ ui = "none" => main \in {"http", "returned"}
    /\ main = "http" => ui = "none"

FirstFrame ==
    /\ ui_ok => ui_params \/ recv = "params"
    /\ ui = "make" => ui_ok

UiMade == ui \in {"start", "window", "over"} => ui_

ContextLives ==
    ui \notin {"none", "ended"} => ioc \in {"ready", "stopped", "destroying"}

ClientInv ==
    /\ TypeOK /\ Placed
    /\ FirstFrame /\ OpensSized
    /\ UiMade /\ NullOnlyBefore
    /\ ContextLives /\ StopsLiveContext
=============================================================================
