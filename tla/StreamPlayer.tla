----------------------------- MODULE StreamPlayer -----------------------------
(***************************************************************************)
(* A stream of the proxy with its preview window: main() starts the player *)
(* (rtsp-ws-proxy/stream_player.cc) and the stream's handler, whose packet *)
(* callback sends each packet to the server and then to the player.  The   *)
(* player decodes it on the stream's thread; its ui thread waits for the   *)
(* first frame, opens the window and runs it until it is closed.           *)
(***************************************************************************)
EXTENDS StreamHandler

VARIABLES
  main,     (* where main() is                                             *)
  preview,  (* stream_ui_enable                                            *)
  sending,  (* where the player's Send() is, on the stream's thread        *)
  ui,       (* where the ui thread is                                      *)
  ui_ok, ui_ (* ui_ok_ is set; ui_ is not null                             *)

player == <<preview, sending, ui, ui_ok, ui_>>
vars == <<stream, handler, main, player>>

Init ==
    /\ HandlerInit
    /\ main = "start"
    /\ preview \in BOOLEAN
    /\ sending = "none"
    /\ ui = "none" /\ ui_ok = FALSE /\ ui_ = FALSE

(* ui_mutex_ is held from the setting of ui_ok_ to that of ui_params_; the *)
(* other sections under it are single steps.                               *)
MutexIsFree == sending # "params"

-----------------------------------------------------------------------------
(* main() *)

Start ==
    /\ main = "start"
    /\ ui' = IF preview THEN "wait" ELSE "ended"
    /\ T!Start
    /\ main' = "run"
    /\ UNCHANGED <<handler, preview, sending, ui_ok, ui_>>

(* The server's Run() has returned. *)
Stop ==
    /\ Goes /\ main = "run"
    /\ T!Stop
    /\ main' = "stop"
    /\ UNCHANGED <<handler, player>>

StreamStopped ==
    /\ main = "stop"
    /\ StopJoins
    /\ main' = "players"
    /\ UNCHANGED player

PlayerStopped ==
    /\ Goes /\ main = "players" /\ ui = "ended"
    /\ main' = "returned"
    /\ UNCHANGED <<stream, handler, player>>

-----------------------------------------------------------------------------
(* The packet callback, on the stream's thread *)

Calls == Goes /\ level = Callback /\ sending = "none"

Returns ==
    /\ CallbackReturns
    /\ sending' = "none"
    /\ UNCHANGED <<main, preview, ui, ui_ok, ui_>>

ServerSend ==
    /\ Calls /\ ~preview
    /\ Returns

(* After the server's Send().  The packet may give no frame; what GetFrame *)
(* throws is a FilterFails or a FilterEof.                                 *)
Decode ==
    /\ Calls /\ preview
    /\ \/ Returns
       \/ /\ sending' = IF ui_ok THEN "look" ELSE "lock"
          /\ UNCHANGED <<stream, handler, main, preview, ui, ui_ok, ui_>>

(* Mutant: ui_ is not looked at. *)
LookNot ==
    /\ Goes /\ sending = "look"
    /\ sending' = "update"
    /\ UNCHANGED <<stream, handler, main, preview, ui, ui_ok, ui_>>

(* ui_ is looked at without the mutex. *)
Look ==
    /\ Goes /\ sending = "look"
    /\ \/ /\ ui_
          /\ sending' = "update"
          /\ UNCHANGED <<stream, handler, main, preview, ui, ui_ok, ui_>>
       \/ ~ui_ /\ Returns

Update ==
    /\ Goes /\ sending = "update"
    /\ \/ ui_ /\ Returns
       \/ /\ ~ui_
          /\ died' = "null"
          /\ UNCHANGED <<stream, filters, made, codecs, level, phase, packets, info,
                         history, main, player>>

SetOk ==
    /\ Goes /\ sending = "lock"
    /\ sending' = "params"
    /\ ui_ok' = TRUE
    /\ UNCHANGED <<stream, handler, main, preview, ui, ui_>>

SetParams == Goes /\ sending = "params" /\ Returns

Send == ServerSend \/ Decode \/ Look \/ Update \/ SetOk \/ SetParams

-----------------------------------------------------------------------------
(* The ui thread *)

(* It waits for nothing else. *)
Wait ==
    /\ Goes /\ ui = "wait" /\ MutexIsFree /\ ui_ok
    /\ ui' = "make"
    /\ UNCHANGED <<stream, handler, main, preview, sending, ui_ok, ui_>>

Make ==
    /\ Goes /\ ui = "make" /\ MutexIsFree
    /\ ui_' = TRUE
    /\ ui' = "open"
    /\ UNCHANGED <<stream, handler, main, preview, sending, ui_ok>>

OpenWindow ==
    /\ Goes /\ ui = "open"
    /\ ui' \in {"window", "over"}
    /\ UNCHANGED <<stream, handler, main, preview, sending, ui_ok, ui_>>

CloseWindow ==
    /\ Goes /\ ui = "window"
    /\ ui' = "over"
    /\ UNCHANGED <<stream, handler, main, preview, sending, ui_ok, ui_>>

Reset ==
    /\ Goes /\ ui = "over" /\ MutexIsFree
    /\ ui_' = FALSE
    /\ ui' = "ended"
    /\ UNCHANGED <<stream, handler, main, preview, sending, ui_ok>>

UiGoes == Wait \/ Make \/ OpenWindow \/ Reset

(* A throw out of Send() is one out of the callback: no lock is held then. *)
StreamGoes ==
    \/ HandlerSteps /\ sending = "none" /\ UNCHANGED <<main, player>>
    \/ Send

Next == Start \/ Stop \/ StreamStopped \/ PlayerStopped
        \/ StreamGoes \/ UiGoes \/ CloseWindow

Spec == Init /\ [][Next]_vars

(* As in StreamThread; the ui thread and main() go on, but nothing makes   *)
(* the window close, and no signal need come.                              *)
FairSpec ==
    /\ Spec
    /\ WF_vars(StreamGoes) /\ WF_vars(UiGoes)
    /\ WF_vars(StreamStopped) /\ WF_vars(PlayerStopped)

-----------------------------------------------------------------------------
(* Properties *)

TypeOK ==
    /\ HandlerTypeOK
    /\ main \in {"start", "run", "stop", "players", "returned"}
    /\ preview \in BOOLEAN
    /\ sending \in {"none", "look", "update", "lock", "params"}
    /\ ui \in {"none", "wait", "make", "open", "window", "over", "ended"}
    /\ ui_ok \in BOOLEAN /\ ui_ \in BOOLEAN

(* Of the preview, only closing its window can end the proxy: Send() meets *)
(* a null ui_ only when the ui thread has reset it between the look and    *)
(* the lock, not before it has been made (stream_player.cc:76-78, 22-33).  *)
NullOnlyOfClosed == died = "null" => ui = "ended"

(* A signal ends the process, whatever packets and filters do, with three  *)
(* exceptions: while the preview's window is open; if no frame ever came,  *)
(* as Stop() then waits for a ui thread that waits for one; and if the     *)
(* input ends as it is opened, again and again for ever (see Reopening)    *)
(* (main.cc:92-95; stream_player.cc:13-20, 38-42; stream_thread.cc:80-89). *)
ProxyEnds ==
    main = "stop" ~> \/ main = "returned" \/ ~Goes
                     \/ ui = "window" \/ (ui = "wait" /\ ~ui_ok)
                     \/ []T!Reopening

-----------------------------------------------------------------------------
(* The inductive invariant *)

(* Send() has seen ui_ when it goes for the mutex. *)
PlayerPlace ==
    /\ ui_ <=> ui \in {"open", "window", "over"}
    /\ sending = "update" => ui \in {"open", "window", "over", "ended"}
    /\ sending # "none" => level = Callback
    /\ main = "start" => pc = "none" /\ ui = "none" /\ died = "no"

ProxyInv == HandlerInv /\ TypeOK /\ PlayerPlace /\ NullOnlyOfClosed
=============================================================================
