------------------------------- MODULE RoomFeed -------------------------------
(***************************************************************************)
(* What a session and the room of its stream are to each other, and        *)
(* nothing else of either: WsStreamRoom::Join, Leave and Send for one      *)
(* session.  Send copies the room under its mutex and sends to the copy    *)
(* without it, so a session may leave between the two.  WsStreamServer is  *)
(* this room to each of its sessions, and WsSession has no other room in   *)
(* mind, so that the two fit together.                                     *)
(***************************************************************************)
EXTENDS Naturals

VARIABLES
  phase,   (* the session is "out": not yet open, "in", or "left" for good *)
  member,  (* it is in sessions_map_                                       *)
  sender,  (* "snapshot" while a copy of the room with the session in it   *)
           (* is being sent to, else "idle"                                *)
  sent     (* packets posted to the session                                *)

feed == <<phase, member, sender, sent>>

Init == phase = "out" /\ member = FALSE /\ sender = "idle" /\ sent = 0

Join ==
    /\ phase = "out"
    /\ phase' = "in" /\ member' = TRUE
    /\ UNCHANGED <<sender, sent>>

(* Closed, or never accepted: there is no way back. *)
Leave ==
    /\ phase # "left"
    /\ phase' = "left" /\ member' = FALSE
    /\ UNCHANGED <<sender, sent>>

Copy ==
    /\ member /\ sender = "idle"
    /\ sender' = "snapshot"
    /\ UNCHANGED <<phase, member, sent>>

(* The copied session can still be locked, even if it has left ... *)
Post ==
    /\ sender = "snapshot"
    /\ sender' = "idle"
    /\ sent' = sent + 1
    /\ UNCHANGED <<phase, member>>

(* ... or it cannot: one that has not left can. *)
Skip ==
    /\ sender = "snapshot" /\ phase = "left"
    /\ sender' = "idle"
    /\ UNCHANGED <<phase, member, sent>>

(* The io_context is destroyed: nothing is posted from now on. *)
Down ==
    /\ phase' = "left" /\ member' = FALSE /\ sender' = "idle"
    /\ UNCHANGED sent

Next == Join \/ Leave \/ Copy \/ Post \/ Skip \/ Down

Spec == Init /\ [][Next]_feed
=============================================================================
