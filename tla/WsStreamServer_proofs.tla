------------------------- MODULE WsStreamServer_proofs -------------------------
(***************************************************************************)
(* Proofs about WsStreamServer, for any streams, sessions and lengths of   *)
(* the streams.                                                            *)
(***************************************************************************)
EXTENDS WsStreamServer, SequenceTheorems, TLAPS

LEMMA InitInv == Init => ServerInv
<1> SUFFICES ASSUME Init PROVE ServerInv
  OBVIOUS
<1>1. TypeOK
  <2>1. /\ packet \in [Streams -> Nat]
        /\ \A id \in Streams : packet[id] <= MaxPackets[id]
    <3>1. \A id \in Streams : packet[id] = 0 /\ MaxPackets[id] \in Nat
      BY MaxPacketsAssumption DEF Init
    <3> QED BY <3>1 DEF Init
  <2>2. got \in [Sessions -> Seq(Nat)] /\ stale \in [Sessions -> Nat]
    BY DEF Init
  <2>3. /\ pc \in [Streams -> {"run", "read", "check", "copy", "send", "ended"}]
        /\ conn \in [Sessions -> Phase]
        /\ watches \in [Sessions -> Streams \cup {NoStream}]
    BY DEF Init, Phase
  <2>4. /\ todo \in [Streams -> SUBSET Sessions] /\ room \in [Streams -> SUBSET Sessions]
        /\ is_running \in [Streams -> BOOLEAN]
    BY DEF Init
  <2> QED BY <2>1, <2>2, <2>3, <2>4 DEF Init, TypeOK
<1>2. LifeInv
  BY NoStreamAssumption DEF Init, LifeInv
<1>3. RoomHoldsOpenSessions
  BY DEF Init, RoomHoldsOpenSessions
<1>4. TodoInv
  BY DEF Init, TodoInv
<1>5. PostInv
  BY DEF Init, PostInv, UpToDate, GotUpTo
<1>6. GapFree /\ AtMostOneStale
  BY DEF Init, GapFree, AtMostOneStale
<1> QED BY <1>1, <1>2, <1>3, <1>4, <1>5, <1>6 DEF ServerInv

-----------------------------------------------------------------------------
(* The type invariant.  A packet is counted only after it has been read,   *)
(* and it is read only below the bound.                                    *)
LEMMA StepType == ServerInv /\ [Next]_vars => TypeOK'
<1> SUFFICES ASSUME TypeOK, LifeInv, [Next]_vars PROVE TypeOK'
  BY DEF ServerInv
<1> USE DEF TypeOK, streamVars, sessionVars, postVars
<1>1. ASSUME NEW s \in Sessions, NEW id \in Streams, DoSessionWebSocket(s, id) PROVE TypeOK'
  BY <1>1 DEF DoSessionWebSocket, Phase
<1>2. ASSUME NEW s \in Sessions, OnEventOpened(s) PROVE TypeOK'
  <2>1. room' \in [Streams -> SUBSET Sessions]
    BY <1>2 DEF OnEventOpened, Join
  <2> QED BY <1>2, <2>1 DEF OnEventOpened, Phase
<1>3. ASSUME NEW s \in Sessions, OnEventClosed(s) PROVE TypeOK'
  <2>1. room' \in [Streams -> SUBSET Sessions]
    BY <1>3 DEF OnEventClosed, Leave
  <2> QED BY <1>3, <2>1 DEF OnEventClosed, Phase
<1>4. ASSUME NEW s \in Sessions, Released(s) PROVE TypeOK'
  <2>1. room' \in [Streams -> SUBSET Sessions]
    BY <1>4 DEF Released, Leave
  <2> QED BY <1>4, <2>1 DEF Released, Phase
<1>5. ASSUME NEW id \in Streams, ReadPacket(id) PROVE TypeOK'
  BY <1>5 DEF ReadPacket
<1>6. ASSUME NEW id \in Streams, Publish(id) PROVE TypeOK'
  <2>1. packet' \in [Streams -> Nat]
    BY <1>6 DEF Publish
  <2>2. \A other \in Streams : packet'[other] <= MaxPackets[other]
    <3>1. packet' = [packet EXCEPT ![id] = packet[id] + 1] /\ packet[id] < MaxPackets[id]
      BY <1>6 DEF Publish, LifeInv
    <3>2. packet[id] \in Nat /\ MaxPackets[id] \in Nat
      BY MaxPacketsAssumption
    <3>3. packet'[id] <= MaxPackets[id]
      BY <3>1, <3>2
    <3> QED BY <3>1, <3>3
  <2> QED BY <1>6, <2>1, <2>2 DEF Publish
<1>7. ASSUME NEW id \in Streams, CheckEmpty(id) PROVE TypeOK'
  BY <1>7 DEF CheckEmpty
<1>8. ASSUME NEW id \in Streams, CopyRoom(id) PROVE TypeOK'
  BY <1>8 DEF CopyRoom
<1>9. ASSUME NEW id \in Streams, NEW s \in Sessions, SendTo(id, s) PROVE TypeOK'
  <2>1. todo' \in [Streams -> SUBSET Sessions]
    BY <1>9 DEF SendTo
  <2>2. got' \in [Sessions -> Seq(Nat)] /\ stale' \in [Sessions -> Nat]
    <3>1. packet[id] \in Nat /\ Append(got[s], packet[id]) \in Seq(Nat)
      OBVIOUS
    <3>2. got' \in [Sessions -> Seq(Nat)]
      BY <1>9, <3>1 DEF SendTo
    <3>3. stale' \in [Sessions -> Nat]
      <4>1. stale[s] \in Nat /\ stale[s] + 1 \in Nat
        OBVIOUS
      <4> QED BY <1>9, <4>1 DEF SendTo
    <3> QED BY <3>2, <3>3
  <2>3. main' \in {"serving", "stopping", "done", "crashed"} /\ dangling' \in BOOLEAN
    BY <1>9 DEF SendTo, UseDestroyed
  <2> QED BY <1>9, <2>1, <2>2, <2>3 DEF SendTo
<1>10. ASSUME NEW id \in Streams, SendDone(id) PROVE TypeOK'
  BY <1>10 DEF SendDone
<1>11. ASSUME NEW id \in Streams, ThreadEnds(id) PROVE TypeOK'
  BY <1>11 DEF ThreadEnds
<1>12. ASSUME Signal PROVE TypeOK'
  BY <1>12 DEF Signal
<1>13. ASSUME RunReturns PROVE TypeOK'
  BY <1>13 DEF RunReturns, Phase
<1>14. ASSUME NEW id \in Streams, StopStream(id) PROVE TypeOK'
  BY <1>14 DEF StopStream
<1>15. ASSUME MainReturns PROVE TypeOK'
  BY <1>15 DEF MainReturns, Phase
<1>16. ASSUME UNCHANGED vars PROVE TypeOK'
  BY <1>16 DEF vars
<1> QED
  BY <1>1, <1>2, <1>3, <1>4, <1>5, <1>6, <1>7, <1>8, <1>9, <1>10, <1>11, <1>12, <1>13,
     <1>14, <1>15, <1>16 DEF Next, SessionStep, StreamStep, MainStep

-----------------------------------------------------------------------------
LEMMA StepLife == ServerInv /\ [Next]_vars => LifeInv'
<1> SUFFICES ASSUME TypeOK, LifeInv, [Next]_vars PROVE LifeInv'
  BY DEF ServerInv
<1> USE DEF TypeOK, LifeInv, streamVars, sessionVars, postVars
<1>1. ASSUME NEW s \in Sessions, NEW id \in Streams, DoSessionWebSocket(s, id) PROVE LifeInv'
  BY <1>1, NoStreamAssumption DEF DoSessionWebSocket, HandlersRun
<1>2. ASSUME NEW s \in Sessions, OnEventOpened(s) \/ OnEventClosed(s) \/ Released(s) PROVE LifeInv'
  BY <1>2 DEF OnEventOpened, OnEventClosed, Released, HandlersRun
<1>3. ASSUME NEW id \in Streams,
             ReadPacket(id) \/ CheckEmpty(id) \/ CopyRoom(id) \/ SendDone(id) \/ ThreadEnds(id)
      PROVE  LifeInv'
  BY <1>3 DEF ReadPacket, CheckEmpty, CopyRoom, SendDone, ThreadEnds
<1>4. ASSUME NEW id \in Streams, Publish(id) PROVE LifeInv'
  BY <1>4 DEF Publish
<1>5. ASSUME NEW id \in Streams, NEW s \in Sessions, SendTo(id, s) PROVE LifeInv'
  BY <1>5 DEF SendTo, UseDestroyed
<1>6. ASSUME Signal PROVE LifeInv'
  BY <1>6 DEF Signal
<1>7. ASSUME RunReturns PROVE LifeInv'
  BY <1>7 DEF RunReturns, Phase
<1>8. ASSUME NEW id \in Streams, StopStream(id) PROVE LifeInv'
  BY <1>8 DEF StopStream
<1>9. ASSUME MainReturns PROVE LifeInv'
  BY <1>9 DEF MainReturns
<1>10. ASSUME UNCHANGED vars PROVE LifeInv'
  BY <1>10 DEF vars
<1> QED
  BY <1>1, <1>2, <1>3, <1>4, <1>5, <1>6, <1>7, <1>8, <1>9, <1>10
     DEF Next, SessionStep, StreamStep, MainStep

-----------------------------------------------------------------------------
(* The room.  Only the handlers of a session put it in or take it out, and *)
(* the end of main() empties the room together with its orphans.           *)
LEMMA StepRoom == ServerInv /\ [Next]_vars => RoomHoldsOpenSessions'
<1> SUFFICES ASSUME TypeOK, LifeInv, RoomHoldsOpenSessions, [Next]_vars
             PROVE  RoomHoldsOpenSessions'
  BY DEF ServerInv
<1> USE DEF TypeOK, RoomHoldsOpenSessions, streamVars, sessionVars, postVars
<1>1. ASSUME NEW s \in Sessions, NEW id \in Streams, DoSessionWebSocket(s, id)
      PROVE  RoomHoldsOpenSessions'
  BY <1>1, NoStreamAssumption DEF DoSessionWebSocket, LifeInv
<1>2. ASSUME NEW s \in Sessions, OnEventOpened(s) PROVE RoomHoldsOpenSessions'
  <2>1. watches[s] \in Streams
    BY <1>2 DEF OnEventOpened, LifeInv
  <2> QED BY <1>2, <2>1 DEF OnEventOpened, Join
<1>3. ASSUME NEW s \in Sessions, OnEventClosed(s) \/ Released(s) PROVE RoomHoldsOpenSessions'
  <2>1. watches[s] \in Streams
    BY <1>3 DEF OnEventClosed, Released, LifeInv
  <2>2. /\ room' = [room EXCEPT ![watches[s]] = room[watches[s]] \ {s}]
        /\ conn' \in {[conn EXCEPT ![s] = "left"], [conn EXCEPT ![s] = "gone"]}
        /\ watches' = watches
    BY <1>3 DEF OnEventClosed, Released, Leave
  <2>3. \A id \in Streams :
          room'[id] = IF id = watches[s] THEN room[id] \ {s} ELSE room[id]
    BY <2>1, <2>2
  <2>4. \A r \in Sessions : conn'[r] = conn[r] \/ (r = s /\ conn'[r] \in {"left", "gone"})
    BY <2>2
  <2>5. conn'[s] \in {"left", "gone"}
    BY <2>2
  <2> QED BY <2>2, <2>3, <2>4, <2>5
<1>4. ASSUME UNCHANGED sessionVars PROVE RoomHoldsOpenSessions'
  BY <1>4
<1>5. ASSUME RunReturns PROVE RoomHoldsOpenSessions'
  BY <1>5 DEF RunReturns, LifeInv
<1>6. ASSUME MainReturns PROVE RoomHoldsOpenSessions'
  BY <1>6 DEF MainReturns, LifeInv
<1> QED
  BY <1>1, <1>2, <1>3, <1>4, <1>5, <1>6
     DEF Next, vars, SessionStep, StreamStep, MainStep, ReadPacket, Publish, CheckEmpty,
         CopyRoom, SendTo, SendDone, ThreadEnds, Signal, StopStream

LEMMA StepTodo == ServerInv /\ [Next]_vars => TodoInv'
<1> SUFFICES ASSUME TypeOK, LifeInv, RoomHoldsOpenSessions, TodoInv, [Next]_vars PROVE TodoInv'
  BY DEF ServerInv
<1> USE DEF TypeOK, TodoInv, streamVars, sessionVars, postVars
<1>1. ASSUME NEW s \in Sessions, NEW id \in Streams, DoSessionWebSocket(s, id) PROVE TodoInv'
  BY <1>1, NoStreamAssumption DEF DoSessionWebSocket, LifeInv
<1>2. ASSUME NEW s \in Sessions, OnEventOpened(s) \/ OnEventClosed(s) \/ Released(s) PROVE TodoInv'
  BY <1>2 DEF OnEventOpened, OnEventClosed, Released
<1>3. ASSUME NEW id \in Streams,
             ReadPacket(id) \/ Publish(id) \/ CheckEmpty(id) \/ SendDone(id) \/ ThreadEnds(id)
      PROVE  TodoInv'
  <2>1. \A s \in Sessions : s \notin todo[id]
    BY <1>3 DEF ReadPacket, Publish, CheckEmpty, SendDone, ThreadEnds
  <2>2. UNCHANGED <<todo, conn, watches>> /\ \A other \in Streams : other # id => pc'[other] = pc[other]
    BY <1>3 DEF ReadPacket, Publish, CheckEmpty, SendDone, ThreadEnds
  <2> QED BY <2>1, <2>2
<1>4. ASSUME NEW id \in Streams, CopyRoom(id) PROVE TodoInv'
  <2>1. /\ UNCHANGED <<conn, watches>> /\ pc'[id] = "send" /\ todo'[id] = room[id]
        /\ \A other \in Streams : other # id => pc'[other] = pc[other] /\ todo'[other] = todo[other]
    BY <1>4 DEF CopyRoom
  <2>2. \A s \in room[id] : s \in Sessions /\ watches[s] = id /\ conn[s] # "accepting"
    BY DEF RoomHoldsOpenSessions
  <2> QED BY <2>1, <2>2
<1>5. ASSUME NEW id \in Streams, NEW s \in Sessions, SendTo(id, s) PROVE TodoInv'
  BY <1>5 DEF SendTo
<1>6. ASSUME Signal \/ RunReturns \/ MainReturns \/ UNCHANGED vars PROVE TodoInv'
  <2>1. UNCHANGED <<pc, todo, watches>>
    BY <1>6 DEF Signal, RunReturns, MainReturns, vars
  <2>2. \A s \in Sessions : conn'[s] = "accepting" => conn[s] = "accepting"
    <3>1. CASE Signal \/ UNCHANGED vars
      BY <3>1 DEF Signal, vars
    <3>2. CASE RunReturns
      BY <3>2 DEF RunReturns
    <3>3. CASE MainReturns
      BY <3>3 DEF MainReturns
    <3> QED BY <1>6, <3>1, <3>2, <3>3
  <2>3. ASSUME NEW id \in Streams, NEW s \in Sessions, s \in todo[id]
        PROVE  pc[id] = "send" /\ watches[s] = id /\ conn'[s] # "accepting"
    BY <2>2, <2>3
  <2> QED BY <2>1, <2>3
<1>7. ASSUME NEW id \in Streams, StopStream(id) PROVE TodoInv'
  BY <1>7 DEF StopStream
<1> QED
  BY <1>1, <1>2, <1>3, <1>4, <1>5, <1>6, <1>7 DEF Next, SessionStep, StreamStep, MainStep

-----------------------------------------------------------------------------
(* What a session is posted.  Posting to it while the io_context is there  *)
(* appends the packet under way to the session's, and to nobody else's.    *)
LEMMA SendToEffect ==
  ASSUME TypeOK, NEW id \in Streams, NEW s \in Sessions, SendTo(id, s)
  PROVE  /\ s \in todo[id] /\ pc[id] = "send"
         /\ todo' = [todo EXCEPT ![id] = @ \ {s}]
         /\ \/ UNCHANGED <<got, stale>> /\ (ioc = "destroyed" \/ ~Alive(s))
            \/ /\ Alive(s) /\ ioc # "destroyed"
               /\ got' = [got EXCEPT ![s] = Append(got[s], packet[id])]
               /\ stale' = [stale EXCEPT ![s] = IF conn[s] = "left" THEN stale[s] + 1 ELSE stale[s]]
         /\ UNCHANGED <<ioc, pc, packet, conn, watches>>
  BY DEF SendTo, sessionVars

(* Nothing else posts. *)
LEMMA PostFrame ==
  ASSUME [Next]_vars, \A id \in Streams, s \in Sessions : ~SendTo(id, s)
  PROVE  UNCHANGED <<got, stale>>
  BY DEF Next, vars, SessionStep, StreamStep, MainStep, DoSessionWebSocket, OnEventOpened,
         OnEventClosed, Released, ReadPacket, Publish, CheckEmpty, CopyRoom, SendDone,
         ThreadEnds, Signal, RunReturns, StopStream, MainReturns, postVars

LEMMA AppendedLast ==
  ASSUME NEW q \in Seq(Nat), NEW n \in Nat
  PROVE  /\ Append(q, n) \in Seq(Nat) /\ Append(q, n) # <<>>
         /\ Len(Append(q, n)) = Len(q) + 1
         /\ Append(q, n)[Len(Append(q, n))] = n
         /\ \A i \in 1 .. Len(q) : Append(q, n)[i] = q[i]
  BY AppendProperties

LEMMA StepPost == ServerInv /\ [Next]_vars => PostInv'
<1> SUFFICES ASSUME TypeOK, LifeInv, RoomHoldsOpenSessions, TodoInv, PostInv, [Next]_vars
             PROVE  PostInv'
  BY DEF ServerInv
<1> USE DEF PostInv, UpToDate, GotUpTo
<1>1. ASSUME NEW s \in Sessions,
             (\E id \in Streams : DoSessionWebSocket(s, id))
               \/ OnEventOpened(s) \/ OnEventClosed(s) \/ Released(s)
      PROVE  PostInv'
  <2>1. /\ UNCHANGED <<ioc, pc, packet, todo, got, stale>>
        /\ \A r \in Sessions : r # s => conn'[r] = conn[r] /\ watches'[r] = watches[r]
    BY <1>1 DEF DoSessionWebSocket, OnEventOpened, OnEventClosed, Released, streamVars, postVars,
                TypeOK
  <2>2. /\ conn'[s] \in {"new", "accepting"} => conn[s] = "new"
        /\ conn'[s] = "open" => conn[s] = "accepting"
    BY <1>1 DEF DoSessionWebSocket, OnEventOpened, OnEventClosed, Released, TypeOK
  <2> QED BY <2>1, <2>2
<1>2. ASSUME NEW id \in Streams, ReadPacket(id) \/ SendDone(id) \/ ThreadEnds(id) PROVE PostInv'
  <2>1. /\ UNCHANGED <<ioc, packet, todo, got, stale, conn, watches>>
        /\ \A other \in Streams : pc'[other] \in {"check", "copy"} <=> pc[other] \in {"check", "copy"}
    BY <1>2 DEF ReadPacket, SendDone, ThreadEnds, sessionVars, postVars, TypeOK
  <2> QED BY <2>1
<1>3. ASSUME NEW id \in Streams, Publish(id) PROVE PostInv'
  <2>1. /\ UNCHANGED <<ioc, todo, got, stale, conn, watches>>
        /\ \A other \in Streams : other # id => pc'[other] = pc[other] /\ packet'[other] = packet[other]
        /\ pc[id] = "read" /\ pc'[id] = "check" /\ packet'[id] - 1 = packet[id]
    BY <1>3 DEF Publish, sessionVars, postVars, TypeOK
  <2>2. \A s \in Sessions : s \notin todo[id]
    BY <2>1 DEF TodoInv
  <2> QED BY <2>1, <2>2
<1>4. ASSUME NEW id \in Streams, CheckEmpty(id) PROVE PostInv'
  <2>1. /\ UNCHANGED <<ioc, packet, todo, got, stale, conn, watches>>
        /\ \A other \in Streams : other # id => pc'[other] = pc[other]
        /\ pc[id] = "check" /\ pc'[id] = IF room[id] = {} THEN "run" ELSE "copy"
    BY <1>4 DEF CheckEmpty, Empty, sessionVars, postVars, TypeOK
  <2>2. room[id] = {} => \A s \in Sessions : ~(conn[s] = "open" /\ watches[s] = id)
    BY DEF RoomHoldsOpenSessions
  <2>3. ioc # "destroyed" => \A s \in Sessions, other \in Streams : UpToDate(s, other)'
    <3> SUFFICES ASSUME ioc # "destroyed", NEW s \in Sessions, NEW other \in Streams
                 PROVE  UpToDate(s, other)'
      OBVIOUS
    <3>1. CASE other = id
      BY <2>1, <2>2, <3>1
    <3>2. CASE other # id
      BY <2>1, <3>2
    <3> QED BY <3>1, <3>2
  <2> QED BY <2>1, <2>3
<1>5. ASSUME NEW id \in Streams, CopyRoom(id) PROVE PostInv'
  <2>1. /\ UNCHANGED <<ioc, packet, got, stale, conn, watches>>
        /\ \A other \in Streams : other # id => pc'[other] = pc[other] /\ todo'[other] = todo[other]
        /\ pc[id] = "copy" /\ pc'[id] = "send" /\ todo'[id] = room[id]
    BY <1>5 DEF CopyRoom, sessionVars, postVars, TypeOK
  <2>2. ioc # "destroyed" => \A s \in Sessions :
          /\ s \notin todo[id]
          /\ s \in room[id] <=> watches[s] = id /\ conn[s] = "open"
    BY <2>1 DEF RoomHoldsOpenSessions, LifeInv, TodoInv
  <2>3. ioc # "destroyed" => \A s \in Sessions, other \in Streams : UpToDate(s, other)'
    <3> SUFFICES ASSUME ioc # "destroyed", NEW s \in Sessions, NEW other \in Streams
                 PROVE  UpToDate(s, other)'
      OBVIOUS
    <3>1. CASE other = id
      BY <2>1, <2>2, <3>1
    <3>2. CASE other # id
      BY <2>1, <3>2
    <3> QED BY <3>1, <3>2
  <2> QED BY <2>1, <2>3
<1>6. ASSUME NEW id \in Streams, NEW s \in Sessions, SendTo(id, s) PROVE PostInv'
  <2>1. /\ UNCHANGED <<ioc, pc, packet, conn, watches>>
        /\ s \in todo[id] /\ pc[id] = "send" /\ watches[s] = id
        /\ todo' = [todo EXCEPT ![id] = todo[id] \ {s}]
    BY <1>6, SendToEffect DEF TodoInv
  <2>2. \A r \in Sessions, other \in Streams :
          r \in todo'[other] <=> r \in todo[other] /\ ~(r = s /\ other = id)
    BY <2>1 DEF TypeOK
  <2>3. CASE UNCHANGED <<got, stale>> /\ (ioc = "destroyed" \/ ~Alive(s))
    BY <2>1, <2>2, <2>3 DEF Alive
  <2>4. CASE /\ Alive(s) /\ ioc # "destroyed"
             /\ got' = [got EXCEPT ![s] = Append(got[s], packet[id])]
             /\ stale' = [stale EXCEPT ![s] = IF conn[s] = "left" THEN stale[s] + 1 ELSE stale[s]]
    <3>1. conn[s] \in {"open", "left"}
      BY <2>1, <2>4 DEF TodoInv, LifeInv, Alive
    <3>2. got'[s] # <<>> /\ got'[s][Len(got'[s])] = packet[id]
      <4>1. got[s] \in Seq(Nat) /\ packet[id] \in Nat /\ got'[s] = Append(got[s], packet[id])
        BY <2>4 DEF TypeOK
      <4> QED BY <4>1, AppendedLast
    <3>3. \A r \in Sessions : r # s => got'[r] = got[r] /\ stale'[r] = stale[r]
      BY <2>4 DEF TypeOK
    <3>4. conn[s] = "open" => stale'[s] = 0
      BY <2>4 DEF TypeOK
    <3>5. ASSUME NEW r \in Sessions, NEW other \in Streams PROVE UpToDate(r, other)'
      <4>1. CASE r # s
        BY <2>1, <2>2, <2>4, <3>3, <4>1
      <4>2. CASE r = s /\ other = id
        BY <2>1, <2>2, <3>2, <4>2
      <4>3. CASE r = s /\ other # id
        BY <2>1, <2>2, <4>3 DEF TodoInv
      <4> QED BY <4>1, <4>2, <4>3
    <3> QED BY <2>1, <3>1, <3>3, <3>4, <3>5
  <2> QED BY <1>6, <2>3, <2>4, SendToEffect
<1>7. ASSUME Signal \/ RunReturns \/ MainReturns \/ (\E id \in Streams : StopStream(id))
               \/ UNCHANGED vars
      PROVE  PostInv'
  <2>1. UNCHANGED <<pc, packet, todo, got, stale, watches>>
    BY <1>7 DEF Signal, RunReturns, MainReturns, StopStream, vars, streamVars, sessionVars, postVars
  <2>2. \A s \in Sessions : conn'[s] \in {"new", "accepting", "open"} => conn[s] = conn'[s]
    BY <1>7 DEF Signal, RunReturns, MainReturns, StopStream, vars, sessionVars, TypeOK
  <2>3. ioc' # "destroyed" => ioc # "destroyed"
    BY <1>7 DEF Signal, RunReturns, MainReturns, StopStream, vars
  <2> QED BY <2>1, <2>2, <2>3
<1> QED
  BY <1>1, <1>2, <1>3, <1>4, <1>5, <1>6, <1>7
     DEF Next, SessionStep, StreamStep, MainStep

LEMMA StepGot == ServerInv /\ [Next]_vars => GapFree' /\ AtMostOneStale'
<1> SUFFICES ASSUME ServerInv, [Next]_vars PROVE GapFree' /\ AtMostOneStale'
  OBVIOUS
<1> USE DEF ServerInv
<1>1. ASSUME NEW id \in Streams, NEW s \in Sessions, SendTo(id, s)
      PROVE  GapFree' /\ AtMostOneStale'
  <2>1. CASE UNCHANGED <<got, stale>>
    BY <2>1 DEF GapFree, AtMostOneStale
  <2>2. CASE /\ Alive(s) /\ ioc # "destroyed"
             /\ got' = [got EXCEPT ![s] = Append(got[s], packet[id])]
             /\ stale' = [stale EXCEPT ![s] = IF conn[s] = "left" THEN stale[s] + 1 ELSE stale[s]]
    <3>1. stale[s] = 0 /\ GotUpTo(s, packet[id] - 1)
      BY <1>1, <2>2, SendToEffect DEF PostInv, UpToDate
    <3>2. got[s] \in Seq(Nat) /\ packet[id] \in Nat /\ got'[s] = Append(got[s], packet[id])
      BY <2>2 DEF TypeOK
    <3>3. \A i \in 1 .. Len(got'[s]) - 1 : got'[s][i + 1] = got'[s][i] + 1
      <4> TAKE i \in 1 .. Len(got'[s]) - 1
      <4>1. /\ Len(got'[s]) = Len(got[s]) + 1 /\ Len(got[s]) \in Nat
            /\ got'[s][Len(got[s]) + 1] = packet[id]
            /\ \A j \in 1 .. Len(got[s]) : got'[s][j] = got[s][j]
        BY <3>2, AppendedLast
      <4>2. i \in 1 .. Len(got[s])
        BY <4>1
      <4>3. CASE i = Len(got[s])
        <5>1. got[s] # <<>> /\ got[s][i] = packet[id] - 1
          BY <3>1, <3>2, <4>2, <4>3 DEF GotUpTo
        <5> QED BY <3>2, <4>1, <4>2, <4>3, <5>1
      <4>4. CASE i # Len(got[s])
        <5>1. i \in 1 .. Len(got[s]) - 1 /\ i + 1 \in 1 .. Len(got[s])
          BY <4>1, <4>2, <4>4
        <5> QED BY <4>1, <4>2, <5>1 DEF GapFree
      <4> QED BY <4>3, <4>4
    <3>4. \A other \in Sessions : other # s => got'[other] = got[other] /\ stale'[other] = stale[other]
      BY <2>2 DEF TypeOK
    <3>5. stale'[s] <= 1
      BY <2>2, <3>1 DEF TypeOK
    <3>6. GapFree'
      BY <3>3, <3>4 DEF GapFree
    <3>7. AtMostOneStale'
      BY <3>4, <3>5 DEF AtMostOneStale
    <3> QED BY <3>6, <3>7
  <2> QED BY <1>1, <2>1, <2>2, SendToEffect
<1>2. CASE \A id \in Streams, s \in Sessions : ~SendTo(id, s)
  BY <1>2, PostFrame DEF GapFree, AtMostOneStale
<1> QED BY <1>1, <1>2

-----------------------------------------------------------------------------
(* The inductive invariant of the server. *)
THEOREM ServerInvariant == Spec => []ServerInv
<1>1. ServerInv /\ [Next]_vars => ServerInv'
  BY StepType, StepLife, StepRoom, StepTodo, StepPost, StepGot DEF ServerInv
<1> QED BY InitInv, <1>1, PTL DEF Spec

(* Every variable of the server keeps to its values, and no stream counts  *)
(* more packets than it has.                                               *)
THEOREM TypeCorrect == Spec => []TypeOK
<1>1. ServerInv => TypeOK
  BY DEF ServerInv
<1> QED BY ServerInvariant, <1>1, PTL

(* sessions_map_ holds exactly the sessions between OnEventOpened and      *)
(* OnEventClosed, each under the stream it asked for, however many streams *)
(* and sessions there are.                                                 *)
THEOREM RoomExact == Spec => []RoomHoldsOpenSessions
<1>1. ServerInv => RoomHoldsOpenSessions
  BY DEF ServerInv
<1> QED BY ServerInvariant, <1>1, PTL

(* What WsStreamServer::Send posts to a session has no gap, repetition or  *)
(* swap, although the room is looked at once and copied once more without  *)
(* a lock between them and sent to after it.                               *)
THEOREM PostsGapFree == Spec => []GapFree
<1>1. ServerInv => GapFree
  BY DEF ServerInv
<1> QED BY ServerInvariant, <1>1, PTL

(* The copy that WsStreamRoom::Send works from never costs a session more  *)
(* than one packet after it has left.                                      *)
THEOREM OneStalePost == Spec => []AtMostOneStale
<1>1. ServerInv => AtMostOneStale
  BY DEF ServerInv
<1> QED BY ServerInvariant, <1>1, PTL

-----------------------------------------------------------------------------
(* The room, the copies of it and the life of a session are what RoomFeed  *)
(* says, whatever the streams and the other sessions do.                   *)
LEMMA FeedStepMaps ==
  ASSUME NEW s \in Sessions, ServerInv, ServerInv', [Next]_vars
  PROVE  [Feed(s)!Next]_(Feed(s)!feed)
<1>0. /\ IsMember(s) = (PhaseInRoom(s) = "in")
      /\ IsMember(s)' = (PhaseInRoom(s)' = "in")
  <2> USE DEF ServerInv, TypeOK, LifeInv, RoomHoldsOpenSessions, IsMember
  <2>1. IsMember(s) <=> conn[s] = "open"
    <3>1. conn[s] = "open" => watches[s] \in Streams /\ ioc # "destroyed"
      OBVIOUS
    <3>2. \A id \in Streams : s \in room[id] /\ ioc # "destroyed" => conn[s] = "open"
      OBVIOUS
    <3> QED BY <3>1, <3>2
  <2>2. IsMember(s)' <=> conn'[s] = "open"
    <3>1. conn'[s] = "open" => watches'[s] \in Streams /\ ioc' # "destroyed"
      OBVIOUS
    <3>2. \A id \in Streams : s \in room'[id] /\ ioc' # "destroyed" => conn'[s] = "open"
      OBVIOUS
    <3> QED BY <3>1, <3>2
  <2> QED BY <2>1, <2>2 DEF PhaseInRoom
<1> SUFFICES Feed(s)!Next \/ UNCHANGED <<PhaseInRoom(s), IsCopied(s), got[s]>>
  BY <1>0 DEF Feed!feed
<1> USE DEF ServerInv, TypeOK, LifeInv, Phase, PhaseInRoom, IsCopied, HandlersRun, Feed!Next
<1>1. ASSUME NEW r \in Sessions, SessionStep(r)
      PROVE  Feed(s)!Next \/ UNCHANGED <<PhaseInRoom(s), IsCopied(s), got[s]>>
  <2>1. ASSUME NEW id \in Streams, DoSessionWebSocket(r, id)
        PROVE  Feed(s)!Leave \/ UNCHANGED <<PhaseInRoom(s), IsCopied(s), got[s]>>
    BY <1>0, <2>1 DEF DoSessionWebSocket, streamVars, postVars, Feed!Leave
  <2>2. CASE OnEventOpened(r)
    <3>1. Feed(s)!Join \/ UNCHANGED <<PhaseInRoom(s), IsCopied(s), got[s]>>
      BY <1>0, <2>2 DEF OnEventOpened, streamVars, postVars, Feed!Join
    <3> QED BY <3>1
  <2>3. CASE OnEventClosed(r)
    <3>1. Feed(s)!Leave \/ UNCHANGED <<PhaseInRoom(s), IsCopied(s), got[s]>>
      BY <1>0, <2>3 DEF OnEventClosed, streamVars, postVars, Feed!Leave
    <3> QED BY <3>1
  <2>4. CASE Released(r)
    BY <2>4 DEF Released, streamVars, postVars
  <2> QED BY <1>1, <2>1, <2>2, <2>3, <2>4 DEF SessionStep
<1>2. ASSUME NEW id \in Streams, StreamStep(id)
      PROVE  Feed(s)!Next \/ UNCHANGED <<PhaseInRoom(s), IsCopied(s), got[s]>>
  <2>1. CASE ReadPacket(id) \/ Publish(id) \/ CheckEmpty(id) \/ SendDone(id)
    BY <2>1 DEF ReadPacket, Publish, CheckEmpty, SendDone, sessionVars, postVars
  <2>2. CASE CopyRoom(id)
    <3>1. Feed(s)!Copy \/ UNCHANGED <<PhaseInRoom(s), IsCopied(s), got[s]>>
      BY <1>0, <2>2 DEF CopyRoom, sessionVars, postVars, TodoInv, RoomHoldsOpenSessions, Feed!Copy
    <3> QED BY <3>1
  <2>3. ASSUME NEW r \in Sessions, SendTo(id, r)
        PROVE  Feed(s)!Post \/ Feed(s)!Skip \/ UNCHANGED <<PhaseInRoom(s), IsCopied(s), got[s]>>
    <3>0. UNCHANGED <<ioc, conn>> /\ pc[id] = "send" /\ r \in todo[id]
      BY <2>3 DEF SendTo, sessionVars
    <3>1. todo' = [todo EXCEPT ![id] = @ \ {r}]
      BY <2>3 DEF SendTo
    <3>2. UNCHANGED PhaseInRoom(s)
      BY <3>0
    <3>3. CASE r # s
      BY <2>3, <3>0, <3>1, <3>2, <3>3 DEF SendTo, postVars
    <3>4. CASE r = s
      <4>1. \A other \in Streams : s \in todo[other] => other = id
        BY <3>0, <3>4 DEF TodoInv
      <4>2. ~IsCopied(s)'
        BY <3>0, <3>1, <3>4, <4>1
      <4>3. CASE ioc = "destroyed"
        BY <2>3, <3>2, <3>4, <4>2, <4>3 DEF SendTo
      <4>4. CASE ioc # "destroyed" /\ Alive(s)
        <5>1. got[s] \in Seq(Nat) /\ got'[s] = Append(got[s], packet[id])
          BY <2>3, <3>4, <4>4 DEF SendTo
        <5>2. Len(got'[s]) = Len(got[s]) + 1
          BY <5>1
        <5> QED BY <1>0, <3>0, <3>2, <3>4, <4>2, <4>4, <5>2 DEF Feed!Post
      <4>5. CASE ioc # "destroyed" /\ ~Alive(s)
        <5>1. got' = got /\ PhaseInRoom(s) = "left"
          BY <2>3, <3>0, <3>4, <4>5, NoStreamAssumption DEF SendTo, Alive, TodoInv
        <5> QED BY <1>0, <3>0, <3>2, <3>4, <4>2, <4>5, <5>1 DEF Feed!Skip
      <4> QED BY <4>3, <4>4, <4>5
    <3> QED BY <3>3, <3>4
  <2> QED BY <1>2, <2>1, <2>2, <2>3 DEF StreamStep
<1>3. CASE RunReturns
  <2>1. got' = got /\ ~IsCopied(s)'
    BY <1>3 DEF RunReturns, postVars
  <2>2. CASE conn[s] = "new"
    <3>1. UNCHANGED PhaseInRoom(s)
      BY <1>3, <2>2 DEF RunReturns
    <3>2. ~IsCopied(s)
      BY <2>2, NoStreamAssumption DEF TodoInv
    <3> QED BY <2>1, <3>1, <3>2
  <2>3. CASE conn[s] # "new"
    <3>1. PhaseInRoom(s)' = "left"
      BY <1>3, <2>3 DEF RunReturns
    <3> QED BY <1>0, <2>1, <3>1 DEF Feed!Down
  <2> QED BY <2>2, <2>3
<1>4. CASE MainReturns
  BY <1>4 DEF MainReturns, streamVars
<1>5. ASSUME NEW id \in Streams, ThreadEnds(id) \/ StopStream(id)
      PROVE  UNCHANGED <<PhaseInRoom(s), IsCopied(s), got[s]>>
  BY <1>5 DEF ThreadEnds, StopStream, streamVars, sessionVars, postVars
<1>6. CASE Signal \/ UNCHANGED vars
  BY <1>6 DEF Signal, vars, streamVars, sessionVars, postVars
<1> QED BY <1>1, <1>2, <1>3, <1>4, <1>5, <1>6 DEF Next, MainStep

(* To each of its sessions, whatever the others and the streams do, the    *)
(* server is the room that WsSession takes it to be.                       *)
THEOREM ServesRoomFeed ==
  ASSUME NEW s \in Sessions
  PROVE  Spec => Feed(s)!Spec
<1>1. Init => Feed(s)!Init
  BY DEF Init, Feed!Init, PhaseInRoom, IsMember, IsCopied
<1> QED BY <1>1, FeedStepMaps, ServerInvariant, PTL DEF Spec, Feed!Spec
=============================================================================
