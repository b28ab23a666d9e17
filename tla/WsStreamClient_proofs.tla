-------------------------- MODULE WsStreamClient_proofs --------------------------
(***************************************************************************)
(* The desktop client for every set of waiting times: the window is sized, *)
(* a null window is met only before it is made, and the io_context and the *)
(* client outlive the ui thread.                                           *)
(***************************************************************************)
EXTENDS WsStreamClient, TLAPS

(* Every waiting time, negative ones included, gives a number of rounds. *)
LEMMA RoundsAreNat == \A secs \in UiWaitSecs : Rounds(secs) \in Nat
BY UiWaitSecsAssumption DEF Rounds

LEMMA InitInv == Init => ClientInv
BY RoundsAreNat
   DEF Init, ClientInv, TypeOK, Operation, Placed, FirstFrame, OpensSized, UiMade,
       NullOnlyBefore, ContextLives, StopsLiveContext, UiIsOver

-----------------------------------------------------------------------------
(* main(), but for the handlers it runs *)

LEMMA MainStep ==
  ASSUME ClientInv,
         Http \/ Open \/ IocRun \/ Signal \/ RunReturns \/ Joined
  PROVE  ClientInv'
<1> USE DEF ClientInv, process, client, shared
<1>1. TypeOK'
  BY DEF TypeOK, Operation, Http, Open, IocRun, Signal, RunReturns, Released,
         Joined, Handles, Goes
<1>2. Placed'
  BY DEF Placed, Http, Open, IocRun, Signal, RunReturns, Joined, Handles, Goes
<1>3. FirstFrame' /\ OpensSized'
  BY DEF FirstFrame, OpensSized, Http, Open, IocRun, Signal, RunReturns, Joined,
         Handles, Goes
<1>4. UiMade' /\ NullOnlyBefore'
  BY DEF UiMade, NullOnlyBefore, Placed, Http, Open, IocRun, Signal, RunReturns,
         Joined, Handles, Goes
<1>5. ContextLives' /\ StopsLiveContext'
  BY DEF ContextLives, StopsLiveContext, UiIsOver, Placed, Http, Open, IocRun,
         Signal, RunReturns, Released, Joined, Handles, Goes
<1> QED BY <1>1, <1>2, <1>3, <1>4, <1>5

-----------------------------------------------------------------------------
(* The handlers of the connection *)

Connects == DoResolve \/ OnResolve \/ OnConnect \/ OnHandshake \/ Fails

(* They leave everything but the outstanding operation alone. *)
LEMMA ConnectStep ==
  ASSUME ClientInv, Connects
  PROVE  ClientInv'
<1> USE DEF Connects, DoResolve, OnResolve, OnConnect, OnHandshake, Fails, Completes
<1>1. UNCHANGED <<process, recv_from_key_frame, recv, ui, n, shared>>
  OBVIOUS
<1>2. conn' \in Operation \union {"none", "failed"}
  BY DEF Operation
<1> QED
  BY <1>1, <1>2
     DEF ClientInv, process, shared, TypeOK, Placed, FirstFrame, OpensSized,
         UiMade, NullOnlyBefore, ContextLives, StopsLiveContext, UiIsOver

-----------------------------------------------------------------------------
(* OnEventRecv *)

Receives == OnReadThrows \/ Update \/ SetOk \/ SetParams

LEMMA ReceiveStep ==
  ASSUME ClientInv,
         Receives \/ \E key \in BOOLEAN : OnRead(key)
  PROVE  ClientInv'
<1> USE DEF ClientInv, process, client, shared
<1>1. TypeOK'
  <2>1. CASE Receives
    BY <2>1 DEF TypeOK, Receives, OnReadThrows, Update, SetOk, SetParams, Dies,
               Handles, Goes
  <2>2. CASE \E key \in BOOLEAN : OnRead(key)
    <3>1. PICK key \in BOOLEAN : OnRead(key)
      BY <2>2
    <3>2. recv_from_key_frame' \in BOOLEAN
      BY <3>1 DEF OnRead
    <3>3. UNCHANGED <<main, ioc, died, conn, ui, n, ui_ok, ui_, ui_params>>
      BY <3>1 DEF OnRead
    <3>4. recv' \in {"none", "update", "lock", "params"}
      BY <3>1 DEF OnRead, TypeOK
    <3> QED BY <3>2, <3>3, <3>4 DEF TypeOK
  <2> QED BY <2>1, <2>2
<1>2. Placed'
  BY DEF Placed, Receives, OnRead, OnReadThrows, Update, SetOk, SetParams, Dies,
         Handles, Goes
<1>3. FirstFrame' /\ OpensSized'
  BY DEF TypeOK, FirstFrame, OpensSized, Receives, OnRead, OnReadThrows, Update,
         SetOk, SetParams, Dies, Handles, Goes
<1>4. UiMade' /\ NullOnlyBefore'
  BY DEF TypeOK, Placed, UiMade, NullOnlyBefore, Receives, OnRead, OnReadThrows,
         Update, SetOk, SetParams, Dies, Handles, Goes
<1>5. ContextLives' /\ StopsLiveContext'
  BY DEF ContextLives, StopsLiveContext, UiIsOver, Receives, OnRead,
         OnReadThrows, Update, SetOk, SetParams, Dies, Handles, Goes
<1> QED BY <1>1, <1>2, <1>3, <1>4, <1>5

-----------------------------------------------------------------------------
(* The ui thread *)

LEMMA UiStep ==
  ASSUME ClientInv, UiGoes \/ CloseWindow
  PROVE  ClientInv'
<1> USE DEF ClientInv, process, client, shared, UiGoes
<1>1. TypeOK'
  <2>1. CASE Wait
    BY <2>1 DEF TypeOK, Wait
  <2>2. CASE Make
    BY <2>2 DEF TypeOK, Make
  <2>3. CASE WaitOver \/ Check \/ OpenWindow \/ CloseWindow
    BY <2>3 DEF TypeOK, WaitOver, Check, OpenWindow, CloseWindow
  <2>4. CASE UiExit
    BY <2>4 DEF TypeOK, UiExit
  <2> QED BY <2>1, <2>2, <2>3, <2>4
<1>2. Placed'
  BY DEF Placed, Wait, WaitOver, Check, Make, OpenWindow, CloseWindow, UiExit,
         UiIsOver, Goes
<1>3. FirstFrame' /\ OpensSized'
  BY DEF FirstFrame, OpensSized, MutexIsFree, Wait, WaitOver, Check, Make,
         OpenWindow, CloseWindow, UiExit, UiIsOver, Goes
<1>4. UiMade' /\ NullOnlyBefore'
  BY DEF UiMade, NullOnlyBefore, Wait, WaitOver, Check, Make, OpenWindow,
         CloseWindow, UiExit, UiIsOver, Goes
<1>5. ContextLives' /\ StopsLiveContext'
  BY DEF ContextLives, StopsLiveContext, Wait, WaitOver, Check, Make,
         OpenWindow, CloseWindow, UiExit, UiIsOver, Goes
<1> QED BY <1>1, <1>2, <1>3, <1>4, <1>5

LEMMA StutterInv ==
  ASSUME ClientInv, UNCHANGED vars
  PROVE  ClientInv'
BY DEF vars, process, client, shared, ClientInv, TypeOK, Placed, FirstFrame,
       OpensSized, UiMade, NullOnlyBefore, ContextLives, StopsLiveContext, UiIsOver

-----------------------------------------------------------------------------
(* The inductive invariant: where the two threads are and what they have   *)
(* set (ws_stream_client.cc:84-160, main.cc:139-164).                      *)
THEOREM ClientInvariant == Spec => []ClientInv
<1>1. ClientInv /\ [Next]_vars => ClientInv'
  <2> SUFFICES ASSUME ClientInv, [Next]_vars
               PROVE  ClientInv'
    OBVIOUS
  <2>1. CASE Http \/ Open \/ IocRun \/ Signal \/ RunReturns \/ Joined
    BY <2>1, MainStep
  <2>2. CASE Connects
    BY <2>2, ConnectStep
  <2>3. CASE Receives \/ \E key \in BOOLEAN : OnRead(key)
    BY <2>3, ReceiveStep
  <2>4. CASE UiGoes \/ CloseWindow
    BY <2>4, UiStep
  <2>5. CASE UNCHANGED vars
    BY <2>5, StutterInv
  <2> QED
    BY <2>1, <2>2, <2>3, <2>4, <2>5 DEF Next, MainGoes, Connects, Receives
<1> QED BY <1>1, InitInv, PTL DEF Spec

(* The window is opened with the size of the first frame.                  *)
(* (ws_stream_client.cc:102-108, 152-155)                                  *)
THEOREM WindowIsSized == Spec => []OpensSized
<1>1. ClientInv => OpensSized
  BY DEF ClientInv
<1> QED BY <1>1, ClientInvariant, PTL

(* A frame meets a null window only before it is made, or when the ui      *)
(* thread has given up (ws_stream_client.cc:148-150).                      *)
THEOREM NullIsEarly == Spec => []NullOnlyBefore
<1>1. ClientInv => NullOnlyBefore
  BY DEF ClientInv
<1> QED BY <1>1, ClientInvariant, PTL

(* The io_context that the ui thread stops exists, and main() returns      *)
(* after the thread (ws_stream_client.cc:84-86, 113; main.cc:139-164).     *)
THEOREM ContextOutlivesUi == Spec => []StopsLiveContext
<1>1. ClientInv => StopsLiveContext
  BY DEF ClientInv
<1> QED BY <1>1, ClientInvariant, PTL
=============================================================================
