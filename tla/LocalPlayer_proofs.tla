--------------------------- MODULE LocalPlayer_proofs ---------------------------
(***************************************************************************)
(* Proofs about the thread that reads a stream, for every owner that       *)
(* starts and stops it, and about the local player, which is such an owner *)
(* and shares the frames of the thread with the window.                    *)
(***************************************************************************)
EXTENDS LocalPlayer, TLAPS

LEMMA ThreadStarts == ThreadInit => ThreadInv
<1> SUFFICES ASSUME ThreadInit PROVE ThreadInv
  OBVIOUS
<1>1. ThreadTypeOK
  BY DEF ThreadInit, ThreadTypeOK, Place, Event
<1>2. StopIsFinal /\ EndIsAnnounced /\ OneMoreOpen
  BY DEF ThreadInit, StopIsFinal, EndIsAnnounced, OneMoreOpen
<1>3. QED
  BY <1>1, <1>2 DEF ThreadInit, ThreadInv, joinable

(* Every step of the thread and its owner keeps the inductive invariant:   *)
(* one case per action.                                                    *)
LEMMA ThreadStep == ThreadInv /\ [ThreadNext]_stream => ThreadInv'
<1> USE DEF ThreadInv, ThreadTypeOK, joinable, StopIsFinal, EndIsAnnounced,
            OneMoreOpen, Place, Event, config, DispatchEvent,
            RunReturns, Throws, Join, Fails
<1> SUFFICES ASSUME ThreadInv, [ThreadNext]_stream PROVE ThreadInv'
  OBVIOUS
<1>1. CASE Start            BY <1>1 DEF Start
<1>2. CASE Stop             BY <1>2 DEF Stop
<1>3. CASE StopJoins        BY <1>3 DEF StopJoins
<1>4. CASE Open             BY <1>4 DEF Open
<1>5. CASE Opened           BY <1>5 DEF Opened
<1>6. CASE Loop             BY <1>6 DEF Loop
<1>7. CASE RunningCallback  BY <1>7 DEF RunningCallback
<1>8. CASE GetPacket        BY <1>8 DEF GetPacket
<1>9. CASE GetFrame         BY <1>9 DEF GetFrame
<1>10. CASE Close           BY <1>10 DEF Close
<1>11. CASE Closed          BY <1>11 DEF Closed
<1>12. CASE Eof             BY <1>12 DEF Eof
<1>13. CASE Error           BY <1>13 DEF Error
<1>14. CASE UNCHANGED stream   BY <1>14 DEF stream
<1>15. QED
  BY <1>1, <1>2, <1>3, <1>4, <1>5, <1>6, <1>7, <1>8, <1>9, <1>10, <1>11,
     <1>12, <1>13, <1>14 DEF ThreadNext, Run

(* The invariant holds of every behaviour of the thread and its owner. *)
THEOREM ThreadInvariant == ThreadSpec => []ThreadInv
  BY ThreadStarts, ThreadStep, PTL DEF ThreadSpec

(* Once Stop() has returned, the thread is joined and dispatches nothing. *)
THEOREM StopFinal == ThreadSpec => []StopIsFinal
<1>1. ThreadInv => StopIsFinal
  BY DEF ThreadInv
<1>2. QED
  BY <1>1, ThreadInvariant, PTL

(* A thread that has ended has dispatched CLOSED or ERROR. *)
THEOREM EndAnnounced == ThreadSpec => []EndIsAnnounced
<1>1. ThreadInv => EndIsAnnounced
  BY DEF ThreadInv
<1>2. QED
  BY <1>1, ThreadInvariant, PTL

(* After Stop() has been called at most one more stream is opened. *)
THEOREM AtMostOneMoreOpen == ThreadSpec => []OneMoreOpen
<1>1. ThreadInv => OneMoreOpen
  BY DEF ThreadInv
<1>2. QED
  BY <1>1, ThreadInvariant, PTL

-----------------------------------------------------------------------------
(* The local player.  A step of it is a step of the thread or of its       *)
(* owner, or leaves both where they are.                                   *)
LEMMA StepMaps == [Next]_vars => [ThreadNext]_stream
<1> SUFFICES ASSUME [Next]_vars PROVE ThreadNext \/ UNCHANGED stream
  OBVIOUS
<1>1. CASE StreamSteps
  BY <1>1 DEF StreamSteps, GoesOn, GotFrame, Update, GotFirst, SetFirst, Unwind, Looped, Failed,
              StreamClosed, ThreadNext, Run
<1>2. CASE StartStream \/ StopStream \/ Return
  BY <1>2 DEF StartStream, StopStream, Return, ThreadNext
<1>3. CASE \/ Waited \/ Look \/ OpenWindow \/ Draw \/ ReadFrame \/ Drawn \/ CloseWindow
           \/ UNCHANGED vars
  BY <1>3 DEF Waited, Look, OpenWindow, Draw, ReadFrame, Drawn, CloseWindow, vars
<1> QED BY <1>1, <1>2, <1>3 DEF Next

(* The thread in the local player is a StreamThread. *)
THEOREM UsesStreamThread == Spec => ThreadSpec
<1>1. Init => ThreadInit
  BY DEF Init
<1> QED BY <1>1, StepMaps, PTL DEF Spec, ThreadSpec

LEMMA InitInv == Init => LocalInv
<1> SUFFICES ASSUME Init PROVE LocalInv
  OBVIOUS
<1>1. ThreadInv
  BY ThreadStarts DEF Init
<1>2. TypeOK
  BY <1>1 DEF Init, TypeOK, Pointer, ThreadInv
<1>3. CallbackInv /\ MainInv /\ LiveHasStream /\ DanglesOnlyBetween
  BY DEF Init, ThreadInit, CallbackInv, MainInv, LiveHasStream, DanglesOnlyBetween
<1> QED BY <1>1, <1>2, <1>3 DEF LocalInv

LEMMA StepInv == LocalInv /\ [Next]_vars => LocalInv'
<1> SUFFICES ASSUME LocalInv, [Next]_vars PROVE LocalInv'
  OBVIOUS
<1>0. ThreadInv' /\ ThreadTypeOK'
  BY ThreadStep, StepMaps DEF LocalInv, ThreadInv
<1> USE DEF LocalInv, TypeOK, Pointer, CallbackInv, MainInv, LiveHasStream, DanglesOnlyBetween,
            stream, pointers, Reads, Freed, FreeFrame, ThreadInv, ThreadTypeOK, joinable,
            Throws, config, RunReturns, Fails, DispatchEvent, StopIsFinal
<1>1. CASE GoesOn
  BY <1>0, <1>1 DEF GoesOn, Open, Opened, Loop, GetPacket, Close
<1>2. CASE GotFrame
  BY <1>0, <1>2 DEF GotFrame, GetFrame
<1>3. CASE Update
  BY <1>0, <1>3 DEF Update
<1>4. CASE GotFirst \/ SetFirst
  <2>1. CASE GotFirst
    BY <1>0, <2>1 DEF GotFirst
  <2>2. CASE SetFirst
    BY <1>0, <2>2 DEF SetFirst
  <2> QED BY <1>4, <2>1, <2>2
<1>5. CASE Unwind
  BY <1>0, <1>5 DEF Unwind
<1>6. CASE Looped
  BY <1>0, <1>6 DEF Looped, Eof
<1>7. CASE Failed
  BY <1>0, <1>7 DEF Failed, Error
<1>8. CASE StreamClosed
  BY <1>0, <1>8 DEF StreamClosed, Closed
<1>9. CASE StartStream
  BY <1>0, <1>9 DEF StartStream, Start
<1>10. CASE StopStream
  BY <1>0, <1>10 DEF StopStream, Stop, Join
<1>11. CASE Return
  BY <1>0, <1>11 DEF Return, StopJoins
<1>12. CASE Waited \/ Look \/ CloseWindow
  BY <1>0, <1>12 DEF Waited, Look, CloseWindow
<1>13. CASE OpenWindow
  BY <1>0, <1>13 DEF OpenWindow
<1>14. CASE Draw \/ ReadFrame \/ Drawn
  BY <1>0, <1>14 DEF Draw, ReadFrame, Drawn
<1>15. CASE UNCHANGED vars
  BY <1>0, <1>15 DEF vars
<1> QED
  BY <1>1, <1>2, <1>3, <1>4, <1>5, <1>6, <1>7, <1>8, <1>9, <1>10, <1>11, <1>12, <1>13,
     <1>14, <1>15 DEF Next, StreamSteps

(* The inductive invariant of the local player. *)
THEOREM LocalInvariant == Spec => []LocalInv
  BY InitInv, StepInv, PTL DEF Spec

(* GlfwFrame::frame_ dangles only from the destruction of the Stream to    *)
(* the callback of LOOP, or once the thread has ended.                     *)
THEOREM DanglingIsShort == Spec => []DanglesOnlyBetween
<1>1. LocalInv => DanglesOnlyBetween
  BY DEF LocalInv
<1> QED BY <1>1, LocalInvariant, PTL

(* When main() returns, no callback that captures its locals is under way, *)
(* and none will be: the thread is gone.                                   *)
THEOREM LocalsOutlive == Spec => []CapturesOutlive
<1>1. LocalInv => CapturesOutlive
  BY DEF LocalInv, CapturesOutlive, CallbackInv, MainInv, Reads, ThreadInv, StopIsFinal,
         Throws
<1> QED BY <1>1, LocalInvariant, PTL
=============================================================================
