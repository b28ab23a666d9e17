--------------------------- MODULE StreamPlayer_proofs ---------------------------
(***************************************************************************)
(* Proofs about a stream of the proxy, its handler and its preview.  Each  *)
(* part of the handler's invariant is kept by each of its steps; the steps *)
(* of main(), the player and the ui thread are such steps, or leave the    *)
(* handler alone.                                                          *)
(***************************************************************************)
EXTENDS StreamPlayer, TLAPS

(* What happens to the handler outside of its own steps: its callback      *)
(* returns, main() starts or stops the thread, or the process dies in the  *)
(* callback.                                                               *)
CallbackStep == Goes /\ level = Callback /\ CallbackReturns
MainSteps == /\ (T!Start /\ pc = "none") \/ T!Stop \/ UNCHANGED stream
             /\ UNCHANGED handler
NullDies == /\ Goes /\ level > 0
            /\ died' = "null"
            /\ UNCHANGED <<stream, filters, made, codecs, level, phase, packets, info, history>>

AnyStep == HandlerSteps \/ CallbackStep \/ StopJoins \/ MainSteps \/ NullDies

-----------------------------------------------------------------------------
(* A level returns to one above it, which is an encoder, or out. *)
LEMMA Returned ==
  ASSUME NEW l \in 1..Callback, Return(l), Len(filters) \in Nat
  PROVE  /\ level' \in 0..(l - 1) /\ phase' = "recv"
         /\ level' = 0 \/ level' \in Filters({"enc"})
         /\ T!RunningCallback \/ UNCHANGED stream
         /\ level' > 0 => UNCHANGED stream
BY DEF Return, Callback, Filters

(* StreamThread's own steps keep its invariant: one case per action. *)
LEMMA ThreadKept ==
  ASSUME T!ThreadInv, T!ThreadNext \/ UNCHANGED stream
  PROVE  T!ThreadInv'
<1> USE DEF T!ThreadInv, T!ThreadTypeOK, T!joinable, T!StopIsFinal, T!EndIsAnnounced,
            T!OneMoreOpen, T!Place, T!Event, T!config, T!DispatchEvent,
            T!RunReturns, T!Throws, T!Join, T!Fails
<1>1. CASE T!Start            BY <1>1 DEF T!Start
<1>2. CASE T!Stop             BY <1>2 DEF T!Stop
<1>3. CASE T!StopJoins        BY <1>3 DEF T!StopJoins
<1>4. CASE T!Open             BY <1>4 DEF T!Open
<1>5. CASE T!Opened           BY <1>5 DEF T!Opened
<1>6. CASE T!Loop             BY <1>6 DEF T!Loop
<1>7. CASE T!RunningCallback  BY <1>7 DEF T!RunningCallback
<1>8. CASE T!GetPacket        BY <1>8 DEF T!GetPacket
<1>9. CASE T!GetFrame         BY <1>9 DEF T!GetFrame
<1>10. CASE T!Close            BY <1>10 DEF T!Close
<1>11. CASE T!Closed           BY <1>11 DEF T!Closed
<1>12. CASE T!Eof              BY <1>12 DEF T!Eof
<1>13. CASE T!Error            BY <1>13 DEF T!Error
<1>14. CASE UNCHANGED stream  BY <1>14 DEF stream
<1> QED
  BY <1>1, <1>2, <1>3, <1>4, <1>5, <1>6, <1>7, <1>8, <1>9, <1>10, <1>11,
     <1>12, <1>13, <1>14 DEF T!ThreadNext, T!Run

(* Each step is one of the thread, or the thread stays where it is. *)
LEMMA ThreadMaps ==
  ASSUME AnyStep
  PROVE  T!ThreadNext \/ UNCHANGED stream
  BY DEF AnyStep, HandlerSteps, OnRunning, ThreadSteps, Open, Opened, Closed, ReadFails,
     FilterFails, FilterEof, GetOther, GetVideo, SetUpDies, SendBsf, RefuseBsf, SendEncBreaks,
     SendEnc, RecvBsf, RecvEnc, RecvBreaks, Receive, Return, CallbackStep,
     CallbackReturns, StopJoins, MainSteps, NullDies, T!ThreadNext, T!Run, stream

LEMMA ThreadsStep ==
  ASSUME HandlerInv, AnyStep
  PROVE  T!ThreadInv'
BY ThreadMaps, ThreadKept DEF HandlerInv

(* Every step keeps the types. *)
LEMMA TypesStep ==
  ASSUME HandlerInv, AnyStep, T!ThreadInv'
  PROVE  HandlerTypeOK'
<1> USE HandlerAssumption DEF Kinds, Bsfs, HandlerInv, HandlerTypeOK, T!ThreadInv, stream, handler,
            codecs, packets, history, Goes, Callback, Filters, NewStream, StreamGone,
            InitVideoFilters, Reading, Read, Sending, SetUp, Unref, Describe, Receiving,
            Receive
<1>0. Len(filters) \in Nat
  OBVIOUS
<1>a. ASSUME level \in 1..Callback, Return(level)
      PROVE  level' \in 0..(Len(filters) + 1) /\ phase' = "recv"
  BY <1>0, <1>a, Returned
<1>1. CASE ThreadSteps    BY <1>0, <1>1 DEF ThreadSteps
<1>2. CASE Open           BY <1>0, <1>2 DEF Open
<1>3. CASE Opened         BY <1>0, <1>3 DEF Opened
<1>4. CASE Closed         BY <1>0, <1>4 DEF Closed
<1>5. CASE ReadFails      BY <1>0, <1>5 DEF ReadFails
<1>6. CASE FilterFails    BY <1>0, <1>6 DEF FilterFails
<1>7. CASE GetOther       BY <1>0, <1>7 DEF GetOther
<1>8. CASE GetVideo       BY <1>0, <1>8 DEF GetVideo
<1>9. CASE SetUpDies      BY <1>0, <1>9 DEF SetUpDies
<1>10. CASE SendBsf       BY <1>0, <1>10 DEF SendBsf
<1>11. CASE RefuseBsf
  <2>1. level' \in 0..(Len(filters) + 1) /\ phase' = "recv"
    BY <1>0, <1>a, <1>11 DEF RefuseBsf
  <2>2. setUp' \subseteq 1..Len(filters) /\ full' \subseteq Filters(Bsfs)
    BY <1>0, <1>11 DEF RefuseBsf
  <2> QED
    BY <1>0, <1>11, <2>1, <2>2 DEF RefuseBsf
<1>12. CASE SendEncBreaks
  <2>1. level' \in 0..(Len(filters) + 1) /\ phase' = "recv"
    BY <1>0, <1>a, <1>12 DEF SendEncBreaks
  <2>2. setUp' \subseteq 1..Len(filters) /\ full' \subseteq Filters(Bsfs)
    BY <1>0, <1>12 DEF SendEncBreaks
  <2> QED
    BY <1>0, <1>12, <2>1, <2>2 DEF SendEncBreaks
<1>13. CASE SendEnc
  <2>1. held' \in 0..MaxHeld /\ level \in 1..Len(filters)
    BY <1>0, <1>13 DEF SendEnc
  <2> QED
    BY <1>0, <1>13, <2>1 DEF SendEnc
<1>14. CASE RecvBsf       BY <1>0, <1>14 DEF RecvBsf
<1>15. CASE RecvEnc       BY <1>0, <1>15 DEF RecvEnc
<1>16. CASE RecvBreaks
  <2>1. level' \in 0..(Len(filters) + 1) /\ phase' = "recv"
    BY <1>0, <1>a, <1>16 DEF RecvBreaks
  <2>2. setUp' \subseteq 1..Len(filters) /\ full' \subseteq Filters(Bsfs)
    BY <1>0, <1>16 DEF RecvBreaks
  <2> QED
    BY <1>0, <1>16, <2>1, <2>2 DEF RecvBreaks
<1>17. CASE CallbackStep
  <2>1. level' \in 0..(Len(filters) + 1) /\ phase' = "recv"
    BY <1>0, <1>a, <1>17 DEF CallbackStep, CallbackReturns
  <2>2. setUp' \subseteq 1..Len(filters) /\ full' \subseteq Filters(Bsfs)
    BY <1>0, <1>17 DEF CallbackStep, CallbackReturns
  <2> QED
    BY <1>0, <1>17, <2>1, <2>2 DEF CallbackStep, CallbackReturns
<1>18. CASE StopJoins     BY <1>0, <1>18 DEF StopJoins
<1>19. CASE MainSteps     BY <1>0, <1>19 DEF MainSteps
<1>20. CASE NullDies      BY <1>0, <1>20 DEF NullDies
<1>21. CASE FilterEof
  <2>1. setUp' \subseteq 1..Len(filters) /\ full' \subseteq Filters(Bsfs)
    BY <1>0, <1>21 DEF FilterEof
  <2>2. flushed' \in BOOLEAN /\ UNCHANGED <<filters, encoder, held, phase, packet_recv, form,
                                         info, died>>
    BY <1>0, <1>21 DEF FilterEof
  <2>3. level' = 0 /\ packet' = "blank" /\ made' \in {"no", "current", "gone"}
    BY <1>0, <1>21 DEF FilterEof
  <2> QED
    BY <1>0, <2>1, <2>2, <2>3
<1> QED
  BY <1>1, <1>2, <1>3, <1>4, <1>5, <1>6, <1>7, <1>8, <1>9, <1>10, <1>11, <1>12,
     <1>13, <1>14, <1>15, <1>16, <1>17, <1>18, <1>19, <1>20, <1>21
  DEF AnyStep, HandlerSteps, OnRunning

(* Every step keeps packets in their place and accounts for them. *)
LEMMA PacketsStep ==
  ASSUME HandlerInv, AnyStep, HandlerTypeOK'
  PROVE  PacketPlace' /\ PacketsAccounted'
<1> USE HandlerAssumption DEF Kinds, Bsfs, HandlerInv, HandlerTypeOK, PacketPlace, PacketsAccounted
<1> USE DEF stream, handler, codecs, packets, history, Goes, Callback, Filters, NewStream,
            StreamGone, InitVideoFilters, Reading, Read, Sending, SetUp, Unref, Describe,
            Receiving, Receive, Return, T!RunReturns, T!Throws, T!Fails, T!RunningCallback
<1>0. Len(filters) \in Nat
  OBVIOUS
<1>1. CASE ThreadSteps    BY <1>0, <1>1 DEF ThreadSteps, T!Loop, T!Close
<1>2. CASE Open           BY <1>0, <1>2 DEF Open, T!Open
<1>3. CASE Opened         BY <1>0, <1>3 DEF Opened, T!Opened
<1>4. CASE Closed         BY <1>0, <1>4 DEF Closed, T!Closed
<1>5. CASE ReadFails      BY <1>0, <1>5 DEF ReadFails, T!Eof, T!Error
<1>6. CASE FilterFails    BY <1>0, <1>6 DEF FilterFails, T!Error
<1>7. CASE GetOther       BY <1>0, <1>7 DEF GetOther
<1>8. CASE GetVideo       BY <1>0, <1>8 DEF GetVideo
<1>9. CASE SetUpDies      BY <1>0, <1>9 DEF SetUpDies
<1>10. CASE SendBsf       BY <1>0, <1>10 DEF SendBsf
<1>11. CASE RefuseBsf     BY <1>0, <1>11 DEF RefuseBsf
<1>12. CASE SendEncBreaks BY <1>0, <1>12 DEF SendEncBreaks
<1>13. CASE SendEnc       BY <1>0, <1>13 DEF SendEnc
<1>14. CASE RecvBsf       BY <1>0, <1>14 DEF RecvBsf
<1>15. CASE RecvEnc       BY <1>0, <1>15 DEF RecvEnc
<1>16. CASE RecvBreaks    BY <1>0, <1>16 DEF RecvBreaks
<1>17. CASE CallbackStep  BY <1>0, <1>17 DEF CallbackStep, CallbackReturns
<1>18. CASE StopJoins     BY <1>0, <1>18 DEF StopJoins, T!StopJoins
<1>19. CASE MainSteps     BY <1>0, <1>19 DEF MainSteps, T!Start, T!Stop, T!Join
<1>20. CASE NullDies      BY <1>0, <1>20 DEF NullDies
<1>21. CASE FilterEof
  <2>1. level' = 0 /\ packet' = "blank" /\ full' \subseteq full
    BY <1>0, <1>21 DEF FilterEof
  <2>2. \A l \in full' : filters[l] # "split" => pc' = "end"
    BY <1>0, <1>21 DEF FilterEof, T!Eof
  <2>3. flushed' = (flushed \/ packet_recv) /\ UNCHANGED <<filters, packet_recv, leaked, refused>>
    BY <1>21 DEF FilterEof
  <2> QED
    BY <1>0, <2>1, <2>2, <2>3
<1> QED
  BY <1>1, <1>2, <1>3, <1>4, <1>5, <1>6, <1>7, <1>8, <1>9, <1>10, <1>11, <1>12,
     <1>13, <1>14, <1>15, <1>16, <1>17, <1>18, <1>19, <1>20, <1>21
  DEF AnyStep, HandlerSteps, OnRunning

(* Every step keeps the Stream that the filters were made for in view. *)
LEMMA FiltersStep ==
  ASSUME HandlerInv, AnyStep, HandlerTypeOK'
  PROVE  FiltersMade' /\ StaleOnlyBehind'
<1> USE HandlerAssumption DEF Kinds, Bsfs, HandlerInv, HandlerTypeOK, PacketPlace, FiltersMade, StaleOnlyBehind
<1> USE DEF stream, handler, codecs, packets, history, Goes, Callback, Filters, NewStream,
            StreamGone, InitVideoFilters, Reading, Read, Sending, SetUp, Unref, Describe,
            Receiving, Receive, Return, T!RunReturns, T!Throws, T!Fails, T!RunningCallback
<1>0. Len(filters) \in Nat
  OBVIOUS
<1>1. CASE ThreadSteps    BY <1>0, <1>1 DEF ThreadSteps, T!Loop, T!Close
<1>2. CASE Open           BY <1>0, <1>2 DEF Open, T!Open
<1>3. CASE Opened         BY <1>0, <1>3 DEF Opened, T!Opened
<1>4. CASE Closed         BY <1>0, <1>4 DEF Closed, T!Closed
<1>5. CASE ReadFails      BY <1>0, <1>5 DEF ReadFails, T!Eof, T!Error
<1>6. CASE FilterFails    BY <1>0, <1>6 DEF FilterFails, T!Error
<1>7. CASE GetOther       BY <1>0, <1>7 DEF GetOther
<1>8. CASE GetVideo       BY <1>0, <1>8 DEF GetVideo
<1>9. CASE SetUpDies      BY <1>0, <1>9 DEF SetUpDies
<1>10. CASE SendBsf       BY <1>0, <1>10 DEF SendBsf
<1>11. CASE RefuseBsf     BY <1>0, <1>11 DEF RefuseBsf
<1>12. CASE SendEncBreaks BY <1>0, <1>12 DEF SendEncBreaks
<1>13. CASE SendEnc       BY <1>0, <1>13 DEF SendEnc
<1>14. CASE RecvBsf       BY <1>0, <1>14 DEF RecvBsf
<1>15. CASE RecvEnc       BY <1>0, <1>15 DEF RecvEnc
<1>16. CASE RecvBreaks    BY <1>0, <1>16 DEF RecvBreaks
<1>17. CASE CallbackStep  BY <1>0, <1>17 DEF CallbackStep, CallbackReturns
<1>18. CASE StopJoins     BY <1>0, <1>18 DEF StopJoins, T!StopJoins
<1>19. CASE MainSteps     BY <1>0, <1>19 DEF MainSteps, T!Start, T!Stop, T!Join
<1>20. CASE NullDies      BY <1>0, <1>20 DEF NullDies
<1>21. CASE FilterEof
  <2>1. level \in 1..Callback /\ pc = "body" /\ made # "no" /\ level' = 0
    BY <1>0, <1>21 DEF FilterEof
  <2>2. pc' \in {"run", "end"} /\ made' = "gone" /\ UNCHANGED <<filters, phase>>
    BY <2>1, <1>21 DEF FilterEof, T!Eof
  <2>3. full' \subseteq setUp' /\ setUp \subseteq setUp' /\ stale' \subseteq 2..Len(filters)
    <3>1. full' \subseteq full /\ setUp \subseteq setUp'
      BY <1>21 DEF FilterEof
    <3>2. CASE UNCHANGED stale
      BY <3>1, <3>2
    <3>3. CASE stale' # stale
      <4>1. /\ level \in 1..Len(filters) /\ stale' = stale \union {level}
            /\ made = "gone" /\ level \notin setUp
        BY <3>3, <1>21 DEF FilterEof
      <4>2. filters # <<>> /\ level # 1
        BY <1>0, <2>1, <4>1
      <4> QED
        BY <1>0, <3>1, <4>1, <4>2
    <3> QED
      BY <3>2, <3>3
  <2>4. filters # <<>> => 1 \in setUp'
    BY <1>0, <2>1, <2>3, <1>21 DEF FilterEof
  <2>5. \A l \in 1..Len(filters') :
            level' > l \/ (level' = l /\ phase' = "recv") => l \in setUp'
    BY <2>1
  <2>6. /\ made' # "no" /\ pc' # "end" /\ filters' # <<>> => 1 \in setUp'
        /\ level' > 0 => made' # "no"
        /\ made' = "current" => pc' \in {"loop", "body", "closing"}
    BY <2>2, <2>4
  <2> QED
    BY <2>2, <2>3, <2>5, <2>6
<1> QED
  BY <1>1, <1>2, <1>3, <1>4, <1>5, <1>6, <1>7, <1>8, <1>9, <1>10, <1>11, <1>12,
     <1>13, <1>14, <1>15, <1>16, <1>17, <1>18, <1>19, <1>20, <1>21
  DEF AnyStep, HandlerSteps, OnRunning

(* Every step keeps the encoder and the description in view. *)
LEMMA EncoderStep ==
  ASSUME HandlerInv, AnyStep, HandlerTypeOK'
  PROVE  EncoderMade' /\ Described'
<1> USE HandlerAssumption DEF Kinds, Bsfs, HandlerInv, HandlerTypeOK, PacketPlace, FiltersMade, EncoderMade, Described
<1> USE DEF stream, handler, codecs, packets, history, Goes, Callback, Filters, NewStream,
            StreamGone, InitVideoFilters, Reading, Read, Sending, SetUp, Unref, Describe,
            Receiving, Receive, Return, T!RunReturns, T!Throws, T!Fails, T!RunningCallback
<1>0. Len(filters) \in Nat
  OBVIOUS
<1>1. CASE ThreadSteps    BY <1>0, <1>1 DEF ThreadSteps, T!Loop, T!Close
<1>2. CASE Open           BY <1>0, <1>2 DEF Open, T!Open
<1>3. CASE Opened         BY <1>0, <1>3 DEF Opened, T!Opened
<1>4. CASE Closed         BY <1>0, <1>4 DEF Closed, T!Closed
<1>5. CASE ReadFails      BY <1>0, <1>5 DEF ReadFails, T!Eof, T!Error
<1>6. CASE FilterFails    BY <1>0, <1>6 DEF FilterFails, T!Error
<1>7. CASE GetOther       BY <1>0, <1>7 DEF GetOther
<1>8. CASE GetVideo       BY <1>0, <1>8 DEF GetVideo
<1>9. CASE SetUpDies      BY <1>0, <1>9 DEF SetUpDies
<1>10. CASE SendBsf       BY <1>0, <1>10 DEF SendBsf
<1>11. CASE RefuseBsf     BY <1>0, <1>11 DEF RefuseBsf
<1>12. CASE SendEncBreaks BY <1>0, <1>12 DEF SendEncBreaks
<1>13. CASE SendEnc       BY <1>0, <1>13 DEF SendEnc
<1>14. CASE RecvBsf       BY <1>0, <1>14 DEF RecvBsf
<1>15. CASE RecvEnc       BY <1>0, <1>15 DEF RecvEnc
<1>16. CASE RecvBreaks    BY <1>0, <1>16 DEF RecvBreaks
<1>17. CASE CallbackStep  BY <1>0, <1>17 DEF CallbackStep, CallbackReturns
<1>18. CASE StopJoins     BY <1>0, <1>18 DEF StopJoins, T!StopJoins
<1>19. CASE MainSteps     BY <1>0, <1>19 DEF MainSteps, T!Start, T!Stop, T!Join
<1>20. CASE NullDies      BY <1>0, <1>20 DEF NullDies
<1>21. CASE FilterEof      BY <1>0, <1>21 DEF FilterEof, T!Eof
<1> QED
  BY <1>1, <1>2, <1>3, <1>4, <1>5, <1>6, <1>7, <1>8, <1>9, <1>10, <1>11, <1>12,
     <1>13, <1>14, <1>15, <1>16, <1>17, <1>18, <1>19, <1>20, <1>21
  DEF AnyStep, HandlerSteps, OnRunning

(* The four parts together. *)
LEMMA HandlerStep ==
  ASSUME HandlerInv, AnyStep
  PROVE  HandlerInv'
<1>1. T!ThreadInv' /\ HandlerTypeOK'
  BY ThreadsStep, TypesStep
<1> QED
  BY <1>1, PacketsStep, FiltersStep, EncoderStep DEF HandlerInv

(* The handler begins with nothing made or read. *)
LEMMA HandlerStarts == HandlerInit => HandlerInv
<1> SUFFICES ASSUME HandlerInit PROVE HandlerInv
  OBVIOUS
<1>1. T!ThreadInv
  <2>1. T!ThreadTypeOK
    BY DEF HandlerInit, T!ThreadInit, T!ThreadTypeOK, T!Place, T!Event
  <2>2. T!StopIsFinal /\ T!EndIsAnnounced /\ T!OneMoreOpen
    BY DEF HandlerInit, T!ThreadInit, T!StopIsFinal, T!EndIsAnnounced, T!OneMoreOpen
  <2> QED
    BY <2>1, <2>2 DEF HandlerInit, T!ThreadInit, T!ThreadInv, T!joinable
<1>2. filters \in Seq(Kinds) /\ Len(filters) \in Nat /\ MaxHeld \in Nat
  BY HandlerAssumption DEF HandlerInit
<1>3. HandlerTypeOK
  <2>1. level \in 0..Callback /\ held \in 0..MaxHeld
    BY <1>2 DEF HandlerInit, Callback
  <2> QED
    BY <1>1, <2>1 DEF HandlerInit, HandlerTypeOK, T!ThreadInv
<1>4. PacketPlace /\ PacketsAccounted /\ FiltersMade /\ StaleOnlyBehind
  BY DEF HandlerInit, PacketPlace, PacketsAccounted, FiltersMade, StaleOnlyBehind
<1>5. EncoderMade /\ Described
  BY <1>2 DEF HandlerInit, EncoderMade, Described, Callback, Filters
<1> QED
  BY <1>1, <1>3, <1>4, <1>5 DEF HandlerInv

(* The invariant holds at the start. *)
LEMMA ProxyStarts == Init => ProxyInv
  BY HandlerStarts DEF Init, HandlerInit, T!ThreadInit, ProxyInv, HandlerInv, TypeOK,
     PlayerPlace, NullOnlyOfClosed

(* What each step of the proxy is to the handler. *)
LEMMA StepsOfHandler ==
  ASSUME ProxyInv, [Next]_vars
  PROVE  AnyStep
<1> USE DEF ProxyInv, PlayerPlace, AnyStep, MainSteps
<1>0. Callback > 0
  BY HandlerAssumption DEF HandlerInv, HandlerTypeOK, Callback
<1>1. CASE Start \/ Stop \/ PlayerStopped \/ UiGoes \/ CloseWindow \/ UNCHANGED vars
  BY <1>1 DEF Start, Stop, PlayerStopped, UiGoes, Wait, Make, OpenWindow, Reset,
              CloseWindow, vars
<1>2. CASE StreamStopped
  BY <1>2 DEF StreamStopped
<1>3. CASE StreamGoes
  <2>1. CASE HandlerSteps
    BY <2>1
  <2>2. CASE Update
    BY <2>2, <1>0 DEF Update, Returns, CallbackStep, NullDies
  <2>3. CASE ServerSend \/ Decode \/ Look \/ SetOk \/ SetParams
    BY <2>3 DEF ServerSend, Decode, Look, SetOk, SetParams, Calls, Returns, CallbackStep
  <2> QED
    BY <1>3, <2>1, <2>2, <2>3 DEF StreamGoes, Send
<1> QED
  BY <1>1, <1>2, <1>3 DEF Next

(* The player's own part is kept: one case per action. *)
LEMMA PlayerStep ==
  ASSUME ProxyInv, [Next]_vars, HandlerInv'
  PROVE  TypeOK' /\ PlayerPlace' /\ NullOnlyOfClosed'
<1> USE DEF ProxyInv, TypeOK, PlayerPlace, NullOnlyOfClosed
<1>0. HandlerTypeOK' /\ Callback > 0
  BY HandlerAssumption DEF HandlerInv, HandlerTypeOK, Callback
<1>1. CASE Start
  BY <1>0, <1>1 DEF Start, HandlerInv, PacketPlace, T!Start, handler, Callback
<1>2. CASE Stop
  BY <1>0, <1>2 DEF Stop, handler, player, Callback
<1>3. CASE StreamStopped
  BY <1>0, <1>3 DEF StreamStopped, StopJoins, player, codecs, history, Callback
<1>4. CASE PlayerStopped
  BY <1>0, <1>4 DEF PlayerStopped, stream, handler, player, Callback
<1>5. CASE HandlerSteps /\ sending = "none" /\ UNCHANGED <<main, player>>
  <2>1. main # "start" /\ died' # "null"
    <3> USE DEF HandlerInv, PacketPlace, Goes, Callback
    <3>1. CASE ThreadSteps
      BY <3>1 DEF ThreadSteps, T!Loop, T!Close, handler
    <3>2. CASE Open
      BY <3>2 DEF Open, T!Open
    <3>3. CASE Opened
      BY <3>3 DEF Opened, T!Opened, handler
    <3>4. CASE Closed
      BY <3>4 DEF Closed, T!Closed
    <3>5. CASE ReadFails
      BY <3>5 DEF ReadFails, T!Eof, T!Error, T!Throws
    <3>6. CASE FilterFails
      BY <3>6 DEF FilterFails, T!Error, T!Throws
    <3>7. CASE GetOther
      BY <3>7 DEF GetOther, Reading
    <3>8. CASE GetVideo
      BY <3>8 DEF GetVideo, Reading
    <3>9. CASE SetUpDies
      BY <3>9 DEF SetUpDies, Sending, Filters
    <3>10. CASE SendBsf \/ RefuseBsf \/ SendEncBreaks \/ SendEnc
      BY <3>10 DEF SendBsf, RefuseBsf, SendEncBreaks, SendEnc, Sending, Filters
    <3>11. CASE RecvBsf \/ RecvEnc \/ RecvBreaks
      BY <3>11 DEF RecvBsf, RecvEnc, RecvBreaks, Receiving, Filters
    <3>12. CASE FilterEof
      BY <3>12 DEF FilterEof, T!Eof, T!Throws, Receiving, Sending
    <3> QED
      BY <1>5, <3>1, <3>2, <3>3, <3>4, <3>5, <3>6, <3>7, <3>8, <3>9, <3>10, <3>11,
         <3>12 DEF HandlerSteps, OnRunning
  <2> QED
    BY <1>0, <1>5, <2>1 DEF player
<1>6. CASE Send
  <2>0. main # "start"
    BY <1>0, <1>6 DEF Send, ServerSend, Decode, Look, Update, SetOk, SetParams, Calls,
                      HandlerInv, PacketPlace
  <2>1. CASE ServerSend
    BY <1>0, <2>0, <2>1 DEF ServerSend, Calls, Returns, CallbackReturns, Callback, Goes
  <2>2. CASE Decode
    <3>1. CASE Returns
      BY <1>0, <2>0, <2>2, <3>1 DEF Decode, Calls, Returns, CallbackReturns, Callback
    <3>2. CASE ~Returns
      <4>1. /\ sending' \in {"look", "lock"} /\ level = Callback
            /\ UNCHANGED <<stream, handler, main, preview, ui, ui_ok, ui_>>
        BY <2>2, <3>2 DEF Decode, Calls
      <4> QED
        BY <1>0, <2>0, <4>1 DEF stream, handler, Callback
    <3> QED
      BY <3>1, <3>2
  <2>3. CASE Look
    BY <1>0, <2>0, <2>3 DEF Look, Returns, stream, handler, CallbackReturns, Callback, Goes
  <2>4. CASE Update
    BY <1>0, <2>0, <2>4 DEF Update, Returns, stream, player, CallbackReturns, Callback, Goes
  <2>5. CASE SetOk
    BY <1>0, <2>0, <2>5 DEF SetOk, stream, handler, CallbackReturns, Callback, Goes
  <2>6. CASE SetParams
    BY <1>0, <2>0, <2>6 DEF SetParams, Returns, CallbackReturns, Callback, Goes
  <2> QED
    BY <1>6, <2>1, <2>2, <2>3, <2>4, <2>5, <2>6 DEF Send
<1>7. CASE UiGoes \/ CloseWindow
  <2>1. CASE Wait
    BY <1>0, <2>1 DEF Wait, stream, handler, Callback, Goes
  <2>2. CASE Make
    BY <1>0, <2>2 DEF Make, stream, handler, Callback, Goes
  <2>3. CASE OpenWindow
    BY <1>0, <2>3 DEF OpenWindow, stream, handler, Callback, Goes
  <2>4. CASE Reset
    BY <1>0, <2>4 DEF Reset, stream, handler, Callback, Goes
  <2>5. CASE CloseWindow
    BY <1>0, <2>5 DEF CloseWindow, stream, handler, Callback, Goes
  <2> QED
    BY <1>7, <2>1, <2>2, <2>3, <2>4, <2>5 DEF UiGoes
<1>8. CASE UNCHANGED vars
  BY <1>0, <1>8 DEF vars, stream, handler, player, Callback
<1> QED
  BY <1>1, <1>2, <1>3, <1>4, <1>5, <1>6, <1>7, <1>8 DEF Next, StreamGoes

-----------------------------------------------------------------------------
(* The inductive invariant holds for every set of filter chains and every  *)
(* delay of the encoder.                                                   *)
THEOREM ProxyInvariant == Spec => []ProxyInv
<1>1. ProxyInv /\ [Next]_vars => ProxyInv'
  <2> SUFFICES ASSUME ProxyInv, [Next]_vars PROVE ProxyInv'
    OBVIOUS
  <2>1. HandlerInv'
    BY StepsOfHandler, HandlerStep DEF ProxyInv
  <2> QED
    BY <2>1, PlayerStep DEF ProxyInv
<1> QED
  BY <1>1, ProxyStarts, PTL DEF Spec

(* The stream's thread, with its callback cut into the steps of DoFilter   *)
(* and of the preview and main() as its owner, is a StreamThread.          *)
THEOREM UsesStreamThread == Spec => T!ThreadSpec
<1>1. Init => T!ThreadInit
  BY DEF Init, HandlerInit
<1>2. ProxyInv /\ [Next]_vars => [T!ThreadNext]_(T!stream)
  BY StepsOfHandler, ThreadMaps DEF stream, T!stream, T!config
<1> QED
  BY <1>1, <1>2, ProxyInvariant, PTL DEF Spec, T!ThreadSpec

(* Every variable keeps its type. *)
THEOREM ProxyTypes == Spec => []TypeOK
<1>1. ProxyInv => TypeOK
  BY DEF ProxyInv
<1> QED
  BY <1>1, ProxyInvariant, PTL

(* No packet of the video is leaked on its way through the filters, unless *)
(* an end of file came out of them, or refused by one that does not split. *)
THEOREM NoPacketLost == Spec => []PacketsAccounted
<1>1. ProxyInv => PacketsAccounted
  BY DEF ProxyInv, HandlerInv
<1> QED
  BY <1>1, ProxyInvariant, PTL

(* The first filter is never set up from a Stream that is gone. *)
THEOREM FirstIsFresh == Spec => []StaleOnlyBehind
<1>1. ProxyInv => StaleOnlyBehind
  BY DEF ProxyInv, HandlerInv
<1> QED
  BY <1>1, ProxyInvariant, PTL

(* The description the players have of a packet is wrong for exactly two   *)
(* kinds: what a bitstream filter has changed, and what an encoder made    *)
(* in a stream that has looped since.                                      *)
THEOREM DescriptionFits == Spec => []Described
<1>1. ProxyInv => Described
  BY DEF ProxyInv, HandlerInv
<1> QED
  BY <1>1, ProxyInvariant, PTL

(* A null window is met only after the window has been closed. *)
THEOREM NullIsLate == Spec => []NullOnlyOfClosed
<1>1. ProxyInv => NullOnlyOfClosed
  BY DEF ProxyInv
<1> QED
  BY <1>1, ProxyInvariant, PTL
=============================================================================
