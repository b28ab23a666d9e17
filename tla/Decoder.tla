-------------------------------- MODULE Decoder --------------------------------
(***************************************************************************)
(* The decoder of the page, ws-wasm-player/src/decoder.h: the main thread  *)
(* hands packets to a decoding thread (DecodeAsync), which takes the whole *)
(* queue at once and leaves its frames in decode_results_, for the main    *)
(* thread to call back with at the next packet.  A null packet and         *)
(* decode_stop_ end the thread (ThreadStop, from the destructor).          *)
(*                                                                         *)
(* Each section under a mutex is one step.  The decoder returns the same   *)
(* AVFrame every time, and Frame::Alloc keeps the pointer.                 *)
(***************************************************************************)
EXTENDS Naturals, Sequences, FiniteSets

CONSTANTS
  decode_datas_maxsize, (* decode_datas_maxsize_, 2 unless set to more *)
  MaxPackets            (* bound: packets received                     *)

ASSUME DecoderAssumption == /\ decode_datas_maxsize \in Nat \ {0, 1}
                            /\ MaxPackets \in Nat

VARIABLES
  decode_async, (* the page calls decodeAsync() rather than decode()       *)
  from_key,     (* decode_from_key_frame_                                  *)
  decode_stop,  (* decode_stop_                                            *)
  decode_datas, (* decode_datas_: packets, and the null one                *)
  results,      (* decode_results_: the packet each frame was decoded from *)
  thread,       (* where the decoding thread is                            *)
  datas,        (* the batch it has taken                                  *)
  frame,        (* the AVFrame: the packet last decoded into it, 0: none   *)
  main,         (* where the main thread is                                *)
  received,     (* number of packets received                              *)
  accepted,     (* history: key packets put in the queue                   *)
  decoded,      (* history: packets handed to the codec                    *)
  shown         (* history: frames called back, and what was in them       *)

history == <<accepted, decoded, shown>>
queue == <<decode_datas, from_key>>
decoding == <<thread, datas, frame, results>>
vars == <<decode_async, decode_stop, queue, decoding, main, received, history>>

Packet == [n : 1..MaxPackets, key : BOOLEAN]
Null == [n |-> 0, key |-> FALSE]

InitDecoder ==
    /\ from_key = FALSE
    /\ decode_stop = TRUE
    /\ decode_datas = <<>> /\ results = <<>>
    /\ thread = "none" /\ datas = <<>> /\ frame = 0

Init ==
    /\ decode_async \in BOOLEAN
    /\ InitDecoder
    /\ main = "idle"
    /\ received = 0
    /\ accepted = {} /\ decoded = <<>> /\ shown = <<>>

-----------------------------------------------------------------------------
(* The main thread: DecodeAsync() *)

ThreadStart ==
    /\ main = "idle" /\ decode_async /\ received < MaxPackets
    /\ main' = "push"
    /\ received' = received + 1
    /\ decode_stop' = FALSE
    /\ thread' = IF decode_stop THEN "loop" ELSE thread
    /\ UNCHANGED <<decode_async, queue, datas, frame, results, history>>

Plain(q) == {i \in DOMAIN q : ~q[i].key}
Eldest(S) == CHOOSE i \in S : \A j \in S : i <= j

(* Mutant: the eldest packet goes, whatever it is. *)
TrimAny(q) == IF Len(q) > decode_datas_maxsize THEN Tail(q) ELSE q

(* One packet goes, the eldest that is not a key packet, if there is one. *)
Trim(q) ==
    IF Len(q) > decode_datas_maxsize /\ Plain(q) # {}
    THEN [i \in 1..Len(q) - 1 |-> q[IF i < Eldest(Plain(q)) THEN i ELSE i + 1]]
    ELSE q

(* Mutant: the packets before the first key packet are kept. *)
AcceptAny(key) == TRUE

(* Packets before the first key packet are ignored. *)
Accept(key) == from_key \/ key

Push ==
    /\ main = "push"
    /\ \E key \in BOOLEAN :
         \/ /\ ~Accept(key)
            /\ main' = "idle"
            /\ UNCHANGED <<queue, history>>
         \/ /\ Accept(key)
            /\ from_key' = TRUE
            /\ decode_datas' =
                 Trim(Append(decode_datas, [n |-> received, key |-> key]))
            /\ accepted' = accepted \cup {k \in {received} : key}
            /\ main' = "notify"
            /\ UNCHANGED <<decoded, shown>>
    /\ UNCHANGED <<decode_async, decode_stop, decoding, received>>

(* Mutant: only a thread that is not asleep is notified. *)
WakeNot == thread

Wake == IF thread = "asleep" THEN "lock" ELSE thread

Notify ==
    /\ main = "notify"
    /\ thread' = Wake
    /\ main' = "results"
    /\ UNCHANGED <<decode_async, decode_stop, queue, datas, frame, results,
                   received, history>>

(* decode_results_.empty() is read without the mutex. *)
LookAtResults ==
    /\ main = "results"
    /\ main' = IF results = <<>> THEN "idle" ELSE "deliver"
    /\ UNCHANGED <<decode_async, decode_stop, queue, decoding, received,
                   history>>

Show(s) == shown' = shown \o [i \in DOMAIN s |-> [of |-> s[i], content |-> frame]]

(* The callbacks are called with decode_results_mutex_ held. *)
Deliver ==
    /\ main = "deliver"
    /\ Show(results)
    /\ results' = <<>>
    /\ main' = "idle"
    /\ UNCHANGED <<decode_async, decode_stop, queue, thread, datas, frame,
                   received, accepted, decoded>>

-----------------------------------------------------------------------------
(* The main thread: Decode(), with the decoder on its own thread.  The     *)
(* codec returns a frame, or none: it needs more packets, or has failed.   *)
Decode ==
    /\ main = "idle" /\ ~decode_async /\ received < MaxPackets
    /\ received' = received + 1
    /\ \E key \in BOOLEAN :
         \/ /\ ~Accept(key)
            /\ UNCHANGED <<from_key, frame, history>>
         \/ /\ Accept(key)
            /\ from_key' = TRUE
            /\ decoded' = Append(decoded, [n |-> received', key |-> key])
            /\ \/ /\ frame' = received'
                  /\ shown' = Append(shown, [of |-> frame', content |-> frame'])
               \/ UNCHANGED <<frame, shown>>
            /\ UNCHANGED accepted
    /\ UNCHANGED <<decode_async, decode_stop, decode_datas, results, thread,
                   datas, main>>

-----------------------------------------------------------------------------
(* The main thread: ThreadStop(), from ~Decoder() *)

ThreadStop ==
    /\ main = "idle"
    /\ main' = IF decode_stop THEN "closed" ELSE "null"
    /\ decode_stop' = TRUE
    /\ UNCHANGED <<decode_async, queue, decoding, received, history>>

PushNull ==
    /\ main = "null"
    /\ decode_datas' = Append(decode_datas, Null)
    /\ main' = "wake"
    /\ UNCHANGED <<decode_async, decode_stop, from_key, decoding, received,
                   history>>

NotifyNull ==
    /\ main = "wake"
    /\ thread' = Wake
    /\ main' = "join"
    /\ UNCHANGED <<decode_async, decode_stop, queue, datas, frame, results,
                   received, history>>

Join ==
    /\ main = "join" /\ thread = "end"
    /\ main' = "closed"
    /\ UNCHANGED <<decode_async, decode_stop, queue, decoding, received,
                   history>>

-----------------------------------------------------------------------------
(* The decoding thread: ThreadRun() *)

Loop ==
    /\ thread = "loop"
    /\ thread' = IF decode_stop THEN "end" ELSE "lock"
    /\ UNCHANGED <<decode_async, decode_stop, queue, datas, frame, results,
                   main, received, history>>

(* The wait: the queue is looked at, and left, under the mutex. *)
Take ==
    /\ thread = "lock"
    /\ thread' = IF decode_datas = <<>> THEN "asleep" ELSE "taken"
    /\ datas' = decode_datas
    /\ decode_datas' = <<>>
    /\ UNCHANGED <<decode_async, decode_stop, from_key, frame, results, main,
                   received, history>>

(* Mutant: decode_stop_ is not looked at again. *)
TakenAnyway ==
    /\ thread = "taken"
    /\ thread' = "batch"
    /\ UNCHANGED <<decode_async, decode_stop, queue, datas, frame, results,
                   main, received, history>>

Taken ==
    /\ thread = "taken"
    /\ thread' = IF decode_stop THEN "end" ELSE "batch"
    /\ UNCHANGED <<decode_async, decode_stop, queue, datas, frame, results,
                   main, received, history>>

LeaveBatch == thread' = "loop" /\ datas' = <<>>

NextData ==
    /\ thread = "batch"
    /\ IF decode_stop \/ datas = <<>>
       THEN LeaveBatch
       ELSE thread' = "decode" /\ UNCHANGED datas
    /\ UNCHANGED <<decode_async, decode_stop, queue, frame, results, main,
                   received, history>>

(* Without a frame, or with an error, the rest of the batch is left. *)
GetFrame ==
    /\ thread = "decode"
    /\ decoded' = Append(decoded, Head(datas))
    /\ \/ /\ frame' = Head(datas).n
          /\ thread' = "result"
          /\ UNCHANGED datas
       \/ /\ LeaveBatch
          /\ UNCHANGED frame
    /\ UNCHANGED <<decode_async, decode_stop, queue, results, main, received,
                   accepted, shown>>

(* Mutant: the newest result is put first. *)
ResultFirst ==
    /\ thread = "result"
    /\ results' = <<Head(datas).n>> \o results
    /\ datas' = Tail(datas)
    /\ thread' = "batch"
    /\ UNCHANGED <<decode_async, decode_stop, queue, frame, main, received,
                   history>>

Result ==
    /\ thread = "result"
    /\ results' = Append(results, Head(datas).n)
    /\ datas' = Tail(datas)
    /\ thread' = "batch"
    /\ UNCHANGED <<decode_async, decode_stop, queue, frame, main, received,
                   history>>

ThreadRun == Loop \/ Take \/ Taken \/ NextData \/ GetFrame \/ Result

DecodeAsync == Push \/ Notify \/ LookAtResults \/ Deliver

Stopping == PushNull \/ NotifyNull \/ Join

Next == \/ ThreadStart \/ DecodeAsync \/ Decode
        \/ ThreadStop \/ Stopping
        \/ ThreadRun

Spec == Init /\ [][Next]_vars

(* Calls made by the main thread go on, and so does the decoding thread;   *)
(* packets need not come, nor the page be closed.                          *)
Fairness == /\ WF_vars(DecodeAsync) /\ WF_vars(Stopping)
            /\ WF_vars(ThreadRun)

FairSpec == Spec /\ Fairness

-----------------------------------------------------------------------------
TypeOK ==
    /\ decode_async \in BOOLEAN /\ from_key \in BOOLEAN
    /\ decode_stop \in BOOLEAN
    /\ decode_datas \in Seq(Packet \cup {Null})
    /\ datas \in Seq(Packet \cup {Null})
    /\ results \in Seq(1..MaxPackets)
    /\ thread \in {"none", "loop", "lock", "asleep", "taken", "batch",
                   "decode", "result", "end"}
    /\ frame \in 0..MaxPackets
    /\ main \in {"idle", "push", "notify", "results", "deliver", "null",
                 "wake", "join", "closed"}
    /\ received \in 0..MaxPackets
    /\ accepted \subseteq 1..MaxPackets
    /\ decoded \in Seq(Packet \cup {Null})
    /\ shown \in Seq([of : 1..MaxPackets, content : 0..MaxPackets])

(***************************************************************************)
(* A batch that holds the null packet of ThreadStop() is left at once: the *)
(* thread never goes on with one of its packets, neither with those before *)
(* the null one nor with those behind it.  That the null packet itself is  *)
(* not dereferenced (decoder.h:215-222) needs less, the test at 214 alone. *)
(***************************************************************************)
NullIsNotDecoded ==
    thread \in {"batch", "decode", "result"} => \A i \in DOMAIN datas : datas[i] # Null

(***************************************************************************)
(* The queue is longer than its maximum only when it holds key packets     *)
(* alone (and the null one), however many of them came before: trimming    *)
(* skips them to find a packet to drop.                                    *)
(***************************************************************************)
LongQueueIsKeys ==
    Len(decode_datas) > decode_datas_maxsize /\ decode_datas[Len(decode_datas)] # Null
        => Plain(decode_datas) = {}

(***************************************************************************)
(* The codec is given packets in the order they came, none twice, and a    *)
(* key packet first, whatever was trimmed or left meanwhile.               *)
(***************************************************************************)
DecodedInOrder ==
    /\ \A i, j \in DOMAIN decoded : i < j => decoded[i].n < decoded[j].n
    /\ decoded # <<>> => decoded[1].key

(***************************************************************************)
(* Frames are called back in the order of their packets, none twice, and   *)
(* a frame called back holds the picture of its packet or of a later one:  *)
(* the one AVFrame is decoded into again before it is shown ("return frame *)
(* alloced once here", decoder.h:221), but never shows an older picture.   *)
(***************************************************************************)
ShownInOrder ==
    /\ \A i, j \in DOMAIN shown : i < j => shown[i].of < shown[j].of
    /\ \A i \in DOMAIN shown : shown[i].content >= shown[i].of

(* The packets that the codec has returned a frame for. *)
Framed == {shown[i].of : i \in DOMAIN shown}
            \cup {results[i] : i \in DOMAIN results}
            \cup (IF thread = "result" THEN {Head(datas).n} ELSE {})

(***************************************************************************)
(* Key packets are spared by the trimming ("key, not erase",               *)
(* decoder.h:160): until the decoder is stopped, an accepted one is in the *)
(* queue, in the batch, or has been handed to the codec; it may be lost    *)
(* only with the rest of its batch, when the codec has returned no frame   *)
(* for an earlier packet (decoder.h:223-226, 234-237).                     *)
(***************************************************************************)
KeysAreKept ==
    ~decode_stop =>
      \A k \in accepted :
        \/ \E s \in {decode_datas, datas, decoded} : \E i \in DOMAIN s : s[i].n = k
        \/ \E i \in DOMAIN decoded : decoded[i].n < k /\ decoded[i].n \notin Framed

(* Every queue of packets is taken by the thread: no notification is lost. *)
QueueIsTaken == decode_datas # <<>> ~> decode_datas = <<>> \/ decode_stop

(* The destructor returns: the thread is awake to see that it is to end.   *)
StopReturns == main = "null" ~> main = "closed"
=============================================================================
