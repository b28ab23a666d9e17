----------------------------- MODULE StreamHandler -----------------------------
(***************************************************************************)
(* The handler of one stream of the proxy, rtsp-ws-proxy/stream_handler.cc *)
(* with stream_filter.cc: the running callback of a StreamThread that      *)
(* reads a packet and passes it through the configured filters to the      *)
(* packet callback, which StreamPlayer supplies.                           *)
(*                                                                         *)
(* The filters are made once, for the first Stream, and outlive it when    *)
(* the stream loops; each is set up by the first packet it is sent.  All   *)
(* levels of DoFilter receive into the one packet_recv_.  External are     *)
(* FFmpeg's demuxer, codecs and bitstream filters.  Of the latter a "null" *)
(* passes packets on as they are (null, and h264_mp4toannexb on a stream   *)
(* that is in Annex B already), a "bsf" gives one packet for a packet,     *)
(* with codec parameters of its own (h264_mp4toannexb on one that is not), *)
(* and a "split" several (any other bsf_name); an "enc" decodes and        *)
(* encodes, with delay.                                                    *)
(***************************************************************************)
EXTENDS Naturals, Sequences

CONSTANTS
  Chains,   (* the configurations of the filters                           *)
  MaxHeld   (* bound: frames the encoder holds back                        *)

Bsfs == {"null", "bsf", "split"}
Kinds == Bsfs \union {"enc"}

ASSUME HandlerAssumption == Chains \subseteq Seq(Kinds) /\ MaxHeld \in Nat \ {0}

VARIABLES
  loop_on_eof, running_cb, is_running, thread, owner, pc, event, lateOpens,
                (* those of the thread, see StreamThread                   *)
  filters,      (* the configured filters                                  *)
  made,         (* video_filters_inited_, and if the Stream they were made *)
                (* for is the current one or gone: one the thread has left *)
  setUp,        (* the filters that have been sent a packet                *)
  full,         (* the bitstream filters that hold a packet                *)
  encoder,      (* encoder_ has been made                                  *)
  held,         (* the frames it holds back                                *)
  level, phase, (* where DoFilter is; level 0 is outside OnRunning()       *)
  packet,       (* what the Stream's packet_ holds                         *)
  packet_recv,  (* packet_recv_ holds a packet                             *)
  form,         (* what describes the packet on its way: the parameters of *)
                (* the source, of a bitstream filter or of the encoder     *)
  info,         (* what the current Stream's description, its codecpar, is *)
                (* of                                                      *)
  died,         (* the process has died                                    *)
  leaked,       (* history: kinds of packets read or received over         *)
  refused,      (* history: filters that have refused a packet             *)
  stale,        (* history: filters set up with a Stream that was gone     *)
  flushed       (* history: an end of file out of a filter or the callback *)
                (* has left packet_recv_ as it was                         *)

T == INSTANCE StreamThread

stream == <<loop_on_eof, running_cb, is_running, thread, owner, pc, event, lateOpens>>
codecs == <<setUp, full, encoder, held>>
packets == <<packet, packet_recv, form>>
history == <<leaked, refused, stale, flushed>>
handler == <<filters, made, codecs, level, phase, packets, info, died, history>>

HandlerInit ==
    /\ T!ThreadInit /\ running_cb
    /\ filters \in Chains
    /\ made = "no" /\ setUp = {} /\ full = {} /\ encoder = FALSE /\ held = 0
    /\ level = 0 /\ phase = "send"
    /\ packet = "blank" /\ packet_recv = FALSE /\ form = "source"
    /\ info = "source" /\ died = "no"
    /\ leaked = {} /\ refused = {} /\ stale = {} /\ flushed = FALSE

Goes == died = "no"

Callback == Len(filters) + 1

Filters(kinds) == {l \in 1..Len(filters) : filters[l] \in kinds}

-----------------------------------------------------------------------------
(* The thread between two packets *)

NewStream == /\ packet' = "blank"
             /\ info' = "source"

(* The thread lets go of its Stream when an exception leaves the try block *)
(* or Run() returns.  If a packet of it has been published the server      *)
(* holds it until the next Stream's first packet is                        *)
(* (ws_stream_server.cc:33-38); then every filter has been set up, and     *)
(* what is set up later is set up from a Stream that is destroyed.         *)
StreamGone == made' = IF made = "current" THEN "gone" ELSE made

ThreadSteps ==
    /\ Goes /\ level = 0
    /\ \/ T!Loop \/ T!Close
    /\ UNCHANGED handler

Open ==
    /\ Goes /\ T!Open
    /\ NewStream
    /\ UNCHANGED <<filters, made, codecs, level, phase, packet_recv, form, died, history>>

InitVideoFilters == made' = IF made = "no" THEN "current" ELSE made

(* Mutant: the filters are made when the stream has been opened. *)
OpenedMakes ==
    /\ Goes /\ T!Opened
    /\ InitVideoFilters
    /\ UNCHANGED <<filters, codecs, level, phase, packets, info, died, history>>

Opened == Goes /\ T!Opened /\ UNCHANGED handler

Closed ==
    /\ Goes /\ T!Closed
    /\ StreamGone
    /\ UNCHANGED <<filters, codecs, level, phase, packets, info, died, history>>

(* Opening and reading meet the end of the file or fail. *)
ReadFails ==
    /\ Goes /\ level = 0
    /\ T!Eof \/ T!Error
    /\ StreamGone
    /\ UNCHANGED <<filters, codecs, level, phase, packets, info, died, history>>

(* A filter or the callback throws, at whatever level. *)
FilterFails ==
    /\ Goes /\ level > 0
    /\ T!Error
    /\ StreamGone
    /\ level' = 0
    /\ UNCHANGED <<filters, codecs, phase, packets, info, died, history>>

-----------------------------------------------------------------------------
(* OnRunning() *)

Reading == Goes /\ pc = "body" /\ level = 0

Read(kind) ==
    /\ packet' = kind
    /\ leaked' = leaked \union ({packet} \ {"blank"})

(* A packet of another media is left as it is. *)
GetOther ==
    /\ Reading
    /\ Read("other")
    /\ T!RunningCallback
    /\ UNCHANGED <<filters, made, codecs, level, phase, packet_recv, form, info, died,
                   refused, stale, flushed>>

GetVideo ==
    /\ Reading
    /\ Read("video")
    /\ InitVideoFilters
    /\ level' = 1 /\ phase' = "send"
    /\ form' = "source"
    /\ UNCHANGED <<stream, filters, codecs, packet_recv, info, died, refused, stale,
                   flushed>>

-----------------------------------------------------------------------------
(* DoFilter() *)

(* A level returns to the next one above that may receive again, or else   *)
(* out of OnRunning().                                                     *)
Return(l) == \E j \in 0..(l - 1) :
    /\ j = 0 \/ j \in Filters({"enc"})
    /\ \A k \in Filters({"enc"}) : k < l => k <= j
    /\ level' = j
    /\ phase' = "recv"
    /\ IF j = 0 THEN T!RunningCallback ELSE UNCHANGED stream

(* The packet sent: the Stream's own at the first level, packet_recv_ at   *)
(* the others.  Sending it unreferences it, whatever its outcome.          *)
Unref == /\ IF level = 1 THEN packet' = "blank" /\ UNCHANGED packet_recv
                         ELSE packet_recv' = FALSE /\ UNCHANGED packet
         /\ UNCHANGED form

(* The first packet sets the filter up from the AVStream of the Stream     *)
(* that the filters were made for.                                         *)
SetUp ==
    /\ setUp' = setUp \union {level}
    /\ stale' = IF made = "gone" /\ level \notin setUp THEN stale \union {level}
                ELSE stale

Sending(kinds) == Goes /\ phase = "send" /\ level \in Filters(kinds)

(* Where a freed AVStream is read the process may die. *)
SetUpDies ==
    /\ Sending(Kinds) /\ level \notin setUp /\ made = "gone"
    /\ SetUp
    /\ died' = "stale"
    /\ UNCHANGED <<stream, filters, made, full, encoder, held, level, phase, packets,
                   info, leaked, refused, flushed>>

SendBsf ==
    /\ Sending(Bsfs) /\ level \notin full
    /\ SetUp /\ Unref
    /\ full' = full \union {level}
    /\ phase' = "recv"
    /\ UNCHANGED <<stream, filters, made, encoder, held, level, info, died, leaked, refused,
                   flushed>>

(* EAGAIN: a bitstream filter that still has output takes no packet, and   *)
(* is not asked for its output either.                                     *)
RefuseBsf ==
    /\ Sending(Bsfs) /\ level \in full
    /\ Unref
    /\ refused' = refused \union {level}
    /\ Return(level)
    /\ UNCHANGED <<filters, made, codecs, info, died, leaked, stale, flushed>>

(* Mutant: the description stays that of the source. *)
DescribeNot == UNCHANGED info

(* The encoder's parameters become the description of the Stream that the  *)
(* filters were made for.                                                  *)
Describe == info' = IF made = "current" /\ ~encoder THEN "encoded" ELSE info

(* The packet gives no frame, or one more than the frame rate allows. *)
SendEncBreaks ==
    /\ Sending({"enc"})
    /\ SetUp /\ Unref
    /\ \/ UNCHANGED <<encoder, info>>
       \/ encoder' = TRUE /\ Describe
    /\ Return(level)
    /\ UNCHANGED <<filters, made, full, held, died, leaked, refused, flushed>>

SendEnc ==
    /\ Sending({"enc"}) /\ held < MaxHeld
    /\ SetUp /\ Unref
    /\ encoder' = TRUE /\ Describe
    /\ held' = held + 1
    /\ phase' = "recv"
    /\ UNCHANGED <<stream, filters, made, full, level, died, leaked, refused, flushed>>

Receiving(kinds) == Goes /\ phase = "recv" /\ level \in Filters(kinds)

(* The packet received goes to the next level. *)
Receive ==
    /\ packet_recv' = TRUE
    /\ level' = level + 1
    /\ phase' = "send"
    /\ UNCHANGED <<stream, packet>>

(* A bitstream filter's packets have the parameters par_out, which nothing *)
(* publishes; it moves them over what packet_recv_ holds.                  *)
RecvBsf ==
    /\ Receiving(Bsfs)
    /\ full' \in {full \ {level}} \union
                 (IF filters[level] = "split" THEN {full} ELSE {})
    /\ Receive
    /\ leaked' = IF packet_recv THEN leaked \union {"filtered"} ELSE leaked
    /\ form' = IF filters[level] = "null" THEN form ELSE "filtered"
    /\ UNCHANGED <<filters, made, setUp, encoder, held, info, died, refused, stale, flushed>>

(* The encoder unreferences what packet_recv_ holds. *)
RecvEnc ==
    /\ Receiving({"enc"}) /\ held > 0
    /\ held' = held - 1
    /\ Receive
    /\ form' = "encoded"
    /\ UNCHANGED <<filters, made, setUp, full, encoder, info, died, history>>

(* A bitstream filter that has taken the packet for itself, and an encoder *)
(* that wants more frames, yield none.                                     *)
RecvBreaks ==
    /\ Receiving(Kinds)
    /\ filters[level] = "enc" => held < MaxHeld
    /\ full' = full \ {level}
    /\ packet_recv' = FALSE
    /\ Return(level)
    /\ UNCHANGED <<filters, made, setUp, encoder, held, packet, form, info, died, history>>

(* Mutant: the packet is unreferenced by nobody after the callback. *)
CallbackKeeps ==
    /\ UNCHANGED packets
    /\ Return(level)
    /\ UNCHANGED <<filters, made, codecs, info, died, history>>

(* The callback is over, and the packet it was given is unreferenced. *)
CallbackReturns ==
    /\ Unref
    /\ Return(level)
    /\ UNCHANGED <<filters, made, codecs, info, died, history>>

(* The end of the file out of a filter or the preview's decoder: a packet  *)
(* without data is one to them.  It ends the stream as that of the input   *)
(* does (stream_filter.cc:125; stream_video.cc:84-96; stream_thread.cc:81).*)
FilterEof ==
    /\ \/ /\ Receiving(Bsfs)
          /\ full' = full \ {level}
          /\ UNCHANGED <<setUp, stale>>
       \/ /\ Sending({"enc"})
          /\ SetUp
          /\ UNCHANGED full
       \/ /\ Goes /\ level = Callback
          /\ UNCHANGED <<full, setUp, stale>>
    /\ T!Eof
    /\ StreamGone
    /\ level' = 0
    /\ packet' = "blank"
    /\ flushed' = (flushed \/ packet_recv)
    /\ UNCHANGED <<filters, encoder, held, phase, packet_recv, form, info, died, leaked,
                   refused>>

OnRunning == \/ GetOther \/ GetVideo
             \/ SendBsf \/ RefuseBsf \/ SendEncBreaks \/ SendEnc \/ SetUpDies
             \/ RecvBsf \/ RecvEnc \/ RecvBreaks

-----------------------------------------------------------------------------
(* Stop() frees packet_recv_ when the thread has been joined. *)

StopJoins ==
    /\ Goes /\ T!StopJoins
    /\ packet_recv' = FALSE
    /\ UNCHANGED <<filters, made, codecs, level, phase, packet, form, info, died, history>>

HandlerSteps == \/ ThreadSteps \/ Open \/ Opened \/ Closed
                \/ ReadFails \/ FilterFails \/ FilterEof
                \/ OnRunning

-----------------------------------------------------------------------------
(* Properties *)

HandlerTypeOK ==
    /\ T!ThreadTypeOK
    /\ filters \in Chains
    /\ made \in {"no", "current", "gone"}
    /\ setUp \subseteq 1..Len(filters) /\ full \subseteq Filters(Bsfs)
    /\ encoder \in BOOLEAN /\ held \in 0..MaxHeld
    /\ level \in 0..Callback /\ phase \in {"send", "recv"}
    /\ packet \in {"blank", "video", "other"} /\ packet_recv \in BOOLEAN
    /\ form \in {"source", "filtered", "encoded"} /\ flushed \in BOOLEAN
    /\ info \in {"source", "encoded"}
    /\ died \in {"no", "stale", "null"}

(* No packet is lost or leaked on its way through the filters, although    *)
(* all levels receive into one packet_recv_ while those above wait to go   *)
(* on: what is read or received over is a packet of another media, which   *)
(* OnRunning() never unreferences (stream_handler.cc:85-87, 120-139), or   *)
(* one that an end of file out of a later filter or the callback has left  *)
(* in packet_recv_; and only a filter that splits packets is ever sent one *)
(* before it has given all it has (stream_filter.cc:108-110).              *)
PacketsAccounted ==
    /\ leaked \subseteq {"other"} \union (IF flushed THEN {"filtered"} ELSE {})
    /\ refused \subseteq Filters({"split"})

(* A filter that is set up from a Stream that is gone stands behind one    *)
(* that delayed its first packet beyond the end of the file: the first     *)
(* filter never does (stream_handler.cc:89, 144-161; stream_filter.cc:75,  *)
(* 171).                                                                   *)
StaleOnlyBehind == stale \subseteq 2..Len(filters)

(* Which packets the players are given with a description that is not      *)
(* theirs: those that have passed a bitstream filter with parameters of    *)
(* its own since they were read or encoded, as its par_out is published    *)
(* nowhere (stream_filter.cc:97-104; json.h:57-67), and those of an        *)
(* encoder in a stream that has looped, whose description stays with the   *)
(* first Stream (stream_filter.cc:197; stream_handler.cc:146;              *)
(* ws_stream_server.cc:36-38).  All others have the right one.             *)
Described ==
    level = Callback =>
        (info # form <=> \/ form = "filtered"
                         \/ form = "encoded" /\ made = "gone")

-----------------------------------------------------------------------------
(* The inductive invariant *)

(* A packet that is not blank is one that is being sent, and a filter that *)
(* yields one packet for one holds it only until it is received: until the *)
(* thread has failed.                                                      *)
PacketPlace ==
    /\ level > 0 => pc = "body"
    /\ packet = "video" => pc = "end" \/ (level = 1 /\ phase = "send")
    /\ packet_recv => pc = "end" \/ flushed \/ (level > 1 /\ phase = "send")
    /\ \A l \in full : filters[l] # "split" => pc = "end" \/ (level = l /\ phase = "recv")

(* The first filter is set up at once when the filters are made, and one   *)
(* that holds a packet, or has given one, has been sent one: in the        *)
(* callback all are set up.                                                *)
FiltersMade ==
    /\ full \subseteq setUp
    /\ \A l \in 1..Len(filters) : level > l \/ (level = l /\ phase = "recv") => l \in setUp
    /\ level > 0 => made # "no"
    /\ made = "current" => pc \in {"loop", "body", "closing"}
    /\ made # "no" /\ pc # "end" /\ filters # <<>> =>
          1 \in setUp \/ (level = 1 /\ phase = "send" /\ made = "current")

(* What has passed an encoder is behind one that has been made, and that   *)
(* has described the Stream of the filters.                                *)
EncoderMade ==
    /\ \A l \in Filters({"enc"}) :
          level > l \/ (level = l /\ phase = "recv") => encoder
    /\ level > 0 /\ form = "source" => \A l \in Filters({"enc"}) : level <= l
    /\ form = "encoded" => encoder
    /\ encoder => made # "no" /\ Filters({"enc"}) # {}
    /\ encoder /\ made = "current" => info = "encoded"
    /\ info = "encoded" => encoder /\ (made = "current" \/ pc \in {"run", "end"})

HandlerInv ==
    /\ T!ThreadInv /\ HandlerTypeOK
    /\ PacketPlace /\ PacketsAccounted
    /\ FiltersMade /\ StaleOnlyBehind
    /\ EncoderMade /\ Described
=============================================================================
