---------------------------- MODULE Decoder_proofs ----------------------------
(***************************************************************************)
(* Proofs about the decoder of the page, for every size of its queue and   *)
(* any number of packets.                                                  *)
(***************************************************************************)
EXTENDS Decoder, TLAPS, WellFoundedInduction

Item == Packet \cup {Null}

(* Packets come in order; a null one is not compared. *)
Ordered(s) == \A i, j \in DOMAIN s : i < j /\ s[j] # Null => s[i].n < s[j].n

(* Whatever waits to be decoded is newer than packet m. *)
Behind(m) ==
    /\ \A j \in DOMAIN datas : datas[j] # Null =>
         m < datas[j].n \/ (thread = "result" /\ j = 1 /\ m = datas[1].n)
    /\ \A j \in DOMAIN decode_datas : decode_datas[j] # Null =>
         m < decode_datas[j].n
    /\ m <= received /\ (main = "push" => m < received)

(* Where the two threads are, and what they hold there. *)
PlaceInv ==
    /\ thread \in {"none", "loop", "lock", "asleep"} => datas = <<>>
    /\ thread \in {"decode", "result"} => datas # <<>>
    /\ thread = "result" => frame = datas[1].n /\ decoded # <<>>
    /\ main \in {"push", "notify", "results", "deliver"} => decode_async /\ ~decode_stop
    /\ main \in {"null", "wake", "join"} => decode_async /\ decode_stop
    /\ ~decode_async \/ (decode_stop /\ main = "idle") =>
         thread = "none" /\ decode_stop /\ decode_datas = <<>> /\ results = <<>>

(* The null packet is there only when the thread has been told to stop. *)
NullInv ==
    /\ \A i \in DOMAIN decode_datas : decode_datas[i] = Null => decode_stop
    /\ \A i \in DOMAIN datas : datas[i] = Null => decode_stop
    /\ NullIsNotDecoded

OrderInv ==
    /\ Ordered(decode_datas) /\ Ordered(datas)
    /\ \A i \in DOMAIN datas, j \in DOMAIN decode_datas :
         decode_datas[j] # Null => datas[i].n < decode_datas[j].n
    /\ \A i \in DOMAIN datas :
         datas[i].n <= received /\ (main = "push" => datas[i].n < received)
    /\ \A i \in DOMAIN decode_datas :
         decode_datas[i].n <= received /\ (main = "push" => decode_datas[i].n < received)
    /\ \A i \in DOMAIN decoded : Behind(decoded[i].n)
    /\ \A i, j \in DOMAIN decoded : i < j => decoded[i].n < decoded[j].n

(* The key packet that is accepted first is decoded first, or none is. *)
KeyInv ==
    /\ decoded # <<>> => decoded[1].key
    /\ ~decode_async => (from_key => decoded # <<>>)
    /\ decode_async /\ decode_stop /\ main = "idle" => ~from_key
    /\ thread \in {"batch", "decode", "result"} /\ datas # <<>> => from_key
    /\ ~from_key => decoded = <<>> /\ (~decode_stop => decode_datas = <<>> /\ datas = <<>>)
    /\ decoded = <<>> =>
         /\ datas # <<>> /\ (thread \in {"batch", "decode", "result"} \/ ~decode_stop)
              => datas[1].key
         /\ ~decode_stop /\ datas = <<>> /\ decode_datas # <<>> => decode_datas[1].key
         /\ ~decode_stop /\ from_key => datas # <<>> \/ decode_datas # <<>>

(* Results are of frames decoded before, and newer than what was shown. *)
ShownInv ==
    /\ Behind(frame)
    /\ \A i \in DOMAIN results :
         results[i] <= frame /\ (thread = "result" => results[i] < frame)
    /\ \A i, j \in DOMAIN results : i < j => results[i] < results[j]
    /\ \A i \in DOMAIN shown, j \in DOMAIN results : shown[i].of < results[j]
    /\ \A i \in DOMAIN shown :
         shown[i].of <= frame /\ (thread = "result" => shown[i].of < frame)
    /\ ShownInOrder

DecoderInv == /\ TypeOK /\ PlaceInv /\ NullInv /\ OrderInv /\ KeyInv /\ ShownInv
              /\ LongQueueIsKeys

-----------------------------------------------------------------------------
LEMMA Elements ==
  ASSUME NEW S, NEW s \in Seq(S)
  PROVE  DOMAIN s = 1..Len(s) /\ Len(s) \in Nat /\ \A i \in DOMAIN s : s[i] \in S
OBVIOUS

LEMMA Joined ==
  ASSUME NEW S, NEW s \in Seq(S), NEW t \in Seq(S)
  PROVE  /\ DOMAIN (s \o t) = 1..(Len(s) + Len(t))
         /\ \A i \in DOMAIN (s \o t) :
              \/ i \in DOMAIN s /\ (s \o t)[i] = s[i]
              \/ i - Len(s) \in 1..Len(t) /\ (s \o t)[i] = t[i - Len(s)]
OBVIOUS

LEMMA AppendProperties ==
  ASSUME NEW S, NEW s \in Seq(S), NEW e \in S
  PROVE  /\ Append(s, e) \in Seq(S) /\ Append(s, e) # <<>>
         /\ DOMAIN s = 1..Len(s) /\ Len(s) \in Nat
         /\ \A i \in DOMAIN Append(s, e) :
              \/ i \in DOMAIN s /\ Append(s, e)[i] = s[i]
              \/ i = Len(s) + 1 /\ Append(s, e)[i] = e
OBVIOUS

(* Packets are numbered. *)
LEMMA Numbered == \A p \in Item : p.n \in Nat
BY DecoderAssumption DEF Item, Packet, Null

LEMMA ItemType ==
  ASSUME TypeOK
  PROVE  /\ \A i \in DOMAIN decode_datas : decode_datas[i] \in Item /\ decode_datas[i].n \in Nat
         /\ \A i \in DOMAIN datas : datas[i] \in Item /\ datas[i].n \in Nat
         /\ \A i \in DOMAIN decoded : decoded[i] \in Item /\ decoded[i].n \in Nat
         /\ \A i \in DOMAIN results : results[i] \in 1..MaxPackets
         /\ \A i \in DOMAIN shown : shown[i].of \in Nat /\ shown[i].content \in Nat
<1>2. decode_datas \in Seq(Item) /\ datas \in Seq(Item) /\ decoded \in Seq(Item)
  BY DEF TypeOK, Item
<1>3. /\ results \in Seq(1..MaxPackets)
      /\ shown \in Seq([of : 1..MaxPackets, content : 0..MaxPackets])
  BY DEF TypeOK
<1>4. \A i \in DOMAIN shown : shown[i] \in [of : 1..MaxPackets, content : 0..MaxPackets]
  BY <1>3, Elements
<1>5. QED
  BY Numbered, <1>2, <1>3, <1>4, DecoderAssumption

(* Trimming drops at most one packet, never a key packet, and keeps order. *)
LEMMA EldestProperties ==
  ASSUME NEW S \in SUBSET Nat, S # {}
  PROVE  Eldest(S) \in S /\ \A j \in S : Eldest(S) <= j
<1> DEFINE R == OpToRel(<, Nat)
<1>1. \A x, y \in Nat : ~(<<y, x>> \in R) => x <= y
  BY DEF OpToRel
<1>2. \E x \in S : \A y \in S : ~(<<y, x>> \in R)
  BY NatLessThanWellFounded, WFMin
<1>3. \E x \in S : \A y \in S : x <= y
  BY <1>1, <1>2
<1>4. QED
  BY <1>3 DEF Eldest

LEMMA TrimProperties ==
  ASSUME NEW q \in Seq(Item)
  PROVE  /\ Trim(q) \in Seq(Item)
         /\ \A i \in DOMAIN Trim(q) : \E a \in DOMAIN q : Trim(q)[i] = q[a]
         /\ \A i, j \in DOMAIN Trim(q) : i < j =>
              \E a, b \in DOMAIN q : a < b /\ Trim(q)[i] = q[a] /\ Trim(q)[j] = q[b]
         /\ q # <<>> /\ q[1].key => Trim(q) # <<>> /\ Trim(q)[1] = q[1]
         /\ Len(q) <= decode_datas_maxsize + 1 \/ (\A i \in 1..Len(q) - 1 : q[i].key)
              => Len(Trim(q)) <= decode_datas_maxsize \/ Plain(Trim(q)) = {}
         /\ \A a \in DOMAIN q : q[a].key => \E i \in DOMAIN Trim(q) : Trim(q)[i] = q[a]
<1> DEFINE e == Eldest(Plain(q))
<1>0. DOMAIN q = 1..Len(q) /\ Len(q) \in Nat /\ \A i \in DOMAIN q : q[i] \in Item
  BY Elements
<1>1. CASE ~(Len(q) > decode_datas_maxsize /\ Plain(q) # {})
  <2>1. Trim(q) = q
    BY <1>1 DEF Trim
  <2>2. Len(q) <= decode_datas_maxsize \/ Plain(q) = {}
    BY <1>0, <1>1, DecoderAssumption
  <2>3. QED
    BY <1>0, <2>1, <2>2
<1>2. CASE Len(q) > decode_datas_maxsize /\ Plain(q) # {}
  <2>1. /\ e \in DOMAIN q /\ ~q[e].key
        /\ \A j \in DOMAIN q : ~q[j].key => e <= j
    <3>1. Plain(q) \in SUBSET Nat
      BY <1>0 DEF Plain
    <3>2. e \in Plain(q) /\ \A j \in Plain(q) : e <= j
      BY <1>2, <3>1, EldestProperties
    <3>3. QED
      BY <3>2 DEF Plain
  <2> HIDE DEF e
  <2> DEFINE t == [i \in 1..Len(q) - 1 |-> q[IF i < e THEN i ELSE i + 1]]
  <2>2. Trim(q) = t
    BY <1>2 DEF Trim, e
  <2>3. Len(q) - 1 \in Nat /\ e \in Nat \ {0} /\ e <= Len(q)
    BY <1>0, <2>1
  <2>4. /\ t \in Seq(Item) /\ Len(t) = Len(q) - 1 /\ DOMAIN t = 1..Len(q) - 1
        /\ \A i \in DOMAIN t : t[i] = IF i < e THEN q[i] ELSE q[i + 1]
    <3>1. t \in [1..Len(q) - 1 -> Item]
      BY <1>0, <2>3
    <3>2. QED
      BY <2>3, <3>1
  <2> HIDE DEF t
  <2>5. \A i \in DOMAIN t : \E a \in DOMAIN q : t[i] = q[a]
    BY <1>0, <2>3, <2>4
  <2>6. \A i, j \in DOMAIN t : i < j =>
          \E a, b \in DOMAIN q : a < b /\ t[i] = q[a] /\ t[j] = q[b]
    BY <1>0, <2>3, <2>4
  <2>7. q # <<>> /\ q[1].key => t # <<>> /\ t[1] = q[1]
    BY <1>0, <1>2, <2>1, <2>3, <2>4, DecoderAssumption
  <2>8. ASSUME Len(q) <= decode_datas_maxsize + 1 \/ (\A i \in 1..Len(q) - 1 : q[i].key)
        PROVE  Len(t) <= decode_datas_maxsize \/ Plain(t) = {}
    <3>1. CASE Len(q) <= decode_datas_maxsize + 1
      BY <2>3, <2>4, <3>1, DecoderAssumption
    <3>2. CASE \A i \in 1..Len(q) - 1 : q[i].key
      <4>1. e = Len(q)
        BY <1>0, <2>1, <2>3, <3>2
      <4>2. \A i \in DOMAIN t : t[i].key
        BY <2>3, <2>4, <3>2, <4>1
      <4>3. QED
        BY <4>2 DEF Plain
    <3>3. QED
      BY <2>8, <3>1, <3>2
  <2>9. ASSUME NEW a \in DOMAIN q, q[a].key
        PROVE  \E i \in DOMAIN t : t[i] = q[a]
    <3>1. CASE a < e
      <4>1. a \in DOMAIN t /\ t[a] = q[a]
        BY <1>0, <2>3, <2>4, <3>1
      <4>2. QED
        BY <4>1
    <3>2. CASE e < a
      <4>1. a - 1 \in DOMAIN t /\ t[a - 1] = q[a]
        BY <1>0, <2>3, <2>4, <3>2
      <4>2. QED
        BY <4>1
    <3>3. QED
      BY <1>0, <2>1, <2>3, <2>9, <3>1, <3>2
  <2>10. QED
    BY <2>2, <2>4, <2>5, <2>6, <2>7, <2>8, <2>9
<1>3. QED
  BY <1>1, <1>2

-----------------------------------------------------------------------------
LEMMA ThreadStartStep == DecoderInv /\ ThreadStart => DecoderInv'
<1> SUFFICES ASSUME DecoderInv, ThreadStart PROVE DecoderInv'
  OBVIOUS
<1> USE DEF ThreadStart, DecoderInv, TypeOK, history, queue
<1>1. TypeOK'
  <2>1. received' \in 0..MaxPackets
    BY DecoderAssumption
  <2>2. QED
    BY <2>1
<1>2. PlaceInv' /\ NullInv' /\ KeyInv' /\ LongQueueIsKeys'
  BY DEF PlaceInv, NullInv, NullIsNotDecoded, KeyInv, LongQueueIsKeys, Plain
<1>3. OrderInv'
  <2>1. \A m \in Nat : Behind(m) => Behind(m)'
    BY DecoderAssumption DEF Behind, PlaceInv
  <2>2. \A i \in DOMAIN decoded : Behind(decoded[i].n)'
    BY <2>1, ItemType DEF OrderInv
  <2>3. QED
    BY <2>2, ItemType, DecoderAssumption DEF OrderInv, Ordered
<1>4. ShownInv'
  BY DecoderAssumption DEF ShownInv, ShownInOrder, Behind, PlaceInv
<1>5. QED
  BY <1>1, <1>2, <1>3, <1>4

LEMMA DeliverStep == DecoderInv /\ Deliver => DecoderInv'
<1> SUFFICES ASSUME DecoderInv, Deliver PROVE DecoderInv'
  OBVIOUS
<1> USE DEF Deliver, DecoderInv, TypeOK, history, queue
<1> DEFINE new == [i \in DOMAIN results |-> [of |-> results[i], content |-> frame]]
<1>1. shown' = shown \o new
  BY DEF Show
<1>2. new \in Seq([of : 1..MaxPackets, content : 0..MaxPackets]) /\ Len(new) = Len(results)
  <2>1. \A i \in DOMAIN results : results[i] \in 1..MaxPackets
    BY Elements
  <2>2. new \in [1..Len(results) -> [of : 1..MaxPackets, content : 0..MaxPackets]]
    BY <2>1
  <2>3. QED
    BY <2>2
<1>3. TypeOK'
  BY <1>1, <1>2
<1>4. PlaceInv' /\ NullInv' /\ KeyInv' /\ LongQueueIsKeys'
  BY DEF PlaceInv, NullInv, NullIsNotDecoded, KeyInv, LongQueueIsKeys, Plain
<1>5. OrderInv'
  BY DEF OrderInv, Ordered, Behind
<1>6. ShownInv'
  <2>0. /\ Len(shown) \in Nat /\ DOMAIN shown = 1..Len(shown)
        /\ Len(results) \in Nat /\ DOMAIN results = 1..Len(results)
        /\ DOMAIN shown' = 1..(Len(shown) + Len(results))
    <3> HIDE DEF new
    <3>1. shown \in Seq([of : 1..MaxPackets, content : 0..MaxPackets])
      OBVIOUS
    <3>2. results \in Seq(1..MaxPackets)
      OBVIOUS
    <3>3. Len(shown) \in Nat /\ DOMAIN shown = 1..Len(shown)
      BY <3>1, Elements
    <3>4. Len(results) \in Nat /\ DOMAIN results = 1..Len(results)
      BY <3>2, Elements
    <3>5. DOMAIN (shown \o new) = 1..(Len(shown) + Len(new))
      BY <1>2, <3>1, Joined
    <3>6. QED
      BY <1>1, <1>2, <3>3, <3>4, <3>5
  <2>1. \A i \in DOMAIN shown' : \/ i \in DOMAIN shown /\ shown'[i] = shown[i]
                                 \/ /\ i - Len(shown) \in DOMAIN results
                                    /\ shown'[i].of = results[i - Len(shown)]
                                    /\ shown'[i].content = frame
    BY <1>1, <1>2
  <2>2. \A i \in DOMAIN shown : shown[i].of \in Nat /\ shown[i].content \in Nat
    BY ItemType
  <2>3. \A i \in DOMAIN results : results[i] \in Nat
    BY ItemType, DecoderAssumption
  <2>4. Behind(frame)' /\ results' = <<>>
    BY DEF ShownInv, Behind
  <2>5. \A i \in DOMAIN shown' : /\ shown'[i].of <= frame'
                                 /\ thread' = "result" => shown'[i].of < frame'
                                 /\ shown'[i].content >= shown'[i].of
    BY <2>1, <2>2, <2>3 DEF ShownInv, ShownInOrder
  <2>6. \A i, j \in DOMAIN shown' : i < j => shown'[i].of < shown'[j].of
    <3>0. ShownInv
      OBVIOUS
    <3> HIDE DEF Deliver, DecoderInv, TypeOK, history, queue, new
    <3>1. SUFFICES ASSUME NEW i \in DOMAIN shown', NEW j \in DOMAIN shown', i < j
                   PROVE  shown'[i].of < shown'[j].of
      OBVIOUS
    <3>2. i \in Nat /\ j \in Nat
      BY <2>0
    <3>3. CASE j \in DOMAIN shown
      <4>1. i \in DOMAIN shown /\ shown'[i] = shown[i] /\ shown'[j] = shown[j]
        BY <2>0, <2>1, <3>1, <3>2, <3>3
      <4>2. QED
        BY <2>0, <3>0, <3>1, <3>3, <4>1 DEF ShownInv, ShownInOrder
    <3>4. CASE j \notin DOMAIN shown
      BY <2>0, <2>1, <2>2, <2>3, <3>0, <3>1, <3>2, <3>4 DEF ShownInv
    <3>5. QED
      BY <3>3, <3>4
  <2>7. QED
    BY <2>4, <2>5, <2>6 DEF ShownInv, ShownInOrder
<1>7. QED
  BY <1>3, <1>4, <1>5, <1>6

LEMMA PushNullStep == DecoderInv /\ PushNull => DecoderInv'
<1> SUFFICES ASSUME DecoderInv, PushNull PROVE DecoderInv'
  OBVIOUS
<1> USE DEF PushNull, DecoderInv, TypeOK, history, decoding
<1>1. \A i \in DOMAIN decode_datas' :
         \/ i \in DOMAIN decode_datas /\ decode_datas'[i] = decode_datas[i]
         \/ i = Len(decode_datas) + 1 /\ decode_datas'[i] = Null
  OBVIOUS
<1>2. TypeOK'
  OBVIOUS
<1>3. PlaceInv' /\ NullInv'
  BY <1>1 DEF PlaceInv, NullInv, NullIsNotDecoded
<1>9. LongQueueIsKeys'
  BY DEF LongQueueIsKeys
<1>8. KeyInv'
  BY <1>1 DEF PlaceInv, KeyInv
<1>4. \A m \in Nat : Behind(m) => Behind(m)'
  BY <1>1 DEF Behind
<1>5. OrderInv'
  <2>1. \A i \in DOMAIN decoded : Behind(decoded[i].n)'
    BY <1>4, ItemType DEF OrderInv
  <2>2. Null.n = 0
    BY DEF Null
  <2>3. QED
    BY <1>1, <2>1, <2>2, ItemType DEF OrderInv, Ordered
<1>6. ShownInv'
  BY <1>4, DecoderAssumption DEF ShownInv, ShownInOrder
<1>7. QED
  BY <1>2, <1>3, <1>5, <1>6, <1>8, <1>9

LEMMA ResultStep == DecoderInv /\ Result => DecoderInv'
<1> SUFFICES ASSUME DecoderInv, Result PROVE DecoderInv'
  OBVIOUS
<1> USE DEF Result, DecoderInv
<1>1. datas \in Seq(Item) /\ datas # <<>> /\ datas[1] \in Packet /\ frame = datas[1].n
  BY DEF TypeOK, Item, PlaceInv, NullInv, NullIsNotDecoded
<1>2. /\ Head(datas) = datas[1] /\ datas' \in Seq(Item)
      /\ \A i \in DOMAIN datas' : /\ i \in Nat /\ i > 0 /\ i + 1 \in DOMAIN datas
                                  /\ datas'[i] = datas[i + 1]
  BY <1>1
<1>3. results \in Seq(1..MaxPackets) /\ frame \in 1..MaxPackets
  BY <1>1 DEF Packet, TypeOK
<1>4. /\ results' \in Seq(1..MaxPackets)
      /\ \A i \in DOMAIN results' :
           \/ i \in DOMAIN results /\ results'[i] = results[i]
           \/ i = Len(results) + 1 /\ results'[i] = frame
  BY <1>1, <1>2, <1>3
<1>5. TypeOK'
  BY <1>2, <1>4 DEF TypeOK, Item, history, queue
<1>6. PlaceInv' /\ NullInv' /\ LongQueueIsKeys'
  BY <1>1, <1>2 DEF PlaceInv, NullInv, NullIsNotDecoded, LongQueueIsKeys, Plain,
     history, queue
<1>7. KeyInv'
  BY <1>1, <1>2 DEF PlaceInv, KeyInv, history, queue
<1>8. \A m \in Nat : Behind(m) => Behind(m)'
  BY <1>1, <1>2 DEF Behind, history, queue
<1>9. OrderInv'
  <2>1. \A i \in DOMAIN decoded : Behind(decoded[i].n)'
    BY <1>8, ItemType DEF OrderInv, history
  <2>2. QED
    BY <1>2, <2>1, ItemType DEF OrderInv, Ordered, history, queue
<1>10. ShownInv'
  <2>1. Behind(frame)'
    BY <1>3, <1>8, DecoderAssumption DEF ShownInv
  <2>2. DOMAIN results = 1..Len(results) /\ Len(results) \in Nat
    BY <1>3, Elements
  <2>3. QED
    BY <1>3, <1>4, <2>1, <2>2, ItemType, DecoderAssumption
    DEF ShownInv, ShownInOrder, history, queue
<1>11. QED
  BY <1>5, <1>6, <1>7, <1>9, <1>10

LEMMA GetFrameStep == DecoderInv /\ GetFrame => DecoderInv'
<1> SUFFICES ASSUME DecoderInv, GetFrame PROVE DecoderInv'
  OBVIOUS
<1> USE DEF GetFrame, DecoderInv, LeaveBatch
<1>1. /\ datas \in Seq(Item) /\ decoded \in Seq(Item) /\ datas # <<>>
      /\ Head(datas) = datas[1] /\ datas[1] \in Packet
  BY DEF TypeOK, Item, PlaceInv, NullInv, NullIsNotDecoded
<1>2. datas[1].n \in 1..MaxPackets /\ datas[1] # Null /\ 1 \in DOMAIN datas
  BY <1>1 DEF Packet, Null
<1>3. /\ decoded' \in Seq(Item) /\ decoded' # <<>>
      /\ \A i \in DOMAIN decoded' :
           \/ i \in DOMAIN decoded /\ decoded'[i] = decoded[i]
           \/ i = Len(decoded) + 1 /\ decoded'[i] = datas[1]
      /\ DOMAIN decoded = 1..Len(decoded) /\ Len(decoded) \in Nat
  BY <1>1 DEF Item
<1>4. TypeOK'
  <2>1. frame' \in 0..MaxPackets
    BY <1>1, <1>2, DecoderAssumption DEF TypeOK
  <2>2. datas' = datas \/ datas' = <<>>
    OBVIOUS
  <2>3. datas' \in Seq(Item)
    <3>1. CASE datas' = datas
      BY <1>1, <3>1
    <3>2. CASE datas' = <<>>
      BY <3>2
    <3>3. QED
      BY <2>2, <3>1, <3>2
  <2>4. QED
    BY <1>3, <2>1, <2>3 DEF TypeOK, Item, queue
<1>5. PlaceInv' /\ NullInv' /\ LongQueueIsKeys'
  BY <1>1, <1>3 DEF PlaceInv, NullInv, NullIsNotDecoded, LongQueueIsKeys, Plain, queue
<1>6. KeyInv'
  <2>1. decoded'[1].key
    <3>1. CASE decoded = <<>>
      BY <1>1, <1>3, <3>1 DEF KeyInv
    <3>2. CASE decoded # <<>>
      BY <1>1, <1>3, <3>2 DEF KeyInv
    <3>3. QED
      BY <3>1, <3>2
  <2>2. from_key
    BY <1>1 DEF KeyInv, PlaceInv
  <2>3. QED
    BY <1>3, <2>1, <2>2 DEF KeyInv, PlaceInv, queue
<1>7. \A m \in Nat : Behind(m) => Behind(m)' /\ m < datas[1].n
  BY <1>2 DEF Behind, queue
<1>8. \A m \in Nat : m = datas[1].n => Behind(m)'
  BY <1>1, <1>2, ItemType DEF Behind, queue, OrderInv, Ordered
<1>9. OrderInv'
  <2>1. (\A i \in DOMAIN decoded : Behind(decoded[i].n))'
    <3>1. \A i \in DOMAIN decoded', m \in Nat : m = decoded'[i].n => Behind(m)'
      BY <1>3, <1>7, <1>8, ItemType DEF OrderInv
    <3>2. \A i \in DOMAIN decoded' : decoded'[i].n \in Nat
      BY <1>3, Numbered
    <3>3. QED
      BY <3>1, <3>2 DEF Behind
  <2>2. \A i, j \in DOMAIN decoded' : i < j => decoded'[i].n < decoded'[j].n
    BY <1>3, <1>7, ItemType DEF OrderInv
  <2>3. QED
    BY <1>1, <2>1, <2>2, ItemType DEF OrderInv, Ordered, queue
<1>10. ShownInv'
  <2>1. frame \in Nat /\ Behind(frame) /\ frame < datas[1].n
    BY <1>7, DecoderAssumption DEF TypeOK, ShownInv
  <2>2. Behind(frame)'
    BY <1>2, <1>7, <1>8, <2>1
  <2>3. QED
    BY <1>2, <2>1, <2>2, ItemType, DecoderAssumption DEF ShownInv, ShownInOrder, queue
<1>11. QED
  BY <1>4, <1>5, <1>6, <1>9, <1>10

LEMMA DecodeStep == DecoderInv /\ Decode => DecoderInv'
<1> SUFFICES ASSUME DecoderInv, Decode PROVE DecoderInv'
  OBVIOUS
<1> USE DEF DecoderInv
<1>1. /\ decode_datas = <<>> /\ datas = <<>> /\ results = <<>> /\ thread = "none"
      /\ main = "idle" /\ ~decode_async
  BY DEF Decode, PlaceInv
<1>2. /\ decode_datas' = <<>> /\ datas' = <<>> /\ results' = <<>> /\ thread' = thread
      /\ main' = main /\ received' = received + 1 /\ decode_async' = decode_async
      /\ decode_stop' = decode_stop /\ accepted' = accepted
  BY <1>1 DEF Decode, history
<1>3. received \in Nat /\ received' \in 1..MaxPackets
  BY DecoderAssumption DEF Decode, TypeOK
<1>4. PICK key \in BOOLEAN :
        \/ ~Accept(key) /\ UNCHANGED <<from_key, frame, history>>
        \/ /\ Accept(key) /\ from_key' = TRUE
           /\ decoded' = Append(decoded, [n |-> received', key |-> key])
           /\ \/ /\ frame' = received'
                 /\ shown' = Append(shown, [of |-> frame', content |-> frame'])
              \/ UNCHANGED <<frame, shown>>
  BY DEF Decode, history
<1>5. PlaceInv' /\ NullInv' /\ LongQueueIsKeys'
  BY <1>1, <1>2 DEF PlaceInv, NullInv, NullIsNotDecoded, LongQueueIsKeys
<1>6. \A m \in Nat : m <= received' => Behind(m)'
  BY <1>1, <1>2, <1>3 DEF Behind
<1>7. CASE ~Accept(key) /\ UNCHANGED <<from_key, frame, history>>
  <2>1. TypeOK'
    BY <1>1, <1>2, <1>3, <1>7 DEF TypeOK, history
  <2>2. KeyInv'
    BY <1>1, <1>2, <1>7 DEF KeyInv, history
  <2>3. OrderInv'
    BY <1>1, <1>2, <1>3, <1>7, ItemType DEF OrderInv, Ordered, Behind, history
  <2>4. ShownInv'
    BY <1>1, <1>2, <1>3, <1>7, DecoderAssumption
    DEF TypeOK, ShownInv, ShownInOrder, Behind, history
  <2>5. QED
    BY <1>5, <2>1, <2>2, <2>3, <2>4
<1>8. CASE /\ Accept(key) /\ from_key' = TRUE
           /\ decoded' = Append(decoded, [n |-> received', key |-> key])
           /\ \/ /\ frame' = received'
                 /\ shown' = Append(shown, [of |-> frame', content |-> frame'])
              \/ UNCHANGED <<frame, shown>>
  <2>1. /\ decoded' \in Seq(Item) /\ decoded' # <<>>
        /\ \A i \in DOMAIN decoded' :
             \/ i \in DOMAIN decoded /\ decoded'[i] = decoded[i]
             \/ /\ i = Len(decoded) + 1 /\ decoded'[i].n = received'
                /\ decoded'[i].key = key
        /\ DOMAIN decoded = 1..Len(decoded) /\ Len(decoded) \in Nat
    <3>1. [n |-> received', key |-> key] \in Item
      BY <1>3 DEF Item, Packet
    <3>2. decoded \in Seq(Item)
      BY DEF TypeOK, Item
    <3>3. decoded' = Append(decoded, [n |-> received', key |-> key])
      BY <1>8
    <3>4. QED
      BY <3>1, <3>2, <3>3, AppendProperties
  <2>2. frame' \in 0..MaxPackets /\ frame' <= received' /\ frame' >= frame
    <3>1. frame \in 0..MaxPackets /\ frame <= received
      BY DEF TypeOK, ShownInv, Behind
    <3>2. frame' = received' \/ frame' = frame
      BY <1>8
    <3>3. QED
      BY <1>2, <1>3, <3>1, <3>2, DecoderAssumption
  <2>3. /\ shown' \in Seq([of : 1..MaxPackets, content : 0..MaxPackets])
        /\ \A i \in DOMAIN shown' :
             \/ i \in DOMAIN shown /\ shown'[i] = shown[i]
             \/ /\ i = Len(shown) + 1 /\ frame' = received'
                /\ shown'[i].of = frame' /\ shown'[i].content = frame'
        /\ DOMAIN shown = 1..Len(shown) /\ Len(shown) \in Nat
    <3>1. shown \in Seq([of : 1..MaxPackets, content : 0..MaxPackets])
      BY DEF TypeOK
    <3>2. CASE UNCHANGED shown
      BY <3>1, <3>2, Elements
    <3>3. CASE /\ frame' = received'
               /\ shown' = Append(shown, [of |-> frame', content |-> frame'])
      <4>1. [of |-> frame', content |-> frame'] \in [of : 1..MaxPackets, content : 0..MaxPackets]
        BY <1>3, <2>2, <3>3
      <4>2. QED
        BY <3>1, <3>3, <4>1, AppendProperties
    <3>4. QED
      BY <1>8, <3>2, <3>3
  <2>4. TypeOK'
    BY <1>1, <1>2, <1>3, <1>8, <2>1, <2>2, <2>3 DEF TypeOK, Item
  <2>5. KeyInv'
    <3>1. decoded'[1].key
      BY <1>1, <1>8, <2>1 DEF KeyInv, Accept
    <3>2. QED
      BY <1>1, <1>2, <1>8, <2>1, <3>1 DEF KeyInv
  <2>6. OrderInv'
    <3>1. \A i \in DOMAIN decoded : decoded[i].n <= received /\ decoded[i].n \in Nat
      BY ItemType DEF OrderInv, Behind
    <3>2. \A i, j \in DOMAIN decoded' : i < j => decoded'[i].n < decoded'[j].n
      BY <1>2, <1>3, <2>1, <3>1 DEF OrderInv
    <3>3. \A i \in DOMAIN decoded' : decoded'[i].n <= received' /\ decoded'[i].n \in Nat
      BY <1>2, <1>3, <2>1, <3>1
    <3>4. QED
      BY <1>1, <1>2, <1>3, <3>2, <3>3 DEF OrderInv, Ordered, Behind
  <2>7. ShownInv'
    <3>1. Behind(frame)'
      BY <1>6, <2>2
    <3>2. \A i \in DOMAIN shown : shown[i].of <= frame /\ shown[i].of \in Nat
      BY ItemType DEF ShownInv
    <3>3. frame <= received
      BY DEF ShownInv, Behind
    <3>0. ShownInOrder /\ frame \in Nat
      BY DecoderAssumption DEF ShownInv, TypeOK
    <3> HIDE DEF DecoderInv
    <3>4. \A i \in DOMAIN shown' : shown'[i].of <= frame'
      BY <1>3, <2>2, <2>3, <3>0, <3>2
    <3>6. \A i \in DOMAIN shown' : shown'[i].content >= shown'[i].of
      BY <1>3, <2>2, <2>3, <3>0 DEF ShownInOrder
    <3>7. ASSUME NEW i \in DOMAIN shown', NEW j \in DOMAIN shown', i < j
          PROVE  shown'[i].of < shown'[j].of
      <4>0. j <= Len(shown) + 1 /\ i \in Nat /\ j \in Nat
        BY <2>3
      <4>1. i \in DOMAIN shown /\ shown'[i] = shown[i]
        BY <2>3, <3>7, <4>0
      <4>2. CASE j \in DOMAIN shown /\ shown'[j] = shown[j]
        BY <3>0, <3>7, <4>1, <4>2 DEF ShownInOrder
      <4>3. CASE shown'[j].of = frame' /\ frame' = received'
        BY <1>2, <1>3, <3>0, <3>2, <3>3, <4>1, <4>3
      <4>4. QED
        BY <2>3, <4>2, <4>3
    <3>5. QED
      BY <1>1, <1>2, <3>1, <3>4, <3>6, <3>7 DEF ShownInv, ShownInOrder
  <2>8. QED
    BY <1>5, <2>4, <2>5, <2>6, <2>7
<1>9. QED
  BY <1>4, <1>7, <1>8

LEMMA PushStep == DecoderInv /\ Push => DecoderInv'
<1> SUFFICES ASSUME DecoderInv, Push PROVE DecoderInv'
  OBVIOUS
<1> USE DEF DecoderInv
<1>1. PICK key \in BOOLEAN :
        \/ ~Accept(key) /\ main' = "idle" /\ UNCHANGED <<queue, history>>
        \/ /\ Accept(key) /\ from_key' = TRUE
           /\ decode_datas' = Trim(Append(decode_datas, [n |-> received, key |-> key]))
           /\ accepted' = accepted \cup {k \in {received} : key}
           /\ main' = "notify" /\ UNCHANGED <<decoded, shown>>
  BY DEF Push
<1>2. /\ main = "push" /\ UNCHANGED <<decode_async, decode_stop, decoding, received>>
      /\ decode_async /\ ~decode_stop
  BY DEF Push, PlaceInv
<1>3. CASE ~Accept(key) /\ main' = "idle" /\ UNCHANGED <<queue, history>>
  <2>1. TypeOK'
    BY <1>2, <1>3 DEF TypeOK, queue, history, decoding
  <2>2. PlaceInv' /\ NullInv' /\ KeyInv' /\ LongQueueIsKeys'
    BY <1>2, <1>3 DEF PlaceInv, NullInv, NullIsNotDecoded, KeyInv, LongQueueIsKeys,
       Plain, queue, history, decoding
  <2>3. OrderInv'
    BY <1>2, <1>3 DEF OrderInv, Ordered, Behind, queue, history, decoding
  <2>4. ShownInv'
    BY <1>2, <1>3 DEF ShownInv, ShownInOrder, Behind, queue, history, decoding
  <2>5. QED
    BY <2>1, <2>2, <2>3, <2>4
<1>4. CASE /\ Accept(key) /\ from_key' = TRUE
           /\ decode_datas' = Trim(Append(decode_datas, [n |-> received, key |-> key]))
           /\ accepted' = accepted \cup {k \in {received} : key}
           /\ main' = "notify" /\ UNCHANGED <<decoded, shown>>
  <2> DEFINE p == [n |-> received, key |-> key]
             q == Append(decode_datas, p)
  <2>1. received \in 1..MaxPackets
    <3>1. Behind(frame) /\ frame \in Nat /\ received \in 0..MaxPackets
      BY DecoderAssumption DEF TypeOK, ShownInv
    <3>2. frame < received
      BY <1>2, <3>1 DEF Behind
    <3>3. QED
      BY <3>1, <3>2, DecoderAssumption
  <2>2. p \in Packet /\ p \in Item /\ p # Null /\ p.n = received /\ p.key = key
    BY <2>1 DEF Packet, Item, Null
  <2>3. decode_datas \in Seq(Item) /\ \A i \in DOMAIN decode_datas : decode_datas[i] # Null
    BY <1>2 DEF TypeOK, Item, NullInv
  <2> HIDE DEF p
  <2>4. /\ q \in Seq(Item) /\ q # <<>> /\ Len(q) = Len(decode_datas) + 1
        /\ DOMAIN decode_datas = 1..Len(decode_datas) /\ Len(decode_datas) \in Nat
        /\ \A i \in DOMAIN q : \/ i \in DOMAIN decode_datas /\ q[i] = decode_datas[i]
                               \/ i = Len(decode_datas) + 1 /\ q[i] = p
        /\ DOMAIN q = 1..Len(decode_datas) + 1
    BY <2>2, <2>3, AppendProperties
  <2>5. decode_datas' = Trim(q)
    BY <1>4 DEF p
  <2> HIDE DEF q
  <2>6. /\ decode_datas' \in Seq(Item)
        /\ \A i \in DOMAIN decode_datas' : \E a \in DOMAIN q : decode_datas'[i] = q[a]
        /\ \A i, j \in DOMAIN decode_datas' : i < j =>
             \E a, b \in DOMAIN q :
               a < b /\ decode_datas'[i] = q[a] /\ decode_datas'[j] = q[b]
        /\ q[1].key => decode_datas' # <<>> /\ decode_datas'[1] = q[1]
        /\ Len(q) <= decode_datas_maxsize + 1 \/ (\A i \in 1..Len(q) - 1 : q[i].key)
             => Len(decode_datas') <= decode_datas_maxsize \/ Plain(decode_datas') = {}
    <3> DEFINE t == Trim(q)
    <3>1. /\ t \in Seq(Item)
          /\ \A i \in DOMAIN t : \E a \in DOMAIN q : t[i] = q[a]
          /\ \A i, j \in DOMAIN t : i < j =>
               \E a, b \in DOMAIN q : a < b /\ t[i] = q[a] /\ t[j] = q[b]
          /\ q # <<>> /\ q[1].key => t # <<>> /\ t[1] = q[1]
          /\ Len(q) <= decode_datas_maxsize + 1 \/ (\A i \in 1..Len(q) - 1 : q[i].key)
               => Len(t) <= decode_datas_maxsize \/ Plain(t) = {}
      <4> HIDE DEF DecoderInv
      <4>1. q \in Seq(Item)
        BY <2>4
      <4>2. QED
        BY <4>1, TrimProperties
    <3>2. decode_datas' = t
      BY <2>5
    <3> HIDE DEF t
    <3>3. QED
      BY <2>4, <3>1, <3>2
  <2>7. \A i \in DOMAIN q : q[i] # Null /\ q[i].n \in Nat /\ q[i].n <= received
    BY <1>2, <2>1, <2>2, <2>3, <2>4, ItemType DEF OrderInv
  <2>8. TypeOK'
    BY <1>2, <1>4, <2>1, <2>6 DEF TypeOK, Item, decoding
  <2>9. PlaceInv' /\ NullInv'
    BY <1>2, <1>4, <2>6, <2>7 DEF PlaceInv, NullInv, NullIsNotDecoded, decoding
  <2>10. KeyInv'
    <3>1. decoded = <<>> /\ datas = <<>> => q[1].key
      BY <1>2, <1>4, <2>2, <2>4 DEF KeyInv, Accept
    <3>2. QED
      BY <1>2, <1>4, <2>6, <3>1 DEF KeyInv, decoding
  <2>11. LongQueueIsKeys'
    <3>1. Len(decode_datas) <= decode_datas_maxsize \/ Plain(decode_datas) = {}
      <4>1. CASE decode_datas = <<>>
        BY <4>1, DecoderAssumption
      <4>2. CASE decode_datas # <<>>
        BY <2>3, <2>4, <4>2, DecoderAssumption DEF LongQueueIsKeys
      <4>3. QED
        BY <4>1, <4>2
    <3>2. CASE Len(decode_datas) <= decode_datas_maxsize
      BY <2>4, <2>6, <3>2, DecoderAssumption, Elements DEF LongQueueIsKeys
    <3>3. CASE Plain(decode_datas) = {}
      <4>1. \A i \in 1..Len(q) - 1 : q[i].key
        BY <2>4, <3>3 DEF Plain
      <4>2. QED
        BY <2>6, <4>1, DecoderAssumption, Elements DEF LongQueueIsKeys
    <3>4. QED
      BY <3>1, <3>2, <3>3
  <2>12. \A m \in Nat : Behind(m) => Behind(m)'
    BY <1>2, <1>4, <2>2, <2>4, <2>6, <2>7 DEF Behind, decoding
  <2>13. OrderInv'
    <3>1. \A a, b \in DOMAIN q : a < b => q[a].n < q[b].n
      BY <1>2, <2>1, <2>2, <2>3, <2>4 DEF OrderInv, Ordered
    <3>2. Ordered(decode_datas)'
      BY <2>6, <2>7, <3>1 DEF Ordered
    <3>3. \A i \in DOMAIN datas, a \in DOMAIN q : datas[i].n < q[a].n
      BY <1>2, <2>2, <2>3, <2>4 DEF OrderInv
    <3>4. \A i \in DOMAIN decoded : Behind(decoded[i].n)'
      BY <1>4, <2>12, ItemType DEF OrderInv
    <3>5. QED
      BY <1>2, <1>4, <2>6, <2>7, <3>2, <3>3, <3>4 DEF OrderInv, Ordered, decoding
  <2>14. ShownInv'
    BY <1>2, <1>4, <2>12, DecoderAssumption DEF TypeOK, ShownInv, ShownInOrder, decoding
  <2>15. QED
    BY <2>8, <2>9, <2>10, <2>11, <2>13, <2>14
<1>5. QED
  BY <1>1, <1>3, <1>4

(* Steps that move no packet, and those that hand on or leave a batch. *)
Control == \/ Notify \/ LookAtResults \/ ThreadStop \/ NotifyNull \/ Join
           \/ Loop \/ Take \/ Taken \/ NextData

LEMMA ControlStep == DecoderInv /\ Control => DecoderInv'
<1> SUFFICES ASSUME DecoderInv, Control PROVE DecoderInv'
  OBVIOUS
<1> USE DEF DecoderInv, history, queue, decoding
<1>1. CASE Notify
  <2> USE <1>1 DEF Notify, Wake
  <2>1. TypeOK'
    BY DEF TypeOK
  <2>2. PlaceInv' /\ NullInv' /\ KeyInv' /\ LongQueueIsKeys'
    BY DEF PlaceInv, NullInv, NullIsNotDecoded, KeyInv, LongQueueIsKeys, Plain
  <2>3. OrderInv'
    BY DEF PlaceInv, OrderInv, Ordered, Behind
  <2>4. ShownInv'
    BY DEF PlaceInv, ShownInv, ShownInOrder, Behind
  <2>5. QED
    BY <2>1, <2>2, <2>3, <2>4
<1>2. CASE LookAtResults
  <2> USE <1>2 DEF LookAtResults
  <2>1. TypeOK'
    BY DEF TypeOK
  <2>2. PlaceInv' /\ NullInv' /\ KeyInv' /\ LongQueueIsKeys'
    BY DEF PlaceInv, NullInv, NullIsNotDecoded, KeyInv, LongQueueIsKeys, Plain
  <2>3. OrderInv'
    BY DEF PlaceInv, OrderInv, Ordered, Behind
  <2>4. ShownInv'
    BY DEF PlaceInv, ShownInv, ShownInOrder, Behind
  <2>5. QED
    BY <2>1, <2>2, <2>3, <2>4
<1>3. CASE ThreadStop
  <2> USE <1>3 DEF ThreadStop
  <2>1. TypeOK'
    BY DEF TypeOK
  <2>2. PlaceInv' /\ NullInv' /\ KeyInv' /\ LongQueueIsKeys'
    BY DEF PlaceInv, NullInv, NullIsNotDecoded, KeyInv, LongQueueIsKeys, Plain
  <2>3. OrderInv'
    BY DEF PlaceInv, OrderInv, Ordered, Behind
  <2>4. ShownInv'
    BY DEF PlaceInv, ShownInv, ShownInOrder, Behind
  <2>5. QED
    BY <2>1, <2>2, <2>3, <2>4
<1>4. CASE NotifyNull
  <2> USE <1>4 DEF NotifyNull, Wake
  <2>1. TypeOK'
    BY DEF TypeOK
  <2>2. PlaceInv' /\ NullInv' /\ KeyInv' /\ LongQueueIsKeys'
    BY DEF PlaceInv, NullInv, NullIsNotDecoded, KeyInv, LongQueueIsKeys, Plain
  <2>3. OrderInv'
    BY DEF PlaceInv, OrderInv, Ordered, Behind
  <2>4. ShownInv'
    BY DEF PlaceInv, ShownInv, ShownInOrder, Behind
  <2>5. QED
    BY <2>1, <2>2, <2>3, <2>4
<1>5. CASE Join
  <2> USE <1>5 DEF Join
  <2>1. TypeOK'
    BY DEF TypeOK
  <2>2. PlaceInv' /\ NullInv' /\ KeyInv' /\ LongQueueIsKeys'
    BY DEF PlaceInv, NullInv, NullIsNotDecoded, KeyInv, LongQueueIsKeys, Plain
  <2>3. OrderInv'
    BY DEF PlaceInv, OrderInv, Ordered, Behind
  <2>4. ShownInv'
    BY DEF PlaceInv, ShownInv, ShownInOrder, Behind
  <2>5. QED
    BY <2>1, <2>2, <2>3, <2>4
<1>6. CASE Loop
  <2> USE <1>6 DEF Loop
  <2>1. TypeOK'
    BY DEF TypeOK
  <2>2. PlaceInv' /\ NullInv' /\ KeyInv' /\ LongQueueIsKeys'
    BY DEF PlaceInv, NullInv, NullIsNotDecoded, KeyInv, LongQueueIsKeys, Plain
  <2>3. OrderInv'
    BY DEF PlaceInv, OrderInv, Ordered, Behind
  <2>4. ShownInv'
    BY DEF PlaceInv, ShownInv, ShownInOrder, Behind
  <2>5. QED
    BY <2>1, <2>2, <2>3, <2>4
<1>7. CASE Take
  <2> USE <1>7 DEF Take
  <2>1. TypeOK'
    BY DEF TypeOK
  <2>2. PlaceInv' /\ NullInv' /\ KeyInv' /\ LongQueueIsKeys'
    BY DEF PlaceInv, NullInv, NullIsNotDecoded, KeyInv, LongQueueIsKeys, Plain
  <2>3. OrderInv'
    BY DEF PlaceInv, OrderInv, Ordered, Behind
  <2>4. ShownInv'
    BY DEF PlaceInv, ShownInv, ShownInOrder, Behind
  <2>5. QED
    BY <2>1, <2>2, <2>3, <2>4
<1>8. CASE Taken
  <2> USE <1>8 DEF Taken
  <2>1. TypeOK'
    BY DEF TypeOK
  <2>2. PlaceInv' /\ NullInv' /\ KeyInv' /\ LongQueueIsKeys'
    BY DEF PlaceInv, NullInv, NullIsNotDecoded, KeyInv, LongQueueIsKeys, Plain
  <2>3. OrderInv'
    BY DEF PlaceInv, OrderInv, Ordered, Behind
  <2>4. ShownInv'
    BY DEF PlaceInv, ShownInv, ShownInOrder, Behind
  <2>5. QED
    BY <2>1, <2>2, <2>3, <2>4
<1>9. CASE NextData
  <2> USE <1>9 DEF NextData, LeaveBatch
  <2>1. TypeOK'
    <3>1. datas' = datas \/ datas' = <<>>
      OBVIOUS
    <3>2. datas' \in Seq(Packet \cup {Null})
      <4>1. CASE datas' = datas
        BY <4>1 DEF TypeOK
      <4>2. CASE datas' = <<>>
        BY <4>2
      <4>3. QED
        BY <3>1, <4>1, <4>2
    <3>3. thread' \in {"loop", "decode"}
      OBVIOUS
    <3>4. QED
      BY <3>2, <3>3 DEF TypeOK
  <2>2. PlaceInv' /\ NullInv' /\ KeyInv' /\ LongQueueIsKeys'
    BY DEF PlaceInv, NullInv, NullIsNotDecoded, KeyInv, LongQueueIsKeys, Plain
  <2>3. OrderInv'
    BY DEF PlaceInv, OrderInv, Ordered, Behind
  <2>4. ShownInv'
    BY DEF PlaceInv, ShownInv, ShownInOrder, Behind
  <2>5. QED
    BY <2>1, <2>2, <2>3, <2>4
<1>10. QED
  BY <1>1, <1>2, <1>3, <1>4, <1>5, <1>6, <1>7, <1>8, <1>9 DEF Control

-----------------------------------------------------------------------------
LEMMA DecoderStart == Init => DecoderInv
<1> SUFFICES ASSUME Init PROVE DecoderInv
  OBVIOUS
<1> USE DecoderAssumption DEF Init, InitDecoder
<1>1. TypeOK
  <2>1. decode_async \in BOOLEAN /\ from_key \in BOOLEAN /\ decode_stop \in BOOLEAN
    OBVIOUS
  <2>2. /\ decode_datas \in Seq(Packet \cup {Null}) /\ datas \in Seq(Packet \cup {Null})
        /\ decoded \in Seq(Packet \cup {Null}) /\ results \in Seq(1..MaxPackets)
        /\ shown \in Seq([of : 1..MaxPackets, content : 0..MaxPackets])
    OBVIOUS
  <2>3. QED
    BY <2>1, <2>2 DEF TypeOK
<1>2. PlaceInv /\ NullInv /\ OrderInv /\ KeyInv /\ ShownInv /\ LongQueueIsKeys
  BY DEF PlaceInv, NullInv, NullIsNotDecoded, OrderInv, Ordered, Behind, KeyInv,
     ShownInv, ShownInOrder, LongQueueIsKeys
<1>3. QED
  BY <1>1, <1>2 DEF DecoderInv

LEMMA DecoderStep == DecoderInv /\ [Next]_vars => DecoderInv'
<1> SUFFICES ASSUME DecoderInv, [Next]_vars PROVE DecoderInv'
  OBVIOUS
<1>1. CASE Next
  BY <1>1, ThreadStartStep, PushStep, DeliverStep, DecodeStep, PushNullStep,
     GetFrameStep, ResultStep, ControlStep
  DEF Next, DecodeAsync, Stopping, ThreadRun, Control
<1>2. CASE UNCHANGED vars
  BY <1>2 DEF vars, history, queue, decoding, DecoderInv, TypeOK, PlaceInv, NullInv,
     NullIsNotDecoded, OrderInv, Ordered, Behind, KeyInv, ShownInv, ShownInOrder,
     LongQueueIsKeys, Plain
<1>3. QED
  BY <1>1, <1>2

THEOREM DecoderInvariant == Spec => []DecoderInv
<1>1. QED
  BY DecoderStart, DecoderStep, PTL DEF Spec

(* Every variable keeps its type. *)
THEOREM DecoderTypes == Spec => []TypeOK
<1>1. DecoderInv => TypeOK
  BY DEF DecoderInv
<1>2. QED
  BY <1>1, DecoderInvariant, PTL

(***************************************************************************)
(* The null packet of ThreadStop() is never handed to the codec.           *)
(***************************************************************************)
THEOREM NullStaysOut == Spec => []NullIsNotDecoded
<1>1. DecoderInv => NullIsNotDecoded
  BY DEF DecoderInv, NullInv
<1>2. QED
  BY <1>1, DecoderInvariant, PTL

(***************************************************************************)
(* A queue beyond decode_datas_maxsize_ holds nothing but key packets.     *)
(***************************************************************************)
THEOREM QueueBound == Spec => []LongQueueIsKeys
<1>1. DecoderInv => LongQueueIsKeys
  BY DEF DecoderInv
<1>2. QED
  BY <1>1, DecoderInvariant, PTL

(***************************************************************************)
(* The codec gets packets in the order they came, a key packet first.      *)
(***************************************************************************)
THEOREM DecodingOrder == Spec => []DecodedInOrder
<1>1. DecoderInv => DecodedInOrder
  BY DEF DecoderInv, OrderInv, KeyInv, DecodedInOrder
<1>2. QED
  BY <1>1, DecoderInvariant, PTL

-----------------------------------------------------------------------------
(* Where an accepted key packet is, or why it is nowhere. *)
Waits(k) == \/ \E i \in DOMAIN decode_datas : decode_datas[i].n = k
            \/ \E i \in DOMAIN datas : datas[i].n = k
Decoded(k) == \E i \in DOMAIN decoded : decoded[i].n = k
Lost(k) == \E i \in DOMAIN decoded : decoded[i].n < k /\ decoded[i].n \notin Framed

(* What has been accepted has been received, and is a key packet where it  *)
(* waits; a packet with a frame has been decoded; a decoder that has not   *)
(* been started has accepted nothing.                                      *)
KeptInv ==
    /\ ~decode_stop => \A k \in accepted : Waits(k) \/ Decoded(k) \/ Lost(k)
    /\ \A k \in accepted : k <= received /\ (main = "push" => k < received)
    /\ \A i \in DOMAIN decode_datas :
         decode_datas[i].n \in accepted => decode_datas[i].key
    /\ thread = "result" => Decoded(datas[1].n)
    /\ decode_stop /\ main = "idle" => accepted = {}

(* A step adds to the packets with a frame at most the one that is being   *)
(* decoded, which is newer than all that have been decoded.                *)
LEMMA FramedStep ==
  ASSUME DecoderInv, ~decode_stop, Next
  PROVE  \A i \in DOMAIN decoded : decoded[i].n \in Framed' => decoded[i].n \in Framed
<1>1. decode_async
  BY DEF DecoderInv, PlaceInv
<1>2. CASE /\ UNCHANGED <<shown, results>>
           /\ thread' = "result" => thread = "result" /\ UNCHANGED datas
  BY <1>2 DEF Framed
<1>3. CASE Deliver
  <2> USE <1>3 DEF Deliver, queue
  <2> DEFINE new == [i \in DOMAIN results |-> [of |-> results[i], content |-> frame]]
  <2>1. /\ shown \in Seq([of : 1..MaxPackets, content : 0..MaxPackets])
        /\ results \in Seq(1..MaxPackets) /\ frame \in 0..MaxPackets
    BY DEF DecoderInv, TypeOK
  <2>2. new \in Seq([of : 1..MaxPackets, content : 0..MaxPackets]) /\ Len(new) = Len(results)
    <3>1. \A i \in DOMAIN results : results[i] \in 1..MaxPackets
      BY <2>1, Elements
    <3>2. new \in [1..Len(results) -> [of : 1..MaxPackets, content : 0..MaxPackets]]
      BY <2>1, <3>1
    <3>3. QED
      BY <2>1, <3>2
  <2>3. shown' = shown \o new
    BY DEF Show
  <2>4. \A i \in DOMAIN shown' : \/ i \in DOMAIN shown /\ shown'[i] = shown[i]
                                 \/ /\ i - Len(shown) \in DOMAIN results
                                    /\ shown'[i].of = results[i - Len(shown)]
    <3>1. \A j \in DOMAIN results : new[j].of = results[j]
      OBVIOUS
    <3>2. DOMAIN results = 1..Len(results) /\ Len(results) \in Nat
      BY <2>1, Elements
    <3> HIDE DEF new
    <3>3. \A i \in DOMAIN shown' :
             \/ i \in DOMAIN shown /\ shown'[i] = shown[i]
             \/ i - Len(shown) \in 1..Len(results) /\ shown'[i] = new[i - Len(shown)]
      BY <2>1, <2>2, <2>3, Joined
    <3>4. QED
      BY <3>1, <3>2, <3>3, <2>2
  <2>5. DOMAIN results' = {}
    OBVIOUS
  <2>6. QED
    BY <2>4, <2>5 DEF Framed
<1>4. CASE GetFrame
  <2> USE <1>4 DEF GetFrame, LeaveBatch
  <2>1. UNCHANGED <<shown, results>>
    BY DEF queue
  <2>2. CASE thread' # "result"
    BY <2>1, <2>2 DEF Framed
  <2>3. CASE thread' = "result"
    <3>1. datas' = datas /\ datas # <<>> /\ datas[1] \in Packet /\ datas \in Seq(Item)
      BY <2>3 DEF DecoderInv, TypeOK, Item, PlaceInv, NullInv, NullIsNotDecoded
    <3>2. \A i \in DOMAIN decoded : decoded[i].n # Head(datas).n
      <4>1. Head(datas) = datas[1] /\ 1 \in DOMAIN datas /\ datas[1] # Null
        BY <3>1 DEF Packet, Null
      <4>2. \A i \in DOMAIN decoded : decoded[i].n < datas[1].n
        BY <4>1 DEF DecoderInv, OrderInv, Behind
      <4>3. \A i \in DOMAIN decoded : decoded[i].n \in Nat
        BY ItemType DEF DecoderInv
      <4>4. datas[1].n \in Nat
        BY <4>1, ItemType DEF DecoderInv
      <4>5. QED
        BY <4>1, <4>2, <4>3, <4>4
    <3>3. QED
      BY <2>1, <3>1, <3>2 DEF Framed
  <2>4. QED
    BY <2>2, <2>3
<1>5. CASE Result
  <2> USE <1>5 DEF Result, history
  <2>1. results \in Seq(1..MaxPackets) /\ Head(datas).n \in 1..MaxPackets
    BY DEF DecoderInv, TypeOK, PlaceInv, NullInv, NullIsNotDecoded, Packet
  <2>2. \A i \in DOMAIN results' :
          \/ i \in DOMAIN results /\ results'[i] = results[i]
          \/ results'[i] = Head(datas).n
    BY <2>1
  <2>3. shown' = shown
    OBVIOUS
  <2>4. QED
    BY <2>2, <2>3 DEF Framed
<1>6. QED
  <2>1. CASE ThreadStart \/ Push \/ Notify \/ LookAtResults \/ ThreadStop
    <3>1. \/ UNCHANGED <<thread, datas, shown, results>>
          \/ thread' # "result" /\ UNCHANGED <<shown, results>>
      BY <2>1 DEF ThreadStart, Push, Notify, Wake, LookAtResults, ThreadStop, queue,
         decoding, history
    <3>2. QED
      BY <1>2, <3>1
  <2>2. CASE Stopping
    BY <1>1, <2>2 DEF Stopping, PushNull, NotifyNull, Join, DecoderInv, PlaceInv
  <2>3. CASE Loop \/ Take \/ Taken \/ NextData
    <3>1. thread' # "result" /\ UNCHANGED <<shown, results>>
      BY <2>3 DEF Loop, Take, Taken, NextData, LeaveBatch, queue, history
    <3>2. QED
      BY <1>2, <3>1
  <2>4. QED
    BY <1>1, <1>3, <1>4, <1>5, <2>1, <2>2, <2>3
    DEF Next, DecodeAsync, Decode, ThreadRun

(* What has been decoded, and what was lost behind a packet, stays so. *)
LEMMA LostStays ==
  ASSUME DecoderInv, ~decode_stop, Next, NEW k
  PROVE  Decoded(k) \/ Lost(k) => Decoded(k)' \/ Lost(k)'
<1>1. \A i \in DOMAIN decoded : i \in DOMAIN decoded' /\ decoded'[i] = decoded[i]
  <2>1. decoded \in Seq(Item)
    BY DEF DecoderInv, TypeOK, Item
  <2>2. CASE GetFrame
    <3>1. Head(datas) \in Item /\ decoded' = Append(decoded, Head(datas))
      BY <2>2 DEF GetFrame, DecoderInv, PlaceInv, TypeOK, Item
    <3>2. QED
      BY <2>1, <3>1
  <2>3. CASE UNCHANGED decoded
    BY <2>3
  <2>4. decode_async
    BY DEF DecoderInv, PlaceInv
  <2>5. QED
    BY <2>2, <2>3, <2>4 DEF Next, DecodeAsync, Stopping, ThreadRun, ThreadStart, Push,
       Notify, LookAtResults, Deliver, Decode, ThreadStop, PushNull, NotifyNull, Join,
       Loop, Take, Taken, NextData, Result, history
<1>2. QED
  BY <1>1, FramedStep DEF Decoded, Lost

(* What stays where it is, is in the batch instead of in the queue, or has *)
(* been decoded, is kept.                                                  *)
LEMMA StaysKept ==
  ASSUME DecoderInv, KeptInv, ~decode_stop, Next, accepted' = accepted,
         \A k \in accepted : Waits(k) => Waits(k)' \/ Decoded(k)' \/ Lost(k)'
  PROVE  \A k \in accepted' : Waits(k)' \/ Decoded(k)' \/ Lost(k)'
BY LostStays DEF KeptInv

LEMMA KeptStep == DecoderInv /\ KeptInv /\ Next => KeptInv'
<1> SUFFICES ASSUME DecoderInv, KeptInv, Next PROVE KeptInv'
  OBVIOUS
<1>1. CASE Push
  <2>1. PICK key \in BOOLEAN :
          \/ ~Accept(key) /\ main' = "idle" /\ UNCHANGED <<queue, history>>
          \/ /\ decode_datas' = Trim(Append(decode_datas, [n |-> received, key |-> key]))
             /\ accepted' = accepted \cup {k \in {received} : key}
             /\ main' = "notify"
    BY <1>1 DEF Push
  <2>2. /\ main = "push" /\ UNCHANGED <<decode_stop, datas, received>>
        /\ ~decode_stop
    BY <1>1 DEF Push, decoding, DecoderInv, PlaceInv
  <2>a. (thread = "result" => Decoded(datas[1].n))'
    BY <1>1 DEF KeptInv, Push, decoding, history, Decoded
  <2>3. CASE ~Accept(key) /\ main' = "idle" /\ UNCHANGED <<queue, history>>
    <3>1. \A k \in accepted : Waits(k) => Waits(k)'
      BY <2>2, <2>3 DEF Waits, queue
    <3>2. \A k \in accepted' : Waits(k)' \/ Decoded(k)' \/ Lost(k)'
      BY <2>2, <2>3, <3>1, StaysKept DEF history
    <3>3. QED
      BY <2>2, <2>3, <2>a, <3>2 DEF KeptInv, queue, history
  <2>4. CASE /\ decode_datas' = Trim(Append(decode_datas, [n |-> received, key |-> key]))
             /\ accepted' = accepted \cup {k \in {received} : key}
             /\ main' = "notify"
    <3> DEFINE p == [n |-> received, key |-> key]
               q == Append(decode_datas, p)
    <3>1. received \in Nat /\ \A k \in accepted : k < received /\ k \in Nat
      <4>1. received \in 0..MaxPackets /\ accepted \subseteq 1..MaxPackets
        BY DEF DecoderInv, TypeOK
      <4>2. \A k \in accepted : k < received
        BY <2>2 DEF KeptInv
      <4>3. QED
        BY <4>1, <4>2, DecoderAssumption
    <3>2. received \in 1..MaxPackets
      <4>1. Behind(frame) /\ frame \in Nat /\ received \in 0..MaxPackets
        BY DecoderAssumption DEF DecoderInv, TypeOK, ShownInv
      <4>2. frame < received
        BY <2>2, <4>1 DEF Behind
      <4>3. QED
        BY <4>1, <4>2, DecoderAssumption
    <3>3. p \in Item /\ p.n = received /\ p.key = key
      BY <3>2 DEF Item, Packet
    <3>4. decode_datas \in Seq(Item)
      BY DEF DecoderInv, TypeOK, Item
    <3> HIDE DEF p
    <3>5. /\ q \in Seq(Item)
          /\ DOMAIN q = 1..Len(q) /\ Len(q) = Len(decode_datas) + 1
          /\ DOMAIN decode_datas = 1..Len(decode_datas) /\ Len(decode_datas) \in Nat
          /\ \A i \in DOMAIN q : \/ i \in DOMAIN decode_datas /\ q[i] = decode_datas[i]
                                 \/ i = Len(decode_datas) + 1 /\ q[i] = p
          /\ \A i \in DOMAIN decode_datas : i \in DOMAIN q /\ q[i] = decode_datas[i]
          /\ Len(decode_datas) + 1 \in DOMAIN q /\ q[Len(decode_datas) + 1] = p
      BY <3>3, <3>4
    <3>6. decode_datas' = Trim(q)
      BY <2>4 DEF p
    <3> HIDE DEF q
    <3>7. /\ \A i \in DOMAIN decode_datas' : \E a \in DOMAIN q : decode_datas'[i] = q[a]
          /\ \A a \in DOMAIN q : q[a].key =>
               \E i \in DOMAIN decode_datas' : decode_datas'[i] = q[a]
      <4>1. q \in Seq(Item)
        BY <3>5
      <4>2. /\ \A i \in DOMAIN Trim(q) : \E a \in DOMAIN q : Trim(q)[i] = q[a]
            /\ \A a \in DOMAIN q : q[a].key => \E i \in DOMAIN Trim(q) : Trim(q)[i] = q[a]
        BY <4>1, TrimProperties
      <4>3. QED
        BY <3>6, <4>2
    <3>8. \A a \in DOMAIN q : q[a].n \in accepted' => q[a].key
      <4>1. \A a \in DOMAIN decode_datas : decode_datas[a].n # received
        <5>1. \A a \in DOMAIN decode_datas : decode_datas[a].n \in Nat
                                             /\ decode_datas[a].n < received
          BY <2>2, ItemType DEF DecoderInv, OrderInv
        <5>2. QED
          BY <3>1, <5>1
      <4>2. received \notin accepted
        BY <3>1
      <4>3. QED
        BY <2>4, <3>3, <3>5, <4>1, <4>2 DEF KeptInv
    <3>9. ASSUME NEW k \in accepted'
          PROVE  Waits(k)' \/ Decoded(k)' \/ Lost(k)'
      <4>1. CASE \E a \in DOMAIN q : q[a].n = k
        BY <3>7, <3>8, <4>1 DEF Waits
      <4>2. CASE ~\E a \in DOMAIN q : q[a].n = k
        <5>1. k \in accepted
          BY <2>4, <3>3, <3>5, <4>2
        <5>2. Waits(k) => Waits(k)'
          BY <2>2, <3>5, <4>2 DEF Waits
        <5>3. Waits(k) \/ Decoded(k) \/ Lost(k)
          BY <2>2, <5>1 DEF KeptInv
        <5>4. Decoded(k) \/ Lost(k) => Decoded(k)' \/ Lost(k)'
          BY <2>2, LostStays
        <5>5. QED
          BY <5>2, <5>3, <5>4
      <4>3. QED
        BY <4>1, <4>2
    <3>10. \A k \in accepted' : k <= received'
      BY <2>2, <2>4, <3>1
    <3>11. \A i \in DOMAIN decode_datas' :
             decode_datas'[i].n \in accepted' => decode_datas'[i].key
      BY <3>7, <3>8
    <3>12. QED
      BY <2>2, <2>4, <2>a, <3>9, <3>10, <3>11 DEF KeptInv
  <2>5. QED
    BY <2>1, <2>3, <2>4
<1>2. CASE ThreadStart
  <2> USE <1>2 DEF ThreadStart, queue, history
  <2>1. received \in Nat /\ received' = received + 1
    BY DecoderAssumption DEF DecoderInv, TypeOK
  <2>2. accepted \subseteq Nat
    <3>1. accepted \subseteq 1..MaxPackets
      BY DEF DecoderInv, TypeOK
    <3>2. QED
      BY <3>1, DecoderAssumption
  <2>3. \A k \in accepted' : k <= received' /\ k < received'
    <3>1. \A k \in accepted : k <= received
      BY DEF KeptInv
    <3>2. \A k \in accepted : k < received + 1
      BY <2>1, <2>2, <3>1
    <3>3. QED
      BY <2>1, <2>2, <3>2
  <2>4. ~decode_stop => \A k \in accepted' : Waits(k)' \/ Decoded(k)' \/ Lost(k)'
    <3>1. \A k \in accepted : Waits(k) => Waits(k)'
      BY DEF Waits
    <3>2. QED
      BY <3>1, StaysKept
  <2>5. (thread = "result" => Decoded(datas[1].n))'
    BY DEF KeptInv, Decoded
  <2>6. QED
    BY <2>3, <2>4, <2>5 DEF KeptInv
<1>3. CASE GetFrame
  <2> USE <1>3 DEF GetFrame, LeaveBatch, queue
  <2>1. /\ datas \in Seq(Item) /\ decoded \in Seq(Item) /\ datas # <<>>
        /\ Head(datas) = datas[1] /\ datas[1] \in Packet
    BY DEF DecoderInv, TypeOK, Item, PlaceInv, NullInv, NullIsNotDecoded
  <2>2. /\ datas[1] # Null /\ 1 \in DOMAIN datas /\ datas[1].n \in Nat
    BY <2>1 DEF Packet, Null
  <2>3. /\ Len(decoded) + 1 \in DOMAIN decoded'
        /\ decoded'[Len(decoded) + 1] = datas[1]
    BY <2>1
  <2>4. ~decode_stop => \A k \in accepted' : Waits(k)' \/ Decoded(k)' \/ Lost(k)'
    <3> SUFFICES ASSUME ~decode_stop
                 PROVE  \A k \in accepted' : Waits(k)' \/ Decoded(k)' \/ Lost(k)'
      OBVIOUS
    <3>1. CASE datas' = datas
      <4>1. \A k \in accepted : Waits(k) => Waits(k)'
        BY <3>1 DEF Waits
      <4>2. QED
        BY <4>1, StaysKept
    <3>2. CASE datas' = <<>> /\ thread' = "loop" /\ frame' = frame
      <4>1. datas[1].n \notin Framed'
        <5>1. frame \in Nat /\ frame < datas[1].n
          BY <2>2, DecoderAssumption DEF DecoderInv, TypeOK, ShownInv, Behind
        <5>2. \A i \in DOMAIN shown : shown[i].of \in Nat /\ shown[i].of <= frame
          BY ItemType DEF DecoderInv, ShownInv
        <5>3. results \in Seq(1..MaxPackets)
          BY DEF DecoderInv, TypeOK
        <5>4. \A i \in DOMAIN results : results[i] \in Nat /\ results[i] <= frame
          BY <5>3, DecoderAssumption DEF DecoderInv, ShownInv
        <5>5. UNCHANGED <<shown, results>> /\ thread' # "result"
          BY <3>2
        <5>6. QED
          BY <2>2, <5>1, <5>2, <5>4, <5>5 DEF Framed
      <4>2. ASSUME NEW k \in accepted, NEW i \in DOMAIN datas, datas[i].n = k
            PROVE  Decoded(k)' \/ Lost(k)'
        <5>1. CASE i = 1
          BY <2>3, <4>2, <5>1 DEF Decoded
        <5>2. CASE i # 1
          <6>1. datas[i] # Null
            BY DEF DecoderInv, NullInv
          <6>2. datas[1].n < datas[i].n
            BY <2>1, <2>2, <5>2, <6>1 DEF DecoderInv, OrderInv, Ordered
          <6>3. QED
            BY <2>3, <4>1, <4>2, <6>2 DEF Lost
        <5>3. QED
          BY <5>1, <5>2
      <4>3. \A k \in accepted : Waits(k) => Waits(k)' \/ Decoded(k)' \/ Lost(k)'
        BY <4>2 DEF Waits
      <4>4. QED
        BY <4>3, StaysKept
    <3>3. QED
      BY <3>1, <3>2
  <2>5. (thread = "result" => Decoded(datas[1].n))'
    BY <2>3 DEF Decoded
  <2>6. QED
    BY <2>4, <2>5 DEF KeptInv
<1>4. CASE Result
  <2> USE <1>4 DEF Result, queue, history
  <2>1. datas \in Seq(Item) /\ datas # <<>> /\ decoded # <<>>
    BY DEF DecoderInv, TypeOK, Item, PlaceInv
  <2>2. \A i \in DOMAIN datas : i = 1 \/ (i - 1 \in DOMAIN datas' /\ datas'[i - 1] = datas[i])
    BY <2>1
  <2>3. Decoded(datas[1].n)
    BY DEF KeptInv
  <2>4. ~decode_stop => \A k \in accepted' : Waits(k)' \/ Decoded(k)' \/ Lost(k)'
    <3>1. \A k \in accepted : Waits(k) => Waits(k)' \/ Decoded(k)
      BY <2>2, <2>3 DEF Waits
    <3>2. \A k : Decoded(k) => Decoded(k)'
      BY DEF Decoded
    <3>3. QED
      BY <3>1, <3>2, StaysKept
  <2>5. QED
    BY <2>4 DEF KeptInv
<1>5. CASE Notify \/ LookAtResults \/ Deliver \/ Loop \/ Take \/ Taken \/ NextData
  <2>1. /\ UNCHANGED <<accepted, received, decode_stop>>
        /\ main' # "push" \/ main' = main
    BY <1>5 DEF Notify, LookAtResults, Deliver, Loop, Take, Taken, NextData, queue,
       decoding, history
  <2>2. decode_datas' = decode_datas \/ decode_datas' = <<>>
    BY <1>5 DEF Notify, LookAtResults, Deliver, Loop, Take, Taken, NextData, queue,
       decoding, history
  <2>3. \A k : ~decode_stop /\ Waits(k) => Waits(k)'
    <3>1. CASE Take
      <4>1. datas = <<>>
        BY <3>1 DEF Take, DecoderInv, PlaceInv
      <4>2. QED
        BY <3>1, <4>1 DEF Take, Waits
    <3>2. CASE NextData
      BY <3>2 DEF NextData, LeaveBatch, Waits, queue
    <3>3. CASE Notify \/ LookAtResults \/ Deliver \/ Loop \/ Taken
      BY <3>3 DEF Notify, LookAtResults, Deliver, Loop, Taken, Waits, queue, decoding,
         history
    <3>4. QED
      BY <1>5, <3>1, <3>2, <3>3
  <2>4. decode_stop' /\ main' = "idle" => main = "idle"
    BY <1>5 DEF Notify, LookAtResults, Deliver, Loop, Take, Taken, NextData, queue,
       decoding, history, DecoderInv, PlaceInv
  <2>5. ~decode_stop => \A k \in accepted' : Waits(k)' \/ Decoded(k)' \/ Lost(k)'
    BY <2>1, <2>3, StaysKept
  <2>6. (thread = "result" => Decoded(datas[1].n))'
    BY <1>5 DEF Notify, Wake, LookAtResults, Deliver, Loop, Take, Taken, NextData,
       LeaveBatch, queue, decoding, history, KeptInv, Decoded
  <2>7. QED
    BY <2>1, <2>2, <2>4, <2>5, <2>6 DEF KeptInv
<1>6. CASE Decode
  <2>1. /\ ~decode_async /\ decode_stop /\ UNCHANGED <<decode_stop, accepted, main>>
        /\ main = "idle" /\ decode_datas' = <<>> /\ thread' = "none"
    BY <1>6 DEF Decode, DecoderInv, PlaceInv, history
  <2>2. QED
    BY <2>1 DEF KeptInv
<1>7. CASE ThreadStop \/ Stopping
  <2>1. /\ decode_stop' /\ main' \notin {"idle", "push"}
        /\ UNCHANGED <<accepted, received>>
    BY <1>7 DEF ThreadStop, Stopping, PushNull, NotifyNull, Join, DecoderInv, PlaceInv,
       history
  <2>2. \/ decode_datas' = decode_datas
        \/ main = "null" /\ decode_datas' = Append(decode_datas, Null)
    BY <1>7 DEF ThreadStop, Stopping, PushNull, NotifyNull, Join, queue
  <2>3. \A i \in DOMAIN decode_datas' :
          decode_datas'[i].n \in accepted => decode_datas'[i].key
    <3>1. CASE decode_datas' = Append(decode_datas, Null)
      <4>1. decode_datas \in Seq(Item) /\ Null \in Item
        BY DEF DecoderInv, TypeOK, Item
      <4>2. \A i \in DOMAIN decode_datas' :
               \/ i \in DOMAIN decode_datas /\ decode_datas'[i] = decode_datas[i]
               \/ decode_datas'[i] = Null
        BY <3>1, <4>1, AppendProperties
      <4>3. Null.n \notin accepted
        BY DecoderAssumption DEF Null, DecoderInv, TypeOK
      <4>4. QED
        BY <4>2, <4>3 DEF KeptInv
    <3>2. CASE decode_datas' = decode_datas
      BY <3>2 DEF KeptInv
    <3>3. QED
      BY <2>2, <3>1, <3>2
  <2>4. (thread = "result" => Decoded(datas[1].n))'
    BY <1>7 DEF ThreadStop, Stopping, PushNull, NotifyNull, Wake, Join, queue, decoding,
       history, KeptInv, Decoded
  <2>5. QED
    BY <2>1, <2>3, <2>4 DEF KeptInv
<1>8. QED
  BY <1>1, <1>2, <1>3, <1>4, <1>5, <1>6, <1>7 DEF Next, DecodeAsync, ThreadRun

(***************************************************************************)
(* No accepted key packet is dropped by the trimming or anywhere else than *)
(* behind a packet that the codec has returned no frame for.               *)
(***************************************************************************)
THEOREM NoKeyDropped == Spec => []KeysAreKept
<1>1. Init => KeptInv
  BY DEF Init, InitDecoder, KeptInv
<1>2. DecoderInv /\ KeptInv /\ [Next]_vars => KeptInv'
  <2>1. DecoderInv /\ KeptInv /\ UNCHANGED vars => KeptInv'
    BY DEF vars, history, queue, decoding, KeptInv, Waits, Decoded, Lost, Framed
  <2>2. QED
    BY <2>1, KeptStep
<1>3. KeptInv => KeysAreKept
  BY DEF KeptInv, KeysAreKept, Waits, Decoded, Lost
<1>4. QED
  BY <1>1, <1>2, <1>3, DecoderInvariant, PTL DEF Spec

(***************************************************************************)
(* Frames are called back in order, none showing an older picture.         *)
(***************************************************************************)
THEOREM ShowingOrder == Spec => []ShownInOrder
<1>1. DecoderInv => ShownInOrder
  BY DEF DecoderInv, ShownInv
<1>2. QED
  BY <1>1, DecoderInvariant, PTL
=============================================================================
