---------------------------- MODULE WsSession_proofs ----------------------------
(***************************************************************************)
(* Proofs about WsSession, for any number of threads, any queue size and   *)
(* any bounds.                                                             *)
(***************************************************************************)
EXTENDS WsSession, SequenceTheorems, FiniteSetTheorems, TLAPS

LEMMA MaxIsPositive == send_queue_max_size \in Nat \ {0}
  BY BoundsAssumption DEF send_queue_max_size

(* Erasing the eldest elements leaves a non-empty suffix of bounded length. *)
LEMMA EraseEldestProperties ==
  ASSUME NEW S, NEW q \in Seq(S), NEW max \in Nat \ {0}
  PROVE  LET e == EraseEldest(q, max) IN
         /\ e \in Seq(S)
         /\ Len(e) = IF Len(q) > max THEN max ELSE Len(q)
         /\ \A i \in 1 .. Len(e) : e[i] = q[Len(q) - Len(e) + i]
<1>1. CASE Len(q) > max
  <2> DEFINE m == Len(q) - max + 1
             n == Len(q)
  <2>1. m \in 1 .. n /\ n \in 0 .. Len(q)
    BY <1>1
  <2>2. /\ SubSeq(q, m, n) \in Seq(S)
        /\ Len(SubSeq(q, m, n)) = n - m + 1
        /\ \A i \in 1 .. n - m + 1 : SubSeq(q, m, n)[i] = q[m + i - 1]
    BY <1>1, <2>1, SubSeqProperties
  <2>3. EraseEldest(q, max) = SubSeq(q, m, n)
    BY <1>1 DEF EraseEldest
  <2>4. n - m + 1 = max
    OBVIOUS
  <2> QED BY <1>1, <2>2, <2>3, <2>4
<1>2. CASE ~(Len(q) > max)
  BY <1>2 DEF EraseEldest
<1> QED BY <1>1, <1>2

(* What a thread that is to run DoSend carries is a packet. *)
LEMMA SendTaskCarriesData ==
  ASSUME TypeOK, NEW t \in Threads, thread[t].op = "DoSend"
  PROVE  thread[t].data \in Data /\ thread[t] # IdleThread /\ thread[t] # ReadStart
<1>1. thread[t] \in Task
  BY DEF TypeOK
<1>2. thread[t] # IdleThread /\ thread[t] # ReadStart
  BY DEF IdleThread, ReadStart
<1>3. PICK d \in Data : thread[t] = SendTask(d)
  BY <1>1, <1>2 DEF Task
<1> QED BY <1>2, <1>3 DEF SendTask

-----------------------------------------------------------------------------
(* The type invariant.  OnWrite takes the tail of the queue, which is a    *)
(* sequence only because the queue is not empty while a write is pending.  *)
LEMMA InitType == Init => TypeOK
<1> SUFFICES ASSUME Init PROVE TypeOK
  OBVIOUS
<1>1. /\ accepting \in BOOLEAN /\ reading \in BOOLEAN /\ joined \in BOOLEAN
      /\ connected \in BOOLEAN /\ failed \in BOOLEAN
  BY DEF Init
<1>2. read_buffer \in 0 .. MaxRecv /\ sent \in 0 .. MaxSends /\ closed \in Nat
  BY BoundsAssumption DEF Init
<1>3. /\ thread \in [Threads -> Task]
      /\ sender \in {"idle", "snapshot"}
  BY DEF Init, Task
<1>4. /\ posted \in Seq(Data) /\ writing \in Seq(Data) /\ send_queue \in Seq(Data)
      /\ log \in Seq(Data) /\ wire \in Seq(Data)
  BY DEF Init
<1> QED BY <1>1, <1>2, <1>3, <1>4 DEF TypeOK

LEMMA OnEventClosedType ==
  ASSUME TypeOK, OnEventClosed
  PROVE  joined' \in BOOLEAN /\ closed' \in Nat
<1>1. joined' \in BOOLEAN
  BY DEF OnEventClosed
<1>2. closed' \in Nat
  BY DEF OnEventClosed, TypeOK
<1> QED BY <1>1, <1>2

LEMMA StepType == SessionInv /\ [Next]_vars => TypeOK'
<1> SUFFICES ASSUME TypeOK, WriteInv, LifeInv, [Next]_vars PROVE TypeOK'
  BY DEF SessionInv
<1> USE DEF TypeOK
<1>1. ASSUME NEW t \in Threads, OnAccept(t) PROVE TypeOK'
  BY <1>1 DEF OnAccept, Task
<1>2. ASSUME NEW t \in Threads, OnAcceptFail(t) PROVE TypeOK'
  BY <1>2, OnEventClosedType DEF OnAcceptFail
<1>3. ASSUME NEW t \in Threads, DoRead(t) PROVE TypeOK'
  BY <1>3 DEF DoRead, Task
<1>4. ASSUME NEW t \in Threads, OnRead(t) PROVE TypeOK'
  BY <1>4, BoundsAssumption DEF OnRead, ReadAgain
<1>5. ASSUME NEW t \in Threads, OnReadFail(t) PROVE TypeOK'
  BY <1>5, OnEventClosedType DEF OnReadFail
<1>6. ASSUME NEW t \in Threads, PickSend(t) PROVE TypeOK'
  <2>1. Head(posted) \in Data /\ posted' \in Seq(Data)
    BY <1>6 DEF PickSend
  <2>2. thread' \in [Threads -> Task]
    BY <1>6, <2>1 DEF PickSend, Task
  <2> QED BY <1>6, <2>1, <2>2 DEF PickSend
<1>7. ASSUME NEW t \in Threads, DoSend(t) PROVE TypeOK'
  <2>1. thread[t].data \in Data
    BY <1>7, SendTaskCarriesData DEF DoSend, PushBack, IsWriting
  <2>2. /\ send_queue' \in Seq(Data) /\ log' \in Seq(Data)
        /\ Len(send_queue') = Len(send_queue) + 1
        /\ send_queue' # <<>>
    BY <1>7, <2>1, AppendProperties DEF DoSend, PushBack, IsWriting
  <2>3. Head(send_queue') \in Data
    BY <2>2
  <2>4. writing' \in Seq(Data) /\ wire' \in Seq(Data)
    <3>1. CASE Len(send_queue') > 1
      BY <1>7, <3>1 DEF DoSend, PushBack, IsWriting
    <3>2. CASE ~(Len(send_queue') > 1)
      <4>1. /\ writing' = Append(writing, Head(send_queue'))
            /\ wire' = Append(wire, Head(send_queue'))
        BY <1>7, <3>2 DEF DoSend, PushBack, IsWriting, DoWrite
      <4> QED BY <2>3, <4>1
    <3> QED BY <3>1, <3>2
  <2>5. thread' \in [Threads -> Task]
    BY <1>7 DEF DoSend, PushBack, IsWriting, Task
  <2> QED BY <1>7, <2>2, <2>4, <2>5 DEF DoSend, PushBack, IsWriting
<1>8. ASSUME NEW t \in Threads, OnWrite(t) PROVE TypeOK'
  <2>1. send_queue # <<>>
    BY <1>8 DEF OnWrite, AfterSent, WriteNext, WriteInv
  <2>2. Tail(send_queue) \in Seq(Data) /\ Tail(writing) \in Seq(Data)
    BY <1>8, <2>1 DEF OnWrite, AfterSent, WriteNext
  <2>3. send_queue' \in Seq(Data)
    BY <1>8, <2>2, MaxIsPositive, EraseEldestProperties DEF OnWrite, AfterSent, WriteNext
  <2>4. writing' \in Seq(Data) /\ wire' \in Seq(Data)
    <3>1. CASE send_queue' = <<>>
      BY <1>8, <2>2, <3>1 DEF OnWrite, AfterSent, WriteNext
    <3>2. CASE send_queue' # <<>>
      <4>1. Head(send_queue') \in Data
        BY <2>3, <3>2
      <4>2. /\ writing' = Append(Tail(writing), Head(send_queue'))
            /\ wire' = Append(wire, Head(send_queue'))
        BY <1>8, <3>2 DEF OnWrite, AfterSent, WriteNext, DoWrite
      <4> QED BY <2>2, <4>1, <4>2
    <3> QED BY <3>1, <3>2
  <2> QED BY <1>8, <2>3, <2>4 DEF OnWrite, AfterSent, WriteNext
<1>9. ASSUME NEW t \in Threads, OnWriteFail(t) PROVE TypeOK'
  <2>1. writing' \in Seq(Data)
    BY <1>9 DEF OnWriteFail
  <2> QED BY <1>9, <2>1, OnEventClosedType DEF OnWriteFail
<1>10. ASSUME RoomSnapshot PROVE TypeOK'
  BY <1>10 DEF RoomSnapshot
<1>11. ASSUME Send PROVE TypeOK'
  <2>1. sent' \in 0 .. MaxSends /\ posted' \in Seq(Data)
    <3>1. sent + 1 \in Data
      BY <1>11, BoundsAssumption DEF Send, NextPacket, Post, Data, LifeInv
    <3>2. CASE Alive
      <4>1. sent' = sent + 1 /\ posted' = Append(posted, sent + 1)
        BY <1>11, <3>2 DEF Send, NextPacket, Post
      <4> QED BY <3>1, <4>1 DEF Data
    <3>3. CASE ~Alive
      BY <1>11, <3>3 DEF Send, NextPacket, Post
    <3> QED BY <3>2, <3>3
  <2>2. sender' \in {"idle", "snapshot"}
    BY <1>11 DEF Send, NextPacket, Post
  <2> QED BY <1>11, <2>1, <2>2 DEF Send, NextPacket, Post
<1>12. ASSUME PeerLost PROVE TypeOK'
  BY <1>12 DEF PeerLost
<1>13. ASSUME UNCHANGED vars PROVE TypeOK'
  BY <1>13 DEF vars
<1> QED
  BY <1>1, <1>2, <1>3, <1>4, <1>5, <1>6, <1>7, <1>8, <1>9, <1>10, <1>11, <1>12, <1>13
     DEF Next, Handler

-----------------------------------------------------------------------------
(* What the two steps that move the queue do, given the invariant. *)
LEMMA DoSendEffect ==
  ASSUME TypeOK, WriteInv, NEW t \in Threads, DoSend(t)
  PROVE  /\ thread[t].data \in Data
         /\ send_queue' = Append(send_queue, thread[t].data)
         /\ log' = Append(log, thread[t].data)
         /\ send_queue # <<>> => UNCHANGED <<writing, wire>>
         /\ send_queue = <<>> => /\ writing' = <<thread[t].data>>
                                 /\ wire' = Append(wire, thread[t].data)
         /\ failed' = failed
<1> DEFINE d == thread[t].data
<1>1. d \in Data
  BY SendTaskCarriesData DEF DoSend, PushBack, IsWriting
<1>2. send_queue \in Seq(Data) /\ send_queue' = Append(send_queue, d)
  BY DEF DoSend, PushBack, IsWriting, TypeOK
<1>3. ASSUME send_queue # <<>> PROVE UNCHANGED <<writing, wire>>
  <2>1. Len(send_queue) > 0
    BY <1>2, <1>3
  <2>2. Len(send_queue') > 1
    BY <1>1, <1>2, <2>1, AppendProperties
  <2> QED BY <2>2 DEF DoSend, PushBack, IsWriting
<1>4. ASSUME send_queue = <<>> PROVE writing' = <<d>> /\ wire' = Append(wire, d)
  <2>1. send_queue' = <<d>> /\ writing = <<>>
    BY <1>2, <1>4 DEF WriteInv
  <2>2. ~(Len(send_queue') > 1) /\ Head(send_queue') = d
    BY <2>1
  <2>3. writing' = Append(<<>>, d) /\ wire' = Append(wire, d)
    BY <2>1, <2>2 DEF DoSend, PushBack, IsWriting, DoWrite
  <2> QED BY <2>3
<1> QED BY <1>1, <1>2, <1>3, <1>4 DEF DoSend, PushBack, IsWriting

LEMMA OnWriteEffect ==
  ASSUME TypeOK, WriteInv, NEW t \in Threads, OnWrite(t)
  PROVE  /\ send_queue # <<>> /\ ~failed /\ ~failed'
         /\ send_queue' \in Seq(Data)
         /\ Len(send_queue') = IF Len(send_queue) - 1 > send_queue_max_size
                               THEN send_queue_max_size
                               ELSE Len(send_queue) - 1
         /\ \A i \in 1 .. Len(send_queue') :
              send_queue'[i] = send_queue[Len(send_queue) - Len(send_queue') + i]
         /\ send_queue' = <<>> => writing' = <<>> /\ wire' = wire
         /\ send_queue' # <<>> => /\ writing' = <<Head(send_queue')>>
                                  /\ wire' = Append(wire, Head(send_queue'))
         /\ log' = log
<1>1. /\ send_queue # <<>> /\ ~failed /\ ~failed'
      /\ writing = <<Head(send_queue)>>
  BY DEF OnWrite, AfterSent, WriteNext, WriteInv
<1>2. /\ Tail(send_queue) \in Seq(Data) /\ Len(Tail(send_queue)) = Len(send_queue) - 1
      /\ \A i \in 1 .. Len(Tail(send_queue)) : Tail(send_queue)[i] = send_queue[i + 1]
  BY <1>1, HeadTailProperties DEF TypeOK
<1>3. send_queue' = EraseEldest(Tail(send_queue), send_queue_max_size)
  BY DEF OnWrite, AfterSent, WriteNext
<1>4. /\ send_queue' \in Seq(Data)
      /\ Len(send_queue') = IF Len(Tail(send_queue)) > send_queue_max_size
                            THEN send_queue_max_size ELSE Len(Tail(send_queue))
      /\ \A i \in 1 .. Len(send_queue') :
           send_queue'[i] = Tail(send_queue)[Len(Tail(send_queue)) - Len(send_queue') + i]
  BY <1>2, <1>3, MaxIsPositive, EraseEldestProperties
<1>5. \A i \in 1 .. Len(send_queue') :
         send_queue'[i] = send_queue[Len(send_queue) - Len(send_queue') + i]
  <2> TAKE i \in 1 .. Len(send_queue')
  <2> DEFINE j == Len(Tail(send_queue)) - Len(send_queue') + i
  <2>1. Len(send_queue') \in Nat /\ Len(send_queue') <= Len(Tail(send_queue))
    <3>1. Len(Tail(send_queue)) \in Nat /\ send_queue_max_size \in Nat
      BY <1>2, MaxIsPositive
    <3> QED BY <1>4, <3>1
  <2>2. j \in 1 .. Len(Tail(send_queue))
    BY <1>2, <2>1
  <2>3. send_queue'[i] = send_queue[j + 1]
    BY <1>2, <1>4, <2>2
  <2>4. j + 1 = Len(send_queue) - Len(send_queue') + i
    BY <1>2, <2>1 DEF TypeOK
  <2> QED BY <2>3, <2>4
<1>6. Tail(writing) = <<>>
  BY <1>1
<1>7. ASSUME send_queue' = <<>> PROVE writing' = <<>> /\ wire' = wire
  BY <1>6, <1>7 DEF OnWrite, AfterSent, WriteNext
<1>8. ASSUME send_queue' # <<>>
      PROVE  writing' = <<Head(send_queue')>> /\ wire' = Append(wire, Head(send_queue'))
  <2>1. writing' = Append(<<>>, Head(send_queue')) /\ wire' = Append(wire, Head(send_queue'))
    BY <1>6, <1>8 DEF OnWrite, AfterSent, WriteNext, DoWrite
  <2> QED BY <2>1
<1>9. log' = log
  BY DEF OnWrite, AfterSent, WriteNext
<1> QED BY <1>1, <1>2, <1>4, <1>5, <1>7, <1>8, <1>9

LEMMA OnWriteFailEffect ==
  ASSUME WriteInv, NEW t \in Threads, OnWriteFail(t)
  PROVE  /\ send_queue # <<>> /\ ~failed /\ writing' = <<>>
         /\ failed' /\ UNCHANGED <<send_queue, log, wire>>
<1>1. send_queue # <<>> /\ ~failed /\ writing = <<Head(send_queue)>>
  BY DEF OnWriteFail, WriteInv
<1>2. writing' = <<>>
  BY <1>1 DEF OnWriteFail
<1> QED BY <1>1, <1>2 DEF OnWriteFail

(* Every other step leaves the queue and the writes alone. *)
LEMMA QueueFrame ==
  ASSUME [Next]_vars,
         \A t \in Threads : ~DoSend(t) /\ ~OnWrite(t) /\ ~OnWriteFail(t)
  PROVE  UNCHANGED <<writing, send_queue, failed, log, wire>>
  BY DEF Next, Handler, vars, OnAccept, OnAcceptFail, DoRead, OnRead, ReadAgain, OnReadFail,
         PickSend, RoomSnapshot, Send, NextPacket, Post, PeerLost

-----------------------------------------------------------------------------
LEMMA StepWrite == SessionInv /\ [Next]_vars => WriteInv'
<1> SUFFICES ASSUME TypeOK, WriteInv, [Next]_vars PROVE WriteInv'
  BY DEF SessionInv
<1>1. ASSUME NEW t \in Threads, DoSend(t) PROVE WriteInv'
  <2> DEFINE d == thread[t].data
  <2>1. send_queue \in Seq(Data) /\ d \in Data /\ send_queue' = Append(send_queue, d)
    BY <1>1, DoSendEffect DEF TypeOK
  <2>2. send_queue' # <<>>
    BY <2>1, AppendProperties
  <2>3. CASE send_queue # <<>>
    <3>1. Head(send_queue') = Head(send_queue)
      BY <2>1, <2>3, HeadTailAppend
    <3> QED BY <1>1, <2>2, <2>3, <3>1, DoSendEffect DEF WriteInv
  <2>4. CASE send_queue = <<>>
    <3>1. Head(send_queue') = d /\ ~failed /\ ~failed'
      BY <1>1, <2>1, <2>4, HeadTailAppend, DoSendEffect DEF WriteInv
    <3> QED BY <1>1, <2>2, <2>4, <3>1, DoSendEffect DEF WriteInv
  <2> QED BY <2>3, <2>4
<1>2. ASSUME NEW t \in Threads, OnWrite(t) PROVE WriteInv'
  BY <1>2, OnWriteEffect DEF WriteInv
<1>3. ASSUME NEW t \in Threads, OnWriteFail(t) PROVE WriteInv'
  BY <1>3, OnWriteFailEffect DEF WriteInv
<1>4. CASE \A t \in Threads : ~DoSend(t) /\ ~OnWrite(t) /\ ~OnWriteFail(t)
  BY <1>4, QueueFrame DEF WriteInv
<1> QED BY <1>1, <1>2, <1>3, <1>4

LEMMA StepQueue == SessionInv /\ [Next]_vars => QueueInv'
<1> SUFFICES ASSUME TypeOK, WriteInv, QueueInv, [Next]_vars PROVE QueueInv'
  BY DEF SessionInv
<1>0. send_queue \in Seq(Data) /\ log \in Seq(Data)
  BY DEF TypeOK
<1>1. ASSUME NEW t \in Threads, DoSend(t) PROVE QueueInv'
  <2> DEFINE d == thread[t].data
  <2>1. /\ d \in Data
        /\ send_queue' = Append(send_queue, d)
        /\ log' = Append(log, d)
    BY <1>1, DoSendEffect
  <2>2. /\ Len(send_queue') = Len(send_queue) + 1
        /\ \A i \in 1 .. Len(send_queue) : send_queue'[i] = send_queue[i]
        /\ send_queue'[Len(send_queue) + 1] = d
        /\ Len(log') = Len(log) + 1
        /\ \A i \in 1 .. Len(log) : log'[i] = log[i]
        /\ log'[Len(log) + 1] = d
    BY <1>0, <2>1, AppendProperties
  <2>3. Len(send_queue) \in Nat /\ Len(log) \in Nat /\ Len(send_queue) <= Len(log)
    BY <1>0 DEF QueueInv
  <2>4. ASSUME NEW i \in 1 .. Len(send_queue')
        PROVE  send_queue'[i] = log'[Len(log') - Len(send_queue') + i]
    <3>1. CASE i = Len(send_queue) + 1
      <4>1. Len(log') - Len(send_queue') + i = Len(log) + 1
        BY <2>2, <2>3, <3>1
      <4> QED BY <2>2, <3>1, <4>1
    <3>2. CASE i # Len(send_queue) + 1
      <4>1. i \in 1 .. Len(send_queue) /\ Len(log') - Len(send_queue') + i \in 1 .. Len(log)
        BY <2>2, <2>3, <3>2
      <4>2. Len(log') - Len(send_queue') + i = Len(log) - Len(send_queue) + i
        BY <2>2, <2>3, <4>1
      <4> QED BY <2>2, <4>1, <4>2 DEF QueueInv
    <3> QED BY <3>1, <3>2
  <2>5. Len(send_queue') <= Len(log')
    BY <2>2, <2>3
  <2> QED BY <2>4, <2>5 DEF QueueInv
<1>2. ASSUME NEW t \in Threads, OnWrite(t) PROVE QueueInv'
  <2>1. /\ send_queue # <<>>
        /\ send_queue' \in Seq(Data) /\ log' = log
        /\ Len(send_queue') <= Len(send_queue)
        /\ \A i \in 1 .. Len(send_queue') :
              send_queue'[i] = send_queue[Len(send_queue) - Len(send_queue') + i]
    BY <1>0, <1>2, OnWriteEffect, MaxIsPositive
  <2> QED BY <1>0, <2>1 DEF QueueInv
<1>3. ASSUME NEW t \in Threads, OnWriteFail(t) PROVE QueueInv'
  BY <1>3, OnWriteFailEffect DEF QueueInv
<1>4. CASE \A t \in Threads : ~DoSend(t) /\ ~OnWrite(t) /\ ~OnWriteFail(t)
  BY <1>4, QueueFrame DEF QueueInv
<1> QED BY <1>1, <1>2, <1>3, <1>4

-----------------------------------------------------------------------------
LEMMA StepLife == SessionInv /\ [Next]_vars => LifeInv'
<1> SUFFICES ASSUME TypeOK, WriteInv, LifeInv, [Next]_vars PROVE LifeInv'
  BY DEF SessionInv
<1>0. /\ thread \in [Threads -> Task] /\ closed \in Nat
      /\ IdleThread # ReadStart
  BY DEF TypeOK, IdleThread, ReadStart
<1> USE DEF LifeInv, StartsRead, Idle, JoinedIsWatched
<1>1. ASSUME NEW t \in Threads, OnAccept(t) PROVE LifeInv'
  <2>1. \A s \in Threads : thread'[s] = IF s = t THEN ReadStart ELSE IdleThread
    BY <1>0, <1>1 DEF OnAccept
  <2> QED BY <1>0, <1>1, <2>1 DEF OnAccept
<1>2. ASSUME NEW t \in Threads, OnAcceptFail(t) PROVE LifeInv'
  <2>1. closed' = 1
    BY <1>2 DEF OnAcceptFail, OnEventClosed
  <2> QED BY <1>0, <1>2, <2>1 DEF OnAcceptFail, OnEventClosed
<1>3. ASSUME NEW t \in Threads, DoRead(t) PROVE LifeInv'
  <2>1. \A s \in Threads : thread'[s] = IF s = t THEN IdleThread ELSE thread[s]
    BY <1>0, <1>3 DEF DoRead
  <2>2. \A s \in Threads : thread'[s] # ReadStart
    BY <1>0, <1>3, <2>1 DEF DoRead
  <2>3. ~accepting /\ (closed > 0 => failed) /\ closed <= 1
    BY <1>0, <1>3 DEF DoRead
  <2> QED BY <1>0, <1>3, <2>2, <2>3 DEF DoRead
<1>4. ASSUME NEW t \in Threads, OnRead(t) PROVE LifeInv'
  BY <1>4 DEF OnRead, ReadAgain
<1>5. ASSUME NEW t \in Threads, OnReadFail(t) PROVE LifeInv'
  <2>1. \A s \in Threads : thread'[s] # ReadStart
    BY <1>5 DEF OnReadFail
  <2>2. ~accepting /\ (closed > 0 => failed) /\ closed <= 1 /\ closed' = closed + 1
    BY <1>0, <1>5 DEF OnReadFail, OnEventClosed
  <2> QED BY <1>0, <1>5, <2>1, <2>2 DEF OnReadFail, OnEventClosed
<1>6. ASSUME NEW t \in Threads, PickSend(t) PROVE LifeInv'
  <2>1. ~accepting
    BY <1>6 DEF PickSend
  <2>2. SendTask(Head(posted)) # ReadStart
    BY DEF SendTask, ReadStart
  <2>3. \A s \in Threads : thread'[s] = ReadStart <=> thread[s] = ReadStart
    BY <1>0, <1>6, <2>2 DEF PickSend
  <2> QED BY <1>6, <2>1, <2>3 DEF PickSend
<1>7. ASSUME NEW t \in Threads, DoSend(t) PROVE LifeInv'
  <2>1. thread[t] # IdleThread /\ thread[t] # ReadStart
    BY <1>7, SendTaskCarriesData DEF DoSend, PushBack, IsWriting
  <2>2. ~accepting
    BY <2>1
  <2>3. \A s \in Threads : thread'[s] = ReadStart <=> thread[s] = ReadStart
    BY <1>0, <1>7, <2>1 DEF DoSend, PushBack, IsWriting
  <2> QED BY <1>7, <2>2, <2>3 DEF DoSend, PushBack, IsWriting
<1>8. ASSUME NEW t \in Threads, OnWrite(t) PROVE LifeInv'
  BY <1>8 DEF OnWrite, AfterSent, WriteNext
<1>9. ASSUME NEW t \in Threads, OnWriteFail(t) PROVE LifeInv'
  <2>1. ~accepting /\ ~failed /\ failed'
    BY <1>9, OnWriteFailEffect DEF OnWriteFail
  <2>2. closed <= 1 /\ closed' = closed + 1
    BY <1>0, <1>9, <2>1 DEF OnWriteFail, OnEventClosed
  <2>3. closed > 0 => ~reading /\ \A s \in Threads : ~StartsRead(s)
    BY <2>1
  <2> QED BY <1>0, <1>9, <2>1, <2>2, <2>3 DEF OnWriteFail, OnEventClosed
<1>10. ASSUME RoomSnapshot PROVE LifeInv'
  BY <1>10 DEF RoomSnapshot
<1>11. ASSUME Send PROVE LifeInv'
  BY <1>11 DEF Send, NextPacket, Post
<1>12. ASSUME PeerLost PROVE LifeInv'
  BY <1>12 DEF PeerLost
<1>13. ASSUME UNCHANGED vars PROVE LifeInv'
  BY <1>13 DEF vars
<1> QED
  BY <1>1, <1>2, <1>3, <1>4, <1>5, <1>6, <1>7, <1>8, <1>9, <1>10, <1>11, <1>12, <1>13
     DEF Next, Handler

-----------------------------------------------------------------------------
LEMMA InitInv == Init => SessionInv
<1> SUFFICES ASSUME Init PROVE SessionInv
  OBVIOUS
<1>1. TypeOK
  BY InitType
<1>2. WriteInv
  BY DEF Init, WriteInv
<1>3. QueueInv
  BY DEF Init, QueueInv
<1>4. LifeInv
  BY DEF Init, LifeInv, StartsRead, Idle, IdleThread, ReadStart, JoinedIsWatched
<1> QED BY <1>1, <1>2, <1>3, <1>4 DEF SessionInv

(* The inductive invariant: every property below follows from it. *)
THEOREM SessionInvariant == Spec => []SessionInv
<1>1. SessionInv /\ [Next]_vars => SessionInv'
  BY StepType, StepWrite, StepQueue, StepLife DEF SessionInv
<1> QED BY <1>1, InitInv, PTL DEF Spec

(* Every variable of the session keeps its type. *)
THEOREM TypeCorrect == Spec => []TypeOK
<1>1. SessionInv => TypeOK
  BY DEF SessionInv
<1> QED BY <1>1, SessionInvariant, PTL

(* No two writes are outstanding on the stream at once. *)
THEOREM AtMostOneWrite == Spec => []SingleWrite
<1>1. SessionInv => SingleWrite
  BY DEF SessionInv, WriteInv, SingleWrite
<1> QED BY <1>1, SessionInvariant, PTL

(* The queue owns the bytes the stream is writing. *)
THEOREM BufferOwned == Spec => []WriteBufferOwned
<1>1. SessionInv => WriteBufferOwned
  BY DEF SessionInv, WriteInv, WriteBufferOwned
<1> QED BY <1>1, SessionInvariant, PTL

(* Packets wait only behind an outstanding write. *)
THEOREM QueueServed == Spec => []QueueIsServed
<1>1. SessionInv => QueueIsServed
  BY DEF SessionInv, WriteInv, QueueIsServed
<1> QED BY <1>1, SessionInvariant, PTL

(* OnEventClosed runs at most for the read and for the write. *)
THEOREM ClosedTwice == Spec => []ClosedAtMostTwice
<1>1. SessionInv => ClosedAtMostTwice
  BY DEF SessionInv, LifeInv, ClosedAtMostTwice
<1> QED BY <1>1, SessionInvariant, PTL

(* A session in the room is always about to read, or reading. *)
THEOREM RoomIsWatched == Spec => []JoinedIsWatched
<1>1. SessionInv => JoinedIsWatched
  BY DEF SessionInv, LifeInv
<1> QED BY <1>1, SessionInvariant, PTL

(* A closing session never gets back into the room. *)
THEOREM LeavesForGood == Spec => NeverRejoins
<1>1. SessionInv /\ [Next]_vars => [closed > 0 => ~joined']_vars
  <2> SUFFICES ASSUME SessionInv, [Next]_vars, closed > 0 PROVE ~joined'
    OBVIOUS
  <2>1. closed \in Nat /\ closed' \in Nat /\ (closed' > 0 => ~joined')
    <3>1. SessionInv'
      BY StepType, StepWrite, StepQueue, StepLife DEF SessionInv
    <3> QED BY <3>1 DEF SessionInv, TypeOK, LifeInv
  <2>2. closed' >= closed
    BY <2>1 DEF Next, Handler, vars, OnEventClosed, OnAccept, OnAcceptFail, DoRead,
                OnRead, ReadAgain, OnReadFail, PickSend, DoSend, PushBack, IsWriting, OnWrite,
                AfterSent, WriteNext, OnWriteFail,
                RoomSnapshot, Send, NextPacket, Post, PeerLost
  <2> QED BY <2>1, <2>2
<1> QED BY <1>1, SessionInvariant, PTL DEF Spec, NeverRejoins

(* A failed session writes nothing more. *)
THEOREM FailureIsSilent == Spec => SilentAfterFailure
<1>1. SessionInv /\ [Next]_vars => [failed => wire' = wire /\ writing' = writing]_vars
  <2> SUFFICES ASSUME TypeOK, WriteInv, [Next]_vars, failed
               PROVE  wire' = wire /\ writing' = writing
    BY DEF SessionInv
  <2>1. ASSUME NEW t \in Threads, DoSend(t) PROVE wire' = wire /\ writing' = writing
    BY <2>1, DoSendEffect DEF WriteInv
  <2>2. ASSUME NEW t \in Threads PROVE ~OnWrite(t) /\ ~OnWriteFail(t)
    BY OnWriteEffect, OnWriteFailEffect
  <2> QED BY <2>1, <2>2, QueueFrame
<1> QED BY <1>1, SessionInvariant, PTL DEF Spec, SilentAfterFailure

-----------------------------------------------------------------------------
(* The order of the packets.  Three steps move them; every other leaves    *)
(* what is posted, held and logged alone.                                  *)
LEMMA OrderFrame ==
  ASSUME TypeOK, [Next]_vars, ~Send,
         \A t \in Threads : ~PickSend(t) /\ ~DoSend(t)
  PROVE  /\ UNCHANGED <<posted, log, sent>>
         /\ \A t \in Threads : /\ Sends(t)' <=> Sends(t)
                               /\ Sends(t) => thread'[t] = thread[t]
<1>0. /\ thread \in [Threads -> Task]
      /\ IdleThread.op = "idle" /\ ReadStart.op = "DoRead"
  BY DEF TypeOK, IdleThread, ReadStart
<1>1. UNCHANGED <<posted, log, sent>>
  BY DEF Next, Handler, vars, OnAccept, OnAcceptFail, DoRead, OnRead, OnReadFail, OnWrite,
         OnWriteFail, RoomSnapshot, PeerLost
<1>2. ASSUME NEW t \in Threads, OnAccept(t) \/ DoRead(t), NEW s \in Threads
      PROVE  /\ Sends(s)' <=> Sends(s)
             /\ Sends(s) => thread'[s] = thread[s]
  <2>1. thread[t].op # "DoSend" /\ thread'[t].op # "DoSend"
    BY <1>0, <1>2 DEF OnAccept, DoRead, Idle
  <2>2. s # t => thread'[s] = thread[s]
    BY <1>0, <1>2 DEF OnAccept, DoRead
  <2> QED BY <2>1, <2>2 DEF Sends
<1>3. CASE \A t \in Threads : ~OnAccept(t) /\ ~DoRead(t)
  <2>1. thread' = thread
    BY <1>3 DEF Next, Handler, vars, OnAcceptFail, OnRead, OnReadFail, OnWrite,
                OnWriteFail, RoomSnapshot, PeerLost
  <2> QED BY <1>1, <2>1 DEF Sends
<1> QED BY <1>1, <1>2, <1>3

(* A thread takes the eldest posted packet. *)
LEMMA PickEffect ==
  ASSUME TypeOK, NEW t \in Threads, PickSend(t)
  PROVE  /\ Len(posted) \in Nat \ {0} /\ ~Sends(t)
         /\ Len(posted') = Len(posted) - 1
         /\ \A i \in 1 .. Len(posted') : posted'[i] = posted[i + 1]
         /\ Sends(t)' /\ thread'[t].data = posted[1]
         /\ \A s \in Threads : s # t => thread'[s] = thread[s]
         /\ UNCHANGED <<log, sent>>
<1>1. posted \in Seq(Data) /\ posted # <<>> /\ thread \in [Threads -> Task]
  BY DEF PickSend, TypeOK
<1>2. /\ Len(posted) \in Nat \ {0} /\ Head(posted) = posted[1]
      /\ Len(Tail(posted)) = Len(posted) - 1
      /\ \A i \in 1 .. Len(Tail(posted)) : Tail(posted)[i] = posted[i + 1]
  BY <1>1, HeadTailProperties
<1>3. ~Sends(t)
  BY DEF PickSend, Idle, IdleThread, Sends
<1>4. /\ thread'[t] = SendTask(posted[1])
      /\ \A s \in Threads : s # t => thread'[s] = thread[s]
  BY <1>1, <1>2 DEF PickSend
<1>5. Sends(t)' /\ thread'[t].data = posted[1]
  BY <1>4 DEF Sends, SendTask
<1> QED BY <1>2, <1>3, <1>4, <1>5 DEF PickSend

LEMMA InitOrder == Init => OrderInv
<1> SUFFICES ASSUME Init PROVE OrderInv
  OBVIOUS
<1>1. \A t \in Threads : ~Sends(t)
  BY DEF Init, Sends, IdleThread
<1>2. PICK t \in Threads : TRUE
  BY ThreadsAssumption
<1> QED BY <1>1, <1>2 DEF Init, OrderInv

LEMMA StepOrder == SessionInv /\ OrderInv /\ [Next]_vars => OrderInv'
<1> SUFFICES ASSUME TypeOK, WriteInv, OrderInv, [Next]_vars PROVE OrderInv'
  BY DEF SessionInv
<1>0. /\ posted \in Seq(Data) /\ log \in Seq(Data) /\ sent \in Nat
      /\ Len(posted) \in Nat /\ Len(log) \in Nat
      /\ \A i \in 1 .. Len(posted) : posted[i] \in Nat
      /\ \A j \in 1 .. Len(log) : log[j] \in Nat
      /\ \A t \in Threads : Sends(t) => thread[t].data \in Nat
  <2>1. \A d \in Data : d \in Nat
    BY BoundsAssumption DEF Data
  <2>2. posted \in Seq(Data) /\ log \in Seq(Data) /\ sent \in Nat
    BY BoundsAssumption DEF TypeOK
  <2>3. /\ \A i \in 1 .. Len(posted) : posted[i] \in Data
        /\ \A j \in 1 .. Len(log) : log[j] \in Data
    BY <2>2
  <2>4. \A t \in Threads : Sends(t) => thread[t].data \in Data
    BY SendTaskCarriesData DEF Sends
  <2>5. Len(posted) \in Nat /\ Len(log) \in Nat
    BY <2>2
  <2>6. /\ \A i \in 1 .. Len(posted) : posted[i] \in Nat
        /\ \A j \in 1 .. Len(log) : log[j] \in Nat
    BY <2>1, <2>3
  <2>7. \A t \in Threads : Sends(t) => thread[t].data \in Nat
    BY <2>1, <2>4
  <2> QED BY <2>2, <2>5, <2>6, <2>7
<1>1. ASSUME NEW t \in Threads, PickSend(t) PROVE OrderInv'
  <2>1. /\ Len(posted) \in Nat \ {0} /\ ~Sends(t)
        /\ Len(posted') = Len(posted) - 1
        /\ \A i \in 1 .. Len(posted') : posted'[i] = posted[i + 1]
        /\ Sends(t)' /\ thread'[t].data = posted[1]
        /\ \A s \in Threads : s # t => thread'[s] = thread[s]
        /\ UNCHANGED <<log, sent>>
    BY <1>1, PickEffect
  <2>2. \A i \in 1 .. Len(posted') : i + 1 \in 1 .. Len(posted)
    BY <1>0, <2>1
  <2>3. 1 \in 1 .. Len(posted)
    BY <1>0, <2>1
  <2>4. \A s \in Threads : s # t => (Sends(s)' <=> Sends(s))
    BY <2>1 DEF Sends
  <2>5. ASSUME NEW i \in 1 .. Len(posted'), NEW j \in 1 .. Len(posted'), i < j
        PROVE  posted'[i] < posted'[j]
    <3>1. i + 1 \in 1 .. Len(posted) /\ j + 1 \in 1 .. Len(posted) /\ i + 1 < j + 1
      BY <1>0, <2>1, <2>2, <2>5
    <3>2. posted[i + 1] < posted[j + 1]
      BY <3>1 DEF OrderInv
    <3> QED BY <2>1, <3>2
  <2>6. ASSUME NEW i \in 1 .. Len(posted')
        PROVE  /\ posted'[i] <= sent'
               /\ \A j \in 1 .. Len(log') : log'[j] < posted'[i]
               /\ \A s \in Threads : Sends(s)' => thread'[s].data < posted'[i]
    <3>1. posted'[i] = posted[i + 1] /\ i + 1 \in 1 .. Len(posted) /\ 1 < i + 1
      BY <1>0, <2>1, <2>2
    <3>2. posted[1] < posted[i + 1]
      BY <2>3, <3>1 DEF OrderInv
    <3> QED BY <2>1, <2>4, <3>1, <3>2 DEF OrderInv
  <2>7. \A s \in Threads : Sends(s)' => thread'[s].data <= sent'
    BY <2>1, <2>3, <2>4 DEF OrderInv
  <2>8. ASSUME NEW d \in 1 .. sent'
        PROVE  \/ \E j \in 1 .. Len(log') : log'[j] = d
               \/ \E s \in Threads : Sends(s)' /\ thread'[s].data = d
               \/ \E i \in 1 .. Len(posted') : posted'[i] = d
    <3>1. CASE \E j \in 1 .. Len(log) : log[j] = d
      BY <2>1, <3>1
    <3>2. CASE \E s \in Threads : Sends(s) /\ thread[s].data = d
      BY <2>1, <2>4, <3>2
    <3>3. ASSUME NEW i \in 1 .. Len(posted), posted[i] = d
          PROVE  \/ \E s \in Threads : Sends(s)' /\ thread'[s].data = d
                 \/ \E k \in 1 .. Len(posted') : posted'[k] = d
      <4>1. CASE i = 1
        BY <2>1, <3>3, <4>1
      <4>2. CASE i # 1
        <5>1. i - 1 \in 1 .. Len(posted') /\ (i - 1) + 1 = i
          BY <1>0, <2>1, <4>2
        <5> QED BY <2>1, <3>3, <5>1
      <4> QED BY <4>1, <4>2
    <3> QED BY <2>1, <3>1, <3>2, <3>3 DEF OrderInv
  <2>9. \E s \in Threads : Sends(s)' => \A j \in 1 .. Len(log') : log'[j] < thread'[s].data
    <3>1. PICK s \in Threads : Sends(s) => \A j \in 1 .. Len(log) : log[j] < thread[s].data
      BY DEF OrderInv
    <3>2. CASE s = t
      BY <2>1, <2>3, <3>2 DEF OrderInv
    <3>3. CASE s # t
      BY <2>1, <2>4, <3>1, <3>3
    <3> QED BY <3>2, <3>3
  <2>10. \A j \in 1 .. Len(log') : log'[j] <= sent'
    BY <2>1 DEF OrderInv
  <2> QED BY <2>5, <2>6, <2>7, <2>8, <2>9, <2>10 DEF OrderInv
<1>2. ASSUME NEW t \in Threads, DoSend(t) PROVE OrderInv'
  <2> DEFINE n == thread[t].data
  <2>0. /\ thread' = [thread EXCEPT ![t] = IdleThread] /\ thread[t].op = "DoSend"
        /\ UNCHANGED <<posted, sent>>
    BY <1>2 DEF DoSend
  <2>1. /\ Sends(t) /\ n \in Nat /\ ~Sends(t)'
        /\ \A s \in Threads : s # t => thread'[s] = thread[s] /\ (Sends(s)' <=> Sends(s))
        /\ UNCHANGED <<posted, sent>>
    <3>1. Sends(t) /\ n \in Nat
      BY <1>0, <2>0 DEF Sends
    <3>2. thread'[t] = IdleThread /\ \A s \in Threads : s # t => thread'[s] = thread[s]
      BY <2>0 DEF TypeOK
    <3>3. ~Sends(t)'
      BY <3>2 DEF Sends, IdleThread
    <3> QED BY <2>0, <3>1, <3>2, <3>3 DEF Sends
  <2>2. /\ Len(log') = Len(log) + 1 /\ log'[Len(log) + 1] = n
        /\ \A j \in 1 .. Len(log) : log'[j] = log[j]
    <3>1. log' = Append(log, n) /\ n \in Data
      BY <1>2, DoSendEffect
    <3> QED BY <1>0, <3>1, AppendProperties
  <2>3. \A j \in 1 .. Len(log') : log'[j] = n \/ j \in 1 .. Len(log)
    BY <1>0, <2>2
  <2>4. Len(log) + 1 \in 1 .. Len(log') /\ 1 .. Len(log) \subseteq 1 .. Len(log')
    BY <1>0, <2>2
  <2>5. ASSUME NEW i \in 1 .. Len(posted')
        PROVE  /\ posted'[i] <= sent'
               /\ \A j \in 1 .. Len(log') : log'[j] < posted'[i]
               /\ \A s \in Threads : Sends(s)' => thread'[s].data < posted'[i]
    BY <2>1, <2>2, <2>3 DEF OrderInv
  <2>6. /\ \A j \in 1 .. Len(log') : log'[j] <= sent'
        /\ \A s \in Threads : Sends(s)' => thread'[s].data <= sent'
        /\ \A i, j \in 1 .. Len(posted') : i < j => posted'[i] < posted'[j]
    BY <2>1, <2>2, <2>3 DEF OrderInv
  <2>7. ASSUME NEW d \in 1 .. sent'
        PROVE  \/ \E j \in 1 .. Len(log') : log'[j] = d
               \/ \E s \in Threads : Sends(s)' /\ thread'[s].data = d
               \/ \E i \in 1 .. Len(posted') : posted'[i] = d
    <3>1. CASE \E j \in 1 .. Len(log) : log[j] = d
      BY <2>2, <2>4, <3>1
    <3>2. ASSUME NEW s \in Threads, Sends(s), thread[s].data = d
          PROVE  \/ \E j \in 1 .. Len(log') : log'[j] = d
                 \/ \E r \in Threads : Sends(r)' /\ thread'[r].data = d
      BY <2>1, <2>2, <2>4, <3>2
    <3>3. CASE \E i \in 1 .. Len(posted) : posted[i] = d
      BY <2>1, <3>3
    <3> QED BY <2>1, <3>1, <3>2, <3>3 DEF OrderInv
  <2> QED BY <2>1, <2>5, <2>6, <2>7 DEF OrderInv
<1>3. ASSUME Send PROVE OrderInv'
  <2>1. CASE UNCHANGED <<sent, posted>>
    BY <1>3, <2>1 DEF Send, OrderInv, Sends
  <2>2. CASE sent' = sent + 1 /\ posted' = Append(posted, sent + 1)
    <3>1. /\ UNCHANGED <<thread, log>>
          /\ \A t \in Threads : Sends(t)' <=> Sends(t)
      BY <1>3 DEF Send, Sends
    <3>2. /\ posted \in Seq(Nat)
          /\ Len(posted') = Len(posted) + 1 /\ posted'[Len(posted) + 1] = sent + 1
          /\ \A i \in 1 .. Len(posted) : posted'[i] = posted[i]
      <4>1. posted \in Seq(Nat)
        BY <1>0
      <4> QED BY <1>0, <2>2, <4>1, AppendProperties
    <3>3. ASSUME NEW i \in 1 .. Len(posted')
          PROVE  \/ i \in 1 .. Len(posted) /\ posted'[i] = posted[i]
                 \/ i = Len(posted) + 1 /\ posted'[i] = sent + 1
      BY <1>0, <3>2
    <3>4. Len(posted) + 1 \in 1 .. Len(posted') /\ 1 .. Len(posted) \subseteq 1 .. Len(posted')
      BY <1>0, <3>2
    <3>5. ASSUME NEW i \in 1 .. Len(posted'), NEW j \in 1 .. Len(posted'), i < j
          PROVE  posted'[i] < posted'[j]
      <4>1. i \in 1 .. Len(posted) /\ posted'[i] = posted[i]
        BY <1>0, <3>2, <3>3, <3>5
      <4>2. CASE j \in 1 .. Len(posted) /\ posted'[j] = posted[j]
        BY <3>5, <4>1, <4>2 DEF OrderInv
      <4>3. CASE posted'[j] = sent + 1
        <5>1. posted[i] <= sent /\ posted[i] \in Nat
          BY <1>0, <4>1 DEF OrderInv
        <5> QED BY <1>0, <4>1, <4>3, <5>1
      <4> QED BY <3>3, <4>2, <4>3
    <3>6. ASSUME NEW i \in 1 .. Len(posted')
          PROVE  /\ posted'[i] <= sent'
                 /\ \A j \in 1 .. Len(log') : log'[j] < posted'[i]
                 /\ \A t \in Threads : Sends(t)' => thread'[t].data < posted'[i]
      <4>1. CASE i \in 1 .. Len(posted) /\ posted'[i] = posted[i]
        BY <1>0, <2>2, <3>1, <4>1 DEF OrderInv
      <4>2. CASE posted'[i] = sent + 1
        BY <1>0, <2>2, <3>1, <4>2 DEF OrderInv
      <4> QED BY <3>3, <4>1, <4>2
    <3>7. /\ \A j \in 1 .. Len(log') : log'[j] <= sent'
          /\ \A t \in Threads : Sends(t)' => thread'[t].data <= sent'
      BY <1>0, <2>2, <3>1 DEF OrderInv
    <3>8. ASSUME NEW d \in 1 .. sent'
          PROVE  \/ \E j \in 1 .. Len(log') : log'[j] = d
                 \/ \E t \in Threads : Sends(t)' /\ thread'[t].data = d
                 \/ \E i \in 1 .. Len(posted') : posted'[i] = d
      <4>1. CASE d = sent + 1
        BY <3>2, <3>4, <4>1
      <4>2. CASE d # sent + 1
        <5>1. d \in 1 .. sent
          BY <1>0, <2>2, <4>2
        <5> QED BY <3>1, <3>2, <3>4, <5>1 DEF OrderInv
      <4> QED BY <4>1, <4>2
    <3>9. \E t \in Threads : Sends(t)' => \A j \in 1 .. Len(log') : log'[j] < thread'[t].data
      BY <3>1 DEF OrderInv
    <3> QED BY <3>5, <3>6, <3>7, <3>8, <3>9 DEF OrderInv
  <2> QED BY <1>3, <2>1, <2>2 DEF Send, NextPacket, Post
<1>4. CASE ~Send /\ \A t \in Threads : ~PickSend(t) /\ ~DoSend(t)
  <2>1. /\ UNCHANGED <<posted, log, sent>>
        /\ \A t \in Threads : /\ Sends(t)' <=> Sends(t)
                              /\ Sends(t) => thread'[t] = thread[t]
    BY <1>4, OrderFrame
  <2> QED BY <2>1 DEF OrderInv
<1> QED BY <1>1, <1>2, <1>3, <1>4

(* The packets keep their order up to the threads that take them. *)
THEOREM OrderInvariant == Spec => []OrderInv
<1>1. SessionInv /\ OrderInv /\ [Next]_vars => OrderInv'
  BY StepOrder
<1> QED BY <1>1, InitOrder, SessionInvariant, PTL DEF Spec

(* An overtaken packet is held by a thread other than t, where t is a      *)
(* thread that holds none.                                                 *)
LEMMA OvertakenAreHeld ==
  ASSUME TypeOK, OrderInv
  PROVE  \E t \in Threads : Overtaken \subseteq {thread[s].data : s \in Threads \ {t}}
<1>1. PICK t \in Threads : Sends(t) => \A j \in 1 .. Len(log) : log[j] < thread[t].data
  BY DEF OrderInv
<1>2. ASSUME NEW d \in Overtaken PROVE d \in {thread[s].data : s \in Threads \ {t}}
  <2>1. /\ d \in Nat \ {0} /\ sent \in Nat
        /\ \A i \in 1 .. Len(log) : log[i] \in Nat
    <3>1. \A n \in Data : n \in Nat \ {0}
      BY BoundsAssumption DEF Data
    <3>2. log \in Seq(Data) /\ sent \in Nat
      BY BoundsAssumption DEF TypeOK
    <3>3. \A i \in 1 .. Len(log) : log[i] \in Data
      BY <3>2
    <3> QED BY <3>1, <3>2, <3>3 DEF Overtaken
  <2>2. PICK i \in 1 .. Len(log) : log[i] > d /\ ~ \E j \in 1 .. Len(log) : log[j] = d
    BY DEF Overtaken
  <2>3. d \in 1 .. sent
    BY <2>1, <2>2 DEF OrderInv
  <2>4. ~ \E j \in 1 .. Len(posted) : posted[j] = d
    BY <2>1, <2>2 DEF OrderInv
  <2>5. PICK s \in Threads : Sends(s) /\ thread[s].data = d
    BY <2>2, <2>3, <2>4 DEF OrderInv
  <2>6. s # t
    BY <1>1, <2>1, <2>2, <2>5
  <2> QED BY <2>5, <2>6
<1> QED BY <1>1, <1>2

(* However many threads run the io_context, and however they are           *)
(* interleaved, fewer packets than threads are overtaken at any time.      *)
THEOREM OvertakingIsBounded == Spec => []OverlapsOnly
<1>1. TypeOK /\ OrderInv => OverlapsOnly
  <2> SUFFICES ASSUME TypeOK, OrderInv PROVE OverlapsOnly
    OBVIOUS
  <2>1. PICK t \in Threads : Overtaken \subseteq {thread[s].data : s \in Threads \ {t}}
    BY OvertakenAreHeld
  <2> DEFINE U == Threads \ {t}
             H == {thread[s].data : s \in U}
             f == [s \in U |-> thread[s].data]
  <2>2. /\ IsFiniteSet(U) /\ Cardinality(U) = Cardinality(Threads) - 1
        /\ Cardinality(Threads) \in Nat /\ Cardinality(U) \in Nat
    BY ThreadsAssumption, FS_RemoveElement, FS_CardinalityType
  <2>3. f \in Surjection(U, H)
    BY DEF Surjection
  <2>4. IsFiniteSet(H) /\ Cardinality(H) <= Cardinality(U)
    BY <2>2, <2>3, FS_Surjection
  <2>5. /\ IsFiniteSet(Overtaken) /\ Cardinality(Overtaken) <= Cardinality(H)
        /\ Cardinality(Overtaken) \in Nat /\ Cardinality(H) \in Nat
    BY <2>1, <2>4, FS_Subset, FS_CardinalityType
  <2> HIDE DEF U, H, f
  <2> QED BY <2>2, <2>4, <2>5 DEF OverlapsOnly
<1> QED BY <1>1, OrderInvariant, TypeCorrect, PTL

-----------------------------------------------------------------------------
(* The refinement: a step of the session is a step of the channel, or does *)
(* not change what the channel sees.                                       *)
LEMMA ChannelInitMaps == Init => Channel!Init
  BY DEF Init, Channel!Init, at

LEMMA PutMaps ==
  ASSUME SessionInv, NEW t \in Threads, DoSend(t)
  PROVE  Channel!Put(thread[t].data) \/ Channel!PutAndWrite(thread[t].data)
<1> DEFINE d == thread[t].data
<1>0. TypeOK /\ WriteInv
  BY DEF SessionInv
<1>1. /\ send_queue \in Seq(Data) /\ log \in Seq(Data) /\ d \in Data
      /\ send_queue' = Append(send_queue, d) /\ log' = Append(log, d)
  BY <1>0, DoSendEffect DEF TypeOK
<1>2. /\ Len(send_queue') = Len(send_queue) + 1 /\ send_queue' # <<>>
      /\ Len(log') = Len(log) + 1
      /\ Len(send_queue) \in Nat /\ Len(log) \in Nat
  BY <1>1, AppendProperties
<1>3. CASE send_queue # <<>>
  <2>1. at' = at
    BY <1>2, <1>3 DEF at
  <2>2. wire' = wire
    BY <1>0, <1>3, DoSendEffect
  <2> QED BY <1>1, <2>1, <2>2 DEF Channel!Put
<1>4. CASE send_queue = <<>>
  <2>1. at = Len(log) /\ at' = Len(log')
    BY <1>2, <1>4 DEF at
  <2>2. wire' = Append(wire, d)
    BY <1>0, <1>4, DoSendEffect
  <2> QED BY <1>1, <2>1, <2>2 DEF Channel!PutAndWrite
<1> QED BY <1>3, <1>4

(* Which packet is written next, from the lengths l of the log, n of the   *)
(* queue before the write completed and m after it.                        *)
LEMMA NextPosition ==
  ASSUME NEW l \in Nat, NEW n \in Nat \ {0}, NEW m \in Nat \ {0}, NEW max \in Nat \ {0},
         n <= l,
         m = IF n - 1 > max THEN max ELSE n - 1
  PROVE  /\ l - m + 1 \in (l - n + 1) + 1 .. l
         /\ l - (l - m + 1) < max
         /\ l - m + 1 = (l - n + 1) + 1 \/ l - (l - m + 1) = max - 1
  OBVIOUS

LEMMA WriteMaps ==
  ASSUME SessionInv, NEW t \in Threads, OnWrite(t)
  PROVE  Channel!Write \/ UNCHANGED <<log, wire, at>>
<1> DEFINE q == send_queue
           max == send_queue_max_size
<1>0. TypeOK /\ WriteInv /\ QueueInv
  BY DEF SessionInv
<1>1. /\ q # <<>> /\ q \in Seq(Data) /\ q' \in Seq(Data) /\ log \in Seq(Data)
      /\ log' = log /\ max \in Nat \ {0}
  BY <1>0, OnWriteEffect, MaxIsPositive DEF TypeOK
<1>2. /\ Len(q) \in Nat \ {0} /\ Len(q') \in Nat /\ Len(log) \in Nat
      /\ Len(q) <= Len(log)
      /\ Len(q') = IF Len(q) - 1 > max THEN max ELSE Len(q) - 1
  BY <1>0, <1>1, OnWriteEffect DEF QueueInv
<1>3. at = Len(log) - Len(q) + 1
  BY <1>1 DEF at
<1>4. CASE q' = <<>>
  <2>1. Len(q) = 1
    BY <1>1, <1>2, <1>4
  <2>2. at' = at
    BY <1>1, <1>2, <1>3, <1>4, <2>1 DEF at
  <2> QED BY <1>0, <1>1, <1>4, <2>2, OnWriteEffect
<1>5. CASE q' # <<>>
  <2> DEFINE i == Len(log) - Len(q') + 1
  <2>1. Len(q') \in 1 .. Len(q) - 1 /\ Len(q') <= max
    BY <1>1, <1>2, <1>5
  <2>2. at' = i
    BY <1>1, <1>5 DEF at
  <2>3. Len(q') \in Nat \ {0}
    BY <1>1, <1>5
  <2>4. /\ i \in at + 1 .. Len(log) /\ Len(log) - i < max
        /\ i = at + 1 \/ Len(log) - i = max - 1
    <3>1. /\ i \in (Len(log) - Len(q) + 1) + 1 .. Len(log)
          /\ Len(log) - i < max
          /\ i = (Len(log) - Len(q) + 1) + 1 \/ Len(log) - i = max - 1
      <4>1. PICK m \in Nat \ {0} : m = Len(q')
        BY <2>3
      <4>2. PICK n \in Nat \ {0}, l \in Nat : n = Len(q) /\ l = Len(log)
        BY <1>2
      <4>3. n <= l /\ m = IF n - 1 > max THEN max ELSE n - 1
        BY <1>2, <4>1, <4>2
      <4>4. /\ l - m + 1 \in (l - n + 1) + 1 .. l
            /\ l - (l - m + 1) < max
            /\ l - m + 1 = (l - n + 1) + 1 \/ l - (l - m + 1) = max - 1
        BY <1>1, <4>3, NextPosition
      <4> QED BY <4>1, <4>2, <4>4
    <3> QED BY <1>3, <3>1
  <2>5. Head(q') = log[i]
    <3>1. Head(q') = q'[1]
      BY <1>1, <1>5
    <3>2. q'[1] = q[Len(q) - Len(q') + 1]
      BY <1>0, <2>1, OnWriteEffect
    <3>3. Len(q) - Len(q') + 1 \in 1 .. Len(q)
      BY <1>2, <2>1
    <3>4. q[Len(q) - Len(q') + 1] = log[Len(log) - Len(q) + (Len(q) - Len(q') + 1)]
      BY <1>0, <3>3 DEF QueueInv
    <3>5. Len(log) - Len(q) + (Len(q) - Len(q') + 1) = i
      BY <1>2
    <3> QED BY <3>1, <3>2, <3>4, <3>5
  <2>6. wire' = Append(wire, log[i])
    BY <1>0, <1>5, <2>5, OnWriteEffect
  <2> QED BY <1>1, <2>2, <2>4, <2>6 DEF Channel!Write
<1> QED BY <1>4, <1>5

LEMMA ChannelStepMaps == SessionInv /\ [Next]_vars => [Channel!Next]_(Channel!vars)
<1> SUFFICES ASSUME SessionInv, [Next]_vars
             PROVE  Channel!Next \/ UNCHANGED <<log, wire, at>>
  BY DEF Channel!vars
<1>1. ASSUME NEW t \in Threads, DoSend(t) PROVE Channel!Next
  <2>1. thread[t].data \in Data
    BY <1>1, DoSendEffect DEF SessionInv
  <2> QED BY <1>1, <2>1, PutMaps DEF Channel!Next
<1>2. ASSUME NEW t \in Threads, OnWrite(t)
      PROVE  Channel!Next \/ UNCHANGED <<log, wire, at>>
  BY <1>2, WriteMaps DEF Channel!Next
<1>3. ASSUME NEW t \in Threads, OnWriteFail(t) PROVE UNCHANGED <<log, wire, at>>
  BY <1>3, OnWriteFailEffect DEF SessionInv, at
<1>4. CASE \A t \in Threads : ~DoSend(t) /\ ~OnWrite(t) /\ ~OnWriteFail(t)
  <2>1. UNCHANGED <<send_queue, log, wire>>
    BY <1>4, QueueFrame
  <2> QED BY <2>1 DEF at
<1> QED BY <1>1, <1>2, <1>3, <1>4

(* The session implements the channel that drops only eldest packets. *)
THEOREM ImplementsChannel == Spec => ChannelSpec
<1> QED BY ChannelInitMaps, ChannelStepMaps, SessionInvariant, PTL
        DEF Spec, ChannelSpec, Channel!Spec

LEMMA FeedStepMaps == SessionInv /\ [Next]_vars => [Feed!Next]_(Feed!feed)
<1> SUFFICES ASSUME SessionInv, [Next]_vars
             PROVE  Feed!Next \/ UNCHANGED Feed!feed
  OBVIOUS
<1> USE DEF SessionInv, LifeInv, TypeOK, Feed!Next, Feed!feed
<1>1. ASSUME NEW t \in Threads, Handler(t)
      PROVE  Feed!Next \/ UNCHANGED Feed!feed
  <2>1. CASE OnAcceptFail(t) \/ OnReadFail(t) \/ OnWriteFail(t)
    <3>1. joined' = FALSE /\ accepting' = FALSE /\ closed' = closed + 1 /\ UNCHANGED <<sender, sent>>
      BY <2>1 DEF OnAcceptFail, OnReadFail, OnWriteFail, OnEventClosed
    <3>2. closed' # 0
      BY <3>1
    <3>3. CASE accepting \/ closed = 0
      BY <3>1, <3>2, <3>3 DEF Feed!Leave
    <3>4. CASE ~accepting /\ closed # 0
      BY <3>1, <3>2, <3>4
    <3> QED BY <3>3, <3>4
  <2>2. CASE OnAccept(t)
    BY <2>2 DEF OnAccept, Feed!Join
  <2>3. CASE DoRead(t) \/ OnRead(t) \/ PickSend(t) \/ DoSend(t) \/ OnWrite(t)
    BY <2>3 DEF DoRead, OnRead, PickSend, DoSend, OnWrite
  <2> QED BY <1>1, <2>1, <2>2, <2>3 DEF Handler
<1>2. CASE RoomSnapshot
  BY <1>2 DEF RoomSnapshot, Feed!Copy
<1>3. CASE Send
  BY <1>3 DEF Send, NextPacket, Alive, Feed!Post, Feed!Skip
<1>4. CASE PeerLost \/ UNCHANGED vars
  BY <1>4 DEF PeerLost, vars
<1> QED BY <1>1, <1>2, <1>3, <1>4 DEF Next

(* The session joins and leaves the room, and is sent to, as RoomFeed has  *)
(* it, for any number of threads.                                          *)
THEOREM ImplementsFeed == Spec => FeedSpec
<1>1. Init => Feed!Init
  BY DEF Init, Feed!Init
<1> QED BY <1>1, FeedStepMaps, SessionInvariant, PTL DEF Spec, FeedSpec, Feed!Spec

-----------------------------------------------------------------------------
(* What the abstract channel guarantees, of this session's packets.        *)

(* OutIsSubsequence with the position of every written packet: none is     *)
(* newer than the newest, which makes the next position larger than all.   *)
Placed(f) ==
    /\ f \in [1 .. Len(wire) -> 1 .. Len(log)]
    /\ \A i, j \in 1 .. Len(wire) : i < j => f[i] < f[j]
    /\ \A i \in 1 .. Len(wire) : wire[i] = log[f[i]] /\ f[i] <= at

ChannelInv == Channel!TypeOK /\ \E f : Placed(f)

(* Writing position i of the log, beyond all the positions written before. *)
LEMMA PlaceNext ==
  ASSUME NEW s \in Seq(Data), NEW t \in Seq(Data), NEW i \in 1 .. Len(t),
         NEW f \in [1 .. Len(s) -> 1 .. Len(t)],
         \A j, k \in 1 .. Len(s) : j < k => f[j] < f[k],
         \A j \in 1 .. Len(s) : s[j] = t[f[j]] /\ f[j] < i
  PROVE  \E g \in [1 .. Len(Append(s, t[i])) -> 1 .. Len(t)] :
           /\ \A j, k \in 1 .. Len(Append(s, t[i])) : j < k => g[j] < g[k]
           /\ \A j \in 1 .. Len(Append(s, t[i])) :
                Append(s, t[i])[j] = t[g[j]] /\ g[j] <= i
<1> DEFINE n == Len(s)
           u == Append(s, t[i])
           g == [j \in 1 .. Len(u) |-> IF j <= n THEN f[j] ELSE i]
<1>1. /\ t[i] \in Data /\ n \in Nat
      /\ Len(u) = n + 1
      /\ \A j \in 1 .. n : u[j] = s[j]
      /\ u[n + 1] = t[i]
  BY AppendProperties
<1>2. g \in [1 .. Len(u) -> 1 .. Len(t)]
  BY <1>1
<1>3. \A j, k \in 1 .. Len(u) : j < k => g[j] < g[k]
  <2> TAKE j, k \in 1 .. Len(u)
  <2> HAVE j < k
  <2>1. CASE k <= n
    BY <1>1, <2>1
  <2>2. CASE ~(k <= n)
    <3>1. j \in 1 .. n /\ g[k] = i /\ g[j] = f[j]
      BY <1>1, <2>2
    <3> QED BY <3>1
  <2> QED BY <2>1, <2>2
<1>4. \A j \in 1 .. Len(u) : u[j] = t[g[j]] /\ g[j] <= i
  <2> TAKE j \in 1 .. Len(u)
  <2>1. CASE j <= n
    <3>1. j \in 1 .. n /\ g[j] = f[j] /\ f[j] \in 1 .. Len(t)
      BY <1>1, <2>1
    <3> QED BY <1>1, <3>1
  <2>2. CASE ~(j <= n)
    <3>1. j = n + 1 /\ g[j] = i
      BY <1>1, <2>2
    <3> QED BY <1>1, <3>1
  <2> QED BY <2>1, <2>2
<1> QED BY <1>2, <1>3, <1>4

LEMMA ChannelInit == Channel!Init => ChannelInv
<1> SUFFICES ASSUME Channel!Init PROVE ChannelInv
  OBVIOUS
<1>1. Channel!TypeOK
  BY DEF Channel!Init, Channel!TypeOK
<1>2. Placed([i \in 1 .. 0 |-> i])
  BY DEF Channel!Init, Placed
<1> QED BY <1>1, <1>2 DEF ChannelInv

LEMMA ChannelStep == ChannelInv /\ [Channel!Next]_(Channel!vars) => ChannelInv'
<1> SUFFICES ASSUME Channel!TypeOK, NEW f, Placed(f), [Channel!Next]_(Channel!vars)
             PROVE  Channel!TypeOK' /\ \E g : Placed(g)'
  BY DEF ChannelInv
<1>0. /\ log \in Seq(Data) /\ wire \in Seq(Data)
      /\ Len(log) \in Nat /\ Len(wire) \in Nat /\ at \in 0 .. Len(log)
  BY DEF Channel!TypeOK
<1>1. ASSUME NEW p \in Data, Channel!Put(p) PROVE Channel!TypeOK' /\ \E g : Placed(g)'
  <2>1. /\ log' \in Seq(Data) /\ Len(log') = Len(log) + 1
        /\ \A i \in 1 .. Len(log) : log'[i] = log[i]
    BY <1>0, <1>1, AppendProperties DEF Channel!Put
  <2>2. Channel!TypeOK'
    BY <1>0, <1>1, <2>1 DEF Channel!Put, Channel!TypeOK
  <2>3. f \in [1 .. Len(wire) -> 1 .. Len(log')]
    BY <1>0, <2>1 DEF Placed
  <2>4. Placed(f)'
    BY <1>0, <1>1, <2>1, <2>3 DEF Channel!Put, Placed
  <2> QED BY <2>2, <2>4
<1>2. ASSUME NEW p \in Data, Channel!PutAndWrite(p) PROVE Channel!TypeOK' /\ \E g : Placed(g)'
  <2>0. PICK t \in Seq(Data) : t = log'
    BY <1>0, <1>2, AppendProperties DEF Channel!PutAndWrite
  <2>1. /\ Len(t) = Len(log) + 1
        /\ \A i \in 1 .. Len(log) : t[i] = log[i]
        /\ t[Len(t)] = p
    BY <1>0, <1>2, <2>0, AppendProperties DEF Channel!PutAndWrite
  <2>2. PICK i \in 1 .. Len(t) : i = Len(t)
    BY <1>0, <2>1
  <2>3. log' = t /\ wire' = Append(wire, t[i]) /\ at' = i
    BY <1>2, <2>0, <2>1, <2>2 DEF Channel!PutAndWrite
  <2>4. Channel!TypeOK'
    BY <1>0, <2>1, <2>2, <2>3 DEF Channel!TypeOK
  <2>5. /\ f \in [1 .. Len(wire) -> 1 .. Len(t)]
        /\ \A j, k \in 1 .. Len(wire) : j < k => f[j] < f[k]
        /\ \A j \in 1 .. Len(wire) : wire[j] = t[f[j]] /\ f[j] < i
    <3>1. f \in [1 .. Len(wire) -> 1 .. Len(log)]
      BY DEF Placed
    <3>2. \A j \in 1 .. Len(wire) : f[j] \in 1 .. Len(log) /\ f[j] \in 1 .. Len(t) /\ f[j] < i
      BY <1>0, <2>1, <2>2, <3>1
    <3> QED BY <1>0, <2>1, <3>1, <3>2 DEF Placed
  <2>6. \E g \in [1 .. Len(Append(wire, t[i])) -> 1 .. Len(t)] :
           /\ \A j, k \in 1 .. Len(Append(wire, t[i])) : j < k => g[j] < g[k]
           /\ \A j \in 1 .. Len(Append(wire, t[i])) :
                Append(wire, t[i])[j] = t[g[j]] /\ g[j] <= i
    BY <1>0, <2>5, PlaceNext
  <2>7. \E g : Placed(g)'
    BY <2>3, <2>6 DEF Placed
  <2> QED BY <2>4, <2>7
<1>3. ASSUME Channel!Write PROVE Channel!TypeOK' /\ \E g : Placed(g)'
  <2>1. PICK i \in at + 1 .. Len(log) :
          at' = i /\ wire' = Append(wire, log[i]) /\ log' = log
    BY <1>3 DEF Channel!Write
  <2>2. i \in 1 .. Len(log)
    BY <1>0, <2>1
  <2>3. Channel!TypeOK'
    BY <1>0, <2>1, <2>2 DEF Channel!TypeOK
  <2>4. /\ f \in [1 .. Len(wire) -> 1 .. Len(log)]
        /\ \A j, k \in 1 .. Len(wire) : j < k => f[j] < f[k]
        /\ \A j \in 1 .. Len(wire) : wire[j] = log[f[j]] /\ f[j] < i
    BY <1>0, <2>1 DEF Placed
  <2>5. \E g \in [1 .. Len(Append(wire, log[i])) -> 1 .. Len(log)] :
           /\ \A j, k \in 1 .. Len(Append(wire, log[i])) : j < k => g[j] < g[k]
           /\ \A j \in 1 .. Len(Append(wire, log[i])) :
                Append(wire, log[i])[j] = log[g[j]] /\ g[j] <= i
    BY <1>0, <2>2, <2>4, PlaceNext
  <2>6. \E g : Placed(g)'
    BY <2>1, <2>5 DEF Placed
  <2> QED BY <2>3, <2>6
<1>4. ASSUME UNCHANGED Channel!vars PROVE Channel!TypeOK' /\ \E g : Placed(g)'
  BY <1>4 DEF Channel!vars, Channel!TypeOK, Placed
<1> QED BY <1>1, <1>2, <1>3, <1>4 DEF Channel!Next

(* The channel writes only accepted packets, in order, each at most once. *)
THEOREM OutSubsequence == Channel!Spec => []Channel!OutIsSubsequence
<1>1. ChannelInv => Channel!OutIsSubsequence
  BY DEF ChannelInv, Placed, Channel!OutIsSubsequence, Channel!IsSubsequence
<1> QED BY <1>1, ChannelInit, ChannelStep, PTL DEF Channel!Spec

(* What reaches the socket is a subsequence of what was queued. *)
THEOREM WireSubsequence == Spec => []WireIsSubsequence
  BY ImplementsChannel, OutSubsequence, PTL DEF ChannelSpec, WireIsSubsequence
=============================================================================
