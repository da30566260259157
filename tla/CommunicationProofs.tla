------------------------ MODULE CommunicationProofs ------------------------
(***************************************************************************)
(* Proofs about Communication, for any number of slots, threads and        *)
(* events.  The inductive invariant follows each slot (Places), each event *)
(* (Carried) and what a closed port means (Ports); the counting properties *)
(* of the specification are derived from it at the end.                    *)
(***************************************************************************)
EXTENDS Communication, TLAPS, FiniteSetTheorems, SequenceTheorems

Packet == [slot : Slots, result : Result]

\* A packet of slot s with result r is at the port.
Queued(s, r) == \E k \in DOMAIN packets : packets[k].slot = s /\ packets[k].result = r

\* No slot has two packets.
OnePacket ==
  \A j, k \in DOMAIN packets : packets[j].slot = packets[k].slot => j = k

\* where says where a slot is, and it is nowhere else.
Places ==
  /\ OnePacket
  /\ \A s \in Slots : where[s] = "queued" <=> \E r \in Result : Queued(s, r)
  /\ \A t, u \in Threads : slot[t] # None /\ slot[t] = slot[u] => t = u
  /\ \A s \in Slots : where[s] = "thread" <=> \E t \in Threads : slot[t] = s

\* The event in the slot's buffer is still to be handled.
Carrying(s) ==
  Queued(s, "success") \/ \E t \in Threads : slot[t] = s /\ tpc[t] = "respond"

\* Each event that was sent is in one slot, or has been handled.
Carried ==
  /\ \A s \in Slots : Carrying(s) => buffer[s] \in sent
  /\ \A r, s \in Slots : Carrying(r) /\ Carrying(s) /\ buffer[r] = buffer[s] => r = s
  /\ \A e \in Events \ sent : handled[e] = 0
  /\ \A e \in sent :
       \/ handled[e] = 0 /\ \E s \in Slots : Carrying(s) /\ buffer[s] = e
       \/ handled[e] = 1 /\ \A s \in Slots : Carrying(s) => buffer[s] # e

\* Threads run only between Start and Stop, and the port is closed by Stop.
Ports ==
  /\ mpc \in {"idle", "port"} => \A t \in Threads : tpc[t] = "none"
  /\ mpc \in {"issue", "run", "close"} => port
  /\ mpc \in {"close", "join", "stopped"} => is_stopped_
  /\ mpc = "failed" => \A t \in Threads : tpc[t] = "none"

IInv == TypeOK /\ Places /\ Carried /\ Ports

-----------------------------------------------------------------------------
(* The queue of the port *)

\* The oldest packet leaves, all others stay.
LEMMA TakesOldest ==
  ASSUME packets \in Seq(Packet), OnePacket, packets # <<>>, packets' = Tail(packets)
  PROVE  /\ Head(packets) \in Packet /\ packets' \in Seq(Packet) /\ OnePacket'
         /\ Queued(Head(packets).slot, Head(packets).result)
         /\ \A r : Queued(Head(packets).slot, r) => r = Head(packets).result
         /\ \A s, r : Queued(s, r)' <=> Queued(s, r) /\ s # Head(packets).slot
<1>1. /\ Head(packets) \in Packet /\ packets' \in Seq(Packet)
      /\ \A i \in 1..Len(packets') : packets'[i] = packets[i + 1]
      /\ Len(packets') = Len(packets) - 1
  BY HeadTailProperties
<1>2. Head(packets) = packets[1]
  OBVIOUS
<1>3. /\ Len(packets) \in Nat \ {0} /\ DOMAIN packets = 1..Len(packets)
      /\ DOMAIN packets' = 1..(Len(packets) - 1)
  BY <1>1, LenProperties, EmptySeq
<1>n. PICK n \in Nat \ {0} : n = Len(packets)
  BY <1>3
<1>4. /\ DOMAIN packets = 1..n /\ DOMAIN packets' = 1..(n - 1)
      /\ \A i \in 1..(n - 1) : packets'[i] = packets[i + 1]
  BY <1>1, <1>3, <1>n
<1>5. \A i \in 1..(n - 1) : i + 1 \in 1..n /\ i + 1 # 1
  OBVIOUS
<1>6. \A i \in 1..n : i # 1 => i - 1 \in 1..(n - 1) /\ (i - 1) + 1 = i
  OBVIOUS
<1>7. OnePacket'
  <2> SUFFICES ASSUME NEW j \in 1..(n - 1), NEW k \in 1..(n - 1),
                      packets'[j].slot = packets'[k].slot
               PROVE  j = k
    BY <1>4 DEF OnePacket
  <2>1. j + 1 = k + 1
    BY <1>4, <1>5 DEF OnePacket
  <2> QED  BY <2>1
<1>8. 1 \in DOMAIN packets
  BY <1>4
<1>9. Queued(Head(packets).slot, Head(packets).result)
  BY <1>2, <1>8 DEF Queued
<1>10. \A r : Queued(Head(packets).slot, r) => r = Head(packets).result
  BY <1>2, <1>8 DEF Queued, OnePacket
<1>11. ASSUME NEW s, NEW r
       PROVE  Queued(s, r)' <=> Queued(s, r) /\ s # Head(packets).slot
  <2>1. ASSUME NEW i \in 1..(n - 1), packets'[i].slot = s, packets'[i].result = r
        PROVE  Queued(s, r) /\ s # Head(packets).slot
    <3>1. i + 1 \in DOMAIN packets /\ packets[i + 1].slot = s /\ packets[i + 1].result = r
      BY <1>4, <1>5, <2>1
    <3>2. i + 1 # 1
      BY <1>5
    <3> QED  BY <1>2, <1>8, <3>1, <3>2 DEF Queued, OnePacket
  <2>2. ASSUME NEW i \in 1..n, packets[i].slot = s, packets[i].result = r,
               s # Head(packets).slot
        PROVE  Queued(s, r)'
    <3>1. i # 1
      BY <1>2, <2>2
    <3>2. i - 1 \in DOMAIN packets' /\ packets'[i - 1] = packets[i]
      BY <1>4, <1>6, <3>1
    <3> QED  BY <2>2, <3>2 DEF Queued
  <2> QED  BY <1>4, <2>1, <2>2 DEF Queued
<1> QED  BY <1>1, <1>7, <1>9, <1>10, <1>11

\* A packet is queued behind all others.
LEMMA QueuesLast ==
  ASSUME packets \in Seq(Packet), OnePacket, NEW s \in Slots, NEW r \in Result,
         \A q : ~Queued(s, q), packets' = Append(packets, [slot |-> s, result |-> r])
  PROVE  /\ packets' \in Seq(Packet) /\ OnePacket'
         /\ \A x, q : Queued(x, q)' <=> Queued(x, q) \/ (x = s /\ q = r)
<1> DEFINE p == [slot |-> s, result |-> r]
<1>0. p \in Packet
  BY DEF Packet
<1>1. /\ packets' \in Seq(Packet) /\ Len(packets') = Len(packets) + 1
      /\ \A i \in 1..Len(packets) : packets'[i] = packets[i]
      /\ packets'[Len(packets) + 1] = p
  BY <1>0, AppendProperties
<1>2. /\ Len(packets) \in Nat /\ DOMAIN packets = 1..Len(packets)
      /\ DOMAIN packets' = 1..(Len(packets) + 1)
  BY <1>1, LenProperties
<1>n. PICK n \in Nat : n = Len(packets)
  BY <1>2
<1>3. /\ DOMAIN packets = 1..n /\ DOMAIN packets' = (1..n) \cup {n + 1}
      /\ \A i \in 1..n : packets'[i] = packets[i]
      /\ packets'[n + 1] = p /\ n + 1 \notin 1..n
  BY <1>1, <1>2, <1>n
<1>4. \A i \in 1..n : packets[i].slot # s
  BY <1>3 DEF Queued
<1>5. p.slot = s /\ p.result = r
  OBVIOUS
<1> HIDE DEF p
<1>6. OnePacket'
  BY <1>3, <1>4, <1>5 DEF OnePacket
<1>7. \A x, q : Queued(x, q)' <=> Queued(x, q) \/ (x = s /\ q = r)
  BY <1>3, <1>4, <1>5 DEF Queued
<1> QED  BY <1>1, <1>6, <1>7

-----------------------------------------------------------------------------
(* Start, Stop and the way out *)

\* Packets have the form that TypeOK gives them.
LEMMA PacketsTyped == TypeOK => packets \in Seq(Packet)
BY DEF TypeOK, Packet

\* Nothing has been sent before the service starts.
LEMMA InitIInv == Init => IInv
<1> SUFFICES ASSUME Init PROVE IInv
  OBVIOUS
<1>1. DOMAIN packets = {} /\ packets \in Seq([slot : Slots, result : Result])
  BY EmptySeq DEF Init
<1>2. TypeOK
  BY <1>1 DEF Init, TypeOK, MainStep, ThreadStep, Place
<1>3. \A s, r : ~Queued(s, r)
  BY <1>1 DEF Queued
<1>4. \A s \in Slots : ~Carrying(s)
  BY <1>3 DEF Init, Carrying
<1>5. Places
  BY <1>1, <1>3, CommunicationAssumption DEF Init, Places, OnePacket
<1>6. Carried
  BY <1>4 DEF Init, Carried
<1>7. Ports
  BY DEF Init, Ports
<1> QED  BY <1>2, <1>5, <1>6, <1>7 DEF IInv

\* A step that moves no slot and no packet, and by which no thread begins or
\* ends to handle an event, changes neither places nor events.
LEMMA QuietKeeps ==
  ASSUME Places, Carried, UNCHANGED <<slots, slot, events>>,
         \A t \in Threads : (tpc[t] = "respond") <=> (tpc'[t] = "respond")
  PROVE  Places' /\ Carried'
<1> USE DEF slots, events
<1>1. \A s, r : Queued(s, r)' <=> Queued(s, r)
  BY DEF Queued
<1>2. OnePacket'
  BY DEF Places, OnePacket
<1>3. Places'
  BY <1>1, <1>2 DEF Places
<1>4. \A s : Carrying(s)' <=> Carrying(s)
  BY <1>1 DEF Carrying
<1>5. Carried'
  BY <1>4 DEF Carried
<1> QED  BY <1>3, <1>5

\* ServiceMain's steps apart from IssueFirst.
LEMMA MainKeeps ==
  ASSUME IInv,
         \/ OpenDevice \/ CreatePort \/ Stop \/ ClosePort \/ Join
         \/ \E t \in Threads : StartThread(t)
  PROVE  IInv'
<1> USE DEF IInv, slots, thread, events
<1>1. CASE OpenDevice
  <2> USE <1>1 DEF OpenDevice
  <2>1. TypeOK' /\ Ports'  BY DEF TypeOK, Ports, MainStep
  <2> QED  BY <2>1, QuietKeeps
<1>2. CASE CreatePort
  <2> USE <1>2 DEF CreatePort
  <2>1. TypeOK' /\ Ports'  BY DEF TypeOK, Ports, MainStep
  <2> QED  BY <2>1, QuietKeeps
<1>3. CASE Stop
  <2> USE <1>3 DEF Stop
  <2>1. TypeOK' /\ Ports'  BY DEF TypeOK, Ports, MainStep
  <2> QED  BY <2>1, QuietKeeps
<1>4. CASE ClosePort
  <2> USE <1>4 DEF ClosePort
  <2>1. TypeOK' /\ Ports'  BY DEF TypeOK, Ports, MainStep
  <2> QED  BY <2>1, QuietKeeps
<1>5. CASE Join
  <2> USE <1>5 DEF Join
  <2>1. TypeOK' /\ Ports'  BY DEF TypeOK, Ports, MainStep
  <2> QED  BY <2>1, QuietKeeps
<1>6. ASSUME NEW t \in Threads, StartThread(t) PROVE IInv'
  <2> USE <1>6 DEF StartThread, Goto
  <2>1. TypeOK'  BY DEF TypeOK, MainStep, ThreadStep
  <2>2. Ports'  BY DEF TypeOK, Ports
  <2>3. \A u \in Threads : (tpc[u] = "respond") <=> (tpc'[u] = "respond")
    BY DEF TypeOK
  <2> QED  BY <2>1, <2>2, <2>3, QuietKeeps
<1> QED  BY <1>1, <1>2, <1>3, <1>4, <1>5, <1>6

\* A thread that ends, or goes on to wait, holds nothing.
LEMMA LoopKeeps ==
  ASSUME IInv, NEW t \in Threads, TestStopped(t) \/ Abandoned(t)
  PROVE  IInv'
<1> USE DEF IInv, main, slots, events, Goto, TestStopped, Abandoned
<1>1. TypeOK'
  BY DEF TypeOK, ThreadStep
<1>2. Ports'
  BY DEF TypeOK, Ports
<1>3. \A u \in Threads : (tpc[u] = "respond") <=> (tpc'[u] = "respond")
  BY DEF TypeOK
<1> QED  BY <1>1, <1>2, <1>3, QuietKeeps

-----------------------------------------------------------------------------
(* Requests and packets *)

\* The first request of a slot leaves from no thread and no queue.
LEMMA IssueFirstKeeps ==
  ASSUME IInv, NEW s \in Slots, IssueFirst(s)
  PROVE  IInv'
<1> USE DEF IInv, main, thread, events, IssueFirst, DoSingleRequest, Move
<1>1. TypeOK'
  BY DEF TypeOK, Place
<1>2. \A x, r : Queued(x, r)' <=> Queued(x, r)
  BY DEF Queued
<1>3. Places'
  BY <1>2 DEF Places, OnePacket, TypeOK
<1>4. \A x : Carrying(x)' <=> Carrying(x)
  BY <1>2 DEF Carrying
<1>5. Carried' /\ Ports'
  BY <1>4 DEF Carried, Ports
<1> QED  BY <1>1, <1>3, <1>5

\* A request that is completed gets the only packet of its slot.
LEMMA CompleteKeeps ==
  ASSUME IInv, NEW s \in Slots, NEW r \in Result, Complete(s, r),
         UNCHANGED <<main, thread>>
  PROVE  /\ where' \in [Slots -> Place] /\ packets' \in Seq(Packet)
         /\ Places' /\ Ports' /\ ~Carrying(s)
         /\ \A x : Carrying(x)' <=> Carrying(x) \/ (x = s /\ r = "success")
<1> USE DEF IInv, Complete, Move, main, thread
<1>1. where[s] = "device" /\ where' = [where EXCEPT ![s] = "queued"]
  OBVIOUS
<1>2. packets \in Seq(Packet) /\ OnePacket
  BY PacketsTyped DEF Places
<1>3. \A q : ~Queued(s, q)
  <2>1. \A k \in DOMAIN packets : packets[k] \in Packet
    BY <1>2, LenProperties
  <2>2. \A q : Queued(s, q) => q \in Result
    BY <2>1 DEF Queued, Packet
  <2> QED  BY <1>1, <2>2 DEF Places, Place
<1>4. /\ packets' \in Seq(Packet) /\ OnePacket'
      /\ \A x, q : Queued(x, q)' <=> Queued(x, q) \/ (x = s /\ q = r)
  BY <1>2, <1>3, QueuesLast
<1>5. \A t \in Threads : slot[t] # s
  BY <1>1 DEF Places
<1>6. where' \in [Slots -> Place]
  BY <1>1 DEF TypeOK, Place
<1>7. \A x \in Slots : where'[x] = "queued" <=> \E q \in Result : Queued(x, q)'
  BY <1>1, <1>4 DEF Places, TypeOK
<1>8. \A x \in Slots : where'[x] = "thread" <=> \E t \in Threads : slot'[t] = x
  BY <1>1, <1>5 DEF Places, TypeOK
<1>9. Places'
  BY <1>4, <1>7, <1>8 DEF Places
<1>10. ~Carrying(s)
  BY <1>3, <1>5 DEF Carrying
<1>11. \A x : Carrying(x)' <=> Carrying(x) \/ (x = s /\ r = "success")
  BY <1>4 DEF Carrying
<1>12. Ports'
  BY DEF Ports
<1> QED  BY <1>4, <1>6, <1>9, <1>10, <1>11, <1>12

\* A buffer that is answered into was carrying nothing.
LEMMA AnswerKeeps ==
  ASSUME IInv, NEW s \in Slots, NEW e \in Events, Answer(s, e)
  PROVE  IInv'
<1>1. /\ where' \in [Slots -> Place] /\ packets' \in Seq(Packet)
      /\ Places' /\ Ports' /\ ~Carrying(s)
      /\ \A x : Carrying(x)' <=> Carrying(x) \/ x = s
  BY CompleteKeeps DEF Answer, Result
<1>2. /\ e \notin sent /\ sent' = sent \cup {e}
      /\ buffer' = [buffer EXCEPT ![s] = e] /\ UNCHANGED <<main, thread, handled>>
  BY DEF Answer
<1>3. /\ buffer \in [Slots -> Events \cup {None}] /\ sent \subseteq Events
      /\ handled \in [Events -> Nat]
  BY DEF IInv, TypeOK
<1>4. TypeOK'
  BY <1>1, <1>2 DEF IInv, TypeOK, Packet, main, thread
<1>5. \A x \in Slots : Carrying(x) => buffer'[x] = buffer[x] /\ buffer[x] \in sent
  BY <1>1, <1>2, <1>3 DEF IInv, Carried
<1>6. buffer'[s] = e /\ handled[e] = 0 /\ handled' = handled
  BY <1>2, <1>3 DEF IInv, Carried
<1>7. \A x \in Slots : Carrying(x)' => buffer'[x] \in sent'
  BY <1>1, <1>2, <1>5, <1>6
<1>8. \A x, y \in Slots : Carrying(x)' /\ Carrying(y)' /\ buffer'[x] = buffer'[y] => x = y
  BY <1>1, <1>2, <1>5, <1>6 DEF IInv, Carried
<1>9. \A f \in Events \ sent' : handled'[f] = 0
  BY <1>2, <1>6 DEF IInv, Carried
<1>10. \A f \in sent' :
         \/ handled'[f] = 0 /\ \E x \in Slots : Carrying(x)' /\ buffer'[x] = f
         \/ handled'[f] = 1 /\ \A x \in Slots : Carrying(x)' => buffer'[x] # f
  <2> TAKE f \in sent'
  <2>1. CASE f = e
    BY <1>1, <1>6, <2>1
  <2>2. CASE f \in sent
    BY <1>1, <1>2, <1>5, <1>6, <2>2 DEF IInv, Carried
  <2> QED  BY <1>2, <2>1, <2>2
<1>11. Carried'
  BY <1>7, <1>8, <1>9, <1>10 DEF Carried
<1> QED  BY <1>1, <1>4, <1>11 DEF IInv

\* A request that is completed without data carries nothing afterwards either.
LEMMA RefuseKeeps ==
  ASSUME IInv, NEW s \in Slots, NEW r \in Result \ {"success"}, Refuse(s, r)
  PROVE  IInv'
<1>1. /\ where' \in [Slots -> Place] /\ packets' \in Seq(Packet)
      /\ Places' /\ Ports' /\ \A x : Carrying(x)' <=> Carrying(x)
  BY CompleteKeeps DEF Refuse, thread
<1>2. UNCHANGED <<main, buffer, thread, events>>
  BY DEF Refuse
<1>3. TypeOK'
  BY <1>1, <1>2 DEF IInv, TypeOK, Packet, main, thread, events
<1>4. Carried'
  BY <1>1, <1>2 DEF IInv, Carried, events
<1> QED  BY <1>1, <1>3, <1>4 DEF IInv

-----------------------------------------------------------------------------
(* The threads of the pool *)

\* A packet that is taken leaves the port without its slot.
LEMMA DequeueTakes ==
  ASSUME IInv, NEW t \in Threads, NEW r \in Result, Dequeue(t, r)
  PROVE  LET h == Head(packets).slot
         IN  /\ h \in Slots /\ where[h] = "queued" /\ port /\ tpc[t] = "wait"
             /\ packets' \in Seq(Packet) /\ OnePacket'
             /\ Queued(h, r) /\ \A q : Queued(h, q) => q = r
             /\ \A s, q : Queued(s, q)' <=> Queued(s, q) /\ s # h
             /\ \A u \in Threads : slot[u] # h
<1> DEFINE h == Head(packets).slot
<1>1. /\ packets # <<>> /\ Head(packets).result = r /\ packets' = Tail(packets)
      /\ port /\ tpc[t] = "wait"
  BY DEF Dequeue
<1>2. packets \in Seq(Packet) /\ OnePacket
  BY PacketsTyped DEF IInv, Places
<1>3. /\ Head(packets) \in Packet /\ packets' \in Seq(Packet) /\ OnePacket'
      /\ Queued(h, Head(packets).result)
      /\ \A q : Queued(h, q) => q = Head(packets).result
      /\ \A s, q : Queued(s, q)' <=> Queued(s, q) /\ s # h
  BY <1>1, <1>2, TakesOldest
<1>4. h \in Slots
  BY <1>3 DEF Packet
<1> HIDE DEF h
<1>5. Queued(h, r)
  BY <1>1, <1>3
<1>6. where[h] = "queued"
  BY <1>4, <1>5 DEF IInv, Places
<1>7. \A u \in Threads : slot[u] # h
  BY <1>4, <1>6 DEF IInv, Places
<1> QED  BY <1>1, <1>3, <1>4, <1>5, <1>6, <1>7 DEF h

\* The event goes on from the queue to the thread.
LEMMA TakeKeeps ==
  ASSUME IInv, NEW t \in Threads, Take(t)
  PROVE  IInv'
<1>1. Dequeue(t, "success")
  BY DEF Take
<1>2. PICK h \in Slots :
        /\ h = Head(packets).slot /\ where[h] = "queued" /\ port /\ tpc[t] = "wait"
        /\ packets' \in Seq(Packet) /\ OnePacket'
        /\ Queued(h, "success") /\ \A q : Queued(h, q) => q = "success"
        /\ \A s, q : Queued(s, q)' <=> Queued(s, q) /\ s # h
        /\ \A u \in Threads : slot[u] # h
  BY <1>1, DequeueTakes DEF Result
<1>3. /\ tpc' = [tpc EXCEPT ![t] = "respond"]
      /\ where' = [where EXCEPT ![h] = "thread"]
      /\ slot' = [slot EXCEPT ![t] = h]
      /\ UNCHANGED <<main, buffer, events>>
  BY <1>2 DEF Take, Goto, Move
<1>4. /\ tpc \in [Threads -> ThreadStep] /\ where \in [Slots -> Place]
      /\ slot \in [Threads -> Slots \cup {None}] /\ None \notin Slots
      /\ slot[t] = None
  BY <1>2, CommunicationAssumption DEF IInv, TypeOK
<1>5. TypeOK'
  BY <1>2, <1>3, <1>4 DEF IInv, TypeOK, Packet, Place, ThreadStep, main, events
<1>6. Ports'
  BY <1>2, <1>3, <1>4 DEF IInv, Ports, main
<1>7. Places'
  <2>1. \A s \in Slots : where'[s] = "queued" <=> \E r \in Result : Queued(s, r)'
    BY <1>2, <1>3, <1>4 DEF IInv, Places
  <2>2. \A u, v \in Threads : slot'[u] # None /\ slot'[u] = slot'[v] => u = v
    BY <1>2, <1>3, <1>4 DEF IInv, Places
  <2>3. \A s \in Slots : where'[s] = "thread" <=> \E u \in Threads : slot'[u] = s
    BY <1>2, <1>3, <1>4 DEF IInv, Places
  <2> QED  BY <1>2, <2>1, <2>2, <2>3 DEF Places
<1>8. \A s \in Slots : Carrying(s)' <=> Carrying(s)
  BY <1>2, <1>3, <1>4 DEF Carrying
<1>9. Carried'
  BY <1>3, <1>8 DEF IInv, Carried, events
<1> QED  BY <1>5, <1>6, <1>7, <1>9 DEF IInv

\* A failed packet's slot is nowhere any more, and carried nothing.
LEMMA LoseKeeps ==
  ASSUME IInv, NEW t \in Threads, SkipInsufficient(t) \/ ExitOnError(t)
  PROVE  IInv'
<1>1. PICK r \in Result \ {"success"} :
        /\ Dequeue(t, r) /\ Move(Head(packets).slot, "lost")
        /\ Goto(t, "test") \/ Goto(t, "exit")
  BY DEF SkipInsufficient, ExitOnError, Result
<1>2. PICK h \in Slots :
        /\ h = Head(packets).slot /\ where[h] = "queued" /\ port /\ tpc[t] = "wait"
        /\ packets' \in Seq(Packet) /\ OnePacket'
        /\ Queued(h, r) /\ \A q : Queued(h, q) => q = r
        /\ \A s, q : Queued(s, q)' <=> Queued(s, q) /\ s # h
        /\ \A u \in Threads : slot[u] # h
  BY <1>1, DequeueTakes
<1>3. /\ tpc' \in {[tpc EXCEPT ![t] = "test"], [tpc EXCEPT ![t] = "exit"]}
      /\ where' = [where EXCEPT ![h] = "lost"]
      /\ UNCHANGED <<main, buffer, slot, events>>
  BY <1>1, <1>2 DEF SkipInsufficient, ExitOnError, Goto, Move
<1>4. /\ tpc \in [Threads -> ThreadStep] /\ where \in [Slots -> Place]
      /\ slot[t] = None
  BY <1>2 DEF IInv, TypeOK
<1>5. TypeOK'
  BY <1>2, <1>3, <1>4 DEF IInv, TypeOK, Packet, Place, ThreadStep, main, events
<1>6. Ports'
  BY <1>2, <1>3, <1>4 DEF IInv, Ports, main
<1>7. Places'
  <2>1. \A s \in Slots : where'[s] = "queued" <=> \E q \in Result : Queued(s, q)'
    BY <1>2, <1>3, <1>4 DEF IInv, Places
  <2>2. \A s \in Slots : where'[s] = "thread" <=> \E u \in Threads : slot'[u] = s
    BY <1>2, <1>3, <1>4 DEF IInv, Places
  <2> QED  BY <1>2, <1>3, <2>1, <2>2 DEF IInv, Places
<1>8. \A s \in Slots : Carrying(s)' <=> Carrying(s)
  <2>1. ~Carrying(h)
    BY <1>1, <1>2 DEF Carrying
  <2>2. \A u \in Threads : (tpc'[u] = "respond") <=> (tpc[u] = "respond")
    BY <1>2, <1>3, <1>4
  <2> QED  BY <1>2, <1>3, <2>1, <2>2 DEF Carrying
<1>9. Carried'
  BY <1>3, <1>8 DEF IInv, Carried, events
<1> QED  BY <1>5, <1>6, <1>7, <1>9 DEF IInv

\* The event is handled, and its slot does not carry it any more.
LEMMA RespondKeeps ==
  ASSUME IInv, NEW t \in Threads, DoSingleResponse(t)
  PROVE  IInv'
<1>1. /\ tpc[t] = "respond" /\ tpc' = [tpc EXCEPT ![t] = "request"]
      /\ handled' = [handled EXCEPT ![buffer[slot[t]]] = @ + 1]
      /\ UNCHANGED <<main, slots, slot, sent>>
  BY DEF DoSingleResponse, Goto
<1>2. /\ tpc \in [Threads -> ThreadStep] /\ handled \in [Events -> Nat]
      /\ slot[t] # None /\ sent \subseteq Events
      /\ slot \in [Threads -> Slots \cup {None}]
  BY <1>1 DEF IInv, TypeOK
<1>3. PICK s \in Slots : s = slot[t]
  BY <1>2
<1>4. Carrying(s)
  BY <1>1, <1>3 DEF Carrying
<1>5. PICK e \in Events : e = buffer[s] /\ e \in sent /\ handled[e] = 0
  BY <1>2, <1>4 DEF IInv, Carried
<1>6. handled' = [handled EXCEPT ![e] = 1]
  BY <1>1, <1>2, <1>3, <1>5
<1>7. TypeOK'
  <2>1. handled' \in [Events -> Nat]
    BY <1>2, <1>6
  <2>2. tpc' \in [Threads -> ThreadStep]
    BY <1>1, <1>2 DEF ThreadStep
  <2>3. \A u \in Threads : (slot'[u] = None) <=> (tpc'[u] \notin {"respond", "request"})
    BY <1>1, <1>2 DEF IInv, TypeOK
  <2> QED  BY <1>1, <2>1, <2>2, <2>3 DEF IInv, TypeOK, main, slots
<1>8. Ports'
  BY <1>1, <1>2 DEF IInv, Ports, main
<1>9. \A x, r : Queued(x, r)' <=> Queued(x, r)
  BY <1>1 DEF Queued, slots
<1>10. Places'
  BY <1>1, <1>9 DEF IInv, Places, OnePacket, slots
<1>11. where[s] = "thread" /\ \A u \in Threads : slot[u] = s => u = t
  BY <1>2, <1>3 DEF IInv, Places
<1>12. ~Queued(s, "success")
  BY <1>11 DEF IInv, Places, Result
<1>13. \A x \in Slots : Carrying(x)' <=> Carrying(x) /\ x # s
  BY <1>1, <1>2, <1>3, <1>9, <1>11, <1>12 DEF Carrying
<1>14. Carried'
  BY <1>1, <1>2, <1>4, <1>5, <1>6, <1>13 DEF IInv, Carried, slots
<1> QED  BY <1>7, <1>8, <1>10, <1>14 DEF IInv

\* A slot is issued again when its event has been handled.
LEMMA NextRequestKeeps ==
  ASSUME IInv, NEW t \in Threads, NextRequest(t)
  PROVE  IInv'
<1>1. /\ tpc[t] = "request" /\ tpc' = [tpc EXCEPT ![t] = "test"]
      /\ slot' = [slot EXCEPT ![t] = None]
      /\ UNCHANGED <<main, buffer, packets, events>>
  BY DEF NextRequest, Goto
<1>2. /\ tpc \in [Threads -> ThreadStep] /\ where \in [Slots -> Place]
      /\ slot[t] # None /\ slot \in [Threads -> Slots \cup {None}] /\ None \notin Slots
  BY <1>1, CommunicationAssumption DEF IInv, TypeOK
<1>3. PICK s \in Slots : s = slot[t]
  BY <1>2
<1>4. where' \in {[where EXCEPT ![s] = "device"], [where EXCEPT ![s] = "lost"]}
  BY <1>3 DEF NextRequest, DoSingleRequest, Move
<1>5. TypeOK'
  BY <1>1, <1>2, <1>4 DEF IInv, TypeOK, Place, ThreadStep, main, events
<1>6. Ports'
  BY <1>1, <1>2 DEF IInv, Ports, main
<1>7. \A x, r : Queued(x, r)' <=> Queued(x, r)
  BY <1>1 DEF Queued
<1>8. where[s] = "thread" /\ \A u \in Threads : slot[u] = s => u = t
  BY <1>2, <1>3 DEF IInv, Places
<1>9. Places'
  <2>1. OnePacket'
    BY <1>1 DEF IInv, Places, OnePacket
  <2>2. \A x \in Slots : where'[x] = "queued" <=> \E q \in Result : Queued(x, q)'
    BY <1>2, <1>4, <1>7, <1>8 DEF IInv, Places
  <2>3. \A x \in Slots : where'[x] = "thread" <=> \E u \in Threads : slot'[u] = x
    BY <1>1, <1>2, <1>3, <1>4, <1>8 DEF IInv, Places
  <2>4. \A u, v \in Threads : slot'[u] # None /\ slot'[u] = slot'[v] => u = v
    BY <1>1, <1>2 DEF IInv, Places
  <2> QED  BY <2>1, <2>2, <2>3, <2>4 DEF Places
<1>10. \A x \in Slots : Carrying(x)' <=> Carrying(x)
  BY <1>1, <1>2, <1>7 DEF Carrying
<1>11. Carried'
  BY <1>1, <1>10 DEF IInv, Carried, events
<1> QED  BY <1>5, <1>6, <1>9, <1>11 DEF IInv

-----------------------------------------------------------------------------
(* The theorems *)

\* No step of ServiceMain, the device or the pool breaks the invariant.
LEMMA NextKeeps == ASSUME IInv, Next PROVE IInv'
<1>1. ASSUME NEW t \in Threads, Run(t) PROVE IInv'
  BY <1>1, LoopKeeps, TakeKeeps, LoseKeeps, RespondKeeps, NextRequestKeeps DEF Run
<1>2. ASSUME MainRun \/ Stop PROVE IInv'
  BY <1>2, MainKeeps, IssueFirstKeeps DEF MainRun
<1>3. ASSUME DeviceNext PROVE IInv'
  BY <1>3, AnswerKeeps, RefuseKeeps DEF DeviceNext
<1> QED  BY <1>1, <1>2, <1>3 DEF Next

\* Nor does a step of anything else.
LEMMA StepKeeps == IInv /\ [Next]_vars => IInv'
<1> SUFFICES ASSUME IInv, [Next]_vars PROVE IInv'
  OBVIOUS
<1>1. CASE UNCHANGED vars
  <2>1. Places' /\ Carried'
    BY <1>1, QuietKeeps DEF IInv, vars, thread
  <2> QED  BY <1>1, <2>1 DEF vars, main, slots, thread, events, IInv, TypeOK, Ports
<1> QED  BY <1>1, NextKeeps

\* The invariant holds from Start to the end of Stop.
THEOREM Inductive == Spec => []IInv
  BY InitIInv, StepKeeps, PTL DEF Spec

\* Types are kept, and a thread has a slot exactly while it handles its event.
THEOREM TypeCorrect == Spec => []TypeOK
<1>1. IInv => TypeOK  BY DEF IInv
<1> QED  BY Inductive, <1>1, PTL

\* A set with exactly one element, or with none.
LEMMA OneOrNone ==
  ASSUME NEW S, NEW P,
         P => \E x : x \in S /\ \A y \in S : y = x,
         ~P => S = {}
  PROVE  Cardinality(S) = IF P THEN 1 ELSE 0
<1>1. CASE P
  <2>1. PICK x : S = {x}
    BY <1>1
  <2> QED  BY <1>1, <2>1, FS_Singleton
<1>2. CASE ~P
  BY <1>2, FS_EmptySet
<1> QED  BY <1>1, <1>2

\* The places of the invariant make the counts of the property.
LEMMA HeldOnce == IInv => SlotHeldOnce
<1> SUFFICES ASSUME IInv, NEW s \in Slots
             PROVE  /\ Cardinality({k \in DOMAIN packets : packets[k].slot = s})
                         = IF where[s] = "queued" THEN 1 ELSE 0
                    /\ Cardinality({t \in Threads : slot[t] = s})
                         = IF where[s] = "thread" THEN 1 ELSE 0
  BY DEF SlotHeldOnce
<1> DEFINE K == {k \in DOMAIN packets : packets[k].slot = s}
           T == {t \in Threads : slot[t] = s}
<1>1. \A k \in DOMAIN packets : packets[k] \in Packet
  BY PacketsTyped, LenProperties DEF IInv
<1>2. where[s] = "queued" => \E k : k \in K /\ \A j \in K : j = k
  BY DEF IInv, Places, OnePacket, Queued
<1>3. where[s] # "queued" => K = {}
  BY <1>1 DEF IInv, Places, Queued, Packet
<1>4. where[s] = "thread" => \E t : t \in T /\ \A u \in T : u = t
  BY CommunicationAssumption DEF IInv, Places
<1>5. where[s] # "thread" => T = {}
  BY DEF IInv, Places
<1> HIDE DEF K, T
<1>6. Cardinality(K) = IF where[s] = "queued" THEN 1 ELSE 0
  BY <1>2, <1>3, OneOrNone
<1>7. Cardinality(T) = IF where[s] = "thread" THEN 1 ELSE 0
  BY <1>4, <1>5, OneOrNone
<1> QED  BY <1>6, <1>7 DEF K, T

\* An event is carried by one slot, or has been handled once.
LEMMA HandledOnce == IInv => EventHandledOnce
<1> SUFFICES ASSUME IInv, NEW e \in sent
             PROVE  handled[e] + Cardinality({s \in Slots :
                      /\ buffer[s] = e
                      /\ \/ [slot |-> s, result |-> "success"] \in Range(packets)
                         \/ \E t \in Threads : slot[t] = s /\ tpc[t] = "respond"}) = 1
  BY DEF EventHandledOnce
<1> DEFINE C == {s \in Slots :
                  /\ buffer[s] = e
                  /\ \/ [slot |-> s, result |-> "success"] \in Range(packets)
                     \/ \E t \in Threads : slot[t] = s /\ tpc[t] = "respond"}
<1>1. \A k \in DOMAIN packets : packets[k] \in Packet
  BY PacketsTyped, LenProperties DEF IInv
<1>2. \A s : [slot |-> s, result |-> "success"] \in Range(packets) <=> Queued(s, "success")
  <2> TAKE s
  <2>1. ASSUME NEW k \in DOMAIN packets
        PROVE  packets[k] = [slot |-> s, result |-> "success"]
                 <=> packets[k].slot = s /\ packets[k].result = "success"
    BY <1>1 DEF Packet
  <2> QED  BY <2>1 DEF Range, Queued
<1>3. C = {s \in Slots : buffer[s] = e /\ Carrying(s)}
  BY <1>2 DEF Carrying
<1> HIDE DEF C
<1>4. \/ handled[e] = 0 /\ \E s \in Slots : Carrying(s) /\ buffer[s] = e
      \/ handled[e] = 1 /\ \A s \in Slots : Carrying(s) => buffer[s] # e
  BY DEF IInv, Carried
<1>5. handled[e] = 0 => \E s : s \in C /\ \A r \in C : r = s
  BY <1>3, <1>4 DEF IInv, Carried
<1>6. ~(handled[e] = 0) => C = {}
  BY <1>3, <1>4
<1>7. Cardinality(C) = IF handled[e] = 0 THEN 1 ELSE 0
  BY <1>5, <1>6, OneOrNone
<1>8. handled[e] + Cardinality(C) = 1
  BY <1>4, <1>7
<1> QED  BY <1>8 DEF C

\* At first nothing is lost, and no thread has ended.
LEMMA InitServed == Init => ThreadForEverySlot
<1> DEFINE Slots1 == {s \in Slots : where[s] # "lost"}
           Threads1 == {t \in Threads : tpc[t] # "exit"}
<1> SUFFICES ASSUME Init PROVE ThreadForEverySlot
  OBVIOUS
<1>1. Slots1 = Slots /\ Threads1 = Threads
  BY DEF Init
<1> QED  BY <1>1, CommunicationAssumption DEF ThreadForEverySlot

\* A slot is lost together with at most the thread that lost it.
LEMMA ServedKeeps == IInv /\ ThreadForEverySlot /\ [Next]_vars => ThreadForEverySlot'
<1> DEFINE Slots1 == {s \in Slots : where[s] # "lost"}
           Threads1 == {t \in Threads : tpc[t] # "exit"}
<1> SUFFICES ASSUME IInv, ThreadForEverySlot, [Next]_vars, ~is_stopped_'
             PROVE  Cardinality(Slots1') <= Cardinality(Threads1')
  BY DEF ThreadForEverySlot
<1> DEFINE S == Slots1
           T == Threads1
<1>1. IsFiniteSet(S) /\ Cardinality(S) \in Nat /\ IsFiniteSet(T) /\ Cardinality(T) \in Nat
  <2>1. S \in SUBSET Slots /\ T \in SUBSET Threads
    OBVIOUS
  <2> QED  BY <2>1, CommunicationAssumption, FS_Subset, FS_CardinalityType
<1>2. ~is_stopped_ /\ Cardinality(S) <= Cardinality(T)
  <2>1. ~is_stopped_
    BY DEF Next, MainRun, OpenDevice, CreatePort, ClosePort, Join, IssueFirst,
           StartThread, Stop, DeviceNext, Answer, Refuse, Run, TestStopped, Abandoned,
           Take, SkipInsufficient, ExitOnError, DoSingleResponse, NextRequest, main, vars
  <2> QED  BY <2>1 DEF ThreadForEverySlot
<1>3. ASSUME S' \subseteq S, T' = T
      PROVE  Cardinality(S') <= Cardinality(T')
  BY <1>1, <1>2, <1>3, FS_Subset, FS_CardinalityType
<1>4. ASSUME NEW t \in Threads, ExitOnError(t)
      PROVE  Cardinality(S') <= Cardinality(T')
  <2>1. PICK h \in Slots :
          /\ where[h] = "queued" /\ where' = [where EXCEPT ![h] = "lost"]
          /\ tpc[t] = "wait" /\ tpc' = [tpc EXCEPT ![t] = "exit"]
    BY <1>4, DequeueTakes DEF ExitOnError, Result, Move, Goto
  <2>2. S' = S \ {h} /\ h \in S /\ T' = T \ {t} /\ t \in T
    BY <2>1 DEF IInv, TypeOK
  <2> HIDE DEF S, T
  <2>3. /\ Cardinality(S \ {h}) = Cardinality(S) - 1
        /\ Cardinality(T \ {t}) = Cardinality(T) - 1
    BY <1>1, <2>2, FS_RemoveElement
  <2> QED  BY <1>1, <1>2, <2>2, <2>3
<1>5. ASSUME \/ MainRun \/ Stop \/ DeviceNext \/ UNCHANGED vars
             \/ \E t \in Threads : \/ TestStopped(t) \/ Abandoned(t) \/ Take(t)
                                   \/ SkipInsufficient(t) \/ DoSingleResponse(t)
                                   \/ NextRequest(t)
      PROVE  S' \subseteq S /\ T' = T
  <2> USE DEF IInv, TypeOK, main, slots, thread, vars
  <2>1. CASE \E t \in Threads : StartThread(t)
    BY <2>1 DEF StartThread, Goto
  <2>2. CASE \E s \in Slots : IssueFirst(s)
    BY <2>2 DEF IssueFirst, DoSingleRequest, Move
  <2>3. CASE \/ OpenDevice \/ CreatePort \/ ClosePort \/ Join \/ Stop \/ UNCHANGED vars
    BY <2>3 DEF OpenDevice, CreatePort, ClosePort, Join, Stop
  <2>4. CASE DeviceNext
    BY <2>4 DEF DeviceNext, Answer, Refuse, Complete, Move
  <2>5. ASSUME NEW t \in Threads, TestStopped(t) PROVE S' \subseteq S /\ T' = T
    BY <1>2, <2>5 DEF TestStopped, Goto
  <2>6. ASSUME NEW t \in Threads PROVE ~Abandoned(t)
    BY <1>2 DEF Abandoned, Ports, MainStep
  <2>7. ASSUME NEW t \in Threads, Take(t) \/ SkipInsufficient(t)
        PROVE  S' \subseteq S /\ T' = T
    <3>1. PICK h \in Slots :
            /\ where[h] = "queued" /\ tpc[t] = "wait"
            /\ where' \in {[where EXCEPT ![h] = "thread"], [where EXCEPT ![h] = "lost"]}
            /\ tpc' \in {[tpc EXCEPT ![t] = "respond"], [tpc EXCEPT ![t] = "test"]}
      BY <2>7, DequeueTakes DEF Take, SkipInsufficient, Result, Move, Goto
    <3> QED  BY <3>1
  <2>8. ASSUME NEW t \in Threads, DoSingleResponse(t) PROVE S' \subseteq S /\ T' = T
    BY <2>8 DEF DoSingleResponse, Goto
  <2>9. ASSUME NEW t \in Threads, NextRequest(t) PROVE S' \subseteq S /\ T' = T
    <3>1. slot[t] \in Slots /\ where[slot[t]] = "thread"
      BY <2>9 DEF NextRequest, Places
    <3> QED  BY <2>9, <3>1 DEF NextRequest, DoSingleRequest, Move, Goto
  <2> QED  BY <1>5, <2>1, <2>2, <2>3, <2>4, <2>5, <2>6, <2>7, <2>8, <2>9 DEF MainRun
<1> HIDE DEF S, T
<1> QED  BY <1>3, <1>4, <1>5 DEF Next, Run, S, T

\* Each slot has one place: the device never writes into a buffer that a thread
\* reads, and no slot is issued twice.
THEOREM SlotsHeldOnce == Spec => []SlotHeldOnce
  BY Inductive, HeldOnce, PTL

\* Each event the device has answered with is handled once, or still will be.
THEOREM EventsHandledOnce == Spec => []EventHandledOnce
  BY Inductive, HandledOnce, PTL

\* The pool always has a thread for every slot that is left.
THEOREM SlotsAreServed == Spec => []ThreadForEverySlot
  BY Inductive, InitServed, ServedKeeps, PTL DEF Spec
=============================================================================
