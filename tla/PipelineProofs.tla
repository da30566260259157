--------------------------- MODULE PipelineProofs ---------------------------
(***************************************************************************)
(* Proofs about Pipeline, for any number of slots, threads, senders and    *)
(* events.  Both halves keep the invariants they have on their own (DP,    *)
(* module IoctlProofs, and CP, module CommunicationProofs); what is left   *)
(* is what ties them together (Link), and that each half only does to the  *)
(* other what that one expects of its environment.                         *)
(***************************************************************************)
EXTENDS Pipeline, TLAPS, FiniteSetTheorems

DP == INSTANCE IoctlProofs WITH Clients <- Threads \cup {Main}, Irps <- Slots,
                                Msgs <- Events, Cancellable <- {}
CP == INSTANCE CommunicationProofs

\* A request that the driver has is one that the service waits for, and an event
\* is in one half only.
Link == /\ \A s \in live : where[s] = "device"
        /\ heap \cap sent = {}

\* What Communication keeps to itself.
Kept == CP!IInv /\ CP!ThreadForEverySlot

IInv == up /\ DP!IInv /\ Kept /\ Link

\* The threads that call into the driver for the service.
Callers == Threads \cup {Main}

\* What ActsAsDevice allows, in the words of CommunicationProofs.
Expected == [CP!Next \/ Reused \/ RefusedAtOnce]_service

-----------------------------------------------------------------------------
(* The halves are those that the other modules speak about *)

\* Both assume what is assumed here.
LEMMA DriverAssumed == DP!IoctlAssumption
<1>1. IsFiniteSet(Threads \cup {Main})
  BY PipelineAssumption, FS_AddElement
<1> QED  BY <1>1, PipelineAssumption DEF DP!IoctlAssumption, DP!IsFiniteSet, IsFiniteSet

LEMMA ServiceAssumed == CP!CommunicationAssumption
  BY PipelineAssumption
  DEF CP!CommunicationAssumption, CP!IsFiniteSet, CP!Cardinality, IsFiniteSet, Cardinality

\* What Dispatcher does for a client.
LEMMA SameDispatcher ==
  ASSUME NEW c
  PROVE  /\ \A i : D!Request(c, i) <=> DP!Request(c, i)
         /\ D!FetchData(c) <=> DP!FetchData(c)
         /\ D!FetchNothing(c) <=> DP!FetchNothing(c)
         /\ D!Reply(c) <=> DP!Reply(c)
         /\ D!Requeue(c) <=> DP!Requeue(c)
         /\ D!Pend(c) <=> DP!Pend(c)
         /\ D!PushIrp(c) <=> DP!PushIrp(c)
         /\ D!PushIrpFails(c) <=> DP!PushIrpFails(c)
  BY DEF D!Request, DP!Request, D!FetchData, DP!FetchData, D!FetchNothing,
      DP!FetchNothing, D!Reply, DP!Reply, D!Requeue, DP!Requeue, D!Pend,
      DP!Pend, D!AcquireCancelLock, DP!AcquireCancelLock, D!PushIrp,
      DP!PushIrp, D!PushIrpFails, DP!PushIrpFails, D!Return, DP!Return,
      D!CompleteIrp, DP!CompleteIrp, D!CompleteAll, DP!CompleteAll, D!TooSmall,
      DP!TooSmall, D!HeapAfterReply, DP!HeapAfterReply, D!DisarmFailedPush,
      DP!DisarmFailedPush, D!lists, DP!lists, D!irpVars, DP!irpVars, D!sVars,
      DP!sVars

\* What SendMessage does for a sender.
LEMMA SameSendMessage ==
  ASSUME NEW s
  PROVE  /\ \A e : D!RaiseEvent(s, e) <=> DP!RaiseEvent(s, e)
         /\ D!PopIrp(s) <=> DP!PopIrp(s)
         /\ D!Disarm(s) <=> DP!Disarm(s)
         /\ D!Deliver(s) <=> DP!Deliver(s)
         /\ D!CheckSize(s) <=> DP!CheckSize(s)
         /\ D!Evict(s) <=> DP!Evict(s)
         /\ D!PushData(s) <=> DP!PushData(s)
  BY DEF D!RaiseEvent, DP!RaiseEvent, D!PopIrp, DP!PopIrp, D!Disarm, DP!Disarm,
      D!Deliver, DP!Deliver, D!CheckSize, DP!CheckSize, D!Evict, DP!Evict,
      D!PushData, DP!PushData, D!Done, DP!Done, D!CompleteIrp, DP!CompleteIrp,
      D!CompleteAll, DP!CompleteAll, D!TooSmall, DP!TooSmall, D!HeapAfterReply,
      DP!HeapAfterReply, D!DataListFull, DP!DataListFull, D!lists, DP!lists,
      D!irpVars, DP!irpVars, D!dVars, DP!dVars

LEMMA SameInitialize == D!Initialize <=> DP!Initialize
  BY DEF D!Initialize, DP!Initialize, D!irpVars, DP!irpVars, D!dVars, DP!dVars,
      D!sVars, DP!sVars

LEMMA SameDriverVars == UNCHANGED driver => UNCHANGED DP!vars /\ UNCHANGED D!vars
  BY DEF driver, DP!vars, DP!lists, DP!irpVars, DP!dVars, DP!sVars,
      D!vars, D!lists, D!irpVars, D!dVars, D!sVars

\* What ServiceMain and the threads of the pool do.
LEMMA SameMain ==
  /\ C!OpenDevice <=> CP!OpenDevice
  /\ C!CreatePort <=> CP!CreatePort
  /\ C!Stop <=> CP!Stop
  /\ C!ClosePort <=> CP!ClosePort
  /\ C!Join <=> CP!Join
  /\ \A t : C!StartThread(t) <=> CP!StartThread(t)
  /\ \A s : C!IssueFirst(s) <=> CP!IssueFirst(s)
  BY DEF C!OpenDevice, CP!OpenDevice, C!CreatePort, CP!CreatePort, C!Stop, CP!Stop,
      C!ClosePort, CP!ClosePort, C!Join, CP!Join, C!StartThread, CP!StartThread,
      C!IssueFirst, CP!IssueFirst, C!DoSingleRequest, CP!DoSingleRequest,
      C!Move, CP!Move, C!Goto, CP!Goto, C!main, CP!main, C!slots, CP!slots,
      C!thread, CP!thread, C!events, CP!events

LEMMA SameThread ==
  ASSUME NEW t
  PROVE  /\ C!TestStopped(t) <=> CP!TestStopped(t)
         /\ C!Abandoned(t) <=> CP!Abandoned(t)
         /\ C!Take(t) <=> CP!Take(t)
         /\ C!SkipInsufficient(t) <=> CP!SkipInsufficient(t)
         /\ C!ExitOnError(t) <=> CP!ExitOnError(t)
         /\ C!DoSingleResponse(t) <=> CP!DoSingleResponse(t)
         /\ C!NextRequest(t) <=> CP!NextRequest(t)
  BY DEF C!TestStopped, CP!TestStopped, C!Abandoned, CP!Abandoned, C!Take, CP!Take,
      C!SkipInsufficient, CP!SkipInsufficient, C!ExitOnError, CP!ExitOnError,
      C!DoSingleResponse, CP!DoSingleResponse, C!NextRequest, CP!NextRequest,
      C!Dequeue, CP!Dequeue, C!DoSingleRequest, CP!DoSingleRequest, C!Move, CP!Move,
      C!Goto, CP!Goto, C!main, CP!main, C!slots, CP!slots, C!events, CP!events

-----------------------------------------------------------------------------
(* The driver's half is a driver: module Ioctl's Next, step by step *)

LEMMA DispatcherActs ==
  ASSUME up, NEW c \in Callers,
         \/ \E s \in Slots : D!Request(c, s)
         \/ D!FetchData(c) \/ D!FetchNothing(c) \/ D!Reply(c) \/ D!Requeue(c)
         \/ D!Pend(c) \/ D!PushIrp(c) \/ D!PushIrpFails(c)
  PROVE  DP!Next /\ D!Next /\ UNCHANGED up
<1>1. \/ \E s \in Slots : DP!Request(c, s)
      \/ DP!DispatcherStep(c)
  BY SameDispatcher DEF DP!DispatcherStep
<1>3. \/ \E s \in Slots : D!Request(c, s)
      \/ D!DispatcherStep(c)
  BY DEF D!DispatcherStep
<1>2. UNCHANGED up
  BY DEF D!Request, D!FetchData, D!FetchNothing, D!Reply, D!Requeue, D!Pend, D!PushIrp,
         D!PushIrpFails
<1> QED  BY <1>1, <1>2, <1>3 DEF DP!Next, D!Next, Callers

LEMMA SendMessageActs ==
  ASSUME up, NEW s \in Senders,
         \/ \E e \in Events : D!RaiseEvent(s, e)
         \/ D!PopIrp(s) \/ D!Disarm(s) \/ D!Deliver(s) \/ D!CheckSize(s) \/ D!Evict(s)
         \/ D!PushData(s)
  PROVE  DP!Next /\ D!Next /\ UNCHANGED up
<1>1. \/ \E e \in Events : DP!RaiseEvent(s, e)
      \/ DP!SendMessageStep(s)
  BY SameSendMessage DEF DP!SendMessageStep
<1>3. \/ \E e \in Events : D!RaiseEvent(s, e)
      \/ D!SendMessageStep(s)
  BY DEF D!SendMessageStep
<1>2. UNCHANGED up
  BY DEF D!RaiseEvent, D!PopIrp, D!Disarm, D!Deliver, D!CheckSize, D!Evict, D!PushData
<1> QED  BY <1>1, <1>2, <1>3 DEF DP!Next, D!Next

\* Whatever the service does meanwhile, the driver only acts as a driver.
LEMMA DriverStep == up /\ CP!TypeOK /\ [Next]_vars => [DP!Next]_DP!vars /\ [D!Next]_D!vars /\ up'
<1> SUFFICES ASSUME up, CP!TypeOK, [Next]_vars PROVE [DP!Next]_DP!vars /\ [D!Next]_D!vars /\ up'
  OBVIOUS
<1>1. ASSUME UNCHANGED driver PROVE [DP!Next]_DP!vars /\ [D!Next]_D!vars /\ up'
  BY <1>1, SameDriverVars DEF driver
<1>2. CASE UNCHANGED vars
  BY <1>1, <1>2 DEF vars
<1>3. CASE Load
  <2>1. DP!Initialize /\ D!Initialize /\ UNCHANGED up
    BY <1>3, SameInitialize DEF Load, D!Initialize
  <2> QED  BY <2>1 DEF DP!Next, D!Next
<1>4. CASE Stop
  BY <1>1, <1>4 DEF Stop
<1>5. CASE RunMain
  <2>1. ASSUME NEW s \in Slots, IssueFirst(s) PROVE DP!Next /\ D!Next /\ UNCHANGED up
    BY <2>1, DispatcherActs DEF IssueFirst, Callers
  <2> QED  BY <1>1, <1>5, <2>1 DEF RunMain
<1>6. ASSUME NEW c \in Callers, InDispatcher(c) PROVE DP!Next /\ D!Next /\ UNCHANGED up
  BY <1>6, DispatcherActs DEF InDispatcher, Reply, PushIrpFails
<1>7. ASSUME NEW t \in Threads, RunThread(t) PROVE [DP!Next]_DP!vars /\ [D!Next]_D!vars /\ up'
  <2>1. ASSUME NextRequest(t) PROVE DP!Next /\ D!Next /\ UNCHANGED up
    <3>1. slot[t] \in Slots
      BY <2>1 DEF NextRequest, C!NextRequest, CP!TypeOK
    <3> QED  BY <2>1, <3>1, DispatcherActs DEF NextRequest, Callers
  <2> QED  BY <1>1, <1>7, <2>1 DEF RunThread
<1>8. ASSUME NEW s \in Senders, InSendMessage(s) \/ \E e \in Events : Raise(s, e)
      PROVE  DP!Next /\ D!Next /\ UNCHANGED up
  BY <1>8, SendMessageActs DEF InSendMessage, Deliver, Raise
<1> QED  BY <1>2, <1>3, <1>4, <1>5, <1>6, <1>7, <1>8 DEF Next, Callers

-----------------------------------------------------------------------------
(* The completions of requests are what Communication expects *)

\* Nothing is cancelled, so that whoever holds a request or a message may
\* complete or free it.
LEMMA HeldByThreads ==
  ASSUME DP!IInv
  PROVE  /\ \A c \in Callers :
              /\ dpc[c] \in {"reply", "push"} => dirp[c] \in live
              /\ dpc[c] = "reply" => dmsg[c] \in heap
         /\ \A s \in Senders : spc[s] = "deliver" => sirp[s] \in live /\ smsg[s] \in heap
         /\ live \subseteq Slots /\ heap \subseteq Events
         /\ None \notin Slots
<1>1. /\ DP!HeldOnce(live, irp_list, Callers, dirp, Senders, sirp)
      /\ DP!HeldOnce(heap, data_list, Callers, dmsg, Senders, smsg)
  BY DEF DP!IInv, DP!NoCancellation, DP!RequestInv, DP!Requests, DP!MessageInv, Callers
<1>2. /\ \A c \in Callers : dpc[c] \in {"reply", "push"} => dirp[c] # None
      /\ \A c \in Callers : dpc[c] = "reply" => dmsg[c] # None
      /\ \A s \in Senders : spc[s] = "deliver" => sirp[s] # None /\ smsg[s] # None
  BY DEF DP!IInv, DP!TypeOK, DP!RegistersOK, Callers
<1>3. live \subseteq Slots /\ heap \subseteq Events
  BY DEF DP!IInv, DP!TypeOK
<1> QED  BY <1>1, <1>2, <1>3, PipelineAssumption DEF DP!HeldOnce

\* A request that the driver has, and an event that it still has, become a packet.
LEMMA AnsweredActs ==
  ASSUME IInv, NEW s \in live, NEW e \in heap, Answered(s, e),
         live' = live \ {s}, heap' = heap \ {e}
  PROVE  CP!Next /\ Kept' /\ Link'
<1>1. s \in Slots /\ e \in Events /\ where[s] = "device" /\ e \notin sent
  BY HeldByThreads DEF IInv, Link
<1>2. CP!Answer(s, e)
  BY <1>1 DEF Answered, Packet, C!Move, CP!Answer, CP!Complete, CP!Move, control,
     CP!main, CP!thread
<1>3. CP!Next
  BY <1>1, <1>2 DEF CP!Next, CP!DeviceNext
<1>4. Kept'
  BY <1>3, CP!StepKeeps, CP!ServedKeeps, ServiceAssumed DEF IInv, Kept
<1>5. where' = [where EXCEPT ![s] = "queued"] /\ sent' = sent \cup {e}
  BY DEF Answered, Packet, C!Move
<1>6. where \in [Slots -> CP!Place] /\ live \subseteq Slots
  BY HeldByThreads DEF IInv, Kept, CP!IInv, CP!TypeOK
<1>7. Link'
  BY <1>1, <1>5, <1>6 DEF IInv, Link
<1> QED  BY <1>3, <1>4, <1>7

LEMMA FailedActs ==
  ASSUME IInv, NEW s \in live, NEW r \in {"insufficient", "error"}, Failed(s, r),
         live' = live \ {s}, heap' = heap
  PROVE  CP!Next /\ Kept' /\ Link'
<1>1. s \in Slots /\ where[s] = "device"
  BY HeldByThreads DEF IInv, Link
<1>2. CP!Refuse(s, r)
  BY <1>1 DEF Failed, Packet, C!Move, CP!Refuse, CP!Complete, CP!Move, control,
     CP!main, CP!thread, CP!events
<1>3. CP!Next
  BY <1>1, <1>2 DEF CP!Next, CP!DeviceNext, CP!Result
<1>4. Kept'
  BY <1>3, CP!StepKeeps, CP!ServedKeeps, ServiceAssumed DEF IInv, Kept
<1>5. where' = [where EXCEPT ![s] = "queued"] /\ sent' = sent
  BY DEF Failed, Packet, C!Move
<1>6. where \in [Slots -> CP!Place] /\ live \subseteq Slots
  BY HeldByThreads DEF IInv, Kept, CP!IInv, CP!TypeOK
<1>7. Link'
  BY <1>1, <1>5, <1>6 DEF IInv, Link
<1> QED  BY <1>3, <1>4, <1>7

\* A slot whose request is refused at once was in no queue and with no thread.
LEMMA FailedAtOnceActs ==
  ASSUME IInv, NEW s \in live, FailedAtOnce(s), live' = live \ {s}, heap' = heap
  PROVE  Kept' /\ Link'
<1>1. s \in Slots /\ where[s] = "device"
  BY HeldByThreads DEF IInv, Link
<1>2. /\ where' = [where EXCEPT ![s] = "lost"]
      /\ UNCHANGED <<mpc, file_, port, is_stopped_, tpc, slot, buffer, packets, sent, handled>>
  BY DEF FailedAtOnce, C!Move, control
<1>3. /\ CP!TypeOK /\ CP!Places /\ CP!Carried /\ CP!Ports
      /\ where \in [Slots -> CP!Place] /\ live \subseteq Slots
  BY HeldByThreads DEF IInv, Kept, CP!IInv, CP!TypeOK
<1>4. CP!TypeOK' /\ CP!Ports'
  BY <1>1, <1>2, <1>3 DEF CP!TypeOK, CP!Place, CP!Ports
<1>5. \A x, r : CP!Queued(x, r)' <=> CP!Queued(x, r)
  BY <1>2 DEF CP!Queued
<1>6. CP!Places'
  BY <1>1, <1>2, <1>3, <1>5 DEF CP!Places, CP!OnePacket
<1>7. \A x : CP!Carrying(x)' <=> CP!Carrying(x)
  BY <1>2, <1>5 DEF CP!Carrying
<1>8. CP!Carried'
  BY <1>2, <1>3, <1>7 DEF CP!Carried
<1>9. CP!ThreadForEverySlot'
  <2> DEFINE L == {x \in Slots : where[x] # "lost"}
             T == {t \in Threads : tpc[t] # "exit"}
  <2>1. L' \subseteq L /\ T' = T
    BY <1>2, <1>3
  <2>2. /\ IsFiniteSet(L) /\ Cardinality(L) \in Nat /\ Cardinality(L') \in Nat
        /\ Cardinality(L') <= Cardinality(L) /\ Cardinality(T) \in Nat
    <3>1. L \subseteq Slots /\ T \subseteq Threads
      OBVIOUS
    <3> HIDE DEF L, T
    <3> QED  BY <2>1, <3>1, PipelineAssumption, FS_Subset, FS_CardinalityType
  <2>3. ~is_stopped_ => Cardinality(L) <= Cardinality(T)
    BY DEF IInv, Kept, CP!ThreadForEverySlot, CP!Cardinality, Cardinality
  <2>4. ~is_stopped_' => Cardinality(L') <= Cardinality(T')
    <3> HIDE DEF L, T
    <3> QED  BY <1>2, <2>1, <2>2, <2>3
  <2> QED  BY <2>4 DEF CP!ThreadForEverySlot, CP!Cardinality, Cardinality
<1>10. Link'
  BY <1>1, <1>2, <1>3 DEF IInv, Link
<1> QED  BY <1>4, <1>6, <1>8, <1>9, <1>10 DEF Kept, CP!IInv

\* An event is raised again only when its slot has been handled.
LEMMA RaiseActs ==
  ASSUME IInv, NEW s \in Senders, NEW e \in Events, Raise(s, e)
  PROVE  Reused /\ Kept' /\ Link'
<1>1. /\ e \notin heap /\ (e \in sent => handled[e] > 0)
      /\ heap' = heap \cup {e} /\ live' = live
      /\ sent' = sent \ {e} /\ handled' = [handled EXCEPT ![e] = 0]
      /\ UNCHANGED <<control, where, buffer, packets>>
  BY DEF Raise, Over, D!RaiseEvent, D!irpVars
<1>2. /\ CP!TypeOK /\ CP!Places /\ CP!Carried /\ CP!Ports
      /\ handled \in [Events -> Nat] /\ sent \subseteq Events
  BY DEF IInv, Kept, CP!IInv, CP!TypeOK
<1>3. \A x \in Slots : CP!Carrying(x) => buffer[x] \in sent /\ buffer[x] # e
  BY <1>1, <1>2 DEF CP!Carried
<1>4. CP!TypeOK' /\ CP!Ports'
  BY <1>1, <1>2 DEF CP!TypeOK, CP!Ports, control
<1>5. \A x, r : CP!Queued(x, r)' <=> CP!Queued(x, r)
  BY <1>1 DEF CP!Queued
<1>6. CP!Places'
  BY <1>1, <1>2, <1>5 DEF CP!Places, CP!OnePacket, control
<1>7. \A x : CP!Carrying(x)' <=> CP!Carrying(x)
  BY <1>1, <1>5 DEF CP!Carrying, control
<1>8. CP!Carried'
  BY <1>1, <1>2, <1>3, <1>7 DEF CP!Carried
<1>9. CP!ThreadForEverySlot'
  BY <1>1 DEF IInv, Kept, CP!ThreadForEverySlot, control
<1>10. Reused
  BY <1>1 DEF Reused
<1>11. Link'
  BY <1>1 DEF IInv, Link
<1> QED  BY <1>4, <1>6, <1>8, <1>9, <1>10, <1>11 DEF Kept, CP!IInv

-----------------------------------------------------------------------------
(* The steps of each half *)

\* The service sees nothing of what happens to a message inside the driver.
LEMMA ServiceStays ==
  ASSUME IInv, UNCHANGED service, live' = live, heap' \subseteq heap
  PROVE  Kept' /\ Link'
<1>1. UNCHANGED CP!vars
  BY DEF service, control, CP!vars, CP!main, CP!slots, CP!thread, CP!events
<1>2. Kept'
  BY <1>1, CP!StepKeeps, CP!ServedKeeps, ServiceAssumed DEF IInv, Kept
<1>3. Link'
  BY DEF IInv, Link, service
<1> QED  BY <1>2, <1>3

\* Between two calls the service leaves the slots alone that the driver has.
LEMMA ServiceActs ==
  ASSUME IInv, UNCHANGED driver,
         \/ C!OpenDevice \/ C!CreatePort \/ C!ClosePort \/ C!Join \/ C!Stop
         \/ \E t \in Threads :
              \/ C!StartThread(t) \/ C!TestStopped(t) \/ C!Abandoned(t) \/ C!Take(t)
              \/ C!SkipInsufficient(t) \/ C!ExitOnError(t) \/ C!DoSingleResponse(t)
  PROVE  CP!Next /\ Kept' /\ Link'
<1>1. CP!Next
  BY SameMain, SameThread DEF CP!Next, CP!MainRun, CP!Run
<1>2. Kept'
  BY <1>1, CP!StepKeeps, CP!ServedKeeps, ServiceAssumed DEF IInv, Kept
<1>3. live' = live /\ heap' = heap
  BY DEF driver
<1>4. ASSUME UNCHANGED <<where, sent>> PROVE Link'
  BY <1>3, <1>4 DEF IInv, Link
<1>5. ASSUME NEW t \in Threads, C!Take(t) \/ C!SkipInsufficient(t) \/ C!ExitOnError(t)
      PROVE  Link'
  <2>1. PICK r \in {"success", "insufficient", "error"} : CP!Dequeue(t, r)
    <3>1. CP!Take(t) \/ CP!SkipInsufficient(t) \/ CP!ExitOnError(t)
      BY <1>5, SameThread
    <3> QED  BY <3>1 DEF CP!Take, CP!SkipInsufficient, CP!ExitOnError
  <2>2. Head(packets).slot \in Slots /\ where[Head(packets).slot] = "queued"
    BY <2>1, CP!DequeueTakes, ServiceAssumed DEF IInv, Kept, CP!Result
  <2>3. /\ \E p : where' = [where EXCEPT ![Head(packets).slot] = p]
        /\ sent' = sent
    BY <1>5 DEF C!Take, C!SkipInsufficient, C!ExitOnError, C!Move, C!events
  <2>4. \A x \in live : x # Head(packets).slot
    BY <2>2 DEF IInv, Link
  <2>5. where \in [Slots -> CP!Place] /\ live \subseteq Slots
    BY HeldByThreads DEF IInv, Kept, CP!IInv, CP!TypeOK
  <2> QED  BY <1>3, <2>3, <2>4, <2>5 DEF IInv, Link
<1>6. ASSUME C!OpenDevice \/ C!CreatePort \/ C!ClosePort \/ C!Join \/ C!Stop
      PROVE  Link'
  <2>1. UNCHANGED <<where, sent>>
    BY <1>6
    DEF C!OpenDevice, C!CreatePort, C!ClosePort, C!Join, C!Stop, C!slots, C!events
  <2> QED  BY <1>4, <2>1
<1>7. ASSUME NEW t \in Threads, C!StartThread(t) \/ C!TestStopped(t) \/ C!Abandoned(t)
      PROVE  Link'
  BY <1>4, <1>7 DEF C!StartThread, C!TestStopped, C!Abandoned, C!slots, C!events
<1>8. ASSUME NEW t \in Threads, C!DoSingleResponse(t) PROVE Link'
  BY <1>4, <1>8 DEF C!DoSingleResponse, C!slots
<1>9. Link'
  BY <1>5, <1>6, <1>7, <1>8
<1> QED  BY <1>1, <1>2, <1>9

\* A slot's request goes to the driver.
LEMMA RequestActs ==
  ASSUME IInv, NEW c \in Callers, NEW s \in Slots, D!Request(c, s),
         \/ C!IssueFirst(s)
         \/ c \in Threads /\ C!NextRequest(c) /\ s = slot[c],
         where'[s] = "device"
  PROVE  CP!Next /\ Kept' /\ Link'
<1>1. CP!Next
  BY SameMain, SameThread DEF CP!Next, CP!MainRun, CP!Run
<1>2. Kept'
  BY <1>1, CP!StepKeeps, CP!ServedKeeps, ServiceAssumed DEF IInv, Kept
<1>3. live' = live \cup {s} /\ heap' = heap /\ sent' = sent
  BY DEF D!Request, C!IssueFirst, C!NextRequest, C!events
<1>4. \E p : where' = [where EXCEPT ![s] = p]
  BY DEF C!IssueFirst, C!NextRequest, C!DoSingleRequest, C!Move
<1>5. where \in [Slots -> CP!Place] /\ live \subseteq Slots
  BY HeldByThreads DEF IInv, Kept, CP!IInv, CP!TypeOK
<1>6. Link'
  BY <1>3, <1>4, <1>5 DEF IInv, Link
<1> QED  BY <1>1, <1>2, <1>6

\* What a thread does in Dispatcher.
LEMMA InDispatcherActs ==
  ASSUME IInv, NEW c \in Callers, InDispatcher(c)
  PROVE  Expected /\ Kept' /\ Link'
<1>1. CASE Reply(c)
  <2>1. /\ dirp[c] \in live /\ dmsg[c] \in heap /\ dirp[c] # None
        /\ live' = live \ {dirp[c]}
        /\ heap' = IF D!TooSmall(dmsg[c]) THEN heap ELSE heap \ {dmsg[c]}
    BY <1>1, HeldByThreads
    DEF IInv, Reply, D!Reply, D!CompleteIrp, D!CompleteAll, D!HeapAfterReply
  <2>2. CASE D!TooSmall(dmsg[c])
    <3>1. FailedAtOnce(dirp[c])
      BY <1>1, <2>2 DEF Reply
    <3>2. RefusedAtOnce
      BY <2>1, <3>1 DEF RefusedAtOnce, Callers
    <3> QED  BY <2>1, <2>2, <3>1, <3>2, FailedAtOnceActs DEF Expected
  <2>3. CASE ~D!TooSmall(dmsg[c])
    <3>1. Answered(dirp[c], dmsg[c])
      BY <1>1, <2>3 DEF Reply
    <3> QED  BY <2>1, <2>3, <3>1, AnsweredActs DEF Expected
  <2> QED  BY <2>2, <2>3
<1>2. CASE PushIrpFails(c)
  <2>1. dirp[c] \in live /\ live' = live \ {dirp[c]} /\ heap' = heap
    BY <1>2, HeldByThreads
    DEF IInv, PushIrpFails, D!PushIrpFails, D!CompleteIrp, D!CompleteAll
  <2> QED  BY <1>2, <2>1, FailedActs DEF PushIrpFails, Expected
<1>3. CASE /\ \/ D!FetchData(c) \/ D!FetchNothing(c) \/ D!Pend(c) \/ D!PushIrp(c)
              \/ D!Requeue(c)
           /\ UNCHANGED service
  <2>1. live' = live /\ heap' \subseteq heap
    BY <1>3 DEF D!FetchData, D!FetchNothing, D!Pend, D!PushIrp, D!Requeue, D!irpVars
  <2> QED  BY <1>3, <2>1, ServiceStays DEF Expected
<1> QED  BY <1>1, <1>2, <1>3 DEF InDispatcher

\* What a callback's thread does in SendMessage.
LEMMA InSendMessageActs ==
  ASSUME IInv, NEW s \in Senders, InSendMessage(s)
  PROVE  Expected /\ Kept' /\ Link'
<1>1. CASE Deliver(s)
  <2>1. /\ sirp[s] \in live /\ smsg[s] \in heap
        /\ live' = live \ {sirp[s]}
        /\ heap' = IF D!TooSmall(smsg[s]) THEN heap ELSE heap \ {smsg[s]}
    BY <1>1, HeldByThreads
    DEF IInv, Deliver, D!Deliver, D!CompleteIrp, D!CompleteAll, D!HeapAfterReply
  <2>2. CASE D!TooSmall(smsg[s])
    <3>1. Failed(sirp[s], "insufficient")
      BY <1>1, <2>2 DEF Deliver
    <3> QED  BY <2>1, <2>2, <3>1, FailedActs DEF Expected
  <2>3. CASE ~D!TooSmall(smsg[s])
    <3>1. Answered(sirp[s], smsg[s])
      BY <1>1, <2>3 DEF Deliver
    <3> QED  BY <2>1, <2>3, <3>1, AnsweredActs DEF Expected
  <2> QED  BY <2>2, <2>3
<1>2. CASE /\ \/ D!PopIrp(s) \/ D!Disarm(s) \/ D!CheckSize(s) \/ D!Evict(s)
              \/ D!PushData(s)
           /\ UNCHANGED service
  <2>1. live' = live /\ heap' \subseteq heap
    BY <1>2 DEF D!PopIrp, D!Disarm, D!CheckSize, D!Evict, D!PushData, D!irpVars
  <2> QED  BY <1>2, <2>1, ServiceStays DEF Expected
<1> QED  BY <1>1, <1>2 DEF InSendMessage

-----------------------------------------------------------------------------
(* The whole *)

LEMMA InitIInv == Init => IInv
<1> SUFFICES ASSUME Init PROVE IInv
  OBVIOUS
<1>1. DP!Init
  BY DEF Init, D!Init, DP!Init
<1>2. CP!Init
  BY DEF Init, C!Init, CP!Init
<1>3. DP!IInv /\ up
  BY <1>1, DP!InitIInv, DriverAssumed DEF DP!Init
<1>4. Kept
  BY <1>2, CP!InitIInv, CP!InitServed, ServiceAssumed DEF Kept
<1>5. Link
  BY <1>1 DEF DP!Init, Link
<1> QED  BY <1>3, <1>4, <1>5 DEF IInv

\* Whatever happens, each half stays sound, and is what the other expects.
LEMMA StepKeeps == IInv /\ [Next]_vars => IInv' /\ Expected
<1> SUFFICES ASSUME IInv, [Next]_vars PROVE IInv' /\ Expected
  OBVIOUS
<1>1. up' /\ DP!IInv'
  <2>1. up /\ CP!TypeOK /\ DP!IInv
    BY DEF IInv, Kept, CP!IInv
  <2> QED  BY <2>1, DriverStep, DP!StepKeeps, DriverAssumed
<1>2. CASE UNCHANGED vars
  <2>1. UNCHANGED service /\ live' = live /\ heap' = heap
    BY <1>2 DEF vars, driver
  <2> QED  BY <1>1, <2>1, ServiceStays DEF IInv, Expected
<1>3. CASE Load
  <2>1. UNCHANGED service /\ live' = live /\ heap' = heap
    BY <1>3 DEF Load, D!Initialize, D!irpVars
  <2> QED  BY <1>1, <2>1, ServiceStays DEF IInv, Expected
<1>4. CASE Stop
  BY <1>1, <1>4, ServiceActs DEF Stop, IInv, Expected
<1>5. CASE RunMain
  <2>1. ASSUME NEW s \in Slots, IssueFirst(s) PROVE CP!Next /\ Kept' /\ Link'
    BY <2>1, RequestActs DEF IssueFirst, Callers
  <2> QED  BY <1>1, <1>5, <2>1, ServiceActs DEF RunMain, IInv, Expected
<1>6. ASSUME NEW c \in Callers, InDispatcher(c) PROVE IInv' /\ Expected
  BY <1>1, <1>6, InDispatcherActs DEF IInv
<1>7. ASSUME NEW t \in Threads, RunThread(t) PROVE IInv' /\ Expected
  <2>1. ASSUME NextRequest(t) PROVE CP!Next /\ Kept' /\ Link'
    <3>1. slot[t] \in Slots
      BY <2>1 DEF NextRequest, C!NextRequest, IInv, Kept, CP!IInv, CP!TypeOK
    <3> QED  BY <2>1, <3>1, RequestActs DEF NextRequest, Callers
  <2> QED  BY <1>1, <1>7, <2>1, ServiceActs DEF RunThread, IInv, Expected
<1>8. ASSUME NEW s \in Senders, InSendMessage(s) PROVE IInv' /\ Expected
  BY <1>1, <1>8, InSendMessageActs DEF IInv
<1>9. ASSUME NEW s \in Senders, NEW e \in Events, Raise(s, e) PROVE IInv' /\ Expected
  BY <1>1, <1>9, RaiseActs DEF IInv, Expected
<1> QED  BY <1>2, <1>3, <1>4, <1>5, <1>6, <1>7, <1>8, <1>9 DEF Next, Callers

-----------------------------------------------------------------------------
(* The theorems *)

\* Both halves keep their invariants when each is the other's environment.
THEOREM Inductive == Spec => []IInv
  BY InitIInv, StepKeeps, PTL DEF Spec

\* No event is both in the driver and in the service, and each that has reached
\* the service is recorded once or on its way (Dispatcher, SendMessage,
\* DoCompleteRequest).
THEOREM EventsDeliveredOnce == Spec => []DeliveredOnce
<1>1. IInv => CP!EventHandledOnce
  BY CP!HandledOnce, ServiceAssumed DEF IInv, Kept
<1>2. IInv => DeliveredOnce
  BY <1>1 DEF IInv, Link, DeliveredOnce, C!EventHandledOnce, CP!EventHandledOnce,
     C!Cardinality, CP!Cardinality, C!Range, CP!Range
<1> QED  BY <1>2, Inductive, PTL

\* Next of Communication is the one of its proofs.
LEMMA SameNext == C!Next <=> CP!Next
<1>1. C!DeviceNext <=> CP!DeviceNext
  BY DEF C!DeviceNext, CP!DeviceNext, C!Answer, CP!Answer, C!Refuse, CP!Refuse,
     C!Complete, CP!Complete, C!Move, CP!Move, C!Result, CP!Result,
     C!main, CP!main, C!events, CP!events, C!thread, CP!thread
<1> QED  BY <1>1, SameMain, SameThread DEF C!Next, CP!Next, C!MainRun, CP!MainRun,
         C!Run, CP!Run

\* All the driver ever does to the service is to complete the requests that the
\* service has pending, once each and with an event that is nowhere else.
THEOREM DriverActsAsDevice == Spec => ActsAsDevice
<1>1. IInv /\ [Next]_vars => [C!Next \/ Reused \/ RefusedAtOnce]_service
  BY StepKeeps, SameNext DEF Expected
<1> QED  BY <1>1, Inductive, PTL DEF Spec, ActsAsDevice

\* And all that happens to the driver is what its own module says, with requests
\* that nobody cancels: what is proved of every driver holds of this one.
THEOREM ServiceActsAsClient == Spec => D!Spec
<1>1. Init => D!Init
  BY DEF Init
<1>2. IInv /\ [Next]_vars => [D!Next]_D!vars
  BY DriverStep DEF IInv, Kept, CP!IInv
<1> QED  BY <1>1, <1>2, Inductive, PTL DEF Spec, D!Spec

\* With the service as its client, and as long as its process lives, the driver
\* corrupts nothing, and neither loses nor shares a request or a message; with
\* the driver as its device the service holds each slot once and has a thread
\* for each.
THEOREM HalvesHold ==
  Spec => [](/\ D!UncancelledIntact /\ D!RequestHeldOnce /\ D!MessageHeldOnce
             /\ C!SlotHeldOnce /\ C!ThreadForEverySlot)
<1>1. Spec => DP!Spec
  <2>1. Init => DP!Init
    BY DEF Init, D!Init, DP!Init
  <2>2. IInv /\ [Next]_vars => [DP!Next]_DP!vars
    BY DriverStep DEF IInv, Kept, CP!IInv
  <2> QED  BY <2>1, <2>2, Inductive, PTL DEF Spec, DP!Spec
<1>2. Spec => [](DP!UncancelledIntact /\ DP!RequestHeldOnce /\ DP!MessageHeldOnce)
  BY <1>1, DP!UncancelledSound, DP!RequestsHeldOnce, DP!MessagesHeldOnce,
     DriverAssumed, PTL
<1>3. IInv => CP!SlotHeldOnce /\ CP!ThreadForEverySlot
  BY CP!HeldOnce, ServiceAssumed DEF IInv, Kept
<1>4. DP!UncancelledIntact /\ DP!RequestHeldOnce /\ DP!MessageHeldOnce
        => D!UncancelledIntact /\ D!RequestHeldOnce /\ D!MessageHeldOnce
  BY DEF D!UncancelledIntact, DP!UncancelledIntact, D!Corrupted, DP!Corrupted,
     D!RequestHeldOnce, DP!RequestHeldOnce, D!RequestHolders, DP!RequestHolders,
     D!MessageHeldOnce, DP!MessageHeldOnce, D!MessageHolders, DP!MessageHolders,
     D!Holders, DP!Holders
<1>5. CP!SlotHeldOnce /\ CP!ThreadForEverySlot => C!SlotHeldOnce /\ C!ThreadForEverySlot
  BY DEF C!SlotHeldOnce, CP!SlotHeldOnce, C!ThreadForEverySlot, CP!ThreadForEverySlot,
     C!Cardinality, CP!Cardinality
<1> QED  BY <1>2, <1>3, <1>4, <1>5, Inductive, PTL
=============================================================================
