------------------------------ MODULE Pipeline ------------------------------
(***************************************************************************)
(* The way of an event from a callback to the service: the driver's half   *)
(* (D, module Ioctl) and the service's half (C, module Communication) put  *)
(* together.  Each slot's request is one I/O request of the driver;        *)
(* Dispatcher runs on the thread that calls DeviceIoControl, and a request *)
(* that the driver completes becomes a packet at the completion port.      *)
(*                                                                         *)
(* The driver is loaded first and stays loaded (module Service).  This is  *)
(* one life of the service's process, in which nothing cancels a request:  *)
(* the service itself never does, and the end of the process, which        *)
(* cancels those outstanding, is outside.  Nothing here keeps the driver   *)
(* from completing what the service does not expect: that it never does is *)
(* what has to be shown.                                                   *)
(***************************************************************************)
EXTENDS Integers, Sequences, FiniteSets

CONSTANTS
  Slots, Threads, Main,  \* the service's slots, its pool, and ServiceMain
  Senders,               \* threads that report events
  Events,                \* events, and the messages they travel in
  Oversized,             \* the events that are too long for a slot
  kMaxDataListSize,
  None

\* The pool has a thread for every slot; threads, slots and events are apart.
ASSUME PipelineAssumption ==
  /\ IsFiniteSet(Slots) /\ IsFiniteSet(Threads) /\ IsFiniteSet(Senders)
  /\ Cardinality(Slots) <= Cardinality(Threads)
  /\ Main \notin Threads /\ (Threads \cup {Main}) \cap Slots = {}
  /\ None \notin Slots \cup Events \cup Threads \cup {Main}
  /\ Oversized \subseteq Events /\ kMaxDataListSize \in Nat \ {0}

VARIABLES
  ctx, irp_list, data_list, heap, live, cancel, armed, cancel_lock,
  dpc, dirp, dmsg, spc, smsg, sirp, kpc, dangling, doubled, up,
  mpc, file_, port, is_stopped_, where, buffer, packets, tpc, slot,
  sent, handled

D == INSTANCE Ioctl WITH Clients <- Threads \cup {Main}, Irps <- Slots,
                         Msgs <- Events, Cancellable <- {}
C == INSTANCE Communication

driver  == <<ctx, irp_list, data_list, heap, live, cancel, armed, cancel_lock,
             dpc, dirp, dmsg, spc, smsg, sirp, kpc, dangling, doubled, up>>
control == <<mpc, file_, port, is_stopped_, tpc, slot>>
service == <<control, where, buffer, packets, sent, handled>>
vars    == <<driver, service>>

Init == D!Init /\ C!Init

\* Events whose message is gone and that no slot waits with are raised again.
Over(e) == e \notin heap /\ (e \in sent => handled[e] > 0)

-----------------------------------------------------------------------------
(* The completion of a request, as the service sees it *)

Packet(s, result) ==
  /\ packets' = Append(packets, [slot |-> s, result |-> result])
  /\ C!Move(s, "queued")

\* The message was copied into the slot's buffer.
Answered(s, e) ==
  /\ Packet(s, "success")
  /\ buffer' = [buffer EXCEPT ![s] = e] /\ sent' = sent \cup {e}
  /\ UNCHANGED <<control, handled>>

Failed(s, result) ==
  Packet(s, result) /\ UNCHANGED <<control, buffer, sent, handled>>

\* A request that fails before it was marked pending ends without a packet: the
\* error is the result of DeviceIoControl.
FailedAtOnce(s) ==
  C!Move(s, "lost") /\ UNCHANGED <<control, buffer, packets, sent, handled>>

-----------------------------------------------------------------------------
(* DeviceIoControl *)

Calling(c) == dpc[c] # "idle"

IssueFirst(s) ==
  /\ ~Calling(Main) /\ C!IssueFirst(s) /\ where'[s] = "device"
  /\ D!Request(Main, s)
NextRequest(t) ==
  /\ ~Calling(t) /\ C!NextRequest(t) /\ where'[slot[t]] = "device"
  /\ D!Request(t, slot[t])

\* The request is answered, or refused for the size of the message, on the
\* thread that has made it.
Reply(c) ==
  /\ D!Reply(c)
  /\ IF D!TooSmall(dmsg[c]) THEN FailedAtOnce(dirp[c]) ELSE Answered(dirp[c], dmsg[c])

\* There is no memory to park the request, which is marked pending by now.
PushIrpFails(c) == D!PushIrpFails(c) /\ Failed(dirp[c], "error")

InDispatcher(c) ==
  \/ Reply(c) \/ PushIrpFails(c)
  \/ /\ \/ D!FetchData(c) \/ D!FetchNothing(c) \/ D!Pend(c) \/ D!PushIrp(c)
        \/ D!Requeue(c)
     /\ UNCHANGED service

-----------------------------------------------------------------------------
(* SendMessage *)

Raise(s, e) ==
  /\ ctx /\ Over(e) /\ D!RaiseEvent(s, e)
  /\ sent' = sent \ {e} /\ handled' = [handled EXCEPT ![e] = 0]
  /\ UNCHANGED <<control, where, buffer, packets>>

\* A parked request is answered, or fails because the message is too long.
Deliver(s) ==
  /\ D!Deliver(s)
  /\ IF D!TooSmall(smsg[s]) THEN Failed(sirp[s], "insufficient")
                            ELSE Answered(sirp[s], smsg[s])

InSendMessage(s) ==
  \/ Deliver(s)
  \/ /\ \/ D!PopIrp(s) \/ D!Disarm(s) \/ D!CheckSize(s) \/ D!Evict(s)
        \/ D!PushData(s)
     /\ UNCHANGED service

-----------------------------------------------------------------------------
(* The service between its calls of DeviceIoControl *)

RunMain ==
  \/ \E s \in Slots : IssueFirst(s)
  \/ /\ ctx /\ ~Calling(Main) /\ UNCHANGED driver
     /\ \/ C!OpenDevice \/ C!CreatePort
        \/ \E t \in Threads : C!StartThread(t)
        \/ C!ClosePort \/ C!Join

RunThread(t) ==
  \/ NextRequest(t)
  \/ /\ ~Calling(t) /\ UNCHANGED driver
     /\ \/ C!TestStopped(t) \/ C!Abandoned(t) \/ C!Take(t)
        \/ C!SkipInsufficient(t) \/ C!ExitOnError(t) \/ C!DoSingleResponse(t)

Load == D!Initialize /\ UNCHANGED service
Stop == C!Stop /\ ~Calling(Main) /\ UNCHANGED driver

Next ==
  \/ Load \/ Stop \/ RunMain
  \/ \E c \in Threads \cup {Main} : InDispatcher(c)
  \/ \E t \in Threads : RunThread(t)
  \/ \E s \in Senders : InSendMessage(s) \/ \E e \in Events : Raise(s, e)

Spec == Init /\ [][Next]_vars

\* Every thread is scheduled, in the service and in the driver; the cancel spin
\* lock is a queued lock.  Nobody is obliged to report anything, nor to stop.
FairSpec ==
  /\ Spec /\ WF_vars(Load) /\ WF_vars(RunMain)
  /\ \A c \in Threads \cup {Main} :
       WF_vars(InDispatcher(c)) /\ SF_vars(D!Pend(c) /\ UNCHANGED service)
  /\ \A t \in Threads : WF_vars(RunThread(t))
  /\ \A s \in Senders : WF_vars(InSendMessage(s))

-----------------------------------------------------------------------------
(* Properties *)

\* An event is never both still in the driver and on its way through the service
\* or recorded: none is delivered twice, and none that was delivered comes back.
DeliveredOnce == heap \cap sent = {} /\ C!EventHandledOnce

\* The driver only does what Communication expects of its device: to complete
\* requests that are pending, each of them once and with one event.  A request
\* that is refused at once, which is one step there, is refused here by the
\* thread that has made it before it does anything else.
Reused ==
  /\ \E e \in Events : sent' = sent \ {e} /\ handled' = [handled EXCEPT ![e] = 0]
  /\ UNCHANGED <<control, where, buffer, packets>>
RefusedAtOnce == \E c \in Threads \cup {Main} : dirp[c] # None /\ FailedAtOnce(dirp[c])
ActsAsDevice == [][C!Next \/ Reused \/ RefusedAtOnce]_service

\* A message and a request may miss each other and wait side by side, but if
\* events keep being reported, every event gets through to the service or gives
\* way to newer ones, and what gets through is recorded, unless the service stops.
EventsKeepComing == []<><<\E s \in Senders, e \in Events : Raise(s, e)>>_vars
EventsGetThrough ==
  EventsKeepComing =>
    \A e \in Events : e \in heap \cup sent ~> Over(e) \/ is_stopped_
=============================================================================
