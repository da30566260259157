--------------------------- MODULE Communication ---------------------------
(***************************************************************************)
(* The service's end of the device: Communication (src/src/srv/ioctl.cc).  *)
(* Start issues one overlapped request per slot (an OverlappedInfo and its *)
(* buffer) and starts a pool of threads, which take completion packets     *)
(* from the port, handle the event in the slot's buffer and issue the      *)
(* slot's next request.  Stop ends the threads.  The device is the         *)
(* environment: module Ioctl models it.                                    *)
(*                                                                         *)
(* A slot whose request fails is not issued again: where = "lost".         *)
(***************************************************************************)
EXTENDS Integers, Sequences, FiniteSets, Functions

CONSTANTS
  Slots,    \* overlapped_infos_
  Threads,  \* thread_pool_
  Events,   \* what the driver reports, each of them once
  None

\* Start sizes both by kMaxThreadNum; that there is a thread for every slot is
\* all that matters.
ASSUME CommunicationAssumption ==
  /\ IsFiniteSet(Slots) /\ IsFiniteSet(Threads)
  /\ Cardinality(Slots) <= Cardinality(Threads)
  /\ None \notin Events \cup Slots

VARIABLES
  mpc,          \* ServiceMain's step in Start and Stop
  file_,        \* the device is open
  port,         \* complete_port_ is open
  is_stopped_,
  where,        \* where each slot is
  buffer,       \* the event in each slot's buffer, or None
  packets,      \* the packets queued at the port: a slot and its result
  tpc,          \* each thread's step in DoCompleteRequest
  slot,         \* the slot it handles, or None
  sent,         \* the events that the device has answered with
  handled       \* how often DoSingleResponse has handled each event

main   == <<mpc, file_, port, is_stopped_>>
slots  == <<where, buffer, packets>>
thread == <<tpc, slot>>
events == <<sent, handled>>
vars   == <<main, slots, thread, events>>

Result     == {"success", "insufficient", "error"}
MainStep   == {"idle", "port", "issue", "run", "close", "join", "stopped", "failed"}
ThreadStep == {"none", "test", "wait", "respond", "request", "exit"}
Place      == {"idle", "device", "queued", "thread", "lost"}

Init ==
  /\ mpc = "idle" /\ file_ = FALSE /\ port = FALSE /\ is_stopped_ = FALSE
  /\ where = [s \in Slots |-> "idle"] /\ buffer = [s \in Slots |-> None]
  /\ packets = <<>>
  /\ tpc = [t \in Threads |-> "none"] /\ slot = [t \in Threads |-> None]
  /\ sent = {} /\ handled = [e \in Events |-> 0]

Move(s, place) == where' = [where EXCEPT ![s] = place]
Goto(t, step)  == tpc' = [tpc EXCEPT ![t] = step]

\* DoSingleRequest: DeviceIoControl accepts the request, or the driver refuses
\* it at once, which queues no packet and is only logged.
DoSingleRequest(s) == Move(s, "device") \/ Move(s, "lost")

-----------------------------------------------------------------------------
(* Start and Stop *)

OpenDevice ==
  /\ mpc = "idle"
  /\ \/ mpc' = "port" /\ file_' = TRUE
     \/ mpc' = "failed" /\ UNCHANGED file_
  /\ UNCHANGED <<port, is_stopped_, slots, thread, events>>

\* Without a port Start fails and leaves the device open.
CreatePort ==
  /\ mpc = "port"
  /\ \/ mpc' = "issue" /\ port' = TRUE
     \/ mpc' = "failed" /\ UNCHANGED port
  /\ UNCHANGED <<file_, is_stopped_, slots, thread, events>>

IssueFirst(s) ==
  /\ mpc = "issue" /\ where[s] = "idle"
  /\ DoSingleRequest(s)
  /\ UNCHANGED <<main, buffer, packets, thread, events>>

StartThread(t) ==
  /\ mpc = "issue" /\ \A s \in Slots : where[s] # "idle"
  /\ tpc[t] = "none" /\ Goto(t, "test")
  /\ mpc' = IF \A u \in Threads \ {t} : tpc[u] # "none" THEN "run" ELSE "issue"
  /\ UNCHANGED <<file_, port, is_stopped_, slots, slot, events>>

\* ServiceMain has been asked to stop.
Stop ==
  /\ mpc = "run" /\ mpc' = "close"
  /\ is_stopped_' = TRUE
  /\ UNCHANGED <<file_, port, slots, thread, events>>

ClosePort ==
  /\ mpc = "close" /\ mpc' = "join"
  /\ port' = FALSE
  /\ UNCHANGED <<file_, is_stopped_, slots, thread, events>>

\* The device is closed when all threads have been joined.
Join ==
  /\ mpc = "join" /\ \A t \in Threads : tpc[t] = "exit"
  /\ mpc' = "stopped" /\ file_' = FALSE
  /\ UNCHANGED <<port, is_stopped_, slots, thread, events>>

-----------------------------------------------------------------------------
(* DoCompleteRequest *)

TestStopped(t) ==
  /\ tpc[t] = "test"
  /\ Goto(t, IF is_stopped_ THEN "exit" ELSE "wait")
  /\ UNCHANGED <<main, slots, slot, events>>

\* GetQueuedCompletionStatus fails when the port is closed, while the thread
\* waits or before it does.  The call sets no time limit, so that Windows
\* documents no other way for it to fail without a packet; a failure with a
\* packet is SkipInsufficient or ExitOnError.
Abandoned(t) ==
  /\ tpc[t] = "wait" /\ ~port
  /\ Goto(t, "exit")
  /\ UNCHANGED <<main, slots, slot, events>>

\* It returns the oldest packet.  A buffer that was too small is only logged,
\* any other error ends the thread; in both cases the slot is lost.
Dequeue(t, result) ==
  /\ tpc[t] = "wait" /\ port
  /\ packets # <<>> /\ Head(packets).result = result
  /\ packets' = Tail(packets)

TakeAndReissue(t) ==
  /\ Dequeue(t, "success") /\ Goto(t, "respond")
  /\ DoSingleRequest(Head(packets).slot)
  /\ slot' = [slot EXCEPT ![t] = Head(packets).slot]
  /\ UNCHANGED <<main, buffer, events>>
Take(t) ==
  /\ Dequeue(t, "success") /\ Goto(t, "respond")
  /\ Move(Head(packets).slot, "thread")
  /\ slot' = [slot EXCEPT ![t] = Head(packets).slot]
  /\ UNCHANGED <<main, buffer, events>>

SkipInsufficient(t) ==
  /\ Dequeue(t, "insufficient") /\ Goto(t, "test")
  /\ Move(Head(packets).slot, "lost")
  /\ UNCHANGED <<main, buffer, slot, events>>

RetryAndExit(t) ==
  /\ Dequeue(t, "error") /\ Goto(t, "exit")
  /\ DoSingleRequest(Head(packets).slot)
  /\ UNCHANGED <<main, buffer, slot, events>>
ExitOnError(t) ==
  /\ Dequeue(t, "error") /\ Goto(t, "exit")
  /\ Move(Head(packets).slot, "lost")
  /\ UNCHANGED <<main, buffer, slot, events>>

\* DoSingleResponse: FileInstall or RegistryInstall, see module InstallDb.
DoSingleResponse(t) ==
  /\ tpc[t] = "respond" /\ Goto(t, "request")
  /\ handled' = [handled EXCEPT ![buffer[slot[t]]] = @ + 1]
  /\ UNCHANGED <<main, slots, slot, sent>>

NextRequest(t) ==
  /\ tpc[t] = "request" /\ Goto(t, "test")
  /\ DoSingleRequest(slot[t])
  /\ slot' = [slot EXCEPT ![t] = None]
  /\ UNCHANGED <<main, buffer, packets, events>>

Run(t) == \/ TestStopped(t) \/ Abandoned(t) \/ Take(t) \/ SkipInsufficient(t)
          \/ ExitOnError(t) \/ DoSingleResponse(t) \/ NextRequest(t)

-----------------------------------------------------------------------------
(* The device *)

Complete(s, result) ==
  /\ where[s] = "device" /\ Move(s, "queued")
  /\ packets' = Append(packets, [slot |-> s, result |-> result])

\* A request is answered with an event, which is copied into its buffer.
Answer(s, e) ==
  /\ e \notin sent /\ sent' = sent \cup {e}
  /\ Complete(s, "success")
  /\ buffer' = [buffer EXCEPT ![s] = e]
  /\ UNCHANGED <<main, thread, handled>>

\* A pending request is completed without data: its buffer is too small, or
\* there is no memory to park it.
Refuse(s, result) ==
  /\ Complete(s, result)
  /\ UNCHANGED <<main, buffer, thread, events>>

-----------------------------------------------------------------------------
MainRun == \/ OpenDevice \/ CreatePort \/ ClosePort \/ Join
           \/ \E s \in Slots : IssueFirst(s)
           \/ \E t \in Threads : StartThread(t)
DeviceNext == \E s \in Slots : \/ \E e \in Events : Answer(s, e)
                               \/ \E r \in Result \ {"success"} : Refuse(s, r)
Next == MainRun \/ Stop \/ DeviceNext \/ \E t \in Threads : Run(t)

Spec == Init /\ [][Next]_vars

\* All threads are scheduled; nothing obliges anyone to stop the service, nor
\* the device to answer.
FairSpec == /\ Spec
            /\ WF_vars(MainRun)
            /\ \A t \in Threads : WF_vars(Run(t))

-----------------------------------------------------------------------------
(* Properties *)

TypeOK ==
  /\ mpc \in MainStep /\ file_ \in BOOLEAN /\ port \in BOOLEAN
  /\ is_stopped_ \in BOOLEAN
  /\ where \in [Slots -> Place] /\ buffer \in [Slots -> Events \cup {None}]
  /\ packets \in Seq([slot : Slots, result : Result])
  /\ tpc \in [Threads -> ThreadStep] /\ slot \in [Threads -> Slots \cup {None}]
  /\ sent \subseteq Events /\ handled \in [Events -> Nat]
  /\ \A t \in Threads : (slot[t] = None) <=> (tpc[t] \notin {"respond", "request"})

\* A slot has one place: a packet of its own if it is queued, a thread of its
\* own if it is handled, and neither otherwise.  The device never writes into
\* a buffer that a thread reads.
SlotHeldOnce ==
  \A s \in Slots :
    /\ Cardinality({k \in DOMAIN packets : packets[k].slot = s})
         = IF where[s] = "queued" THEN 1 ELSE 0
    /\ Cardinality({t \in Threads : slot[t] = s})
         = IF where[s] = "thread" THEN 1 ELSE 0

\* Every event that the device has answered with is handled once, or its buffer
\* is still waiting to be: none is overwritten, dropped or handled twice.
EventHandledOnce ==
  \A e \in sent :
    handled[e] + Cardinality({s \in Slots :
                   /\ buffer[s] = e
                   /\ \/ [slot |-> s, result |-> "success"] \in Range(packets)
                      \/ \E t \in Threads : slot[t] = s /\ tpc[t] = "respond"}) = 1

\* Failed requests lose slots and end threads, but as long as a slot is left
\* the pool has a thread to serve it, unless the service stops.
ThreadForEverySlot ==
  ~is_stopped_ =>
    Cardinality({s \in Slots : where[s] # "lost"})
      <= Cardinality({t \in Threads : tpc[t] # "exit"})

\* While the service is not stopped, every event that reaches it is handled.
EventsHandled ==
  \A e \in Events : e \in sent ~> handled[e] > 0 \/ is_stopped_
=============================================================================
