------------------------------- MODULE Ioctl -------------------------------
(***************************************************************************)
(* The rendezvous between the monitor driver's callbacks and the service:  *)
(* src/src/drv/ioctl.cc over two SafeLists (src/src/drv/safe_list.h).      *)
(*                                                                         *)
(* A client thread sends IOCTL_FETCH_DATA; Dispatcher answers it from      *)
(* data_list or parks it in irp_list.  A callback thread calls             *)
(* SendMessage, which answers a parked request or queues its message.  The *)
(* I/O manager may cancel a parked request at any time.                    *)
(*                                                                         *)
(* Granularity: one action per critical section, interlocked exchange or   *)
(* unlocked read.  A SafeList operation is one step, its critical section  *)
(* (module SafeList shows why); IoSetCancelRoutine is an interlocked       *)
(* exchange that needs no lock.                                            *)
(***************************************************************************)
EXTENDS Integers, Sequences, FiniteSets, Functions

CONSTANTS
  Clients,           \* threads that call Dispatcher
  Senders,           \* threads that call SendMessage
  Irps,              \* request identities, reused once a request is over
  Msgs,              \* message buffers, reused once freed
  Oversized,         \* the messages longer than the requests' output buffers
  Cancellable,       \* the requests their owner may cancel
  kMaxDataListSize,  \* the soft limit on data_list
  None               \* nullptr, and the free cancel spin lock

ASSUME IoctlAssumption ==
  /\ IsFiniteSet(Clients) /\ IsFiniteSet(Senders)
  /\ Oversized \subseteq Msgs /\ Cancellable \subseteq Irps
  /\ Clients \cap Irps = {}
  /\ None \notin Irps \cup Msgs \cup Clients
  /\ kMaxDataListSize \in Nat \ {0}

VARIABLES
  ctx,          \* ioctl_ctx_ # nullptr
  irp_list,     \* ioctl_ctx_->irp_list, oldest request first
  data_list,    \* ioctl_ctx_->data_list, oldest message first
  heap,         \* message buffers allocated and not yet deleted
  live,         \* requests issued and not yet completed
  cancel,       \* requests with irp->Cancel set
  armed,        \* requests with irp->CancelRoutine set
  cancel_lock,  \* the holder of the system's cancel spin lock, or None
  dpc, dirp, dmsg,  \* Dispatcher: each client's step, its irp and its msg
  spc, smsg, sirp,  \* SendMessage: each sender's step, its msg and its irp
  kpc,          \* NotifyIrpCancelRoutine: its step for each request
  dangling,     \* requests whose list node was deleted while still linked
  doubled,      \* requests completed when they were already completed
  up            \* FALSE once the machine has stopped with a bugcheck

lists   == <<irp_list, data_list>>
irpVars == <<live, cancel, armed, cancel_lock, doubled>>
dVars   == <<dpc, dirp, dmsg>>
sVars   == <<spc, smsg, sirp>>
vars    == <<ctx, lists, heap, irpVars, dVars, sVars, kpc, dangling, up>>

DispatchStep == {"idle", "fetch", "reply", "requeue", "pend", "push"}
SendStep     == {"idle", "popirp", "disarm", "deliver", "check", "evict", "push"}
CancelStep   == {"none", "release", "pop"}

Init ==
  /\ ctx = FALSE /\ up = TRUE
  /\ irp_list = <<>> /\ data_list = <<>>
  /\ heap = {} /\ live = {} /\ cancel = {} /\ armed = {}
  /\ cancel_lock = None
  /\ dpc = [c \in Clients |-> "idle"]
  /\ dirp = [c \in Clients |-> None] /\ dmsg = [c \in Clients |-> None]
  /\ spc = [s \in Senders |-> "idle"]
  /\ smsg = [s \in Senders |-> None] /\ sirp = [s \in Senders |-> None]
  /\ kpc = [i \in Irps |-> "none"]
  /\ dangling = {} /\ doubled = {}

-----------------------------------------------------------------------------
(* Helpers *)

\* CompleteIrp: IoCompleteRequest on the requests in S, one of which may have
\* been completed before.
CompleteAll(S) == /\ live' = live \ S
                  /\ doubled' = doubled \cup (S \ live)
CompleteIrp(i) == CompleteAll({i})

\* The comparison at the head of CompleteIrpWithPendingData.
TooSmall(m) == m \in Oversized

\* The buffers left after CompleteIrpWithPendingData has answered a request
\* with m: only a message that was copied out is freed.
KeptUnconditionally(m) == heap
FreedUnconditionally(m) == heap \ {m}
HeapAfterReply(m) == IF TooSmall(m) THEN heap ELSE heap \ {m}

\* The list without its k-th node.
Unlink(list, k) ==
  [j \in 1..(Len(list) - 1) |-> IF j < k THEN list[j] ELSE list[j + 1]]

DisarmFailedPush(i) == armed \ {i}

-----------------------------------------------------------------------------
(* The life of ioctl_ctx_ *)

\* ioctl::initialize, with the allocation that succeeds.
Initialize ==
  /\ ~ctx
  /\ ctx' = TRUE
  /\ irp_list' = <<>> /\ data_list' = <<>>
  /\ UNCHANGED <<heap, irpVars, dVars, sVars, kpc, dangling, up>>

\* ioctl::finalize: both lists are cleared by their destructors, the requests
\* completed with STATUS_CANCELLED and the messages deleted.  The system lets
\* it run only when no call into the driver and no request is outstanding.
Finalize ==
  /\ ctx
  /\ live = {}
  /\ \A c \in Clients : dpc[c] = "idle"
  /\ \A s \in Senders : spc[s] = "idle"
  /\ \A i \in Irps : kpc[i] = "none"
  /\ ctx' = FALSE
  /\ CompleteAll(Range(irp_list))
  /\ heap' = heap \ Range(data_list)
  /\ irp_list' = <<>> /\ data_list' = <<>>
  /\ UNCHANGED <<cancel, armed, cancel_lock, dVars, sVars, kpc, dangling, up>>

-----------------------------------------------------------------------------
(* Dispatcher *)

\* The I/O manager hands a new request to Dispatcher.
Request(c, i) ==
  /\ dpc[c] = "idle" /\ i \notin live /\ kpc[i] = "none"
  /\ live' = live \cup {i}
  /\ cancel' = cancel \ {i}
  /\ dirp' = [dirp EXCEPT ![c] = i]
  /\ dpc' = [dpc EXCEPT ![c] = "fetch"]
  /\ UNCHANGED <<ctx, lists, heap, armed, cancel_lock, dmsg, sVars, kpc,
                 dangling, doubled, up>>

\* Dispatcher returns: the thread no longer refers to the request.
Return(c) == /\ dpc' = [dpc EXCEPT ![c] = "idle"]
             /\ dirp' = [dirp EXCEPT ![c] = None]

\* CompleteIrpRoutine: STATUS_DEVICE_NOT_READY without a context, else the
\* oldest message of data_list, else the request has to wait.
RejectNotReady(c) ==
  /\ dpc[c] = "fetch" /\ ~ctx
  /\ CompleteIrp(dirp[c])
  /\ Return(c)
  /\ UNCHANGED <<ctx, lists, heap, cancel, armed, cancel_lock, dmsg, sVars,
                 kpc, dangling, up>>

FetchNewest(c) ==
  /\ dpc[c] = "fetch" /\ ctx /\ data_list # <<>>
  /\ dmsg' = [dmsg EXCEPT ![c] = data_list[Len(data_list)]]
  /\ data_list' = SubSeq(data_list, 1, Len(data_list) - 1)
  /\ dpc' = [dpc EXCEPT ![c] = "reply"]
  /\ UNCHANGED <<ctx, irp_list, heap, irpVars, dirp, sVars, kpc, dangling, up>>
FetchData(c) ==
  /\ dpc[c] = "fetch" /\ ctx /\ data_list # <<>>
  /\ dmsg' = [dmsg EXCEPT ![c] = Head(data_list)]
  /\ data_list' = Tail(data_list)
  /\ dpc' = [dpc EXCEPT ![c] = "reply"]
  /\ UNCHANGED <<ctx, irp_list, heap, irpVars, dirp, sVars, kpc, dangling, up>>

FetchNothing(c) ==
  /\ dpc[c] = "fetch" /\ ctx /\ data_list = <<>>
  /\ dpc' = [dpc EXCEPT ![c] = "pend"]
  /\ UNCHANGED <<ctx, lists, heap, irpVars, dirp, dmsg, sVars, kpc, dangling, up>>

\* CompleteIrpWithPendingData on the popped message: copied and freed, or
\* STATUS_BUFFER_TOO_SMALL and the message is kept for another request.
Reply(c) ==
  /\ dpc[c] = "reply"
  /\ CompleteIrp(dirp[c])
  /\ dirp' = [dirp EXCEPT ![c] = None]
  /\ heap' = HeapAfterReply(dmsg[c])
  /\ IF TooSmall(dmsg[c])
     THEN /\ dpc' = [dpc EXCEPT ![c] = "requeue"]
          /\ UNCHANGED dmsg
     ELSE /\ dpc' = [dpc EXCEPT ![c] = "idle"]
          /\ dmsg' = [dmsg EXCEPT ![c] = None]
  /\ UNCHANGED <<ctx, lists, cancel, armed, cancel_lock, sVars, kpc, dangling, up>>

\* The message that did not fit goes to the tail of data_list, or is freed
\* when no list node can be allocated.
Requeue(c) ==
  /\ dpc[c] = "requeue"
  /\ \/ /\ data_list' = Append(data_list, dmsg[c])
        /\ UNCHANGED heap
     \/ /\ heap' = heap \ {dmsg[c]}
        /\ UNCHANGED data_list
  /\ dmsg' = [dmsg EXCEPT ![c] = None]
  /\ dpc' = [dpc EXCEPT ![c] = "idle"]
  /\ UNCHANGED <<ctx, irp_list, irpVars, dirp, sVars, kpc, dangling, up>>

\* IoAcquireCancelSpinLock in PendingIrpRoutine.
PendWithoutLock(c) == UNCHANGED cancel_lock
AcquireCancelLock(c) == cancel_lock = None /\ cancel_lock' = c

\* PendingIrpRoutine up to the insertion: a request that is already
\* cancelled is completed, the others get their cancel routine.
PendCancelled(c) ==
  /\ dpc[c] = "pend" /\ cancel_lock = None
  /\ dirp[c] \in cancel
  /\ CompleteIrp(dirp[c])
  /\ Return(c)
  /\ UNCHANGED <<ctx, lists, heap, cancel, armed, cancel_lock, dmsg, sVars, kpc,
                 dangling, up>>

PendUnchecked(c) ==
  /\ dpc[c] = "pend" /\ AcquireCancelLock(c)
  /\ armed' = armed \cup {dirp[c]}
  /\ dpc' = [dpc EXCEPT ![c] = "push"]
  /\ UNCHANGED <<ctx, lists, heap, live, cancel, doubled, dirp, dmsg, sVars,
                 kpc, dangling, up>>
Pend(c) ==
  /\ dpc[c] = "pend" /\ AcquireCancelLock(c)
  /\ dirp[c] \notin cancel
  /\ armed' = armed \cup {dirp[c]}
  /\ dpc' = [dpc EXCEPT ![c] = "push"]
  /\ UNCHANGED <<ctx, lists, heap, live, cancel, doubled, dirp, dmsg, sVars,
                 kpc, dangling, up>>

\* The insertion and the release of the lock; without memory for a node the
\* cancel routine is removed again and the request fails.
PushIrp(c) ==
  /\ dpc[c] = "push"
  /\ irp_list' = Append(irp_list, dirp[c])
  /\ cancel_lock' = None
  /\ Return(c)
  /\ UNCHANGED <<ctx, data_list, heap, live, cancel, armed, doubled, dmsg,
                 sVars, kpc, dangling, up>>

PushIrpFailsLocked(c) ==
  /\ dpc[c] = "push"
  /\ armed' = DisarmFailedPush(dirp[c])
  /\ CompleteIrp(dirp[c])
  /\ Return(c)
  /\ UNCHANGED <<ctx, lists, heap, cancel, cancel_lock, dmsg, sVars, kpc, dangling, up>>
PushIrpFails(c) ==
  /\ dpc[c] = "push"
  /\ armed' = DisarmFailedPush(dirp[c])
  /\ CompleteIrp(dirp[c])
  /\ cancel_lock' = None
  /\ Return(c)
  /\ UNCHANGED <<ctx, lists, heap, cancel, dmsg, sVars, kpc, dangling, up>>

DispatcherStep(c) ==
  \/ RejectNotReady(c) \/ FetchData(c) \/ FetchNothing(c) \/ Reply(c)
  \/ Requeue(c) \/ PendCancelled(c) \/ Pend(c) \/ PushIrp(c) \/ PushIrpFails(c)

-----------------------------------------------------------------------------
(* SendMessage *)

\* install::FileInstall or RegistryInstall has built a message and calls
\* SendMessage; without a context the caller deletes the message at once.
RaiseEvent(s, m) ==
  /\ spc[s] = "idle" /\ m \notin heap
  /\ IF ctx
     THEN /\ heap' = heap \cup {m}
          /\ smsg' = [smsg EXCEPT ![s] = m]
          /\ spc' = [spc EXCEPT ![s] = "popirp"]
     ELSE UNCHANGED <<heap, smsg, spc>>
  /\ UNCHANGED <<ctx, lists, irpVars, dVars, sirp, kpc, dangling, up>>

\* SendMessage returns: the message is in a list or freed.
Done(s) == /\ spc' = [spc EXCEPT ![s] = "idle"]
           /\ smsg' = [smsg EXCEPT ![s] = None]

PeekIrp(s) ==
  /\ spc[s] = "popirp" /\ irp_list # <<>>
  /\ spc' = [spc EXCEPT ![s] = "disarm"]
  /\ sirp' = [sirp EXCEPT ![s] = Head(irp_list)]
  /\ UNCHANGED <<ctx, lists, heap, irpVars, dVars, smsg, kpc, dangling, up>>
PopIrp(s) ==
  /\ spc[s] = "popirp"
  /\ IF irp_list = <<>>
     THEN /\ spc' = [spc EXCEPT ![s] = "check"]
          /\ UNCHANGED <<irp_list, sirp>>
     ELSE /\ spc' = [spc EXCEPT ![s] = "disarm"]
          /\ sirp' = [sirp EXCEPT ![s] = Head(irp_list)]
          /\ irp_list' = Tail(irp_list)
  /\ UNCHANGED <<ctx, data_list, heap, irpVars, dVars, smsg, kpc, dangling, up>>

\* IoSetCancelRoutine(irp, nullptr): the request belongs to whoever removes
\* the routine.  If the canceller was faster, SendMessage only completes it.
Disarm(s) ==
  /\ spc[s] = "disarm"
  /\ sirp[s] \in armed
  /\ armed' = armed \ {sirp[s]}
  /\ spc' = [spc EXCEPT ![s] = "deliver"]
  /\ UNCHANGED <<ctx, lists, heap, live, cancel, cancel_lock, doubled, dVars,
                 smsg, sirp, kpc, dangling, up>>

DisarmTooLate(s) ==
  /\ spc[s] = "disarm"
  /\ sirp[s] \notin armed
  /\ CompleteIrp(sirp[s])
  /\ sirp' = [sirp EXCEPT ![s] = None]
  /\ spc' = [spc EXCEPT ![s] = "check"]
  /\ UNCHANGED <<ctx, lists, heap, cancel, armed, cancel_lock, dVars, smsg, kpc,
                 dangling, up>>

\* CompleteIrpWithPendingData: the request is over in both cases, the message
\* only when it fitted.
Deliver(s) ==
  /\ spc[s] = "deliver"
  /\ CompleteIrp(sirp[s])
  /\ heap' = HeapAfterReply(smsg[s])
  /\ sirp' = [sirp EXCEPT ![s] = None]
  /\ IF TooSmall(smsg[s])
     THEN spc' = [spc EXCEPT ![s] = "check"] /\ UNCHANGED smsg
     ELSE Done(s)
  /\ UNCHANGED <<ctx, lists, cancel, armed, cancel_lock, dVars, kpc, dangling, up>>

\* data_list.Size() >= kMaxDataListSize, read without the list's lock.
NeverFull == FALSE
DataListFull == Len(data_list) >= kMaxDataListSize

CheckSize(s) ==
  /\ spc[s] = "check"
  /\ spc' = [spc EXCEPT ![s] = IF DataListFull THEN "evict" ELSE "push"]
  /\ UNCHANGED <<ctx, lists, heap, irpVars, dVars, smsg, sirp, kpc, dangling, up>>

\* The oldest message makes room; others may have emptied the list meanwhile.
Evict(s) ==
  /\ spc[s] = "evict"
  /\ IF data_list = <<>>
     THEN UNCHANGED <<data_list, heap>>
     ELSE /\ data_list' = Tail(data_list)
          /\ heap' = heap \ {Head(data_list)}
  /\ spc' = [spc EXCEPT ![s] = "push"]
  /\ UNCHANGED <<ctx, irp_list, irpVars, dVars, smsg, sirp, kpc, dangling, up>>

\* Without memory for a list node SendMessage returns false and its caller
\* deletes the message.
PushData(s) ==
  /\ spc[s] = "push"
  /\ \/ /\ data_list' = Append(data_list, smsg[s])
        /\ UNCHANGED heap
     \/ /\ heap' = heap \ {smsg[s]}
        /\ UNCHANGED data_list
  /\ Done(s)
  /\ UNCHANGED <<ctx, irp_list, irpVars, dVars, sirp, kpc, dangling, up>>

SendMessageStep(s) ==
  \/ PopIrp(s) \/ Disarm(s) \/ DisarmTooLate(s) \/ Deliver(s)
  \/ CheckSize(s) \/ Evict(s) \/ PushData(s)

-----------------------------------------------------------------------------
(* Cancellation *)

\* IoCancelIrp: the I/O manager sets irp->Cancel and takes the cancel routine
\* in one critical section of the cancel spin lock, which the routine, if
\* there was one, is then called with.
IoCancelIrp(i) ==
  /\ i \in Cancellable /\ i \in live /\ i \notin cancel
  /\ cancel_lock = None
  /\ cancel' = cancel \cup {i}
  /\ IF i \in armed
     THEN /\ armed' = armed \ {i}
          /\ cancel_lock' = i
          /\ kpc' = [kpc EXCEPT ![i] = "release"]
     ELSE UNCHANGED <<armed, cancel_lock, kpc>>
  /\ UNCHANGED <<ctx, lists, heap, live, doubled, dVars, sVars, dangling, up>>

\* NotifyIrpCancelRoutine releases the lock before it looks for the request,
\* so that a SendMessage may pop it first.
ReleaseCancelLock(i) ==
  /\ kpc[i] = "release"
  /\ cancel_lock' = None
  /\ kpc' = [kpc EXCEPT ![i] = "pop"]
  /\ UNCHANGED <<ctx, lists, heap, live, cancel, armed, doubled, dVars, sVars,
                 dangling, up>>

\* NotifyIrpCancelRoutine when irp_list.Pop(irp) finds the request: it is
\* unlinked and completed.
PopCancelled(i) ==
  /\ kpc[i] = "pop"
  /\ \E k \in DOMAIN irp_list : /\ irp_list[k] = i
                                /\ \A j \in 1..(k - 1) : irp_list[j] # i
                                /\ irp_list' = Unlink(irp_list, k)
  /\ CompleteIrp(i)
  /\ kpc' = [kpc EXCEPT ![i] = "none"]
  /\ UNCHANGED <<ctx, data_list, heap, cancel, armed, cancel_lock, dVars, sVars,
                 dangling, up>>

\* The search misses: Pop(irp) deletes the node it visited last, which stays
\* linked, and returns non-null; nullptr only if there was no node to visit.
AlwaysFound == TRUE
MissReturnsNode == irp_list # <<>>

PopMisses(i) ==
  /\ kpc[i] = "pop"
  /\ i \notin Range(irp_list)
  /\ dangling' = IF irp_list = <<>> THEN dangling
                 ELSE dangling \cup {irp_list[Len(irp_list)]}
  /\ IF MissReturnsNode THEN CompleteIrp(i) ELSE UNCHANGED <<live, doubled>>
  /\ kpc' = [kpc EXCEPT ![i] = "none"]
  /\ UNCHANGED <<ctx, lists, heap, cancel, armed, cancel_lock, dVars, sVars, up>>

CancelRoutineStep(i) == ReleaseCancelLock(i) \/ PopCancelled(i) \/ PopMisses(i)

\* A linked node that is deleted, or a request that is completed twice, is
\* undefined behaviour: the machine stops now or later, or it goes on.
Corrupted == dangling # {} \/ doubled # {}
Bugcheck ==
  /\ Corrupted
  /\ up' = FALSE
  /\ UNCHANGED <<ctx, lists, heap, irpVars, dVars, sVars, kpc, dangling>>

-----------------------------------------------------------------------------
Next ==
  /\ up
  /\ \/ Initialize \/ Finalize \/ Bugcheck
     \/ \E c \in Clients : DispatcherStep(c) \/ \E i \in Irps : Request(c, i)
     \/ \E s \in Senders : SendMessageStep(s) \/ \E m \in Msgs : RaiseEvent(s, m)
     \/ \E i \in Irps : CancelRoutineStep(i) \/ IoCancelIrp(i)

Spec == Init /\ [][Next]_vars

\* Threads that are inside the driver are scheduled; nothing obliges the
\* world to send requests, raise events or cancel.  The system's cancel spin
\* lock is a queued lock: who waits for it gets it (strong fairness).
Fairness ==
  /\ \A c \in Clients : WF_vars(up /\ DispatcherStep(c))
                        /\ SF_vars(up /\ (Pend(c) \/ PendCancelled(c)))
  /\ \A s \in Senders : WF_vars(up /\ SendMessageStep(s))
  /\ \A i \in Irps : WF_vars(up /\ CancelRoutineStep(i))

FairSpec == Spec /\ Fairness

-----------------------------------------------------------------------------
(* Properties *)

\* A client holds a request and a sender a message exactly while their steps
\* use one.
RegistersOK ==
  /\ \A c \in Clients : /\ (dirp[c] = None) <=> (dpc[c] \in {"idle", "requeue"})
                        /\ (dmsg[c] = None) <=> (dpc[c] \notin {"reply", "requeue"})
  /\ \A s \in Senders : /\ (smsg[s] = None) <=> (spc[s] = "idle")
                        /\ (sirp[s] = None) <=> (spc[s] \notin {"disarm", "deliver"})

\* Types, and the registers agree with the steps.
TypeOK ==
  /\ ctx \in BOOLEAN /\ up \in BOOLEAN
  /\ irp_list \in Seq(Irps) /\ data_list \in Seq(Msgs)
  /\ heap \subseteq Msgs /\ live \subseteq Irps /\ cancel \subseteq Irps
  /\ armed \subseteq Irps /\ dangling \subseteq Irps /\ doubled \subseteq Irps
  /\ cancel_lock \in Clients \cup Irps \cup {None}
  /\ dpc \in [Clients -> DispatchStep] /\ spc \in [Senders -> SendStep]
  /\ kpc \in [Irps -> CancelStep]
  /\ dirp \in [Clients -> Irps \cup {None}] /\ dmsg \in [Clients -> Msgs \cup {None}]
  /\ sirp \in [Senders -> Irps \cup {None}] /\ smsg \in [Senders -> Msgs \cup {None}]
  /\ RegistersOK

\* Who holds x: a node of list, or the register of a client or of a sender.
\* A request's holder can complete it, a message's holder can free it.
Holders(x, list, creg, sreg) ==
  {<<"client", c>> : c \in {y \in Clients : creg[y] = x}}
    \cup {<<"node", k>> : k \in {y \in DOMAIN list : list[y] = x}}
    \cup {<<"sender", s>> : s \in {y \in Senders : sreg[y] = x}}
RequestHolders(i) == Holders(i, irp_list, dirp, sirp)
MessageHolders(m) == Holders(m, data_list, dmsg, smsg)

\* Until a cancel routine's search misses in a non-empty irp_list, no request
\* is completed twice, however SendMessage, Dispatcher and cancellation meet.
CompletedOnce == dangling = {} => doubled = {}

\* Where no request is cancelled, neither can happen at all.
UncancelledIntact == Cancellable = {} => ~Corrupted

\* Until a search misses, every request that is not completed is held by exactly one
\* thread or node, and a completed one by none: none is lost or shared.
RequestHeldOnce ==
  dangling = {} =>
    \A i \in Irps :
      IF i \in live THEN \E h \in RequestHolders(i) : RequestHolders(i) = {h}
                    ELSE RequestHolders(i) = {}

\* Every message buffer that is allocated is held by exactly one thread or
\* node, and a deleted one by none: no leak, no double free, no use after free.
MessageHeldOnce ==
  \A m \in Msgs :
    IF m \in heap THEN \E h \in MessageHolders(m) : MessageHolders(m) = {h}
                  ELSE MessageHolders(m) = {}

\* A completed request never has a cancel routine left: the I/O manager would
\* call into the driver with a request that is gone.
CompletedDisarmed == dangling = {} => armed \subseteq live

\* A parked request can be cancelled, or its cancel routine is on its way.
ParkedCancellable ==
  dangling = {} => \A i \in Range(irp_list) : i \in armed \/ kpc[i] # "none"

\* A request has a cancel routine while it can be cancelled, and only then.
CancelRoutinesSet == CompletedDisarmed /\ ParkedCancellable

\* Every step is one of the few that module Rendezvous allows: a request ends in
\* one step alone or together with the message that was copied into it, which
\* had room there; a message ends only so, or when it is given up on its own.
Meeting == INSTANCE Rendezvous WITH
       pending <- live, messages <- heap, broken <- Corrupted
ImplementsRendezvous == Meeting!Spec

\* kMaxDataListSize is a soft limit, but data_list exceeds it by less than
\* the number of threads that call in.
DataListBound ==
  Len(data_list) < kMaxDataListSize + Cardinality(Senders) + Cardinality(Clients)

\* A call of Dispatcher and a call of SendMessage return.
CallsReturn ==
  /\ \A c \in Clients : dpc[c] # "idle" ~> dpc[c] = "idle" \/ Corrupted
  /\ \A s \in Senders : spc[s] # "idle" ~> spc[s] = "idle" \/ Corrupted

\* A cancelled request is completed.
CancelCompletes ==
  \A i \in Irps : i \in live \cap cancel ~> i \notin live \/ Corrupted

\* If requests keep finding messages, no message stays in data_list for ever.
NoMessageStarves ==
  []<><<\E c \in Clients : FetchData(c)>>_vars
    => \A m \in Msgs : []<>(m \notin Range(data_list))
=============================================================================
