---------------------------- MODULE IoctlProofs ----------------------------
(***************************************************************************)
(* Theorems about Ioctl, for all clients, senders, requests and messages,  *)
(* any limit of data_list and any set of requests that may be cancelled.   *)
(***************************************************************************)
EXTENDS Ioctl, TLAPS, FiniteSetTheorems, SequenceTheorems

-----------------------------------------------------------------------------
(* Sequences *)

\* Unlinking the k-th node of a list keeps the others in their order.
LEMMA UnlinkProperties ==
  ASSUME NEW S, NEW s \in Seq(S), NEW k \in 1..Len(s)
  PROVE  /\ Unlink(s, k) \in Seq(S)
         /\ Len(Unlink(s, k)) = Len(s) - 1
         /\ \A j \in 1..(Len(s) - 1) :
              Unlink(s, k)[j] = IF j < k THEN s[j] ELSE s[j + 1]
<1> DEFINE u == Unlink(s, k)
<1>1. Len(s) \in Nat /\ Len(s) - 1 \in Nat /\ \A j \in 1..Len(s) : s[j] \in S
  BY LenProperties
<1>2. u \in [1..(Len(s) - 1) -> S]
  BY <1>1 DEF Unlink
<1>3. u \in Seq(S)
  BY <1>1, <1>2, SeqDef
<1>4. Len(u) = Len(s) - 1
  BY <1>1, <1>2, <1>3, LenProperties
<1> QED
  BY <1>1, <1>3, <1>4 DEF Unlink

\* A list of elements of S holds only elements of S.
LEMMA RangeSeq ==
  ASSUME NEW S, NEW s \in Seq(S)
  PROVE  Range(s) \subseteq S
BY LenProperties DEF Range

\* A new node adds its element, and keeps a list without duplicates so.
LEMMA RangeAppend ==
  ASSUME NEW S, NEW s \in Seq(S), NEW e \in S
  PROVE  /\ Range(Append(s, e)) = Range(s) \cup {e}
         /\ IsInjective(s) /\ e \notin Range(s) => IsInjective(Append(s, e))
<1> DEFINE t == Append(s, e)
<1>1. /\ t \in Seq(S) /\ Len(t) = Len(s) + 1 /\ Len(s) \in Nat
      /\ DOMAIN t = 1..(Len(s) + 1) /\ DOMAIN s = 1..Len(s)
  BY AppendProperties, LenProperties
<1>2. \A j \in 1..Len(s) : t[j] = s[j]
  BY AppendProperties
<1>3. t[Len(s) + 1] = e
  BY AppendProperties
<1>4. Range(t) = Range(s) \cup {e}
  <2> HIDE DEF t
  <2>1. \A j \in DOMAIN t : t[j] \in Range(s) \cup {e}
    <3> SUFFICES ASSUME NEW j \in DOMAIN t PROVE t[j] \in Range(s) \cup {e}
      OBVIOUS
    <3>1. CASE j = Len(s) + 1
      BY <3>1, <1>3
    <3>2. CASE j # Len(s) + 1
      <4>1. j \in 1..Len(s)
        BY <3>2, <1>1
      <4> QED
        BY <4>1, <1>1, <1>2 DEF Range
    <3> QED
      BY <3>1, <3>2
  <2>2. \A j \in DOMAIN s : s[j] \in Range(t)
    BY <1>1, <1>2 DEF Range
  <2>3. e \in Range(t)
    BY <1>1, <1>3 DEF Range
  <2> QED
    BY <2>1, <2>2, <2>3 DEF Range
<1>5. ASSUME IsInjective(s), e \notin Range(s) PROVE IsInjective(t)
  <2> HIDE DEF t
  <2> SUFFICES ASSUME NEW i \in DOMAIN t, NEW j \in DOMAIN t, t[i] = t[j]
               PROVE  i = j
    BY DEF IsInjective
  <2>1. CASE i \in 1..Len(s) /\ j \in 1..Len(s)
    BY <2>1, <1>1, <1>2, <1>5 DEF IsInjective
  <2>2. CASE i = Len(s) + 1 \/ j = Len(s) + 1
    <3>1. \A k \in 1..Len(s) : t[k] # e
      BY <1>1, <1>2, <1>5 DEF Range
    <3> QED
      BY <2>2, <3>1, <1>1, <1>3
  <2> QED
    BY <2>1, <2>2, <1>1
<1> QED
  BY <1>4, <1>5

\* Unlinking a node of a list without duplicates removes just its element.
LEMMA RangeUnlink ==
  ASSUME NEW S, NEW s \in Seq(S), IsInjective(s), NEW k \in 1..Len(s)
  PROVE  /\ Range(Unlink(s, k)) = Range(s) \ {s[k]}
         /\ IsInjective(Unlink(s, k))
<1> DEFINE t == Unlink(s, k)
<1>1. /\ t \in Seq(S) /\ Len(s) \in Nat /\ Len(s) - 1 \in Nat
      /\ DOMAIN t = 1..(Len(s) - 1) /\ DOMAIN s = 1..Len(s)
  BY UnlinkProperties, LenProperties
<1>2. \A j \in 1..(Len(s) - 1) : t[j] = IF j < k THEN s[j] ELSE s[j + 1]
  BY UnlinkProperties
<1> HIDE DEF t
\* The node of s that the j-th node of t was.
<1> DEFINE old(j) == IF j < k THEN j ELSE j + 1
<1>3. \A j \in DOMAIN t : old(j) \in DOMAIN s /\ old(j) # k /\ t[j] = s[old(j)]
  BY <1>1, <1>2
<1>4. \A i, j \in DOMAIN t : old(i) = old(j) => i = j
  BY <1>1
<1> HIDE DEF old
<1>5. \A j \in DOMAIN t : t[j] \in Range(s) \ {s[k]}
  BY <1>1, <1>3 DEF Range, IsInjective
<1>6. \A j \in DOMAIN s : j # k => s[j] \in Range(t)
  <2> SUFFICES ASSUME NEW j \in DOMAIN s, j # k PROVE s[j] \in Range(t)
    OBVIOUS
  <2>1. CASE j < k
    BY <2>1, <1>1, <1>2 DEF Range
  <2>2. CASE j > k
    <3>1. j - 1 \in DOMAIN t /\ t[j - 1] = s[j]
      BY <2>2, <1>1, <1>2
    <3> QED
      BY <3>1 DEF Range
  <2> QED
    BY <2>1, <2>2, <1>1
<1>7. Range(t) = Range(s) \ {s[k]}
  BY <1>5, <1>6 DEF Range
<1>8. IsInjective(t)
  BY <1>3, <1>4 DEF IsInjective
<1> QED
  BY <1>7, <1>8 DEF t

\* Popping the head is unlinking the first node.
LEMMA TailIsUnlink ==
  ASSUME NEW S, NEW s \in Seq(S), s # <<>>
  PROVE  /\ Len(s) >= 1 /\ Head(s) = s[1] /\ Head(s) \in S
         /\ Tail(s) = Unlink(s, 1)
<1>1. Len(s) \in Nat /\ Len(s) >= 1
  BY EmptySeq, LenProperties
<1>2. Tail(s) \in Seq(S) /\ Len(Tail(s)) = Len(s) - 1
      /\ \A i \in 1..(Len(s) - 1) : Tail(s)[i] = s[i + 1]
  BY HeadTailProperties
<1>3. Unlink(s, 1) \in Seq(S) /\ Len(Unlink(s, 1)) = Len(s) - 1
      /\ \A i \in 1..(Len(s) - 1) : Unlink(s, 1)[i] = s[i + 1]
  BY <1>1, UnlinkProperties
<1>4. Tail(s) = Unlink(s, 1)
  BY <1>2, <1>3, SeqEqual
<1> QED
  BY <1>1, <1>4, HeadTailProperties

-----------------------------------------------------------------------------
(* Type correctness *)

\* Nothing is there before ioctl::initialize.
LEMMA TypeInit == Init => TypeOK
<1> SUFFICES ASSUME Init PROVE TypeOK
  OBVIOUS
<1>1. ctx \in BOOLEAN /\ up \in BOOLEAN
  BY DEF Init
<1>2. irp_list \in Seq(Irps) /\ data_list \in Seq(Msgs)
  BY EmptySeq DEF Init
<1> QED
  BY <1>1, <1>2, IoctlAssumption
     DEF Init, TypeOK, RegistersOK, DispatchStep, SendStep, CancelStep

\* Each action keeps the types, and leaves registers that agree with the steps.
LEMMA TypeStep == TypeOK /\ [Next]_vars => TypeOK'
<1> SUFFICES ASSUME TypeOK, [Next]_vars PROVE TypeOK'
  OBVIOUS
<1> USE IoctlAssumption DEF TypeOK, RegistersOK, DispatchStep, SendStep, CancelStep,
        lists, irpVars, dVars, sVars
<1>1. CASE Initialize
  BY <1>1, EmptySeq DEF Initialize
<1>2. CASE Finalize
  BY <1>2, EmptySeq, RangeSeq DEF Finalize, CompleteAll
<1>3. CASE Bugcheck
  BY <1>3 DEF Bugcheck
<1>4. ASSUME NEW c \in Clients, NEW i \in Irps, Request(c, i) PROVE TypeOK'
  BY <1>4 DEF Request
<1>5. ASSUME NEW c \in Clients, RejectNotReady(c) PROVE TypeOK'
  BY <1>5 DEF RejectNotReady, CompleteIrp, CompleteAll, Return
<1>6. ASSUME NEW c \in Clients, FetchData(c) PROVE TypeOK'
  BY <1>6, HeadTailProperties DEF FetchData
<1>7. ASSUME NEW c \in Clients, FetchNothing(c) PROVE TypeOK'
  BY <1>7 DEF FetchNothing
<1>8. ASSUME NEW c \in Clients, Reply(c) PROVE TypeOK'
  BY <1>8 DEF Reply, CompleteIrp, CompleteAll, HeapAfterReply
<1>9. ASSUME NEW c \in Clients, Requeue(c) PROVE TypeOK'
  <2>1. dmsg[c] \in Msgs
    BY <1>9 DEF Requeue
  <2>2. data_list' \in Seq(Msgs)
    <3>1. Append(data_list, dmsg[c]) \in Seq(Msgs)
      BY <2>1, AppendProperties
    <3> QED
      BY <1>9, <3>1 DEF Requeue
  <2>3. heap' \subseteq Msgs
    BY <1>9 DEF Requeue
  <2>4. RegistersOK'
    BY <1>9 DEF Requeue
  <2> HIDE DEF RegistersOK
  <2> QED
    BY <1>9, <2>2, <2>3, <2>4 DEF Requeue
<1>10. ASSUME NEW c \in Clients, PendCancelled(c) PROVE TypeOK'
  BY <1>10 DEF PendCancelled, CompleteIrp, CompleteAll, Return
<1>11. ASSUME NEW c \in Clients, Pend(c) PROVE TypeOK'
  BY <1>11 DEF Pend, AcquireCancelLock
<1>12. ASSUME NEW c \in Clients, PushIrp(c) PROVE TypeOK'
  BY <1>12, AppendProperties DEF PushIrp, Return
<1>13. ASSUME NEW c \in Clients, PushIrpFails(c) PROVE TypeOK'
  BY <1>13 DEF PushIrpFails, CompleteIrp, CompleteAll, Return, DisarmFailedPush
<1>14. ASSUME NEW s \in Senders, NEW m \in Msgs, RaiseEvent(s, m) PROVE TypeOK'
  BY <1>14 DEF RaiseEvent
<1>15. ASSUME NEW s \in Senders, PopIrp(s) PROVE TypeOK'
  <2>1. CASE irp_list = <<>>
    BY <1>15, <2>1 DEF PopIrp
  <2>2. CASE irp_list # <<>>
    <3>1. Head(irp_list) \in Irps /\ Tail(irp_list) \in Seq(Irps)
      BY <2>2, HeadTailProperties
    <3>2. RegistersOK'
      BY <1>15, <2>2, <3>1 DEF PopIrp
    <3>3. irp_list' \in Seq(Irps)
      BY <1>15, <2>2, <3>1 DEF PopIrp
    <3>4. sirp' \in [Senders -> Irps \cup {None}]
      BY <1>15, <2>2, <3>1 DEF PopIrp
    <3> HIDE DEF RegistersOK
    <3> QED
      BY <1>15, <2>2, <3>2, <3>3, <3>4 DEF PopIrp
  <2> QED
    BY <2>1, <2>2
<1>16. ASSUME NEW s \in Senders, Disarm(s) PROVE TypeOK'
  BY <1>16 DEF Disarm
<1>17. ASSUME NEW s \in Senders, DisarmTooLate(s) PROVE TypeOK'
  BY <1>17 DEF DisarmTooLate, CompleteIrp, CompleteAll
<1>18. ASSUME NEW s \in Senders, Deliver(s) PROVE TypeOK'
  <2>1. CASE TooSmall(smsg[s])
    BY <1>18, <2>1 DEF Deliver, CompleteIrp, CompleteAll, HeapAfterReply
  <2>2. CASE ~TooSmall(smsg[s])
    <3>1. RegistersOK'
      BY <1>18, <2>2 DEF Deliver, Done
    <3>2. smsg' \in [Senders -> Msgs \cup {None}]
      BY <1>18, <2>2 DEF Deliver, Done
    <3>3. sirp' \in [Senders -> Irps \cup {None}]
      BY <1>18, <2>2 DEF Deliver, Done
    <3>4. spc' \in [Senders -> SendStep]
      BY <1>18, <2>2 DEF Deliver, Done
    <3>5. heap' \subseteq Msgs /\ live' \subseteq Irps /\ doubled' \subseteq Irps
      BY <1>18, <2>2 DEF Deliver, CompleteIrp, CompleteAll, HeapAfterReply
    <3> HIDE DEF RegistersOK
    <3> QED
      BY <1>18, <3>1, <3>2, <3>3, <3>4, <3>5 DEF Deliver
  <2> QED
    BY <2>1, <2>2
<1>19. ASSUME NEW s \in Senders, CheckSize(s) PROVE TypeOK'
  BY <1>19 DEF CheckSize
<1>20. ASSUME NEW s \in Senders, Evict(s) PROVE TypeOK'
  <2>1. data_list' \in Seq(Msgs)
    <3>1. data_list # <<>> => Tail(data_list) \in Seq(Msgs)
      BY HeadTailProperties
    <3> QED
      BY <1>20, <3>1 DEF Evict
  <2>2. heap' \subseteq Msgs
    BY <1>20 DEF Evict
  <2>3. RegistersOK'
    BY <1>20 DEF Evict
  <2> HIDE DEF RegistersOK
  <2> QED
    BY <1>20, <2>1, <2>2, <2>3 DEF Evict
<1>21. ASSUME NEW s \in Senders, PushData(s) PROVE TypeOK'
  <2>1. smsg[s] \in Msgs
    BY <1>21 DEF PushData
  <2>2. data_list' \in Seq(Msgs)
    <3>1. Append(data_list, smsg[s]) \in Seq(Msgs)
      BY <2>1, AppendProperties
    <3> QED
      BY <1>21, <3>1 DEF PushData
  <2>3. heap' \subseteq Msgs
    BY <1>21 DEF PushData
  <2>4. RegistersOK'
    BY <1>21 DEF PushData, Done
  <2> HIDE DEF RegistersOK
  <2> QED
    BY <1>21, <2>2, <2>3, <2>4 DEF PushData, Done
<1>22. ASSUME NEW i \in Irps, IoCancelIrp(i) PROVE TypeOK'
  BY <1>22 DEF IoCancelIrp
<1>23. ASSUME NEW i \in Irps, ReleaseCancelLock(i) PROVE TypeOK'
  BY <1>23 DEF ReleaseCancelLock
<1>24. ASSUME NEW i \in Irps, PopCancelled(i) PROVE TypeOK'
  BY <1>24, LenProperties, UnlinkProperties
     DEF PopCancelled, CompleteIrp, CompleteAll
<1>25. ASSUME NEW i \in Irps, PopMisses(i) PROVE TypeOK'
  BY <1>25, LenProperties, EmptySeq DEF PopMisses, CompleteIrp, CompleteAll
<1>26. CASE UNCHANGED vars
  BY <1>26 DEF vars
<1> QED
  BY <1>1, <1>2, <1>3, <1>4, <1>5, <1>6, <1>7, <1>8, <1>9, <1>10, <1>11,
     <1>12, <1>13, <1>14, <1>15, <1>16, <1>17, <1>18, <1>19, <1>20, <1>21,
     <1>22, <1>23, <1>24, <1>25, <1>26
     DEF Next, DispatcherStep, SendMessageStep, CancelRoutineStep

\* Init and every action keep every variable in its type, and every thread's
\* registers in agreement with its step.
THEOREM TypeCorrect == Spec => []TypeOK
  BY TypeInit, TypeStep, PTL DEF Spec

-----------------------------------------------------------------------------
(* Ownership *)

\* Each of the things in own is held once: by one node of list, by the
\* register of one thread of A or by that of one thread of B.
HeldOnce(own, list, A, ra, B, rb) ==
  /\ IsInjective(list) /\ Range(list) \subseteq own
  /\ \A a \in A : ra[a] # None => ra[a] \in own \ Range(list)
  /\ \A b \in B : rb[b] # None => rb[b] \in own \ Range(list)
  /\ \A a1, a2 \in A : ra[a1] # None /\ ra[a1] = ra[a2] => a1 = a2
  /\ \A b1, b2 \in B : rb[b1] # None /\ rb[b1] = rb[b2] => b1 = b2
  /\ \A a \in A, b \in B : ra[a] # None => ra[a] # rb[b]
  /\ \A x \in own : \/ x \in Range(list)
                    \/ \E a \in A : ra[a] = x
                    \/ \E b \in B : rb[b] = x

\* A thread takes charge of a new thing.
LEMMA Acquire ==
  ASSUME NEW S, NEW own, NEW list, NEW A, NEW B,
         NEW ra \in [A -> S \cup {None}], NEW rb \in [B -> S \cup {None}],
         HeldOnce(own, list, A, ra, B, rb),
         NEW a \in A, ra[a] = None, NEW x \in S, x # None, x \notin own,
         None \notin own
  PROVE  HeldOnce(own \cup {x}, list, A, [ra EXCEPT ![a] = x], B, rb)
<1> DEFINE new == [ra EXCEPT ![a] = x]
<1>1. new[a] = x /\ \A y \in A \ {a} : new[y] = ra[y]
  OBVIOUS
<1>2. /\ IsInjective(list) /\ Range(list) \subseteq own \cup {x}
      /\ x \notin Range(list)
  BY DEF HeldOnce
<1> HIDE DEF new
<1>3. /\ \A y \in A : new[y] # None => new[y] \in (own \cup {x}) \ Range(list)
      /\ \A b \in B : rb[b] # None => rb[b] \in (own \cup {x}) \ Range(list)
  BY <1>1, <1>2 DEF HeldOnce
<1>4. /\ \A y \in A \ {a} : ra[y] # x
      /\ \A b \in B : rb[b] # x
  BY DEF HeldOnce
<1>5. /\ \A y, z \in A : new[y] # None /\ new[y] = new[z] => y = z
      /\ \A b1, b2 \in B : rb[b1] # None /\ rb[b1] = rb[b2] => b1 = b2
      /\ \A y \in A, b \in B : new[y] # None => new[y] # rb[b]
  BY <1>1, <1>4 DEF HeldOnce
<1>6. \A y \in own \cup {x} : \/ y \in Range(list)
                              \/ \E z \in A : new[z] = y
                              \/ \E b \in B : rb[b] = y
  BY <1>1 DEF HeldOnce
<1> QED
  BY <1>2, <1>3, <1>5, <1>6 DEF HeldOnce, new

\* A thread gives up the thing it holds, which is over.
LEMMA Release ==
  ASSUME NEW S, NEW own, NEW list, NEW A, NEW B,
         NEW ra \in [A -> S \cup {None}], NEW rb \in [B -> S \cup {None}],
         HeldOnce(own, list, A, ra, B, rb),
         NEW a \in A, ra[a] # None
  PROVE  HeldOnce(own \ {ra[a]}, list, A, [ra EXCEPT ![a] = None], B, rb)
BY DEF HeldOnce

\* A thread puts the thing it holds at the end of the list.
LEMMA Enqueue ==
  ASSUME NEW S, NEW own, NEW list \in Seq(S), NEW A, NEW B,
         NEW ra \in [A -> S \cup {None}], NEW rb \in [B -> S \cup {None}],
         HeldOnce(own, list, A, ra, B, rb),
         NEW a \in A, ra[a] # None
  PROVE  HeldOnce(own, Append(list, ra[a]), A, [ra EXCEPT ![a] = None], B, rb)
<1> DEFINE new == Append(list, ra[a])
<1>1. /\ Range(new) = Range(list) \cup {ra[a]}
      /\ IsInjective(new)
  BY RangeAppend DEF HeldOnce
<1> HIDE DEF new
<1>2. HeldOnce(own, new, A, [ra EXCEPT ![a] = None], B, rb)
  BY <1>1 DEF HeldOnce
<1> QED
  BY <1>2 DEF new

\* A thread takes the oldest thing off the list.
LEMMA Dequeue ==
  ASSUME NEW S, NEW own, NEW list \in Seq(S), list # <<>>, NEW A, NEW B,
         NEW ra \in [A -> S \cup {None}], NEW rb \in [B -> S \cup {None}],
         HeldOnce(own, list, A, ra, B, rb), own \subseteq S, None \notin S,
         NEW a \in A, ra[a] = None
  PROVE  HeldOnce(own, Tail(list), A, [ra EXCEPT ![a] = Head(list)], B, rb)
<1> DEFINE new == Tail(list)
           h   == Head(list)
<1>1. /\ Range(new) = Range(list) \ {h} /\ IsInjective(new)
      /\ h \in Range(list)
  <2>1. IsInjective(list)
    BY DEF HeldOnce
  <2>2. Len(list) >= 1 /\ h = list[1] /\ new = Unlink(list, 1) /\ 1 \in 1..Len(list)
    BY TailIsUnlink, LenProperties
  <2> QED
    <3>1. /\ Range(Unlink(list, 1)) = Range(list) \ {list[1]}
          /\ IsInjective(Unlink(list, 1))
      BY <2>1, <2>2, RangeUnlink
    <3>2. list[1] \in Range(list)
      BY <2>2, LenProperties DEF Range
    <3> QED
      BY <2>2, <3>1, <3>2
<1> HIDE DEF new, h
<1>2. HeldOnce(own, new, A, [ra EXCEPT ![a] = h], B, rb)
  BY <1>1 DEF HeldOnce
<1> QED
  BY <1>2 DEF new, h

\* A node is unlinked and its thing is over.
LEMMA Discard ==
  ASSUME NEW S, NEW own, NEW list \in Seq(S), NEW A, NEW B,
         NEW ra \in [A -> S \cup {None}], NEW rb \in [B -> S \cup {None}],
         HeldOnce(own, list, A, ra, B, rb), NEW k \in 1..Len(list)
  PROVE  HeldOnce(own \ {list[k]}, Unlink(list, k), A, ra, B, rb)
<1>1. list[k] \in Range(list)
  BY LenProperties DEF Range
<1>2. /\ Range(Unlink(list, k)) = Range(list) \ {list[k]}
      /\ IsInjective(Unlink(list, k))
  BY RangeUnlink DEF HeldOnce
<1> QED
  BY <1>1, <1>2 DEF HeldOnce

\* The two groups of threads play the same part.
LEMMA Swap ==
  ASSUME NEW own, NEW list, NEW A, NEW B, NEW ra, NEW rb,
         HeldOnce(own, list, A, ra, B, rb)
  PROVE  HeldOnce(own, list, B, rb, A, ra)
BY DEF HeldOnce

-----------------------------------------------------------------------------
(* The life of ioctl_ctx_ *)

\* Without a context there are no lists, and no call is past its test of
\* ioctl_ctx_.
NoContext ==
  ~ctx => /\ irp_list = <<>> /\ data_list = <<>>
          /\ \A c \in Clients : dpc[c] \in {"idle", "fetch"}
          /\ \A s \in Senders : spc[s] = "idle"

\* ioctl_ctx_ goes only when nobody uses it: Finalize waits for all calls.
LEMMA NoContextStep == TypeOK /\ NoContext /\ [Next]_vars => NoContext'
<1> SUFFICES ASSUME TypeOK, NoContext, [Next]_vars PROVE NoContext'
  OBVIOUS
<1> USE DEF NoContext, TypeOK, lists, irpVars, dVars, sVars
<1>1. CASE Initialize \/ Finalize \/ Bugcheck \/ UNCHANGED vars
  BY <1>1 DEF Initialize, Finalize, Bugcheck, vars
<1>2. ASSUME NEW c \in Clients, NEW i \in Irps, Request(c, i) PROVE NoContext'
  BY <1>2 DEF Request
<1>3. ASSUME NEW c \in Clients, DispatcherStep(c) PROVE NoContext'
  <2>1. CASE RejectNotReady(c)
    BY <2>1 DEF RejectNotReady, Return
  <2>2. CASE FetchData(c) \/ FetchNothing(c)
    BY <2>2 DEF FetchData, FetchNothing
  <2>3. CASE Reply(c) \/ Requeue(c)
    BY <2>3 DEF Reply, Requeue
  <2>4. CASE PendCancelled(c) \/ Pend(c) \/ PushIrp(c) \/ PushIrpFails(c)
    BY <2>4 DEF PendCancelled, Pend, PushIrp, PushIrpFails
  <2> QED
    BY <1>3, <2>1, <2>2, <2>3, <2>4 DEF DispatcherStep
<1>4. ASSUME NEW s \in Senders, NEW m \in Msgs, RaiseEvent(s, m) PROVE NoContext'
  BY <1>4 DEF RaiseEvent
<1>5. ASSUME NEW s \in Senders, SendMessageStep(s) PROVE NoContext'
  BY <1>5 DEF SendMessageStep, PopIrp, Disarm, DisarmTooLate, Deliver, CheckSize,
              Evict, PushData
<1>6. ASSUME NEW i \in Irps, CancelRoutineStep(i) \/ IoCancelIrp(i) PROVE NoContext'
  <2>1. CASE PopCancelled(i)
    BY <2>1, EmptySeq, LenProperties DEF PopCancelled
  <2>2. CASE ReleaseCancelLock(i) \/ PopMisses(i) \/ IoCancelIrp(i)
    BY <2>2 DEF ReleaseCancelLock, PopMisses, IoCancelIrp
  <2> QED
    BY <1>6, <2>1, <2>2 DEF CancelRoutineStep
<1> QED
  BY <1>1, <1>2, <1>3, <1>4, <1>5, <1>6 DEF Next

LEMMA NoContextInvariant == Spec => []NoContext
<1>1. Init => NoContext
  BY DEF Init, NoContext
<1> QED
  BY <1>1, NoContextStep, TypeCorrect, PTL DEF Spec

-----------------------------------------------------------------------------
(* Messages *)

\* MessageHeldOnce for the whole set of buffers.
MessageInv == HeldOnce(heap, data_list, Clients, dmsg, Senders, smsg)

\* Every action hands a message from one holder to one other, or ends it.
LEMMA MessageStep ==
  TypeOK /\ NoContext /\ MessageInv /\ [Next]_vars => MessageInv'
<1> SUFFICES ASSUME TypeOK, NoContext, MessageInv, [Next]_vars PROVE MessageInv'
  OBVIOUS
<1> DEFINE sameMessages == UNCHANGED <<heap, data_list, dmsg, smsg>>
<1> USE DEF lists, irpVars, dVars, sVars
<1>1. sameMessages => MessageInv'
  BY DEF MessageInv, HeldOnce
<1>2. CASE sameMessages
  BY <1>1, <1>2
<1>a. /\ heap \subseteq Msgs /\ data_list \in Seq(Msgs)
      /\ dmsg \in [Clients -> Msgs \cup {None}]
      /\ smsg \in [Senders -> Msgs \cup {None}]
      /\ None \notin Msgs /\ None \notin heap
  BY IoctlAssumption DEF TypeOK
<1>b. HeldOnce(heap, data_list, Senders, smsg, Clients, dmsg)
  BY Swap DEF MessageInv
<1>3. CASE Initialize
  BY <1>3, <1>1 DEF Initialize, NoContext
<1>4. CASE Finalize
  <2>1. /\ \A c \in Clients : dmsg[c] = None
        /\ \A s \in Senders : smsg[s] = None
    BY <1>4 DEF Finalize, TypeOK, RegistersOK
  <2>2. heap' = {} /\ data_list' = <<>> /\ dmsg' = dmsg /\ smsg' = smsg
    BY <1>4, <1>a, <2>1 DEF Finalize, MessageInv, HeldOnce
  <2>3. Range(<<>>) = {} /\ IsInjective(<<>>)
    BY DEF Range, IsInjective
  <2> QED
    BY <2>1, <2>2, <2>3 DEF MessageInv, HeldOnce
<1>5. ASSUME NEW c \in Clients, DispatcherStep(c) PROVE MessageInv'
  <2>1. CASE FetchData(c)
    <3>1. dmsg[c] = None /\ data_list # <<>>
      BY <2>1 DEF FetchData, TypeOK, RegistersOK
    <3>2. HeldOnce(heap, Tail(data_list), Clients,
                   [dmsg EXCEPT ![c] = Head(data_list)], Senders, smsg)
      BY <1>a, <3>1, Dequeue DEF MessageInv
    <3> QED
      BY <2>1, <3>2 DEF FetchData, MessageInv
  <2>2. CASE Reply(c)
    <3>1. CASE TooSmall(dmsg[c])
      BY <1>1, <2>2, <3>1 DEF Reply, HeapAfterReply
    <3>2. CASE ~TooSmall(dmsg[c])
      <4>1. dmsg[c] # None
        BY <2>2 DEF Reply, TypeOK, RegistersOK
      <4>2. HeldOnce(heap \ {dmsg[c]}, data_list, Clients,
                     [dmsg EXCEPT ![c] = None], Senders, smsg)
        BY <1>a, <4>1, Release DEF MessageInv
      <4> QED
        BY <2>2, <3>2, <4>2 DEF Reply, HeapAfterReply, MessageInv
    <3> QED
      BY <3>1, <3>2
  <2>3. CASE Requeue(c)
    <3>1. dmsg[c] # None
      BY <2>3 DEF Requeue, TypeOK, RegistersOK
    <3>2. HeldOnce(heap, Append(data_list, dmsg[c]), Clients,
                   [dmsg EXCEPT ![c] = None], Senders, smsg)
      BY <1>a, <3>1, Enqueue DEF MessageInv
    <3>3. HeldOnce(heap \ {dmsg[c]}, data_list, Clients,
                   [dmsg EXCEPT ![c] = None], Senders, smsg)
      BY <1>a, <3>1, Release DEF MessageInv
    <3> QED
      BY <2>3, <3>2, <3>3 DEF Requeue, MessageInv
  <2>4. CASE RejectNotReady(c) \/ FetchNothing(c) \/ PendCancelled(c)
             \/ Pend(c) \/ PushIrp(c) \/ PushIrpFails(c)
    BY <2>4, <1>1 DEF RejectNotReady, FetchNothing, PendCancelled, Pend,
                      PushIrp, PushIrpFails
  <2> QED
    BY <1>5, <2>1, <2>2, <2>3, <2>4 DEF DispatcherStep
<1>6. ASSUME NEW s \in Senders, NEW m \in Msgs, RaiseEvent(s, m) PROVE MessageInv'
  <2>1. CASE ctx
    <3>1. smsg[s] = None /\ m \notin heap /\ m # None
      BY <1>6, <1>a DEF RaiseEvent, TypeOK, RegistersOK
    <3>2. HeldOnce(heap \cup {m}, data_list, Senders,
                   [smsg EXCEPT ![s] = m], Clients, dmsg)
      BY <1>a, <1>b, <3>1, Acquire
    <3> QED
      BY <1>6, <2>1, <3>2, Swap DEF RaiseEvent, MessageInv
  <2>2. CASE ~ctx
    BY <1>6, <2>2, <1>1 DEF RaiseEvent
  <2> QED
    BY <2>1, <2>2
<1>7. ASSUME NEW s \in Senders, SendMessageStep(s) PROVE MessageInv'
  <2>1. smsg[s] # None /\ smsg[s] \in Msgs
    BY <1>7, <1>a DEF SendMessageStep, PopIrp, Disarm, DisarmTooLate, Deliver,
                      CheckSize, Evict, PushData, TypeOK, RegistersOK
  <2>2. HeldOnce(heap \ {smsg[s]}, data_list, Senders,
                 [smsg EXCEPT ![s] = None], Clients, dmsg)
    BY <1>a, <1>b, <2>1, Release
  <2>3. CASE Deliver(s)
    <3>1. CASE TooSmall(smsg[s])
      BY <1>1, <2>3, <3>1 DEF Deliver, HeapAfterReply
    <3>2. CASE ~TooSmall(smsg[s])
      BY <2>2, <2>3, <3>2, Swap DEF Deliver, HeapAfterReply, Done, MessageInv
    <3> QED
      BY <3>1, <3>2
  <2>4. CASE Evict(s)
    <3>1. CASE data_list = <<>>
      BY <1>1, <2>4, <3>1 DEF Evict
    <3>2. CASE data_list # <<>>
      <4>1. Head(data_list) = data_list[1] /\ Tail(data_list) = Unlink(data_list, 1)
            /\ 1 \in 1..Len(data_list)
        BY <1>a, <3>2, TailIsUnlink, LenProperties
      <4>2. HeldOnce(heap \ {data_list[1]}, Unlink(data_list, 1),
                     Clients, dmsg, Senders, smsg)
        BY <1>a, <4>1, Discard DEF MessageInv
      <4> QED
        BY <2>4, <3>2, <4>1, <4>2 DEF Evict, MessageInv
    <3> QED
      BY <3>1, <3>2
  <2>5. CASE PushData(s)
    <3>1. HeldOnce(heap, Append(data_list, smsg[s]), Senders,
                   [smsg EXCEPT ![s] = None], Clients, dmsg)
      BY <1>a, <1>b, <2>1, Enqueue
    <3> QED
      BY <2>2, <2>5, <3>1, Swap DEF PushData, Done, MessageInv
  <2>6. CASE PopIrp(s) \/ Disarm(s) \/ DisarmTooLate(s) \/ CheckSize(s)
    BY <2>6, <1>1 DEF PopIrp, Disarm, DisarmTooLate, CheckSize
  <2> QED
    BY <1>7, <2>3, <2>4, <2>5, <2>6 DEF SendMessageStep
<1>8. CASE \/ Bugcheck \/ UNCHANGED vars
           \/ \E c \in Clients, i \in Irps : Request(c, i)
           \/ \E i \in Irps : CancelRoutineStep(i) \/ IoCancelIrp(i)
  BY <1>8, <1>1 DEF Bugcheck, vars, Request, CancelRoutineStep, ReleaseCancelLock,
                    PopCancelled, PopMisses, IoCancelIrp
<1> QED
  BY <1>3, <1>4, <1>5, <1>6, <1>7, <1>8 DEF Next

\* What HeldOnce says of one thing.
LEMMA OneHolder ==
  ASSUME NEW S, None \notin S, NEW own \in SUBSET S, NEW list \in Seq(S),
         NEW ra, NEW rb, HeldOnce(own, list, Clients, ra, Senders, rb),
         NEW x \in S
  PROVE  IF x \in own
         THEN \E h \in Holders(x, list, ra, rb) : Holders(x, list, ra, rb) = {h}
         ELSE Holders(x, list, ra, rb) = {}
<1> DEFINE H == Holders(x, list, ra, rb)
           A == Clients
           B == Senders
<1> USE DEF Holders
<1>1. CASE x \notin own
  BY <1>1 DEF HeldOnce, Range
<1>2. CASE x \in own
  <2> x # None
    OBVIOUS
  <2>1. CASE x \in Range(list)
    <3>1. PICK k \in DOMAIN list : list[k] = x
      BY <2>1 DEF Range
    <3>2. /\ \A j \in DOMAIN list : list[j] = x => j = k
          /\ \A a \in A : ra[a] # x
          /\ \A b \in B : rb[b] # x
      BY <2>1, <3>1 DEF HeldOnce, IsInjective
    <3>3. H = {<<"node", k>>}
      BY <3>1, <3>2
    <3> QED
      BY <1>2, <3>3
  <2>2. CASE \E a \in A : ra[a] = x
    <3>1. PICK a \in A : ra[a] = x
      BY <2>2
    <3>2. /\ \A j \in DOMAIN list : list[j] # x
          /\ \A y \in A : ra[y] = x => y = a
          /\ \A b \in B : rb[b] # x
      BY <3>1 DEF HeldOnce, Range
    <3>3. H = {<<"client", a>>}
      BY <3>1, <3>2
    <3> QED
      BY <1>2, <3>3
  <2>3. CASE \E b \in B : rb[b] = x
    <3>1. PICK b \in B : rb[b] = x
      BY <2>3
    <3>2. /\ \A j \in DOMAIN list : list[j] # x
          /\ \A y \in B : rb[y] = x => y = b
          /\ \A a \in A : ra[a] # x
      BY <3>1 DEF HeldOnce, Range
    <3>3. H = {<<"sender", b>>}
      BY <3>1, <3>2
    <3> QED
      BY <1>2, <3>3
  <2> QED
    BY <1>2, <2>1, <2>2, <2>3 DEF HeldOnce
<1> QED
  BY <1>1, <1>2

\* Nothing is in anybody's hands that has been freed, nor in two hands.
LEMMA MessageInvariant == Spec => []MessageInv
<1>1. Init => MessageInv
  BY DEF Init, MessageInv, HeldOnce, Range, IsInjective
<1> QED
  BY <1>1, MessageStep, TypeCorrect, NoContextInvariant, PTL DEF Spec

\* Every allocated message buffer is held by exactly one thread or node and a
\* deleted one by none, whatever is cancelled, refused or out of memory.
THEOREM MessagesHeldOnce == Spec => []MessageHeldOnce
<1>1. TypeOK /\ MessageInv => MessageHeldOnce
  <2> SUFFICES ASSUME TypeOK, MessageInv, NEW m \in Msgs
               PROVE  IF m \in heap
                      THEN \E h \in MessageHolders(m) : MessageHolders(m) = {h}
                      ELSE MessageHolders(m) = {}
    BY DEF MessageHeldOnce
  <2>1. heap \in SUBSET Msgs /\ data_list \in Seq(Msgs) /\ None \notin Msgs
    BY IoctlAssumption DEF TypeOK
  <2> QED
    BY <2>1, OneHolder DEF MessageInv, MessageHolders
<1> QED
  BY <1>1, MessageInvariant, TypeCorrect, PTL

-----------------------------------------------------------------------------
(* The size of data_list *)

\* The senders that have decided to push, and the clients that hold a popped
\* message they may push back.  Each may still add a message to data_list
\* without looking at its size again.
Pushing   == {s \in Senders : spc[s] = "push"}
Returning == {c \in Clients : dpc[c] \in {"reply", "requeue"}}

BoundInv ==
  Len(data_list) + Cardinality(Pushing) + Cardinality(Returning)
    < kMaxDataListSize + Cardinality(Senders) + Cardinality(Clients)

\* A set of threads that gains or loses one thread.
LEMMA OneMore ==
  ASSUME NEW A, IsFiniteSet(A), NEW P \in SUBSET A, NEW a \in A \ P
  PROVE  /\ Cardinality(P) \in Nat /\ Cardinality(A) \in Nat
         /\ Cardinality(P \cup {a}) = Cardinality(P) + 1
         /\ Cardinality(P \cup {a}) <= Cardinality(A)
BY FS_Subset, FS_AddElement, FS_CardinalityType

\* And a set that loses one.
LEMMA OneLess ==
  ASSUME NEW A, IsFiniteSet(A), NEW P \in SUBSET A, NEW a \in P
  PROVE  /\ Cardinality(P) \in Nat
         /\ Cardinality(P \ {a}) = Cardinality(P) - 1
BY FS_Subset, FS_RemoveElement, FS_CardinalityType

\* Every push onto data_list was counted before it happens.
LEMMA BoundStep == TypeOK /\ BoundInv /\ [Next]_vars => BoundInv'
<1> SUFFICES ASSUME TypeOK, BoundInv, [Next]_vars PROVE BoundInv'
  OBVIOUS
<1> DEFINE P  == Cardinality(Pushing)
           R  == Cardinality(Returning)
           nS == Cardinality(Senders)
           nC == Cardinality(Clients)
           L  == Len(data_list)
<1>1. /\ P \in Nat /\ R \in Nat /\ nS \in Nat /\ nC \in Nat /\ P <= nS /\ R <= nC
      /\ L \in Nat /\ kMaxDataListSize \in Nat \ {0}
  BY IoctlAssumption, FS_Subset, FS_CardinalityType, LenProperties
     DEF Pushing, Returning, TypeOK
<1>2. L + P + R < kMaxDataListSize + nS + nC
  BY DEF BoundInv
<1> USE DEF lists, irpVars, dVars, sVars
<1>4. ASSUME UNCHANGED <<data_list, spc, dpc>> PROVE BoundInv'
  BY <1>4 DEF BoundInv, Pushing, Returning
<1>5. ASSUME NEW c \in Clients, DispatcherStep(c) PROVE BoundInv'
  <2>1. CASE FetchData(c)
    <3>1. L' = L - 1 /\ L' \in Nat
      BY <2>1, HeadTailProperties, LenProperties, EmptySeq DEF FetchData, TypeOK
    <3>2. Pushing' = Pushing /\ Returning' = Returning \cup {c} /\ c \notin Returning
      BY <2>1 DEF FetchData, Pushing, Returning, TypeOK
    <3>3. R' = R + 1
      BY <3>2, OneMore, IoctlAssumption DEF Returning
    <3> QED
      BY <3>1, <3>2, <3>3, <1>1, <1>2 DEF BoundInv
  <2>2. CASE Reply(c)
    <3>1. CASE TooSmall(dmsg[c])
      <4>1. Pushing' = Pushing /\ Returning' = Returning /\ L' = L
        BY <2>2, <3>1 DEF Reply, Pushing, Returning, TypeOK
      <4> QED
        BY <4>1, <1>2 DEF BoundInv
    <3>2. CASE ~TooSmall(dmsg[c])
      <4>1. /\ Pushing' = Pushing /\ L' = L
            /\ Returning' = Returning \ {c} /\ c \in Returning
        BY <2>2, <3>2 DEF Reply, Pushing, Returning, TypeOK
      <4>2. R' = R - 1
        BY <4>1, OneLess, IoctlAssumption DEF Returning
      <4> QED
        BY <4>1, <4>2, <1>1, <1>2 DEF BoundInv
    <3> QED
      BY <3>1, <3>2
  <2>3. CASE Requeue(c)
    <3>1. dmsg[c] \in Msgs
      BY <2>3 DEF Requeue, TypeOK, RegistersOK
    <3>2. Append(data_list, dmsg[c]) \in Seq(Msgs)
          /\ Len(Append(data_list, dmsg[c])) = L + 1
      BY <3>1, AppendProperties DEF TypeOK
    <3>3. L' \in {L, L + 1}
      BY <2>3, <3>2 DEF Requeue
    <3>4. Pushing' = Pushing /\ Returning' = Returning \ {c} /\ c \in Returning
      BY <2>3 DEF Requeue, Pushing, Returning, TypeOK
    <3>5. R' = R - 1
      BY <3>4, OneLess, IoctlAssumption DEF Returning
    <3> QED
      BY <3>3, <3>4, <3>5, <1>1, <1>2 DEF BoundInv
  <2>4. CASE RejectNotReady(c) \/ FetchNothing(c) \/ PendCancelled(c)
             \/ Pend(c) \/ PushIrp(c) \/ PushIrpFails(c)
    <3>1. Pushing' = Pushing /\ Returning' = Returning /\ L' = L
      BY <2>4 DEF RejectNotReady, FetchNothing, PendCancelled, Pend, PushIrp,
                  PushIrpFails, Return, Pushing, Returning, TypeOK
    <3> QED
      BY <3>1, <1>2 DEF BoundInv
  <2> QED
    BY <1>5, <2>1, <2>2, <2>3, <2>4 DEF DispatcherStep
<1>6. ASSUME NEW s \in Senders, SendMessageStep(s) PROVE BoundInv'
  <2>1. CASE CheckSize(s)
    <3>1. CASE DataListFull
      <4>1. Pushing' = Pushing /\ Returning' = Returning /\ L' = L
        BY <2>1, <3>1 DEF CheckSize, Pushing, Returning, TypeOK
      <4> QED
        BY <4>1, <1>2 DEF BoundInv
    <3>2. CASE ~DataListFull
      <4>1. Returning' = Returning /\ L' = L /\ Pushing' \subseteq Senders
        BY <2>1 DEF CheckSize, Returning, Pushing
      <4>2. P' \in Nat /\ P' <= nS
        BY <4>1, IoctlAssumption, FS_Subset, FS_CardinalityType
      <4>3. L < kMaxDataListSize
        BY <3>2, <1>1 DEF DataListFull
      <4> QED
        BY <4>1, <4>2, <4>3, <1>1 DEF BoundInv
    <3> QED
      BY <3>1, <3>2
  <2>2. CASE Evict(s)
    <3>1. /\ Returning' = Returning
          /\ Pushing' = Pushing \cup {s} /\ s \notin Pushing
      BY <2>2 DEF Evict, Returning, Pushing, TypeOK
    <3>2. P' = P + 1 /\ P' <= nS
      BY <3>1, OneMore, IoctlAssumption DEF Pushing
    <3>3. CASE data_list = <<>>
      <4>1. L = 0 /\ L' = 0
        BY <2>2, <3>3 DEF Evict
      <4> QED
        BY <3>1, <3>2, <4>1, <1>1 DEF BoundInv
    <3>4. CASE data_list # <<>>
      <4>1. L' = L - 1
        BY <2>2, <3>4, HeadTailProperties DEF Evict, TypeOK
      <4> QED
        BY <3>1, <3>2, <4>1, <1>1, <1>2 DEF BoundInv
    <3> QED
      BY <3>3, <3>4
  <2>3. CASE PushData(s)
    <3>1. smsg[s] \in Msgs
      BY <2>3 DEF PushData, TypeOK, RegistersOK
    <3>2. Append(data_list, smsg[s]) \in Seq(Msgs)
          /\ Len(Append(data_list, smsg[s])) = L + 1
      BY <3>1, AppendProperties DEF TypeOK
    <3>3. L' \in {L, L + 1}
      BY <2>3, <3>2 DEF PushData
    <3>4. Returning' = Returning /\ Pushing' = Pushing \ {s} /\ s \in Pushing
      BY <2>3 DEF PushData, Done, Pushing, Returning, TypeOK
    <3>5. P' = P - 1
      BY <3>4, OneLess, IoctlAssumption DEF Pushing
    <3> QED
      BY <3>3, <3>4, <3>5, <1>1, <1>2 DEF BoundInv
  <2>4. CASE PopIrp(s) \/ Disarm(s) \/ DisarmTooLate(s) \/ Deliver(s)
    <3>1. Pushing' = Pushing /\ Returning' = Returning /\ L' = L
      BY <2>4 DEF PopIrp, Disarm, DisarmTooLate, Deliver, Done, Pushing, Returning,
                  TypeOK
    <3> QED
      BY <3>1, <1>2 DEF BoundInv
  <2> QED
    BY <1>6, <2>1, <2>2, <2>3, <2>4 DEF SendMessageStep
<1>7. ASSUME NEW c \in Clients, NEW i \in Irps, Request(c, i) PROVE BoundInv'
  <2>1. Pushing' = Pushing /\ Returning' = Returning /\ L' = L
    BY <1>7 DEF Request, Pushing, Returning, TypeOK
  <2> QED
    BY <2>1, <1>2 DEF BoundInv
<1>8. ASSUME NEW s \in Senders, NEW m \in Msgs, RaiseEvent(s, m) PROVE BoundInv'
  <2>1. Pushing' = Pushing /\ Returning' = Returning /\ L' = L
    BY <1>8 DEF RaiseEvent, Pushing, Returning, TypeOK
  <2> QED
    BY <2>1, <1>2 DEF BoundInv
<1>9. CASE Initialize \/ Finalize
  <2>1. Pushing' = Pushing /\ Returning' = Returning /\ L' = 0
    BY <1>9 DEF Initialize, Finalize, Pushing, Returning
  <2> QED
    BY <2>1, <1>1, <1>2 DEF BoundInv
<1>10. CASE \/ Bugcheck \/ UNCHANGED vars
            \/ \E i \in Irps : CancelRoutineStep(i) \/ IoCancelIrp(i)
  BY <1>10, <1>4 DEF Bugcheck, vars, CancelRoutineStep, ReleaseCancelLock,
                     PopCancelled, PopMisses, IoCancelIrp
<1> QED
  BY <1>5, <1>6, <1>7, <1>8, <1>9, <1>10 DEF Next

\* data_list exceeds kMaxDataListSize by less than the number of threads that
\* call in, however the unlocked Size() and the pushes interleave.
THEOREM DataListBounded == Spec => []DataListBound
<1>1. Init => BoundInv
  <2> SUFFICES ASSUME Init PROVE BoundInv
    OBVIOUS
  <2>1. Pushing = {} /\ Returning = {} /\ Len(data_list) = 0
    BY DEF Init, Pushing, Returning
  <2> QED
    BY <2>1, IoctlAssumption, FS_EmptySet, FS_CardinalityType DEF BoundInv
<1>2. TypeOK /\ BoundInv => DataListBound
  <2> SUFFICES ASSUME TypeOK, BoundInv PROVE DataListBound
    OBVIOUS
  <2>1. /\ Cardinality(Pushing) \in Nat /\ Cardinality(Returning) \in Nat
        /\ Cardinality(Senders) \in Nat /\ Cardinality(Clients) \in Nat
        /\ Len(data_list) \in Nat
    BY IoctlAssumption, FS_Subset, FS_CardinalityType, LenProperties
       DEF Pushing, Returning, TypeOK
  <2> QED
    BY <2>1, IoctlAssumption DEF BoundInv, DataListBound
<1> QED
  BY <1>1, <1>2, BoundStep, TypeCorrect, PTL DEF Spec

-----------------------------------------------------------------------------
(* Requests *)

\* Where a cancel routine can be: only on a request that waits in the list,
\* is about to be inserted or has just been popped.  It runs only for one that
\* has been parked, and a parked one has it or is being cancelled.
Arming ==
  /\ \A i \in armed : \/ i \in Range(irp_list)
                      \/ \E c \in Clients : dirp[c] = i /\ dpc[c] = "push"
                      \/ \E s \in Senders : sirp[s] = i /\ spc[s] = "disarm"
  /\ \A i \in armed : kpc[i] = "none"
  /\ \A c \in Clients : dirp[c] # None => kpc[dirp[c]] = "none"
  /\ \A i \in Range(irp_list) : i \in armed \/ kpc[i] # "none"
  /\ \A c \in Clients : dpc[c] = "push" => cancel_lock = c /\ dirp[c] \in armed
  /\ \A i \in Irps : kpc[i] = "release" => cancel_lock = i

Requests ==
  /\ doubled = {}
  /\ HeldOnce(live, irp_list, Clients, dirp, Senders, sirp)
  /\ Arming

RequestInv == dangling = {} => Requests

\* The same for requests, together with who may complete them.
LEMMA RequestStep ==
  TypeOK /\ NoContext /\ RequestInv /\ [Next]_vars => RequestInv'
<1> SUFFICES ASSUME TypeOK, NoContext, RequestInv, [Next]_vars, dangling' = {}
             PROVE  Requests'
  BY DEF RequestInv
<1> USE DEF lists, irpVars, dVars, sVars
<1>1. dangling = {}
  BY DEF vars, Next, Initialize, Finalize, Bugcheck, Request, DispatcherStep,
         RejectNotReady, FetchData, FetchNothing, Reply, Requeue, PendCancelled,
         Pend, PushIrp, PushIrpFails, RaiseEvent, SendMessageStep, PopIrp, Disarm,
         DisarmTooLate, Deliver, CheckSize, Evict, PushData, CancelRoutineStep,
         ReleaseCancelLock, PopCancelled, PopMisses, IoCancelIrp
<1>2. /\ doubled = {} /\ Arming
      /\ HeldOnce(live, irp_list, Clients, dirp, Senders, sirp)
  BY <1>1 DEF RequestInv, Requests
<1>3. HeldOnce(live, irp_list, Senders, sirp, Clients, dirp)
  BY <1>2, Swap
<1>4. /\ live \subseteq Irps /\ irp_list \in Seq(Irps)
      /\ dirp \in [Clients -> Irps \cup {None}]
      /\ sirp \in [Senders -> Irps \cup {None}]
      /\ None \notin Irps /\ None \notin live
  BY IoctlAssumption DEF TypeOK
\* The request a thread holds is not completed, and no other thread or node
\* has it.
<1>5. ASSUME NEW c \in Clients, dirp[c] # None
      PROVE  /\ dirp[c] \in live /\ dirp[c] \notin Range(irp_list)
             /\ \A d \in Clients : dirp[d] = dirp[c] => d = c
             /\ \A s \in Senders : sirp[s] # dirp[c]
  BY <1>2, <1>5 DEF HeldOnce
<1>6. ASSUME NEW s \in Senders, sirp[s] # None
      PROVE  /\ sirp[s] \in live /\ sirp[s] \notin Range(irp_list)
             /\ \A t \in Senders : sirp[t] = sirp[s] => t = s
             /\ \A c \in Clients : dirp[c] # sirp[s]
  BY <1>2, <1>6 DEF HeldOnce
<1>7. ASSUME UNCHANGED <<live, irp_list, dirp, sirp, doubled>>, Arming'
      PROVE  Requests'
  BY <1>2, <1>7 DEF Requests, HeldOnce
<1>8. ASSUME NEW c \in Clients, DispatcherStep(c) PROVE Requests'
  <2>1. CASE RejectNotReady(c) \/ PendCancelled(c) \/ Reply(c)
    <3>1. dirp[c] # None /\ dpc[c] # "push"
      BY <2>1 DEF RejectNotReady, PendCancelled, Reply, TypeOK, RegistersOK
    <3>2. /\ live' = live \ {dirp[c]} /\ doubled' = doubled \cup ({dirp[c]} \ live)
          /\ dirp' = [dirp EXCEPT ![c] = None]
          /\ UNCHANGED <<irp_list, sirp, spc, kpc, armed, cancel_lock>>
          /\ \A d \in Clients \ {c} : dpc'[d] = dpc[d] /\ dirp'[d] = dirp[d]
          /\ dpc'[c] # "push" /\ dirp'[c] = None
      BY <2>1 DEF RejectNotReady, PendCancelled, Reply, CompleteIrp, CompleteAll,
                  Return, TypeOK
    <3>3. HeldOnce(live \ {dirp[c]}, irp_list, Clients,
                   [dirp EXCEPT ![c] = None], Senders, sirp)
      BY <1>2, <1>4, <3>1, Release
    <3>4. doubled' = {}
      BY <1>2, <1>5, <3>1, <3>2
    <3>5. Arming'
      BY <1>2, <3>1, <3>2 DEF Arming
    <3> QED
      BY <3>2, <3>3, <3>4, <3>5 DEF Requests
  <2>2. CASE FetchData(c) \/ FetchNothing(c) \/ Requeue(c)
    <3>1. /\ UNCHANGED <<live, doubled, irp_list, dirp, sirp, spc, kpc, armed,
                        cancel_lock>>
          /\ \A d \in Clients \ {c} : dpc'[d] = dpc[d]
          /\ dpc[c] # "push" /\ dpc'[c] # "push"
      BY <2>2 DEF FetchData, FetchNothing, Requeue, TypeOK
    <3>2. Arming'
      BY <1>2, <3>1 DEF Arming
    <3> QED
      BY <1>7, <3>1, <3>2
  <2>3. CASE Pend(c)
    <3>1. dirp[c] # None /\ dirp[c] \in Irps /\ dpc[c] = "pend" /\ cancel_lock = None
      BY <2>3, <1>4 DEF Pend, AcquireCancelLock, TypeOK, RegistersOK
    <3>2. kpc[dirp[c]] = "none"
      BY <1>2, <3>1 DEF Arming
    <3>3. /\ UNCHANGED <<irp_list, dirp, sirp, spc, kpc>>
          /\ armed' = armed \cup {dirp[c]} /\ cancel_lock' = c
          /\ \A d \in Clients \ {c} : dpc'[d] = dpc[d]
          /\ dpc'[c] = "push"
      BY <2>3 DEF Pend, AcquireCancelLock, TypeOK
    <3>4. /\ \A d \in Clients : dpc[d] # "push"
          /\ \A i \in Irps : kpc[i] # "release"
      BY <1>2, <3>1, IoctlAssumption DEF Arming
    <3>5. Arming'
      BY <1>2, <3>1, <3>2, <3>3, <3>4 DEF Arming
    <3> QED
      BY <1>7, <2>3, <3>5 DEF Pend
  <2>4. CASE PushIrp(c)
    <3>1. dirp[c] # None /\ dpc[c] = "push" /\ dirp[c] \in Irps
      BY <2>4, <1>4 DEF PushIrp, TypeOK, RegistersOK
    <3>2. HeldOnce(live, Append(irp_list, dirp[c]), Clients,
                   [dirp EXCEPT ![c] = None], Senders, sirp)
      BY <1>2, <1>4, <3>1, Enqueue
    <3>3. Range(irp_list') = Range(irp_list) \cup {dirp[c]}
      BY <1>4, <2>4, <3>1, RangeAppend DEF PushIrp
    <3>4. dirp[c] \in armed /\ cancel_lock = c
      BY <1>2, <3>1 DEF Arming
    <3>5. \A d \in Clients : dpc[d] = "push" => d = c
      BY <1>2, <3>4 DEF Arming
    <3>6. /\ UNCHANGED <<sirp, spc, kpc, armed>>
          /\ \A d \in Clients \ {c} : dpc'[d] = dpc[d] /\ dirp'[d] = dirp[d]
          /\ dpc'[c] = "idle" /\ dirp'[c] = None
      BY <2>4 DEF PushIrp, Return, TypeOK
    <3>7. \A i \in Irps : kpc[i] # "release"
      BY <1>2, <3>4, IoctlAssumption DEF Arming
    <3>8. Arming'
      BY <1>2, <3>1, <3>3, <3>4, <3>5, <3>6, <3>7 DEF Arming
    <3> QED
      BY <1>2, <2>4, <3>2, <3>8 DEF PushIrp, Return, Requests
  <2>5. CASE PushIrpFails(c)
    <3>1. dirp[c] # None /\ dpc[c] = "push"
      BY <2>5 DEF PushIrpFails, TypeOK, RegistersOK
    <3>2. HeldOnce(live \ {dirp[c]}, irp_list, Clients,
                   [dirp EXCEPT ![c] = None], Senders, sirp)
      BY <1>2, <1>4, <3>1, Release
    <3>3. doubled' = {}
      BY <1>2, <1>5, <2>5, <3>1 DEF PushIrpFails, CompleteIrp, CompleteAll
    <3>4. cancel_lock = c /\ \A d \in Clients : dpc[d] = "push" => d = c
      BY <1>2, <3>1 DEF Arming
    <3>5. dirp[c] \notin Range(irp_list)
      BY <1>5, <3>1
    <3>6. /\ UNCHANGED <<irp_list, sirp, spc, kpc>> /\ armed' = armed \ {dirp[c]}
          /\ \A d \in Clients \ {c} : dpc'[d] = dpc[d] /\ dirp'[d] = dirp[d]
          /\ dpc'[c] = "idle" /\ dirp'[c] = None
      BY <2>5 DEF PushIrpFails, DisarmFailedPush, Return, TypeOK
    <3>7. \A i \in Irps : kpc[i] # "release"
      BY <1>2, <3>4, IoctlAssumption DEF Arming
    <3>8. Arming'
      BY <1>2, <3>1, <3>4, <3>5, <3>6, <3>7 DEF Arming
    <3> QED
      BY <2>5, <3>2, <3>3, <3>8
         DEF PushIrpFails, CompleteIrp, CompleteAll, Return, Requests
  <2> QED
    BY <1>8, <2>1, <2>2, <2>3, <2>4, <2>5 DEF DispatcherStep
<1>9. ASSUME NEW c \in Clients, NEW i \in Irps, Request(c, i) PROVE Requests'
  <2>1. dirp[c] = None /\ i # None /\ i \notin live
    BY <1>4, <1>9 DEF Request, TypeOK, RegistersOK
  <2>2. HeldOnce(live \cup {i}, irp_list, Clients, [dirp EXCEPT ![c] = i],
                 Senders, sirp)
    BY <1>2, <1>4, <2>1, Acquire
  <2>3. Arming'
    BY <1>2, <1>4, <1>9, <2>1 DEF Request, Arming, TypeOK
  <2> QED
    BY <1>2, <1>9, <2>2, <2>3 DEF Request, Requests
<1>10. ASSUME NEW s \in Senders, SendMessageStep(s) PROVE Requests'
  <2>1. CASE PopIrp(s)
    <3>1. CASE irp_list = <<>>
      <4>1. Arming'
        BY <1>2, <2>1, <3>1 DEF PopIrp, Arming, TypeOK
      <4> QED
        BY <1>7, <2>1, <3>1, <4>1 DEF PopIrp
    <3>2. CASE irp_list # <<>>
      <4> DEFINE h == Head(irp_list)
      <4>1. sirp[s] = None /\ spc[s] = "popirp"
        BY <2>1 DEF PopIrp, TypeOK, RegistersOK
      <4>2. HeldOnce(live, Tail(irp_list), Senders, [sirp EXCEPT ![s] = h],
                     Clients, dirp)
        BY <1>3, <1>4, <3>2, <4>1, Dequeue
      <4>3. Range(irp_list') = Range(irp_list) \ {h}
        <5>1. /\ h = irp_list[1] /\ Tail(irp_list) = Unlink(irp_list, 1)
              /\ 1 \in 1..Len(irp_list)
          BY <1>4, <3>2, TailIsUnlink, LenProperties
        <5>2. IsInjective(irp_list)
          BY <1>2 DEF HeldOnce
        <5>3. Range(Unlink(irp_list, 1)) = Range(irp_list) \ {irp_list[1]}
          BY <1>4, <5>1, <5>2, RangeUnlink
        <5> QED
          BY <2>1, <3>2, <5>1, <5>3 DEF PopIrp
      <4>4. /\ sirp' = [sirp EXCEPT ![s] = h] /\ spc' = [spc EXCEPT ![s] = "disarm"]
            /\ irp_list' = Tail(irp_list)
            /\ UNCHANGED <<live, doubled, armed, kpc, cancel_lock, dpc, dirp>>
        BY <2>1, <3>2 DEF PopIrp
      <4>5. sirp'[s] = h /\ spc'[s] = "disarm"
            /\ \A t \in Senders \ {s} : sirp'[t] = sirp[t] /\ spc'[t] = spc[t]
        BY <4>4 DEF TypeOK
      <4> HIDE DEF h
      <4>6. Arming'
        BY <1>2, <4>1, <4>3, <4>4, <4>5 DEF Arming
      <4> QED
        BY <1>2, <4>2, <4>4, <4>6, Swap DEF Requests
    <3> QED
      BY <3>1, <3>2
  <2>2. CASE Disarm(s)
    <3>1. sirp[s] # None
      BY <2>2 DEF Disarm, TypeOK, RegistersOK
    <3>2. Arming'
      <4>1. /\ sirp[s] \notin Range(irp_list)
            /\ \A c \in Clients : dirp[c] # sirp[s]
            /\ \A t \in Senders : sirp[t] = sirp[s] => t = s
        BY <1>6, <3>1
      <4>2. \A i \in armed' : i \in armed /\ i # sirp[s]
        BY <2>2 DEF Disarm
      <4>3. \A t \in Senders \ {s} : spc'[t] = spc[t]
        BY <2>2 DEF Disarm, TypeOK
      <4> QED
        BY <1>2, <2>2, <4>1, <4>2, <4>3 DEF Disarm, Arming
    <3> QED
      BY <1>7, <2>2, <3>2 DEF Disarm
  <2>3. CASE DisarmTooLate(s) \/ Deliver(s)
    <3>1. /\ sirp[s] # None
          /\ live' = live \ {sirp[s]} /\ doubled' = doubled \cup ({sirp[s]} \ live)
          /\ sirp' = [sirp EXCEPT ![s] = None]
          /\ UNCHANGED <<irp_list, dirp, dpc, kpc, armed, cancel_lock>>
          /\ \A t \in Senders \ {s} : spc'[t] = spc[t]
          /\ spc'[s] # "disarm"
      BY <2>3 DEF DisarmTooLate, Deliver, CompleteIrp, CompleteAll, Done, TypeOK,
                  RegistersOK
    <3>2. HeldOnce(live \ {sirp[s]}, irp_list, Senders,
                   [sirp EXCEPT ![s] = None], Clients, dirp)
      BY <1>3, <1>4, <3>1, Release
    <3>3. doubled' = {}
      BY <1>2, <1>6, <3>1
    <3>4. sirp[s] \notin armed
      <4>1. CASE DisarmTooLate(s)
        BY <4>1 DEF DisarmTooLate
      <4>2. CASE Deliver(s)
        BY <1>2, <1>6, <3>1, <4>2 DEF Deliver, Arming
      <4> QED
        BY <2>3, <4>1, <4>2
    <3>5. \A t \in Senders \ {s} : sirp'[t] = sirp[t]
      BY <1>4, <3>1
    <3>6. Arming'
      BY <1>2, <3>1, <3>4, <3>5 DEF Arming
    <3> QED
      BY <3>1, <3>2, <3>3, <3>6, Swap DEF Requests
  <2>4. CASE CheckSize(s) \/ Evict(s) \/ PushData(s)
    <3>1. Arming'
      BY <1>2, <2>4 DEF CheckSize, Evict, PushData, Done, Arming, TypeOK
    <3> QED
      BY <1>7, <2>4, <3>1 DEF CheckSize, Evict, PushData
  <2> QED
    BY <1>10, <2>1, <2>2, <2>3, <2>4 DEF SendMessageStep
<1>11. ASSUME NEW i \in Irps, IoCancelIrp(i) PROVE Requests'
  <2>1. Arming'
    <3>1. CASE i \notin armed
      BY <1>2, <1>11, <3>1 DEF IoCancelIrp, Arming
    <3>2. CASE i \in armed
      <4>1. \A c \in Clients : dpc[c] # "push"
        BY <1>2, <1>11, IoctlAssumption DEF IoCancelIrp, Arming
      <4>2. \A c \in Clients : dirp[c] # i
        BY <1>2, <1>5, <1>6, <1>4, <3>2, <4>1 DEF Arming
      <4>3. /\ armed' = armed \ {i} /\ kpc'[i] = "release" /\ cancel_lock' = i
            /\ \A j \in Irps \ {i} : kpc'[j] = kpc[j]
            /\ UNCHANGED <<irp_list, dirp, dpc, sirp, spc>>
        BY <1>11, <3>2 DEF IoCancelIrp, TypeOK
      <4>4. armed \subseteq Irps /\ Range(irp_list) \subseteq Irps
        BY <1>4, RangeSeq DEF TypeOK
      <4>5. \A j \in Irps : kpc[j] # "release"
        BY <1>2, <1>4, <1>11 DEF IoCancelIrp, Arming
      <4> QED
        BY <1>2, <1>4, <4>1, <4>2, <4>3, <4>4, <4>5 DEF Arming
    <3> QED
      BY <3>1, <3>2
  <2> QED
    BY <1>7, <1>11, <2>1 DEF IoCancelIrp
<1>12. ASSUME NEW i \in Irps, ReleaseCancelLock(i) PROVE Requests'
  <2>1. Arming'
    <3>1. \A c \in Clients : dpc[c] # "push"
      BY <1>2, <1>12, IoctlAssumption DEF ReleaseCancelLock, Arming
    <3>2. /\ kpc[i] = "release" /\ kpc'[i] = "pop"
          /\ \A j \in Irps \ {i} : kpc'[j] = kpc[j]
          /\ UNCHANGED <<irp_list, dirp, dpc, sirp, spc, armed>>
      BY <1>12 DEF ReleaseCancelLock, TypeOK
    <3>3. \A j \in Irps \ {i} : kpc[j] # "release"
      BY <1>2, <3>2 DEF Arming
    <3>4. \A j \in Irps : (kpc'[j] = "none" <=> kpc[j] = "none") /\ kpc'[j] # "release"
      BY <3>2, <3>3
    <3>5. armed \subseteq Irps /\ Range(irp_list) \subseteq Irps
      BY <1>4, RangeSeq DEF TypeOK
    <3> QED
      BY <1>2, <1>4, <3>1, <3>2, <3>4, <3>5 DEF Arming
  <2> QED
    BY <1>7, <1>12, <2>1 DEF ReleaseCancelLock
<1>13. ASSUME NEW i \in Irps, PopCancelled(i) PROVE Requests'
  <2>1. PICK k \in 1..Len(irp_list) : irp_list[k] = i /\ irp_list' = Unlink(irp_list, k)
    BY <1>4, <1>13, LenProperties DEF PopCancelled
  <2>2. /\ live' = live \ {i} /\ doubled' = doubled \cup ({i} \ live)
        /\ kpc[i] = "pop" /\ kpc'[i] = "none"
        /\ \A j \in Irps \ {i} : kpc'[j] = kpc[j]
        /\ UNCHANGED <<dirp, dpc, sirp, spc, armed, cancel_lock>>
    BY <1>13 DEF PopCancelled, CompleteIrp, CompleteAll, TypeOK
  <2>3. HeldOnce(live \ {i}, Unlink(irp_list, k), Clients, dirp, Senders, sirp)
    BY <1>2, <1>4, <2>1, Discard
  <2>4. i \in Range(irp_list) /\ Range(irp_list') = Range(irp_list) \ {i}
    <3>1. IsInjective(irp_list)
      BY <1>2 DEF HeldOnce
    <3>2. Range(Unlink(irp_list, k)) = Range(irp_list) \ {irp_list[k]}
      BY <1>4, <3>1, RangeUnlink
    <3>3. i \in Range(irp_list)
      BY <1>4, <2>1, LenProperties DEF Range
    <3> QED
      BY <2>1, <3>2, <3>3
  <2>5. i \in live /\ i \notin armed
    BY <1>2, <2>2, <2>4 DEF HeldOnce, Arming
  <2>6. armed \subseteq Irps /\ Range(irp_list) \subseteq Irps
    BY <1>4, RangeSeq DEF TypeOK
  <2>7. Arming'
    BY <1>2, <1>4, <2>2, <2>4, <2>5, <2>6 DEF Arming
  <2> QED
    BY <1>2, <2>1, <2>2, <2>3, <2>5, <2>7 DEF Requests
<1>14. ASSUME NEW i \in Irps, PopMisses(i) PROVE Requests'
  <2>1. irp_list = <<>>
    BY <1>14 DEF PopMisses
  <2>2. UNCHANGED <<live, doubled, irp_list, dirp, dpc, sirp, spc, armed, cancel_lock>>
    BY <1>14, <2>1 DEF PopMisses, MissReturnsNode
  <2>3. kpc' = [kpc EXCEPT ![i] = "none"] /\ Range(irp_list) = {}
    BY <1>14, <2>1 DEF PopMisses, Range
  <2>4. Arming'
    BY <1>2, <2>2, <2>3 DEF Arming, TypeOK
  <2> QED
    BY <1>7, <2>2, <2>4
<1>15. CASE Initialize
  <2>1. irp_list' = irp_list
    BY <1>15 DEF Initialize, NoContext
  <2>2. Arming'
    BY <1>2, <1>15, <2>1 DEF Initialize, Arming
  <2> QED
    BY <1>7, <1>15, <2>1, <2>2 DEF Initialize
<1>16. CASE Finalize
  <2>1. live = {} /\ Range(irp_list) = {}
    BY <1>2, <1>16 DEF Finalize, HeldOnce
  <2>2. /\ live' = {} /\ doubled' = {} /\ Range(<<>>) = {} /\ IsInjective(<<>>)
        /\ irp_list' = <<>> /\ UNCHANGED <<dirp, dpc, sirp, spc, armed, kpc, cancel_lock>>
    BY <1>2, <1>16, <2>1 DEF Finalize, CompleteAll, Range, IsInjective
  <2>3. HeldOnce({}, <<>>, Clients, dirp, Senders, sirp)
    BY <1>2, <2>1, <2>2 DEF HeldOnce
  <2>4. Arming'
    BY <1>2, <2>1, <2>2 DEF Arming
  <2> QED
    BY <2>2, <2>3, <2>4 DEF Requests
<1>17. CASE \/ Bugcheck \/ UNCHANGED vars
            \/ \E s \in Senders, m \in Msgs : RaiseEvent(s, m)
  <2>1. Arming'
    BY <1>2, <1>17 DEF Bugcheck, vars, RaiseEvent, Arming, TypeOK
  <2> QED
    BY <1>7, <1>17, <2>1 DEF Bugcheck, vars, RaiseEvent
<1> QED
  BY <1>8, <1>9, <1>10, <1>11, <1>12, <1>13, <1>14, <1>15, <1>16, <1>17
     DEF Next, CancelRoutineStep

\* The invariant about requests holds in every behaviour.
LEMMA RequestInvariant == Spec => []RequestInv
<1>1. Init => RequestInv
  BY DEF Init, RequestInv, Requests, HeldOnce, Arming, Range, IsInjective
<1> QED
  BY <1>1, RequestStep, TypeCorrect, NoContextInvariant, PTL DEF Spec

\* Until a cancel routine's search misses in a non-empty irp_list, every
\* request that is not completed has exactly one holder, and no other has one.
THEOREM RequestsHeldOnce == Spec => []RequestHeldOnce
<1>1. TypeOK /\ RequestInv => RequestHeldOnce
  <2> SUFFICES ASSUME TypeOK, RequestInv, dangling = {}, NEW i \in Irps
               PROVE  IF i \in live
                      THEN \E h \in RequestHolders(i) : RequestHolders(i) = {h}
                      ELSE RequestHolders(i) = {}
    BY DEF RequestHeldOnce
  <2>1. live \in SUBSET Irps /\ irp_list \in Seq(Irps) /\ None \notin Irps
    BY IoctlAssumption DEF TypeOK
  <2>2. HeldOnce(live, irp_list, Clients, dirp, Senders, sirp)
    BY DEF RequestInv, Requests
  <2> QED
    BY <2>1, <2>2, OneHolder DEF RequestHolders
<1> QED
  BY <1>1, RequestInvariant, TypeCorrect, PTL

\* Until then no request is completed twice.
THEOREM RequestsCompletedOnce == Spec => []CompletedOnce
<1>1. RequestInv => CompletedOnce
  BY DEF RequestInv, Requests, CompletedOnce
<1> QED
  BY <1>1, RequestInvariant, PTL

\* Until then a completed request has no cancel routine, and a parked one has
\* its own or is being cancelled.
THEOREM CancelRoutinesCorrect == Spec => []CancelRoutinesSet
<1>1. TypeOK /\ RequestInv => CancelRoutinesSet
  <2> SUFFICES ASSUME TypeOK, RequestInv, dangling = {}
               PROVE  /\ armed \subseteq live
                      /\ \A i \in Range(irp_list) : i \in armed \/ kpc[i] # "none"
    BY DEF CancelRoutinesSet, CompletedDisarmed, ParkedCancellable
  <2>1. Arming /\ HeldOnce(live, irp_list, Clients, dirp, Senders, sirp)
    BY DEF RequestInv, Requests
  <2>2. \A c \in Clients : dpc[c] = "push" => dirp[c] # None
    BY DEF TypeOK, RegistersOK
  <2>3. \A s \in Senders : spc[s] = "disarm" => sirp[s] # None
    BY DEF TypeOK, RegistersOK
  <2> QED
    BY <2>1, <2>2, <2>3 DEF Arming, HeldOnce
<1> QED
  BY <1>1, RequestInvariant, TypeCorrect, PTL

\* Without cancellation no cancel routine runs, so that no search can miss.
NoCancellation ==
  Cancellable = {} => dangling = {} /\ \A i \in Irps : kpc[i] = "none"

\* Without a cancelled request no cancel routine ever starts.
LEMMA NoCancellationStep == NoCancellation /\ [Next]_vars => NoCancellation'
<1> SUFFICES ASSUME NoCancellation, [Next]_vars, Cancellable = {}
             PROVE  (dangling = {} /\ \A i \in Irps : kpc[i] = "none")'
  BY DEF NoCancellation
<1>1. dangling = {} /\ \A i \in Irps : kpc[i] = "none"
  BY DEF NoCancellation
<1>2. \A i \in Irps : ~CancelRoutineStep(i) /\ ~IoCancelIrp(i)
  BY <1>1 DEF CancelRoutineStep, ReleaseCancelLock, PopCancelled, PopMisses,
              IoCancelIrp
<1>3. UNCHANGED <<dangling, kpc>>
  BY <1>2 DEF vars, Next, Initialize, Finalize, Bugcheck, Request, DispatcherStep,
              RejectNotReady, FetchData, FetchNothing, Reply, Requeue,
              PendCancelled, Pend, PushIrp, PushIrpFails, RaiseEvent,
              SendMessageStep, PopIrp, Disarm, DisarmTooLate, Deliver, CheckSize,
              Evict, PushData
<1> QED
  BY <1>1, <1>3

\* None has started before, either.
LEMMA NoCancellationInvariant == Spec => []NoCancellation
<1>1. Init => NoCancellation
  BY DEF Init, NoCancellation
<1> QED
  BY <1>1, NoCancellationStep, PTL DEF Spec

\* Where no request is cancelled, no linked node is ever deleted and no request
\* is ever completed twice.
THEOREM UncancelledSound == Spec => []UncancelledIntact
<1>1. NoCancellation /\ RequestInv => UncancelledIntact
  BY DEF NoCancellation, RequestInv, Requests, UncancelledIntact, Corrupted
<1> QED
  BY <1>1, NoCancellationInvariant, RequestInvariant, PTL

-----------------------------------------------------------------------------
(* All of it together, for who builds on the driver *)

IInv == TypeOK /\ NoContext /\ MessageInv /\ RequestInv /\ NoCancellation

LEMMA InitIInv == Init => IInv
  BY TypeInit
  DEF Init, IInv, NoContext, MessageInv, RequestInv, Requests, HeldOnce, Arming, Range,
      IsInjective, NoCancellation

LEMMA StepKeeps == IInv /\ [Next]_vars => IInv'
  BY TypeStep, NoContextStep, MessageStep, RequestStep, NoCancellationStep DEF IInv

-----------------------------------------------------------------------------
(* The promise of module Rendezvous *)

\* A message that a thread holds, or that is in data_list, has not been freed.
LEMMA HeldMessages ==
  ASSUME TypeOK, MessageInv
  PROVE  /\ \A c \in Clients : dmsg[c] # None => dmsg[c] \in heap /\ dmsg[c] \in Msgs
         /\ \A s \in Senders : smsg[s] # None => smsg[s] \in heap /\ smsg[s] \in Msgs
         /\ Range(data_list) \subseteq heap
BY DEF TypeOK, MessageInv, HeldOnce

\* A request that is completed, when no request has been completed twice, was
\* pending.
LEMMA CompletedWasPending ==
  ASSUME NEW i \in Irps, CompleteIrp(i), ~Corrupted'
  PROVE  i \in live /\ live' = live \ {i}
BY DEF CompleteIrp, CompleteAll, Corrupted

\* Every step is a step of Rendezvous or leaves its variables alone.
LEMMA RendezvousStep ==
  TypeOK /\ MessageInv /\ [Next]_vars => [Meeting!Next]_<<live, heap, Corrupted>>
<1> SUFFICES ASSUME TypeOK, MessageInv, [Next]_vars
             PROVE  [Meeting!Next]_<<live, heap, Corrupted>>
  OBVIOUS
<1> DEFINE quiet == UNCHANGED <<live, heap, Corrupted>>
<1> USE DEF lists, irpVars, dVars, sVars
<1>1. CASE Corrupted'
  BY <1>1 DEF Meeting!Next, Meeting!Break
<1>2. CASE ~Corrupted'
  <2>1. ~Corrupted /\ UNCHANGED Corrupted
    <3>1. dangling \subseteq dangling' /\ doubled \subseteq doubled'
      BY DEF Next, vars, Initialize, Finalize, Bugcheck, Request, DispatcherStep,
             RejectNotReady, FetchData, FetchNothing, Reply, Requeue, PendCancelled,
             Pend, PushIrp, PushIrpFails, RaiseEvent, SendMessageStep, PopIrp,
             Disarm, DisarmTooLate, Deliver, CheckSize, Evict, PushData,
             CancelRoutineStep, IoCancelIrp, ReleaseCancelLock, PopCancelled,
             PopMisses, CompleteIrp, CompleteAll
    <3> QED
      BY <1>2, <3>1 DEF Corrupted
  <2> DEFINE step == quiet \/ Meeting!Next
  <2> SUFFICES step
    OBVIOUS
  <2>2. ASSUME NEW i \in Irps, CompleteIrp(i), UNCHANGED heap PROVE step
    BY <2>1, <2>2, <1>2, CompletedWasPending DEF Meeting!Next, Meeting!Fail
  <2>3. ASSUME NEW i \in Irps, NEW m \in heap, m \in Msgs, CompleteIrp(i),
               heap' = HeapAfterReply(m)
        PROVE  step
    <3>1. CASE TooSmall(m)
      BY <3>1, <2>2, <2>3 DEF HeapAfterReply
    <3>2. CASE ~TooSmall(m)
      BY <3>2, <2>1, <2>3, <1>2, CompletedWasPending
         DEF HeapAfterReply, TooSmall, Meeting!Next, Meeting!Answer
    <3> QED
      BY <3>1, <3>2
  <2>4. ASSUME NEW m \in heap, m \in Msgs, heap' = heap \ {m}, UNCHANGED live PROVE step
    BY <2>1, <2>4 DEF Meeting!Next, Meeting!Drop
  <2>5. CASE Initialize \/ Bugcheck \/ UNCHANGED vars
    BY <2>1, <2>5 DEF Initialize, Bugcheck, vars
  <2>6. CASE Finalize
    <3>1. live = {} /\ UNCHANGED live /\ heap' \subseteq heap
      BY <2>6 DEF Finalize, CompleteAll
    <3> QED
      BY <2>1, <3>1 DEF Meeting!Next, Meeting!Close
  <2>7. ASSUME NEW c \in Clients, NEW i \in Irps, Request(c, i) PROVE step
    BY <2>1, <2>7 DEF Request, Meeting!Next, Meeting!Issue
  <2>8. ASSUME NEW c \in Clients, DispatcherStep(c) PROVE step
    <3>1. dpc[c] \notin {"idle", "requeue"} => dirp[c] \in Irps
      BY DEF TypeOK, RegistersOK
    <3>2. dpc[c] \in {"reply", "requeue"} => dmsg[c] \in heap /\ dmsg[c] \in Msgs
      BY HeldMessages DEF TypeOK, RegistersOK
    <3>3. CASE RejectNotReady(c) \/ PendCancelled(c) \/ PushIrpFails(c)
      BY <3>1, <3>3, <2>2 DEF RejectNotReady, PendCancelled, PushIrpFails
    <3>4. CASE FetchData(c) \/ FetchNothing(c) \/ Pend(c) \/ PushIrp(c)
      BY <3>4, <2>1 DEF FetchData, FetchNothing, Pend, PushIrp
    <3>5. CASE Reply(c)
      BY <3>1, <3>2, <3>5, <2>3 DEF Reply
    <3>6. CASE Requeue(c)
      BY <3>2, <3>6, <2>1, <2>4 DEF Requeue
    <3> QED
      BY <2>8, <3>3, <3>4, <3>5, <3>6 DEF DispatcherStep
  <2>9. ASSUME NEW s \in Senders, NEW m \in Msgs, RaiseEvent(s, m) PROVE step
    BY <2>1, <2>9 DEF RaiseEvent, Meeting!Next, Meeting!Report
  <2>10. ASSUME NEW s \in Senders, SendMessageStep(s) PROVE step
    <3>1. spc[s] \in {"disarm", "deliver"} => sirp[s] \in Irps
      BY DEF TypeOK, RegistersOK
    <3>2. spc[s] # "idle" => smsg[s] \in heap /\ smsg[s] \in Msgs
      BY HeldMessages DEF TypeOK, RegistersOK
    <3>3. CASE PopIrp(s) \/ Disarm(s) \/ CheckSize(s)
      BY <3>3, <2>1 DEF PopIrp, Disarm, CheckSize
    <3>4. CASE DisarmTooLate(s)
      BY <3>1, <3>4, <2>2 DEF DisarmTooLate
    <3>5. CASE Deliver(s)
      BY <3>1, <3>2, <3>5, <2>3 DEF Deliver
    <3>6. CASE Evict(s)
      <4>1. data_list # <<>> => Head(data_list) \in heap /\ Head(data_list) \in Msgs
        BY HeldMessages, TailIsUnlink, LenProperties DEF TypeOK, Range
      <4> QED
        BY <3>6, <4>1, <2>1, <2>4 DEF Evict
    <3>7. CASE PushData(s)
      BY <3>2, <3>7, <2>1, <2>4 DEF PushData
    <3> QED
      BY <2>10, <3>3, <3>4, <3>5, <3>6, <3>7 DEF SendMessageStep
  <2>11. ASSUME NEW i \in Irps, CancelRoutineStep(i) \/ IoCancelIrp(i) PROVE step
    <3>1. CASE ReleaseCancelLock(i) \/ IoCancelIrp(i)
      BY <3>1, <2>1 DEF ReleaseCancelLock, IoCancelIrp
    <3>2. CASE PopCancelled(i)
      BY <3>2, <2>2 DEF PopCancelled
    <3>3. CASE PopMisses(i)
      BY <3>3, <2>1, <2>2 DEF PopMisses
    <3> QED
      BY <2>11, <3>1, <3>2, <3>3 DEF CancelRoutineStep
  <2> QED
    BY <2>5, <2>6, <2>7, <2>8, <2>9, <2>10, <2>11 DEF Next
<1> QED
  BY <1>1, <1>2

\* The driver's rendezvous keeps the promise of module Rendezvous, with any
\* number of threads, requests and messages.
THEOREM RendezvousImplemented == Spec => ImplementsRendezvous
<1>1. Init => Meeting!Init
  BY DEF Init, Meeting!Init, Corrupted
<1> QED
  BY <1>1, RendezvousStep, MessageInvariant, TypeCorrect, PTL
     DEF Spec, ImplementsRendezvous, Meeting!Spec, Meeting!vars
=============================================================================
