------------------------------ MODULE FifoList ------------------------------
(***************************************************************************)
(* What a SafeList promises its callers: every operation takes effect at   *)
(* one instant between its call and its return, on a first-in first-out    *)
(* list of buffers, and a buffer that leaves the list goes to one caller.  *)
(* The promise ends when a search for a buffer misses in a list that is    *)
(* not empty (intact).                                                     *)
(***************************************************************************)
EXTENDS Integers, Sequences, SequencesExt

CONSTANTS Threads, Buffers, Null

VARIABLES
  list,    \* the buffers in the list, oldest first
  offer,   \* the buffer each thread is pushing, or Null
  got,     \* the buffer each thread has taken and not yet been given, or Null
  batch,   \* the buffers each thread has cleared out and still has to clean
  intact   \* FALSE once a search has missed in a list that is not empty

vars == <<list, offer, got, batch, intact>>

Init == /\ list = <<>> /\ intact = TRUE
        /\ offer = [t \in Threads |-> Null]
        /\ got = [t \in Threads |-> Null]
        /\ batch = [t \in Threads |-> <<>>]

\* A call of Push, and the instant it takes effect.
Offer(t, b) == /\ offer[t] = Null
               /\ offer' = [offer EXCEPT ![t] = b]
               /\ UNCHANGED <<list, got, batch, intact>>
Put(t) == /\ offer[t] # Null
          /\ list' = Append(list, offer[t])
          /\ offer' = [offer EXCEPT ![t] = Null]
          /\ UNCHANGED <<got, batch, intact>>

\* Pop takes the oldest buffer, Pop(b) the oldest node whose buffer is b; the
\* caller is given it later, and given it once.
Take(t) == /\ got[t] = Null /\ list # <<>>
           /\ got' = [got EXCEPT ![t] = Head(list)]
           /\ list' = Tail(list)
           /\ UNCHANGED <<offer, batch, intact>>
TakeBuffer(t) == /\ got[t] = Null
                 /\ \E k \in DOMAIN list :
                      /\ \A j \in 1..(k - 1) : list[j] # list[k]
                      /\ got' = [got EXCEPT ![t] = list[k]]
                      /\ list' = RemoveAt(list, k)
                 /\ UNCHANGED <<offer, batch, intact>>
Return(t) == /\ got[t] # Null
             /\ got' = [got EXCEPT ![t] = Null]
             /\ UNCHANGED <<list, offer, batch, intact>>

\* Clear takes all buffers at once and then cleans them in their order.
TakeAll(t) == /\ batch[t] = <<>>
              /\ batch' = [batch EXCEPT ![t] = list]
              /\ list' = <<>>
              /\ UNCHANGED <<offer, got, intact>>
Clean(t) == /\ batch[t] # <<>>
            /\ batch' = [batch EXCEPT ![t] = Tail(@)]
            /\ UNCHANGED <<list, offer, got, intact>>

\* A search misses: from then on nothing is promised.
Miss == list # <<>> /\ intact' = FALSE

Next == \/ Miss
        \/ ~intact /\ ~intact'
        \/ \E t \in Threads : \/ Put(t) \/ Take(t) \/ TakeBuffer(t) \/ Return(t)
                              \/ TakeAll(t) \/ Clean(t)
                              \/ \E b \in Buffers : Offer(t, b)

Spec == Init /\ [][Next]_vars
=============================================================================
