------------------------------ MODULE SafeList ------------------------------
(***************************************************************************)
(* SafeList (src/src/drv/safe_list.h) with its SpinLock                    *)
(* (src/src/drv/spin_lock.h): threads call its operations at PASSIVE or    *)
(* DISPATCH level.  The doubly linked LIST_ENTRYs of the system are a      *)
(* sequence of nodes; a node is memory, allocated or not, and is reused.   *)
(* Push and both Pops allocate and delete their node outside the lock.     *)
(***************************************************************************)
EXTENDS Integers, Sequences, FiniteSets, SequencesExt

CONSTANTS
  Threads,     \* the callers
  AtDispatch,  \* those of them that call at DISPATCH_LEVEL
  Nodes,       \* the memory for SafeListNodes
  Buffers,     \* what is pushed
  Searched,    \* what Pop(buffer) may be called for
  Null

ASSUME SafeListAssumption ==
  /\ AtDispatch \subseteq Threads /\ Searched \subseteq Buffers
  /\ Null \notin Buffers \cup Nodes \cup Threads

VARIABLES
  list_,    \* the linked nodes, oldest first
  size_,
  buffer,   \* each node's buffer
  heap,     \* the allocated nodes
  lock_,    \* the holder of the spin lock, or Null
  irql_,    \* the level to return to, kept in the SpinLock
  irql,     \* each thread's level
  pc, op,   \* each thread's step and the operation it is in
  node,     \* its local variable node or entry, or Null
  want,     \* the buffer it searches for
  local,    \* the list that Clear has moved the nodes to
  intact    \* FALSE once a walk has left with a node that is still linked

nodeVars == <<list_, size_, buffer, heap>>
callVars == <<op, want>>
vars == <<nodeVars, lock_, irql_, irql, pc, callVars, node, local, intact>>

Level(t) == IF t \in AtDispatch THEN "dispatch" ELSE "passive"
Step     == {"idle", "lock", "locked", "inc", "dec", "zero", "unlock", "delete"}
Op       == {"push", "pop", "find", "clear"}

Init ==
  /\ list_ = <<>> /\ size_ = 0 /\ heap = {} /\ intact = TRUE
  /\ buffer = [n \in Nodes |-> Null]
  /\ lock_ = Null /\ irql_ = "passive"
  /\ irql = [t \in Threads |-> Level(t)]
  /\ pc = [t \in Threads |-> "idle"] /\ op = [t \in Threads |-> "pop"]
  /\ node = [t \in Threads |-> Null] /\ want = [t \in Threads |-> Null]
  /\ local = [t \in Threads |-> <<>>]

Goto(t, step) == pc' = [pc EXCEPT ![t] = step]

-----------------------------------------------------------------------------
(* Calls *)

\* Push with memory for its node; without, it returns false and changes nothing.
Push(t, b) ==
  /\ pc[t] = "idle" /\ Goto(t, "lock")
  /\ \E n \in Nodes \ heap : /\ heap' = heap \cup {n}
                             /\ buffer' = [buffer EXCEPT ![n] = b]
                             /\ node' = [node EXCEPT ![t] = n]
  /\ op' = [op EXCEPT ![t] = "push"]
  /\ UNCHANGED <<list_, size_, lock_, irql_, irql, want, local, intact>>

\* Pop(), Pop(b) and Clear() start with the lock.
Call(t, o, b) ==
  /\ pc[t] = "idle" /\ Goto(t, "lock")
  /\ node' = [node EXCEPT ![t] = Null]
  /\ op' = [op EXCEPT ![t] = o] /\ want' = [want EXCEPT ![t] = b]
  /\ UNCHANGED <<nodeVars, lock_, irql_, irql, local, intact>>

-----------------------------------------------------------------------------
(* SpinLock *)

\* KeAcquireSpinLock raises the level, and stores the old one once it has the
\* lock: irql_ belongs to the holder.
LockUnsaved(t) ==
  /\ pc[t] = "lock" /\ Goto(t, "locked")
  /\ lock_ = Null /\ lock_' = t
  /\ irql' = [irql EXCEPT ![t] = "dispatch"]
  /\ UNCHANGED <<nodeVars, irql_, callVars, node, local, intact>>
Lock(t) ==
  /\ pc[t] = "lock" /\ Goto(t, "locked")
  /\ lock_ = Null /\ lock_' = t
  /\ irql_' = irql[t] /\ irql' = [irql EXCEPT ![t] = "dispatch"]
  /\ UNCHANGED <<nodeVars, callVars, node, local, intact>>

Unlock(t) ==
  /\ pc[t] = "unlock"
  /\ Goto(t, IF op[t] = "push" THEN "idle" ELSE "delete")
  /\ lock_' = Null /\ irql' = [irql EXCEPT ![t] = irql_]
  /\ UNCHANGED <<nodeVars, irql_, callVars, node, local, intact>>

-----------------------------------------------------------------------------
(* Critical sections *)

InsertTail(t) ==
  /\ pc[t] = "locked" /\ op[t] = "push" /\ Goto(t, "inc")
  /\ list_' = Append(list_, node[t])
  /\ UNCHANGED <<size_, buffer, heap, lock_, irql_, irql, callVars, node, local, intact>>

RemoveLast(t) ==
  /\ pc[t] = "locked" /\ op[t] = "pop"
  /\ IF list_ = <<>>
     THEN Goto(t, "unlock") /\ UNCHANGED <<list_, node>>
     ELSE /\ Goto(t, "dec")
          /\ node' = [node EXCEPT ![t] = Last(list_)]
          /\ list_' = Front(list_)
  /\ UNCHANGED <<size_, buffer, heap, lock_, irql_, irql, callVars, local, intact>>
RemoveHead(t) ==
  /\ pc[t] = "locked" /\ op[t] = "pop"
  /\ IF list_ = <<>>
     THEN Goto(t, "unlock") /\ UNCHANGED <<list_, node>>
     ELSE /\ Goto(t, "dec")
          /\ node' = [node EXCEPT ![t] = Head(list_)]
          /\ list_' = Tail(list_)
  /\ UNCHANGED <<size_, buffer, heap, lock_, irql_, irql, callVars, local, intact>>

\* Pop(buffer) walks the list and unlinks the first node with the buffer.  A
\* walk to the end leaves node at the last node that it visited.
Search(t) ==
  /\ pc[t] = "locked" /\ op[t] = "find"
  /\ LET hits == {k \in DOMAIN list_ : buffer[list_[k]] = want[t]}
     IN IF hits # {}
        THEN LET k == Min(hits)
             IN /\ Goto(t, "dec")
                /\ node' = [node EXCEPT ![t] = list_[k]]
                /\ list_' = RemoveAt(list_, k)
        ELSE /\ Goto(t, "unlock")
             /\ node' = [node EXCEPT ![t] = IF list_ = <<>> THEN Null ELSE Last(list_)]
             /\ UNCHANGED list_
  /\ intact' = (intact /\ (list_ = <<>> \/ list_' # list_))
  /\ UNCHANGED <<size_, buffer, heap, lock_, irql_, irql, callVars, local>>

MoveAll(t) ==
  /\ pc[t] = "locked" /\ op[t] = "clear" /\ Goto(t, "zero")
  /\ local' = [local EXCEPT ![t] = list_]
  /\ list_' = <<>>
  /\ UNCHANGED <<size_, buffer, heap, lock_, irql_, irql, callVars, node, intact>>

\* size_ = 0, size_++ and size_--, still under the lock.
ResetIfEmpty(t) ==
  /\ pc[t] = "zero" /\ Goto(t, "unlock")
  /\ size_' = IF local[t] = <<>> THEN 0 ELSE size_
  /\ UNCHANGED <<list_, buffer, heap, lock_, irql_, irql, callVars, node, local, intact>>
Reset(t) ==
  /\ pc[t] = "zero" /\ Goto(t, "unlock")
  /\ size_' = 0
  /\ UNCHANGED <<list_, buffer, heap, lock_, irql_, irql, callVars, node, local, intact>>

Count(t) ==
  /\ pc[t] \in {"inc", "dec"} /\ Goto(t, "unlock")
  /\ size_' = IF pc[t] = "inc" THEN size_ + 1 ELSE size_ - 1
  /\ UNCHANGED <<list_, buffer, heap, lock_, irql_, irql, callVars, node, local, intact>>

-----------------------------------------------------------------------------
(* After the lock *)

\* Deleted memory keeps nothing; deleting nullptr does nothing.
FreeBuffer(n) == /\ heap' = heap
                 /\ buffer' = [m \in Nodes |-> IF m = n THEN Null ELSE buffer[m]]
Free(n) == /\ heap' = heap \ {n}
           /\ buffer' = [m \in Nodes |-> IF m = n THEN Null ELSE buffer[m]]

\* The two Pops return DeleteNode(node): the buffer, or nullptr without a node.
Delete(t) ==
  /\ pc[t] = "delete" /\ op[t] \in {"pop", "find"} /\ Goto(t, "idle")
  /\ Free(node[t])
  /\ node' = [node EXCEPT ![t] = Null] /\ want' = [want EXCEPT ![t] = Null]
  /\ UNCHANGED <<list_, size_, lock_, irql_, irql, op, local, intact>>

\* Clear deletes its nodes from the head and hands each buffer to clean_.
Drain(t) ==
  /\ pc[t] = "delete" /\ op[t] = "clear"
  /\ IF local[t] = <<>>
     THEN Goto(t, "idle") /\ UNCHANGED <<heap, buffer, local>>
     ELSE /\ Free(Head(local[t]))
          /\ local' = [local EXCEPT ![t] = Tail(@)]
          /\ UNCHANGED pc
  /\ UNCHANGED <<list_, size_, lock_, irql_, irql, callVars, node, intact>>

-----------------------------------------------------------------------------
Run(t) == \/ Lock(t) \/ Unlock(t) \/ InsertTail(t) \/ RemoveHead(t) \/ Search(t)
          \/ MoveAll(t) \/ Reset(t) \/ Count(t) \/ Delete(t) \/ Drain(t)
Next == \E t \in Threads :
          \/ Run(t)
          \/ \E b \in Buffers : Push(t, b)
          \/ \E o \in {"pop", "clear"} : Call(t, o, Null)
          \/ \E b \in Searched : Call(t, "find", b)

Spec == Init /\ [][Next]_vars
-----------------------------------------------------------------------------
(* Properties *)

TypeOK ==
  /\ list_ \in Seq(Nodes) /\ size_ \in Nat /\ heap \subseteq Nodes
  /\ buffer \in [Nodes -> Buffers \cup {Null}]
  /\ lock_ \in Threads \cup {Null} /\ irql_ \in {"passive", "dispatch"}
  /\ irql \in [Threads -> {"passive", "dispatch"}]
  /\ pc \in [Threads -> Step] /\ op \in [Threads -> Op]
  /\ node \in [Threads -> Nodes \cup {Null}]
  /\ want \in [Threads -> Searched \cup {Null}]
  /\ local \in [Threads -> Seq(Nodes)] /\ intact \in BOOLEAN

\* Size() reads size_ without the lock.  What it reads is the length before or
\* after the one operation that is inside the lock, so it lags behind by the one
\* node of a Push or a Pop, or by all that a Clear has moved out; with nobody
\* between the link and the count it is the length.
SizeExactUnlocked ==
  /\ \A t \in Threads : /\ pc[t] = "inc"  => size_ + 1 = Len(list_)
                        /\ pc[t] = "dec"  => size_ = Len(list_) + 1
                        /\ pc[t] = "zero" => list_ = <<>> /\ size_ = Len(local[t])
  /\ (\A t \in Threads : pc[t] \notin {"inc", "dec", "zero"}) => size_ = Len(list_)

\* The one irql_ of a SpinLock serves all its callers: outside the critical
\* sections every thread is back at the level it called with.
IrqlRestored ==
  \A t \in Threads : pc[t] \in {"idle", "lock", "delete"} => irql[t] = Level(t)

\* Until a search misses, an allocated node is linked, moved out by Clear or
\* in the hand of one thread, and only one of these: no leak, no double free.
NodeHeldOnce ==
  intact =>
    \A n \in Nodes :
      Cardinality({k \in DOMAIN list_ : list_[k] = n})
      + Cardinality({t \in Threads : n \in Range(local[t])})
      + Cardinality({t \in Threads : /\ node[t] = n
                                     /\ ~(op[t] = "push" /\ pc[t] \in {"idle", "inc", "unlock"})})
        = IF n \in heap THEN 1 ELSE 0

\* Seen from outside, operations are atomic on a first-in first-out list, at
\* the step that links or unlinks, until a search misses in a non-empty list.
BuffersOf(nodes) == [k \in DOMAIN nodes |-> buffer[nodes[k]]]
Holding(t, o, steps) ==
  IF op[t] \in o /\ pc[t] \in steps /\ node[t] # Null THEN buffer[node[t]] ELSE Null
Fifo == INSTANCE FifoList WITH
  list  <- BuffersOf(list_),
  offer <- [t \in Threads |-> Holding(t, {"push"}, {"lock", "locked"})],
  got   <- [t \in Threads |-> Holding(t, {"pop", "find"}, {"dec", "unlock", "delete"})],
  batch <- [t \in Threads |-> BuffersOf(local[t])]
ImplementsFifo == Fifo!Spec
=============================================================================
