---------------------------- MODULE SafeListProofs ----------------------------
(***************************************************************************)
(* Proofs about SafeList, for any number of threads, nodes and buffers.    *)
(* The inductive invariant has two parts: what the holder of the spin lock *)
(* may rely on (Guarded), and where the nodes are (Held).                  *)
(***************************************************************************)
EXTENDS SafeList, TLAPS, SequenceTheorems, FiniteSetTheorems, WellFoundedInduction

-----------------------------------------------------------------------------
(* Sequences of nodes *)

Injective(s) == \A j, k \in DOMAIN s : s[j] = s[k] => j = k

LEMMA EmptyNodes == /\ <<>> \in Seq(Nodes) /\ Len(<<>>) = 0
                    /\ Range(<<>>) = {} /\ Injective(<<>>)
  BY DEF Range, Injective

LEMMA AppendNode ==
  ASSUME NEW s \in Seq(Nodes), NEW n \in Nodes
  PROVE  /\ Append(s, n) \in Seq(Nodes) /\ Len(Append(s, n)) = Len(s) + 1
         /\ Range(Append(s, n)) = Range(s) \cup {n}
         /\ Injective(s) /\ n \notin Range(s) => Injective(Append(s, n))
<1> DEFINE q == Append(s, n)
<1>1. /\ q \in Seq(Nodes) /\ Len(q) = Len(s) + 1 /\ Len(s) \in Nat
      /\ DOMAIN q = 1..(Len(s) + 1) /\ DOMAIN s = 1..Len(s)
      /\ \A k \in 1..Len(s) : q[k] = s[k]
      /\ q[Len(s) + 1] = n
  BY AppendProperties
<1> HIDE DEF q
<1>2. Range(q) = Range(s) \cup {n}
  BY <1>1 DEF Range
<1>3. Injective(s) /\ n \notin Range(s) => Injective(q)
  BY <1>1 DEF Range, Injective
<1> QED  BY <1>1, <1>2, <1>3 DEF q

\* What RemoveAt leaves of a sequence.
LEMMA RemoveAtProperties ==
  ASSUME NEW S, NEW s \in Seq(S), NEW i \in DOMAIN s
  PROVE  /\ Len(s) \in Nat /\ i \in 1..Len(s) /\ DOMAIN s = 1..Len(s)
         /\ RemoveAt(s, i) \in Seq(S) /\ Len(RemoveAt(s, i)) = Len(s) - 1
         /\ DOMAIN RemoveAt(s, i) = 1..(Len(s) - 1)
         /\ \A k \in 1..(i - 1) : RemoveAt(s, i)[k] = s[k]
         /\ \A k \in i..(Len(s) - 1) : RemoveAt(s, i)[k] = s[k + 1]
<1> DEFINE q == RemoveAt(s, i)
<1>1. Len(s) \in Nat /\ i \in 1..Len(s) /\ DOMAIN s = 1..Len(s)
  OBVIOUS
<1>2. /\ SubSeq(s, 1, i - 1) \in Seq(S) /\ Len(SubSeq(s, 1, i - 1)) = i - 1
      /\ \A k \in 1..(i - 1) : SubSeq(s, 1, i - 1)[k] = s[k]
  BY <1>1
<1>3. /\ SubSeq(s, i + 1, Len(s)) \in Seq(S)
      /\ Len(SubSeq(s, i + 1, Len(s))) = Len(s) - i
      /\ \A k \in 1..(Len(s) - i) : SubSeq(s, i + 1, Len(s))[k] = s[k + i]
  BY <1>1
<1>4. /\ q \in Seq(S) /\ Len(q) = Len(s) - 1 /\ DOMAIN q = 1..(Len(s) - 1)
      /\ \A k \in 1..(i - 1) : q[k] = s[k]
      /\ \A k \in i..(Len(s) - 1) : q[k] = s[k + 1]
  <2> DEFINE a == SubSeq(s, 1, i - 1)
             b == SubSeq(s, i + 1, Len(s))
  <2>1. /\ a \in Seq(S) /\ Len(a) = i - 1 /\ \A k \in 1..(i - 1) : a[k] = s[k]
        /\ b \in Seq(S) /\ Len(b) = Len(s) - i
        /\ \A k \in 1..(Len(s) - i) : b[k] = s[k + i]
    BY <1>2, <1>3
  <2>2. q = a \o b
    BY DEF RemoveAt
  <2> HIDE DEF a, b, q
  <2>3. /\ q \in Seq(S) /\ Len(q) = Len(a) + Len(b)
        /\ \A k \in 1..(Len(a) + Len(b)) :
             q[k] = IF k <= Len(a) THEN a[k] ELSE b[k - Len(a)]
    BY <2>1, <2>2, ConcatProperties
  <2>4. Len(q) = Len(s) - 1 /\ DOMAIN q = 1..(Len(s) - 1)
    BY <1>1, <2>1, <2>3
  <2>5. \A k \in 1..(i - 1) : q[k] = s[k]
    BY <1>1, <2>1, <2>3
  <2>6. \A k \in i..(Len(s) - 1) : q[k] = s[k + 1]
    <3> TAKE k \in i..(Len(s) - 1)
    <3>1. /\ k - (i - 1) \in 1..(Len(s) - i) /\ ~(k <= i - 1)
          /\ k \in 1..((i - 1) + (Len(s) - i)) /\ (k - (i - 1)) + i = k + 1
      BY <1>1
    <3> QED  BY <2>1, <2>3, <3>1
  <2> QED  BY <2>3, <2>4, <2>5, <2>6
<1> QED  BY <1>1, <1>4 DEF q

LEMMA RemoveNode ==
  ASSUME NEW s \in Seq(Nodes), NEW i \in DOMAIN s
  PROVE  /\ RemoveAt(s, i) \in Seq(Nodes) /\ Len(RemoveAt(s, i)) = Len(s) - 1
         /\ s[i] \in Nodes /\ s[i] \in Range(s)
         /\ Injective(s) => /\ Injective(RemoveAt(s, i))
                            /\ Range(RemoveAt(s, i)) = Range(s) \ {s[i]}
<1> DEFINE q == RemoveAt(s, i)
<1>1. /\ Len(s) \in Nat /\ i \in 1..Len(s) /\ DOMAIN s = 1..Len(s) /\ s[i] \in Nodes
      /\ s[i] \in Range(s)
  BY DEF Range
<1>2. /\ q \in Seq(Nodes) /\ Len(q) = Len(s) - 1 /\ DOMAIN q = 1..(Len(s) - 1)
      /\ \A k \in 1..(i - 1) : q[k] = s[k]
      /\ \A k \in i..(Len(s) - 1) : q[k] = s[k + 1]
  BY RemoveAtProperties
<1> HIDE DEF q
<1> DEFINE up(k) == IF k < i THEN k ELSE k + 1
<1>3. /\ \A k \in DOMAIN q : up(k) \in DOMAIN s /\ up(k) # i /\ q[k] = s[up(k)]
      /\ \A j, k \in DOMAIN q : up(j) = up(k) => j = k
  <2>1. \A k \in DOMAIN q : k \in 1..(i - 1) \/ k \in i..(Len(s) - 1)
    BY <1>1, <1>2
  <2>2. \A k \in DOMAIN q : up(k) \in DOMAIN s /\ up(k) # i
    BY <1>1, <1>2
  <2>3. \A k \in DOMAIN q : q[k] = s[up(k)]
    <3> TAKE k \in DOMAIN q
    <3>1. CASE k \in 1..(i - 1)
      BY <1>1, <1>2, <3>1
    <3>2. CASE k \in i..(Len(s) - 1)
      BY <1>1, <1>2, <3>2
    <3> QED  BY <2>1, <3>1, <3>2
  <2>4. \A j, k \in DOMAIN q : up(j) = up(k) => j = k
    BY <1>1, <1>2
  <2> QED  BY <2>2, <2>3, <2>4
<1> HIDE DEF up
<1>4. ASSUME Injective(s) PROVE Injective(q)
  BY <1>3, <1>4 DEF Injective
<1>5. ASSUME Injective(s) PROVE Range(q) = Range(s) \ {s[i]}
  <2>1. \A k \in DOMAIN q : q[k] \in Range(s) /\ q[k] # s[i]
    BY <1>1, <1>3, <1>5 DEF Injective, Range
  <2>2. \A k \in DOMAIN s : k # i => \E j \in DOMAIN q : q[j] = s[k]
    <3> TAKE k \in DOMAIN s
    <3>1. CASE k < i
      BY <1>1, <1>2, <3>1
    <3>2. CASE k > i
      <4>1. k - 1 \in i..(Len(s) - 1) /\ (k - 1) + 1 = k /\ k - 1 \in DOMAIN q
        BY <1>1, <1>2, <3>2
      <4> QED  BY <1>2, <4>1
    <3> QED  BY <1>1, <3>1, <3>2
  <2> QED  BY <2>1, <2>2 DEF Range
<1> QED  BY <1>1, <1>2, <1>4, <1>5 DEF q

LEMMA RemoveFirstNode ==
  ASSUME NEW s \in Seq(Nodes), s # <<>>
  PROVE  /\ Tail(s) \in Seq(Nodes) /\ Len(Tail(s)) = Len(s) - 1
         /\ Head(s) \in Nodes /\ Head(s) \in Range(s)
         /\ Injective(s) => /\ Injective(Tail(s))
                            /\ Range(Tail(s)) = Range(s) \ {Head(s)}
<1> DEFINE q == Tail(s)
<1>1. /\ Len(s) \in Nat \ {0} /\ DOMAIN s = 1..Len(s) /\ Head(s) = s[1]
      /\ q \in Seq(Nodes) /\ Len(q) = Len(s) - 1 /\ DOMAIN q = 1..(Len(s) - 1)
      /\ \A k \in 1..(Len(s) - 1) : q[k] = s[k + 1]
      /\ Head(s) \in Nodes
  BY HeadTailProperties, LenProperties, EmptySeq
<1> HIDE DEF q
<1>2. Head(s) \in Range(s)
  BY <1>1 DEF Range
<1>3. ASSUME Injective(s) PROVE Injective(q)
  BY <1>1, <1>3 DEF Injective
<1>4. ASSUME Injective(s) PROVE Range(q) = Range(s) \ {Head(s)}
  <2>1. \A k \in DOMAIN q : q[k] \in Range(s) /\ q[k] # Head(s)
    BY <1>1, <1>4 DEF Injective, Range
  <2>2. \A k \in DOMAIN s : k # 1 => \E j \in DOMAIN q : q[j] = s[k]
    <3> TAKE k \in DOMAIN s
    <3> HAVE k # 1
    <3>1. k - 1 \in DOMAIN q /\ (k - 1) + 1 = k
      BY <1>1
    <3> QED  BY <1>1, <3>1
  <2> QED  BY <1>1, <2>1, <2>2 DEF Range
<1> QED  BY <1>1, <1>2, <1>3, <1>4 DEF q

\* The least of a set of numbers is one of them.
LEMMA MinMember ==
  ASSUME NEW K, K \subseteq Nat, K # {}
  PROVE  Min(K) \in K /\ \A k \in K : Min(K) <= k
<1> DEFINE R == {p \in Nat \X Nat : p[1] < p[2]}
<1>1. IsWellFoundedOn(R, Nat)
  BY NatLessThanWellFounded DEF OpToRel
<1>2. \A x, y \in Nat : <<y, x>> \notin R => x <= y
  OBVIOUS
<1> HIDE DEF R
<1>3. PICK x \in K : \A y \in K : <<y, x>> \notin R
  BY <1>1, WFMin
<1>4. \A y \in K : x <= y
  BY <1>2, <1>3
<1> QED  BY <1>4 DEF Min

-----------------------------------------------------------------------------
(* The spin lock *)

\* The lock's holder is the one thread inside a critical section.
Inside == {"locked", "inc", "dec", "zero", "unlock"}
LockHeld == \A t \in Threads : pc[t] \in Inside <=> lock_ = t

\* irql_ is the holder's level.
LevelKept == IrqlRestored /\ (lock_ # Null => irql_ = Level(lock_))

\* size_ counts the nodes but for the step between the link and the count.
Sized ==
  /\ lock_ = Null => size_ = Len(list_)
  /\ \A t \in Threads : /\ pc[t] \in {"locked", "unlock"} => size_ = Len(list_)
                        /\ pc[t] = "inc" => size_ + 1 = Len(list_)
                        /\ pc[t] = "dec" => size_ = Len(list_) + 1
                        /\ pc[t] = "zero" => list_ = <<>> /\ size_ = Len(local[t])

\* Who counts up has pushed, and Push comes with a node and deletes none.
Steps ==
  \A t \in Threads :
    /\ pc[t] = "inc" => op[t] = "push"
    /\ pc[t] = "dec" => op[t] \in {"pop", "find"}
    /\ pc[t] = "zero" => op[t] = "clear"
    /\ pc[t] = "delete" => op[t] # "push"
    /\ op[t] = "push" /\ pc[t] \in {"lock", "locked"} => node[t] \in Nodes

Guarded == TypeOK /\ LockHeld /\ LevelKept /\ Sized /\ Steps

LEMMA InitGuarded == Init => Guarded
  BY SafeListAssumption, EmptyNodes
  DEF Init, Guarded, TypeOK, LockHeld, LevelKept, IrqlRestored, Sized, Steps, Inside,
      Level, Step, Op

LEMMA StutterGuarded == Guarded /\ UNCHANGED vars => Guarded'
  BY DEF Guarded, TypeOK, LockHeld, LevelKept, IrqlRestored, Sized, Steps, Level, vars,
         nodeVars, callVars

LEMMA CallGuarded ==
  ASSUME Guarded, NEW t \in Threads,
         \/ \E b \in Buffers : Push(t, b)
         \/ \E o \in {"pop", "clear"} : Call(t, o, Null)
         \/ \E b \in Searched : Call(t, "find", b)
  PROVE  Guarded'
<1>1. ASSUME NEW b \in Buffers, Push(t, b) PROVE Guarded'
  <2>1. PICK n \in Nodes \ heap : /\ heap' = heap \cup {n}
                                  /\ buffer' = [buffer EXCEPT ![n] = b]
                                  /\ node' = [node EXCEPT ![t] = n]
    BY <1>1 DEF Push
  <2>2. /\ pc[t] = "idle" /\ pc' = [pc EXCEPT ![t] = "lock"]
        /\ op' = [op EXCEPT ![t] = "push"]
        /\ UNCHANGED <<list_, size_, lock_, irql_, irql, want, local, intact>>
    BY <1>1 DEF Push, Goto
  <2>3. TypeOK'
    BY <2>1, <2>2 DEF Guarded, TypeOK, Step, Op
  <2>4. LockHeld' /\ LevelKept' /\ Sized'
    BY <2>2 DEF Guarded, TypeOK, LockHeld, LevelKept, IrqlRestored, Sized, Inside, Level
  <2>5. Steps'
    BY <2>1, <2>2 DEF Guarded, TypeOK, Steps
  <2> QED  BY <2>3, <2>4, <2>5 DEF Guarded
<1>2. ASSUME NEW o \in {"pop", "clear", "find"}, NEW b \in Searched \cup {Null}, Call(t, o, b)
      PROVE  Guarded'
  <2>1. /\ pc[t] = "idle" /\ pc' = [pc EXCEPT ![t] = "lock"]
        /\ node' = [node EXCEPT ![t] = Null]
        /\ op' = [op EXCEPT ![t] = o] /\ want' = [want EXCEPT ![t] = b]
        /\ UNCHANGED <<list_, size_, buffer, heap, lock_, irql_, irql, local, intact>>
    BY <1>2 DEF Call, Goto, nodeVars
  <2>2. TypeOK'
    BY <2>1 DEF Guarded, TypeOK, Step, Op
  <2>3. LockHeld' /\ LevelKept' /\ Sized'
    BY <2>1 DEF Guarded, TypeOK, LockHeld, LevelKept, IrqlRestored, Sized, Inside, Level
  <2>4. Steps'
    BY <2>1 DEF Guarded, TypeOK, Steps
  <2> QED  BY <2>2, <2>3, <2>4 DEF Guarded
<1> QED  BY <1>1, <1>2

LEMMA LockGuarded == ASSUME Guarded, NEW t \in Threads, Lock(t) PROVE Guarded'
<1>1. /\ pc[t] = "lock" /\ pc' = [pc EXCEPT ![t] = "locked"] /\ lock_ = Null /\ lock_' = t
      /\ irql_' = irql[t] /\ irql' = [irql EXCEPT ![t] = "dispatch"]
      /\ UNCHANGED <<list_, size_, buffer, heap, op, want, node, local, intact>>
  BY DEF Lock, Goto, nodeVars, callVars
<1>2. TypeOK'
  BY <1>1 DEF Guarded, TypeOK, Step
<1>3. \A u \in Threads : pc[u] \notin Inside
  BY <1>1, SafeListAssumption DEF Guarded, LockHeld
<1>4. /\ pc'[t] = "locked" /\ \A u \in Threads : u # t => pc'[u] = pc[u]
      /\ irql[t] = Level(t) /\ \A u \in Threads : u # t => irql'[u] = irql[u]
  BY <1>1 DEF Guarded, TypeOK, LevelKept, IrqlRestored
<1>5. LockHeld'
  BY <1>1, <1>3, <1>4 DEF LockHeld, Inside
<1>6. LevelKept'
  BY <1>1, <1>4 DEF Guarded, LevelKept, IrqlRestored, Level
<1>7. Sized'
  BY <1>1, <1>3, <1>4, SafeListAssumption DEF Guarded, Sized, Inside
<1>8. Steps'
  BY <1>1, <1>4 DEF Guarded, Steps
<1> QED  BY <1>2, <1>5, <1>6, <1>7, <1>8 DEF Guarded

LEMMA UnlockGuarded == ASSUME Guarded, NEW t \in Threads, Unlock(t) PROVE Guarded'
<1> DEFINE next == IF op[t] = "push" THEN "idle" ELSE "delete"
<1>1. /\ pc[t] = "unlock" /\ pc' = [pc EXCEPT ![t] = next]
      /\ lock_' = Null /\ irql' = [irql EXCEPT ![t] = irql_]
      /\ UNCHANGED <<list_, size_, buffer, heap, irql_, op, want, node, local, intact>>
  BY DEF Unlock, Goto, nodeVars, callVars
<1>2. lock_ = t /\ irql_ = Level(t) /\ size_ = Len(list_)
  BY <1>1, SafeListAssumption DEF Guarded, LockHeld, LevelKept, Sized, Inside
<1>3. \A u \in Threads : u # t => pc[u] \notin Inside
  BY <1>2 DEF Guarded, LockHeld
<1>4. TypeOK'
  BY <1>1 DEF Guarded, TypeOK, Step
<1>5. /\ pc'[t] = next /\ \A u \in Threads : u # t => pc'[u] = pc[u]
      /\ irql'[t] = Level(t) /\ \A u \in Threads : u # t => irql'[u] = irql[u]
  BY <1>1, <1>2 DEF Guarded, TypeOK
<1>6. LockHeld'
  BY <1>1, <1>3, <1>5, SafeListAssumption DEF LockHeld, Inside
<1>7. LevelKept'
  BY <1>1, <1>5 DEF Guarded, LevelKept, IrqlRestored, Level
<1>8. Sized'
  BY <1>1, <1>2, <1>3, <1>5 DEF Sized, Inside
<1>9. Steps'
  BY <1>1, <1>5 DEF Guarded, Steps
<1> QED  BY <1>4, <1>6, <1>7, <1>8, <1>9 DEF Guarded

\* The other threads have no part in what the lock's holder does.
LEMMA SectionGuarded ==
  ASSUME Guarded, TypeOK', NEW t \in Threads, NEW next \in {"inc", "dec", "zero", "unlock"},
         pc[t] \in Inside, pc' = [pc EXCEPT ![t] = next],
         UNCHANGED <<lock_, irql_, irql, op>>,
         \A u \in Threads : u # t => node'[u] = node[u],
         next = "inc" => op[t] = "push" /\ size_' + 1 = Len(list_'),
         next = "dec" => op[t] \in {"pop", "find"} /\ size_' = Len(list_') + 1,
         next = "zero" => op[t] = "clear" /\ list_' = <<>> /\ size_' = Len(local'[t]),
         next = "unlock" => size_' = Len(list_')
  PROVE  Guarded'
<1>1. lock_ = t /\ lock_ # Null
  BY SafeListAssumption DEF Guarded, LockHeld
<1>2. \A u \in Threads : u # t => pc[u] \notin Inside
  BY <1>1 DEF Guarded, LockHeld
<1>3. pc'[t] = next /\ \A u \in Threads : u # t => pc'[u] = pc[u]
  BY DEF Guarded, TypeOK
<1>4. LockHeld'
  BY <1>1, <1>2, <1>3 DEF LockHeld, Inside
<1>5. LevelKept'
  BY <1>1, <1>2, <1>3 DEF Guarded, LevelKept, IrqlRestored, Level, Inside
<1>6. Sized'
  BY <1>1, <1>2, <1>3 DEF Sized, Inside
<1>7. Steps'
  BY <1>3 DEF Guarded, Steps
<1> QED  BY <1>4, <1>5, <1>6, <1>7 DEF Guarded

LEMMA InsertGuarded == ASSUME Guarded, NEW t \in Threads, InsertTail(t) PROVE Guarded'
<1>1. /\ pc[t] = "locked" /\ op[t] = "push" /\ pc' = [pc EXCEPT ![t] = "inc"]
      /\ list_' = Append(list_, node[t])
      /\ UNCHANGED <<size_, buffer, heap, lock_, irql_, irql, op, want, node, local, intact>>
  BY DEF InsertTail, Goto, callVars
<1>2. node[t] \in Nodes /\ list_ \in Seq(Nodes) /\ size_ = Len(list_)
  BY <1>1 DEF Guarded, TypeOK, Steps, Sized
<1>3. list_' \in Seq(Nodes) /\ Len(list_') = Len(list_) + 1
  BY <1>1, <1>2, AppendNode
<1>4. TypeOK'
  BY <1>1, <1>3 DEF Guarded, TypeOK, Step
<1> QED  BY <1>1, <1>2, <1>3, <1>4, SectionGuarded DEF Inside

\* What a removal from the list leaves behind.
LEMMA TakenGuarded ==
  ASSUME Guarded, NEW t \in Threads, pc[t] = "locked", op[t] \in {"pop", "find"},
         NEW n \in Nodes, node' = [node EXCEPT ![t] = n],
         list_' \in Seq(Nodes), Len(list_') = Len(list_) - 1,
         pc' = [pc EXCEPT ![t] = "dec"], intact' \in BOOLEAN,
         UNCHANGED <<size_, buffer, heap, lock_, irql_, irql, op, want, local>>
  PROVE  Guarded'
<1>1. size_ = Len(list_) /\ list_ \in Seq(Nodes)
  BY DEF Guarded, TypeOK, Sized
<1>2. TypeOK'
  BY DEF Guarded, TypeOK, Step
<1>3. \A u \in Threads : u # t => node'[u] = node[u]
  BY DEF Guarded, TypeOK
<1>4. size_' = Len(list_') + 1
  BY <1>1, LenProperties
<1> QED  BY <1>1, <1>2, <1>3, <1>4, SectionGuarded DEF Inside

LEMMA RemoveGuarded == ASSUME Guarded, NEW t \in Threads, RemoveHead(t) PROVE Guarded'
<1>1. /\ pc[t] = "locked" /\ op[t] = "pop" /\ list_ \in Seq(Nodes) /\ size_ = Len(list_)
      /\ UNCHANGED <<size_, buffer, heap, lock_, irql_, irql, op, want, local, intact>>
  BY DEF RemoveHead, callVars, Guarded, TypeOK, Sized
<1>2. CASE list_ = <<>>
  <2>1. pc' = [pc EXCEPT ![t] = "unlock"] /\ UNCHANGED <<list_, node>>
    BY <1>2 DEF RemoveHead, Goto
  <2>2. TypeOK'
    BY <1>1, <2>1 DEF Guarded, TypeOK, Step
  <2> QED  BY <1>1, <2>1, <2>2, SectionGuarded DEF Inside
<1>3. CASE list_ # <<>>
  <2>1. /\ pc' = [pc EXCEPT ![t] = "dec"] /\ list_' = Tail(list_)
        /\ node' = [node EXCEPT ![t] = Head(list_)]
    BY <1>3 DEF RemoveHead, Goto
  <2>2. intact' \in BOOLEAN
    BY <1>1 DEF Guarded, TypeOK
  <2> QED  BY <1>1, <1>3, <2>1, <2>2, RemoveFirstNode, TakenGuarded
<1> QED  BY <1>2, <1>3

\* The nodes with the buffer that is searched for.
Hits(t) == {k \in DOMAIN list_ : buffer[list_[k]] = want[t]}

LEMMA HitProperties ==
  ASSUME TypeOK, NEW t \in Threads, Hits(t) # {}
  PROVE  /\ Min(Hits(t)) \in DOMAIN list_ /\ buffer[list_[Min(Hits(t))]] = want[t]
         /\ \A j \in 1..(Min(Hits(t)) - 1) : buffer[list_[j]] # want[t]
<1> DEFINE k == Min(Hits(t))
<1>1. Hits(t) \subseteq Nat /\ Hits(t) \subseteq DOMAIN list_
  BY DEF TypeOK, Hits
<1>2. k \in Hits(t) /\ \A j \in Hits(t) : k <= j
  BY <1>1, MinMember
<1> HIDE DEF k
<1>3. /\ k \in 1..Len(list_) /\ DOMAIN list_ = 1..Len(list_) /\ Len(list_) \in Nat
      /\ buffer[list_[k]] = want[t]
  BY <1>1, <1>2 DEF TypeOK, Hits
<1>4. \A j \in 1..(k - 1) : j \notin Hits(t) /\ j \in DOMAIN list_
  BY <1>2, <1>3
<1>5. \A j \in 1..(k - 1) : buffer[list_[j]] # want[t]
  BY <1>4 DEF Hits
<1> QED  BY <1>3, <1>5 DEF k

LEMMA SearchGuarded == ASSUME Guarded, NEW t \in Threads, Search(t) PROVE Guarded'
<1>1. /\ pc[t] = "locked" /\ op[t] = "find" /\ list_ \in Seq(Nodes) /\ size_ = Len(list_)
      /\ intact' \in BOOLEAN
      /\ UNCHANGED <<size_, buffer, heap, lock_, irql_, irql, op, want, local>>
  BY DEF Search, callVars, Guarded, TypeOK, Sized
<1>2. CASE Hits(t) # {}
  <2> DEFINE k == Min(Hits(t))
  <2>1. /\ pc' = [pc EXCEPT ![t] = "dec"] /\ node' = [node EXCEPT ![t] = list_[k]]
        /\ list_' = RemoveAt(list_, k)
    BY <1>2 DEF Search, Goto, Hits
  <2>2. k \in DOMAIN list_
    BY <1>2, HitProperties DEF Guarded
  <2> HIDE DEF k
  <2> QED  BY <1>1, <2>1, <2>2, RemoveNode, TakenGuarded
<1>3. CASE Hits(t) = {}
  <2>1. /\ pc' = [pc EXCEPT ![t] = "unlock"] /\ UNCHANGED list_
        /\ node' = [node EXCEPT ![t] = IF list_ = <<>> THEN Null ELSE Last(list_)]
    BY <1>3 DEF Search, Goto, Hits
  <2>2. list_ # <<>> => Last(list_) \in Nodes
    BY <1>1, LenProperties, EmptySeq DEF Last
  <2>3. TypeOK'
    BY <1>1, <2>1, <2>2 DEF Guarded, TypeOK, Step
  <2>4. \A u \in Threads : u # t => node'[u] = node[u]
    BY <2>1 DEF Guarded, TypeOK
  <2> QED  BY <1>1, <2>1, <2>3, <2>4, SectionGuarded DEF Inside
<1> QED  BY <1>2, <1>3

LEMMA MoveGuarded == ASSUME Guarded, NEW t \in Threads, MoveAll(t) PROVE Guarded'
<1>1. /\ pc[t] = "locked" /\ op[t] = "clear" /\ pc' = [pc EXCEPT ![t] = "zero"]
      /\ local' = [local EXCEPT ![t] = list_] /\ list_' = <<>>
      /\ UNCHANGED <<size_, buffer, heap, lock_, irql_, irql, op, want, node, intact>>
  BY DEF MoveAll, Goto, callVars
<1>2. TypeOK'
  BY <1>1, EmptyNodes DEF Guarded, TypeOK, Step
<1>3. local'[t] = list_ /\ size_' = Len(list_)
  BY <1>1 DEF Guarded, TypeOK, Sized
<1> QED  BY <1>1, <1>2, <1>3, SectionGuarded DEF Inside

LEMMA ResetGuarded == ASSUME Guarded, NEW t \in Threads, Reset(t) PROVE Guarded'
<1>1. /\ pc[t] = "zero" /\ pc' = [pc EXCEPT ![t] = "unlock"] /\ size_' = 0
      /\ UNCHANGED <<list_, buffer, heap, lock_, irql_, irql, op, want, node, local, intact>>
  BY DEF Reset, Goto, callVars
<1>2. size_' = Len(list_')
  BY <1>1, EmptyNodes DEF Guarded, Sized
<1>3. TypeOK'
  BY <1>1 DEF Guarded, TypeOK, Step
<1> QED  BY <1>1, <1>2, <1>3, SectionGuarded DEF Inside

LEMMA CountGuarded == ASSUME Guarded, NEW t \in Threads, Count(t) PROVE Guarded'
<1>1. /\ pc[t] \in {"inc", "dec"} /\ pc' = [pc EXCEPT ![t] = "unlock"]
      /\ size_' = IF pc[t] = "inc" THEN size_ + 1 ELSE size_ - 1
      /\ UNCHANGED <<list_, buffer, heap, lock_, irql_, irql, op, want, node, local, intact>>
  BY DEF Count, Goto, callVars
<1>2. size_' = Len(list_) /\ Len(list_) \in Nat
  BY <1>1, LenProperties DEF Guarded, TypeOK, Sized
<1>3. TypeOK'
  BY <1>1, <1>2 DEF Guarded, TypeOK, Step
<1> QED  BY <1>1, <1>2, <1>3, SectionGuarded DEF Inside

\* After the lock: only the thread's own step and nodes change.
LEMMA AfterGuarded ==
  ASSUME Guarded, NEW t \in Threads, Delete(t) \/ Drain(t)
  PROVE  Guarded'
<1>1. /\ pc[t] = "delete" /\ op[t] # "push"
      /\ UNCHANGED <<list_, size_, lock_, irql_, irql, op, intact>>
      /\ pc' = [pc EXCEPT ![t] = "idle"] \/ pc' = pc
  BY DEF Delete, Drain, Goto, callVars
<1>2. /\ heap' \subseteq Nodes /\ buffer' \in [Nodes -> Buffers \cup {Null}]
      /\ want' \in [Threads -> Searched \cup {Null}]
      /\ local' \in [Threads -> Seq(Nodes)]
      /\ node' \in [Threads -> Nodes \cup {Null}]
      /\ \A u \in Threads : u # t => node'[u] = node[u] /\ local'[u] = local[u]
  <2>1. CASE Delete(t)
    BY <2>1 DEF Delete, Free, Guarded, TypeOK
  <2>2. CASE Drain(t)
    <3>1. CASE local[t] = <<>>
      BY <2>2, <3>1 DEF Drain, callVars, Guarded, TypeOK
    <3>2. CASE local[t] # <<>>
      <4>1. Tail(local[t]) \in Seq(Nodes)
        BY <3>2, RemoveFirstNode DEF Guarded, TypeOK
      <4>2. /\ local' = [local EXCEPT ![t] = Tail(local[t])] /\ UNCHANGED <<want, node>>
            /\ heap' = heap \ {Head(local[t])}
            /\ buffer' = [m \in Nodes |-> IF m = Head(local[t]) THEN Null ELSE buffer[m]]
        BY <2>2, <3>2 DEF Drain, Free, callVars
      <4> QED  BY <4>1, <4>2 DEF Guarded, TypeOK
    <3> QED  BY <3>1, <3>2
  <2> QED  BY <2>1, <2>2
<1>3. TypeOK'
  BY <1>1, <1>2 DEF Guarded, TypeOK, Step
<1>4. /\ pc'[t] \in {"idle", "delete"} /\ \A u \in Threads : u # t => pc'[u] = pc[u]
  BY <1>1 DEF Guarded, TypeOK
<1>5. LockHeld' /\ LevelKept' /\ Sized'
  BY <1>1, <1>2, <1>4 DEF Guarded, LockHeld, LevelKept, IrqlRestored, Sized, Inside, Level
<1>6. Steps'
  BY <1>1, <1>2, <1>4 DEF Guarded, Steps
<1> QED  BY <1>3, <1>5, <1>6 DEF Guarded

LEMMA NextGuarded == Guarded /\ [Next]_vars => Guarded'
<1> SUFFICES ASSUME Guarded, Next PROVE Guarded'
  BY StutterGuarded
<1> PICK t \in Threads : \/ Run(t)
                         \/ \E b \in Buffers : Push(t, b)
                         \/ \E o \in {"pop", "clear"} : Call(t, o, Null)
                         \/ \E b \in Searched : Call(t, "find", b)
  BY DEF Next
<1> QED
  BY CallGuarded, LockGuarded, UnlockGuarded, InsertGuarded, RemoveGuarded, SearchGuarded,
     MoveGuarded, ResetGuarded, CountGuarded, AfterGuarded DEF Run

-----------------------------------------------------------------------------
(* Where the nodes are *)

\* The node that a thread has in its hand: Push gives its own away by linking it.
Hand(t) == IF op[t] = "push" /\ pc[t] \in {"idle", "inc", "unlock"} THEN Null ELSE node[t]

Linked(n)    == n \in Range(list_)
Moved(n, t)  == n \in Range(local[t])
InHand(n, t) == Hand(t) = n

NoRepeats == Injective(list_) /\ \A t \in Threads : Injective(local[t])

\* No node is in two places.
Apart ==
  \A n \in Nodes : \A t, u \in Threads :
    /\ ~(Linked(n) /\ Moved(n, t)) /\ ~(Linked(n) /\ InHand(n, t))
    /\ ~(Moved(n, t) /\ InHand(n, u))
    /\ t # u => ~(Moved(n, t) /\ Moved(n, u)) /\ ~(InHand(n, t) /\ InHand(n, u))

\* The allocated nodes are those that are somewhere.
Covered ==
  \A n \in Nodes :
    n \in heap <=> Linked(n) \/ \E t \in Threads : Moved(n, t) \/ InHand(n, t)

\* Only Clear moves nodes, and the other calls come to the lock without one.
Shape ==
  \A t \in Threads :
    /\ local[t] # <<>> => op[t] = "clear" /\ pc[t] \in {"zero", "unlock", "delete"}
    /\ op[t] = "clear" => node[t] = Null
    /\ op[t] # "push" /\ pc[t] \in {"idle", "lock", "locked"} => node[t] = Null

Placed == NoRepeats /\ Apart /\ Covered /\ Shape
Held   == intact => Placed
IInv   == Guarded /\ Held

LEMMA InitHeld == Init => Held
<1> SUFFICES ASSUME Init PROVE Placed
  BY DEF Held
<1>1. /\ list_ = <<>> /\ heap = {} /\ \A t \in Threads : local[t] = <<>> /\ node[t] = Null
      /\ \A t \in Threads : op[t] = "pop"
  BY DEF Init
<1>2. /\ \A n \in Nodes : ~Linked(n)
      /\ \A n \in Nodes, t \in Threads : ~Moved(n, t) /\ ~InHand(n, t)
  BY <1>1, EmptyNodes, SafeListAssumption DEF Linked, Moved, InHand, Hand
<1>3. NoRepeats
  BY <1>1, EmptyNodes DEF NoRepeats
<1>4. Apart /\ Covered
  BY <1>1, <1>2 DEF Apart, Covered
<1>5. Shape
  BY <1>1 DEF Shape
<1> QED  BY <1>3, <1>4, <1>5 DEF Placed

\* Steps that move no node.
LEMMA StayPlaced ==
  ASSUME Placed, UNCHANGED <<list_, local, heap>>, Shape',
         \A t \in Threads : Hand(t)' = Hand(t)
  PROVE  Placed'
<1>1. /\ \A n \in Nodes : Linked(n)' <=> Linked(n)
      /\ \A n \in Nodes, t \in Threads : /\ Moved(n, t)' <=> Moved(n, t)
                                         /\ InHand(n, t)' <=> InHand(n, t)
  BY DEF Linked, Moved, InHand
<1>2. NoRepeats'
  BY DEF Placed, NoRepeats
<1>3. Apart' /\ Covered'
  BY <1>1 DEF Placed, Apart, Covered
<1> QED  BY <1>2, <1>3 DEF Placed

LEMMA StutterHeld == Held /\ UNCHANGED vars => Held'
<1> SUFFICES ASSUME Held, UNCHANGED vars, intact PROVE Placed'
  BY DEF Held, vars
<1>1. Shape' /\ \A t \in Threads : Hand(t)' = Hand(t)
  BY DEF Held, Placed, Shape, Hand, vars, nodeVars, callVars
<1> QED  BY <1>1, StayPlaced DEF Held, vars, nodeVars

LEMMA PushHeld ==
  ASSUME IInv, intact', NEW t \in Threads, NEW b \in Buffers, Push(t, b)
  PROVE  Placed'
<1>1. PICK n \in Nodes \ heap : heap' = heap \cup {n} /\ node' = [node EXCEPT ![t] = n]
  BY DEF Push
<1>2. /\ pc[t] = "idle" /\ pc' = [pc EXCEPT ![t] = "lock"]
      /\ op' = [op EXCEPT ![t] = "push"]
      /\ UNCHANGED <<list_, local, intact>> /\ Placed /\ TypeOK
  BY DEF Push, Goto, IInv, Held, Guarded
<1>3. /\ pc'[t] = "lock" /\ op'[t] = "push" /\ node'[t] = n
      /\ \A u \in Threads : u # t => pc'[u] = pc[u] /\ op'[u] = op[u] /\ node'[u] = node[u]
  BY <1>1, <1>2 DEF TypeOK
<1>4. Hand(t) = Null /\ Hand(t)' = n /\ \A u \in Threads : u # t => Hand(u)' = Hand(u)
  BY <1>2, <1>3 DEF Placed, Shape, Hand
<1>5. ~Linked(n) /\ \A u \in Threads : ~Moved(n, u) /\ ~InHand(n, u)
  BY <1>2 DEF Placed, Covered
<1>6. /\ \A m \in Nodes : Linked(m)' <=> Linked(m)
      /\ \A m \in Nodes, u \in Threads : /\ Moved(m, u)' <=> Moved(m, u)
                                         /\ InHand(m, u)' <=> IF u = t THEN m = n ELSE InHand(m, u)
      /\ \A m \in Nodes : ~InHand(m, t)
  BY <1>2, <1>4, SafeListAssumption DEF Linked, Moved, InHand
<1>7. NoRepeats'
  BY <1>2 DEF Placed, NoRepeats
<1>8. Apart'
  BY <1>2, <1>5, <1>6 DEF Placed, Apart
<1>9. Covered'
  BY <1>1, <1>2, <1>5, <1>6 DEF Placed, Covered
<1>10. Shape'
  BY <1>2, <1>3 DEF Placed, Shape
<1> QED  BY <1>7, <1>8, <1>9, <1>10 DEF Placed

LEMMA CallHeld ==
  ASSUME IInv, intact', NEW t \in Threads, NEW o \in {"pop", "clear", "find"}, NEW b,
         Call(t, o, b)
  PROVE  Placed'
<1>1. /\ pc[t] = "idle" /\ pc' = [pc EXCEPT ![t] = "lock"]
      /\ op' = [op EXCEPT ![t] = o] /\ node' = [node EXCEPT ![t] = Null]
      /\ UNCHANGED <<list_, local, heap, intact>> /\ Placed /\ TypeOK
  BY DEF Call, Goto, nodeVars, IInv, Held, Guarded
<1>2. /\ pc'[t] = "lock" /\ op'[t] = o /\ node'[t] = Null
      /\ \A u \in Threads : u # t => pc'[u] = pc[u] /\ op'[u] = op[u] /\ node'[u] = node[u]
  BY <1>1 DEF TypeOK
<1>3. Shape' /\ \A u \in Threads : Hand(u)' = Hand(u)
  BY <1>1, <1>2 DEF Placed, Shape, Hand
<1> QED  BY <1>1, <1>3, StayPlaced

\* The lock, the unlock, the reset and the count change the thread's step only.
LEMMA StepHeld ==
  ASSUME IInv, intact', NEW t \in Threads, Lock(t) \/ Unlock(t) \/ Reset(t) \/ Count(t)
  PROVE  Placed'
<1>1. /\ UNCHANGED <<list_, local, heap, intact, op, node>> /\ Placed /\ Guarded
      /\ \A u \in Threads : u # t => pc'[u] = pc[u]
  BY DEF Lock, Unlock, Reset, Count, Goto, nodeVars, callVars, IInv, Held, Guarded, TypeOK
<1>2. \/ pc[t] = "lock" /\ pc'[t] = "locked"
      \/ pc[t] = "unlock" /\ pc'[t] = IF op[t] = "push" THEN "idle" ELSE "delete"
      \/ pc[t] = "inc" /\ op[t] = "push" /\ pc'[t] = "unlock"
      \/ pc[t] = "dec" /\ op[t] \in {"pop", "find"} /\ pc'[t] = "unlock"
      \/ pc[t] = "zero" /\ op[t] = "clear" /\ pc'[t] = "unlock"
  BY DEF Lock, Unlock, Reset, Count, Goto, IInv, Guarded, TypeOK, Steps
<1>3. Shape' /\ \A u \in Threads : Hand(u)' = Hand(u)
  BY <1>1, <1>2 DEF Placed, Shape, Hand
<1> QED  BY <1>1, <1>3, StayPlaced

LEMMA InsertHeld ==
  ASSUME IInv, intact', NEW t \in Threads, InsertTail(t)
  PROVE  Placed'
<1> DEFINE n == node[t]
<1>1. /\ pc[t] = "locked" /\ op[t] = "push" /\ pc' = [pc EXCEPT ![t] = "inc"]
      /\ list_' = Append(list_, n) /\ list_ \in Seq(Nodes) /\ n \in Nodes
      /\ UNCHANGED <<local, heap, intact, op, node>> /\ Placed /\ TypeOK
  BY DEF InsertTail, Goto, callVars, IInv, Held, Guarded, TypeOK, Steps
<1>2. pc'[t] = "inc" /\ \A u \in Threads : u # t => pc'[u] = pc[u]
  BY <1>1 DEF TypeOK
<1> HIDE DEF n
<1>3. Hand(t) = n /\ Hand(t)' = Null /\ \A u \in Threads : u # t => Hand(u)' = Hand(u)
  BY <1>1, <1>2 DEF Hand, n
<1>4. ~Linked(n) /\ InHand(n, t)
  BY <1>1, <1>3 DEF Placed, Apart, InHand
<1>5. /\ \A m \in Nodes : Linked(m)' <=> Linked(m) \/ m = n
      /\ \A m \in Nodes, u \in Threads : /\ Moved(m, u)' <=> Moved(m, u)
                                         /\ InHand(m, u)' <=> u # t /\ InHand(m, u)
      /\ \A m \in Nodes : InHand(m, t) <=> m = n
  BY <1>1, <1>3, AppendNode, SafeListAssumption DEF Linked, Moved, InHand
<1>6. NoRepeats'
  BY <1>1, <1>4, AppendNode DEF Placed, NoRepeats, Linked
<1>7. Apart'
  BY <1>1, <1>4, <1>5 DEF Placed, Apart
<1>8. Covered'
  BY <1>1, <1>4, <1>5 DEF Placed, Covered
<1>9. Shape'
  BY <1>1, <1>2 DEF Placed, Shape
<1> QED  BY <1>6, <1>7, <1>8, <1>9 DEF Placed

\* A node is unlinked and goes to the hand of the thread that has the lock.
LEMMA TakenPlaced ==
  ASSUME IInv, Placed, NEW t \in Threads, pc[t] = "locked", op[t] \in {"pop", "find"},
         NEW n \in Nodes, Linked(n), node' = [node EXCEPT ![t] = n],
         Injective(list_'), Range(list_') = Range(list_) \ {n},
         pc' = [pc EXCEPT ![t] = "dec"], UNCHANGED <<local, heap, op>>
  PROVE  Placed'
<1>1. /\ pc'[t] = "dec" /\ node'[t] = n
      /\ \A u \in Threads : u # t => pc'[u] = pc[u] /\ node'[u] = node[u]
  BY DEF IInv, Guarded, TypeOK
<1>2. Hand(t) = Null /\ Hand(t)' = n /\ \A u \in Threads : u # t => Hand(u)' = Hand(u)
  BY <1>1 DEF Placed, Shape, Hand
<1>3. /\ \A m \in Nodes : Linked(m)' <=> Linked(m) /\ m # n
      /\ \A m \in Nodes, u \in Threads : /\ Moved(m, u)' <=> Moved(m, u)
                                         /\ InHand(m, u)' <=> IF u = t THEN m = n ELSE InHand(m, u)
      /\ \A m \in Nodes : ~InHand(m, t)
  BY <1>2, SafeListAssumption DEF Linked, Moved, InHand
<1>4. NoRepeats'
  BY DEF Placed, NoRepeats
<1>5. Apart'
  BY <1>3 DEF Placed, Apart
<1>6. Covered'
  BY <1>3 DEF Placed, Covered
<1>7. Shape'
  BY <1>1 DEF Placed, Shape
<1> QED  BY <1>4, <1>5, <1>6, <1>7 DEF Placed

\* The list is empty: nothing is taken.
LEMMA MissedPlaced ==
  ASSUME IInv, Placed, NEW t \in Threads, pc[t] = "locked", op[t] \in {"pop", "find"},
         pc' = [pc EXCEPT ![t] = "unlock"], node'[t] = Null,
         \A u \in Threads : u # t => node'[u] = node[u],
         UNCHANGED <<list_, local, heap, op>>
  PROVE  Placed'
<1>1. pc'[t] = "unlock" /\ \A u \in Threads : u # t => pc'[u] = pc[u]
  BY DEF IInv, Guarded, TypeOK
<1>2. Shape' /\ \A u \in Threads : Hand(u)' = Hand(u)
  BY <1>1 DEF Placed, Shape, Hand
<1> QED  BY <1>2, StayPlaced

LEMMA RemoveHeld ==
  ASSUME IInv, intact', NEW t \in Threads, RemoveHead(t)
  PROVE  Placed'
<1>1. /\ pc[t] = "locked" /\ op[t] = "pop" /\ UNCHANGED <<local, heap, intact, op>>
      /\ Placed /\ TypeOK /\ list_ \in Seq(Nodes) /\ Injective(list_)
  BY DEF RemoveHead, callVars, IInv, Held, Guarded, TypeOK, Placed, NoRepeats
<1>2. CASE list_ = <<>>
  <2>1. pc' = [pc EXCEPT ![t] = "unlock"] /\ UNCHANGED <<list_, node>> /\ node[t] = Null
    BY <1>1, <1>2 DEF RemoveHead, Goto, Placed, Shape
  <2> QED  BY <1>1, <2>1, MissedPlaced
<1>3. CASE list_ # <<>>
  <2>1. /\ pc' = [pc EXCEPT ![t] = "dec"] /\ list_' = Tail(list_)
        /\ node' = [node EXCEPT ![t] = Head(list_)]
    BY <1>3 DEF RemoveHead, Goto
  <2>2. /\ Head(list_) \in Nodes /\ Linked(Head(list_)) /\ Injective(list_')
        /\ Range(list_') = Range(list_) \ {Head(list_)}
    BY <1>1, <1>3, <2>1, RemoveFirstNode DEF Linked
  <2> QED  BY <1>1, <2>1, <2>2, TakenPlaced
<1> QED  BY <1>2, <1>3

LEMMA SearchHeld ==
  ASSUME IInv, intact', NEW t \in Threads, Search(t)
  PROVE  Placed'
<1>1. /\ pc[t] = "locked" /\ op[t] = "find" /\ UNCHANGED <<local, heap, op>>
      /\ Placed /\ TypeOK /\ list_ \in Seq(Nodes) /\ Injective(list_)
      /\ list_ = <<>> \/ list_' # list_
  BY DEF Search, callVars, IInv, Held, Guarded, TypeOK, Placed, NoRepeats
<1>2. CASE Hits(t) # {}
  <2> DEFINE k == Min(Hits(t))
  <2>1. /\ pc' = [pc EXCEPT ![t] = "dec"] /\ node' = [node EXCEPT ![t] = list_[k]]
        /\ list_' = RemoveAt(list_, k)
    BY <1>2 DEF Search, Goto, Hits
  <2>2. k \in DOMAIN list_
    BY <1>1, <1>2, HitProperties
  <2> HIDE DEF k
  <2>3. /\ list_[k] \in Nodes /\ Linked(list_[k]) /\ Injective(list_')
        /\ Range(list_') = Range(list_) \ {list_[k]}
    BY <1>1, <2>1, <2>2, RemoveNode DEF Linked
  <2> QED  BY <1>1, <2>1, <2>3, TakenPlaced
<1>3. CASE Hits(t) = {}
  <2>1. /\ pc' = [pc EXCEPT ![t] = "unlock"] /\ UNCHANGED list_ /\ list_ = <<>>
        /\ node' = [node EXCEPT ![t] = Null]
    BY <1>1, <1>3 DEF Search, Goto, Hits
  <2>2. node'[t] = Null /\ \A u \in Threads : u # t => node'[u] = node[u]
    BY <1>1, <2>1 DEF TypeOK
  <2> QED  BY <1>1, <2>1, <2>2, MissedPlaced
<1> QED  BY <1>2, <1>3

LEMMA MoveHeld ==
  ASSUME IInv, intact', NEW t \in Threads, MoveAll(t)
  PROVE  Placed'
<1>1. /\ pc[t] = "locked" /\ op[t] = "clear" /\ pc' = [pc EXCEPT ![t] = "zero"]
      /\ local' = [local EXCEPT ![t] = list_] /\ list_' = <<>>
      /\ UNCHANGED <<heap, intact, op, node>> /\ Placed /\ TypeOK
  BY DEF MoveAll, Goto, callVars, IInv, Held, Guarded
<1>2. /\ pc'[t] = "zero" /\ \A u \in Threads : u # t => pc'[u] = pc[u]
      /\ local'[t] = list_ /\ \A u \in Threads : u # t => local'[u] = local[u]
      /\ local[t] = <<>>
  BY <1>1 DEF TypeOK, Placed, Shape
<1>3. \A u \in Threads : Hand(u)' = Hand(u)
  BY <1>1, <1>2 DEF Hand
<1>4. /\ \A m \in Nodes : ~Linked(m)' /\ ~Moved(m, t)
      /\ \A m \in Nodes, u \in Threads :
           /\ Moved(m, u)' <=> IF u = t THEN Linked(m) ELSE Moved(m, u)
           /\ InHand(m, u)' <=> InHand(m, u)
  BY <1>1, <1>2, <1>3, EmptyNodes DEF Linked, Moved, InHand
<1>5. NoRepeats'
  BY <1>1, <1>2, EmptyNodes DEF Placed, NoRepeats
<1>6. Apart'
  BY <1>1, <1>4 DEF Placed, Apart
<1>7. Covered'
  BY <1>1, <1>4 DEF Placed, Covered
<1>8. Shape'
  BY <1>1, <1>2 DEF Placed, Shape
<1> QED  BY <1>5, <1>6, <1>7, <1>8 DEF Placed

LEMMA DeleteHeld ==
  ASSUME IInv, intact', NEW t \in Threads, Delete(t)
  PROVE  Placed'
<1> DEFINE n == node[t]
<1>1. /\ pc[t] = "delete" /\ op[t] \in {"pop", "find"} /\ pc' = [pc EXCEPT ![t] = "idle"]
      /\ heap' = heap \ {n} /\ node' = [node EXCEPT ![t] = Null]
      /\ UNCHANGED <<list_, op, local, intact>> /\ Placed /\ TypeOK
  BY DEF Delete, Free, Goto, IInv, Held, Guarded
<1>2. /\ pc'[t] = "idle" /\ node'[t] = Null
      /\ \A u \in Threads : u # t => pc'[u] = pc[u] /\ node'[u] = node[u]
  BY <1>1 DEF TypeOK
<1>3. Hand(t) = n /\ Hand(t)' = Null /\ \A u \in Threads : u # t => Hand(u)' = Hand(u)
  BY <1>1, <1>2 DEF Hand
<1> HIDE DEF n
<1>4. /\ \A m \in Nodes : Linked(m)' <=> Linked(m)
      /\ \A m \in Nodes, u \in Threads : /\ Moved(m, u)' <=> Moved(m, u)
                                         /\ InHand(m, u)' <=> u # t /\ InHand(m, u)
      /\ \A m \in Nodes : InHand(m, t) <=> m = n
  BY <1>1, <1>3, SafeListAssumption DEF Linked, Moved, InHand
<1>5. NoRepeats'
  BY <1>1 DEF Placed, NoRepeats
<1>6. Apart'
  BY <1>1, <1>4 DEF Placed, Apart
<1>7. Covered'
  BY <1>1, <1>4 DEF Placed, Covered, Apart
<1>8. Shape'
  BY <1>1, <1>2 DEF Placed, Shape
<1> QED  BY <1>5, <1>6, <1>7, <1>8 DEF Placed

LEMMA DrainHeld ==
  ASSUME IInv, intact', NEW t \in Threads, Drain(t)
  PROVE  Placed'
<1>1. /\ pc[t] = "delete" /\ op[t] = "clear" /\ node[t] = Null
      /\ UNCHANGED <<list_, op, node, intact>> /\ Placed /\ TypeOK
  BY DEF Drain, callVars, IInv, Held, Guarded, Placed, Shape
<1>2. CASE local[t] = <<>>
  <2>1. pc' = [pc EXCEPT ![t] = "idle"] /\ UNCHANGED <<heap, local>>
    BY <1>2 DEF Drain, Goto
  <2>2. pc'[t] = "idle" /\ \A u \in Threads : u # t => pc'[u] = pc[u]
    BY <1>1, <2>1 DEF TypeOK
  <2>3. Shape' /\ \A u \in Threads : Hand(u)' = Hand(u)
    BY <1>1, <1>2, <2>1, <2>2 DEF Placed, Shape, Hand
  <2> QED  BY <1>1, <2>1, <2>3, StayPlaced
<1>3. CASE local[t] # <<>>
  <2> DEFINE n == Head(local[t])
  <2>1. /\ heap' = heap \ {n} /\ local' = [local EXCEPT ![t] = Tail(local[t])]
        /\ UNCHANGED pc /\ local[t] \in Seq(Nodes) /\ Injective(local[t])
    BY <1>1, <1>3 DEF Drain, Free, TypeOK, Placed, NoRepeats
  <2>2. /\ local'[t] = Tail(local[t]) /\ \A u \in Threads : u # t => local'[u] = local[u]
    BY <1>1, <2>1 DEF TypeOK
  <2>3. /\ n \in Nodes /\ Moved(n, t) /\ Injective(local'[t])
        /\ Range(local'[t]) = Range(local[t]) \ {n}
    BY <1>3, <2>1, <2>2, RemoveFirstNode DEF Moved
  <2> HIDE DEF n
  <2>4. \A u \in Threads : Hand(u)' = Hand(u)
    BY <1>1, <2>1 DEF Hand
  <2>5. /\ \A m \in Nodes : Linked(m)' <=> Linked(m)
        /\ \A m \in Nodes, u \in Threads :
             /\ Moved(m, u)' <=> Moved(m, u) /\ ~(u = t /\ m = n)
             /\ InHand(m, u)' <=> InHand(m, u)
    BY <1>1, <2>2, <2>3, <2>4 DEF Linked, Moved, InHand
  <2>6. NoRepeats'
    BY <1>1, <2>2, <2>3 DEF Placed, NoRepeats
  <2>7. Apart'
    BY <1>1, <2>5 DEF Placed, Apart
  <2>8. Covered'
    BY <1>1, <2>1, <2>3, <2>5 DEF Placed, Covered, Apart
  <2>9. Shape'
    BY <1>1, <1>3, <2>1, <2>2 DEF Placed, Shape
  <2> QED  BY <2>6, <2>7, <2>8, <2>9 DEF Placed
<1> QED  BY <1>2, <1>3

LEMMA NextHeld == IInv /\ [Next]_vars => Held'
<1> SUFFICES ASSUME IInv, Next, intact' PROVE Placed'
  BY StutterHeld DEF Held, IInv
<1> PICK t \in Threads : \/ Run(t)
                         \/ \E b \in Buffers : Push(t, b)
                         \/ \E o \in {"pop", "clear"} : Call(t, o, Null)
                         \/ \E b \in Searched : Call(t, "find", b)
  BY DEF Next
<1> QED
  BY PushHeld, CallHeld, StepHeld, InsertHeld, RemoveHeld, SearchHeld, MoveHeld,
     DeleteHeld, DrainHeld DEF Run

-----------------------------------------------------------------------------
(* Theorems *)

LEMMA Invariance == Spec => []IInv
<1>1. Init => IInv
  BY InitGuarded, InitHeld DEF IInv
<1>2. IInv /\ [Next]_vars => IInv'
  BY NextGuarded, NextHeld DEF IInv
<1> QED  BY <1>1, <1>2, PTL DEF Spec

\* The variables keep their types: size_ never becomes negative, and the list
\* never holds anything but nodes.
THEOREM TypeCorrect == Spec => []TypeOK
<1>1. IInv => TypeOK
  BY DEF IInv, Guarded
<1> QED  BY <1>1, Invariance, PTL

\* With any number of threads, an unlocked Size() reads the length before or after
\* the one operation inside the lock: it lags behind by the node that is being
\* counted, or by all that a Clear has just moved out, and by nothing else.
THEOREM SizeIsExact == Spec => []SizeExactUnlocked
<1>1. IInv => SizeExactUnlocked
  <2> SUFFICES ASSUME IInv PROVE SizeExactUnlocked
    OBVIOUS
  <2>1. lock_ # Null => lock_ \in Threads /\ pc[lock_] \in Inside
    BY DEF IInv, Guarded, TypeOK, LockHeld
  <2>2. size_ \in Nat /\ Len(list_) \in Nat
    BY LenProperties DEF IInv, Guarded, TypeOK
  <2>3. (\A t \in Threads : pc[t] \notin {"inc", "dec", "zero"}) => size_ = Len(list_)
    BY <2>1 DEF IInv, Guarded, Sized, Inside
  <2> QED  BY <2>2, <2>3 DEF IInv, Guarded, Sized, SizeExactUnlocked
<1> QED  BY <1>1, Invariance, PTL

\* Every thread gets back the level it has called with, though the SpinLock has
\* room for one level only.
THEOREM LevelsRestored == Spec => []IrqlRestored
<1>1. IInv => IrqlRestored
  BY DEF IInv, Guarded, LevelKept
<1> QED  BY <1>1, Invariance, PTL

\* Push, both Pops and Clear neither lose a node nor delete one twice, until a
\* search misses in a list that is not empty.
THEOREM NodesHeldOnce == Spec => []NodeHeldOnce
<1>1. IInv => NodeHeldOnce
  <2> SUFFICES ASSUME IInv, intact, NEW n \in Nodes
               PROVE  Cardinality({k \in DOMAIN list_ : list_[k] = n})
                      + Cardinality({t \in Threads : n \in Range(local[t])})
                      + Cardinality({t \in Threads :
                          /\ node[t] = n
                          /\ ~(op[t] = "push" /\ pc[t] \in {"idle", "inc", "unlock"})})
                        = IF n \in heap THEN 1 ELSE 0
    BY DEF NodeHeldOnce
  <2> DEFINE A == {k \in DOMAIN list_ : list_[k] = n}
             B == {t \in Threads : n \in Range(local[t])}
             C == {t \in Threads :
                     /\ node[t] = n
                     /\ ~(op[t] = "push" /\ pc[t] \in {"idle", "inc", "unlock"})}
  <2> SUFFICES Cardinality(A) + Cardinality(B) + Cardinality(C) = IF n \in heap THEN 1 ELSE 0
    OBVIOUS
  <2> HIDE DEF A, B, C
  <2>1. Placed
    BY DEF IInv, Held
  <2>2. (Linked(n) => \E k : A = {k}) /\ (~Linked(n) => A = {})
    <3>1. CASE Linked(n)
      <4>1. PICK k \in DOMAIN list_ : list_[k] = n
        BY <3>1 DEF Linked, Range
      <4>2. \A j \in DOMAIN list_ : list_[j] = n => j = k
        BY <2>1, <4>1 DEF Placed, NoRepeats, Injective
      <4>3. A = {k}
        BY <4>1, <4>2 DEF A
      <4> QED  BY <3>1, <4>3
    <3>2. CASE ~Linked(n)
      <4>1. \A k \in DOMAIN list_ : list_[k] # n
        BY <3>2 DEF Linked, Range
      <4>2. A = {}
        BY <4>1 DEF A
      <4> QED  BY <3>2, <4>2
    <3> QED  BY <3>1, <3>2
  <2>3. /\ B = {t \in Threads : Moved(n, t)}
        /\ C = {t \in Threads : InHand(n, t)}
    BY SafeListAssumption DEF Moved, InHand, Hand, B, C
  <2>4. /\ B = {} \/ \E t \in Threads : B = {t} /\ Moved(n, t)
        /\ C = {} \/ \E t \in Threads : C = {t} /\ InHand(n, t)
    BY <2>1, <2>3 DEF Placed, Apart
  <2>5. /\ Cardinality({}) = 0
        /\ \A x : Cardinality({x}) = 1
    BY FS_EmptySet, FS_Singleton
  <2>6. CASE Linked(n)
    <3>1. B = {} /\ C = {} /\ n \in heap
      BY <2>1, <2>3, <2>6 DEF Placed, Apart, Covered
    <3>2. Cardinality(A) = 1
      BY <2>2, <2>5, <2>6
    <3> QED  BY <2>5, <3>1, <3>2
  <2>7. CASE ~Linked(n) /\ \E t \in Threads : Moved(n, t)
    <3>1. A = {} /\ C = {} /\ n \in heap
      BY <2>1, <2>2, <2>3, <2>7 DEF Placed, Apart, Covered
    <3>2. Cardinality(B) = 1
      BY <2>3, <2>4, <2>5, <2>7
    <3> QED  BY <2>5, <3>1, <3>2
  <2>8. CASE ~Linked(n) /\ (\A t \in Threads : ~Moved(n, t)) /\ \E t \in Threads : InHand(n, t)
    <3>1. A = {} /\ B = {} /\ n \in heap
      BY <2>1, <2>2, <2>3, <2>8 DEF Placed, Covered
    <3>2. Cardinality(C) = 1
      BY <2>3, <2>4, <2>5, <2>8
    <3> QED  BY <2>5, <3>1, <3>2
  <2>9. CASE ~Linked(n) /\ \A t \in Threads : ~Moved(n, t) /\ ~InHand(n, t)
    <3>1. A = {} /\ B = {} /\ C = {} /\ n \notin heap
      BY <2>1, <2>2, <2>3, <2>9 DEF Placed, Covered
    <3> QED  BY <2>5, <3>1
  <2> QED  BY <2>6, <2>7, <2>8, <2>9
<1> QED  BY <1>1, Invariance, PTL

-----------------------------------------------------------------------------
(* The promise of module FifoList *)

\* A node that is allocated has been given a buffer.
Filled == \A n \in heap : buffer[n] \in Buffers

LEMMA InitFilled == Init => Filled
  BY DEF Init, Filled

LEMMA NextFilled == IInv /\ Filled /\ [Next]_vars => Filled'
<1> SUFFICES ASSUME IInv, Filled, [Next]_vars PROVE Filled'
  OBVIOUS
<1>1. TypeOK
  BY DEF IInv, Guarded
<1>2. CASE UNCHANGED <<buffer, heap>>
  BY <1>2 DEF Filled
<1>3. ASSUME NEW n, Free(n) PROVE Filled'
  BY <1>1, <1>3 DEF Filled, Free, TypeOK
<1>4. ASSUME NEW t \in Threads, NEW b \in Buffers, Push(t, b) PROVE Filled'
  BY <1>1, <1>4 DEF Push, Filled, TypeOK
<1>5. ASSUME NEW t \in Threads, Run(t) PROVE Filled'
  <2>1. UNCHANGED <<buffer, heap>> \/ \E n : Free(n)
    BY <1>5 DEF Run, Lock, Unlock, InsertTail, RemoveHead, Search, MoveAll, Reset, Count,
                Delete, Drain, nodeVars
  <2> QED  BY <1>2, <1>3, <2>1
<1> QED  BY <1>2, <1>4, <1>5 DEF Next, Call, vars, nodeVars

\* The buffers of a sequence of nodes.
BufferMap(s, f) == [k \in DOMAIN s |-> f[s[k]]]

LEMMA MapSame ==
  ASSUME NEW s \in Seq(Nodes), NEW f, NEW g, \A n \in Range(s) : f[n] = g[n]
  PROVE  BufferMap(s, f) = BufferMap(s, g)
  BY DEF BufferMap, Range

LEMMA MapAppend ==
  ASSUME NEW f, NEW s \in Seq(Nodes), NEW n \in Nodes
  PROVE  BufferMap(Append(s, n), f) = Append(BufferMap(s, f), f[n])
<1> DEFINE q == Append(s, n)
           T == {f[m] : m \in Nodes}
           a == BufferMap(s, f)
<1>1. /\ q \in Seq(Nodes) /\ Len(s) \in Nat /\ Len(q) = Len(s) + 1
      /\ DOMAIN q = 1..(Len(s) + 1) /\ DOMAIN s = 1..Len(s)
      /\ \A k \in 1..Len(s) : q[k] = s[k] /\ s[k] \in Nodes
      /\ q[Len(s) + 1] = n
  BY AppendProperties
<1>2. /\ a \in Seq(T) /\ Len(a) = Len(s) /\ DOMAIN a = 1..Len(s)
      /\ \A k \in 1..Len(s) : a[k] = f[s[k]]
  BY <1>1 DEF BufferMap
<1>3. f[n] \in T
  OBVIOUS
<1> HIDE DEF q, a, T
<1>4. /\ Append(a, f[n]) \in Seq(T) /\ Len(Append(a, f[n])) = Len(s) + 1
      /\ DOMAIN Append(a, f[n]) = 1..(Len(s) + 1)
      /\ \A k \in 1..Len(s) : Append(a, f[n])[k] = f[s[k]]
      /\ Append(a, f[n])[Len(s) + 1] = f[n]
  BY <1>1, <1>2, <1>3, AppendProperties
<1>5. Append(a, f[n]) = [k \in 1..(Len(s) + 1) |-> Append(a, f[n])[k]]
  BY <1>4
<1>6. \A k \in 1..(Len(s) + 1) : Append(a, f[n])[k] = f[q[k]]
  BY <1>1, <1>4
<1>7. BufferMap(q, f) = [k \in 1..(Len(s) + 1) |-> f[q[k]]]
  BY <1>1 DEF BufferMap
<1> QED  BY <1>5, <1>6, <1>7 DEF q, a

LEMMA MapTail ==
  ASSUME NEW f, NEW s \in Seq(Nodes), s # <<>>
  PROVE  /\ BufferMap(s, f) # <<>> /\ Head(BufferMap(s, f)) = f[Head(s)]
         /\ BufferMap(Tail(s), f) = Tail(BufferMap(s, f))
<1> DEFINE T == {f[m] : m \in Nodes}
           a == BufferMap(s, f)
           q == Tail(s)
           r == Tail(a)
<1>1. /\ Len(s) \in Nat \ {0} /\ DOMAIN s = 1..Len(s) /\ Head(s) = s[1]
      /\ q \in Seq(Nodes) /\ Len(q) = Len(s) - 1 /\ DOMAIN q = 1..(Len(s) - 1)
      /\ \A k \in 1..(Len(s) - 1) : q[k] = s[k + 1]
  BY HeadTailProperties, LenProperties, EmptySeq
<1>2. /\ a \in Seq(T) /\ Len(a) = Len(s) /\ \A k \in 1..Len(s) : a[k] = f[s[k]]
  BY <1>1 DEF BufferMap
<1> HIDE DEF a, T, q
<1>3. a # <<>> /\ Head(a) = a[1]
  BY <1>1, <1>2
<1>4. /\ r \in Seq(T) /\ Len(r) = Len(s) - 1 /\ DOMAIN r = 1..(Len(s) - 1)
      /\ \A k \in 1..(Len(s) - 1) : r[k] = a[k + 1]
  BY <1>1, <1>2, <1>3, HeadTailProperties, LenProperties
<1> HIDE DEF r
<1>5. \A k \in 1..(Len(s) - 1) : r[k] = f[q[k]]
  BY <1>1, <1>2, <1>4
<1>6. r = [k \in 1..(Len(s) - 1) |-> r[k]]
  BY <1>4
<1>7. BufferMap(q, f) = [k \in 1..(Len(s) - 1) |-> f[q[k]]]
  BY <1>1 DEF BufferMap
<1>8. BufferMap(q, f) = r
  BY <1>5, <1>6, <1>7
<1> QED  BY <1>1, <1>2, <1>3, <1>8 DEF a, q, r

LEMMA MapRemoveAt ==
  ASSUME NEW f, NEW s \in Seq(Nodes), NEW i \in DOMAIN s
  PROVE  /\ i \in DOMAIN BufferMap(s, f) /\ BufferMap(s, f)[i] = f[s[i]]
         /\ BufferMap(RemoveAt(s, i), f) = RemoveAt(BufferMap(s, f), i)
<1> DEFINE T == {f[m] : m \in Nodes}
           a == BufferMap(s, f)
           q == RemoveAt(s, i)
           r == RemoveAt(a, i)
<1>1. /\ Len(s) \in Nat /\ i \in 1..Len(s) /\ DOMAIN s = 1..Len(s)
      /\ q \in Seq(Nodes) /\ Len(q) = Len(s) - 1 /\ DOMAIN q = 1..(Len(s) - 1)
      /\ \A k \in 1..(i - 1) : q[k] = s[k]
      /\ \A k \in i..(Len(s) - 1) : q[k] = s[k + 1]
  BY RemoveAtProperties
<1>2. /\ a \in Seq(T) /\ Len(a) = Len(s) /\ DOMAIN a = 1..Len(s)
      /\ \A k \in 1..Len(s) : a[k] = f[s[k]]
  BY <1>1 DEF BufferMap
<1> HIDE DEF a, T, q
<1>3. /\ r \in Seq(T) /\ Len(r) = Len(s) - 1 /\ DOMAIN r = 1..(Len(s) - 1)
      /\ \A k \in 1..(i - 1) : r[k] = a[k]
      /\ \A k \in i..(Len(s) - 1) : r[k] = a[k + 1]
  <2>1. i \in DOMAIN a
    BY <1>1, <1>2
  <2> QED  BY <1>2, <2>1, RemoveAtProperties
<1> HIDE DEF r
<1>4. \A k \in 1..(Len(s) - 1) : r[k] = f[q[k]]
  <2>1. \A k \in 1..(i - 1) : r[k] = f[q[k]]
    BY <1>1, <1>2, <1>3
  <2>2. \A k \in i..(Len(s) - 1) : r[k] = f[q[k]]
    BY <1>1, <1>2, <1>3
  <2> QED  BY <1>1, <2>1, <2>2
<1>5. r = [k \in 1..(Len(s) - 1) |-> r[k]]
  BY <1>3
<1>6. BufferMap(q, f) = [k \in 1..(Len(s) - 1) |-> f[q[k]]]
  BY <1>1 DEF BufferMap
<1>7. BufferMap(q, f) = r
  BY <1>4, <1>5, <1>6
<1> QED  BY <1>1, <1>2, <1>7 DEF a, q, r

\* What FifoList sees of a thread.
Offering(t) == Holding(t, {"push"}, {"lock", "locked"})
Taken(t)    == Holding(t, {"pop", "find"}, {"dec", "unlock", "delete"})
Batch(t)    == BufferMap(local[t], buffer)
List        == BufferMap(list_, buffer)

\* The variables of FifoList, as functions of these.
LEMMA Mapping ==
  /\ BuffersOf(list_) = List /\ BuffersOf(list_)' = List'
  /\ (\A t \in Threads : Batch(t)' = Batch(t)) =>
       UNCHANGED [t \in Threads |-> BuffersOf(local[t])]
  /\ \A t \in Threads : BuffersOf(local[t]) = Batch(t) /\ BuffersOf(local[t])' = Batch(t)'
<1>1. /\ BuffersOf(list_) = List /\ BuffersOf(list_)' = List'
      /\ \A t \in Threads : BuffersOf(local[t]) = Batch(t) /\ BuffersOf(local[t])' = Batch(t)'
  BY DEF BuffersOf, BufferMap, List, Batch
<1>2. ASSUME \A t \in Threads : Batch(t)' = Batch(t)
      PROVE  UNCHANGED [t \in Threads |-> BuffersOf(local[t])]
  BY <1>1, <1>2
<1> QED  BY <1>1, <1>2

FifoStep == [Fifo!Next]_(Fifo!vars)

\* A step that FifoList does not see.
LEMMA Unseen ==
  ASSUME List' = List, intact' = intact,
         \A t \in Threads : Offering(t)' = Offering(t) /\ Taken(t)' = Taken(t) /\ Batch(t)' = Batch(t)
  PROVE  FifoStep
  BY DEF FifoStep, Fifo!vars, Offering, Taken, Batch, List, BuffersOf, BufferMap

\* A step of thread t leaves what FifoList sees of the others, if it does not
\* touch a buffer of theirs.
LEMMA OthersUnseen ==
  ASSUME IInv, Placed, NEW t \in Threads, NEW n,
         \A m \in heap : m # n => buffer'[m] = buffer[m],
         \A u \in Threads : n \in Nodes /\ u # t => ~InHand(n, u) /\ ~Moved(n, u),
         \A u \in Threads : u # t => /\ pc'[u] = pc[u] /\ op'[u] = op[u]
                                     /\ node'[u] = node[u] /\ local'[u] = local[u]
  PROVE  \A u \in Threads : u # t => /\ Offering(u)' = Offering(u) /\ Taken(u)' = Taken(u)
                                     /\ Batch(u)' = Batch(u)
<1> SUFFICES ASSUME NEW u \in Threads, u # t
             PROVE  Offering(u)' = Offering(u) /\ Taken(u)' = Taken(u) /\ Batch(u)' = Batch(u)
  OBVIOUS
<1>1. TypeOK
  BY DEF IInv, Guarded
<1>2. ASSUME InHand(node[u], u), node[u] # Null PROVE buffer'[node[u]] = buffer[node[u]]
  <2>1. node[u] \in Nodes /\ node[u] \in heap
    BY <1>1, <1>2 DEF TypeOK, Placed, Covered
  <2> QED  BY <1>2, <2>1
<1>3. Offering(u)' = Offering(u)
  BY <1>2 DEF Offering, Holding, InHand, Hand
<1>4. Taken(u)' = Taken(u)
  BY <1>2 DEF Taken, Holding, InHand, Hand
<1>5. Batch(u)' = Batch(u)
  <2>1. local[u] \in Seq(Nodes)
    BY <1>1 DEF TypeOK
  <2>2. \A m \in Range(local[u]) : m \in Nodes /\ m \in heap /\ m # n
    BY <2>1 DEF Placed, Covered, Moved, Range
  <2>3. \A m \in Range(local[u]) : buffer[m] = buffer'[m]
    BY <2>2
  <2> QED  BY <2>1, <2>3, MapSame DEF Batch
<1> QED  BY <1>3, <1>4, <1>5

\* Instances of OthersUnseen for a step that touches no buffer.
LEMMA OthersUntouched ==
  ASSUME IInv, Placed, NEW t \in Threads, UNCHANGED buffer,
         \A u \in Threads : u # t => /\ pc'[u] = pc[u] /\ op'[u] = op[u]
                                     /\ node'[u] = node[u] /\ local'[u] = local[u]
  PROVE  \A u \in Threads : u # t => /\ Offering(u)' = Offering(u) /\ Taken(u)' = Taken(u)
                                     /\ Batch(u)' = Batch(u)
  BY OthersUnseen, SafeListAssumption

LEMMA PushFifo ==
  ASSUME IInv, Placed, Filled, NEW t \in Threads, NEW b \in Buffers, Push(t, b)
  PROVE  FifoStep
<1>1. PICK n \in Nodes \ heap : /\ buffer' = [buffer EXCEPT ![n] = b]
                                /\ node' = [node EXCEPT ![t] = n]
  BY DEF Push
<1>2. /\ pc[t] = "idle" /\ pc' = [pc EXCEPT ![t] = "lock"]
      /\ op' = [op EXCEPT ![t] = "push"] /\ UNCHANGED <<list_, local, intact>> /\ TypeOK
  BY DEF Push, Goto, IInv, Guarded
<1>3. /\ pc'[t] = "lock" /\ op'[t] = "push" /\ node'[t] = n /\ buffer'[n] = b
      /\ \A u \in Threads : u # t => pc'[u] = pc[u] /\ op'[u] = op[u] /\ node'[u] = node[u]
      /\ \A m \in heap : buffer'[m] = buffer[m]
  BY <1>1, <1>2 DEF TypeOK
<1>4. ~Linked(n) /\ \A u \in Threads : ~InHand(n, u) /\ ~Moved(n, u)
  BY DEF Placed, Covered
<1>5. \A u \in Threads : u # t => /\ Offering(u)' = Offering(u) /\ Taken(u)' = Taken(u)
                                  /\ Batch(u)' = Batch(u)
  BY <1>2, <1>3, <1>4, OthersUnseen
<1>6. Offering(t) = Null /\ Offering(t)' = b /\ Taken(t) = Null /\ Taken(t)' = Null
  BY <1>2, <1>3, SafeListAssumption DEF Offering, Taken, Holding
<1>7. List' = List
  <2>1. list_ \in Seq(Nodes)
    BY <1>2 DEF TypeOK
  <2>2. \A m \in Range(list_) : m \in Nodes /\ m \in heap
    BY <2>1 DEF Placed, Covered, Linked, Range
  <2>3. \A m \in Range(list_) : buffer[m] = buffer'[m]
    BY <1>3, <2>2
  <2> QED  BY <1>2, <2>1, <2>3, MapSame DEF List
<1>8. Batch(t)' = Batch(t)
  <2>1. local[t] = <<>>
    BY <1>2 DEF Placed, Shape
  <2> QED  BY <1>2, <2>1 DEF Batch, BufferMap
<1>9. Fifo!Offer(t, b)
  <2>1. UNCHANGED <<BuffersOf(list_), [u \in Threads |-> BuffersOf(local[u])]>>
    BY <1>5, <1>7, <1>8, Mapping
  <2> QED  BY <1>2, <1>5, <1>6, <2>1 DEF Fifo!Offer, Offering, Taken
<1> QED  BY <1>9 DEF FifoStep, Fifo!Next

LEMMA CallFifo ==
  ASSUME IInv, Placed, NEW t \in Threads, NEW o \in {"pop", "clear", "find"}, NEW b,
         Call(t, o, b)
  PROVE  FifoStep
<1>1. /\ pc[t] = "idle" /\ pc' = [pc EXCEPT ![t] = "lock"]
      /\ op' = [op EXCEPT ![t] = o] /\ node' = [node EXCEPT ![t] = Null]
      /\ UNCHANGED <<list_, buffer, local, intact>> /\ TypeOK
  BY DEF Call, Goto, nodeVars, IInv, Guarded
<1>2. /\ pc'[t] = "lock" /\ op'[t] = o /\ node'[t] = Null
      /\ \A u \in Threads : u # t => pc'[u] = pc[u] /\ op'[u] = op[u] /\ node'[u] = node[u]
  BY <1>1 DEF TypeOK
<1>3. Offering(t)' = Offering(t) /\ Taken(t)' = Taken(t) /\ Batch(t)' = Batch(t) /\ List' = List
  BY <1>1, <1>2 DEF Offering, Taken, Holding, Batch, List
<1>4. \A u \in Threads : u # t => /\ Offering(u)' = Offering(u) /\ Taken(u)' = Taken(u)
                                  /\ Batch(u)' = Batch(u)
  BY <1>1, <1>2, OthersUntouched
<1> QED  BY <1>1, <1>3, <1>4, Unseen

LEMMA StepFifo ==
  ASSUME IInv, Placed, NEW t \in Threads, Lock(t) \/ Unlock(t) \/ Reset(t) \/ Count(t)
  PROVE  FifoStep
<1>1. /\ UNCHANGED <<list_, local, buffer, intact, op, node>>
      /\ \A u \in Threads : u # t => pc'[u] = pc[u]
  BY DEF Lock, Unlock, Reset, Count, Goto, nodeVars, callVars, IInv, Guarded, TypeOK
<1>2. \/ pc[t] = "lock" /\ pc'[t] = "locked"
      \/ pc[t] = "unlock" /\ pc'[t] = IF op[t] = "push" THEN "idle" ELSE "delete"
      \/ pc[t] = "inc" /\ op[t] = "push" /\ pc'[t] = "unlock"
      \/ pc[t] = "dec" /\ op[t] \in {"pop", "find"} /\ pc'[t] = "unlock"
      \/ pc[t] = "zero" /\ op[t] = "clear" /\ pc'[t] = "unlock"
  BY DEF Lock, Unlock, Reset, Count, Goto, IInv, Guarded, TypeOK, Steps
<1>3. Offering(t)' = Offering(t) /\ Taken(t)' = Taken(t) /\ Batch(t)' = Batch(t) /\ List' = List
  BY <1>1, <1>2 DEF Offering, Taken, Holding, Batch, List
<1>4. \A u \in Threads : u # t => /\ Offering(u)' = Offering(u) /\ Taken(u)' = Taken(u)
                                  /\ Batch(u)' = Batch(u)
  BY <1>1, OthersUntouched
<1> QED  BY <1>1, <1>3, <1>4, Unseen

LEMMA InsertFifo ==
  ASSUME IInv, Placed, Filled, NEW t \in Threads, InsertTail(t)
  PROVE  FifoStep
<1>1. /\ pc[t] = "locked" /\ op[t] = "push" /\ pc' = [pc EXCEPT ![t] = "inc"]
      /\ list_' = Append(list_, node[t]) /\ list_ \in Seq(Nodes) /\ node[t] \in Nodes
      /\ UNCHANGED <<local, buffer, intact, op, node>> /\ TypeOK
  BY DEF InsertTail, Goto, callVars, IInv, Guarded, TypeOK, Steps
<1>2. pc'[t] = "inc" /\ \A u \in Threads : u # t => pc'[u] = pc[u]
  BY <1>1 DEF TypeOK
<1>3. InHand(node[t], t) /\ buffer[node[t]] \in Buffers
  BY <1>1 DEF InHand, Hand, Placed, Covered, Filled
<1>4. /\ Offering(t) = buffer[node[t]] /\ Offering(t) # Null /\ Offering(t)' = Null
      /\ Taken(t)' = Taken(t) /\ Batch(t)' = Batch(t)
  BY <1>1, <1>2, <1>3, SafeListAssumption DEF Offering, Taken, Holding, Batch
<1>5. List' = Append(List, Offering(t))
  BY <1>1, <1>4, MapAppend DEF List
<1>6. \A u \in Threads : u # t => /\ Offering(u)' = Offering(u) /\ Taken(u)' = Taken(u)
                                  /\ Batch(u)' = Batch(u)
  BY <1>1, <1>2, OthersUntouched
<1>7. Fifo!Put(t)
  <2>1. UNCHANGED [u \in Threads |-> BuffersOf(local[u])]
    BY <1>4, <1>6, Mapping
  <2> QED  BY <1>1, <1>4, <1>5, <1>6, <2>1, Mapping DEF Fifo!Put, Offering, Taken
<1> QED  BY <1>7 DEF FifoStep, Fifo!Next

\* What FifoList sees when a thread takes a node.
LEMMA TakenSeen ==
  ASSUME IInv, Placed, Filled, NEW t \in Threads, NEW n \in Nodes, Linked(n),
         pc[t] = "locked", op[t] \in {"pop", "find"},
         pc' = [pc EXCEPT ![t] = "dec"], node' = [node EXCEPT ![t] = n],
         UNCHANGED <<op, local, buffer>>
  PROVE  /\ Taken(t) = Null /\ Taken(t)' = buffer[n]
         /\ \A u \in Threads : /\ Offering(u)' = Offering(u) /\ Batch(u)' = Batch(u)
                               /\ u # t => Taken(u)' = Taken(u)
<1>1. /\ pc'[t] = "dec" /\ node'[t] = n
      /\ \A u \in Threads : u # t => pc'[u] = pc[u] /\ node'[u] = node[u]
  BY DEF IInv, Guarded, TypeOK
<1>2. Taken(t) = Null /\ Taken(t)' = buffer[n] /\ Offering(t)' = Offering(t) /\ Batch(t)' = Batch(t)
  BY <1>1, SafeListAssumption DEF Taken, Offering, Holding, Batch
<1>3. \A u \in Threads : u # t => /\ Offering(u)' = Offering(u) /\ Taken(u)' = Taken(u)
                                  /\ Batch(u)' = Batch(u)
  BY <1>1, OthersUntouched
<1> QED  BY <1>2, <1>3

\* Nothing is taken from an empty list, and nothing is seen.
LEMMA MissUnseen ==
  ASSUME IInv, Placed, NEW t \in Threads, pc[t] = "locked", op[t] \in {"pop", "find"},
         pc' = [pc EXCEPT ![t] = "unlock"], node' = [node EXCEPT ![t] = Null],
         UNCHANGED <<op, list_, local, buffer, intact>>
  PROVE  FifoStep
<1>1. /\ pc'[t] = "unlock" /\ node'[t] = Null
      /\ \A u \in Threads : u # t => pc'[u] = pc[u] /\ node'[u] = node[u]
  BY DEF IInv, Guarded, TypeOK
<1>2. Taken(t)' = Taken(t) /\ Offering(t)' = Offering(t) /\ Batch(t)' = Batch(t) /\ List' = List
  BY <1>1 DEF Taken, Offering, Holding, Batch, List
<1>3. \A u \in Threads : u # t => /\ Offering(u)' = Offering(u) /\ Taken(u)' = Taken(u)
                                  /\ Batch(u)' = Batch(u)
  BY <1>1, OthersUntouched
<1> QED  BY <1>2, <1>3, Unseen

LEMMA RemoveFifo ==
  ASSUME IInv, Placed, Filled, NEW t \in Threads, RemoveHead(t)
  PROVE  FifoStep
<1>1. /\ pc[t] = "locked" /\ op[t] = "pop" /\ UNCHANGED <<local, buffer, intact, op>>
      /\ list_ \in Seq(Nodes) /\ TypeOK
  BY DEF RemoveHead, callVars, IInv, Guarded, TypeOK
<1>2. CASE list_ = <<>>
  <2>1. /\ pc' = [pc EXCEPT ![t] = "unlock"] /\ UNCHANGED <<list_, node>> /\ node[t] = Null
    BY <1>1, <1>2 DEF RemoveHead, Goto, Placed, Shape
  <2>2. node' = [node EXCEPT ![t] = Null]
    BY <1>1, <2>1 DEF TypeOK
  <2> QED  BY <1>1, <2>1, <2>2, MissUnseen
<1>3. CASE list_ # <<>>
  <2>1. /\ pc' = [pc EXCEPT ![t] = "dec"] /\ list_' = Tail(list_)
        /\ node' = [node EXCEPT ![t] = Head(list_)]
    BY <1>3 DEF RemoveHead, Goto
  <2>2. Head(list_) \in Nodes /\ Linked(Head(list_))
    BY <1>1, <1>3, RemoveFirstNode DEF Linked
  <2>3. /\ Taken(t) = Null /\ Taken(t)' = buffer[Head(list_)]
        /\ \A u \in Threads : /\ Offering(u)' = Offering(u) /\ Batch(u)' = Batch(u)
                              /\ u # t => Taken(u)' = Taken(u)
    BY <1>1, <2>1, <2>2, TakenSeen
  <2>4. List # <<>> /\ Head(List) = buffer[Head(list_)] /\ List' = Tail(List)
    BY <1>1, <1>3, <2>1, MapTail DEF List
  <2>5. UNCHANGED [u \in Threads |-> BuffersOf(local[u])]
    BY <2>3, Mapping
  <2>6. Fifo!Take(t)
    BY <1>1, <2>3, <2>4, <2>5, Mapping DEF Fifo!Take, Offering, Taken
  <2> QED  BY <2>6 DEF FifoStep, Fifo!Next
<1> QED  BY <1>2, <1>3

\* A search that misses in a list that is not empty ends the promise.
LEMMA SearchFifo ==
  ASSUME IInv, Placed, Filled, NEW t \in Threads, Search(t)
  PROVE  FifoStep
<1>1. /\ pc[t] = "locked" /\ op[t] = "find" /\ UNCHANGED <<local, buffer, op>>
      /\ list_ \in Seq(Nodes) /\ TypeOK
      /\ intact' = (intact /\ (list_ = <<>> \/ list_' # list_))
  BY DEF Search, callVars, IInv, Guarded, TypeOK
<1>2. CASE Hits(t) # {}
  <2> DEFINE k == Min(Hits(t))
  <2>1. /\ pc' = [pc EXCEPT ![t] = "dec"] /\ node' = [node EXCEPT ![t] = list_[k]]
        /\ list_' = RemoveAt(list_, k)
    BY <1>2 DEF Search, Goto, Hits
  <2>2. /\ k \in DOMAIN list_ /\ buffer[list_[k]] = want[t]
        /\ \A j \in 1..(k - 1) : buffer[list_[j]] # want[t]
    BY <1>1, <1>2, HitProperties
  <2> HIDE DEF k
  <2>3. list_[k] \in Nodes /\ Linked(list_[k]) /\ Len(list_') = Len(list_) - 1
    BY <1>1, <2>1, <2>2, RemoveNode DEF Linked
  <2>4. UNCHANGED intact
    <3>1. Len(list_) \in Nat
      BY <1>1
    <3>2. list_' # list_
      BY <2>3, <3>1
    <3> QED  BY <1>1, <3>2 DEF TypeOK
  <2>5. /\ Taken(t) = Null /\ Taken(t)' = buffer[list_[k]]
        /\ \A u \in Threads : /\ Offering(u)' = Offering(u) /\ Batch(u)' = Batch(u)
                              /\ u # t => Taken(u)' = Taken(u)
    BY <1>1, <2>1, <2>3, TakenSeen
  <2>6. k \in DOMAIN List /\ List[k] = buffer[list_[k]] /\ List' = RemoveAt(List, k)
    BY <1>1, <2>1, <2>2, MapRemoveAt DEF List
  <2>7. \A j \in 1..(k - 1) : List[j] # List[k]
    <3>1. DOMAIN List = 1..Len(list_) /\ k \in 1..Len(list_) /\ Len(list_) \in Nat
      BY <1>1, <2>2 DEF List, BufferMap
    <3>2. \A j \in 1..(k - 1) : j \in DOMAIN list_
      BY <1>1, <3>1
    <3>3. \A j \in 1..(k - 1) : List[j] = buffer[list_[j]]
      BY <3>2 DEF List, BufferMap
    <3> QED  BY <2>2, <2>6, <3>3
  <2>8. UNCHANGED [u \in Threads |-> BuffersOf(local[u])]
    BY <2>5, Mapping
  <2>9. /\ [u \in Threads |-> Taken(u)]' = [[u \in Threads |-> Taken(u)] EXCEPT ![t] = List[k]]
        /\ [u \in Threads |-> Taken(u)][t] = Null
        /\ [u \in Threads |-> Offering(u)]' = [u \in Threads |-> Offering(u)]
    BY <2>5, <2>6
  <2>10. List' = Fifo!RemoveAt(List, k)
    BY <2>6 DEF Fifo!RemoveAt, RemoveAt
  <2>11. Fifo!TakeBuffer(t)
    BY <2>4, <2>6, <2>7, <2>8, <2>9, <2>10, Mapping DEF Fifo!TakeBuffer, Offering, Taken
  <2> QED  BY <2>11 DEF FifoStep, Fifo!Next
<1>3. CASE Hits(t) = {} /\ list_ = <<>>
  <2>1. /\ pc' = [pc EXCEPT ![t] = "unlock"] /\ UNCHANGED list_
        /\ node' = [node EXCEPT ![t] = Null]
    BY <1>1, <1>3 DEF Search, Goto, Hits
  <2>2. UNCHANGED intact
    BY <1>1, <1>3 DEF TypeOK
  <2> QED  BY <1>1, <2>1, <2>2, MissUnseen
<1>4. CASE Hits(t) = {} /\ list_ # <<>>
  <2>1. intact' = FALSE
    BY <1>1, <1>4 DEF Search, Hits
  <2>2. List # <<>>
    BY <1>1, <1>4, MapTail DEF List
  <2>3. Fifo!Miss
    BY <2>1, <2>2, Mapping DEF Fifo!Miss
  <2> QED  BY <2>3 DEF FifoStep, Fifo!Next
<1> QED  BY <1>2, <1>3, <1>4

LEMMA MoveFifo ==
  ASSUME IInv, Placed, NEW t \in Threads, MoveAll(t)
  PROVE  FifoStep
<1>1. /\ pc[t] = "locked" /\ op[t] = "clear" /\ pc' = [pc EXCEPT ![t] = "zero"]
      /\ local' = [local EXCEPT ![t] = list_] /\ list_' = <<>>
      /\ UNCHANGED <<buffer, intact, op, node>> /\ TypeOK
  BY DEF MoveAll, Goto, callVars, IInv, Guarded
<1>2. /\ pc'[t] = "zero" /\ \A u \in Threads : u # t => pc'[u] = pc[u]
      /\ local'[t] = list_ /\ \A u \in Threads : u # t => local'[u] = local[u]
      /\ local[t] = <<>>
  BY <1>1 DEF TypeOK, Placed, Shape
<1>3. /\ Offering(t)' = Offering(t) /\ Taken(t)' = Taken(t)
      /\ Batch(t) = <<>> /\ Batch(t)' = List /\ List' = <<>>
  <2>1. BufferMap(<<>>, buffer) = <<>>
    BY DEF BufferMap
  <2> QED  BY <1>1, <1>2, <2>1 DEF Offering, Taken, Holding, Batch, List
<1>4. \A u \in Threads : u # t => /\ Offering(u)' = Offering(u) /\ Taken(u)' = Taken(u)
                                  /\ Batch(u)' = Batch(u)
  BY <1>1, <1>2, OthersUntouched
<1>5. Fifo!TakeAll(t)
  <2>1. \A u \in Threads : BuffersOf(local[u])' = IF u = t THEN List ELSE BuffersOf(local[u])
    BY <1>3, <1>4, Mapping
  <2>2. /\ [u \in Threads |-> BuffersOf(local[u])]'
             = [[u \in Threads |-> BuffersOf(local[u])] EXCEPT ![t] = List]
        /\ [u \in Threads |-> BuffersOf(local[u])][t] = <<>>
    BY <1>3, <2>1, Mapping
  <2> QED  BY <1>1, <1>3, <1>4, <2>2, Mapping DEF Fifo!TakeAll, Offering, Taken
<1> QED  BY <1>5 DEF FifoStep, Fifo!Next

\* A deleted node's buffer is no longer of interest: the node is nowhere else.
LEMMA FreeUnseen ==
  ASSUME TypeOK, NEW n, Free(n)
  PROVE  \A m \in Nodes : m # n => buffer'[m] = buffer[m]
  BY DEF Free

LEMMA DeleteFifo ==
  ASSUME IInv, Placed, Filled, NEW t \in Threads, Delete(t)
  PROVE  FifoStep
<1> DEFINE n == node[t]
<1>1. /\ pc[t] = "delete" /\ op[t] \in {"pop", "find"} /\ pc' = [pc EXCEPT ![t] = "idle"]
      /\ Free(n) /\ node' = [node EXCEPT ![t] = Null]
      /\ UNCHANGED <<list_, op, local, intact>> /\ TypeOK
  BY DEF Delete, Goto, IInv, Guarded
<1>2. /\ pc'[t] = "idle" /\ node'[t] = Null /\ n \in Nodes \cup {Null}
      /\ \A u \in Threads : u # t => pc'[u] = pc[u] /\ node'[u] = node[u]
  BY <1>1 DEF TypeOK
<1>3. \A m \in Nodes : m # n => buffer'[m] = buffer[m]
  BY <1>1, FreeUnseen
<1>4. Hand(t) = n
  BY <1>1 DEF Hand
<1>5. n \in Nodes => /\ n \in heap /\ ~Linked(n) /\ \A u \in Threads : ~Moved(n, u)
                     /\ \A u \in Threads : u # t => ~InHand(n, u)
  BY <1>4 DEF InHand, Placed, Apart, Covered
<1>6. \A u \in Threads : u # t => /\ Offering(u)' = Offering(u) /\ Taken(u)' = Taken(u)
                                  /\ Batch(u)' = Batch(u)
  <2>1. \A m \in heap : m # n => buffer'[m] = buffer[m]
    BY <1>1, <1>3 DEF TypeOK
  <2> QED  BY <1>1, <1>2, <1>5, <2>1, OthersUnseen
<1>7. List' = List
  <2>1. list_ \in Seq(Nodes) /\ \A m \in Range(list_) : m \in Nodes /\ Linked(m)
    BY <1>1 DEF TypeOK, Linked, Range
  <2>2. \A m \in Range(list_) : buffer[m] = buffer'[m]
    BY <1>3, <1>5, <2>1
  <2> QED  BY <1>1, <2>1, <2>2, MapSame DEF List
<1>8. Batch(t)' = Batch(t)
  <2>1. local[t] = <<>>
    BY <1>1 DEF Placed, Shape
  <2> QED  BY <1>1, <2>1 DEF Batch, BufferMap
<1>9. /\ Offering(t) = Null /\ Offering(t)' = Null /\ Taken(t)' = Null
      /\ Taken(t) = IF n = Null THEN Null ELSE buffer[n]
  BY <1>1, <1>2 DEF Offering, Taken, Holding
<1> HIDE DEF n
<1>10. CASE n = Null
  BY <1>1, <1>6, <1>7, <1>8, <1>9, <1>10, Unseen
<1>11. CASE n # Null
  <2>1. buffer[n] # Null
    BY <1>2, <1>5, <1>11, SafeListAssumption DEF Filled
  <2>2. UNCHANGED <<BuffersOf(list_), [u \in Threads |-> BuffersOf(local[u])]>>
    BY <1>6, <1>7, <1>8, Mapping
  <2>3. Fifo!Return(t)
    BY <1>1, <1>6, <1>9, <1>11, <2>1, <2>2 DEF Fifo!Return, Offering, Taken
  <2> QED  BY <2>3 DEF FifoStep, Fifo!Next
<1> QED  BY <1>10, <1>11

LEMMA DrainFifo ==
  ASSUME IInv, Placed, NEW t \in Threads, Drain(t)
  PROVE  FifoStep
<1>1. /\ pc[t] = "delete" /\ op[t] = "clear" /\ node[t] = Null
      /\ UNCHANGED <<list_, op, node, intact>> /\ TypeOK
  BY DEF Drain, callVars, IInv, Guarded, Placed, Shape
<1>2. CASE local[t] = <<>>
  <2>1. pc' = [pc EXCEPT ![t] = "idle"] /\ UNCHANGED <<buffer, local>>
    BY <1>2 DEF Drain, Goto
  <2>2. pc'[t] = "idle" /\ \A u \in Threads : u # t => pc'[u] = pc[u]
    BY <1>1, <2>1 DEF TypeOK
  <2>3. /\ Taken(t)' = Taken(t) /\ Offering(t)' = Offering(t) /\ Batch(t)' = Batch(t)
        /\ List' = List
    BY <1>1, <2>1, <2>2 DEF Taken, Offering, Holding, Batch, List
  <2>4. \A u \in Threads : u # t => /\ Offering(u)' = Offering(u) /\ Taken(u)' = Taken(u)
                                    /\ Batch(u)' = Batch(u)
    BY <1>1, <2>1, <2>2, OthersUntouched
  <2> QED  BY <1>1, <2>3, <2>4, Unseen
<1>3. CASE local[t] # <<>>
  <2> DEFINE n == Head(local[t])
  <2>1. /\ Free(n) /\ local' = [local EXCEPT ![t] = Tail(local[t])]
        /\ UNCHANGED pc /\ local[t] \in Seq(Nodes) /\ Injective(local[t])
    BY <1>1, <1>3 DEF Drain, TypeOK, Placed, NoRepeats
  <2>2. /\ local'[t] = Tail(local[t]) /\ \A u \in Threads : u # t => local'[u] = local[u]
    BY <1>1, <2>1 DEF TypeOK
  <2>3. /\ n \in Nodes /\ Moved(n, t) /\ Tail(local[t]) \in Seq(Nodes)
        /\ Range(Tail(local[t])) = Range(local[t]) \ {n}
    BY <1>3, <2>1, RemoveFirstNode DEF Moved
  <2>4. \A m \in Nodes : m # n => buffer'[m] = buffer[m]
    BY <1>1, <2>1, FreeUnseen
  <2>5. Batch(t) # <<>> /\ Batch(t)' = Tail(Batch(t))
    <3>1. \A m \in Range(Tail(local[t])) : m \in Nodes /\ m # n
      BY <2>1, <2>3 DEF Range
    <3>2. BufferMap(Tail(local[t]), buffer') = BufferMap(Tail(local[t]), buffer)
      BY <2>3, <2>4, <3>1, MapSame
    <3> QED  BY <1>3, <2>1, <2>2, <3>2, MapTail DEF Batch
  <2> HIDE DEF n
  <2>6. ~Linked(n) /\ \A u \in Threads : ~InHand(n, u) /\ (u # t => ~Moved(n, u))
    BY <2>3 DEF Placed, Apart
  <2>7. \A u \in Threads : u # t => /\ Offering(u)' = Offering(u) /\ Taken(u)' = Taken(u)
                                    /\ Batch(u)' = Batch(u)
    <3>1. \A m \in heap : m # n => buffer'[m] = buffer[m]
      BY <1>1, <2>4 DEF TypeOK
    <3> QED  BY <1>1, <2>1, <2>2, <2>6, <3>1, OthersUnseen
  <2>8. List' = List
    <3>1. list_ \in Seq(Nodes) /\ \A m \in Range(list_) : m \in Nodes /\ Linked(m)
      BY <1>1 DEF TypeOK, Linked, Range
    <3>2. \A m \in Range(list_) : buffer[m] = buffer'[m]
      BY <2>4, <2>6, <3>1
    <3> QED  BY <1>1, <3>1, <3>2, MapSame DEF List
  <2>9. Offering(t)' = Offering(t) /\ Taken(t)' = Taken(t)
    BY <1>1, <2>1 DEF Offering, Taken, Holding
  <2>10. \A u \in Threads :
           BuffersOf(local[u])' = IF u = t THEN Tail(Batch(t)) ELSE BuffersOf(local[u])
    BY <2>5, <2>7, Mapping
  <2>11. /\ [u \in Threads |-> BuffersOf(local[u])]'
              = [[u \in Threads |-> BuffersOf(local[u])] EXCEPT ![t] = Tail(Batch(t))]
         /\ [u \in Threads |-> BuffersOf(local[u])][t] = Batch(t)
    BY <2>10, Mapping
  <2>12. Fifo!Clean(t)
    BY <1>1, <2>5, <2>7, <2>8, <2>9, <2>11, Mapping DEF Fifo!Clean, Offering, Taken
  <2> QED  BY <2>12 DEF FifoStep, Fifo!Next
<1> QED  BY <1>2, <1>3

LEMMA NextFifo == IInv /\ Filled /\ [Next]_vars => FifoStep
<1> SUFFICES ASSUME IInv, Filled, [Next]_vars PROVE FifoStep
  OBVIOUS
<1>1. CASE ~intact
  <2>1. ~intact'
    BY <1>1 DEF Next, Run, Push, Call, Lock, Unlock, InsertTail, RemoveHead, Search, MoveAll,
                Reset, Count, Delete, Drain, vars
  <2> QED  BY <1>1, <2>1 DEF FifoStep, Fifo!Next
<1>2. CASE intact /\ Next
  <2>1. Placed
    BY <1>2 DEF IInv, Held
  <2>2. PICK t \in Threads : \/ Run(t)
                             \/ \E b \in Buffers : Push(t, b)
                             \/ \E o \in {"pop", "clear"} : Call(t, o, Null)
                             \/ \E b \in Searched : Call(t, "find", b)
    BY <1>2 DEF Next
  <2> QED
    BY <2>1, <2>2, PushFifo, CallFifo, StepFifo, InsertFifo, RemoveFifo, SearchFifo,
       MoveFifo, DeleteFifo, DrainFifo DEF Run
<1>3. CASE UNCHANGED vars
  <2>1. UNCHANGED <<list_, local, buffer, intact, pc, op, node>>
    BY <1>3 DEF vars, nodeVars, callVars
  <2> QED  BY <2>1, Unseen DEF List, Batch, Offering, Taken, Holding
<1> QED  BY <1>1, <1>2, <1>3

\* Seen from its callers, SafeList is the atomic first-in first-out list of
\* FifoList, with any number of threads and nodes: Push, both Pops and Clear take
\* effect in one step each, until a search misses in a list that is not empty.
THEOREM FifoImplemented == Spec => ImplementsFifo
<1>1. Init => Fifo!Init
  BY DEF Init, Fifo!Init, BuffersOf, Holding
<1>2. Init => Filled
  BY InitFilled
<1>3. IInv /\ Filled /\ [Next]_vars => [Fifo!Next]_(Fifo!vars)
  BY NextFifo DEF FifoStep
<1> QED  BY <1>1, <1>2, <1>3, NextFilled, Invariance, PTL DEF Spec, ImplementsFifo, Fifo!Spec
=============================================================================
