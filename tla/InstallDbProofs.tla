-------------------------- MODULE InstallDbProofs --------------------------
(***************************************************************************)
(* Proofs about the tables, for any number of workers, images and paths,   *)
(* over any number of restarts.  The inductive invariant adds what each    *)
(* worker's software_id is at each of its steps: no id yet, an id above    *)
(* all rows that is its own, or the id of a row that is there.             *)
(***************************************************************************)
EXTENDS InstallDb, TLAPS

\* The counter is above every id in use, and max(id) can be found again.
Counted ==
  /\ running => \A id \in DOMAIN app : id <= max_software_id_
  /\ DOMAIN app = {} \/ \E m \in DOMAIN app : \A id \in DOMAIN app : m >= id
  /\ \A w \in Workers :
       /\ pc[w] # "idle" => running
       /\ software_id[w] <= max_software_id_
       /\ pc[w] \in {"idle", "select", "id"} => software_id[w] = 0
       /\ pc[w] = "app" => software_id[w] # 0

\* What a worker's id refers to, once its row is inserted or was found.
Stored ==
  /\ AssetRefersToApp
  /\ \A w \in Workers :
       /\ pc[w] # "idle" => target[w] \in Paths
       /\ pc[w] \in {"asset", "target"} => software_id[w] \in DOMAIN app
       /\ pc[w] = "asset" => app[software_id[w]] = image[w]
       /\ pc[w] = "target" =>
            \/ app[software_id[w]] = image[w]
            \/ image[w] \in DOMAIN asset /\ asset[image[w]] = software_id[w]

IInv ==
  TypeOK /\ Counted /\ IdsFresh /\ Stored /\ AssetAttributed /\ EveryEventRecorded

-----------------------------------------------------------------------------
(* The tables *)

\* An insert that ignores what is there changes no row.
LEMMA InsertOrIgnoreAdds ==
  ASSUME NEW k, NEW v, asset' = InsertOrIgnore(asset, k, v)
  PROVE  /\ DOMAIN asset' = DOMAIN asset \cup {k}
         /\ \A x \in DOMAIN asset : asset'[x] = asset[x]
         /\ k \notin DOMAIN asset => asset'[k] = v
<1>1. CASE k \in DOMAIN asset
  BY <1>1 DEF InsertOrIgnore
<1>2. CASE k \notin DOMAIN asset
  <2>1. asset' = [x \in DOMAIN asset \cup {k} |-> IF x = k THEN v ELSE asset[x]]
    BY <1>2 DEF InsertOrIgnore, Insert
  <2> QED  BY <1>2, <2>1
<1> QED  BY <1>1, <1>2

\* A new row of app is above none: there is still a highest id.
LEMMA HighestFound ==
  ASSUME DOMAIN app \subseteq Nat,
         DOMAIN app = {} \/ \E m \in DOMAIN app : \A id \in DOMAIN app : m >= id
  PROVE  HighestId \in Nat /\ \A id \in DOMAIN app : id <= HighestId
<1>1. CASE DOMAIN app = {}
  BY <1>1 DEF HighestId
<1>2. CASE \E m \in DOMAIN app : \A id \in DOMAIN app : m >= id
  BY <1>2 DEF HighestId, Max
<1> QED  BY <1>1, <1>2

-----------------------------------------------------------------------------
(* The service *)

\* Empty tables are in order.
LEMMA InitIInv == Init => IInv
<1> SUFFICES ASSUME Init PROVE IInv
  OBVIOUS
<1>1. DOMAIN app = {} /\ DOMAIN asset = {}
  BY DEF Init
<1>2. TypeOK
  BY <1>1 DEF Init, TypeOK, Step, Range
<1>3. Counted /\ IdsFresh
  BY <1>1 DEF Init, Counted, IdsFresh
<1>4. Stored /\ AssetAttributed /\ EveryEventRecorded
  BY <1>1 DEF Init, Stored, AssetRefersToApp, AssetAttributed, EveryEventRecorded, Range
<1> QED  BY <1>2, <1>3, <1>4 DEF IInv

\* Connect finds a counter that no row is above.
LEMMA ConnectKeeps == ASSUME IInv, Connect PROVE IInv'
<1> USE DEF IInv, Connect, tables, event
<1>1. HighestId \in Nat /\ \A id \in DOMAIN app : id <= HighestId
  BY HighestFound DEF TypeOK, Counted
<1>2. TypeOK'
  BY <1>1 DEF TypeOK
<1>3. Counted'
  BY <1>1 DEF Counted, TypeOK
<1>4. (IdsFresh /\ Stored /\ AssetAttributed /\ EveryEventRecorded)'
  BY DEF IdsFresh, Stored, AssetRefersToApp, AssetAttributed, EveryEventRecorded
<1> QED  BY <1>2, <1>3, <1>4

\* A crash leaves rows and forgets workers.
LEMMA CrashKeeps == ASSUME IInv, Crash PROVE IInv'
<1> USE DEF IInv, Crash, tables
<1>1. TypeOK'
  BY DEF TypeOK, Step
<1>2. Counted'
  BY DEF Counted
<1>3. (IdsFresh /\ Stored /\ AssetAttributed /\ EveryEventRecorded)'
  BY DEF IdsFresh, Stored, AssetRefersToApp, AssetAttributed, EveryEventRecorded
<1> QED  BY <1>1, <1>2, <1>3

-----------------------------------------------------------------------------
(* The workers *)

\* A new event is nobody's yet.
LEMMA StartKeeps ==
  ASSUME IInv, NEW w \in Workers, NEW i \in Images, NEW p \in Paths, Start(w, i, p)
  PROVE  IInv'
<1> USE DEF IInv, Start, Goto, tables
<1>1. TypeOK'
  BY InstallDbAssumption DEF TypeOK, Step
<1>2. Counted'
  BY DEF Counted, TypeOK
<1>3. IdsFresh'
  BY DEF IdsFresh, Counted, TypeOK
<1>4. Stored'
  BY DEF Stored, AssetRefersToApp, TypeOK
<1>5. (AssetAttributed /\ EveryEventRecorded)'
  BY DEF AssetAttributed, EveryEventRecorded
<1> QED  BY <1>1, <1>2, <1>3, <1>4, <1>5

\* The image's row is found, and its id refers to a product.
LEMMA SelectKnownKeeps ==
  ASSUME IInv, NEW w \in Workers, SelectKnown(w) PROVE IInv'
<1> USE DEF IInv, SelectKnown, Goto, tables, event
<1>1. asset[image[w]] \in DOMAIN app /\ asset[image[w]] \in Nat \ {0}
  BY DEF Stored, AssetRefersToApp, TypeOK, Range
<1>2. TypeOK'
  BY <1>1 DEF TypeOK, Step
<1>3. Counted'
  BY <1>1 DEF Counted, TypeOK
<1>4. IdsFresh'
  BY <1>1 DEF IdsFresh, TypeOK
<1>5. Stored'
  BY <1>1 DEF Stored, AssetRefersToApp, TypeOK
<1>6. (AssetAttributed /\ EveryEventRecorded)'
  BY DEF AssetAttributed, EveryEventRecorded
<1> QED  BY <1>2, <1>3, <1>4, <1>5, <1>6

\* An image that is not in the table changes nothing by that.
LEMMA SelectNewKeeps ==
  ASSUME IInv, NEW w \in Workers, SelectNew(w) PROVE IInv'
<1> USE DEF IInv, SelectNew, Goto, tables, event
<1>1. TypeOK'
  BY DEF TypeOK, Step
<1>2. Counted'
  BY DEF Counted, TypeOK
<1>3. (IdsFresh /\ Stored)'
  BY DEF IdsFresh, Stored, AssetRefersToApp, TypeOK
<1>4. (AssetAttributed /\ EveryEventRecorded)'
  BY DEF AssetAttributed, EveryEventRecorded
<1> QED  BY <1>1, <1>2, <1>3, <1>4

\* The next id is above the rows and the ids of all other workers.
LEMMA GenerateIdKeeps ==
  ASSUME IInv, NEW w \in Workers, GenerateId(w) PROVE IInv'
<1> USE DEF IInv, GenerateId, Goto, tables, event
<1>1. TypeOK'
  BY DEF TypeOK, Step
<1>2. Counted'
  BY DEF Counted, TypeOK
<1>3. max_software_id_ + 1 \notin DOMAIN app
  BY DEF Counted, TypeOK
<1>4. \A v \in Workers : software_id[v] # max_software_id_ + 1
  BY DEF Counted, TypeOK
<1>5. IdsFresh'
  BY <1>3, <1>4 DEF IdsFresh, TypeOK
<1>6. Stored'
  BY DEF Stored, AssetRefersToApp, TypeOK
<1>7. (AssetAttributed /\ EveryEventRecorded)'
  BY DEF AssetAttributed, EveryEventRecorded
<1> QED  BY <1>1, <1>2, <1>5, <1>6, <1>7

\* The row of a new product is inserted under an id that nobody else has.
LEMMA InsertAppKeeps ==
  ASSUME IInv, NEW w \in Workers, InsertApp(w) PROVE IInv'
<1> DEFINE id == software_id[w]
<1>0. ~Taken(w)
  BY DEF InsertApp, Taken, IInv, IdsFresh
<1>1. /\ pc[w] = "app" /\ Goto(w, "asset") /\ app' = Insert(app, id, image[w])
      /\ UNCHANGED <<event, asset, max_software_id_, running, software_id, done>>
  BY <1>0 DEF InsertApp
<1> USE <1>1 DEF IInv, Goto, event
<1>2. /\ id \in Nat \ {0} /\ id \notin DOMAIN app /\ id <= max_software_id_ /\ running
      /\ image[w] \in Images
  BY DEF IdsFresh, Counted, TypeOK
<1>3. /\ DOMAIN app' = DOMAIN app \cup {id} /\ app'[id] = image[w]
      /\ \A x \in DOMAIN app : app'[x] = app[x]
  <2>1. app' = [k \in DOMAIN app \cup {id} |-> IF k = id THEN image[w] ELSE app[k]]
    BY DEF Insert
  <2> QED  BY <1>2, <2>1
<1>4. TypeOK'
  BY <1>2, <1>3 DEF TypeOK, Step, Range
<1>5. Counted'
  BY <1>2, <1>3 DEF Counted, TypeOK
<1>6. IdsFresh'
  BY <1>2, <1>3 DEF IdsFresh, TypeOK
<1>7. Stored'
  BY <1>2, <1>3 DEF Stored, AssetRefersToApp, TypeOK
<1>8. AssetAttributed'
  BY <1>2, <1>3 DEF AssetAttributed, Stored, AssetRefersToApp, Range
<1>9. EveryEventRecorded'
  BY DEF EveryEventRecorded
<1> QED  BY <1>4, <1>5, <1>6, <1>7, <1>8, <1>9

\* The image's row of asset refers to the row of app that was inserted before.
LEMMA InsertImageKeeps ==
  ASSUME IInv, NEW w \in Workers, InsertImage(w) PROVE IInv'
<1> USE DEF IInv, InsertImage, Goto, event
<1>1. /\ image[w] \in Paths /\ software_id[w] \in DOMAIN app
      /\ software_id[w] \in Nat \ {0} /\ app[software_id[w]] = image[w]
      /\ DOMAIN app \subseteq Nat \ {0}
  BY InstallDbAssumption DEF Stored, TypeOK
<1>2. /\ DOMAIN asset' = DOMAIN asset \cup {image[w]}
      /\ \A x \in DOMAIN asset : asset'[x] = asset[x]
      /\ image[w] \notin DOMAIN asset => asset'[image[w]] = software_id[w]
  BY InsertOrIgnoreAdds
<1>3. TypeOK'
  BY <1>1, <1>2 DEF TypeOK, Step, Range
<1>4. (Counted /\ IdsFresh)'
  BY DEF Counted, IdsFresh, TypeOK
<1>5. Stored'
  BY <1>1, <1>2 DEF Stored, AssetRefersToApp, TypeOK, Range
<1>6. AssetAttributed'
  BY <1>1, <1>2 DEF AssetAttributed
<1>7. EveryEventRecorded'
  BY <1>2 DEF EveryEventRecorded
<1> QED  BY <1>3, <1>4, <1>5, <1>6, <1>7

\* A worker whose event ends, whatever it has inserted for its target, has no
\* id any more.
LEMMA EndKeeps ==
  ASSUME IInv, NEW w \in Workers, pc[w] # "idle", End(w),
         UNCHANGED <<app, max_software_id_, running>>,
         \/ asset' = asset
         \/ pc[w] = "target" /\ asset' = InsertOrIgnore(asset, target[w], software_id[w]),
         image[w] \in Filtered \/ target[w] \in DOMAIN asset'
  PROVE  IInv'
<1> USE DEF IInv, End, Leave, Goto
<1>1. /\ image[w] \in Images /\ target[w] \in Paths /\ None \notin Images
      /\ DOMAIN app \subseteq Nat \ {0}
  BY InstallDbAssumption DEF TypeOK, Stored
<1>2. pc[w] = "target" => software_id[w] \in DOMAIN app
  BY DEF Stored
<1>3. /\ DOMAIN asset \subseteq DOMAIN asset'
      /\ DOMAIN asset' \subseteq DOMAIN asset \cup {target[w]}
      /\ \A x \in DOMAIN asset : asset'[x] = asset[x]
      /\ \A x \in DOMAIN asset' :
           x \notin DOMAIN asset => /\ pc[w] = "target" /\ x = target[w]
                                   /\ asset'[x] = software_id[w]
  <2>1. CASE asset' = asset
    BY <2>1
  <2>2. CASE /\ pc[w] = "target"
             /\ asset' = InsertOrIgnore(asset, target[w], software_id[w])
    <3>1. /\ DOMAIN asset' = DOMAIN asset \cup {target[w]}
          /\ \A x \in DOMAIN asset : asset'[x] = asset[x]
          /\ target[w] \notin DOMAIN asset => asset'[target[w]] = software_id[w]
      BY <2>2, InsertOrIgnoreAdds
    <3> QED  BY <2>2, <3>1
  <2> QED  BY <2>1, <2>2
<1>4. done' = done \cup {<<image[w], target[w]>>}
  OBVIOUS
<1>5. TypeOK'
  <2>1. Range(asset') \subseteq Nat \ {0}
    BY <1>1, <1>2, <1>3 DEF TypeOK, Range
  <2>2. DOMAIN asset' \subseteq Paths
    BY <1>1, <1>3 DEF TypeOK
  <2> QED  BY <1>1, <1>4, <2>1, <2>2 DEF TypeOK, Step
<1>6. Counted'
  BY DEF Counted, TypeOK
<1>7. IdsFresh'
  BY DEF IdsFresh, Counted, TypeOK
<1>8. Stored'
  BY <1>2, <1>3 DEF Stored, AssetRefersToApp, TypeOK, Range
<1>9. AssetAttributed'
  <2> SUFFICES ASSUME NEW p \in DOMAIN asset', asset'[p] \in DOMAIN app
               PROVE  \/ app[asset'[p]] = p
                      \/ \E i \in Images : /\ <<i, p>> \in done'
                                           /\ \/ app[asset'[p]] = i
                                              \/ i \in DOMAIN asset' /\ asset'[i] = asset'[p]
    BY DEF AssetAttributed
  <2>1. CASE p \in DOMAIN asset
    BY <1>3, <1>4, <2>1 DEF AssetAttributed
  <2>2. CASE p \notin DOMAIN asset
    <3>1. pc[w] = "target" /\ p = target[w] /\ asset'[p] = software_id[w]
      BY <1>3, <2>2
    <3>2. <<image[w], p>> \in done'
      BY <1>4, <3>1
    <3>3. \/ app[asset'[p]] = image[w]
          \/ image[w] \in DOMAIN asset' /\ asset'[image[w]] = asset'[p]
      BY <1>3, <3>1 DEF Stored
    <3> QED  BY <1>1, <3>2, <3>3
  <2> QED  BY <2>1, <2>2
<1>10. EveryEventRecorded'
  <2> SUFFICES ASSUME NEW e \in done'
               PROVE  e[1] \in Filtered \/ e[2] \in DOMAIN asset'
    BY DEF EveryEventRecorded
  <2>1. CASE e \in done
    BY <1>3, <2>1 DEF EveryEventRecorded
  <2>2. CASE e = <<image[w], target[w]>>
    BY <2>2
  <2> QED  BY <1>4, <2>1, <2>2
<1> QED  BY <1>5, <1>6, <1>7, <1>8, <1>9, <1>10

\* A worker that fails forgets its event, and the tables stay as they are.
LEMMA FailKeeps == ASSUME IInv, NEW w \in Workers, Fail(w) PROVE IInv'
<1> USE DEF IInv, Fail, Leave, Goto, tables
<1>1. TypeOK'
  BY InstallDbAssumption DEF TypeOK, Step
<1>2. Counted'
  BY DEF Counted, TypeOK
<1>3. IdsFresh'
  BY DEF IdsFresh, Counted, TypeOK
<1>4. Stored'
  BY DEF Stored, AssetRefersToApp, TypeOK
<1>5. (AssetAttributed /\ EveryEventRecorded)'
  BY DEF AssetAttributed, EveryEventRecorded
<1> QED  BY <1>1, <1>2, <1>3, <1>4, <1>5

\* A refused image's event leaves no trace.
LEMMA SelectRefusedKeeps ==
  ASSUME IInv, NEW w \in Workers, SelectRefused(w) PROVE IInv'
BY EndKeeps DEF SelectRefused, tables

\* The target is recorded now, or was before.
LEMMA InsertTargetKeeps ==
  ASSUME IInv, NEW w \in Workers, InsertTarget(w) PROVE IInv'
<1>1. target[w] \in DOMAIN asset'
  BY InsertOrIgnoreAdds DEF InsertTarget
<1> QED  BY <1>1, EndKeeps DEF InsertTarget

-----------------------------------------------------------------------------
(* The theorems *)

\* No step of any worker, no failure and no restart breaks the tables.
LEMMA NextKeeps == ASSUME IInv, Next PROVE IInv'
<1>1. ASSUME NEW w \in Workers, Handle(w) PROVE IInv'
  BY <1>1, FailKeeps, SelectKnownKeeps, SelectRefusedKeeps, SelectNewKeeps,
     GenerateIdKeeps, InsertAppKeeps, InsertImageKeeps, InsertTargetKeeps DEF Handle
<1> QED  BY <1>1, ConnectKeeps, CrashKeeps, StartKeeps DEF Next

\* The invariant holds in every state of the service.
THEOREM Inductive == Spec => []IInv
<1>1. IInv /\ [Next]_vars => IInv'
  <2> SUFFICES ASSUME IInv, [Next]_vars PROVE IInv'
    OBVIOUS
  <2>1. CASE UNCHANGED vars
    BY <2>1 DEF vars, tables, event, IInv, TypeOK, Counted, IdsFresh, Stored,
               AssetRefersToApp, AssetAttributed, EveryEventRecorded
  <2> QED  BY <2>1, NextKeeps
<1> QED  BY InitIInv, <1>1, PTL DEF Spec

\* Rows and workers' variables keep their types.
THEOREM TypeCorrect == Spec => []TypeOK
<1>1. IInv => TypeOK  BY DEF IInv
<1> QED  BY Inductive, <1>1, PTL

\* Every software_id of asset is a row of app, although nothing in the schema
\* demands it and no transaction encloses the two inserts.
THEOREM ReferencesHold == Spec => []AssetRefersToApp
<1>1. IInv => AssetRefersToApp  BY DEF IInv, Stored
<1> QED  BY Inductive, <1>1, PTL

\* No two products get the same id, over any number of restarts.
THEOREM IdsAreFresh == Spec => []IdsFresh
<1>1. IInv => IdsFresh  BY DEF IInv
<1> QED  BY Inductive, <1>1, PTL

\* Every file belongs to the product of an image that created it, or is it.
THEOREM FilesAttributed == Spec => []AssetAttributed
<1>1. IInv => AssetAttributed  BY DEF IInv
<1> QED  BY Inductive, <1>1, PTL

\* No event is lost to a race, whichever workers insert the same products, files
\* and ids: this rests on the ids being fresh and on the ignored second inserts.
THEOREM EventsRecorded == Spec => []EveryEventRecorded
<1>1. IInv => EveryEventRecorded  BY DEF IInv
<1> QED  BY Inductive, <1>1, PTL

\* No row is ever changed or removed.
THEOREM RowsStay == Spec => RowsFinal
<1> DEFINE Stay == /\ \A id \in DOMAIN app : id \in DOMAIN app' /\ app'[id] = app[id]
                   /\ \A p \in DOMAIN asset : p \in DOMAIN asset' /\ asset'[p] = asset[p]
<1>1. IInv /\ [Next]_vars => [Stay]_vars
  <2> SUFFICES ASSUME IInv, Next PROVE Stay
    OBVIOUS
  <2>1. CASE UNCHANGED tables
    BY <2>1 DEF tables
  <2>2. ASSUME NEW w \in Workers, InsertApp(w) PROVE Stay
    <3>1. /\ software_id[w] \notin DOMAIN app /\ UNCHANGED asset
          /\ app' = [k \in DOMAIN app \cup {software_id[w]} |->
                       IF k = software_id[w] THEN image[w] ELSE app[k]]
      BY <2>2 DEF InsertApp, Taken, IInv, IdsFresh, Insert
    <3> QED  BY <3>1
  <2>3. ASSUME NEW w \in Workers, InsertImage(w) \/ InsertTarget(w) PROVE Stay
    BY <2>3, InsertOrIgnoreAdds DEF InsertImage, InsertTarget
  <2>4. ASSUME NEW w \in Workers,
               \/ Fail(w) \/ SelectKnown(w) \/ SelectRefused(w)
               \/ SelectNew(w) \/ GenerateId(w)
        PROVE  UNCHANGED tables
    BY <2>4 DEF Fail, SelectKnown, SelectRefused, SelectNew, GenerateId
  <2>5. ASSUME \/ Connect \/ Crash
               \/ \E w \in Workers, i \in Images, p \in Paths : Start(w, i, p)
        PROVE  UNCHANGED tables
    BY <2>5 DEF Connect, Crash, Start
  <2> QED  BY <2>1, <2>2, <2>3, <2>4, <2>5 DEF Next, Handle
<1> QED  BY Inductive, <1>1, PTL DEF Spec, RowsFinal
=============================================================================
