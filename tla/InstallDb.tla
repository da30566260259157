----------------------------- MODULE InstallDb -----------------------------
(***************************************************************************)
(* What the service records: InstallMonitor (src/src/srv/                  *)
(* install_monitor.cc), InsertSoftware and InsertAsset (src/src/srv/       *)
(* install_manager.cc) and the two tables behind SqlHelper (src/src/srv/   *)
(* sql_helper.cc), used by the worker threads of Communication at once and *)
(* without a lock or a transaction.                                        *)
(*                                                                         *)
(* Paths are what ConvertFilePath and ConvertRegistryPath have made of     *)
(* them; an event whose path they refuse leaves no trace.  One SQL         *)
(* statement is one step, and so is the atomic ++max_software_id_.         *)
(***************************************************************************)
EXTENDS Integers, FiniteSets, FiniteSetsExt, Functions

CONSTANTS
  Workers,   \* the threads of Communication
  Images,    \* process images
  Paths,     \* files and registry keys, the images among them
  Filtered,  \* images of Microsoft Corporation other than Microsoft Office
  None

ASSUME InstallDbAssumption ==
  /\ IsFiniteSet(Workers) /\ Images \subseteq Paths /\ Filtered \subseteq Images
  /\ None \notin Paths

VARIABLES
  app,               \* table app: the image each id was inserted for
  asset,             \* table asset: the software_id of each file
  max_software_id_,
  running,           \* the service runs and is connected
  pc,                \* each worker's step
  image, target,     \* the event it handles, or None
  software_id,       \* its local variable software_id
  done               \* the events whose handling has ended, but for those
                     \* that a failure from outside has ended (Fail)

tables == <<app, asset>>
event  == <<image, target>>
vars   == <<tables, max_software_id_, running, pc, event, software_id, done>>

Step == {"idle", "select", "id", "app", "asset", "target"}

Insert(table, key, value) ==
  [k \in DOMAIN table \cup {key} |-> IF k = key THEN value ELSE table[k]]
\* insert or ignore: the first row of a file stays.
InsertOrReplace(table, key, value) == Insert(table, key, value)
InsertOrIgnore(table, key, value) ==
  IF key \in DOMAIN table THEN table ELSE Insert(table, key, value)

Init ==
  /\ app = <<>> /\ asset = <<>> /\ max_software_id_ = 0 /\ running = FALSE
  /\ pc = [w \in Workers |-> "idle"]
  /\ image = [w \in Workers |-> None] /\ target = [w \in Workers |-> None]
  /\ software_id = [w \in Workers |-> 0]
  /\ done = {}

Goto(w, step) == pc' = [pc EXCEPT ![w] = step]

-----------------------------------------------------------------------------
(* The service *)

\* SqlHelper::Connect: ids go on from the highest in the table; max(id) of an
\* empty table reads as 0.
RestartFromZero == 0
HighestId == IF DOMAIN app = {} THEN 0 ELSE Max(DOMAIN app)

Connect ==
  /\ ~running
  /\ running' = TRUE
  /\ max_software_id_' = HighestId
  /\ UNCHANGED <<tables, pc, event, software_id, done>>

\* The process dies with its threads; every statement it executed is committed.
Crash ==
  /\ running
  /\ running' = FALSE /\ max_software_id_' = 0
  /\ pc' = [w \in Workers |-> "idle"]
  /\ image' = [w \in Workers |-> None] /\ target' = [w \in Workers |-> None]
  /\ software_id' = [w \in Workers |-> 0]
  /\ UNCHANGED <<tables, done>>

-----------------------------------------------------------------------------
(* FileInstall and RegistryInstall *)

\* A worker starts to handle the event that i has created p.
Start(w, i, p) ==
  /\ running /\ pc[w] = "idle" /\ Goto(w, "select")
  /\ image' = [image EXCEPT ![w] = i] /\ target' = [target EXCEPT ![w] = p]
  /\ UNCHANGED <<tables, max_software_id_, running, software_id, done>>

\* The handling of an event ends, and the worker forgets it.
Leave(w) ==
  /\ Goto(w, "idle")
  /\ image' = [image EXCEPT ![w] = None] /\ target' = [target EXCEPT ![w] = None]
  /\ software_id' = [software_id EXCEPT ![w] = 0]
End(w) == Leave(w) /\ done' = done \cup {<<image[w], target[w]>>}

\* A statement or the version query fails for reasons of its own (a full disk, a
\* file that cannot be opened), and the event with it.
Fail(w) ==
  /\ pc[w] \in {"select", "app", "asset", "target"}
  /\ Leave(w)
  /\ UNCHANGED <<tables, max_software_id_, running, done>>

\* SelectSoftwareIdByPath: the image may be known as a product's file.
SelectKnown(w) ==
  /\ pc[w] = "select" /\ image[w] \in DOMAIN asset
  /\ software_id' = [software_id EXCEPT ![w] = asset[image[w]]]
  /\ Goto(w, "target")
  /\ UNCHANGED <<tables, max_software_id_, running, event, done>>

\* An image without a row is refused or accepted by its version info.
SelectRefused(w) ==
  /\ pc[w] = "select" /\ image[w] \notin DOMAIN asset /\ image[w] \in Filtered
  /\ End(w)
  /\ UNCHANGED <<tables, max_software_id_, running>>
SelectNew(w) ==
  /\ pc[w] = "select" /\ image[w] \notin DOMAIN asset /\ image[w] \notin Filtered
  /\ Goto(w, "id")
  /\ UNCHANGED <<tables, max_software_id_, running, event, software_id, done>>

\* SqlHelper::InsertSoftware: an id, and its row of app.
GenerateId(w) ==
  /\ pc[w] = "id" /\ Goto(w, "app")
  /\ software_id' = [software_id EXCEPT ![w] = max_software_id_ + 1]
  /\ max_software_id_' = max_software_id_ + 1
  /\ UNCHANGED <<tables, running, event, done>>
\* The primary key refuses an id that is taken, and that ends the event, which
\* then counts as done: no failure from outside excuses it.
Taken(w) == software_id[w] \in DOMAIN app
InsertAppUnchecked(w) ==
  /\ pc[w] = "app" /\ Goto(w, "asset")
  /\ app' \in {app, Insert(app, software_id[w], image[w])}
  /\ UNCHANGED <<asset, max_software_id_, running, event, software_id, done>>
InsertApp(w) ==
  /\ pc[w] = "app"
  /\ IF Taken(w)
     THEN End(w) /\ UNCHANGED app
     ELSE /\ Goto(w, "asset")
          /\ app' = Insert(app, software_id[w], image[w])
          /\ UNCHANGED <<event, software_id, done>>
  /\ UNCHANGED <<asset, max_software_id_, running>>

\* SqlHelper::InsertAsset, for the image of a new product and for the target.
InsertImageOrEnd(w) ==
  /\ pc[w] = "asset"
  /\ IF image[w] \in DOMAIN asset
     THEN End(w) /\ UNCHANGED asset
     ELSE /\ Goto(w, "target")
          /\ asset' = Insert(asset, image[w], software_id[w])
          /\ UNCHANGED <<event, software_id, done>>
  /\ UNCHANGED <<app, max_software_id_, running>>
InsertImage(w) ==
  /\ pc[w] = "asset" /\ Goto(w, "target")
  /\ asset' = InsertOrIgnore(asset, image[w], software_id[w])
  /\ UNCHANGED <<app, max_software_id_, running, event, software_id, done>>
InsertTargetOfLast(w) ==
  /\ pc[w] = "target"
  /\ asset' = InsertOrIgnore(asset, target[w], max_software_id_)
  /\ End(w)
  /\ UNCHANGED <<app, max_software_id_, running>>
InsertTarget(w) ==
  /\ pc[w] = "target"
  /\ asset' = InsertOrIgnore(asset, target[w], software_id[w])
  /\ End(w)
  /\ UNCHANGED <<app, max_software_id_, running>>

Handle(w) == \/ Fail(w) \/ SelectKnown(w) \/ SelectRefused(w) \/ SelectNew(w)
             \/ GenerateId(w) \/ InsertApp(w) \/ InsertImage(w) \/ InsertTarget(w)
Next == \/ Connect \/ Crash
        \/ \E w \in Workers : \/ Handle(w)
                              \/ \E i \in Images, p \in Paths : Start(w, i, p)

Spec == Init /\ [][Next]_vars

-----------------------------------------------------------------------------
(* Properties *)

TypeOK ==
  /\ DOMAIN app \subseteq Nat \ {0} /\ Range(app) \subseteq Images
  /\ DOMAIN asset \subseteq Paths /\ Range(asset) \subseteq Nat \ {0}
  /\ max_software_id_ \in Nat /\ running \in BOOLEAN
  /\ pc \in [Workers -> Step] /\ software_id \in [Workers -> Nat]
  /\ image \in [Workers -> Images \cup {None}]
  /\ target \in [Workers -> Paths \cup {None}]
  /\ done \subseteq Images \X Paths
  /\ \A w \in Workers : (pc[w] = "idle") <=> (image[w] = None)

\* The schema declares no foreign key, but every file's software_id is a row of
\* app, whatever fails and whenever the service dies (InsertSoftware inserts
\* into app before it inserts into asset).
AssetRefersToApp == Range(asset) \subseteq DOMAIN app

\* ++max_software_id_ never yields an id that is taken or that another worker
\* is about to insert, over any number of restarts and failed inserts: the
\* primary key of app refuses no product.
IdsFresh ==
  \A w \in Workers :
    pc[w] = "app" => /\ software_id[w] \notin DOMAIN app
                     /\ \A v \in Workers \ {w} :
                          pc[v] # "idle" => software_id[v] # software_id[w]

\* A file is attributed to the product whose image it is, to the product of an
\* image that created it, or to the product that this image belongs to itself
\* (FileInstall passes the id that InsertSoftware found for the image).
AssetAttributed ==
  \A p \in DOMAIN asset : asset[p] \in DOMAIN app =>
    \/ app[asset[p]] = p
    \/ \E i \in Images : /\ <<i, p>> \in done
                         /\ \/ app[asset[p]] = i
                            \/ i \in DOMAIN asset /\ asset[i] = asset[p]

\* Whatever workers race on the same file, its product never changes, and no
\* row is overwritten (insert or ignore).
RowsFinal ==
  [][/\ \A id \in DOMAIN app : id \in DOMAIN app' /\ app'[id] = app[id]
     /\ \A p \in DOMAIN asset : p \in DOMAIN asset' /\ asset'[p] = asset[p]]_vars

\* Workers never lose each other's events: of all events whose handling has ended
\* without a failure from outside, the target is in asset, or the image is
\* refused.  An event is lost when a statement of it meets what another worker,
\* or an earlier life of the service, has inserted: an id that app has already, a
\* product that another worker inserts at the same time.
EveryEventRecorded == \A e \in done : e[1] \in Filtered \/ e[2] \in DOMAIN asset
=============================================================================
