----------------------------- MODULE SqlConnect -----------------------------
(***************************************************************************)
(* The way to the database: DriverManager (include/sql/manager.h), which   *)
(* loads the SQL driver's library, and SqlHelper::Connect (src/src/srv/    *)
(* sql_helper.cc), which creates the tables and reads the highest id.  The *)
(* library is not part of the repository: it may be missing, hand out null *)
(* pointers and fail any statement.                                        *)
(***************************************************************************)
EXTENDS Naturals, FiniteSets, FiniteSetsExt

CONSTANT MaxId  \* how far ids are generated (a bound)

VARIABLES
  pc,                \* "out": no process; "failed": Connect has returned false
  library,           \* the driver's code is mapped
  driver_, conn_,    \* DriverManager's and SqlHelper's objects exist
  max_software_id_,
  tables, ids        \* the tables that exist, the ids in app: on disk

disk == <<tables, ids>>
vars == <<pc, library, driver_, conn_, max_software_id_, tables, ids>>

Init ==
  /\ pc = "out" /\ library = FALSE /\ driver_ = FALSE /\ conn_ = FALSE
  /\ max_software_id_ = 0 /\ tables = {} /\ ids = {}

From(step, next) == pc = step /\ pc' = next

-----------------------------------------------------------------------------
(* LoadDriverInternal, GetConnectionInternal *)

Begin ==
  /\ From("out", "open")
  /\ UNCHANGED <<library, driver_, conn_, max_software_id_, disk>>

OpenFails ==
  /\ From("open", "failed")
  /\ UNCHANGED <<library, driver_, conn_, max_software_id_, disk>>
Open ==
  /\ From("open", "symbol") /\ library' = TRUE
  /\ UNCHANGED <<driver_, conn_, max_software_id_, disk>>

\* The library has no CreateDriver: it is closed again.
NoSymbol ==
  /\ From("symbol", "failed") /\ library' = FALSE
  /\ UNCHANGED <<driver_, conn_, max_software_id_, disk>>

CreateDriverAndClose ==
  /\ From("symbol", "connection") /\ driver_' \in BOOLEAN /\ library' = FALSE
  /\ UNCHANGED <<conn_, max_software_id_, disk>>
CreateDriver ==
  /\ From("symbol", "connection") /\ driver_' \in BOOLEAN
  /\ UNCHANGED <<library, conn_, max_software_id_, disk>>

\* Without a driver there is no connection, and a driver may give none.
GetConnection ==
  /\ From("connection", "app")
  /\ conn_' \in BOOLEAN /\ (conn_' => driver_)
  /\ UNCHANGED <<library, driver_, max_software_id_, disk>>

-----------------------------------------------------------------------------
(* The statements of Connect; without a connection the first one is the end *)
(* of the process (Crash).                                                  *)

CreateTable(table, next) ==
  /\ From(table, next) /\ conn_ /\ tables' = tables \cup {table}
  /\ UNCHANGED <<library, driver_, conn_, max_software_id_, ids>>

\* select max(id) from app; of an empty table it reads as 0.
CountOfIds == Cardinality(ids)
HighestId == IF ids = {} THEN 0 ELSE Max(ids)
ReadHighest ==
  /\ From("max", "ready") /\ conn_ /\ max_software_id_' = HighestId
  /\ UNCHANGED <<library, driver_, conn_, disk>>

\* A statement throws, and Connect catches it.
Throw ==
  /\ pc \in {"app", "asset", "max"} /\ conn_ /\ pc' = "failed"
  /\ UNCHANGED <<library, driver_, conn_, max_software_id_, disk>>

\* What InsertSoftware does with the counter; the insert may fail.
InsertSoftware ==
  /\ pc = "ready" /\ max_software_id_ < MaxId
  /\ max_software_id_' = max_software_id_ + 1
  /\ ids' \in {ids, ids \cup {max_software_id_ + 1}}
  /\ UNCHANGED <<pc, library, driver_, conn_, tables>>

-----------------------------------------------------------------------------
(* The end: the driver manager was made last and is destroyed first *)

DestroyManager ==
  /\ pc \in {"ready", "failed"} /\ pc' = "exit" /\ driver_' = FALSE
  /\ UNCHANGED <<library, conn_, max_software_id_, disk>>
DestroyHelper ==
  /\ From("exit", "end") /\ conn_' = FALSE
  /\ UNCHANGED <<library, driver_, max_software_id_, disk>>
\* The process is gone, whether it came to its end or died before.
Crash ==
  /\ pc # "out" /\ pc' = "out" /\ library' = FALSE
  /\ driver_' = FALSE /\ conn_' = FALSE /\ max_software_id_' = 0
  /\ UNCHANGED disk

Next == \/ Begin \/ OpenFails \/ Open \/ NoSymbol \/ CreateDriver \/ GetConnection
        \/ CreateTable("app", "asset") \/ CreateTable("asset", "max")
        \/ ReadHighest \/ Throw \/ InsertSoftware
        \/ DestroyManager \/ DestroyHelper \/ Crash
Spec == Init /\ [][Next]_vars

-----------------------------------------------------------------------------
(* Properties *)

\* Once Connect has returned true, both tables exist and every id that will be
\* generated is new, wherever earlier processes died or failed.
ReadyToRecord ==
  pc = "ready" => /\ conn_ /\ tables = {"app", "asset"}
                  /\ \A id \in ids : id <= max_software_id_

\* The driver's code is mapped as long as an object of it exists, to the last
\* destructor (nothing closes the library once CreateDriver has been called).
CodeMapped == driver_ \/ conn_ => library

\* A library without a driver does not stay behind when Connect has failed.
FailedLoadReleased == pc = "failed" /\ library => driver_

\* The library is mapped as long as it is needed, and no longer if it is of no use.
LibraryHeldRight == CodeMapped /\ FailedLoadReleased
=============================================================================
