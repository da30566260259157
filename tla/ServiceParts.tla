---------------------------- MODULE ServiceParts ----------------------------
(***************************************************************************)
(* The service's parts that share no state: the reading of version         *)
(* resources (module VersionInfo), the conversion of paths (P, module      *)
(* PathConversion), the way to the database (S, module SqlConnect) and the *)
(* log (L, module Logging).  A behaviour runs one of them, and the others  *)
(* stay as they are.                                                       *)
(***************************************************************************)
EXTENDS VersionInfo, Integers

-----------------------------------------------------------------------------
(* PathConversion *)

CONSTANTS LastDrive, Devices, Paths, Keys, Roots, Separator, Fold(_)

VARIABLES drives, p_pc, path, mask, i, target, kept
pathVars == <<drives, p_pc, path, mask, i, target, kept>>

P == INSTANCE PathConversion WITH pc <- p_pc

\* Files are named in full: a name that starts with a device's is that of a file
\* on a device, which is followed by a separator, and no device is on another.
\* Keys are named otherwise, and each root by one prefix.
Names == Devices \cup Paths \cup Keys \cup {r.prefix : r \in Roots}
Word  == {Separator} \cup UNION {Range(s) : s \in Names}
ASSUME PathAssumption ==
  /\ LastDrive \in Nat /\ None \notin P!Letters \X Seq(Word)
  /\ Names \subseteq Seq(Word) /\ Paths \cap Keys = {}
  /\ \A r \in Roots : r.root \notin P!Letters
  /\ \A q, r \in Roots : q.root = r.root => q = r
  /\ \A p \in Paths, d \in Devices :
       P!Matches(d, p) => \E e \in Devices : P!Matches(Append(e, Separator), p)
  /\ \A d, e \in Devices : ~P!Matches(Append(e, Separator), d)

\* No letter is in use until the conversion of paths is what runs.
PathIdle == drives = [l \in P!Letters |-> None] /\ P!Init

-----------------------------------------------------------------------------
(* SqlConnect *)

CONSTANT MaxId

VARIABLES s_pc, library, driver_, conn_, max_software_id_, tables, ids
sqlVars == <<s_pc, library, driver_, conn_, max_software_id_, tables, ids>>

S == INSTANCE SqlConnect WITH pc <- s_pc

-----------------------------------------------------------------------------
(* Logging *)

CONSTANTS Threads, Statements

VARIABLES log_level, l_pc, streams, mutex, buffered, file, made, done
logVars == <<log_level, l_pc, streams, mutex, buffered, file, made, done>>

L == INSTANCE Logging WITH pc <- l_pc
LogIdle == log_level = 0 /\ L!Init

\* Nobody is a thread called none.
ASSUME LogAssumption == None \notin Threads

-----------------------------------------------------------------------------
VARIABLE part

InfoIdle ==
  /\ texts = [t \in Tables |-> [ProductName |-> None, CompanyName |-> None,
                                ProductVersion |-> None, FileVersion |-> None]]
  /\ translation = None /\ Init

PartsInit ==
  \/ part = "version" /\ Init /\ PathIdle /\ S!Init /\ LogIdle
  \/ part = "path" /\ InfoIdle /\ P!Init /\ S!Init /\ LogIdle
  \/ part = "sql" /\ InfoIdle /\ PathIdle /\ S!Init /\ LogIdle
  \/ part = "log" /\ InfoIdle /\ PathIdle /\ S!Init /\ L!Init

PartsNext ==
  /\ UNCHANGED part
  /\ \/ part = "version" /\ Next /\ UNCHANGED <<pathVars, sqlVars, logVars>>
     \/ part = "path" /\ P!Next /\ UNCHANGED <<vars, sqlVars, logVars>>
     \/ part = "sql" /\ S!Next /\ UNCHANGED <<vars, pathVars, logVars>>
     \/ part = "log" /\ L!Next /\ UNCHANGED <<vars, pathVars, sqlVars>>

PartsSpec == PartsInit /\ [][PartsNext]_<<part, vars, pathVars, sqlVars, logVars>>

\* A file's name (ConvertFilePath) starts with the first letter that stays mapped to
\* what its path starts with, and leads back to the path while that letter stays;
\* two keys never get the same name (ConvertRegistryPath): see PathConversion.
ConvertedRightly == P!ConvertedRightly

\* Once SqlHelper::Connect has returned true the tables are there and the next
\* ids are new: see SqlConnect.
ReadyToRecord == S!ReadyToRecord

\* The SQL driver's library (DriverManager) stays mapped as long as an object of
\* it exists, and is released if it has no driver: see SqlConnect.
LibraryHeldRight == S!LibraryHeldRight

\* Lines of several threads are not mixed, and none is lost or doubled when its
\* statement (LOG_INF and the like) is over: see Logging.
LogFaithful == L!LogFaithful
=============================================================================
