----------------------------- MODULE DriverParts -----------------------------
(***************************************************************************)
(* The driver's parts that share no state: its life cycle (module Driver), *)
(* the callbacks that collect events (K, module Collection) and the layout *)
(* of the messages they are sent in (E, module EventCodec).  A behaviour   *)
(* runs one of them, and the others stay as they are.                      *)
(***************************************************************************)
EXTENDS Driver, Integers, Sequences

-----------------------------------------------------------------------------
(* Collection *)

CONSTANTS Objects, Processes, Nameless, Empty

ASSUME CollectionAssumption ==
  /\ Nameless \subseteq Processes
  /\ Empty \notin Objects \cup Processes

VARIABLES callback, op, name, image, held, failed, reported
collection == <<callback, op, name, image, held, failed, reported>>

K == INSTANCE Collection WITH pc <- callback, sent <- reported

-----------------------------------------------------------------------------
(* EventCodec *)

CONSTANTS Char, NUL, MaxName, LenMod, kMaxMsgSize, None

\* Names are as long as a UNICODE_STRING can count, and its Length is as wide as
\* image_len and path_len; a slot holds at least the head of a message.
ASSUME CodecAssumption ==
  /\ NUL \in Char /\ MaxName \in Nat /\ LenMod \in Nat /\ MaxName < LenMod
  /\ kMaxMsgSize \in Nat /\ kMaxMsgSize >= 6

VARIABLES image_len, path_len, type, buffer, sent
slot == <<image_len, path_len, type, buffer, sent>>

E == INSTANCE EventCodec

-----------------------------------------------------------------------------
VARIABLE part

PartsInit == /\ part \in {"life", "collection", "codec"}
             /\ Init /\ K!Init /\ E!Init
PartsNext ==
  /\ UNCHANGED part
  /\ \/ part = "life" /\ Next /\ UNCHANGED <<collection, slot>>
     \/ part = "collection" /\ K!Next /\ UNCHANGED <<vars, slot>>
     \/ part = "codec" /\ E!Next /\ UNCHANGED <<vars, collection>>

PartsSpec == PartsInit /\ [][PartsNext]_<<part, vars, collection, slot>>

\* A callback gives back what it took, wherever it gave up: see Collection.
NothingHeld == K!NothingHeld

\* What comes into being is reported, and nothing else: see Collection.
ReportedExactly == K!ReportedExactly

\* The service reads the names that the driver wrote: see EventCodec.
EventSurvives == E!EventSurvives
=============================================================================
