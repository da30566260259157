----------------------------- MODULE Collection -----------------------------
(***************************************************************************)
(* What the driver reports: the callbacks of file_monitor.cc and           *)
(* reg_monitor.cc (src/src/drv), from the operation they are called for to *)
(* the message they hand to SendMessage.  Everything a callback takes from *)
(* the system it has to give back on every path.  Callbacks share nothing, *)
(* so one thread of the system runs one after the other.                   *)
(***************************************************************************)
EXTENDS Naturals, FiniteSets

CONSTANTS
  Objects,    \* files and registry keys
  Processes,  \* processes, each with its image
  Nameless,   \* those of them whose image the system cannot name
  Empty       \* the empty string

VARIABLES
  pc,       \* the step of the callback
  op,       \* the operation it was called for
  name,     \* its local variable file_name or reg_path
  image,    \* its local variable proc_image_name
  held,     \* what it has taken from the system and not given back
  failed,   \* whether a call to the system failed
  sent      \* the messages of this callback that SendMessage has accepted

locals == <<name, image>>
vars   == <<pc, op, locals, held, failed, sent>>

Kind == {"create", "rename", "link", "set-other",
         "key-create", "key-value", "key-rename", "key-other"}

\* The post-operation data of an operation: done is its success, fresh what
\* Information = FILE_CREATED or the key's Disposition says, and known whether
\* the system passes info, its Object and its PreInformation.
Operation == [kind : Kind, object : Objects, process : Processes,
              done : BOOLEAN, fresh : BOOLEAN, known : BOOLEAN]

Keys  == {"key-create", "key-value", "key-rename", "key-other"}
OnKey == op.kind \in Keys

Resource == {"file_name_info", "key_path", "process", "image_name", "message"}

Init ==
  /\ pc = "idle" /\ op \in {o \in Operation : o.kind = "set-other"}
  /\ name = Empty /\ image = Empty /\ held = {} /\ failed = FALSE /\ sent = {}

Goto(step)  == pc' = step
Take(r)     == held' = held \cup {r}
Release(rs) == held' = held \ rs

-----------------------------------------------------------------------------
(* Which operations count *)

\* PostCreate, PostSetInfo.
FileReported(o) ==
  o.done /\ \/ o.kind = "create" /\ o.fresh
            \/ o.kind \in {"rename", "link"}

\* NotifyRoutine and CollectEvent: a key that was only opened is skipped.
KeyReportedWhenOpened(o) ==
  o.known /\ o.done /\ o.kind \in {"key-create", "key-value", "key-rename"}
KeyReported(o) ==
  o.known /\ o.done /\ \/ o.kind = "key-create" /\ o.fresh
                       \/ o.kind \in {"key-value", "key-rename"}

\* The system calls for an operation, and the callback returns at once or goes
\* on to query names.
Call(o) ==
  /\ pc = "idle"
  /\ op' = o /\ failed' = FALSE /\ sent' = {}
  /\ Goto(IF FileReported(o) \/ KeyReported(o) THEN "name" ELSE "idle")
  /\ UNCHANGED <<locals, held>>

-----------------------------------------------------------------------------
(* The object's name *)

\* CopyUnicodeString: a string without a buffer, or one that faults while it is
\* read, leaves the copy empty, which nobody notices.
CopyUnicodeString(s) == {s, Empty}

\* A query that fails ends the callback; the label at its end releases the
\* name information if there is any.
GiveUp(step) ==
  /\ Goto(step) /\ failed' = TRUE
  /\ UNCHANGED <<op, locals, held, sent>>

\* NotifyFileCreated, NotifyFileLink, NotifyFileRenamed.
QueryFileName ==
  /\ pc = "name" /\ ~OnKey
  /\ \/ GiveUp("leave")
     \/ /\ Take("file_name_info")
        /\ Goto(IF op.kind = "create" THEN "parse" ELSE "copy")
        /\ UNCHANGED <<op, locals, failed, sent>>

ParseFileName ==
  /\ pc = "parse"
  /\ \/ GiveUp("leave")
     \/ Goto("copy") /\ UNCHANGED <<op, locals, held, failed, sent>>

CopyFileName ==
  /\ pc = "copy"
  /\ name' \in CopyUnicodeString(op.object)
  /\ Goto("process")
  /\ UNCHANGED <<op, image, held, failed, sent>>

\* GetAbsoluteRegistryPath: CmCallbackGetKeyObjectIDEx, where the system has it,
\* returns a path that has to be released, CmCallbackGetKeyObjectID does not.
QueryKeyName ==
  /\ pc = "name" /\ OnKey
  /\ \/ GiveUp("return")
     \/ /\ name' \in CopyUnicodeString(op.object)
        /\ \/ Take("key_path") /\ Goto("key")
           \/ UNCHANGED held /\ Goto("process")
        /\ UNCHANGED <<op, image, failed, sent>>
ReleaseKeyName ==
  /\ pc = "key" /\ Release({"key_path"}) /\ Goto("process")
  /\ UNCHANGED <<op, locals, failed, sent>>

-----------------------------------------------------------------------------
(* GetCurrentProcessImageName *)

LookupProcess ==
  /\ pc = "process"
  /\ \/ GiveUp(IF OnKey THEN "return" ELSE "leave")
     \/ Take("process") /\ Goto("locate") /\ UNCHANGED <<op, locals, failed, sent>>

\* The image that cannot be located, or has no name, is reported as empty.
LocateWithoutDereference ==
  /\ pc = "locate"
  /\ IF op.process \in Nameless THEN Goto("build") /\ UNCHANGED held
     ELSE Goto("image") /\ Take("image_name")
  /\ UNCHANGED <<op, locals, failed, sent>>
LocateImage ==
  /\ pc = "locate"
  /\ IF op.process \in Nameless THEN Goto("dereference") /\ UNCHANGED held
     ELSE Goto("image") /\ Take("image_name")
  /\ UNCHANGED <<op, locals, failed, sent>>

CopyImage ==
  /\ pc = "image"
  /\ image' \in CopyUnicodeString(op.process)
  /\ Release({"image_name"}) /\ Goto("dereference")
  /\ UNCHANGED <<op, name, failed, sent>>
Dereference ==
  /\ pc = "dereference" /\ Release({"process"}) /\ Goto("build")
  /\ UNCHANGED <<op, locals, failed, sent>>

-----------------------------------------------------------------------------
(* install::FileInstall and install::RegistryInstall *)

Leave == Goto(IF OnKey THEN "return" ELSE "leave")

\* The message, whose layout is in module EventCodec.
Report == [type |-> IF OnKey THEN 1 ELSE 0, image |-> image, path |-> name]

\* BuildInstallInfo: without memory there is no message.
BuildInstallInfo ==
  /\ pc = "build"
  /\ \/ Leave /\ failed' = TRUE /\ UNCHANGED <<op, locals, held, sent>>
     \/ Take("message") /\ Goto("send") /\ UNCHANGED <<op, locals, failed, sent>>

\* The message belongs to SendMessage from now on (module Ioctl), or is
\* deleted when SendMessage has no use for it.
SendOrLeak ==
  /\ pc = "send" /\ Leave
  /\ \/ /\ Release({"message"}) /\ UNCHANGED failed
        /\ sent' = {Report}
     \/ failed' = TRUE /\ UNCHANGED <<held, sent>>
  /\ UNCHANGED <<op, locals>>
Send ==
  /\ pc = "send" /\ Leave
  /\ Release({"message"})
  /\ \/ sent' = {Report} /\ UNCHANGED failed
     \/ failed' = TRUE /\ UNCHANGED sent
  /\ UNCHANGED <<op, locals>>

ReleaseFileName ==
  /\ pc = "leave" /\ Release({"file_name_info"}) /\ Goto("return")
  /\ UNCHANGED <<op, locals, failed, sent>>

\* The strings of the callback are destroyed with it.
Return ==
  /\ pc = "return" /\ Goto("idle")
  /\ name' = Empty /\ image' = Empty
  /\ UNCHANGED <<op, held, failed, sent>>

Callback ==
  \/ QueryFileName \/ ParseFileName \/ CopyFileName \/ QueryKeyName
  \/ ReleaseKeyName \/ LookupProcess \/ LocateImage \/ CopyImage \/ Dereference
  \/ BuildInstallInfo \/ Send \/ ReleaseFileName \/ Return

Next == Callback \/ \E o \in Operation : Call(o)
Spec == Init /\ [][Next]_vars

-----------------------------------------------------------------------------
(* Properties *)

TypeOK ==
  /\ pc \in {"idle", "name", "parse", "copy", "key", "process", "locate", "image",
            "dereference", "build", "send", "leave", "return"}
  /\ op \in Operation /\ failed \in BOOLEAN
  /\ name \in Objects \cup {Empty} /\ image \in Processes \cup {Empty}
  /\ held \subseteq Resource
  /\ sent \subseteq [type : {0, 1}, image : Processes \cup {Empty},
                     path : Objects \cup {Empty}]

\* A callback that returns has given back all it took, wherever it gave up: the
\* name information, the references and strings of the system, the message.
NothingHeld == pc \in {"return", "idle"} => held = {}

\* An operation is reported, when its callback returns, if and only if it has
\* brought a name into being (or set a value) and no call to the system failed;
\* what the system cannot name is reported all the same, with an empty name.
Created(o) ==
  /\ o.done /\ o.kind \notin {"set-other", "key-other"}
  /\ o.kind \in {"create", "key-create"} => o.fresh
  /\ o.kind \in Keys => o.known
ReportedExactly == pc = "idle" => (sent # {} <=> Created(op) /\ ~failed)
=============================================================================
