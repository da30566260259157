-------------------------- MODULE DriverPartsProofs --------------------------
(***************************************************************************)
(* Proofs about the driver's parts: its life cycle, for any number of      *)
(* threads and clients, the callbacks, for any files, keys and processes,  *)
(* and the layout of events, for any words and any sizes of names and      *)
(* buffers.  Each part has an inductive invariant of its own, and each     *)
(* behaviour of DriverParts is one of all three.                           *)
(***************************************************************************)
EXTENDS DriverParts, TLAPS, SequenceTheorems

\* The other parts stay as they are while one of them runs.
LEMMA EachPart == PartsSpec => Spec /\ K!Spec /\ E!Spec
<1>1. PartsInit => Init /\ K!Init /\ E!Init
  BY DEF PartsInit
<1>2. [PartsNext]_<<part, vars, collection, slot>>
        => [Next]_vars /\ [K!Next]_K!vars /\ [E!Next]_E!vars
  BY DEF PartsNext, collection, slot, K!vars, K!locals, E!vars, E!head
<1> QED  BY <1>1, <1>2, PTL DEF PartsSpec, Spec, K!Spec, E!Spec

-----------------------------------------------------------------------------
(* Life cycle *)

\* What is not acquired yet on the way in, and released on the way out.
Staged ==
  /\ pc \in {"absent", "device"} => ~device
  /\ pc \in {"absent", "device", "link", "undevice"} => ~link
  /\ pc \in {"absent", "device", "link", "ctx", "unlink", "undevice"} => ~ctx
  /\ pc \in {"absent", "device", "link", "ctx", "filter",
             "unctx", "unlink", "undevice"} => filter = "none"
  /\ pc \in {"absent", "unfilter", "waitfilter", "unctx", "unlink", "undevice"}
            \cup EntryStep => reg = "off"

\* The context outlives the filter, the callback and every open handle.
Backed ==
  /\ pc \in {"filter", "start", "reg", "loaded"} => ctx
  /\ filter # "none" => ctx
  /\ reg # "off" => ctx
  /\ opened # {} => pc = "loaded"

\* A running callback holds the part that called it.
Called ==
  /\ \A t \in FileThreads : calls[t] # "idle" => filter \in {"started", "draining"}
  /\ \A t \in RegThreads : calls[t] # "idle" => reg \in {"on", "draining"}

Life == TypeOK /\ Staged /\ Backed /\ Called

\* An absent driver holds nothing.
LEMMA InitLife == Init => Life
BY DEF Init, Life, TypeOK, Staged, Backed, Called, EntryStep, ExitStep, CallStep,
       Threads

\* The steps of DriverEntry, one acquisition each.
LEMMA EntryKeeps ==
  ASSUME Life,
         \/ Load \/ EntryFails \/ CreateDevice \/ CreateLink \/ CreateContext
         \/ RegisterFilter \/ StartFiltering \/ RegisterCallback
  PROVE  Life'
<1> USE DEF Life, TypeOK, Staged, Backed, Called, EntryStep, ExitStep, resources
<1>1. CASE Load              BY <1>1 DEF Load
<1>2. CASE EntryFails        BY <1>2 DEF EntryFails
<1>3. CASE CreateDevice      BY <1>3 DEF CreateDevice
<1>4. CASE CreateLink        BY <1>4 DEF CreateLink
<1>5. CASE CreateContext     BY <1>5 DEF CreateContext
<1>6. CASE RegisterFilter    BY <1>6 DEF RegisterFilter
<1>7. CASE StartFiltering    BY <1>7 DEF StartFiltering
<1>8. CASE RegisterCallback  BY <1>8 DEF RegisterCallback
<1> QED  BY <1>1, <1>2, <1>3, <1>4, <1>5, <1>6, <1>7, <1>8

\* The steps of finalize and of the filter manager: what is waited for has been
\* told to drain before, and its callbacks are gone when the wait is over.
LEMMA ExitKeeps ==
  ASSUME Life, Unload \/ Finalize \/ ManagerUnload \/ ManagerUnloaded
  PROVE  Life'
<1> USE DEF Life, TypeOK, Staged, Backed, Called, EntryStep, ExitStep, resources
<1>1. CASE Unload              BY <1>1 DEF Unload
<1>2. CASE Unregister          BY <1>2 DEF Unregister
<1>3. CASE Unregistered        BY <1>3 DEF Unregistered, Outside
<1>4. CASE UnregisterFilter    BY <1>4 DEF UnregisterFilter
<1>5. CASE FilterUnregistered  BY <1>5 DEF FilterUnregistered, Outside
<1>6. CASE DeleteContext       BY <1>6 DEF DeleteContext
<1>7. CASE DeleteLink          BY <1>7 DEF DeleteLink
<1>8. CASE DeleteDevice        BY <1>8 DEF DeleteDevice
<1>9. CASE ManagerUnload       BY <1>9 DEF ManagerUnload
<1>10. CASE ManagerUnloaded    BY <1>10 DEF ManagerUnloaded, Outside
<1> QED
  BY <1>1, <1>2, <1>3, <1>4, <1>5, <1>6, <1>7, <1>8, <1>9, <1>10 DEF Finalize

\* Callbacks start only in a part that runs, and handles only when it is loaded.
LEMMA UseKeeps ==
  ASSUME Life,
         \/ \E t \in FileThreads : FileEvent(t)
         \/ \E t \in RegThreads : RegEvent(t)
         \/ \E t \in Threads : CallSend(t) \/ Return(t)
         \/ \E c \in Clients : Open(c) \/ Close(c)
  PROVE  Life'
<1> USE DriverAssumption
        DEF Life, TypeOK, Staged, Backed, Called, Threads, CallStep, resources
<1>1. ASSUME NEW t \in FileThreads, FileEvent(t) PROVE Life'
  BY <1>1 DEF FileEvent
<1>2. ASSUME NEW t \in RegThreads, RegEvent(t) PROVE Life'
  BY <1>2 DEF RegEvent
<1>3. ASSUME NEW t \in Threads, CallSend(t) \/ Return(t) PROVE Life'
  BY <1>3 DEF CallSend, Return
<1>4. ASSUME NEW c \in Clients, Open(c) \/ Close(c) PROVE Life'
  BY <1>4 DEF Open, Close
<1> QED  BY <1>1, <1>2, <1>3, <1>4

\* Every step of DriverEntry, finalize, the filter manager, a callback or a
\* client keeps the stages in order.
THEOREM LifeInductive == Spec => []Life
<1>1. Life /\ [Next]_vars => Life'
  <2> SUFFICES ASSUME Life, [Next]_vars PROVE Life'
    OBVIOUS
  <2>1. CASE UNCHANGED vars
    BY <2>1 DEF vars, resources, Life, TypeOK, Staged, Backed, Called, EntryStep,
               ExitStep
  <2>2. CASE Next
    BY <2>2, EntryKeeps, ExitKeeps, UseKeeps DEF Next
  <2> QED  BY <2>1, <2>2
<1> QED  BY InitLife, <1>1, PTL DEF Spec

\* The parts of the driver have their types, and none drains unattended.
THEOREM LifeTyped == Spec => []TypeOK
<1>1. Life => TypeOK  BY DEF Life
<1> QED  BY LifeInductive, <1>1, PTL

\* Whatever callbacks and clients there are, the context exists while one of
\* them may use it.
THEOREM ContextOutlivesUse == Spec => []ContextWhileUsed
<1>1. Life => ContextWhileUsed
  BY DEF Life, Backed, Called, ContextWhileUsed, Threads
<1> QED  BY LifeInductive, <1>1, PTL

\* A driver that failed to load, or was unloaded, has given everything back.
THEOREM LeavesNothing == Spec => []NothingLeft
<1>1. Life => NothingLeft  BY DEF Life, Staged, NothingLeft
<1> QED  BY LifeInductive, <1>1, PTL

-----------------------------------------------------------------------------
(* Callbacks *)

\* The steps at which a callback holds each resource.
HeldRight ==
  /\ held \subseteq K!Resource
  /\ "file_name_info" \in held =>
       ~K!OnKey /\ callback \notin {"idle", "name", "key", "return"}
  /\ "key_path"   \in held => callback = "key"
  /\ "process"    \in held => callback \in {"locate", "image", "dereference"}
  /\ "image_name" \in held => callback = "image"
  /\ "message"    \in held => callback = "send"

\* A callback that goes on has an operation to report, and nothing has failed;
\* one that leaves has failed or reported it.
Underway == callback \notin {"idle", "leave", "return"}
Progress ==
  /\ Underway => K!FileReported(op) \/ K!KeyReported(op)
  /\ Underway => reported = {} /\ ~failed
  /\ callback \in {"leave", "return"} => /\ K!FileReported(op) \/ K!KeyReported(op)
                                         /\ reported # {} <=> ~failed
  /\ callback = "idle" =>
       (reported # {} <=> (K!FileReported(op) \/ K!KeyReported(op)) /\ ~failed)
  /\ callback \in {"parse", "copy", "leave"} => ~K!OnKey

CallbackInv == K!TypeOK /\ HeldRight /\ Progress

\* Created, which says what ought to be reported, is what the callbacks test.
LEMMA CreatedReported ==
  ASSUME NEW o \in K!Operation
  PROVE  K!Created(o) <=> K!FileReported(o) \/ K!KeyReported(o)
BY DEF K!Operation, K!Kind, K!Keys, K!Created, K!FileReported, K!KeyReported

\* A file operation that changes nothing is not reported.
LEMMA InitCallback == K!Init => CallbackInv
BY DEF K!Init, CallbackInv, K!TypeOK, HeldRight, Progress, Underway, K!Resource,
       K!FileReported, K!KeyReported, K!Operation

\* The operation decides whether anything happens at all.
LEMMA CallKeeps ==
  ASSUME CallbackInv, NEW o \in K!Operation, K!Call(o)
  PROVE  CallbackInv'
BY DEF CallbackInv, K!TypeOK, HeldRight, Progress, Underway, K!Call, K!Goto,
       K!locals, K!OnKey

\* The queries for the object's name.
LEMMA NameKeeps ==
  ASSUME CallbackInv,
         K!QueryFileName \/ K!ParseFileName \/ K!CopyFileName \/ K!QueryKeyName
               \/ K!ReleaseKeyName
  PROVE  CallbackInv'
<1> USE DEF CallbackInv, Underway, K!OnKey, K!Resource, K!Goto, K!GiveUp, K!Take,
            K!Release, K!locals
<1>0. op.object \in Objects  BY DEF K!TypeOK, K!Operation
<1>1. CASE K!QueryFileName
  <2> USE <1>1 DEF K!QueryFileName
  <2>1. K!TypeOK'  BY DEF K!TypeOK
  <2>2. HeldRight'  BY DEF HeldRight
  <2>3. Progress'  BY DEF Progress
  <2> QED  BY <2>1, <2>2, <2>3
<1>2. CASE K!ParseFileName
  <2> USE <1>2 DEF K!ParseFileName
  <2>1. K!TypeOK'  BY DEF K!TypeOK
  <2>2. HeldRight'  BY DEF HeldRight
  <2>3. Progress'  BY DEF Progress
  <2> QED  BY <2>1, <2>2, <2>3
<1>3. CASE K!CopyFileName
  <2> USE <1>3 DEF K!CopyFileName
  <2>1. K!TypeOK'  BY <1>0 DEF K!TypeOK, K!CopyUnicodeString
  <2>2. HeldRight'  BY DEF HeldRight
  <2>3. Progress'  BY DEF Progress
  <2> QED  BY <2>1, <2>2, <2>3
<1>4. CASE K!QueryKeyName
  <2> USE <1>4 DEF K!QueryKeyName
  <2>1. K!TypeOK'  BY <1>0 DEF K!TypeOK, K!CopyUnicodeString
  <2>2. HeldRight'  BY DEF HeldRight
  <2>3. Progress'  BY DEF Progress
  <2> QED  BY <2>1, <2>2, <2>3
<1>5. CASE K!ReleaseKeyName
  <2> USE <1>5 DEF K!ReleaseKeyName
  <2>1. K!TypeOK'  BY DEF K!TypeOK
  <2>2. HeldRight'  BY DEF HeldRight
  <2>3. Progress'  BY DEF Progress
  <2> QED  BY <2>1, <2>2, <2>3
<1> QED  BY <1>1, <1>2, <1>3, <1>4, <1>5

\* GetCurrentProcessImageName gives back the process on each of its ways.
LEMMA ImageKeeps ==
  ASSUME CallbackInv, K!LookupProcess \/ K!LocateImage \/ K!CopyImage \/ K!Dereference
  PROVE  CallbackInv'
<1> USE DEF CallbackInv, Underway, K!OnKey, K!Resource, K!Goto, K!GiveUp, K!Take,
            K!Release, K!locals
<1>0. op.process \in Processes  BY DEF K!TypeOK, K!Operation
<1>1. CASE K!LookupProcess
  <2> USE <1>1 DEF K!LookupProcess
  <2>1. K!TypeOK'  BY DEF K!TypeOK
  <2>2. HeldRight'  BY DEF HeldRight
  <2>3. Progress'  BY DEF Progress
  <2> QED  BY <2>1, <2>2, <2>3
<1>2. CASE K!LocateImage
  <2> USE <1>2 DEF K!LocateImage
  <2>1. K!TypeOK'  BY DEF K!TypeOK
  <2>2. HeldRight'
    <3>1. CASE op.process \in Nameless
      <4>1. callback' = "dereference" /\ held' = held /\ op' = op  BY <3>1
      <4> QED  BY <4>1 DEF HeldRight
    <3>2. CASE op.process \notin Nameless
      <4>1. callback' = "image" /\ held' = held \cup {"image_name"} /\ op' = op
             BY <3>2
      <4> QED  BY <4>1 DEF HeldRight
    <3> QED  BY <3>1, <3>2
  <2>3. Progress'  BY DEF Progress
  <2> QED  BY <2>1, <2>2, <2>3
<1>3. CASE K!CopyImage
  <2> USE <1>3 DEF K!CopyImage
  <2>1. K!TypeOK'  BY <1>0 DEF K!TypeOK, K!CopyUnicodeString
  <2>2. HeldRight'  BY DEF HeldRight
  <2>3. Progress'  BY DEF Progress
  <2> QED  BY <2>1, <2>2, <2>3
<1>4. CASE K!Dereference
  <2> USE <1>4 DEF K!Dereference
  <2>1. K!TypeOK'  BY DEF K!TypeOK
  <2>2. HeldRight'  BY DEF HeldRight
  <2>3. Progress'  BY DEF Progress
  <2> QED  BY <2>1, <2>2, <2>3
<1> QED  BY <1>1, <1>2, <1>3, <1>4

\* The message is built, handed over and forgotten.
LEMMA ReportKeeps ==
  ASSUME CallbackInv, K!BuildInstallInfo \/ K!Send \/ K!ReleaseFileName \/ K!Return
  PROVE  CallbackInv'
<1> USE DEF CallbackInv, Underway, K!OnKey, K!Resource, K!Goto, K!Take, K!Release,
            K!Leave, K!locals
<1>0. K!TypeOK => K!Report \in [type : {0, 1}, image : Processes \cup {Empty},
                           path : Objects \cup {Empty}]
  BY DEF K!TypeOK, K!Report
<1>1. CASE K!BuildInstallInfo
  <2> USE <1>1 DEF K!BuildInstallInfo
  <2>1. K!TypeOK'  BY DEF K!TypeOK
  <2>2. HeldRight'  BY DEF HeldRight
  <2>3. Progress'  BY DEF Progress
  <2> QED  BY <2>1, <2>2, <2>3
<1>2. CASE K!Send
  <2> USE <1>2 DEF K!Send
  <2>1. K!TypeOK'  BY <1>0 DEF K!TypeOK
  <2>2. HeldRight'  BY DEF HeldRight
  <2>3. Progress'  BY DEF Progress
  <2> QED  BY <2>1, <2>2, <2>3
<1>3. CASE K!ReleaseFileName
  <2> USE <1>3 DEF K!ReleaseFileName
  <2>1. K!TypeOK'  BY DEF K!TypeOK
  <2>2. HeldRight'  BY DEF HeldRight
  <2>3. Progress'  BY DEF Progress
  <2> QED  BY <2>1, <2>2, <2>3
<1>4. CASE K!Return
  <2> USE <1>4 DEF K!Return
  <2>1. K!TypeOK'  BY DEF K!TypeOK
  <2>2. HeldRight'  BY DEF HeldRight
  <2>3. Progress'  BY DEF Progress
  <2> QED  BY <2>1, <2>2, <2>3
<1> QED  BY <1>1, <1>2, <1>3, <1>4

\* A callback holds what its step says, and knows what it has to report.
THEOREM CallbackInductive == K!Spec => []CallbackInv
<1>1. CallbackInv /\ [K!Next]_K!vars => CallbackInv'
  <2> SUFFICES ASSUME CallbackInv, [K!Next]_K!vars PROVE CallbackInv'
    OBVIOUS
  <2>1. CASE UNCHANGED K!vars
    BY <2>1 DEF K!vars, K!locals, CallbackInv, K!TypeOK, HeldRight, Progress,
                Underway, K!OnKey
  <2>2. CASE K!Next
    BY <2>2, CallKeeps, NameKeeps, ImageKeeps, ReportKeeps DEF K!Next, K!Callback
  <2> QED  BY <2>1, <2>2
<1> QED  BY InitCallback, <1>1, PTL DEF K!Spec

\* Names are names of the operation's object and process, or empty.
THEOREM CallbackTyped == K!Spec => []K!TypeOK
<1>1. CallbackInv => K!TypeOK  BY DEF CallbackInv
<1> QED  BY CallbackInductive, <1>1, PTL

\* No path through a callback keeps anything of the system.
THEOREM GivesBackAll == PartsSpec => []NothingHeld
<1>1. CallbackInv => NothingHeld
  BY DEF CallbackInv, HeldRight, NothingHeld, K!NothingHeld, K!Resource
<1> QED  BY EachPart, CallbackInductive, <1>1, PTL

\* Reported is what has come into being, unless a call to the system failed.
THEOREM ReportsExactly == PartsSpec => []ReportedExactly
<1>1. CallbackInv => ReportedExactly
  BY CreatedReported DEF CallbackInv, K!TypeOK, Progress, ReportedExactly,
                         K!ReportedExactly
<1> QED  BY EachPart, CallbackInductive, <1>1, PTL

-----------------------------------------------------------------------------
(* Messages *)

\* The slot begins with the whole message of the last event.
Holds(e) ==
  /\ E!Fits(e) /\ type = e.type
  /\ image_len = Len(e.image) /\ path_len = Len(e.path)
  /\ \A k \in 1..Len(e.image) + Len(e.path) : buffer[k] = E!Words(e, k)

SlotInv ==
  /\ E!TypeOK
  /\ E!InsideBuffer
  /\ sent # None => Holds(sent)

\* A name is a sequence of words that a UNICODE_STRING can count.
LEMMA NameIsSeq ==
  ASSUME NEW s \in E!Names
  PROVE  /\ s \in Seq(Char) /\ Len(s) \in 0..MaxName
         /\ DOMAIN s = 1..Len(s)
         /\ \A k \in 1..Len(s) : s[k] \in Char
<1>1. PICK n \in 0..MaxName : s \in [1..n -> Char]
  BY DEF E!Names
<1>2. n \in Nat
  BY CodecAssumption
<1>3. s \in Seq(Char)
  BY <1>1, <1>2, SeqDef
<1>4. DOMAIN s = 1..Len(s) /\ Len(s) \in Nat
  BY <1>3, LenProperties
<1>5. DOMAIN s = 1..n
  BY <1>1
<1>6. Len(s) = n
  <2>1. \A a, b \in Nat : 1..a = 1..b => a = b
    <3> SUFFICES ASSUME NEW a \in Nat, NEW b \in Nat, 1..a = 1..b PROVE a = b
      OBVIOUS
    <3>1. a > 0 => a \in 1..b  OBVIOUS
    <3>2. b > 0 => b \in 1..a  OBVIOUS
    <3> QED  BY <3>1, <3>2
  <2> QED  BY <1>2, <1>4, <1>5, <2>1
<1> QED  BY <1>1, <1>3, <1>4, <1>6

\* What fits a slot fits the words of its buffer.
LEMMA FitsWords ==
  ASSUME NEW e \in E!Event, E!Fits(e)
  PROVE  Len(e.image) + Len(e.path) <= E!MaxWords
<1>1. e.image \in E!Names /\ e.path \in E!Names
  BY DEF E!Event
<1>2. Len(e.image) \in Nat /\ Len(e.path) \in Nat
  BY <1>1, NameIsSeq, CodecAssumption
<1>3. ASSUME NEW n \in Nat, 6 + 2 * n <= kMaxMsgSize
      PROVE  n <= (kMaxMsgSize - 5) \div 2
  BY <1>3, CodecAssumption
<1>i. PICK i : i = Len(e.image)
  OBVIOUS
<1>p. PICK p : p = Len(e.path)
  OBVIOUS
<1>3i. i \in Nat /\ p \in Nat
  BY <1>2, <1>i, <1>p
<1>4. PICK n \in Nat : n = i + p
  BY <1>3i
<1>5. 6 + 2 * n <= kMaxMsgSize
  BY <1>4, <1>i, <1>p DEF E!Fits, E!Size, E!HeadSize
<1> QED  BY <1>3, <1>4, <1>5, <1>i, <1>p DEF E!MaxWords

\* No length that a UNICODE_STRING has is changed by the cut to 16 bits.
LEMMA CutExact ==
  ASSUME NEW n \in 0..MaxName
  PROVE  E!Cut(n) = n
<1>1. \A m, q \in Nat : m < q => m % q = m
  BY Z3
<1> QED  BY <1>1, CodecAssumption DEF E!Cut

\* wcsncpy keeps what a C string is read for.
LEMMA TextOfWcsncpy ==
  ASSUME NEW s \in E!Names
  PROVE  E!Text(E!Wcsncpy(s)) = E!Text(s)
<1> DEFINE c == E!Wcsncpy(s)
<1>1. DOMAIN c = DOMAIN s /\ DOMAIN s = 1..Len(s) /\ Len(s) \in Nat
  BY NameIsSeq, CodecAssumption DEF E!Wcsncpy
<1>2. \A k \in DOMAIN s : c[k] = IF E!Ended(s, k) THEN NUL ELSE s[k]
  BY DEF E!Wcsncpy
<1>3. \A k \in DOMAIN s : E!Ended(c, k) <=> E!Ended(s, k)
  <2> TAKE k \in DOMAIN s
  <2>1. ASSUME NEW j \in 1..k, s[j] = NUL PROVE E!Ended(c, k)
    BY <1>1, <1>2, <2>1 DEF E!Ended
  <2>2. ASSUME NEW j \in 1..k, c[j] = NUL PROVE E!Ended(s, k)
    BY <1>1, <1>2, <2>2 DEF E!Ended
  <2> QED  BY <2>1, <2>2 DEF E!Ended
<1>4. {j \in DOMAIN c : ~E!Ended(c, j)} = {j \in DOMAIN s : ~E!Ended(s, j)}
  BY <1>1, <1>3
<1>5. \A k \in {j \in DOMAIN s : ~E!Ended(s, j)} : c[k] = s[k]
  BY <1>2
<1> QED  BY <1>4, <1>5 DEF E!Text

\* An empty slot says nothing about the words in it.
LEMMA InitSlot == E!Init => SlotInv
<1> SUFFICES ASSUME E!Init PROVE SlotInv
  OBVIOUS
<1>1. E!TypeOK
  BY CodecAssumption DEF E!Init, E!TypeOK
<1>2. E!InsideBuffer
  BY CodecAssumption DEF E!Init, E!InsideBuffer, E!MaxWords
<1> QED  BY <1>1, <1>2 DEF E!Init, SlotInv

\* Each event overwrites the head and as many words as it has.
LEMMA DeliverKeeps ==
  ASSUME SlotInv, NEW e \in E!Event, E!Deliver(e)
  PROVE  SlotInv'
<1>1. e.image \in E!Names /\ e.path \in E!Names /\ e.type \in {0, 1}
  BY DEF E!Event
<1>0. Len(e.image) \in 0..MaxName /\ Len(e.path) \in 0..MaxName
  BY <1>1, NameIsSeq
<1>i. PICK i : i = Len(e.image)
  OBVIOUS
<1>p. PICK p : p = Len(e.path)
  OBVIOUS
<1>2. i \in 0..MaxName /\ p \in 0..MaxName /\ i \in Nat /\ p \in Nat
  BY <1>0, <1>i, <1>p, CodecAssumption
<1>3. image_len' = i /\ path_len' = p
  BY <1>2, <1>i, <1>p, CutExact DEF E!Deliver
<1>4. i + p <= E!MaxWords
  BY <1>i, <1>p, FitsWords DEF E!Deliver
<1>5. \A k \in 1..i + p : E!Words(e, k) \in Char
  <2> TAKE k \in 1..i + p
  <2>1. CASE k <= i
    <3>1. E!Words(e, k) \in {NUL, e.image[k]}
      BY <1>1, <1>2, <1>i, <2>1, NameIsSeq DEF E!Words, E!Wcsncpy
    <3> QED  BY <1>1, <1>2, <1>i, <2>1, <3>1, NameIsSeq, CodecAssumption
  <2>2. CASE ~(k <= i)
    <3>1. k - i \in 1..p
      BY <1>2, <2>2
    <3>2. E!Words(e, k) \in {NUL, e.path[k - i]}
      BY <1>1, <1>2, <1>i, <1>p, <2>2, <3>1, NameIsSeq DEF E!Words, E!Wcsncpy
    <3> QED  BY <1>1, <1>p, <3>1, <3>2, NameIsSeq, CodecAssumption
  <2> QED  BY <2>1, <2>2
<1>6. E!MaxWords \in Int
  BY CodecAssumption DEF E!MaxWords
<1>7. buffer' = [k \in 1..E!MaxWords |-> IF k <= i + p THEN E!Words(e, k) ELSE
      buffer[k]]
  BY <1>i, <1>p DEF E!Deliver
<1>8. buffer' \in [1..E!MaxWords -> Char]
  BY <1>2, <1>5, <1>6, <1>7 DEF SlotInv, E!TypeOK
<1>9. sent' = e /\ type' = e.type /\ E!Fits(e)
  BY DEF E!Deliver
<1>10. E!TypeOK'
  BY <1>1, <1>2, <1>3, <1>8, <1>9 DEF E!TypeOK
<1>11. \A k \in 1..i + p : buffer'[k] = E!Words(e, k)
  BY <1>2, <1>4, <1>6, <1>7
<1>12. Holds(sent)'
  BY <1>3, <1>9, <1>11, <1>i, <1>p DEF Holds
<1>13. E!InsideBuffer'
  BY <1>3, <1>4 DEF E!InsideBuffer, E!MaxWords
<1> QED  BY <1>10, <1>12, <1>13 DEF SlotInv

\* The slot always holds the last event.
THEOREM SlotInductive == E!Spec => []SlotInv
<1>1. SlotInv /\ [E!Next]_E!vars => SlotInv'
  <2> SUFFICES ASSUME SlotInv, [E!Next]_E!vars PROVE SlotInv'
    OBVIOUS
  <2>1. CASE UNCHANGED E!vars
    BY <2>1 DEF E!vars, E!head, SlotInv, E!TypeOK, Holds, E!InsideBuffer
  <2>2. CASE E!Next
    BY <2>2, DeliverKeeps DEF E!Next
  <2> QED  BY <2>1, <2>2
<1> QED  BY InitSlot, <1>1, PTL DEF E!Spec

\* Lengths and words keep their ranges.
THEOREM SlotTyped == E!Spec => []E!TypeOK
<1>1. SlotInv => E!TypeOK  BY DEF SlotInv
<1> QED  BY SlotInductive, <1>1, PTL

\* What the head of a slot says never leads out of the slot.
THEOREM StaysInside == E!Spec => []E!InsideBuffer
<1>1. SlotInv => E!InsideBuffer  BY DEF SlotInv
<1> QED  BY SlotInductive, <1>1, PTL

\* The service reads what the driver wrote: both names, each as a C string of
\* its own, although nothing but the two lengths separates them.
THEOREM ReadsWhatWasSent == PartsSpec => []EventSurvives
<1>1. SlotInv => EventSurvives
  <2> SUFFICES ASSUME SlotInv, sent # None
               PROVE  /\ type = sent.type
                      /\ E!ReadImage = E!Wcsncpy(sent.image)
                      /\ E!ReadPath = E!Wcsncpy(sent.path)
                      /\ sent.image \in E!Names /\ sent.path \in E!Names
    BY TextOfWcsncpy DEF EventSurvives, E!EventSurvives
  <2>1. sent.image \in E!Names /\ sent.path \in E!Names
    BY DEF SlotInv, E!TypeOK, E!Event
  <2>2. DOMAIN sent.image = 1..image_len /\ DOMAIN sent.path = 1..path_len
    BY <2>1, NameIsSeq DEF SlotInv, Holds
  <2>3. image_len \in Nat /\ path_len \in Nat
    BY CodecAssumption DEF SlotInv, E!TypeOK
  <2>4. \A k \in 1..image_len + path_len :
          buffer[k] = IF k <= image_len THEN E!Wcsncpy(sent.image)[k]
                      ELSE E!Wcsncpy(sent.path)[k - image_len]
    BY DEF SlotInv, Holds, E!Words
  <2>5. E!ReadImage = E!Wcsncpy(sent.image)
    <3>1. \A k \in 1..image_len : buffer[k] = E!Wcsncpy(sent.image)[k]
      BY <2>3, <2>4
    <3> QED  BY <2>2, <3>1 DEF E!ReadImage, E!Wcsncpy
  <2>6. E!ReadPath = E!Wcsncpy(sent.path)
    <3>1. \A k \in 1..path_len : buffer[image_len + k] = E!Wcsncpy(sent.path)[k]
      <4> TAKE k \in 1..path_len
      <4>1. /\ image_len + k \in 1..image_len + path_len
            /\ ~(image_len + k <= image_len) /\ (image_len + k) - image_len = k
        BY <2>3
      <4> QED  BY <2>4, <4>1
    <3> QED  BY <2>2, <3>1 DEF E!ReadPath, E!Wcsncpy
  <2> QED  BY <2>1, <2>5, <2>6 DEF SlotInv, Holds
<1> QED  BY EachPart, SlotInductive, <1>1, PTL
=============================================================================
