------------------------------- MODULE Driver -------------------------------
(***************************************************************************)
(* The life of the driver: DriverEntry and its unload routine (src/src/    *)
(* drv/drv.cc) over the initialize and finalize of its parts (dev.cc,      *)
(* ioctl.cc, file_monitor.cc, reg_monitor.cc), while file and registry     *)
(* callbacks run and the service has the device open.  Any acquisition may *)
(* fail, and finalize then runs over what was and was not acquired.        *)
(* install::initialize and install::finalize do nothing.                   *)
(***************************************************************************)
EXTENDS Naturals

CONSTANTS
  FileThreads,  \* threads whose file operations the filter sees
  RegThreads,   \* threads whose registry operations the callback sees
  Clients       \* processes that may open the device

ASSUME DriverAssumption == FileThreads \cap RegThreads = {}

VARIABLES
  pc,      \* the step of DriverEntry or finalize
  device,  \* device_ # nullptr
  link,    \* the symbolic link exists
  ctx,     \* ioctl_ctx_ # nullptr
  filter,  \* filter_: "none", "registered", "started" or "draining"
  reg,     \* the registry callback: "off", "on" or "draining"
  calls,   \* each callback thread's step
  opened   \* the clients that have the device open

resources == <<device, link, ctx, filter, reg>>
vars      == <<pc, resources, calls, opened>>

Threads   == FileThreads \cup RegThreads
EntryStep == {"device", "link", "ctx", "filter", "start", "reg"}
ExitStep  == {"unreg", "waitreg", "unfilter", "waitfilter", "unctx", "unlink", "undevice"}
CallStep  == {"idle", "event", "send"}

Init ==
  /\ pc = "absent" /\ device = FALSE /\ link = FALSE /\ ctx = FALSE
  /\ filter = "none" /\ reg = "off"
  /\ calls = [t \in Threads |-> "idle"] /\ opened = {}

Outside(ts) == \A t \in ts : calls[t] = "idle"

-----------------------------------------------------------------------------
(* DriverEntry *)

Load == /\ pc = "absent" /\ pc' = "device"
        /\ UNCHANGED <<resources, calls, opened>>

\* The acquisition of a step succeeds, or DriverEntry runs finalize.
EntryFails == /\ pc \in EntryStep /\ pc' = "unreg"
              /\ UNCHANGED <<resources, calls, opened>>

CreateDevice == /\ pc = "device" /\ pc' = "link" /\ device' = TRUE
                /\ UNCHANGED <<link, ctx, filter, reg, calls, opened>>
CreateLink == /\ pc = "link" /\ pc' = "ctx" /\ link' = TRUE
              /\ UNCHANGED <<device, ctx, filter, reg, calls, opened>>
CreateContext == /\ pc = "ctx" /\ pc' = "filter" /\ ctx' = TRUE
                 /\ UNCHANGED <<device, link, filter, reg, calls, opened>>
RegisterFilter == /\ pc = "filter" /\ pc' = "start" /\ filter' = "registered"
                  /\ UNCHANGED <<device, link, ctx, reg, calls, opened>>
StartFiltering == /\ pc = "start" /\ pc' = "reg" /\ filter' = "started"
                  /\ UNCHANGED <<device, link, ctx, reg, calls, opened>>
RegisterCallback == /\ pc = "reg" /\ pc' = "loaded" /\ reg' = "on"
                    /\ UNCHANGED <<device, link, ctx, filter, calls, opened>>

-----------------------------------------------------------------------------
(* finalize *)

\* The I/O manager calls DriverUnload when nobody has the device open.
Unload == /\ pc = "loaded" /\ opened = {} /\ filter # "draining"
          /\ pc' = "unreg"
          /\ UNCHANGED <<resources, calls, opened>>

\* CmUnRegisterCallback starts no more callbacks and waits for those that run;
\* for a callback that was never registered it fails.
FreeContextFirst ==
  /\ pc = "unreg" /\ pc' = "waitreg" /\ ctx' = FALSE
  /\ reg' = IF reg = "on" THEN "draining" ELSE reg
  /\ UNCHANGED <<device, link, filter, calls, opened>>
Unregister == /\ pc = "unreg" /\ pc' = "waitreg"
              /\ reg' = IF reg = "on" THEN "draining" ELSE reg
              /\ UNCHANGED <<device, link, ctx, filter, calls, opened>>
Unregistered == /\ pc = "waitreg" /\ Outside(RegThreads) /\ pc' = "unfilter"
                /\ reg' = "off"
                /\ UNCHANGED <<device, link, ctx, filter, calls, opened>>

\* FilterUnload: FltUnregisterFilter does the same, if filter_ is set.
UnregisterStartedOnly ==
  /\ pc = "unfilter"
  /\ IF filter = "started" THEN pc' = "waitfilter" /\ filter' = "draining"
     ELSE pc' = "unctx" /\ UNCHANGED filter
  /\ UNCHANGED <<device, link, ctx, reg, calls, opened>>
UnregisterFilter ==
  /\ pc = "unfilter"
  /\ IF filter # "none" THEN pc' = "waitfilter" /\ filter' = "draining"
     ELSE pc' = "unctx" /\ UNCHANGED filter
  /\ UNCHANGED <<device, link, ctx, reg, calls, opened>>
FilterUnregistered ==
  /\ pc = "waitfilter" /\ Outside(FileThreads) /\ pc' = "unctx"
  /\ filter' = "none"
  /\ UNCHANGED <<device, link, ctx, reg, calls, opened>>

DeleteContext == /\ pc = "unctx" /\ pc' = "unlink" /\ ctx' = FALSE
                 /\ UNCHANGED <<device, link, filter, reg, calls, opened>>
\* IoDeleteSymbolicLink just fails if there is no link.
DeleteLink == /\ pc = "unlink" /\ pc' = "undevice" /\ link' = FALSE
              /\ UNCHANGED <<device, ctx, filter, reg, calls, opened>>
DeleteDevice == /\ pc = "undevice" /\ pc' = "absent" /\ device' = FALSE
                /\ UNCHANGED <<link, ctx, filter, reg, calls, opened>>

\* The filter manager unloads the filter of a loaded driver: FilterUnload
\* runs on its own, and filter_ is nullptr from then on.
ManagerUnload == /\ pc = "loaded" /\ filter = "started"
                 /\ filter' = "draining"
                 /\ UNCHANGED <<pc, device, link, ctx, reg, calls, opened>>
ManagerUnloaded == /\ pc = "loaded" /\ filter = "draining" /\ Outside(FileThreads)
                   /\ filter' = "none"
                   /\ UNCHANGED <<pc, device, link, ctx, reg, calls, opened>>

-----------------------------------------------------------------------------
(* Callbacks and clients *)

\* PostCreate, PostSetInfo or NotifyRoutine is called; what it does not report
\* ends there.
FileEvent(t) == /\ filter = "started" /\ calls[t] = "idle"
                /\ calls' = [calls EXCEPT ![t] = "event"]
                /\ UNCHANGED <<pc, resources, opened>>
RegEvent(t) == /\ reg = "on" /\ calls[t] = "idle"
               /\ calls' = [calls EXCEPT ![t] = "event"]
               /\ UNCHANGED <<pc, resources, opened>>

\* FileInstall or RegistryInstall calls SendMessage, which finds ioctl_ctx_
\* set and uses it, or gives up.
CallSend(t) == /\ calls[t] = "event" /\ ctx
               /\ calls' = [calls EXCEPT ![t] = "send"]
               /\ UNCHANGED <<pc, resources, opened>>
Return(t) == /\ calls[t] # "idle"
             /\ calls' = [calls EXCEPT ![t] = "idle"]
             /\ UNCHANGED <<pc, resources, opened>>

\* The device can be opened by its link once DriverEntry has returned.
Open(c) == /\ pc = "loaded" /\ link /\ opened' = opened \cup {c}
           /\ UNCHANGED <<pc, resources, calls>>
Close(c) == /\ c \in opened /\ opened' = opened \ {c}
            /\ UNCHANGED <<pc, resources, calls>>

-----------------------------------------------------------------------------
Finalize == \/ Unregister \/ Unregistered \/ UnregisterFilter \/ FilterUnregistered
            \/ DeleteContext \/ DeleteLink \/ DeleteDevice
Next == \/ Load \/ EntryFails \/ CreateDevice \/ CreateLink \/ CreateContext
        \/ RegisterFilter \/ StartFiltering \/ RegisterCallback
        \/ Unload \/ Finalize \/ ManagerUnload \/ ManagerUnloaded
        \/ \E t \in FileThreads : FileEvent(t)
        \/ \E t \in RegThreads : RegEvent(t)
        \/ \E t \in Threads : CallSend(t) \/ Return(t)
        \/ \E c \in Clients : Open(c) \/ Close(c)

Spec == Init /\ [][Next]_vars

-----------------------------------------------------------------------------
(* Properties *)

\* Types, and a part is draining only while somebody waits for it.
TypeOK ==
  /\ pc \in {"absent", "loaded"} \cup EntryStep \cup ExitStep
  /\ device \in BOOLEAN /\ link \in BOOLEAN /\ ctx \in BOOLEAN
  /\ filter \in {"none", "registered", "started", "draining"}
  /\ reg \in {"off", "on", "draining"}
  /\ calls \in [Threads -> CallStep] /\ opened \subseteq Clients
  /\ filter = "draining" => pc \in {"loaded", "waitfilter"}
  /\ reg = "draining" => pc = "waitreg"

\* ioctl_ctx_ exists as long as any callback or any client may use it: nothing
\* is reported to freed memory, and no event is dropped because the driver
\* comes or goes (the order of DriverEntry and finalize).
ContextWhileUsed ==
  (opened # {} \/ \E t \in Threads : calls[t] # "idle") => ctx

\* However far DriverEntry came before it failed, and whether or not the filter
\* manager was first, an absent driver leaves nothing behind in the system.
NothingLeft ==
  pc = "absent" => ~device /\ ~link /\ ~ctx /\ filter = "none" /\ reg = "off"

=============================================================================
