------------------------------ MODULE Service ------------------------------
(***************************************************************************)
(* The service's process: ServiceMain and ServiceCtrlHandler (src/src/srv/ *)
(* main.cc) around Communication, with the service control manager (SCM),  *)
(* the process's end and the loading of the driver as their environment.   *)
(* Controls arrive on the dispatcher thread while ServiceMain runs.        *)
(***************************************************************************)
EXTENDS Integers, Sequences, FiniteSets

CONSTANTS Slots, Threads, Events, None

\* Communication's pool has a thread for every slot.
ASSUME ServiceAssumption ==
  /\ IsFiniteSet(Slots) /\ IsFiniteSet(Threads)
  /\ Cardinality(Slots) <= Cardinality(Threads)
  /\ None \notin Events \cup Slots

VARIABLES
  spc,       \* ServiceMain's step; "none" when there is no process
  hpc,       \* ServiceCtrlHandler's step
  sending,   \* the state that its SetServiceStatus has read and sends
  event,     \* service_stop_event: "null", "reset", "set" or "closed"
  state,     \* service_status.dwCurrentState
  reported,  \* the state that the SCM was told last
  driver,    \* the driver: "absent", "loaded", or "stopping" when it is to be
             \* unloaded as soon as nobody uses its device
  mpc, file_, port, is_stopped_, where, buffer, packets, tpc, slot, sent, handled

C == INSTANCE Communication

communication == <<mpc, file_, port, is_stopped_, where, buffer, packets, tpc,
                   slot, sent, handled>>
status        == <<state, reported>>
handler       == <<hpc, sending>>
serviceVars   == <<spc, handler, event, status, driver>>
vars          == <<serviceVars, communication>>

Init == /\ spc = "none" /\ hpc = "idle" /\ sending = "stopped" /\ event = "null"
        /\ state = "stopped" /\ reported = "stopped" /\ driver = "absent"
        /\ C!Init

Goto(step) == spc' = step

-----------------------------------------------------------------------------
(* ServiceMain *)

\* Without a control handler ServiceMain returns at once.  The result of the first
\* SetServiceStatus is not tested.  As long as the SCM sends no controls nobody else
\* reads dwCurrentState, so its write and the call are one step.
Begin ==
  /\ spc = "begin"
  /\ \/ Goto("event") /\ state' = "pending" /\ reported' \in {reported, "pending"}
     \/ Goto("exit") /\ UNCHANGED status
  /\ UNCHANGED <<handler, event, driver, communication>>

\* Every step up to Start may fail, which ends ServiceMain.
Break ==
  /\ spc \in {"event", "connect", "load"} /\ Goto("close")
  /\ UNCHANGED <<handler, event, status, driver, communication>>

SkipEvent ==
  /\ spc = "event" /\ Goto("running")
  /\ UNCHANGED <<handler, event, status, driver, communication>>
CreateStopEvent ==
  /\ spc = "event" /\ Goto("running")
  /\ event' = "reset"
  /\ UNCHANGED <<handler, status, driver, communication>>

\* From now on the SCM sends controls; the call itself may fail.
ReportRunning ==
  /\ spc = "running" /\ state' = "running"
  /\ \/ Goto("connect") /\ reported' = "running"
     \/ Goto("close") /\ UNCHANGED reported
  /\ UNCHANGED <<handler, event, driver, communication>>

\* SqlHelper::Connect, see module InstallDb.
Connect ==
  /\ spc = "connect" /\ Goto("load")
  /\ UNCHANGED <<handler, event, status, driver, communication>>

\* DriverEntry runs, see module Driver, or the driver is already loaded; one
\* that is about to be unloaded cannot be started.
LoadUnchecked ==
  /\ spc = "load" /\ Goto("start")
  /\ driver' = IF driver = "stopping" THEN "stopping" ELSE "loaded"
  /\ UNCHANGED <<handler, event, status, communication>>
LoadDriver ==
  /\ spc = "load" /\ driver # "stopping" /\ Goto("start")
  /\ driver' = "loaded"
  /\ UNCHANGED <<handler, event, status, communication>>

StartStep ==
  /\ spc = "start" /\ C!MainRun
  /\ UNCHANGED serviceVars
Started ==
  /\ spc = "start" /\ mpc \in {"run", "failed"}
  /\ Goto(IF mpc = "run" THEN "wait" ELSE "unload")
  /\ UNCHANGED <<handler, event, status, driver, communication>>

\* WaitForSingleObjectEx returns when the event is set, and Stop is called.
Wait ==
  /\ spc = "wait" /\ event = "set" /\ Goto("stop")
  /\ C!Stop
  /\ UNCHANGED <<handler, event, status, driver>>
StopStep ==
  /\ spc = "stop" /\ C!MainRun
  /\ UNCHANGED serviceVars
SkipJoin ==
  /\ spc = "stop" /\ mpc = "join" /\ Goto("unload")
  /\ UNCHANGED <<handler, event, status, driver, communication>>
Stopped ==
  /\ spc = "stop" /\ mpc = "stopped" /\ Goto("unload")
  /\ UNCHANGED <<handler, event, status, driver, communication>>

\* SERVICE_CONTROL_STOP for the driver, whose failure is ignored.
UnloadDriver ==
  /\ spc = "unload" /\ Goto("close")
  /\ driver' \in {driver, "stopping"}
  /\ UNCHANGED <<handler, event, status, communication>>

CloseStopEvent ==
  /\ spc = "close" /\ Goto("final")
  /\ event' = IF event = "null" THEN "null" ELSE "closed"
  /\ UNCHANGED <<handler, status, driver, communication>>
SetStopped ==
  /\ spc = "final" /\ Goto("report")
  /\ state' = "stopped"
  /\ UNCHANGED <<handler, event, reported, driver, communication>>
\* The result of the last SetServiceStatus is not tested either.
ReportStopped ==
  /\ spc = "report" /\ Goto("exit")
  /\ reported' \in {reported, "stopped"}
  /\ UNCHANGED <<handler, event, state, driver, communication>>

ServiceMain == \/ Begin \/ Break \/ CreateStopEvent \/ ReportRunning \/ Connect
               \/ LoadDriver \/ StartStep \/ Started \/ Wait \/ StopStep \/ Stopped
               \/ UnloadDriver \/ CloseStopEvent \/ SetStopped \/ ReportStopped

-----------------------------------------------------------------------------
(* ServiceCtrlHandler *)

\* The SCM sends a stop or a shutdown to a service that runs.
Control == /\ hpc = "idle" /\ spc # "none" /\ reported = "running"
           /\ hpc' = "read"
           /\ UNCHANGED <<spc, sending, event, status, driver, communication>>

\* SetServiceStatus reads service_status, which ServiceMain may write meanwhile, and
\* sends what it has read, perhaps after ServiceMain's own call.  Its result is
\* not tested.
HandlerReads == /\ hpc = "read" /\ hpc' = "send"
                /\ sending' = state
                /\ UNCHANGED <<spc, event, status, driver, communication>>
HandlerReports == /\ hpc = "send" /\ hpc' = "set"
                  /\ reported' \in {reported, sending}
                  /\ UNCHANGED <<spc, sending, event, state, driver, communication>>

\* SetEvent on a handle that is already closed fails.
HandlerPulses == /\ hpc = "set" /\ hpc' = "idle"
                 /\ event' = IF spc = "wait" THEN "set" ELSE event
                 /\ UNCHANGED <<spc, sending, status, driver, communication>>
HandlerSets == /\ hpc = "set" /\ hpc' = "idle"
               /\ event' = IF event \in {"reset", "set"} THEN "set" ELSE event
               /\ UNCHANGED <<spc, sending, status, driver, communication>>

ServiceCtrlHandler == HandlerReads \/ HandlerReports \/ HandlerSets

-----------------------------------------------------------------------------
(* The environment *)

StartProcess == /\ spc = "none" /\ Goto("begin")
                /\ UNCHANGED <<handler, event, status, driver, communication>>

\* The process is gone: its handles are closed, and the requests that are
\* still outstanding are cancelled.
ProcessGone == /\ Goto("none") /\ hpc' = "idle" /\ sending' = "stopped"
               /\ event' = "null"
               /\ state' = "stopped" /\ reported' = "stopped"
               /\ mpc' = "idle" /\ file_' = FALSE /\ port' = FALSE
               /\ is_stopped_' = FALSE /\ packets' = <<>> /\ sent' = {}
               /\ where' = [s \in Slots |-> "idle"]
               /\ buffer' = [s \in Slots |-> None]
               /\ tpc' = [t \in Threads |-> "none"]
               /\ slot' = [t \in Threads |-> None]
               /\ handled' = [e \in Events |-> 0]
               /\ UNCHANGED driver
Exit  == spc = "exit" /\ ProcessGone
Crash == spc # "none" /\ ProcessGone

\* The driver is unloaded when nobody has its device open and no request is
\* outstanding.
DriverUnloads ==
  /\ driver = "stopping" /\ ~file_ /\ \A s \in Slots : where[s] # "device"
  /\ driver' = "absent"
  /\ UNCHANGED <<spc, handler, event, status, communication>>

CommunicationThread(t) == C!Run(t) /\ UNCHANGED serviceVars
Device == C!DeviceNext /\ UNCHANGED serviceVars

Next == \/ ServiceMain \/ Control \/ ServiceCtrlHandler
        \/ StartProcess \/ Exit \/ Crash \/ DriverUnloads \/ Device
        \/ \E t \in Threads : CommunicationThread(t)

Spec == Init /\ [][Next]_vars

\* All threads of the process are scheduled, a process that has nothing left to
\* do ends, and the driver's unloading is not put off for ever.
FairSpec == /\ Spec
            /\ WF_vars(ServiceMain) /\ WF_vars(ServiceCtrlHandler)
            /\ WF_vars(Exit) /\ WF_vars(DriverUnloads)
            /\ \A t \in Threads : WF_vars(CommunicationThread(t))

-----------------------------------------------------------------------------
(* Properties *)

\* A control that arrives at any time after it was announced finds an event to
\* set, or ServiceMain already on its way out: no stop request is lost.
ControlFindsEvent ==
  hpc # "idle" => event \in {"reset", "set"} \/ spc \in {"final", "report", "exit"}

\* While the SCM believes the service stopped and its process is still there,
\* no thread of Communication runs: nothing writes the database any more.
StoppedIsQuiet ==
  reported = "stopped" => \A t \in Threads : tpc[t] \in {"none", "exit"}

\* A stop or a shutdown, whenever it arrives, ends with the service stopped.
StopHonoured == hpc # "idle" ~> reported = "stopped"

\* A driver that was told to stop is unloaded in the end, although Stop leaves
\* requests outstanding and a failed Start leaves the device open.
DriverLeaves == driver = "stopping" ~> driver = "absent"
=============================================================================
