--------------------------- MODULE ServiceProofs ---------------------------
(***************************************************************************)
(* Proofs about Service, for any number of slots, threads and events, with *)
(* the process dying and starting again anywhere.  The inductive invariant *)
(* says how far ServiceMain's step, the handler's step and the event have  *)
(* come with each other (Handles), what the SCM may believe (Reports) and  *)
(* how far Start and Stop are (Phases); what Communication keeps to itself *)
(* is its own invariant (CP, module CommunicationProofs).                  *)
(***************************************************************************)
EXTENDS Service, TLAPS

CP == INSTANCE CommunicationProofs

Steps == {"none", "begin", "event", "running", "connect", "load", "start", "wait",
          "stop", "unload", "close", "final", "report", "exit"}
States == {"stopped", "pending", "running"}

Typed ==
  /\ spc \in Steps /\ hpc \in {"idle", "read", "send", "set"}
  /\ event \in {"null", "reset", "set", "closed"}
  /\ state \in States /\ sending \in States /\ reported \in States
  /\ driver \in {"absent", "loaded", "stopping"}

\* The event is there from its creation to its closing, and the SCM sends
\* nothing before.
Handles ==
  /\ spc \in {"none", "begin", "event"} => event = "null"
  /\ spc \in {"running", "connect", "load", "start", "wait", "stop", "unload"}
       => event \in {"reset", "set"}
  /\ event = "closed" => spc \in {"final", "report", "exit"}
  /\ event = "null" => hpc = "idle" /\ reported # "running"

\* Only a service whose process ends or has not begun is stopped; the handler never
\* sends what it has not read; and what the SCM believes is not the case while
\* Communication may run.
Reports ==
  /\ state = "stopped" => spc \in {"none", "begin", "report", "exit"}
  /\ hpc = "send" /\ sending = "stopped" => spc \in {"report", "exit"}
  /\ reported = "stopped" => spc \in {"none", "begin", "event", "running", "close",
                                      "final", "report", "exit"}

\* Start and Stop run where ServiceMain calls them.
Phases ==
  /\ spc \in {"none", "begin", "event", "running", "connect", "load"} => mpc = "idle"
  /\ spc = "start" => mpc \in {"idle", "port", "issue", "run", "failed"}
  /\ spc = "wait" => mpc = "run"
  /\ spc = "stop" => mpc \in {"close", "join", "stopped"}
  /\ spc \in {"unload", "close", "final", "report", "exit"}
       => mpc \in {"idle", "failed", "stopped"}

\* Stop has joined every thread.
Joined == mpc = "stopped" => \A t \in Threads : tpc[t] = "exit"

\* What Communication keeps to itself.
Kept == CP!IInv /\ CP!ThreadForEverySlot

IInv == Typed /\ Handles /\ Reports /\ Phases /\ Joined /\ Kept

-----------------------------------------------------------------------------
(* Communication inside the service *)

\* CommunicationProofs assumes what is assumed here.
LEMMA Assumed == CP!CommunicationAssumption
  BY ServiceAssumption
  DEF CP!CommunicationAssumption, CP!IsFiniteSet, CP!Cardinality, IsFiniteSet, Cardinality

\* What the service runs is what CommunicationProofs speaks about.
LEMMA SameInit == C!Init <=> CP!Init
  BY DEF C!Init, CP!Init

LEMMA SameRun == ASSUME NEW t PROVE C!Run(t) <=> CP!Run(t)
  BY DEF C!Run, CP!Run, C!TestStopped, CP!TestStopped, C!Abandoned, CP!Abandoned,
         C!Take, CP!Take, C!SkipInsufficient, CP!SkipInsufficient,
         C!ExitOnError, CP!ExitOnError, C!DoSingleResponse, CP!DoSingleResponse,
         C!NextRequest, CP!NextRequest, C!Dequeue, CP!Dequeue,
         C!DoSingleRequest, CP!DoSingleRequest, C!Move, CP!Move, C!Goto, CP!Goto,
         C!main, CP!main, C!slots, CP!slots, C!events, CP!events

LEMMA SameMainRun == C!MainRun <=> CP!MainRun
  BY DEF C!MainRun, CP!MainRun, C!OpenDevice, CP!OpenDevice, C!CreatePort, CP!CreatePort,
         C!ClosePort, CP!ClosePort, C!Join, CP!Join, C!IssueFirst, CP!IssueFirst,
         C!StartThread, CP!StartThread, C!DoSingleRequest, CP!DoSingleRequest,
         C!Move, CP!Move, C!Goto, CP!Goto, C!main, CP!main, C!slots, CP!slots,
         C!events, CP!events, C!thread, CP!thread

LEMMA SameStop == C!Stop <=> CP!Stop
  BY DEF C!Stop, CP!Stop, C!slots, CP!slots, C!events, CP!events, C!thread, CP!thread

LEMMA SameDevice == C!DeviceNext <=> CP!DeviceNext
  BY DEF C!DeviceNext, CP!DeviceNext, C!Answer, CP!Answer, C!Refuse, CP!Refuse,
         C!Complete, CP!Complete, C!Move, CP!Move, C!Result, CP!Result,
         C!main, CP!main, C!events, CP!events, C!thread, CP!thread

\* Its invariant survives whatever the service does with it.
LEMMA CommunicationKeeps ==
  ASSUME Kept,
         \/ C!MainRun \/ C!Stop \/ C!DeviceNext \/ UNCHANGED communication
         \/ \E t \in Threads : C!Run(t)
  PROVE  Kept'
<1>1. CP!Next \/ UNCHANGED CP!vars
  BY SameRun, SameMainRun, SameStop, SameDevice
  DEF CP!Next, CP!vars, CP!main, CP!slots, CP!thread, CP!events, communication
<1> QED  BY <1>1, CP!StepKeeps, CP!ServedKeeps, Assumed DEF Kept

\* A new process starts with a new Communication.
LEMMA CommunicationBegins == CP!Init => Kept
  BY CP!InitIInv, CP!InitServed, Assumed DEF Kept

LEMMA ProcessGoneKeeps == ProcessGone => Kept'
<1>1. (CP!Init => Kept)'
  BY CommunicationBegins, PTL
<1>2. ProcessGone => CP!Init'
  BY DEF ProcessGone, CP!Init
<1> QED  BY <1>1, <1>2

-----------------------------------------------------------------------------
(* The steps *)

LEMMA InitIInv == Init => IInv
<1> SUFFICES ASSUME Init PROVE IInv
  OBVIOUS
<1>1. Kept
  BY SameInit, CommunicationBegins DEF Init
<1>2. mpc = "idle"
  BY DEF Init, C!Init
<1> QED  BY <1>1, <1>2
    DEF Init, IInv, Typed, Steps, States, Handles, Reports, Phases, Joined

\* A step that Communication does not take part in.
LEMMA OwnStepKeeps ==
  ASSUME IInv,
         \/ Begin \/ Break \/ CreateStopEvent \/ ReportRunning \/ Connect \/ LoadDriver
         \/ Started \/ Stopped \/ UnloadDriver \/ CloseStopEvent \/ SetStopped \/ ReportStopped
         \/ Control \/ ServiceCtrlHandler \/ StartProcess \/ DriverUnloads
         \/ UNCHANGED vars
  PROVE  IInv'
<1> USE DEF IInv, Typed, Steps, States, Goto, status, handler, serviceVars, vars
<1>1. UNCHANGED communication
  BY DEF Begin, Break, CreateStopEvent, ReportRunning, Connect, LoadDriver, Started,
         Stopped, UnloadDriver, CloseStopEvent, SetStopped, ReportStopped, Control,
         ServiceCtrlHandler, HandlerReads, HandlerReports, HandlerSets, StartProcess,
         DriverUnloads
<1>2. Kept'
  BY <1>1, CommunicationKeeps
<1>3. Joined'
  BY <1>1 DEF Joined, communication
<1>4. UNCHANGED mpc
  BY <1>1 DEF communication
<1>5. CASE Begin \/ Break \/ CreateStopEvent \/ ReportRunning \/ Connect \/ LoadDriver
  BY <1>2, <1>3, <1>4, <1>5
  DEF Begin, Break, CreateStopEvent, ReportRunning, Connect, LoadDriver,
      Handles, Reports, Phases
<1>6. CASE Started \/ Stopped \/ UnloadDriver \/ CloseStopEvent \/ SetStopped \/ ReportStopped
  BY <1>2, <1>3, <1>4, <1>6
  DEF Started, Stopped, UnloadDriver, CloseStopEvent, SetStopped, ReportStopped,
      Handles, Reports, Phases
<1>7. CASE Control \/ ServiceCtrlHandler \/ StartProcess \/ DriverUnloads \/ UNCHANGED vars
  BY <1>2, <1>3, <1>4, <1>7
  DEF Control, ServiceCtrlHandler, HandlerReads, HandlerReports, HandlerSets, StartProcess,
      DriverUnloads, Handles, Reports, Phases
<1> QED  BY <1>5, <1>6, <1>7

\* A step of Communication, which moves mpc along Start or Stop.
LEMMA CommunicationStepKeeps ==
  ASSUME IInv,
         \/ StartStep \/ Wait \/ StopStep \/ Device
         \/ \E t \in Threads : CommunicationThread(t)
  PROVE  IInv'
<1> USE DEF IInv, serviceVars, handler, status
<1>1. Kept'
  BY CommunicationKeeps DEF StartStep, Wait, StopStep, Device, CommunicationThread
<1>2. CASE StartStep
  <2>1. mpc' \in {"idle", "port", "issue", "run", "failed"} /\ UNCHANGED serviceVars
    BY <1>2 DEF StartStep, Phases, C!MainRun, C!OpenDevice, C!CreatePort, C!ClosePort,
       C!Join, C!IssueFirst, C!StartThread, C!main
  <2> QED  BY <1>1, <1>2, <2>1 DEF StartStep, Typed, Handles, Reports, Phases, Joined
<1>3. CASE StopStep
  <2>1. /\ mpc' \in {"close", "join", "stopped"} /\ UNCHANGED serviceVars
        /\ mpc' = "stopped" => \A t \in Threads : tpc'[t] = "exit"
    BY <1>3 DEF StopStep, Phases, C!MainRun, C!OpenDevice, C!CreatePort, C!ClosePort,
       C!Join, C!IssueFirst, C!StartThread, C!main, C!thread
  <2> QED  BY <1>1, <1>3, <2>1 DEF StopStep, Typed, Handles, Reports, Phases, Joined
<1>4. CASE Wait
  BY <1>1, <1>4 DEF Wait, Goto, C!Stop, Typed, Steps, Handles, Reports, Phases, Joined
<1>5. CASE Device
  <2>1. UNCHANGED <<mpc, tpc, serviceVars>>
    BY <1>5 DEF Device, C!DeviceNext, C!Answer, C!Refuse, C!main, C!thread
  <2> QED  BY <1>1, <2>1 DEF Typed, Handles, Reports, Phases, Joined
<1>6. ASSUME NEW t \in Threads, CommunicationThread(t)
      PROVE  IInv'
  <2>1. UNCHANGED <<mpc, serviceVars>> /\ tpc[t] # "exit"
    BY <1>6 DEF CommunicationThread, C!Run, C!TestStopped, C!Abandoned, C!Take,
       C!SkipInsufficient, C!ExitOnError, C!DoSingleResponse, C!NextRequest, C!Dequeue,
       C!main
  <2> QED  BY <1>1, <2>1 DEF Typed, Handles, Reports, Phases, Joined
<1> QED  BY <1>2, <1>3, <1>4, <1>5, <1>6

LEMMA StepKeeps == IInv /\ [Next]_vars => IInv'
<1>1. ASSUME IInv, ProcessGone PROVE IInv'
  BY <1>1, ProcessGoneKeeps
  DEF ProcessGone, Goto, IInv, Typed, Steps, States, Handles, Reports, Phases, Joined
<1>2. ASSUME IInv, Exit \/ Crash PROVE IInv'
  BY <1>1, <1>2 DEF Exit, Crash
<1> QED  BY <1>2, OwnStepKeeps, CommunicationStepKeeps DEF Next, ServiceMain

-----------------------------------------------------------------------------
(* The theorems *)

\* The invariant holds through every start, end and crash of the process.
THEOREM Inductive == Spec => []IInv
  BY InitIInv, StepKeeps, PTL DEF Spec

\* However a control falls between the steps of ServiceMain, the handler finds
\* an event to set, or ServiceMain on its way out (ServiceCtrlHandler).
THEOREM ControlsAreSeen == Spec => []ControlFindsEvent
<1>1. IInv => ControlFindsEvent
  BY DEF IInv, Typed, Handles, ControlFindsEvent
<1> QED  BY <1>1, Inductive, PTL

\* Once the SCM believes the service stopped no thread of the pool runs,
\* wherever Start failed and however the process ended (ServiceMain, Stop).
THEOREM QuietWhenStopped == Spec => []StoppedIsQuiet
<1>1. IInv => StoppedIsQuiet
  BY DEF IInv, Reports, Phases, Joined, Kept, StoppedIsQuiet, CP!IInv, CP!Ports
<1> QED  BY <1>1, Inductive, PTL

\* Communication keeps its promises in every process of the service, whatever
\* the one before it left at the device: slots have one place, events are handled
\* once, and every slot that is left has a thread.
THEOREM CommunicationHolds ==
  Spec => [](C!SlotHeldOnce /\ C!EventHandledOnce /\ C!ThreadForEverySlot)
<1>1. IInv => CP!SlotHeldOnce /\ CP!EventHandledOnce /\ CP!ThreadForEverySlot
  BY CP!HeldOnce, CP!HandledOnce, Assumed DEF IInv, Kept
<1>2. IInv => C!SlotHeldOnce /\ C!EventHandledOnce /\ C!ThreadForEverySlot
  BY <1>1 DEF C!SlotHeldOnce, CP!SlotHeldOnce, C!EventHandledOnce, CP!EventHandledOnce,
     C!ThreadForEverySlot, CP!ThreadForEverySlot, C!Cardinality, CP!Cardinality,
     C!Range, CP!Range
<1> QED  BY <1>2, Inductive, PTL
=============================================================================
