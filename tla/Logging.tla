------------------------------ MODULE Logging ------------------------------
(***************************************************************************)
(* The service's log (src/src/srv/log_util.h, log_util.cc).  A LOG_ macro  *)
(* makes a LogStream, which collects the line's text on its own and writes *)
(* it, behind the time, when it is destroyed; one mutex serves all.  The   *)
(* stream is one that works: a log file that cannot be opened or written,  *)
(* which log_init does not test, loses every line and is left out.         *)
(***************************************************************************)
EXTENDS Naturals, Sequences, FiniteSets

CONSTANTS
  Threads,
  Statements,  \* how many statements a thread executes at most (a bound)
  None

VARIABLES
  log_level,   \* the lowest level that is written
  pc,          \* each thread's step
  streams,     \* the LogStreams each thread still has to destroy, by moved_
  mutex,       \* the holder of mutex_, or None
  buffered,    \* what stream_ has been given and has not written yet
  file,        \* what has been written
  made, done   \* each thread's statements, and those that had to be written

vars == <<log_level, pc, streams, mutex, buffered, file, made, done>>

\* LOG_DBG_LEVEL to LOG_ERR_LEVEL
Levels == 0..2

\* wmain calls log_init before anybody can log; the configured level may be
\* above all that there are.
Init ==
  /\ log_level \in 0..3 /\ mutex = None /\ buffered = <<>> /\ file = <<>>
  /\ pc = [t \in Threads |-> "idle"] /\ streams = [t \in Threads |-> <<>>]
  /\ made = [t \in Threads |-> 0] /\ done = [t \in Threads |-> 0]

Goto(t, step) == pc' = [pc EXCEPT ![t] = step]

\* LOG_DBG, LOG_INF, LOG_ERR: Logger::stream() returns a LogStream, which the
\* compiler may build in place or move, leaving behind one that has moved_ set.
LeftBehind == {<<>>, <<TRUE>>}
Statement(t, level) ==
  /\ pc[t] = "idle" /\ made[t] < Statements
  /\ made' = [made EXCEPT ![t] = @ + 1]
  /\ IF level >= log_level
     THEN /\ Goto(t, "destroy") /\ done' = [done EXCEPT ![t] = @ + 1]
          /\ \E moved \in LeftBehind :
               streams' = [streams EXCEPT ![t] = Append(moved, FALSE)]
     ELSE UNCHANGED <<pc, streams, done>>
  /\ UNCHANGED <<log_level, mutex, buffered, file>>

-----------------------------------------------------------------------------
(* ~LogStream *)

\* A moved LogStream has nothing to write; the others wait for the mutex.
WriteUnlocked(t) == UNCHANGED mutex
LockMutex(t) == mutex = None /\ mutex' = t
Moved(t) == Head(streams[t])

Skip(t) ==
  /\ pc[t] = "destroy" /\ Moved(t)
  /\ streams' = [streams EXCEPT ![t] = Tail(@)]
  /\ UNCHANGED <<log_level, pc, mutex, buffered, file, made, done>>
Lock(t) ==
  /\ pc[t] = "destroy" /\ ~Moved(t) /\ LockMutex(t)
  /\ Goto(t, "prefix")
  /\ UNCHANGED <<log_level, streams, buffered, file, made, done>>

Write(t, piece) == buffered' = Append(buffered, <<t, piece>>)
Prefix(t) ==
  /\ pc[t] = "prefix" /\ Write(t, "time") /\ Goto(t, "text")
  /\ UNCHANGED <<log_level, streams, mutex, file, made, done>>
Text(t) ==
  /\ pc[t] = "text" /\ Write(t, "text") /\ Goto(t, "flush")
  /\ UNCHANGED <<log_level, streams, mutex, file, made, done>>

\* std::endl and flush; then the guard leaves its scope.
FlushAll == file' = file \o buffered /\ buffered' = <<>>
Flush(t) ==
  /\ pc[t] = "flush" /\ FlushAll /\ mutex' = None
  /\ streams' = [streams EXCEPT ![t] = Tail(@)]
  /\ Goto(t, IF Len(streams[t]) > 1 THEN "destroy" ELSE "idle")
  /\ UNCHANGED <<log_level, made, done>>

Run(t) == Skip(t) \/ Lock(t) \/ Prefix(t) \/ Text(t) \/ Flush(t)
Next == \E t \in Threads : Run(t) \/ \E l \in Levels : Statement(t, l)
Spec == Init /\ [][Next]_vars

-----------------------------------------------------------------------------
(* Properties *)

\* Lines of several threads are never mixed: behind each time stands the text
\* of the thread that has written it, and nothing else.
LinesWhole ==
  LET log == file \o buffered
  IN  \A k \in DOMAIN log :
        /\ log[k][2] = IF k % 2 = 1 THEN "time" ELSE "text"
        /\ k % 2 = 0 => log[k][1] = log[k - 1][1]

\* When a statement is over, its line has reached the file (one that works),
\* and only once: a service that dies later has not lost it.
LinesWritten ==
  \A t \in Threads :
    pc[t] = "idle" =>
      Cardinality({k \in DOMAIN file : file[k] = <<t, "text">>}) = done[t]

\* The log says what was logged.
LogFaithful == LinesWhole /\ LinesWritten
=============================================================================
