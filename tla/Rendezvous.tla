----------------------------- MODULE Rendezvous -----------------------------
(***************************************************************************)
(* What src/src/drv/ioctl.cc promises to the service and to the driver's   *)
(* callbacks, whatever happens inside: a request ends once, alone or with  *)
(* the one message it is answered with, and no two requests or messages    *)
(* end in one step.  The promise ends where the behaviour of the driver is *)
(* undefined (broken).                                                     *)
(***************************************************************************)
CONSTANTS
  Irps, Msgs,  \* requests and messages
  Oversized    \* the messages that no request has room for

VARIABLES
  pending,     \* the requests that wait for their end
  messages,    \* the messages that have been accepted and are not gone yet
  broken       \* TRUE once nothing is promised any more

vars == <<pending, messages, broken>>

Init == pending = {} /\ messages = {} /\ broken = FALSE

\* The service asks, a callback reports.
Issue(i) ==
  /\ i \notin pending /\ pending' = pending \cup {i}
  /\ UNCHANGED <<messages, broken>>
Report(m) ==
  /\ m \notin messages /\ messages' = messages \cup {m}
  /\ UNCHANGED <<pending, broken>>

\* A request is answered: the message is consumed with it.
Answer(i, m) ==
  /\ i \in pending /\ m \in messages \ Oversized
  /\ pending' = pending \ {i} /\ messages' = messages \ {m}
  /\ UNCHANGED broken

\* A request ends without an answer, and no message is lost with it.
Fail(i) ==
  /\ i \in pending /\ pending' = pending \ {i}
  /\ UNCHANGED <<messages, broken>>

\* A message is given up for want of room or memory.
Drop(m) ==
  /\ m \in messages /\ messages' = messages \ {m}
  /\ UNCHANGED <<pending, broken>>

\* The driver is unloaded while nobody asks.
Close ==
  /\ pending = {} /\ messages' \subseteq messages
  /\ UNCHANGED <<pending, broken>>

Break == broken' = TRUE

Next ==
  \/ Close \/ Break
  \/ \E i \in Irps : Issue(i) \/ Fail(i) \/ \E m \in Msgs : Answer(i, m)
  \/ \E m \in Msgs : Report(m) \/ Drop(m)

Spec == Init /\ [][Next]_vars
=============================================================================
