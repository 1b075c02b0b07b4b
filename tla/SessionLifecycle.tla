--------------------------- MODULE SessionLifecycle ---------------------------
(***************************************************************************)
(* What core::io::Session promises about the life of a connection, without *)
(* saying how: operations are handed to the kernel only while the session  *)
(* is open, or as part of beginning to close it; closing never turns back; *)
(* and the session is closed, and the application told so, once, when      *)
(* nothing handed to the kernel and no application work is outstanding.    *)
(***************************************************************************)
EXTENDS Naturals

CONSTANT MaxClosingOps  \* operations the closing step itself may submit

VARIABLES
  phase,        \* "open", "closing" or "closed"
  outstanding,  \* operations whose final completion has not been handled
  appWork,      \* units of application work begun and not ended
  notified      \* how often the application was told of the disconnect

lifecycleVars == <<phase, outstanding, appWork, notified>>

LInit ==
  /\ phase = "open"
  /\ outstanding = 0
  /\ appWork = 0
  /\ notified = 0

SubmitIo ==
  /\ phase = "open"
  /\ outstanding' = outstanding + 1
  /\ UNCHANGED <<phase, appWork, notified>>

CompleteIo ==
  /\ outstanding > 0
  /\ outstanding' = outstanding - 1
  /\ UNCHANGED <<phase, appWork, notified>>

BeginClose ==
  /\ phase = "open"
  /\ phase' = "closing"
  /\ \E n \in 0..MaxClosingOps : outstanding' = outstanding + n
  /\ UNCHANGED <<appWork, notified>>

FinishClose ==
  /\ phase = "closing"
  /\ outstanding = 0
  /\ appWork = 0
  /\ phase' = "closed"
  /\ notified' = notified + 1
  /\ UNCHANGED <<outstanding, appWork>>

BeginWork ==
  /\ appWork' = appWork + 1
  /\ UNCHANGED <<phase, outstanding, notified>>

EndWork ==
  /\ appWork > 0
  /\ appWork' = appWork - 1
  /\ UNCHANGED <<phase, outstanding, notified>>

LNext ==
  \/ SubmitIo \/ CompleteIo \/ BeginClose \/ FinishClose
  \/ BeginWork \/ EndWork

LSpec == LInit /\ [][LNext]_lifecycleVars
=============================================================================
