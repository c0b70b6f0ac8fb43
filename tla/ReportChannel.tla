--------------------------- MODULE ReportChannel ---------------------------
(***************************************************************************)
(* What the edge promises the central server about the AIS reports it      *)
(* pushes: each report is handed over at most once, and a report that was  *)
(* given up (expired, displaced, lost with a connection or with the edge   *)
(* process) never comes back.  How it is buffered, retried and put on a    *)
(* WebSocket is the business of EdgeLink, which implements this module.    *)
(***************************************************************************)
EXTENDS Naturals

CONSTANT MaxReports     \* number of reports ever pushed

VARIABLES
  pushed,     \* how many reports the edge has pushed; report r is the r-th
  pending,    \* the reports the edge or the network still holds
  received    \* the reports the central server has taken in

vars == <<pushed, pending, received>>

Init ==
  /\ pushed = 0
  /\ pending = {}
  /\ received = {}

\* Reports may be given up at any time, also in the step that pushes one.
Push ==
  /\ pushed < MaxReports
  /\ pushed' = pushed + 1
  /\ pending' \in SUBSET (pending \union {pushed + 1})
  /\ UNCHANGED received

Receive ==
  \E r \in pending :
    /\ pending' = pending \ {r}
    /\ received' = received \union {r}
    /\ r \notin received
    /\ UNCHANGED pushed

GiveUp ==
  /\ pending' \in SUBSET pending
  /\ UNCHANGED <<pushed, received>>

Next == Push \/ Receive \/ GiveUp

Spec == Init /\ [][Next]_vars
=============================================================================
