--------------------------------- MODULE Pipe ---------------------------------
(***************************************************************************)
(* What one proxied connection promises its two ends: it opens at most     *)
(* once, never before the destination was reached, and from then on each   *)
(* end receives, in order and without gaps, a prefix of what the other     *)
(* end sends.  A connection may fail to open, and an open one may go       *)
(* silent at any point.                                                    *)
(***************************************************************************)
EXTENDS Sequences, Naturals

CONSTANTS
  AppData,   \* what the application sends
  DestData   \* what the destination sends

VARIABLES
  phase,     \* "opening", "open" or "failed", as the client sees it
  reached,   \* the exit node holds a connection to the destination
  toDest,    \* what the destination has received
  toApp      \* what the application has received

vars == <<phase, reached, toDest, toApp>>

Init ==
  /\ phase = "opening"
  /\ reached = FALSE
  /\ toDest = <<>>
  /\ toApp = <<>>

Reach ==
  /\ ~reached
  /\ reached' = TRUE
  /\ UNCHANGED <<phase, toDest, toApp>>

Open ==
  /\ phase = "opening"
  /\ reached
  /\ phase' = "open"
  /\ UNCHANGED <<reached, toDest, toApp>>

Fail ==
  /\ phase = "opening"
  /\ phase' = "failed"
  /\ UNCHANGED <<reached, toDest, toApp>>

DeliverToDest ==
  /\ phase = "open"
  /\ Len(toDest) < Len(AppData)
  /\ toDest' = Append(toDest, AppData[Len(toDest) + 1])
  /\ UNCHANGED <<phase, reached, toApp>>

DeliverToApp ==
  /\ phase = "open"
  /\ Len(toApp) < Len(DestData)
  /\ toApp' = Append(toApp, DestData[Len(toApp) + 1])
  /\ UNCHANGED <<phase, reached, toDest>>

Next == Reach \/ Open \/ Fail \/ DeliverToDest \/ DeliverToApp

Spec == Init /\ [][Next]_vars
=============================================================================
