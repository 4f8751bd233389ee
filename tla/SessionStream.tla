--------------------------- MODULE SessionStream ---------------------------
(***************************************************************************)
(* What a Gateway session promises its client, whatever the connections    *)
(* underneath do: events are numbered 1, 2, 3, ... and the client sees     *)
(* every number exactly once and in order, until the server tells it that  *)
(* the session cannot be continued (INVALID_SESSION), after which it must  *)
(* IDENTIFY again and start a new stream.                                  *)
(***************************************************************************)
EXTENDS Naturals

VARIABLES
  sent,   \* number of the last event the session numbered
  seen,   \* number of the last event the client took
  lost    \* the client was told INVALID_SESSION

vars == <<sent, seen, lost>>

Init == sent = 0 /\ seen = 0 /\ lost = FALSE

Publish ==
  /\ sent' = sent + 1
  /\ UNCHANGED <<seen, lost>>

\* The only event the client may take is the next one.
Deliver ==
  /\ ~lost
  /\ seen < sent
  /\ seen' = seen + 1
  /\ UNCHANGED <<sent, lost>>

Invalidate ==
  /\ lost' = TRUE
  /\ UNCHANGED <<sent, seen>>

Next == Publish \/ Deliver \/ Invalidate

Spec == Init /\ [][Next]_vars
=============================================================================
