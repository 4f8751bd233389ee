----------------------------- MODULE SfuControl ------------------------------
(***************************************************************************)
(* What callers wait for at the registry of control streams: that a cascade*)
(* edge comes up (sfucontrol/edges.go), and that a node acknowledges a     *)
(* command (registry.go, SendCommand and Resolve). Here it is one edge of  *)
(* one room, and the commands of one node. Every critical section of       *)
(* Registry.mu is one action.                                              *)
(***************************************************************************)
EXTENDS Naturals

CONSTANTS
  Waiters,     \* calls of WaitEdgeUp
  Commands,    \* command ids: uuids, never used twice
  None,
  MaxEpoch     \* bound of the model

Epochs == 1 .. MaxEpoch

VARIABLES
  edge,      \* r.edges: [epoch, up] as last reported, or None
  want,      \* waiter -> wantEpoch while it is in r.edgeWaiters, or None
  woken,     \* waiters taken out of the list, whose channel is closed
  call,      \* command -> where its SendCommand is
  pending,   \* r.pending
  onWire,    \* commands the node has got and may acknowledge, again and again
  answer     \* command -> acknowledgements in its channel

edgeVars    == <<edge, want, woken>>
commandVars == <<call, pending, onWire, answer>>
vars        == <<edgeVars, commandVars>>

Calls == {"new", "pending", "waiting", "answered", "failed", "done"}

TypeOK ==
  /\ edge = None \/ edge \in [epoch : Epochs, up : BOOLEAN]
  /\ want \in [Waiters -> Epochs \cup {None}] /\ woken \subseteq Waiters
  /\ call \in [Commands -> Calls]
  /\ pending \subseteq Commands /\ onWire \subseteq Commands
  /\ answer \in [Commands -> Nat]

Init ==
  /\ edge = None /\ want = [w \in Waiters |-> None] /\ woken = {}
  /\ call = [c \in Commands |-> "new"] /\ pending = {} /\ onWire = {}
  /\ answer = [c \in Commands |-> 0]

-----------------------------------------------------------------------------
(* Edges.                                                                  *)

\* Mutant: a waiter is content with the epoch it asked for, and no other.
SatisfiedExactly(e, epoch) == e # None /\ e.up /\ e.epoch = epoch

\* edgeWaiter.satisfied, and EdgeUpNow.
Satisfied(e, epoch) == e # None /\ e.up /\ e.epoch >= epoch

\* UpdateEdgeStatusFrom: a report of an older epoch is dropped, any other is
\* stored and wakes whom it satisfies. Traffic, path and addresses are left out.
Report(epoch, up) ==
  /\ edge # None => epoch >= edge.epoch
  /\ edge' = [epoch |-> epoch, up |-> up]
  /\ LET wake == {w \in Waiters : want[w] # None /\ Satisfied(edge', want[w])}
     IN  /\ woken' = woken \cup wake
         /\ want' = [w \in Waiters |-> IF w \in wake THEN None ELSE want[w]]
  /\ UNCHANGED commandVars

\* Nobody reported it for half an hour, and another edge is reported.
Expire ==
  /\ edge # None /\ edge' = None
  /\ UNCHANGED <<want, woken, commandVars>>

\* WaitEdgeUp: under the lock, it is either content or on the list.
WaitEdgeUp(w, epoch) ==
  /\ want[w] = None /\ w \notin woken
  /\ ~Satisfied(edge, epoch)
  /\ want' = [want EXCEPT ![w] = epoch]
  /\ UNCHANGED <<edge, woken, commandVars>>

Woken(w) ==
  /\ w \in woken /\ woken' = woken \ {w}
  /\ UNCHANGED <<edge, want, commandVars>>

\* removeEdgeWaiter: the wait was too long.
GivesUp(w) ==
  /\ want[w] # None
  /\ want' = [want EXCEPT ![w] = None]
  /\ UNCHANGED <<edge, woken, commandVars>>

-----------------------------------------------------------------------------
(* Commands.                                                               *)

\* The channel is in r.pending before the command is sent.
Register(c) ==
  /\ call[c] = "new"
  /\ call' = [call EXCEPT ![c] = "pending"] /\ pending' = pending \cup {c}
  /\ UNCHANGED <<edgeVars, onWire, answer>>

Send(c) ==
  /\ call[c] = "pending"
  /\ \/ call' = [call EXCEPT ![c] = "waiting"] /\ onWire' = onWire \cup {c}
     \/ call' = [call EXCEPT ![c] = "failed"] /\ UNCHANGED onWire
  /\ UNCHANGED <<edgeVars, pending, answer>>

\* Mutant: the entry is left to the caller to take out.
Forget(c) == pending

Claim(c) == pending \ {c}

\* Resolve: only what is pending has a channel to put the answer in.
Resolve(c) ==
  /\ c \in onWire
  /\ pending' = Claim(c)
  /\ answer' = IF c \in pending THEN [answer EXCEPT ![c] = @ + 1] ELSE answer
  /\ UNCHANGED <<edgeVars, call, onWire>>

\* select: the answer, a stream that is gone, a context that is over, the time.
Receive(c) ==
  /\ call[c] = "waiting" /\ answer[c] > 0
  /\ answer' = [answer EXCEPT ![c] = @ - 1]
  /\ call' = [call EXCEPT ![c] = "answered"]
  /\ UNCHANGED <<edgeVars, pending, onWire>>

Fail(c) ==
  /\ call[c] = "waiting"
  /\ call' = [call EXCEPT ![c] = "failed"]
  /\ UNCHANGED <<edgeVars, pending, onWire, answer>>

\* The deferred delete.
Return(c) ==
  /\ call[c] \in {"answered", "failed"}
  /\ call' = [call EXCEPT ![c] = "done"] /\ pending' = pending \ {c}
  /\ UNCHANGED <<edgeVars, onWire, answer>>

-----------------------------------------------------------------------------
Next ==
  \/ \E epoch \in Epochs, up \in BOOLEAN : Report(epoch, up)
  \/ Expire
  \/ \E w \in Waiters : Woken(w) \/ GivesUp(w) \/ \E epoch \in Epochs : WaitEdgeUp(w, epoch)
  \/ \E c \in Commands :
       Register(c) \/ Send(c) \/ Resolve(c) \/ Receive(c) \/ Fail(c) \/ Return(c)

Spec == Init /\ [][Next]_vars

-----------------------------------------------------------------------------
(* No waiter is left on the list by a report that should have woken it,    *)
(* whichever of the two came first and whatever epoch the report has: an   *)
(* edge that is up at the epoch asked for or a later one ends every wait.  *)
NoneStranded ==
  \A w \in Waiters : want[w] # None =>
    ~(edge # None /\ edge.up /\ edge.epoch >= want[w])

(* Resolve runs on the goroutine that receives from the node, and puts the *)
(* answer in a channel of one place: it never finds that place taken,      *)
(* however often the node answers and however late.                        *)
ResolveNeverBlocks ==
  \A c \in onWire : c \in pending => answer[c] = 0

(* Reports and answers meet those who wait for them, and never wait.       *)
WaitsAreMet == NoneStranded /\ ResolveNeverBlocks

=============================================================================
