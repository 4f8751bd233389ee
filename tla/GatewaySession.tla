--------------------------- MODULE GatewaySession ---------------------------
(***************************************************************************)
(* One Gateway session (gateway/session.go) with the connections           *)
(* (gateway/conn.go) that carry it one after another: numbering, replay    *)
(* buffer, bounded send queue, slow-consumer disconnect, detach, RESUME.   *)
(*                                                                         *)
(* A frame is its number s. The goroutines are: the event bus worker       *)
(* (Dispatch and the two Slow steps), one handler per connection (Lookup   *)
(* to Detach), its writePump (Pump), and the hub's sweeper. Authentication *)
(* and presence are in GatewayHub. Time is not counted: a record may be    *)
(* too old at any dispatch and a detached session too old at any sweep.    *)
(***************************************************************************)
EXTENDS Integers, Sequences

CONSTANTS
  Conns,             \* connections the client may open, each used once
  None,              \* "no connection"
  SendBuffer,        \* capacity of conn.send
  ReplayBufferSize,  \* capacity of session.buffer
  MaxSeq             \* bound of the model: events published

ASSUME SessionAssumption ==
  /\ None \notin Conns
  /\ SendBuffer \in Nat \ {0}
  /\ ReplayBufferSize \in Nat \ {0}
  /\ MaxSeq \in Nat

VARIABLES
  seq,         \* session.seq
  buffer,      \* session.buffer: the numbers of the retained frames
  bound,       \* session.conn
  registered,  \* the hub still lists the session
  missed,      \* an event of the user was published while it did not
  pc,          \* where the handler goroutine of a connection is
  asked,       \* last_seq of a RESUME not handled yet
  replay,      \* frames the handler has yet to write during the handshake
  replaced,    \* connection that this one's RESUME took over, not shut yet
  queue,       \* DISPATCH frames in conn.send
  acks,        \* number of HEARTBEAT_ACK frames in conn.send
  done,        \* conn.done is closed
  open,        \* the socket accepts writes
  wire,        \* frames written and not yet read by the client
  slow,        \* connection that push is disconnecting
  cur,         \* connection the client reads
  last,        \* number of the last frame the client took
  lost         \* the client was told INVALID_SESSION

serverVars == <<seq, buffer, bound, registered, missed, slow>>
connVars   == <<pc, asked, replay, replaced, queue, acks, done, open, wire>>
clientVars == <<cur, last, lost>>
vars == <<serverVars, connVars, clientVars>>

Waiting  == {"lookup", "attach"}             \* RESUME received, not attached
Pumping  == {"live", "leaving", "left"}      \* writePump was started
Phases   == Waiting \cup Pumping \cup {"new", "register", "replay", "abort", "gone"}

(* The first connection has just sent IDENTIFY: its session is registered, *)
(* bound to it, and READY is about to be written.                          *)
Init ==
  /\ seq = 0 /\ buffer = <<>> /\ slow = None
  /\ registered = TRUE /\ missed = FALSE
  /\ bound \in Conns
  /\ pc = [c \in Conns |-> IF c = bound THEN "replay" ELSE "new"]
  /\ asked = [c \in Conns |-> 0]
  /\ replay = [c \in Conns |-> <<>>]
  /\ replaced = [c \in Conns |-> None]
  /\ queue = [c \in Conns |-> <<>>]
  /\ acks = [c \in Conns |-> 0]
  /\ done = [c \in Conns |-> FALSE]
  /\ open = [c \in Conns |-> c = bound]
  /\ wire = [c \in Conns |-> <<>>]
  /\ cur = bound /\ last = 0 /\ lost = FALSE

-----------------------------------------------------------------------------
(* The event bus worker.                                                   *)

HasRoom(c) == ~done[c] /\ Len(queue[c]) + acks[c] < SendBuffer

(* pruneLocked after an append: first down to the capacity, then any       *)
(* number of the oldest records may have passed their TTL, never the one   *)
(* just appended.                                                          *)
Pruned(b) ==
  { SubSeq(b, d + 1, Len(b)) :
      d \in {n \in 0 .. Len(b) - 1 : Len(b) - n <= ReplayBufferSize} }

\* dispatch reports the connection that had no room, for push to disconnect.
OverflowIgnored(c) == UNCHANGED slow       \* mutant: the report is dropped
Overflow(c) == slow' = c

(* session.dispatch for a registered session. The worker is serial: it     *)
(* takes the next event only when push is through with the previous one.   *)
Dispatch ==
  /\ slow = None /\ registered /\ seq < MaxSeq
  /\ seq' = seq + 1
  /\ buffer' \in Pruned(Append(buffer, seq + 1))
  /\ \/ /\ bound # None /\ HasRoom(bound)
        /\ queue' = [queue EXCEPT ![bound] = Append(@, seq + 1)]
        /\ UNCHANGED slow
     \/ /\ bound # None /\ ~HasRoom(bound)
        /\ Overflow(bound)
        /\ UNCHANGED queue
     \/ /\ bound = None
        /\ UNCHANGED <<queue, slow>>
  /\ UNCHANGED <<bound, registered, missed, clientVars,
                 pc, asked, replay, replaced, acks, done, open, wire>>

\* The hub does not find the session: the event gets no number in it.
DispatchUnregistered ==
  /\ slow = None /\ ~registered /\ ~missed
  /\ missed' = TRUE
  /\ UNCHANGED <<seq, buffer, bound, registered, slow, connVars, clientVars>>

\* push on a slow consumer: shutdown the connection, then detach it.
SlowShutdown ==
  /\ slow # None /\ ~done[slow]
  /\ done' = [done EXCEPT ![slow] = TRUE]
  /\ UNCHANGED <<serverVars, clientVars,
                 pc, asked, replay, replaced, queue, acks, open, wire>>

\* session.detach, which spares a connection bound meanwhile.
UnbindAny(c) == bound' = None              \* mutant: detach spares nobody
Unbind(c) == bound' = IF bound = c THEN None ELSE bound

SlowDetach ==
  /\ slow # None /\ done[slow]
  /\ Unbind(slow)
  /\ slow' = None
  /\ UNCHANGED <<seq, buffer, registered, missed, connVars, clientVars>>

\* hub.sweep: a detached session outlived the resume window.
Sweep ==
  /\ registered /\ bound = None
  /\ registered' = FALSE
  /\ UNCHANGED <<seq, buffer, bound, missed, slow, connVars, clientVars>>

-----------------------------------------------------------------------------
(* The handler goroutine of connection c.                                  *)

\* Rejected: shutdown; the INVALID_SESSION frame may not reach the client.
Reject(c) ==
  /\ pc' = [pc EXCEPT ![c] = "gone"]
  /\ done' = [done EXCEPT ![c] = TRUE]
  /\ asked' = [asked EXCEPT ![c] = 0]
  /\ UNCHANGED <<serverVars, replay, replaced, queue, acks, open, wire, cur, last>>

Invalid(c) ==
  /\ lost' \in {lost, lost \/ cur = c}
  /\ Reject(c)

\* resume: the session is looked up ...
Lookup(c) ==
  /\ pc[c] = "lookup"
  /\ \/ /\ registered
        /\ pc' = [pc EXCEPT ![c] = "attach"]
        /\ UNCHANGED <<serverVars, clientVars,
                       asked, replay, replaced, queue, acks, done, open, wire>>
     \/ ~registered /\ Invalid(c)
     \/ UNCHANGED lost /\ Reject(c)        \* no or bad RESUME frame, timeout

\* replayAfterLocked: some record between n and seq is not retained.
GapLate(n) ==             \* mutant: one missing record is overlooked
  \/ n > seq
  \/ n < seq /\ (buffer = <<>> \/ buffer[1] > n + 2)

Gap(n) ==
  \/ n > seq
  \/ n < seq /\ (buffer = <<>> \/ buffer[1] > n + 1)

\* The retained records from position k on are those with a number above n.
ReplayFromTaken(k, n) ==      \* mutant: the last frame taken is sent again
  \A i \in 1 .. Len(buffer) : buffer[i] >= n <=> i >= k

ReplayFrom(k, n) ==
  \A i \in 1 .. Len(buffer) : buffer[i] > n <=> i >= k

\* ... and resumeAttach collects the gap and binds c in one critical section.
Attach(c) ==
  /\ pc[c] = "attach"
  /\ \/ /\ ~Gap(asked[c])
        /\ \E k \in 1 .. Len(buffer) + 1 :
             /\ ReplayFrom(k, asked[c])
             /\ replay' = [replay EXCEPT ![c] = SubSeq(buffer, k, Len(buffer))]
        /\ replaced' = [replaced EXCEPT ![c] = bound]
        /\ bound' = c
        /\ pc' = [pc EXCEPT ![c] = "register"]
        /\ asked' = [asked EXCEPT ![c] = 0]
        /\ UNCHANGED <<seq, buffer, registered, missed, slow, clientVars,
                       queue, acks, done, open, wire>>
     \/ Gap(asked[c]) /\ Invalid(c)

\* The session is registered again, then the replaced connection is shut.
Register(c) ==
  /\ pc[c] = "register"
  /\ registered' = TRUE
  /\ pc' = [pc EXCEPT ![c] = "replay"]
  /\ done' = [d \in Conns |-> done[d] \/ d = replaced[c]]
  /\ replaced' = [replaced EXCEPT ![c] = None]
  /\ UNCHANGED <<seq, buffer, bound, missed, slow, clientVars,
                 asked, replay, queue, acks, open, wire>>

\* What is written on a connection the client has dropped is read by nobody.
Write(c, f) == wire' = IF c = cur THEN [wire EXCEPT ![c] = Append(@, f)] ELSE wire

WriteReplay(c) ==
  /\ pc[c] = "replay" /\ open[c] /\ replay[c] # <<>>
  /\ Write(c, Head(replay[c]))
  /\ replay' = [replay EXCEPT ![c] = Tail(@)]
  /\ UNCHANGED <<serverVars, clientVars,
                 pc, asked, replaced, queue, acks, done, open>>

\* READY or RESUMED is written; writePump starts.
GoLive(c) ==
  /\ pc[c] = "replay" /\ open[c] /\ replay[c] = <<>>
  /\ pc' = [pc EXCEPT ![c] = "live"]
  /\ UNCHANGED <<serverVars, clientVars,
                 asked, replay, replaced, queue, acks, done, open, wire>>

\* A handshake write fails, or readLoop returns: shutdown ...
Leave(c) ==
  /\ pc[c] \in {"replay", "live"}
  /\ pc' = [pc EXCEPT ![c] = IF @ = "live" THEN "leaving" ELSE "abort"]
  /\ done' = [done EXCEPT ![c] = TRUE]
  /\ UNCHANGED <<serverVars, clientVars,
                 asked, replay, replaced, queue, acks, open, wire>>

\* ... and then detach.
Detach(c) ==
  /\ pc[c] \in {"leaving", "abort"}
  /\ pc' = [pc EXCEPT ![c] = IF @ = "leaving" THEN "left" ELSE "gone"]
  /\ Unbind(c)
  /\ UNCHANGED <<seq, buffer, registered, missed, slow, clientVars,
                 asked, replay, replaced, queue, acks, done, open, wire>>

\* readLoop answers a HEARTBEAT; a full queue shuts the connection.
Heartbeat(c) ==
  /\ pc[c] = "live" /\ open[c]
  /\ IF HasRoom(c)
     THEN acks' = [acks EXCEPT ![c] = @ + 1] /\ UNCHANGED <<done, pc>>
     ELSE /\ done' = [done EXCEPT ![c] = TRUE]
          /\ pc' = [pc EXCEPT ![c] = "leaving"]
          /\ UNCHANGED acks
  /\ UNCHANGED <<serverVars, clientVars,
                 asked, replay, replaced, queue, open, wire>>

-----------------------------------------------------------------------------
(* writePump, the socket and the client.                                   *)

\* An element of conn.send is written. The client ignores acks, so they
\* leave in any order and do not reach the wire.
Pump(c) ==
  /\ pc[c] \in Pumping /\ open[c]
  /\ \/ /\ queue[c] # <<>>
        /\ Write(c, Head(queue[c]))
        /\ queue' = [queue EXCEPT ![c] = Tail(@)]
        /\ UNCHANGED acks
     \/ /\ acks[c] > 0
        /\ acks' = [acks EXCEPT ![c] = @ - 1]
        /\ UNCHANGED <<queue, wire>>
  /\ UNCHANGED <<serverVars, clientVars, pc, asked, replay, replaced, done, open>>

PumpFail(c) ==
  /\ pc[c] \in Pumping /\ ~open[c] /\ ~done[c]
  /\ queue[c] # <<>> \/ acks[c] > 0
  /\ done' = [done EXCEPT ![c] = TRUE]
  /\ UNCHANGED <<serverVars, clientVars,
                 pc, asked, replay, replaced, queue, acks, open, wire>>

\* shutdown closes the socket after done; the network may break it before.
CloseSocket(c) ==
  /\ open[c]
  /\ open' = [open EXCEPT ![c] = FALSE]
  /\ UNCHANGED <<serverVars, clientVars,
                 pc, asked, replay, replaced, queue, acks, done, wire>>

\* The client drops its connection for a new one and asks to RESUME.
Reconnect(c) ==
  /\ pc[c] = "new" /\ ~lost
  /\ cur' = c
  /\ asked' = [asked EXCEPT ![c] = last]
  /\ open' = [open EXCEPT ![c] = TRUE]
  /\ pc' = [pc EXCEPT ![c] = "lookup"]
  /\ wire' = [wire EXCEPT ![cur] = <<>>]
  /\ UNCHANGED <<serverVars, last, lost, replay, replaced, queue, acks, done>>

Receive ==
  /\ ~lost /\ wire[cur] # <<>>
  /\ last' = Head(wire[cur])
  /\ wire' = [wire EXCEPT ![cur] = Tail(@)]
  /\ UNCHANGED <<serverVars, cur, lost,
                 pc, asked, replay, replaced, queue, acks, done, open>>

-----------------------------------------------------------------------------
Handler(c) ==
  Lookup(c) \/ Attach(c) \/ Register(c) \/ WriteReplay(c) \/ GoLive(c) \/ Detach(c)

Next ==
  \/ Dispatch \/ DispatchUnregistered \/ SlowShutdown \/ SlowDetach \/ Sweep
  \/ \E c \in Conns :
       \/ Handler(c) \/ Leave(c) \/ Heartbeat(c)
       \/ Pump(c) \/ PumpFail(c) \/ CloseSocket(c) \/ Reconnect(c)
  \/ Receive

Spec == Init /\ [][Next]_vars

(* Goroutines are scheduled, a closed connection's reads and writes fail,  *)
(* and a client reads its socket. Nothing obliges the network to break,    *)
(* the sweeper to find the session old, or the client to reconnect.        *)
Fairness ==
  /\ WF_vars(SlowShutdown) /\ WF_vars(SlowDetach) /\ WF_vars(Receive)
  /\ \A c \in Conns :
       /\ WF_vars(Handler(c)) /\ WF_vars(Pump(c))
       /\ WF_vars(done[c] /\ CloseSocket(c))
       /\ WF_vars(~open[c] /\ Leave(c))

FairSpec == Spec /\ Fairness

-----------------------------------------------------------------------------
(* Types, and the two capacities: no replay buffer and no send queue ever  *)
(* holds more than its options allow.                                      *)
Types ==
  /\ seq \in 0 .. MaxSeq
  /\ buffer \in Seq(Nat)
  /\ bound \in Conns \cup {None} /\ slow \in Conns \cup {None}
  /\ registered \in BOOLEAN /\ missed \in BOOLEAN
  /\ pc \in [Conns -> Phases]
  /\ asked \in [Conns -> Nat]
  /\ replay \in [Conns -> Seq(Nat)]
  /\ replaced \in [Conns -> Conns \cup {None}]
  /\ queue \in [Conns -> Seq(Nat)]
  /\ acks \in [Conns -> Nat]
  /\ done \in [Conns -> BOOLEAN] /\ open \in [Conns -> BOOLEAN]
  /\ wire \in [Conns -> Seq(Nat)]
  /\ cur \in Conns /\ last \in Nat /\ lost \in BOOLEAN

WithinCapacity ==
  /\ Len(buffer) <= ReplayBufferSize
  /\ \A c \in Conns : Len(queue[c]) + acks[c] <= SendBuffer

TypeOK == Types /\ WithinCapacity

(* resumeAttach promises that an event published during a RESUME is either *)
(* in the replay list or in the new connection's queue. So what the client *)
(* has not taken is, in order, on the wire, to be replayed and queued,     *)
(* whenever the session is bound to the connection the client reads.       *)
InFlight(c) == wire[c] \o replay[c] \o queue[c]

NothingStranded ==
  bound = cur /\ slow = None =>
    InFlight(cur) = [i \in 1 .. seq - last |-> last + i]

(* Why: the buffer holds the last numbers in order; a connection carries   *)
(* nothing before it is attached; last_seq is what the client took; and    *)
(* on the client's connection wire, replay list and queue follow on from   *)
(* what it took, up to seq while the connection is bound and not being     *)
(* cut off.                                                                *)
BufferIsTail ==
  /\ Len(buffer) <= seq
  /\ \A i \in 1 .. Len(buffer) : buffer[i] = seq - Len(buffer) + i

CarriesNothing(c) ==
  /\ wire[c] = <<>> /\ replay[c] = <<>> /\ queue[c] = <<>>
  /\ bound # c /\ slow # c

HandshakeOrder ==
  \A c \in Conns :
    /\ pc[c] \in Waiting \cup {"new"} => CarriesNothing(c)
    /\ pc[c] \in Pumping => replay[c] = <<>>

LastIsAsked ==
  /\ last <= seq /\ pc[cur] # "new"
  /\ pc[cur] \in Waiting => asked[cur] = last

ShutFirst ==
  \A c \in Conns : pc[c] \in {"leaving", "abort"} => done[c]

Follows(s, n) == \A i \in 1 .. Len(s) : s[i] = n + i

FollowsOn ==
  LET w == Len(wire[cur])
      r == Len(replay[cur])
      q == Len(queue[cur]) IN
  pc[cur] \notin Waiting =>
    /\ last + w + r + q <= seq
    /\ bound = cur /\ slow # cur => last + w + r + q = seq
    /\ Follows(wire[cur], last)
    /\ Follows(replay[cur], last + w)
    /\ Follows(queue[cur], last + w + r)

StreamInv == BufferIsTail /\ HandshakeOrder /\ LastIsAsked /\ ShutFirst /\ FollowsOn

(* The code implements the session stream: across connections the client   *)
(* takes 1, 2, 3, ... with no gap, no duplicate and no reordering, unless  *)
(* it was told INVALID_SESSION.                                            *)
Stream == INSTANCE SessionStream WITH sent <- seq, seen <- last
ImplementsStream == Stream!Spec

(* ImplementsStream does not see a frame sent again just after it was      *)
(* taken: the client would take the number it already has. It never does,  *)
(* whatever was replayed: each frame it takes is a new one.                *)
NoFrameTwice == [][Receive => last' = last + 1]_vars

(* session.go: detach takes effect only for the connection still bound, so *)
(* that the cleanup of an old connection never evicts its successor. The   *)
(* session is left with no connection only when the one it had was shut.   *)
DetachSparesSuccessor ==
  [][bound # None /\ bound' = None => done[bound]]_vars

(* An event numbered while the client's connection is bound reaches the    *)
(* client, unless that connection is unbound first: the handover from      *)
(* replay to queue to writePump loses nothing and never stalls.            *)
EventuallyDelivered ==
  \A n \in 1 .. MaxSeq :
    (bound = cur /\ seq >= n) ~> (last >= n \/ bound # cur \/ lost)

(* A connection that was shut down by anyone (push, a RESUME elsewhere,    *)
(* its own reader or writer) does not stay bound: its session comes to     *)
(* wait for a RESUME, or is carried by another connection.                 *)
ShutConnectionUnbinds ==
  \A c \in Conns : (bound = c /\ done[c]) ~> bound # c

(* What fair goroutines bring about: frames arrive, dead connections go.   *)
Progress == EventuallyDelivered /\ ShutConnectionUnbinds

(* hub.go: registering again after the attach makes good the race with the *)
(* sweeper, so that a session whose client was told RESUMED has numbered   *)
(* every event published meanwhile.                                        *)
ResumedMissedNothing ==
  bound = cur /\ pc[cur] = "live" => ~missed
=============================================================================
