----------------------------- MODULE GatewayHub -----------------------------
(***************************************************************************)
(* The Gateway hub (gateway/hub.go), the handlers that create and resume   *)
(* sessions in it (gateway/handler.go), and the presence registry          *)
(* (presence/presence.go), for the sessions of one user.                   *)
(*                                                                         *)
(* The goroutines are one handler per connection, the event bus worker     *)
(* (slow consumers, closeUserSessions) and the sweeper. What a session     *)
(* delivers is GatewaySession; here a session is whether it is registered, *)
(* what it is bound to, and whether presence counts it.                    *)
(***************************************************************************)
EXTENDS Naturals, FiniteSets, TLAPS

CONSTANTS
  Conns,        \* connections, each used once
  Sessions,     \* session ids the server may issue
  None,
  MaxRevokes    \* bound of the model: SESSION_REVOKE events published

ASSUME HubAssumption ==
  /\ None \notin Conns /\ None \notin Sessions
  /\ MaxRevokes \in Nat

VARIABLES
  made,        \* sessions created by IDENTIFY
  registered,  \* keys of hub.sessions
  conn,        \* session.conn
  stamped,     \* session.disconnectedAt is not zero
  present,     \* sessions that presence counts for the user
  disabled,    \* the account is disabled
  published,   \* number of SESSION_REVOKE events published
  revokes,     \* those the bus worker has still to handle
  closing,     \* worker: sessions unregistered by the revoke, still bound
  forgetting,  \* worker: session unbound, whose presence is to be removed
  closed,      \* history: sessions a revoke unregistered
  swept,       \* sweeper: sessions whose presence is to be removed
  pc,          \* where the handler of a connection is
  sess,        \* its session
  replaced,    \* connection its RESUME took over, not shut yet
  shut         \* conn.done is closed

accountVars == <<disabled, published>>
workerVars  == <<revokes, closing, forgetting, closed>>
handlerVars == <<pc, sess, replaced>>
vars == <<made, registered, conn, stamped, present, shut, swept,
          accountVars, workerVars, handlerVars>>

Phases == {"new", "authed", "found", "attached", "connect", "greet",
           "live", "status", "leave", "gone"}

Init ==
  /\ made = {} /\ registered = {} /\ present = {}
  /\ conn = [s \in Sessions |-> None]
  /\ stamped = [s \in Sessions |-> FALSE]
  /\ disabled = FALSE /\ published = 0 /\ revokes = 0
  /\ closing = {} /\ forgetting = None /\ closed = {} /\ swept = {}
  /\ pc = [c \in Conns |-> "new"]
  /\ sess = [c \in Conns |-> None]
  /\ replaced = [c \in Conns |-> None]
  /\ shut = [c \in Conns |-> FALSE]

-----------------------------------------------------------------------------
(* The account.                                                            *)

(* revokeGatewaySessions after a password reset, or after the account was  *)
(* disabled. Publish drops the event when the hub's queue is full.         *)
Revoke ==
  /\ published < MaxRevokes
  /\ published' = published + 1
  /\ disabled' \in {disabled, TRUE}
  /\ revokes' \in {revokes, revokes + 1}
  /\ UNCHANGED <<made, registered, conn, stamped, present, shut, swept,
                 closing, forgetting, closed, handlerVars>>

-----------------------------------------------------------------------------
(* The event bus worker, which handles one event at a time.                *)

WorkerFree == closing = {} /\ forgetting = None

\* closeUserSessions: every session of the user leaves the registry ...
CloseUserSessions ==
  /\ WorkerFree /\ revokes > 0
  /\ revokes' = revokes - 1
  /\ registered' = {}
  /\ closing' = registered
  /\ closed' = closed \cup registered
  /\ UNCHANGED <<made, conn, stamped, present, shut, swept, forgetting,
                 accountVars, handlerVars>>

(* ... then, one by one, its connection is taken and shut (nobody can tell *)
(* the two apart: handlers look at neither until they end) ...             *)
Shutdown(s) == shut' = [c \in Conns |-> shut[c] \/ c = conn[s]]

CloseConn(s) ==
  /\ s \in closing /\ forgetting = None
  /\ Shutdown(s)
  /\ conn' = [conn EXCEPT ![s] = None]
  /\ closing' = closing \ {s}
  /\ forgetting' = s
  /\ UNCHANGED <<made, registered, stamped, present, swept, revokes, closed,
                 accountVars, handlerVars>>

\* ... and its presence is removed.
CloseForget ==
  /\ forgetting # None
  /\ present' = present \ {forgetting}
  /\ forgetting' = None
  /\ UNCHANGED <<made, registered, conn, stamped, shut, swept, revokes, closing,
                 closed, accountVars, handlerVars>>

\* session.detach of connection c.
UnboundUnstamped(s, c) ==        \* mutant: disconnectedAt is forgotten
  /\ conn' = [conn EXCEPT ![s] = IF @ = c THEN None ELSE @]
  /\ UNCHANGED stamped

Unbound(s, c) ==
  /\ conn' = [conn EXCEPT ![s] = IF @ = c THEN None ELSE @]
  /\ stamped' = [stamped EXCEPT ![s] = @ \/ conn[s] = c]

(* push on a slow consumer. That a RESUME may come between shutdown and    *)
(* detach is in GatewaySession.                                            *)
SlowConsumer(s) ==
  /\ WorkerFree /\ s \in registered /\ conn[s] # None
  /\ Shutdown(s)
  /\ Unbound(s, conn[s])
  /\ UNCHANGED <<made, registered, present, swept, workerVars, accountVars, handlerVars>>

-----------------------------------------------------------------------------
(* The sweeper.                                                            *)

Expired(s) == conn[s] = None /\ stamped[s]

\* Some of the detached sessions are older than the resume window.
Sweep ==
  /\ swept = {}
  /\ \E old \in SUBSET {s \in registered : Expired(s)} :
       /\ old # {}
       /\ registered' = registered \ old
       /\ swept' = old
  /\ UNCHANGED <<made, conn, stamped, present, shut, workerVars, accountVars, handlerVars>>

SweepForget(s) ==
  /\ s \in swept
  /\ present' = present \ {s}
  /\ swept' = swept \ {s}
  /\ UNCHANGED <<made, registered, conn, stamped, shut, workerVars, accountVars, handlerVars>>

-----------------------------------------------------------------------------
(* The handler of connection c.                                            *)

Goto(c, phase) == pc' = [pc EXCEPT ![c] = phase]

(* Authenticate accepts an access token that has not expired and whose     *)
(* user exists. It does not look at disabled_at.                           *)
Authenticate(c) ==
  /\ pc[c] = "new"
  /\ Goto(c, "authed")
  /\ UNCHANGED <<made, registered, conn, stamped, present, shut, swept, sess,
                 replaced, workerVars, accountVars>>

\* identify: the new session is bound and registered.
Identify(c) ==
  /\ pc[c] = "authed"
  /\ \E s \in Sessions \ made :
       /\ made' = made \cup {s}
       /\ registered' = registered \cup {s}
       /\ conn' = [conn EXCEPT ![s] = c]
       /\ sess' = [sess EXCEPT ![c] = s]
  /\ Goto(c, "connect")
  /\ UNCHANGED <<stamped, present, shut, swept, replaced, workerVars, accountVars>>

\* A handshake that fails before the connection is bound to a session.
Refuse(c) ==
  /\ Goto(c, "gone")
  /\ shut' = [shut EXCEPT ![c] = TRUE]
  /\ UNCHANGED <<made, registered, conn, stamped, present, swept, replaced,
                 workerVars, accountVars>>

\* resume: the session is looked up ...
FindSession(c) ==
  /\ pc[c] = "authed"
  /\ \E s \in made :
       \/ /\ s \in registered
          /\ Goto(c, "found")
          /\ sess' = [sess EXCEPT ![c] = s]
          /\ UNCHANGED <<made, registered, conn, stamped, present, shut, swept,
                         replaced, workerVars, accountVars>>
       \/ s \notin registered /\ Refuse(c) /\ UNCHANGED sess

StampCleared(s) == stamped' = [stamped EXCEPT ![s] = FALSE]

\* ... resumeAttach binds the connection, unless it cannot replay the gap ...
ResumeAttach(c) ==
  /\ pc[c] = "found"
  /\ \/ /\ replaced' = [replaced EXCEPT ![c] = conn[sess[c]]]
        /\ conn' = [conn EXCEPT ![sess[c]] = c]
        /\ StampCleared(sess[c])
        /\ Goto(c, "attached")
        /\ UNCHANGED <<made, registered, present, shut, swept, sess, workerVars, accountVars>>
     \/ Refuse(c) /\ UNCHANGED sess

\* ... and the session is registered, again if it was swept meanwhile.
NotReregistered(s) == UNCHANGED registered   \* mutant: the lookup is trusted
Reregistered(s) == registered' = registered \cup {s}

ResumeRegister(c) ==
  /\ pc[c] = "attached"
  /\ Reregistered(sess[c])
  /\ Goto(c, "connect")
  /\ UNCHANGED <<made, conn, stamped, present, shut, swept, sess, replaced,
                 workerVars, accountVars>>

\* presence.Connect, and the connection a RESUME replaced is shut.
Ousted(c) == shut' = [d \in Conns |-> shut[d] \/ d = replaced[c]]

Connect(c) ==
  /\ pc[c] = "connect"
  /\ present' = present \cup {sess[c]}
  /\ Ousted(c)
  /\ replaced' = [replaced EXCEPT ![c] = None]
  /\ Goto(c, "greet")
  /\ UNCHANGED <<made, registered, conn, stamped, swept, sess, workerVars, accountVars>>

\* READY, or the replay and RESUMED, are written.
Greet(c) ==
  /\ pc[c] = "greet" /\ ~shut[c]
  /\ Goto(c, "live")
  /\ UNCHANGED <<made, registered, conn, stamped, present, shut, swept, sess,
                 replaced, workerVars, accountVars>>

\* readLoop read a PRESENCE_UPDATE frame ...
ReadStatus(c) ==
  /\ pc[c] = "live" /\ ~shut[c]
  /\ Goto(c, "status")
  /\ UNCHANGED <<made, registered, conn, stamped, present, shut, swept, sess,
                 replaced, workerVars, accountVars>>

\* ... and SetStatusFull enters the session's status, known there or not.
SetStatus(c) ==
  /\ pc[c] = "status"
  /\ present' = present \cup {sess[c]}
  /\ Goto(c, "live")
  /\ UNCHANGED <<made, registered, conn, stamped, shut, swept, sess, replaced,
                 workerVars, accountVars>>

\* A write of the handshake fails, or readLoop ends: shutdown ...
Leave(c) ==
  /\ pc[c] \in {"greet", "live"}
  /\ shut' = [shut EXCEPT ![c] = TRUE]
  /\ Goto(c, "leave")
  /\ UNCHANGED <<made, registered, conn, stamped, present, swept, sess, replaced,
                 workerVars, accountVars>>

\* ... and detach.
Detach(c) ==
  /\ pc[c] = "leave"
  /\ Unbound(sess[c], c)
  /\ Goto(c, "gone")
  /\ UNCHANGED <<made, registered, present, shut, swept, sess, replaced,
                 workerVars, accountVars>>

-----------------------------------------------------------------------------
Worker == CloseUserSessions \/ CloseForget \/ \E s \in Sessions : CloseConn(s)

Handshake(c) ==
  \/ Identify(c) \/ FindSession(c) \/ ResumeAttach(c) \/ ResumeRegister(c)
  \/ Connect(c) \/ Greet(c)

Handler(c) == Handshake(c) \/ SetStatus(c) \/ Detach(c)

Next ==
  \/ Revoke \/ Worker \/ Sweep
  \/ \E s \in Sessions : SlowConsumer(s) \/ SweepForget(s)
  \/ \E c \in Conns : Authenticate(c) \/ Handler(c) \/ ReadStatus(c) \/ Leave(c)

Spec == Init /\ [][Next]_vars

(* Goroutines are scheduled; a connection that was shut ends its reads and *)
(* writes; and a session that stays detached gets older than the window.   *)
Fairness ==
  /\ WF_vars(Worker)
  /\ \A s \in Sessions :
       /\ WF_vars(SweepForget(s))
       /\ SF_vars(Sweep /\ s \in swept')
  /\ \A c \in Conns : WF_vars(Handler(c)) /\ WF_vars(shut[c] /\ Leave(c))

FairSpec == Spec /\ Fairness

-----------------------------------------------------------------------------
(* Types; and disconnectedAt is set only on a session without connection,  *)
(* so that the resume window always counts from the last disconnection.    *)
TypeOK ==
  /\ \A s \in Sessions : stamped[s] => conn[s] = None
  /\ made \subseteq Sessions /\ registered \subseteq made
  /\ conn \in [Sessions -> Conns \cup {None}]
  /\ stamped \in [Sessions -> BOOLEAN]
  /\ present \subseteq made
  /\ disabled \in BOOLEAN /\ published \in 0 .. MaxRevokes /\ revokes \in 0 .. published
  /\ closing \subseteq made /\ forgetting \in made \cup {None}
  /\ closed \subseteq made /\ swept \subseteq made
  /\ pc \in [Conns -> Phases]
  /\ sess \in [Conns -> made \cup {None}]
  /\ replaced \in [Conns -> Conns \cup {None}]
  /\ shut \in [Conns -> BOOLEAN]

(* No connection is a zombie: while a handler serves an open connection,   *)
(* its session is bound to it and gets events (it is registered, or the    *)
(* revoke that took it out is about to shut the connection), unless a      *)
(* RESUME has taken the session over and is about to shut the connection.  *)
Serving == {"greet", "live", "status"}

NoZombie ==
  \A c \in Conns :
    pc[c] \in Serving /\ ~shut[c] =>
      \/ conn[sess[c]] = c /\ sess[c] \in registered \cup closing
      \/ \E d \in Conns : replaced[d] = c

(* A connection that carried the user when a revoke was handled is closed  *)
(* in the end, be it by the revoke, by a RESUME that takes the session     *)
(* over while it runs, or by its own handler.                              *)
RevokeCloses ==
  \A c \in Conns, s \in Sessions : (s \in closing /\ conn[s] = c) ~> shut[c]

(* hub.go: a session is kept for the resume window once its connection is  *)
(* gone, then removed by sweepLoop. This holds of the sessions no revoke   *)
(* has touched.                                                            *)
DetachedIsSwept ==
  \A s \in Sessions :
    (s \in registered /\ conn[s] = None)
      ~> (s \notin registered \/ conn[s] # None \/ s \in closed)

(* What is taken out of use is cleaned up: connections by the revoke,      *)
(* sessions by the sweeper.                                                *)
CleanedUp == RevokeCloses /\ DetachedIsSwept

(* hub.go says the same of every session. A RESUME that found its session  *)
(* just before the revoke can leave it registered, unbound and with a zero *)
(* disconnectedAt, which the sweeper never takes for expired.              *)
EveryDetachedIsSwept ==
  \A s \in Sessions :
    (s \in registered /\ conn[s] = None) ~> (s \notin registered \/ conn[s] # None)

(* hub.go: closeUserSessions removes the session from the registry so that *)
(* it cannot be resumed.                                                   *)
RevokedStaysOut == closed \cap registered = {}

(* hub.go: after a revoke the client must IDENTIFY again, and              *)
(* authentication then fails of itself.                                    *)
DisabledIsRefused ==
  [][\A c \in Conns : pc[c] = "new" /\ pc'[c] = "authed" => ~disabled]_vars

(* hub.go: the life of a session is the life of its presence connection.   *)
(* The client of a connection being served is counted ...                  *)
LiveIsPresent ==
  \A c \in Conns :
    pc[c] = "live" /\ ~shut[c] /\ conn[sess[c]] = c /\ sess[c] \notin closed =>
      sess[c] \in present

(* ... and, once every goroutine is through, a revoked session is not.     *)
RevokedIsAbsent ==
  (\A c \in Conns : pc[c] \in {"new", "gone"}) /\ WorkerFree =>
    present \cap closed \subseteq registered

-----------------------------------------------------------------------------
(* Proofs, for any connections, sessions and revokes: types, and that no   *)
(* connection is a zombie.                                                 *)
(*                                                                         *)
(* NoZombie speaks of connections that are served. The invariant follows a *)
(* connection from the moment it is attached: until it is shut, its        *)
(* session is bound to it or a RESUME that took the session over owes the  *)
(* shutdown; and from its registration on, a bound session is registered   *)
(* or about to be closed. A handler that has not attached owes nothing,    *)
(* so that the debt it takes on does not overwrite another.                *)

USE HubAssumption

HasSession == Phases \ {"new", "authed", "gone"}
Attached   == {"attached", "connect", "greet", "live", "status"}
Registered == Attached \ {"attached"}

Known ==
  /\ \A c \in Conns : pc[c] \in HasSession => sess[c] \in made
  /\ \A s \in Sessions \ made : conn[s] = None /\ ~stamped[s]

Ousting(c) == \E d \in Conns : replaced[d] = c

BoundOrOusted ==
  \A c \in Conns : pc[c] \in Attached /\ ~shut[c] => conn[sess[c]] = c \/ Ousting(c)

BoundIsRegistered ==
  \A c \in Conns :
    pc[c] \in Registered /\ ~shut[c] /\ conn[sess[c]] = c => sess[c] \in registered \cup closing

OwesNothing == \A c \in Conns : pc[c] \in {"new", "authed", "found"} => replaced[c] = None

Typed == TypeOK /\ Known
Bound == BoundOrOusted /\ BoundIsRegistered /\ OwesNothing

LEMMA TypedInit == Init => Typed
<1> SUFFICES ASSUME Init PROVE Typed
  OBVIOUS
<1> USE DEF Init
<1>1. \A s \in Sessions : conn[s] = None /\ ~stamped[s]
  OBVIOUS
<1>2. conn \in [Sessions -> Conns \cup {None}] /\ stamped \in [Sessions -> BOOLEAN]
  BY Zenon
<1>3. pc \in [Conns -> Phases] /\ shut \in [Conns -> BOOLEAN]
  BY Zenon DEF Phases
<1>4. sess \in [Conns -> made \cup {None}] /\ replaced \in [Conns -> Conns \cup {None}]
  BY Zenon
<1>5. published \in 0 .. MaxRevokes /\ revokes \in 0 .. published
  OBVIOUS
<1>6. TypeOK
  BY <1>1, <1>2, <1>3, <1>4, <1>5 DEF TypeOK
<1>7. Known
  BY <1>1 DEF Known, HasSession
<1>8. QED
  BY <1>6, <1>7 DEF Typed

LEMMA TypedNext == Typed /\ [Next]_vars => Typed'
<1> SUFFICES ASSUME Typed, [Next]_vars PROVE Typed'
  OBVIOUS
<1> USE DEF Typed, TypeOK, Known, Phases, HasSession, Goto
<1>1. CASE Revoke
  <2>1. disabled' \in BOOLEAN
    BY <1>1, Zenon DEF Revoke
  <2>2. published' \in 0 .. MaxRevokes /\ revokes' \in 0 .. published'
    BY <1>1 DEF Revoke
  <2>3. QED
    BY <1>1, <2>1, <2>2 DEF Revoke, handlerVars
<1>2. CASE CloseUserSessions
  BY <1>2 DEF CloseUserSessions, handlerVars, accountVars
<1>3. CASE CloseForget
  BY <1>3 DEF CloseForget, handlerVars, accountVars
<1>4. ASSUME NEW s \in Sessions, CloseConn(s) PROVE Typed'
  BY <1>4 DEF CloseConn, Shutdown, handlerVars, accountVars
<1>5. CASE Sweep
  BY <1>5 DEF Sweep, Expired, handlerVars, accountVars, workerVars
<1>6. ASSUME NEW s \in Sessions, SlowConsumer(s) PROVE Typed'
  BY <1>6 DEF SlowConsumer, Shutdown, Unbound, handlerVars, accountVars, workerVars
<1>7. ASSUME NEW s \in Sessions, SweepForget(s) PROVE Typed'
  BY <1>7 DEF SweepForget, handlerVars, accountVars, workerVars
<1>8. ASSUME NEW c \in Conns, Authenticate(c) PROVE Typed'
  BY <1>8 DEF Authenticate, accountVars, workerVars
<1>9. ASSUME NEW c \in Conns, Identify(c) PROVE Typed'
  BY <1>9 DEF Identify, accountVars, workerVars
<1>10. ASSUME NEW c \in Conns, FindSession(c) PROVE Typed'
  <2>1. CASE pc'[c] = "found"
    BY <1>10, <2>1 DEF FindSession, Refuse, accountVars, workerVars
  <2>2. CASE Refuse(c) /\ UNCHANGED sess
    BY <2>2 DEF Refuse, accountVars, workerVars
  <2>3. QED
    BY <1>10, <2>1, <2>2 DEF FindSession
<1>11. ASSUME NEW c \in Conns, ResumeAttach(c) PROVE Typed'
  <2> DEFINE s == sess[c]
  <2>0. pc[c] = "found" /\ s \in made /\ s \in Sessions
    BY <1>11 DEF ResumeAttach
  <2>1. ASSUME /\ replaced' = [replaced EXCEPT ![c] = conn[s]]
               /\ conn' = [conn EXCEPT ![s] = c]
               /\ StampCleared(s) /\ Goto(c, "attached")
               /\ UNCHANGED <<made, registered, present, shut, swept, sess, workerVars, accountVars>>
        PROVE  Typed'
    <3>1. UNCHANGED <<made, registered, present, shut, swept, sess, revokes, closing,
                      forgetting, closed, disabled, published>>
      BY <2>1 DEF workerVars, accountVars
    <3>2. stamped' = [stamped EXCEPT ![s] = FALSE] /\ pc' = [pc EXCEPT ![c] = "attached"]
      BY <2>1 DEF StampCleared
    <3>3. stamped' \in [Sessions -> BOOLEAN]
      BY <3>2, <2>0, Zenon
    <3>4. \A x \in Sessions : stamped'[x] => conn'[x] = None
      BY <3>2, <2>0, <2>1
    <3>5. TypeOK'
      BY <3>1, <3>2, <3>3, <3>4, <2>0, <2>1
    <3>6. Known'
      BY <3>1, <3>2, <2>0, <2>1
    <3>7. QED
      BY <3>5, <3>6
  <2>2. CASE Refuse(c) /\ UNCHANGED sess
    BY <2>2 DEF Refuse, accountVars, workerVars
  <2>3. QED
    BY <1>11, <2>1, <2>2, Zenon DEF ResumeAttach
<1>12. ASSUME NEW c \in Conns, ResumeRegister(c) PROVE Typed'
  BY <1>12 DEF ResumeRegister, Reregistered, accountVars, workerVars
<1>13. ASSUME NEW c \in Conns, Connect(c) PROVE Typed'
  BY <1>13 DEF Connect, Ousted, accountVars, workerVars
<1>14. ASSUME NEW c \in Conns, Greet(c) PROVE Typed'
  BY <1>14 DEF Greet, accountVars, workerVars
<1>15. ASSUME NEW c \in Conns, SetStatus(c) PROVE Typed'
  BY <1>15 DEF SetStatus, accountVars, workerVars
<1>16. ASSUME NEW c \in Conns, Detach(c) PROVE Typed'
  BY <1>16 DEF Detach, Unbound, accountVars, workerVars
<1>17. ASSUME NEW c \in Conns, ReadStatus(c) PROVE Typed'
  BY <1>17 DEF ReadStatus, accountVars, workerVars
<1>18. ASSUME NEW c \in Conns, Leave(c) PROVE Typed'
  BY <1>18 DEF Leave, accountVars, workerVars
<1>19. CASE UNCHANGED vars
  BY <1>19 DEF vars, accountVars, workerVars, handlerVars
<1>20. QED
  BY <1>1, <1>2, <1>3, <1>4, <1>5, <1>6, <1>7, <1>8, <1>9, <1>10, <1>11, <1>12, <1>13,
     <1>14, <1>15, <1>16, <1>17, <1>18, <1>19 DEF Next, Worker, Handler, Handshake

LEMMA TypedAlways == Spec => []Typed
BY TypedInit, TypedNext, PTL DEF Spec

(* Every variable keeps its type, and a session that has a connection is   *)
(* not marked as disconnected.                                             *)
THEOREM TypeCorrect == Spec => []TypeOK
BY TypedAlways, PTL DEF Typed

-----------------------------------------------------------------------------
(* Zombies.                                                                *)

LEMMA BoundInit == Init => Bound
BY DEF Init, Bound, BoundOrOusted, BoundIsRegistered, OwesNothing, Attached, Registered

(* A step of someone else who may cut bindings, but shuts what it cuts.    *)
LEMMA CutKeeps ==
  ASSUME Typed, Bound, UNCHANGED <<pc, sess, replaced>>,
         conn' \in [Sessions -> Conns \cup {None}],
         \A c \in Conns : shut[c] => shut'[c],
         \A c \in Conns, s \in Sessions :
           conn[s] = c /\ ~shut'[c] =>
             conn'[s] = c /\ (s \in registered \cup closing => s \in registered' \cup closing'),
         \A c \in Conns, s \in Sessions : conn'[s] = c => conn[s] = c
  PROVE  Bound'
<1> USE DEF Typed, TypeOK, Known, Phases, HasSession, Attached, Registered
<1>1. \A c \in Conns : pc[c] \in Attached => sess[c] \in Sessions
  OBVIOUS
<1>2. BoundOrOusted'
  BY <1>1 DEF Bound, BoundOrOusted, Ousting
<1>3. BoundIsRegistered'
  BY <1>1 DEF Bound, BoundIsRegistered
<1>4. OwesNothing'
  BY DEF Bound, OwesNothing
<1>5. QED
  BY <1>2, <1>3, <1>4 DEF Bound

(* A step of the handler of c that touches neither bindings nor debts.     *)
LEMMA HandlerKeeps ==
  ASSUME Typed, Bound, NEW c \in Conns,
         UNCHANGED <<registered, closing, conn, replaced>>,
         \A d \in Conns \ {c} : pc'[d] = pc[d] /\ sess'[d] = sess[d] /\ shut'[d] = shut[d],
         \/ pc'[c] \notin Attached
         \/ /\ pc[c] \in Registered /\ pc'[c] \in Registered
            /\ sess'[c] = sess[c] /\ (shut[c] => shut'[c]),
         pc'[c] \in {"new", "authed", "found"} => pc[c] \in {"new", "authed", "found"}
  PROVE  Bound'
<1>1. BoundOrOusted'
  BY DEF Bound, BoundOrOusted, Ousting, Attached, Registered
<1>2. BoundIsRegistered'
  BY DEF Bound, BoundIsRegistered, Attached, Registered
<1>3. OwesNothing'
  BY DEF Bound, OwesNothing
<1>4. QED
  BY <1>1, <1>2, <1>3 DEF Bound

LEMMA BoundNext == Typed /\ Bound /\ [Next]_vars => Bound'
<1> SUFFICES ASSUME Typed, Bound, [Next]_vars PROVE Bound'
  OBVIOUS
<1> USE DEF Typed, TypeOK, Known, Phases, HasSession, Goto
<1>0. Typed'
  BY TypedNext
<1>1. CASE Revoke
  BY <1>1, CutKeeps DEF Revoke, handlerVars
<1>2. CASE CloseUserSessions
  BY <1>2, <1>0, CutKeeps DEF CloseUserSessions, WorkerFree, handlerVars, accountVars
<1>3. CASE CloseForget
  BY <1>3, CutKeeps DEF CloseForget, handlerVars, accountVars
<1>4. ASSUME NEW s \in Sessions, CloseConn(s) PROVE Bound'
  BY <1>4, <1>0, CutKeeps DEF CloseConn, Shutdown, handlerVars, accountVars
<1>5. CASE Sweep
  BY <1>5, CutKeeps DEF Sweep, Expired, handlerVars, accountVars, workerVars
<1>6. ASSUME NEW s \in Sessions, SlowConsumer(s) PROVE Bound'
  <2>1. conn' = [conn EXCEPT ![s] = None] /\ shut' = [c \in Conns |-> shut[c] \/ c = conn[s]]
    BY <1>6 DEF SlowConsumer, Shutdown, Unbound
  <2>2. UNCHANGED <<pc, sess, replaced, registered, closing>>
    BY <1>6 DEF SlowConsumer, handlerVars, workerVars
  <2>3. \A c \in Conns, t \in Sessions : conn[t] = c /\ ~shut'[c] => conn'[t] = c
    BY <2>1
  <2>4. \A c \in Conns, t \in Sessions : conn'[t] = c => conn[t] = c
    BY <2>1
  <2>5. QED
    BY <1>0, <2>1, <2>2, <2>3, <2>4, CutKeeps
<1>7. ASSUME NEW s \in Sessions, SweepForget(s) PROVE Bound'
  BY <1>7, CutKeeps DEF SweepForget, handlerVars, accountVars, workerVars
<1>8. ASSUME NEW c \in Conns, Authenticate(c) PROVE Bound'
  BY <1>8, HandlerKeeps DEF Authenticate, accountVars, workerVars, Attached
<1>9. ASSUME NEW c \in Conns, Identify(c) PROVE Bound'
  BY <1>9 DEF Identify, accountVars, workerVars, Bound, BoundOrOusted, BoundIsRegistered,
              OwesNothing, Ousting, Attached, Registered
<1>10. ASSUME NEW c \in Conns, FindSession(c) PROVE Bound'
  BY <1>10, HandlerKeeps DEF FindSession, Refuse, accountVars, workerVars, Attached
<1>11. ASSUME NEW c \in Conns, ResumeAttach(c) PROVE Bound'
  <2> DEFINE s == sess[c]
  <2>0. pc[c] = "found" /\ s \in Sessions
    BY <1>11 DEF ResumeAttach
  <2>1. ASSUME /\ replaced' = [replaced EXCEPT ![c] = conn[s]]
               /\ conn' = [conn EXCEPT ![s] = c]
               /\ Goto(c, "attached")
               /\ UNCHANGED <<made, registered, present, shut, swept, sess, workerVars, accountVars>>
        PROVE  Bound'
    <3>1. UNCHANGED <<registered, closing, shut, sess>>
      BY <2>1 DEF workerVars
    <3>2. replaced[c] = None
      BY <2>0 DEF Bound, OwesNothing
    <3>3. \A d \in Conns : Ousting(d) => Ousting(d)'
      BY <2>1, <3>2 DEF Ousting
    <3>4. \A d \in Conns : conn[s] = d => Ousting(d)'
      BY <2>1 DEF Ousting
    <3>5. BoundOrOusted'
      BY <2>0, <2>1, <3>1, <3>3, <3>4 DEF Bound, BoundOrOusted, Attached
    <3>6. BoundIsRegistered'
      BY <2>0, <2>1, <3>1 DEF Bound, BoundIsRegistered, Registered, Attached
    <3>7. OwesNothing'
      BY <2>0, <2>1 DEF Bound, OwesNothing
    <3>8. QED
      BY <3>5, <3>6, <3>7 DEF Bound
  <2>2. CASE Refuse(c) /\ UNCHANGED sess
    BY <2>2, <2>0, HandlerKeeps DEF Refuse, accountVars, workerVars, Attached
  <2>3. QED
    BY <1>11, <2>1, <2>2, Zenon DEF ResumeAttach
<1>12. ASSUME NEW c \in Conns, ResumeRegister(c) PROVE Bound'
  BY <1>12 DEF ResumeRegister, Reregistered, accountVars, workerVars, Bound, BoundOrOusted,
               BoundIsRegistered, OwesNothing, Ousting, Attached, Registered
<1>13. ASSUME NEW c \in Conns, Connect(c) PROVE Bound'
  BY <1>13 DEF Connect, Ousted, accountVars, workerVars, Bound, BoundOrOusted,
               BoundIsRegistered, OwesNothing, Ousting, Attached, Registered
<1>14. ASSUME NEW c \in Conns, Greet(c) PROVE Bound'
  BY <1>14, HandlerKeeps DEF Greet, accountVars, workerVars, Attached, Registered
<1>15. ASSUME NEW c \in Conns, SetStatus(c) PROVE Bound'
  BY <1>15, HandlerKeeps DEF SetStatus, accountVars, workerVars, Attached, Registered
<1>16. ASSUME NEW c \in Conns, Detach(c) PROVE Bound'
  BY <1>16 DEF Detach, Unbound, accountVars, workerVars, Bound, BoundOrOusted,
               BoundIsRegistered, OwesNothing, Ousting, Attached, Registered
<1>17. ASSUME NEW c \in Conns, ReadStatus(c) PROVE Bound'
  BY <1>17, HandlerKeeps DEF ReadStatus, accountVars, workerVars, Attached, Registered
<1>18. ASSUME NEW c \in Conns, Leave(c) PROVE Bound'
  BY <1>18, HandlerKeeps DEF Leave, accountVars, workerVars, Attached, Registered
<1>19. CASE UNCHANGED vars
  BY <1>19, CutKeeps DEF vars, accountVars, workerVars, handlerVars
<1>20. QED
  BY <1>1, <1>2, <1>3, <1>4, <1>5, <1>6, <1>7, <1>8, <1>9, <1>10, <1>11, <1>12, <1>13,
     <1>14, <1>15, <1>16, <1>17, <1>18, <1>19 DEF Next, Worker, Handler, Handshake

LEMMA BoundServes == Bound => NoZombie
BY DEF Bound, BoundOrOusted, BoundIsRegistered, Ousting, NoZombie, Serving, Attached, Registered

(* Whatever revokes, sweeps, slow consumers and RESUMEs do at the same     *)
(* time, a connection that is served is bound to a session that gets       *)
(* events, or is about to be shut.                                         *)
THEOREM NoZombies == Spec => []NoZombie
BY TypedInit, TypedNext, BoundInit, BoundNext, BoundServes, PTL DEF Spec
=============================================================================
