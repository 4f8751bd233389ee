------------------------ MODULE GatewaySessionProofs ------------------------
(***************************************************************************)
(* Proofs about GatewaySession for any set of connections and any          *)
(* capacities: types, the inductive invariant of the pipeline from buffer  *)
(* to client, and that the session implements SessionStream.               *)
(***************************************************************************)
EXTENDS GatewaySession, SequenceTheorems, TLAPS

USE SessionAssumption

(* What is kept of a buffer when its oldest records are dropped.           *)
LEMMA PrunedType ==
  ASSUME NEW b \in Seq(Nat), b # <<>>, NEW f \in Pruned(b)
  PROVE  /\ f \in Seq(Nat)
         /\ Len(f) \in 1 .. Len(b) /\ Len(f) <= ReplayBufferSize
         /\ \A i \in 1 .. Len(f) : f[i] = b[Len(b) - Len(f) + i]
<1>1. Len(b) \in Nat \ {0} /\ \A i \in 1 .. Len(b) : b[i] \in Nat
  BY EmptySeq, ElementOfSeq
<1>2. PICK d \in 0 .. Len(b) - 1 :
        /\ Len(b) - d <= ReplayBufferSize
        /\ f = SubSeq(b, d + 1, Len(b))
  BY <1>1 DEF Pruned
<1>3. /\ f \in Seq(Nat)
      /\ Len(f) = Len(b) - d
      /\ \A i \in 1 .. Len(b) - d : f[i] = b[d + i]
  <2>1. \A i \in d + 1 .. Len(b) : b[i] \in Nat
    BY <1>1, <1>2
  <2> QED BY <1>1, <1>2, <2>1, SubSeqProperties
<1> QED BY <1>1, <1>2, <1>3

(* A queue whose head is taken.                                            *)
LEMMA TakeHead ==
  ASSUME NEW s \in Seq(Nat), s # <<>>
  PROVE  /\ Head(s) \in Nat /\ Head(s) = s[1]
         /\ Tail(s) \in Seq(Nat) /\ Len(s) \in Nat \ {0} /\ Len(Tail(s)) = Len(s) - 1
         /\ \A i \in 1 .. Len(s) - 1 : Tail(s)[i] = s[i + 1]
BY HeadTailProperties, EmptySeq

(* A queue to which a number is appended.                                  *)
LEMMA PutLast ==
  ASSUME NEW s \in Seq(Nat), NEW n \in Nat
  PROVE  /\ Append(s, n) \in Seq(Nat) /\ Append(s, n) # <<>>
         /\ Len(s) \in Nat /\ Len(Append(s, n)) = Len(s) + 1
         /\ \A i \in 1 .. Len(s) : Append(s, n)[i] = s[i]
         /\ Append(s, n)[Len(s) + 1] = n
BY AppendProperties, LenProperties

(* The part of a buffer that is sent again.                                *)
LEMMA SuffixType ==
  ASSUME NEW b \in Seq(Nat), NEW k \in 1 .. Len(b) + 1
  PROVE  LET f == SubSeq(b, k, Len(b)) IN
         /\ f \in Seq(Nat) /\ Len(f) = Len(b) - k + 1
         /\ \A i \in 1 .. Len(f) : f[i] = b[k + i - 1]
<1>1. Len(b) \in Nat /\ \A i \in k .. Len(b) : b[i] \in Nat
  BY EmptySeq, ElementOfSeq, LenProperties
<1>2. DEFINE n == Len(b)
<1>3. /\ SubSeq(b, k, n) \in Seq(Nat)
      /\ Len(SubSeq(b, k, n)) = IF k <= n THEN n - k + 1 ELSE 0
      /\ \A i \in 1 .. n - k + 1 : SubSeq(b, k, n)[i] = b[k + i - 1]
  BY <1>1, SubSeqProperties
<1> QED BY <1>1, <1>3

(* A sequence that follows on from n, extended or shortened by one.        *)
LEMMA FollowsPut ==
  ASSUME NEW s \in Seq(Nat), NEW n \in Nat, NEW e \in Nat, Follows(s, n), e = n + Len(s) + 1
  PROVE  Follows(Append(s, e), n) /\ Len(Append(s, e)) = Len(s) + 1
<1>1. /\ Len(s) \in Nat /\ Len(Append(s, e)) = Len(s) + 1
      /\ \A i \in 1 .. Len(s) : Append(s, e)[i] = s[i]
      /\ Append(s, e)[Len(s) + 1] = e
  BY PutLast
<1>2. ASSUME NEW i \in 1 .. Len(s) + 1 PROVE Append(s, e)[i] = n + i
  <2>1. CASE i = Len(s) + 1
    BY <1>1, <2>1
  <2>2. CASE i \in 1 .. Len(s)
    BY <1>1, <2>2 DEF Follows
  <2> QED BY <1>1, <1>2, <2>1, <2>2
<1> QED BY <1>1, <1>2 DEF Follows

LEMMA FollowsTake ==
  ASSUME NEW s \in Seq(Nat), s # <<>>, NEW n \in Nat, Follows(s, n)
  PROVE  /\ Head(s) = n + 1 /\ Follows(Tail(s), n + 1)
         /\ Len(s) \in Nat \ {0} /\ Len(Tail(s)) = Len(s) - 1
<1>1. /\ Head(s) = s[1] /\ Len(s) \in Nat \ {0} /\ Len(Tail(s)) = Len(s) - 1
      /\ \A i \in 1 .. Len(s) - 1 : Tail(s)[i] = s[i + 1]
  BY TakeHead
<1>2. ASSUME NEW i \in 1 .. Len(s) - 1 PROVE Tail(s)[i] = (n + 1) + i
  <2>1. i + 1 \in 1 .. Len(s) /\ Tail(s)[i] = s[i + 1]
    BY <1>1
  <2>2. s[i + 1] = n + (i + 1)
    BY <2>1 DEF Follows
  <2> QED BY <2>1, <2>2
<1> QED BY <1>1, <1>2 DEF Follows

LEMMA FollowsEmpty ==
  ASSUME NEW n PROVE Follows(<<>>, n)
BY EmptySeq DEF Follows

(* A frame numbered, or moved from one stage of the pipeline to the next.  *)
LEMMA SumType ==
  ASSUME NEW l \in Nat, NEW w \in Nat, NEW r \in Nat
  PROVE  l + w \in Nat /\ l + w + r \in Nat
OBVIOUS

LEMMA SumBelow ==
  ASSUME NEW l \in Nat, NEW w \in Nat, NEW r \in Nat, NEW q \in Nat, NEW n \in Nat,
         l + w + r + q <= n
  PROVE  l + w + r + q <= n + 1
OBVIOUS

LEMMA FrameTaken ==
  ASSUME NEW l \in Nat, NEW w \in Nat, w # 0
  PROVE  (l + 1) + (w - 1) = l + w
OBVIOUS

LEMMA ZeroAdded ==
  ASSUME NEW l \in Nat
  PROVE  l + 0 = l
OBVIOUS

USE DEF Phases, Waiting, Pumping
-----------------------------------------------------------------------------
(* Types and capacities.                                                   *)

LEMMA InitTypeOK == Init => TypeOK
<1> SUFFICES ASSUME Init PROVE TypeOK
  OBVIOUS
<1>1. /\ registered \in BOOLEAN /\ missed \in BOOLEAN /\ lost \in BOOLEAN
      /\ done \in [Conns -> BOOLEAN] /\ open \in [Conns -> BOOLEAN]
  BY Zenon DEF Init
<1>2. <<>> \in Seq(Nat) /\ Len(<<>>) = 0
  BY EmptySeq
<1>3. Types
  BY <1>1, <1>2 DEF Init, Types
<1>4. ASSUME NEW c \in Conns PROVE Len(queue[c]) + acks[c] <= SendBuffer
  <2>1. queue[c] = <<>> /\ acks[c] = 0
    BY DEF Init
  <2>2. Len(queue[c]) = 0
    BY <1>2, <2>1
  <2> QED BY <2>1, <2>2
<1>5. Len(buffer) <= ReplayBufferSize
  BY <1>2 DEF Init
<1> QED BY <1>3, <1>4, <1>5 DEF TypeOK, WithinCapacity

LEMMA NextTypes == Types /\ [Next]_vars => Types'
<1> SUFFICES ASSUME Types, [Next]_vars PROVE Types'
  OBVIOUS
<1> USE DEF serverVars, connVars, clientVars
<1>1. CASE Dispatch
  <2>1. seq + 1 \in Nat /\ seq' \in 0 .. MaxSeq
    BY <1>1 DEF Dispatch, Types
  <2>2. buffer' \in Seq(Nat)
    <3>1. Append(buffer, seq + 1) \in Seq(Nat) /\ Append(buffer, seq + 1) # <<>>
      BY <2>1, PutLast DEF Types
    <3>2. buffer' \in Pruned(Append(buffer, seq + 1))
      BY <1>1 DEF Dispatch
    <3> QED BY <3>1, <3>2, PrunedType
  <2>3. slow' \in Conns \cup {None}
    BY <1>1 DEF Dispatch, Overflow, Types
  <2>4. queue' \in [Conns -> Seq(Nat)]
    <3>1. CASE bound \in Conns /\ queue' = [queue EXCEPT ![bound] = Append(@, seq + 1)]
      <4>1. Append(queue[bound], seq + 1) \in Seq(Nat)
        BY <2>1, <3>1, PutLast DEF Types
      <4> QED BY <3>1, <4>1 DEF Types
    <3>2. CASE queue' = queue
      BY <3>2 DEF Types
    <3> QED BY <1>1, <3>1, <3>2 DEF Dispatch, Types
  <2> QED BY <1>1, <2>1, <2>2, <2>3, <2>4 DEF Dispatch, Types
<1>2. CASE DispatchUnregistered
  BY <1>2 DEF DispatchUnregistered, Types
<1>3. CASE SlowShutdown
  BY <1>3 DEF SlowShutdown, Types
<1>4. CASE SlowDetach
  BY <1>4 DEF SlowDetach, Unbind, Types
<1>5. CASE Sweep
  BY <1>5 DEF Sweep, Types
<1>6. ASSUME NEW c \in Conns, Lookup(c) PROVE Types'
  <2>1. CASE Invalid(c) \/ (UNCHANGED lost /\ Reject(c))
    <3>1. done' \in [Conns -> BOOLEAN] /\ lost' \in BOOLEAN
      BY <2>1, Zenon DEF Invalid, Reject, Types
    <3>2. pc' = [pc EXCEPT ![c] = "gone"] /\ asked' = [asked EXCEPT ![c] = 0]
      BY <2>1 DEF Invalid, Reject
    <3>3. pc' \in [Conns -> Phases] /\ asked' \in [Conns -> Nat]
      BY <3>2 DEF Types
    <3>4. UNCHANGED <<serverVars, replay, replaced, queue, acks, open, wire, cur, last>>
      BY <2>1 DEF Invalid, Reject
    <3> QED BY <3>1, <3>3, <3>4 DEF Types
  <2>2. CASE pc' = [pc EXCEPT ![c] = "attach"] /\ done' = done /\ UNCHANGED clientVars
    BY <1>6, <2>2 DEF Lookup, Invalid, Reject, Types
  <2> QED BY <1>6, <2>1, <2>2 DEF Lookup
<1>7. ASSUME NEW c \in Conns, Attach(c) PROVE Types'
  <2>1. CASE Gap(asked[c]) /\ Invalid(c)
    <3>1. done' \in [Conns -> BOOLEAN] /\ lost' \in BOOLEAN
      BY <2>1, Zenon DEF Invalid, Reject, Types
    <3>2. pc' = [pc EXCEPT ![c] = "gone"] /\ asked' = [asked EXCEPT ![c] = 0]
      BY <2>1 DEF Invalid, Reject
    <3>3. pc' \in [Conns -> Phases] /\ asked' \in [Conns -> Nat]
      BY <3>2 DEF Types
    <3>4. UNCHANGED <<serverVars, replay, replaced, queue, acks, open, wire, cur, last>>
      BY <2>1 DEF Invalid, Reject
    <3> QED BY <3>1, <3>3, <3>4 DEF Types
  <2>2. CASE ~(Gap(asked[c]) /\ Invalid(c))
    <3>1. PICK k \in 1 .. Len(buffer) + 1 :
            replay' = [replay EXCEPT ![c] = SubSeq(buffer, k, Len(buffer))]
      BY <1>7, <2>2 DEF Attach
    <3>2. SubSeq(buffer, k, Len(buffer)) \in Seq(Nat)
      BY SuffixType DEF Types
    <3>3. replay' \in [Conns -> Seq(Nat)]
      BY <3>1, <3>2 DEF Types
    <3>4. /\ replaced' = [replaced EXCEPT ![c] = bound] /\ bound' = c
          /\ pc' = [pc EXCEPT ![c] = "register"] /\ asked' = [asked EXCEPT ![c] = 0]
      BY <1>7, <2>2 DEF Attach
    <3>5. UNCHANGED <<seq, buffer, registered, missed, slow, clientVars,
                      queue, acks, done, open, wire>>
      BY <1>7, <2>2 DEF Attach
    <3> QED BY <3>3, <3>4, <3>5 DEF Types
  <2> QED BY <2>1, <2>2
<1>8. ASSUME NEW c \in Conns, Register(c) PROVE Types'
  BY <1>8 DEF Register, Types
<1>9. ASSUME NEW c \in Conns, WriteReplay(c) PROVE Types'
  <2>1. wire' \in [Conns -> Seq(Nat)] /\ replay' \in [Conns -> Seq(Nat)]
    BY <1>9, TakeHead, PutLast DEF WriteReplay, Write, Types
  <2> QED BY <1>9, <2>1 DEF WriteReplay, Types
<1>10. ASSUME NEW c \in Conns, GoLive(c) PROVE Types'
  BY <1>10 DEF GoLive, Types
<1>11. ASSUME NEW c \in Conns, Leave(c) PROVE Types'
  BY <1>11 DEF Leave, Types
<1>12. ASSUME NEW c \in Conns, Detach(c) PROVE Types'
  BY <1>12 DEF Detach, Unbind, Types
<1>13. ASSUME NEW c \in Conns, Heartbeat(c) PROVE Types'
  <2>1. done' \in [Conns -> BOOLEAN]
    BY <1>13, Zenon DEF Heartbeat, Types
  <2>2. acks' = acks \/ acks' = [acks EXCEPT ![c] = @ + 1]
    BY <1>13 DEF Heartbeat
  <2>3. pc' = pc \/ pc' = [pc EXCEPT ![c] = "leaving"]
    BY <1>13 DEF Heartbeat
  <2>4. acks' \in [Conns -> Nat]
    <3>1. acks \in [Conns -> Nat]
      BY Zenon DEF Types
    <3> QED BY <2>2, <3>1, SMTT(60)
  <2>5. pc' \in [Conns -> Phases]
    BY <2>3 DEF Types
  <2> QED BY <1>13, <2>1, <2>4, <2>5 DEF Heartbeat, Types
<1>14. ASSUME NEW c \in Conns, Pump(c) PROVE Types'
  <2>1. CASE queue[c] # <<>> /\ Write(c, Head(queue[c])) /\ acks' = acks
             /\ queue' = [queue EXCEPT ![c] = Tail(@)]
    <3>1. Head(queue[c]) \in Nat /\ Tail(queue[c]) \in Seq(Nat)
      BY <2>1, TakeHead DEF Types
    <3>2. queue' \in [Conns -> Seq(Nat)]
      BY <2>1, <3>1 DEF Types
    <3>3. wire' \in [Conns -> Seq(Nat)]
      BY <2>1, <3>1, PutLast DEF Write, Types
    <3> QED BY <1>14, <2>1, <3>2, <3>3 DEF Pump, Types
  <2>2. CASE acks[c] > 0 /\ acks' = [acks EXCEPT ![c] = @ - 1] /\ UNCHANGED <<queue, wire>>
    <3>1. acks \in [Conns -> Nat] /\ acks[c] > 0
      BY <2>2 DEF Types
    <3>2. acks[c] \in Nat /\ acks' = [acks EXCEPT ![c] = acks[c] - 1]
      BY <2>2, <3>1
    <3>3. acks' \in [Conns -> Nat]
      BY <3>1, <3>2
    <3> QED BY <1>14, <2>2, <3>3 DEF Pump, Types
  <2> QED BY <1>14, <2>1, <2>2 DEF Pump
<1>15. ASSUME NEW c \in Conns, PumpFail(c) PROVE Types'
  BY <1>15 DEF PumpFail, Types
<1>16. ASSUME NEW c \in Conns, CloseSocket(c) PROVE Types'
  BY <1>16 DEF CloseSocket, Types
<1>17. ASSUME NEW c \in Conns, Reconnect(c) PROVE Types'
  BY <1>17, EmptySeq DEF Reconnect, Types
<1>18. CASE Receive
  BY <1>18, TakeHead DEF Receive, Types
<1>19. CASE UNCHANGED vars
  BY <1>19 DEF vars, Types
<1> QED BY <1>1, <1>2, <1>3, <1>4, <1>5, <1>6, <1>7, <1>8, <1>9, <1>10, <1>11, <1>12, <1>13, <1>14, <1>15, <1>16, <1>17, <1>18, <1>19 DEF Next, Handler

(* Only Dispatch fills the buffer; it, Heartbeat and Pump move the queues. *)
LEMMA NextCapacity == TypeOK /\ [Next]_vars /\ Types' => WithinCapacity'
<1> SUFFICES ASSUME TypeOK, [Next]_vars, Types' PROVE WithinCapacity'
  OBVIOUS
<1> USE DEF serverVars, connVars, clientVars
<1>1. Len(buffer') <= ReplayBufferSize
  <2>1. CASE Dispatch
    <3>0. buffer \in Seq(Nat) /\ seq + 1 \in Nat
      BY DEF TypeOK, Types
    <3>1. Append(buffer, seq + 1) \in Seq(Nat) /\ Append(buffer, seq + 1) # <<>>
      BY <3>0, PutLast
    <3>2. buffer' \in Pruned(Append(buffer, seq + 1))
      BY <2>1 DEF Dispatch
    <3> QED BY <3>1, <3>2, PrunedType
  <2>2. CASE UNCHANGED buffer
    BY <2>2 DEF TypeOK, WithinCapacity
  <2>3. Dispatch \/ UNCHANGED buffer
    BY DEF Next, vars, DispatchUnregistered, SlowShutdown, SlowDetach, Sweep,
           Handler, Lookup, Invalid, Reject, Attach, Register, WriteReplay, GoLive,
           Leave, Detach, Heartbeat, Pump, PumpFail, CloseSocket, Reconnect, Receive
  <2> QED BY <2>1, <2>2, <2>3
<1>2. ASSUME NEW d \in Conns PROVE Len(queue'[d]) + acks'[d] <= SendBuffer
  <2>1. /\ queue[d] \in Seq(Nat) /\ Len(queue[d]) \in Nat /\ acks[d] \in Nat
        /\ Len(queue[d]) + acks[d] <= SendBuffer
    BY LenProperties DEF TypeOK, Types, WithinCapacity
  <2>2. CASE Dispatch
    <3>1. CASE bound = d /\ HasRoom(d) /\ queue'[d] = Append(queue[d], seq + 1)
      <4>1. Len(queue'[d]) = Len(queue[d]) + 1
        BY <2>1, <3>1, PutLast DEF TypeOK, Types
      <4>2. Len(queue[d]) + acks[d] < SendBuffer /\ acks' = acks
        BY <2>2, <3>1 DEF Dispatch, HasRoom
      <4> QED BY <2>1, <4>1, <4>2
    <3>2. CASE queue'[d] = queue[d]
      BY <2>1, <2>2, <3>2 DEF Dispatch
    <3> QED BY <2>2, <3>1, <3>2 DEF Dispatch, TypeOK, Types
  <2>3. ASSUME NEW c \in Conns, Heartbeat(c) PROVE Len(queue'[d]) + acks'[d] <= SendBuffer
    <3>1. queue' = queue /\ acks \in [Conns -> Nat]
      BY <2>3 DEF Heartbeat, TypeOK, Types
    <3>2. \/ acks'[d] = acks[d]
          \/ acks'[d] = acks[d] + 1 /\ Len(queue[d]) + acks[d] < SendBuffer
      BY <2>3, <3>1 DEF Heartbeat, HasRoom
    <3> QED BY <2>1, <3>1, <3>2
  <2>4. ASSUME NEW c \in Conns, Pump(c) PROVE Len(queue'[d]) + acks'[d] <= SendBuffer
    <3>1. CASE queue'[d] = queue[d] /\ (acks'[d] = acks[d] \/ acks'[d] = acks[d] - 1)
      BY <2>1, <3>1
    <3>2. CASE queue[d] # <<>> /\ queue'[d] = Tail(queue[d]) /\ acks'[d] = acks[d]
      <4>1. Len(queue'[d]) = Len(queue[d]) - 1
        BY <2>1, <3>2, TakeHead
      <4> QED BY <2>1, <3>2, <4>1
    <3> QED BY <2>4, <3>1, <3>2 DEF Pump, TypeOK, Types
  <2>5. CASE UNCHANGED <<queue, acks>>
    <3>1. queue'[d] = queue[d] /\ acks'[d] = acks[d]
      BY <2>5
    <3> QED BY <2>1, <3>1
  <2>6. \/ Dispatch \/ UNCHANGED <<queue, acks>>
        \/ \E c \in Conns : Heartbeat(c) \/ Pump(c)
    BY DEF Next, vars, DispatchUnregistered, SlowShutdown, SlowDetach, Sweep,
           Handler, Lookup, Invalid, Reject, Attach, Register, WriteReplay, GoLive,
           Leave, Detach, PumpFail, CloseSocket, Reconnect, Receive
  <2> QED BY <2>2, <2>3, <2>4, <2>5, <2>6
<1> QED BY <1>1, <1>2 DEF WithinCapacity

LEMMA NextTypeOK == TypeOK /\ [Next]_vars => TypeOK'
BY NextTypes, NextCapacity DEF TypeOK

(* Every reachable state is well typed, and neither the replay buffer nor  *)
(* a send queue ever exceeds its capacity.                                 *)
THEOREM TypeCorrect == Spec => []TypeOK
BY InitTypeOK, NextTypeOK, PTL DEF Spec

-----------------------------------------------------------------------------
(* The pipeline from the replay buffer to the client.                      *)

(* Appending the next number and dropping old records leaves a tail.       *)
LEMMA BufferStep ==
  ASSUME TypeOK, StreamInv, [Next]_vars
  PROVE  BufferIsTail'
<1> USE DEF serverVars, connVars, clientVars
<1>1. CASE Dispatch
  <2> DEFINE b == Append(buffer, seq + 1)
  <2>1. buffer \in Seq(Nat) /\ seq \in Nat /\ Len(buffer) \in Nat /\ Len(buffer) <= seq
    BY LenProperties DEF TypeOK, Types, StreamInv, BufferIsTail
  <2>2. /\ b \in Seq(Nat) /\ b # <<>> /\ Len(b) = Len(buffer) + 1
        /\ \A j \in 1 .. Len(buffer) : b[j] = buffer[j]
        /\ b[Len(buffer) + 1] = seq + 1
    BY <2>1, PutLast
  <2>3. ASSUME NEW j \in 1 .. Len(b) PROVE b[j] = seq - Len(buffer) + j
    <3>1. CASE j = Len(buffer) + 1
      BY <2>1, <2>2, <3>1
    <3>2. CASE j \in 1 .. Len(buffer)
      BY <2>1, <2>2, <3>2 DEF StreamInv, BufferIsTail
    <3> QED BY <2>1, <2>2, <2>3, <3>1, <3>2
  <2>4. buffer' \in Pruned(b) /\ seq' = seq + 1
    BY <1>1 DEF Dispatch
  <2> HIDE DEF b
  <2>5. /\ Len(buffer') \in 1 .. Len(b)
        /\ \A i \in 1 .. Len(buffer') : buffer'[i] = b[Len(b) - Len(buffer') + i]
    BY <2>2, <2>4, PrunedType
  <2>6. ASSUME NEW i \in 1 .. Len(buffer') PROVE buffer'[i] = seq' - Len(buffer') + i
    <3>1. Len(b) - Len(buffer') + i \in 1 .. Len(b)
      BY <2>1, <2>2, <2>5, <2>6
    <3>2. buffer'[i] = seq - Len(buffer) + (Len(b) - Len(buffer') + i)
      BY <2>3, <2>5, <2>6, <3>1
    <3> QED BY <2>1, <2>2, <2>4, <2>5, <3>2
  <2> QED BY <2>1, <2>2, <2>4, <2>5, <2>6 DEF BufferIsTail
<1>2. CASE UNCHANGED <<seq, buffer>>
  BY <1>2 DEF StreamInv, BufferIsTail
<1>3. Dispatch \/ UNCHANGED <<seq, buffer>>
  BY DEF Next, vars, DispatchUnregistered, SlowShutdown, SlowDetach, Sweep,
         Handler, Lookup, Invalid, Reject, Attach, Register, WriteReplay, GoLive,
         Leave, Detach, Heartbeat, Pump, PumpFail, CloseSocket, Reconnect, Receive
<1> QED BY <1>1, <1>2, <1>3

(* If no record is missing after n, the replay list is n + 1, ..., seq.    *)
LEMMA ReplayIsGap ==
  ASSUME TypeOK, StreamInv, NEW n \in Nat, ~Gap(n),
         NEW k \in 1 .. Len(buffer) + 1, ReplayFrom(k, n)
  PROVE  LET f == SubSeq(buffer, k, Len(buffer)) IN
         n <= seq /\ Len(f) = seq - n /\ Follows(f, n)
<1> DEFINE L == Len(buffer)
           f == SubSeq(buffer, k, L)
<1>1. buffer \in Seq(Nat) /\ seq \in Nat /\ L \in Nat /\ L <= seq
  BY LenProperties DEF TypeOK, Types, StreamInv, BufferIsTail
<1>2. \A i \in 1 .. L : buffer[i] = seq - L + i
  BY DEF StreamInv, BufferIsTail
<1>3. /\ n <= seq
      /\ n < seq => L >= 1 /\ seq - L + 1 <= n + 1
  <2>1. n < seq => buffer # <<>> /\ buffer[1] <= n + 1
    BY <1>1, <1>2, EmptySeq DEF Gap
  <2>2. buffer # <<>> => L >= 1
    BY <1>1, EmptySeq
  <2> QED BY <1>1, <1>2, <2>1, <2>2 DEF Gap
<1>4. \A i \in 1 .. L : seq - L + i > n <=> i >= k
  BY <1>2 DEF ReplayFrom
<1>5. k = L - (seq - n) + 1
  <2>1. CASE n = seq
    <3>1. k \notin 1 .. L
      BY <1>1, <1>4, <2>1
    <3> QED BY <1>1, <2>1, <3>1
  <2>2. CASE n < seq
    <3>1. L - (seq - n) + 1 \in 1 .. L
      BY <1>1, <1>3, <2>2
    <3>2. PICK j \in 1 .. L : j = L - (seq - n) + 1
      BY <3>1
    <3>3. k <= j
      <4>1. seq - L + j > n
        BY <1>1, <3>2
      <4> QED BY <1>4, <4>1
    <3>4. CASE k < j
      <4>1. j - 1 \in 1 .. L /\ j - 1 >= k /\ ~(seq - L + (j - 1) > n)
        BY <1>1, <3>2, <3>4
      <4> QED BY <1>4, <4>1
    <3> QED BY <1>1, <3>2, <3>3, <3>4
  <2> QED BY <1>1, <1>3, <2>1, <2>2
<1>6. /\ f \in Seq(Nat) /\ Len(f) = L - k + 1
      /\ \A i \in 1 .. Len(f) : f[i] = buffer[k + i - 1]
  BY <1>1, SuffixType
<1> HIDE DEF f
<1>7. ASSUME NEW i \in 1 .. Len(f) PROVE f[i] = n + i
  <2>1. k + i - 1 \in 1 .. L
    BY <1>1, <1>6, <1>7
  <2>2. f[i] = seq - L + (k + i - 1)
    BY <1>2, <1>6, <1>7, <2>1
  <2> QED BY <1>1, <1>3, <1>5, <2>2
<1>8. n <= seq /\ Len(f) = seq - n /\ Follows(f, n)
  BY <1>1, <1>3, <1>5, <1>6, <1>7 DEF Follows
<1> QED BY <1>8 DEF f

(* A connection that is not attached carries nothing; a connection whose   *)
(* handshake is over has nothing left to replay.                           *)
LEMMA HandshakeStep ==
  ASSUME TypeOK, StreamInv, [Next]_vars, TypeOK'
  PROVE  HandshakeOrder'
<1> USE DEF serverVars, connVars, clientVars
<1>0. SUFFICES ASSUME NEW d \in Conns
      PROVE /\ pc'[d] \in Waiting \cup {"new"} => CarriesNothing(d)'
            /\ pc'[d] \in Pumping => replay'[d] = <<>>
  BY DEF HandshakeOrder
<1>00. /\ pc[d] \in Waiting \cup {"new"} => CarriesNothing(d)
       /\ pc[d] \in Pumping => replay[d] = <<>>
  BY DEF StreamInv, HandshakeOrder
<1> USE <1>00 DEF CarriesNothing, TypeOK, Types
<1>1. CASE Dispatch
  BY <1>1 DEF Dispatch, Overflow
<1>2. CASE DispatchUnregistered
  BY <1>2 DEF DispatchUnregistered
<1>3. CASE SlowShutdown
  BY <1>3 DEF SlowShutdown
<1>4. CASE SlowDetach
  BY <1>4 DEF SlowDetach, Unbind
<1>5. CASE Sweep
  BY <1>5 DEF Sweep
<1>6. ASSUME NEW c \in Conns, Lookup(c)
       PROVE  /\ pc'[d] \in Waiting \cup {"new"} => CarriesNothing(d)'
              /\ pc'[d] \in Pumping => replay'[d] = <<>>
  BY <1>6 DEF Lookup, Invalid, Reject
<1>7. ASSUME NEW c \in Conns, Attach(c)
       PROVE  /\ pc'[d] \in Waiting \cup {"new"} => CarriesNothing(d)'
              /\ pc'[d] \in Pumping => replay'[d] = <<>>
  BY <1>7 DEF Attach, Invalid, Reject
<1>8. ASSUME NEW c \in Conns, Register(c)
       PROVE  /\ pc'[d] \in Waiting \cup {"new"} => CarriesNothing(d)'
              /\ pc'[d] \in Pumping => replay'[d] = <<>>
  BY <1>8 DEF Register
<1>9. ASSUME NEW c \in Conns, WriteReplay(c)
       PROVE  /\ pc'[d] \in Waiting \cup {"new"} => CarriesNothing(d)'
              /\ pc'[d] \in Pumping => replay'[d] = <<>>
  BY <1>9 DEF WriteReplay, Write
<1>10. ASSUME NEW c \in Conns, GoLive(c)
       PROVE  /\ pc'[d] \in Waiting \cup {"new"} => CarriesNothing(d)'
              /\ pc'[d] \in Pumping => replay'[d] = <<>>
  BY <1>10 DEF GoLive
<1>11. ASSUME NEW c \in Conns, Leave(c)
       PROVE  /\ pc'[d] \in Waiting \cup {"new"} => CarriesNothing(d)'
              /\ pc'[d] \in Pumping => replay'[d] = <<>>
  BY <1>11 DEF Leave
<1>12. ASSUME NEW c \in Conns, Detach(c)
       PROVE  /\ pc'[d] \in Waiting \cup {"new"} => CarriesNothing(d)'
              /\ pc'[d] \in Pumping => replay'[d] = <<>>
  BY <1>12 DEF Detach, Unbind
<1>13. ASSUME NEW c \in Conns, Heartbeat(c)
       PROVE  /\ pc'[d] \in Waiting \cup {"new"} => CarriesNothing(d)'
              /\ pc'[d] \in Pumping => replay'[d] = <<>>
  BY <1>13 DEF Heartbeat
<1>14. ASSUME NEW c \in Conns, Pump(c)
       PROVE  /\ pc'[d] \in Waiting \cup {"new"} => CarriesNothing(d)'
              /\ pc'[d] \in Pumping => replay'[d] = <<>>
  BY <1>14 DEF Pump, Write
<1>15. ASSUME NEW c \in Conns, PumpFail(c)
       PROVE  /\ pc'[d] \in Waiting \cup {"new"} => CarriesNothing(d)'
              /\ pc'[d] \in Pumping => replay'[d] = <<>>
  BY <1>15 DEF PumpFail
<1>16. ASSUME NEW c \in Conns, CloseSocket(c)
       PROVE  /\ pc'[d] \in Waiting \cup {"new"} => CarriesNothing(d)'
              /\ pc'[d] \in Pumping => replay'[d] = <<>>
  BY <1>16 DEF CloseSocket
<1>17. ASSUME NEW c \in Conns, Reconnect(c)
       PROVE  /\ pc'[d] \in Waiting \cup {"new"} => CarriesNothing(d)'
              /\ pc'[d] \in Pumping => replay'[d] = <<>>
  BY <1>17 DEF Reconnect
<1>18. CASE Receive
  BY <1>18 DEF Receive
<1>19. CASE UNCHANGED vars
  BY <1>19 DEF vars
<1> QED BY <1>1, <1>2, <1>3, <1>4, <1>5, <1>6, <1>7, <1>8, <1>9, <1>10, <1>11, <1>12, <1>13, <1>14, <1>15, <1>16, <1>17, <1>18, <1>19 DEF Next, Handler

(* A step that leaves the client's connection and its position alone.      *)
LEMMA FollowsOnStable ==
  ASSUME TypeOK, FollowsOn, UNCHANGED <<cur, last, seq>>,
         wire'[cur] = wire[cur], replay'[cur] = replay[cur], queue'[cur] = queue[cur],
         pc'[cur] \notin Waiting => pc[cur] \notin Waiting,
         bound' = cur /\ slow' # cur => bound = cur /\ slow # cur
  PROVE  FollowsOn'
BY DEF FollowsOn

(* A RESUME of the client is rejected.                                     *)
LEMMA FollowsOnReject ==
  ASSUME TypeOK, StreamInv, NEW c \in Conns, pc[c] \in Waiting, Reject(c)
  PROVE  FollowsOn'
<1> USE DEF serverVars
<1>1. CASE c = cur
  <2>1. /\ wire[cur] = <<>> /\ replay[cur] = <<>> /\ queue[cur] = <<>> /\ bound # cur
        /\ last <= seq /\ last \in Nat /\ seq \in Nat
    BY <1>1 DEF StreamInv, HandshakeOrder, CarriesNothing, LastIsAsked, TypeOK, Types
  <2>2. UNCHANGED <<cur, last, seq, bound, wire, replay, queue>>
    BY DEF Reject
  <2>3. Len(wire'[cur']) = 0 /\ Len(replay'[cur']) = 0 /\ Len(queue'[cur']) = 0
    BY <2>1, <2>2, EmptySeq
  <2>4. \A n : Follows(wire'[cur'], n) /\ Follows(replay'[cur'], n) /\ Follows(queue'[cur'], n)
    BY <2>1, <2>2, FollowsEmpty
  <2>5. last + 0 + 0 + 0 <= seq
    BY <2>1
  <2> QED BY <2>1, <2>2, <2>3, <2>4, <2>5 DEF FollowsOn
<1>2. CASE c # cur
  <2>1. UNCHANGED <<cur, last, seq, wire, replay, queue, bound, slow>> /\ pc'[cur] = pc[cur]
    BY <1>2 DEF Reject, TypeOK, Types
  <2> QED BY <2>1, FollowsOnStable DEF StreamInv
<1> QED BY <1>1, <1>2

(* The lengths and the order of the client's pipeline, as plain numbers.   *)
LEMMA PipelineTypes ==
  ASSUME TypeOK
  PROVE  /\ cur \in Conns /\ last \in Nat /\ seq \in Nat /\ None # cur
         /\ wire[cur] \in Seq(Nat) /\ replay[cur] \in Seq(Nat) /\ queue[cur] \in Seq(Nat)
         /\ Len(wire[cur]) \in Nat /\ Len(replay[cur]) \in Nat /\ Len(queue[cur]) \in Nat
BY LenProperties DEF TypeOK, Types

(* The client takes the next number, if it takes one.                      *)
LEMMA ReceiveNext ==
  ASSUME TypeOK, StreamInv, Receive
  PROVE  /\ last' = last + 1 /\ last' <= seq
         /\ pc[cur] \notin Waiting
         /\ Len(wire'[cur]) = Len(wire[cur]) - 1
         /\ Follows(wire'[cur], last + 1)
<1>1. wire[cur] # <<>> /\ last' = Head(wire[cur]) /\ wire'[cur] = Tail(wire[cur])
  BY PipelineTypes DEF Receive, TypeOK, Types
<1>2. pc[cur] \notin Waiting
  BY <1>1, PipelineTypes DEF StreamInv, HandshakeOrder, CarriesNothing
<1>3. /\ Follows(wire[cur], last)
      /\ last + Len(wire[cur]) + Len(replay[cur]) + Len(queue[cur]) <= seq
  BY <1>2 DEF StreamInv, FollowsOn
<1>4. /\ Head(wire[cur]) = last + 1 /\ Follows(Tail(wire[cur]), last + 1)
      /\ Len(wire[cur]) \in Nat \ {0} /\ Len(Tail(wire[cur])) = Len(wire[cur]) - 1
  BY <1>1, <1>3, PipelineTypes, FollowsTake
<1>5. last + 1 <= seq
  BY <1>3, <1>4, PipelineTypes
<1> QED BY <1>1, <1>2, <1>4, <1>5

(* last_seq is what the client took, and never ahead of the session.       *)
LEMMA LastStep ==
  ASSUME TypeOK, StreamInv, [Next]_vars, TypeOK'
  PROVE  LastIsAsked'
<1> USE DEF serverVars, connVars, clientVars, TypeOK, Types, LastIsAsked
<1>0. LastIsAsked
  BY DEF StreamInv
<1> USE <1>0
<1>1. CASE Dispatch
  BY <1>1 DEF Dispatch, Overflow
<1>2. CASE DispatchUnregistered
  BY <1>2 DEF DispatchUnregistered
<1>3. CASE SlowShutdown
  BY <1>3 DEF SlowShutdown
<1>4. CASE SlowDetach
  BY <1>4 DEF SlowDetach, Unbind
<1>5. CASE Sweep
  BY <1>5 DEF Sweep
<1>6. ASSUME NEW c \in Conns, Lookup(c) PROVE LastIsAsked'
  <2>1. CASE Reject(c)
    BY <2>1 DEF Reject
  <2>2. CASE pc' = [pc EXCEPT ![c] = "attach"] /\ UNCHANGED <<serverVars, clientVars, asked>>
    BY <1>6, <2>2 DEF Lookup
  <2> QED BY <1>6, <2>1, <2>2 DEF Lookup, Invalid
<1>7. ASSUME NEW c \in Conns, Attach(c) PROVE LastIsAsked'
  BY <1>7 DEF Attach, Invalid, Reject
<1>8. ASSUME NEW c \in Conns, Register(c) PROVE LastIsAsked'
  BY <1>8 DEF Register
<1>9. ASSUME NEW c \in Conns, WriteReplay(c) PROVE LastIsAsked'
  BY <1>9 DEF WriteReplay, Write
<1>10. ASSUME NEW c \in Conns, GoLive(c) PROVE LastIsAsked'
  BY <1>10 DEF GoLive
<1>11. ASSUME NEW c \in Conns, Leave(c) PROVE LastIsAsked'
  BY <1>11 DEF Leave
<1>12. ASSUME NEW c \in Conns, Detach(c) PROVE LastIsAsked'
  BY <1>12 DEF Detach, Unbind
<1>13. ASSUME NEW c \in Conns, Heartbeat(c) PROVE LastIsAsked'
  BY <1>13 DEF Heartbeat
<1>14. ASSUME NEW c \in Conns, Pump(c) PROVE LastIsAsked'
  BY <1>14 DEF Pump, Write
<1>15. ASSUME NEW c \in Conns, PumpFail(c) PROVE LastIsAsked'
  BY <1>15 DEF PumpFail
<1>16. ASSUME NEW c \in Conns, CloseSocket(c) PROVE LastIsAsked'
  BY <1>16 DEF CloseSocket
<1>17. ASSUME NEW c \in Conns, Reconnect(c) PROVE LastIsAsked'
  BY <1>17 DEF Reconnect
<1>18. CASE Receive
  BY <1>18, ReceiveNext DEF Receive
<1>19. CASE UNCHANGED vars
  BY <1>19 DEF vars
<1> QED BY <1>1, <1>2, <1>3, <1>4, <1>5, <1>6, <1>7, <1>8, <1>9, <1>10, <1>11, <1>12, <1>13, <1>14, <1>15, <1>16, <1>17, <1>18, <1>19 DEF Next, Handler

(* A handler detaches a connection only after shutting it.                 *)
LEMMA ShutStep ==
  ASSUME TypeOK, StreamInv, [Next]_vars
  PROVE  ShutFirst'
<1> USE DEF serverVars, connVars, clientVars, TypeOK, Types, ShutFirst
<1>0. ShutFirst
  BY DEF StreamInv
<1> USE <1>0
<1>1. CASE \/ Dispatch \/ DispatchUnregistered \/ SlowDetach \/ Sweep \/ Receive
           \/ UNCHANGED vars
  BY <1>1 DEF Dispatch, DispatchUnregistered, SlowDetach, Sweep, Receive, vars
<1>2. CASE SlowShutdown
  BY <1>2 DEF SlowShutdown
<1>3. ASSUME NEW c \in Conns, Reject(c) PROVE ShutFirst'
  BY <1>3 DEF Reject
<1>4. ASSUME NEW c \in Conns, Lookup(c) \/ Attach(c) PROVE ShutFirst'
  BY <1>3, <1>4 DEF Lookup, Attach, Invalid
<1>5. ASSUME NEW c \in Conns, Register(c) PROVE ShutFirst'
  BY <1>5 DEF Register
<1>6. ASSUME NEW c \in Conns, WriteReplay(c) \/ GoLive(c) \/ Pump(c) \/ CloseSocket(c)
      PROVE  ShutFirst'
  BY <1>6 DEF WriteReplay, GoLive, Pump, CloseSocket
<1>7. ASSUME NEW c \in Conns, Leave(c) \/ PumpFail(c) PROVE ShutFirst'
  BY <1>7 DEF Leave, PumpFail
<1>8. ASSUME NEW c \in Conns, Detach(c) PROVE ShutFirst'
  BY <1>8 DEF Detach
<1>9. ASSUME NEW c \in Conns, Heartbeat(c) PROVE ShutFirst'
  BY <1>9 DEF Heartbeat
<1>10. ASSUME NEW c \in Conns, Reconnect(c) PROVE ShutFirst'
  BY <1>10 DEF Reconnect
<1> QED BY <1>1, <1>2, <1>4, <1>5, <1>6, <1>7, <1>8, <1>9, <1>10 DEF Next, Handler

(* What the client has not taken follows on from what it took.             *)
LEMMA FollowsOnStep ==
  ASSUME TypeOK, StreamInv, [Next]_vars, TypeOK'
  PROVE  FollowsOn'
<1> USE DEF serverVars, connVars, clientVars
<1>a. /\ cur \in Conns /\ last \in Nat /\ seq \in Nat /\ None # cur
      /\ wire[cur] \in Seq(Nat) /\ replay[cur] \in Seq(Nat) /\ queue[cur] \in Seq(Nat)
      /\ Len(wire[cur]) \in Nat /\ Len(replay[cur]) \in Nat /\ Len(queue[cur]) \in Nat
  BY PipelineTypes
<1>n. /\ last \in Nat /\ seq \in Nat
      /\ Len(wire[cur]) \in Nat /\ Len(replay[cur]) \in Nat /\ Len(queue[cur]) \in Nat
  BY <1>a
<1>b. FollowsOn
  BY DEF StreamInv
<1>1. CASE Dispatch
  <2>1. /\ slow = None /\ seq' = seq + 1
        /\ UNCHANGED <<cur, last, bound, pc, wire, replay>>
    BY <1>1 DEF Dispatch
  <2>2. CASE bound = cur /\ slow' = slow /\ queue' = [queue EXCEPT ![bound] = Append(@, seq + 1)]
    <3>1. queue'[cur] = Append(queue[cur], seq + 1)
      BY <2>2, <1>a DEF TypeOK, Types
    <3>2. SUFFICES ASSUME pc[cur] \notin Waiting PROVE FollowsOn'
      BY <2>1 DEF FollowsOn
    <3>3. /\ last + Len(wire[cur]) + Len(replay[cur]) + Len(queue[cur]) = seq
          /\ Follows(wire[cur], last)
          /\ Follows(replay[cur], last + Len(wire[cur]))
          /\ Follows(queue[cur], last + Len(wire[cur]) + Len(replay[cur]))
      BY <1>a, <1>b, <2>1, <2>2, <3>2 DEF FollowsOn
    <3>4. PICK n \in Nat : n = last + Len(wire[cur]) + Len(replay[cur])
      BY <1>n, SumType, Zenon
    <3>5. Follows(queue'[cur], n) /\ Len(queue'[cur]) = Len(queue[cur]) + 1
      BY <1>a, <3>1, <3>3, <3>4, FollowsPut
    <3>6. last + Len(wire[cur]) + Len(replay[cur]) + Len(queue'[cur]) = seq + 1
      <4>1. last + Len(wire[cur]) + Len(replay[cur]) + (Len(queue[cur]) + 1)
              = (last + Len(wire[cur]) + Len(replay[cur]) + Len(queue[cur])) + 1
        <5>1. PICK w \in Nat, r \in Nat, q \in Nat :
                w = Len(wire[cur]) /\ r = Len(replay[cur]) /\ q = Len(queue[cur])
          BY <1>n
        <5>2. last + w + r + (q + 1) = (last + w + r + q) + 1
          BY <1>n
        <5> QED BY <5>1, <5>2, Zenon
      <4>2. Len(queue'[cur]) = Len(queue[cur]) + 1
        BY <3>5
      <4>3. last + Len(wire[cur]) + Len(replay[cur]) + Len(queue[cur]) = seq
        BY <3>3
      <4> QED BY <4>1, <4>2, <4>3, Zenon
    <3> QED BY <1>a, <2>1, <3>3, <3>4, <3>5, <3>6 DEF FollowsOn
  <2>3. CASE queue'[cur] = queue[cur] /\ (bound # cur \/ slow' = cur)
    <3>1. last + Len(wire[cur]) + Len(replay[cur]) + Len(queue[cur]) <= seq =>
          last + Len(wire[cur]) + Len(replay[cur]) + Len(queue[cur]) <= seq + 1
      BY <1>n, SumBelow, Zenon
    <3> QED BY <1>b, <2>1, <2>3, <3>1 DEF FollowsOn
  <2> QED BY <1>1, <2>2, <2>3 DEF Dispatch, Overflow, TypeOK, Types
<1>2. CASE DispatchUnregistered
  <2>1. /\ UNCHANGED <<cur, last, seq>>
        /\ wire'[cur] = wire[cur] /\ replay'[cur] = replay[cur] /\ queue'[cur] = queue[cur]
        /\ pc'[cur] \notin Waiting => pc[cur] \notin Waiting
        /\ bound' = cur /\ slow' # cur => bound = cur /\ slow # cur
    BY <1>2, <1>a DEF DispatchUnregistered, TypeOK, Types
  <2> QED BY <1>b, <2>1, FollowsOnStable
<1>3. CASE SlowShutdown
  <2>1. /\ UNCHANGED <<cur, last, seq>>
        /\ wire'[cur] = wire[cur] /\ replay'[cur] = replay[cur] /\ queue'[cur] = queue[cur]
        /\ pc'[cur] \notin Waiting => pc[cur] \notin Waiting
        /\ bound' = cur /\ slow' # cur => bound = cur /\ slow # cur
    BY <1>3, <1>a DEF SlowShutdown, TypeOK, Types
  <2> QED BY <1>b, <2>1, FollowsOnStable
<1>4. CASE SlowDetach
  <2>1. /\ UNCHANGED <<cur, last, seq>>
        /\ wire'[cur] = wire[cur] /\ replay'[cur] = replay[cur] /\ queue'[cur] = queue[cur]
        /\ pc'[cur] \notin Waiting => pc[cur] \notin Waiting
        /\ bound' = cur /\ slow' # cur => bound = cur /\ slow # cur
    BY <1>4, <1>a DEF SlowDetach, Unbind, TypeOK, Types
  <2> QED BY <1>b, <2>1, FollowsOnStable
<1>5. CASE Sweep
  <2>1. /\ UNCHANGED <<cur, last, seq>>
        /\ wire'[cur] = wire[cur] /\ replay'[cur] = replay[cur] /\ queue'[cur] = queue[cur]
        /\ pc'[cur] \notin Waiting => pc[cur] \notin Waiting
        /\ bound' = cur /\ slow' # cur => bound = cur /\ slow # cur
    BY <1>5, <1>a DEF Sweep, TypeOK, Types
  <2> QED BY <1>b, <2>1, FollowsOnStable
<1>6. ASSUME NEW c \in Conns, Lookup(c) PROVE FollowsOn'
  <2>1. CASE Reject(c)
    BY <1>6, <2>1, FollowsOnReject DEF Lookup
  <2>2. CASE pc' = [pc EXCEPT ![c] = "attach"] /\ UNCHANGED <<serverVars, clientVars, wire, replay, queue>>
    <3>1. pc[c] = "lookup" /\ (pc'[cur] \notin Waiting => pc[cur] \notin Waiting)
      BY <1>6, <2>2, <1>a DEF Lookup, TypeOK, Types
    <3> QED BY <1>b, <2>2, <3>1, FollowsOnStable
  <2> QED BY <1>6, <2>1, <2>2 DEF Lookup, Invalid
<1>7. ASSUME NEW c \in Conns, Attach(c) PROVE FollowsOn'
  <2>1. CASE Reject(c)
    BY <1>7, <2>1, FollowsOnReject DEF Attach
  <2>2. CASE ~Reject(c)
    <3>1. /\ pc[c] = "attach" /\ ~Gap(asked[c]) /\ bound' = c
          /\ UNCHANGED <<cur, last, seq, slow, wire, queue>>
          /\ pc' = [pc EXCEPT ![c] = "register"]
      BY <1>7, <2>2 DEF Attach, Invalid
    <3>2. PICK k \in 1 .. Len(buffer) + 1 :
            /\ ReplayFrom(k, asked[c])
            /\ replay' = [replay EXCEPT ![c] = SubSeq(buffer, k, Len(buffer))]
      BY <1>7, <2>2 DEF Attach, Invalid
    <3>3. CASE c # cur
      <4>1. pc'[cur] = pc[cur] /\ replay'[cur] = replay[cur]
        BY <3>1, <3>2, <3>3, <1>a DEF TypeOK, Types
      <4> QED BY <1>b, <3>1, <3>3, <4>1, FollowsOnStable
    <3>4. CASE c = cur
      <4>1. asked[cur] = last /\ wire[cur] = <<>> /\ queue[cur] = <<>>
        BY <3>1, <3>4 DEF StreamInv, HandshakeOrder, CarriesNothing, LastIsAsked
      <4>2. replay'[cur] = SubSeq(buffer, k, Len(buffer))
        BY <3>2, <3>4, <1>a DEF TypeOK, Types
      <4>3. last <= seq /\ Len(replay'[cur]) = seq - last /\ Follows(replay'[cur], last)
        BY <1>a, <3>1, <3>2, <3>4, <4>1, <4>2, ReplayIsGap
      <4>4. Len(wire'[cur]) = 0 /\ Len(queue'[cur]) = 0
        BY <3>1, <4>1, EmptySeq
      <4>5. Follows(wire'[cur], last) /\ \A n \in Nat : Follows(queue'[cur], n)
        BY <3>1, <4>1, FollowsEmpty
      <4>6. last + 0 = last /\ last + 0 + (seq - last) = seq /\ last + 0 + (seq - last) + 0 = seq
        BY <1>a
      <4> QED BY <1>a, <3>1, <4>3, <4>4, <4>5, <4>6 DEF FollowsOn
    <3> QED BY <3>3, <3>4
  <2> QED BY <2>1, <2>2
<1>8. ASSUME NEW c \in Conns, Register(c) PROVE FollowsOn'
  <2>1. /\ UNCHANGED <<cur, last, seq>>
        /\ wire'[cur] = wire[cur] /\ replay'[cur] = replay[cur] /\ queue'[cur] = queue[cur]
        /\ pc'[cur] \notin Waiting => pc[cur] \notin Waiting
        /\ bound' = cur /\ slow' # cur => bound = cur /\ slow # cur
    BY <1>8, <1>a DEF Register, TypeOK, Types
  <2> QED BY <1>b, <2>1, FollowsOnStable
<1>9. ASSUME NEW c \in Conns, WriteReplay(c) PROVE FollowsOn'
  <2>1. CASE c = cur
    <3>1. /\ replay[cur] # <<>> /\ pc[cur] \notin Waiting
          /\ wire'[cur] = Append(wire[cur], Head(replay[cur])) /\ replay'[cur] = Tail(replay[cur])
          /\ UNCHANGED <<cur, last, seq, pc, queue, bound, slow>>
      BY <1>9, <2>1, <1>a DEF WriteReplay, Write, TypeOK, Types
    <3>2. /\ Follows(wire[cur], last)
          /\ Follows(replay[cur], last + Len(wire[cur]))
          /\ Follows(queue[cur], last + Len(wire[cur]) + Len(replay[cur]))
          /\ last + Len(wire[cur]) + Len(replay[cur]) + Len(queue[cur]) <= seq
          /\ bound = cur /\ slow # cur =>
               last + Len(wire[cur]) + Len(replay[cur]) + Len(queue[cur]) = seq
      BY <1>b, <3>1 DEF FollowsOn
    <3>3. PICK n \in Nat : n = last + Len(wire[cur])
      BY <1>a
    <3>4. /\ Head(replay[cur]) = n + 1 /\ Follows(replay'[cur], n + 1)
          /\ Len(replay[cur]) \in Nat \ {0} /\ Len(replay'[cur]) = Len(replay[cur]) - 1
      BY <1>a, <3>1, <3>2, <3>3, FollowsTake
    <3>5. Follows(wire'[cur], last) /\ Len(wire'[cur]) = Len(wire[cur]) + 1
      BY <1>a, <3>1, <3>2, <3>3, <3>4, FollowsPut
    <3>6. /\ last + Len(wire'[cur]) = n + 1
          /\ last + Len(wire'[cur]) + Len(replay'[cur]) = last + Len(wire[cur]) + Len(replay[cur])
      <4>1. last + (Len(wire[cur]) + 1) = n + 1
        BY <1>a, <3>3
      <4>2. last + (Len(wire[cur]) + 1) + (Len(replay[cur]) - 1)
              = last + Len(wire[cur]) + Len(replay[cur])
        <5>1. PICK w \in Nat, r \in Nat : w = Len(wire[cur]) /\ r = Len(replay[cur])
          BY <1>n
        <5>2. last + (w + 1) + (r - 1) = last + w + r
          BY <1>n
        <5> QED BY <5>1, <5>2, Zenon
      <4>3. Len(wire'[cur]) = Len(wire[cur]) + 1 /\ Len(replay'[cur]) = Len(replay[cur]) - 1
        BY <3>4, <3>5
      <4> QED BY <4>1, <4>2, <4>3, Zenon
    <3> QED BY <3>1, <3>2, <3>4, <3>5, <3>6 DEF FollowsOn
  <2>2. CASE c # cur
    <3>1. /\ UNCHANGED <<cur, last, seq, wire, queue, pc, bound, slow>> /\ replay'[cur] = replay[cur]
      BY <1>9, <2>2, <1>a DEF WriteReplay, Write, TypeOK, Types
    <3> QED BY <1>b, <3>1, FollowsOnStable
  <2> QED BY <2>1, <2>2
<1>10. ASSUME NEW c \in Conns, GoLive(c) PROVE FollowsOn'
  <2>1. /\ UNCHANGED <<cur, last, seq>>
        /\ wire'[cur] = wire[cur] /\ replay'[cur] = replay[cur] /\ queue'[cur] = queue[cur]
        /\ pc'[cur] \notin Waiting => pc[cur] \notin Waiting
        /\ bound' = cur /\ slow' # cur => bound = cur /\ slow # cur
    BY <1>10, <1>a DEF GoLive, TypeOK, Types
  <2> QED BY <1>b, <2>1, FollowsOnStable
<1>11. ASSUME NEW c \in Conns, Leave(c) PROVE FollowsOn'
  <2>1. /\ UNCHANGED <<cur, last, seq>>
        /\ wire'[cur] = wire[cur] /\ replay'[cur] = replay[cur] /\ queue'[cur] = queue[cur]
        /\ pc'[cur] \notin Waiting => pc[cur] \notin Waiting
        /\ bound' = cur /\ slow' # cur => bound = cur /\ slow # cur
    BY <1>11, <1>a DEF Leave, TypeOK, Types
  <2> QED BY <1>b, <2>1, FollowsOnStable
<1>12. ASSUME NEW c \in Conns, Detach(c) PROVE FollowsOn'
  <2>1. /\ UNCHANGED <<cur, last, seq>>
        /\ wire'[cur] = wire[cur] /\ replay'[cur] = replay[cur] /\ queue'[cur] = queue[cur]
        /\ pc'[cur] \notin Waiting => pc[cur] \notin Waiting
        /\ bound' = cur /\ slow' # cur => bound = cur /\ slow # cur
    BY <1>12, <1>a DEF Detach, Unbind, TypeOK, Types
  <2> QED BY <1>b, <2>1, FollowsOnStable
<1>13. ASSUME NEW c \in Conns, Heartbeat(c) PROVE FollowsOn'
  <2>1. /\ UNCHANGED <<cur, last, seq>>
        /\ wire'[cur] = wire[cur] /\ replay'[cur] = replay[cur] /\ queue'[cur] = queue[cur]
        /\ pc'[cur] \notin Waiting => pc[cur] \notin Waiting
        /\ bound' = cur /\ slow' # cur => bound = cur /\ slow # cur
    BY <1>13, <1>a DEF Heartbeat, TypeOK, Types
  <2> QED BY <1>b, <2>1, FollowsOnStable
<1>14. ASSUME NEW c \in Conns, Pump(c) PROVE FollowsOn'
  <2>1. CASE c = cur /\ queue[cur] # <<>> /\ Write(c, Head(queue[cur]))
             /\ queue' = [queue EXCEPT ![c] = Tail(@)]
    <3>1. /\ queue[cur] # <<>> /\ pc[cur] \notin Waiting
          /\ wire'[cur] = Append(wire[cur], Head(queue[cur])) /\ queue'[cur] = Tail(queue[cur])
          /\ UNCHANGED <<cur, last, seq, pc, replay, bound, slow>>
      BY <1>14, <2>1, <1>a DEF Pump, Write, TypeOK, Types
    <3>2. /\ Follows(wire[cur], last)
          /\ Follows(replay[cur], last + Len(wire[cur]))
          /\ Follows(queue[cur], last + Len(wire[cur]) + Len(replay[cur]))
          /\ last + Len(wire[cur]) + Len(replay[cur]) + Len(queue[cur]) <= seq
          /\ bound = cur /\ slow # cur =>
               last + Len(wire[cur]) + Len(replay[cur]) + Len(queue[cur]) = seq
      BY <1>b, <3>1 DEF FollowsOn
    <3>3. replay[cur] = <<>> /\ Len(replay[cur]) = 0
      BY <1>14, <2>1, EmptySeq DEF Pump, StreamInv, HandshakeOrder
    <3>4. PICK n \in Nat : n = last + Len(wire[cur])
      BY <1>a
    <3>5. last + Len(wire[cur]) + Len(replay[cur]) = n
      BY <3>3, <3>4
    <3>6. /\ Head(queue[cur]) = n + 1 /\ Follows(queue'[cur], n + 1)
          /\ Len(queue[cur]) \in Nat \ {0} /\ Len(queue'[cur]) = Len(queue[cur]) - 1
      BY <1>a, <3>1, <3>2, <3>5, FollowsTake
    <3>7. Follows(wire'[cur], last) /\ Len(wire'[cur]) = Len(wire[cur]) + 1
      BY <1>a, <3>1, <3>2, <3>4, <3>6, FollowsPut
    <3>8. /\ last + Len(wire'[cur]) + Len(replay[cur]) = n + 1
          /\ last + Len(wire'[cur]) + Len(replay[cur]) + Len(queue'[cur])
               = last + Len(wire[cur]) + Len(replay[cur]) + Len(queue[cur])
      <4>1. last + (Len(wire[cur]) + 1) = n + 1
        BY <1>a, <3>4
      <4>2. last + (Len(wire[cur]) + 1) + (Len(queue[cur]) - 1)
              = last + Len(wire[cur]) + Len(queue[cur])
        <5>1. PICK w \in Nat, q \in Nat : w = Len(wire[cur]) /\ q = Len(queue[cur])
          BY <1>n
        <5>2. last + (w + 1) + (q - 1) = last + w + q
          BY <1>n
        <5> QED BY <5>1, <5>2, Zenon
      <4>3. Len(wire'[cur]) = Len(wire[cur]) + 1 /\ Len(queue'[cur]) = Len(queue[cur]) - 1
        BY <3>6, <3>7
      <4>4. last + (Len(wire[cur]) + 1) + 0 = last + (Len(wire[cur]) + 1)
        <5>1. last + (Len(wire[cur]) + 1) \in Nat
          BY <1>a
        <5> QED BY <5>1, ZeroAdded, Zenon
      <4>5. last + Len(wire[cur]) + 0 = last + Len(wire[cur])
        <5>1. last + Len(wire[cur]) \in Nat
          BY <1>a
        <5> QED BY <5>1, ZeroAdded, Zenon
      <4>6. Len(replay[cur]) = 0
        BY <3>3
      <4> QED BY <4>1, <4>2, <4>3, <4>4, <4>5, <4>6, Zenon
    <3>9. Follows(replay[cur], last + Len(wire'[cur]))
      BY <3>3, FollowsEmpty
    <3> QED BY <3>1, <3>2, <3>6, <3>7, <3>8, <3>9 DEF FollowsOn
  <2>2. CASE ~(c = cur /\ queue[cur] # <<>> /\ Write(c, Head(queue[cur]))
               /\ queue' = [queue EXCEPT ![c] = Tail(@)])
    <3>1. /\ UNCHANGED <<cur, last, seq, replay, pc, bound, slow>>
          /\ wire'[cur] = wire[cur] /\ queue'[cur] = queue[cur]
      BY <1>14, <2>2, <1>a DEF Pump, Write, TypeOK, Types
    <3> QED BY <1>b, <3>1, FollowsOnStable
  <2> QED BY <2>1, <2>2
<1>15. ASSUME NEW c \in Conns, PumpFail(c) PROVE FollowsOn'
  <2>1. /\ UNCHANGED <<cur, last, seq>>
        /\ wire'[cur] = wire[cur] /\ replay'[cur] = replay[cur] /\ queue'[cur] = queue[cur]
        /\ pc'[cur] \notin Waiting => pc[cur] \notin Waiting
        /\ bound' = cur /\ slow' # cur => bound = cur /\ slow # cur
    BY <1>15, <1>a DEF PumpFail, TypeOK, Types
  <2> QED BY <1>b, <2>1, FollowsOnStable
<1>16. ASSUME NEW c \in Conns, CloseSocket(c) PROVE FollowsOn'
  <2>1. /\ UNCHANGED <<cur, last, seq>>
        /\ wire'[cur] = wire[cur] /\ replay'[cur] = replay[cur] /\ queue'[cur] = queue[cur]
        /\ pc'[cur] \notin Waiting => pc[cur] \notin Waiting
        /\ bound' = cur /\ slow' # cur => bound = cur /\ slow # cur
    BY <1>16, <1>a DEF CloseSocket, TypeOK, Types
  <2> QED BY <1>b, <2>1, FollowsOnStable
<1>17. ASSUME NEW c \in Conns, Reconnect(c) PROVE FollowsOn'
  <2>1. pc'[cur'] = "lookup"
    BY <1>17 DEF Reconnect, TypeOK, Types
  <2> QED BY <2>1 DEF FollowsOn
<1>18. CASE Receive
  <2>1. /\ last' = last + 1 /\ pc[cur] \notin Waiting
        /\ Len(wire'[cur]) = Len(wire[cur]) - 1 /\ Follows(wire'[cur], last')
    BY <1>18, ReceiveNext
  <2>2. UNCHANGED <<cur, seq, pc, replay, queue, bound, slow>>
    BY <1>18 DEF Receive
  <2>3. last' + Len(wire'[cur]) = last + Len(wire[cur])
    <3>1. Len(wire[cur]) # 0
      BY <1>18, <1>a, EmptySeq DEF Receive
    <3>2. (last + 1) + (Len(wire[cur]) - 1) = last + Len(wire[cur])
      BY <1>n, <3>1, FrameTaken, Zenon
    <3> QED BY <2>1, <3>2, Zenon
  <2> QED BY <1>b, <2>1, <2>2, <2>3 DEF FollowsOn
<1>19. CASE UNCHANGED vars
  BY <1>19, <1>b DEF vars, FollowsOn
<1> QED BY <1>1, <1>2, <1>3, <1>4, <1>5, <1>6, <1>7, <1>8, <1>9, <1>10, <1>11, <1>12, <1>13, <1>14, <1>15, <1>16, <1>17, <1>18, <1>19 DEF Next, Handler

LEMMA InitStreamInv == Init => StreamInv
<1> SUFFICES ASSUME Init PROVE StreamInv
  OBVIOUS
<1>1. \A c \in Conns : wire[c] = <<>> /\ replay[c] = <<>> /\ queue[c] = <<>>
  BY DEF Init
<1>2. Len(<<>>) = 0
  BY EmptySeq
<1>3. BufferIsTail
  BY <1>2 DEF Init, BufferIsTail
<1>4. HandshakeOrder
  BY <1>1 DEF Init, HandshakeOrder, CarriesNothing
<1>5. LastIsAsked
  BY DEF Init, LastIsAsked
<1>6. cur \in Conns /\ last = 0 /\ seq = 0
  BY DEF Init
<1>7. Len(wire[cur]) = 0 /\ Len(replay[cur]) = 0 /\ Len(queue[cur]) = 0
  BY <1>1, <1>2, <1>6
<1>8. FollowsOn
  BY <1>1, <1>6, <1>7, FollowsEmpty DEF FollowsOn
<1>9. ShutFirst
  BY DEF Init, ShutFirst
<1> QED BY <1>3, <1>4, <1>5, <1>8, <1>9 DEF StreamInv

(* The inductive invariant holds: across connections, the wire, the replay *)
(* list and the queue of the client's connection follow on, without gap or *)
(* overlap, from the last number the client took.                          *)
THEOREM PipelineFollowsOn == Spec => []StreamInv
<1>1. TypeOK /\ StreamInv /\ [Next]_vars /\ TypeOK' => StreamInv'
  BY BufferStep, HandshakeStep, LastStep, ShutStep, FollowsOnStep DEF StreamInv
<1> QED BY <1>1, InitStreamInv, TypeCorrect, PTL DEF Spec

(* No frame is taken twice: what the client takes has the next number.     *)
THEOREM EachFrameIsNew == Spec => NoFrameTwice
<1>1. ASSUME TypeOK, StreamInv, [Next]_vars PROVE [Receive => last' = last + 1]_vars
  BY <1>1, ReceiveNext
<1> QED BY <1>1, TypeCorrect, PipelineFollowsOn, PTL DEF Spec, NoFrameTwice

(* A session is left without a connection only by the detach of the one it *)
(* had, which was shut: the cleanup of an old connection spares its        *)
(* successor (session.detach).                                             *)
THEOREM SuccessorSpared == Spec => DetachSparesSuccessor
<1>1. ASSUME TypeOK, StreamInv, [Next]_vars PROVE [bound # None /\ bound' = None => done[bound]]_vars
  <2> USE DEF serverVars, connVars, clientVars
  <2>1. SUFFICES ASSUME bound # None, bound' = None PROVE done[bound]
    OBVIOUS
  <2>2. CASE SlowDetach
    BY <2>1, <2>2 DEF SlowDetach, Unbind
  <2>3. ASSUME NEW c \in Conns, Detach(c) PROVE done[bound]
    <3>1. bound = c
      BY <2>1, <2>3 DEF Detach, Unbind
    <3>2. pc[c] \in {"leaving", "abort"}
      BY <2>3 DEF Detach
    <3> QED BY <1>1, <3>1, <3>2, Zenon DEF StreamInv, ShutFirst
  <2>4. ASSUME NEW c \in Conns, Attach(c) PROVE FALSE
    BY <2>1, <2>4 DEF Attach, Invalid, Reject
  <2>5. CASE UNCHANGED bound
    BY <2>1, <2>5
  <2> QED BY <1>1, <2>2, <2>3, <2>4, <2>5
          DEF Next, Handler, Dispatch, DispatchUnregistered, SlowShutdown, Sweep, Lookup,
              Invalid, Reject, Register, WriteReplay, GoLive, Leave, Heartbeat, Pump,
              PumpFail, CloseSocket, Reconnect, Receive, vars
<1> QED BY <1>1, TypeCorrect, PipelineFollowsOn, PTL DEF Spec, DetachSparesSuccessor

(* The session implements SessionStream: over any number of connections,   *)
(* RESUMEs, slow consumers and sweeps, the client takes the numbers in     *)
(* order, each once, until it is told INVALID_SESSION.                     *)
THEOREM StreamImplemented == Spec => ImplementsStream
<1> USE DEF serverVars, connVars, clientVars, Stream!vars
<1>1. Init => Stream!Init
  BY DEF Init, Stream!Init
<1>2. ASSUME TypeOK, StreamInv, [Next]_vars PROVE [Stream!Next]_(Stream!vars)
  <2>1. CASE Dispatch
    BY <2>1 DEF Dispatch, Stream!Next, Stream!Publish
  <2>2. CASE Receive
    <3>1. last' = last + 1 /\ last < seq
      BY <1>2, <2>2, ReceiveNext, PipelineTypes
    <3>2. ~lost /\ seq' = seq /\ lost' = lost
      BY <2>2 DEF Receive
    <3> QED BY <3>1, <3>2 DEF Stream!Next, Stream!Deliver
  <2>3. ASSUME NEW c \in Conns, Invalid(c) PROVE [Stream!Next]_(Stream!vars)
    <3>1. UNCHANGED <<seq, last>>
      BY <2>3 DEF Invalid, Reject
    <3>2. lost' = lost \/ lost' = TRUE
      BY <1>2, <2>3, Zenon DEF Invalid, TypeOK, Types
    <3> QED BY <3>1, <3>2 DEF Stream!Next, Stream!Invalidate
  <2>4. CASE UNCHANGED <<seq, last, lost>>
    BY <2>4
  <2> QED BY <1>2, <2>1, <2>2, <2>3, <2>4
          DEF Next, Handler, DispatchUnregistered, SlowShutdown, SlowDetach, Sweep, Lookup,
              Attach, Reject, Register, WriteReplay, GoLive, Leave, Detach, Heartbeat,
              Pump, PumpFail, CloseSocket, Reconnect, vars
<1> QED BY <1>1, <1>2, TypeCorrect, PipelineFollowsOn, PTL DEF Spec, ImplementsStream, Stream!Spec
=============================================================================
