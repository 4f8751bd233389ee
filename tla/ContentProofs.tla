---------------------------- MODULE ContentProofs ----------------------------
(***************************************************************************)
(* Proofs about MCContent and its parts, for any handlers, workers, users  *)
(* and listeners, and any bounds: that its seven properties hold in every  *)
(* behaviour. A part has a section with its invariant.                     *)
(*                                                                         *)
(* The handlers of most parts have no lock in common. An invariant then    *)
(* says of each handler between its steps what it has read and what is     *)
(* still to be written and told by it; and of what clients, counters and   *)
(* indexes lack, that some handler will bring it. Two handlers that meet   *)
(* in a way the code does not prevent are recorded by the model, and from  *)
(* then on the part of the invariant that they break is not claimed.       *)
(***************************************************************************)
EXTENDS MCContent, FiniteSetTheorems, SequenceTheorems, WellFoundedInduction, TLAPS

-----------------------------------------------------------------------------
(* What a user has read. *)

Pending(r) == readsRequest[r] # None /\ readsRequest[r].step \in {"save", "publish", "count"}

\* The mentions that are counted when the handlers under way are done.
Uncounted == {m \in mentions : \E r \in Requests : Pending(r) /\ readsRequest[r].id = m}
Counted   == {m \in mentions : m > last} \ Uncounted

ReadsTyped ==
  /\ ids \in Nat /\ last \in Nat /\ count \in Nat
  /\ messages \subseteq 1 .. ids /\ published \subseteq 1 .. ids
  /\ own \subseteq 1 .. ids /\ mentions \subseteq 1 .. ids /\ last <= ids
  /\ readsRequest \in [Requests -> ReadSlot \cup {None}]
  /\ \A r \in Requests : readsRequest[r] # None => readsRequest[r].id \in 1 .. ids

\* An id is that of one message, of one handler.
IdsAreTaken ==
  /\ own \cap mentions = {}
  /\ \A r, q \in Requests :
       Pending(r) /\ Pending(q) /\ readsRequest[r].id = readsRequest[q].id => r = q

OwnAreRead ==
  \A id \in own : id <= last \/ \E r \in Requests : Pending(r) /\ readsRequest[r].id = id

MentionsCounted ==
  ~ readsUntrue => (\A m \in Uncounted : m > last) /\ count = Cardinality(Counted)

ReadsInv == ReadsTyped /\ IdsAreTaken /\ OwnAreRead /\ MentionsCounted

\* A finite set of numbers has a largest: its smallest subset without one would
\* be the smaller for any of its members.
LEMMA Largest ==
  ASSUME NEW S \in SUBSET Nat, IsFiniteSet(S), S # {}
  PROVE  \E m \in S : \A x \in S : m >= x
<1> DEFINE Bad == {T \in SUBSET S : T # {} /\ ~ \E m \in T : \A x \in T : m >= x}
<1> SUFFICES ASSUME Bad # {} PROVE FALSE
  OBVIOUS
<1>1. PICK T \in Bad : \A U \in Bad : ~ (<<U, T>> \in StrictSubsetOrdering(S))
  <2>1. IsWellFoundedOn(StrictSubsetOrdering(S), FiniteSubsetsOf(S)) /\ Bad \subseteq FiniteSubsetsOf(S)
    BY FS_StrictSubsetOrderingWellFounded, FS_FiniteSubsetsOfFinite
  <2> HIDE DEF Bad
  <2> QED BY <2>1, WFMin
<1>2. PICK x \in T : TRUE
  OBVIOUS
<1>3. T \ {x} \notin Bad
  <2>1. SUFFICES ASSUME T \ {x} \in Bad PROVE <<T \ {x}, T>> \in StrictSubsetOrdering(S)
    BY <1>1
  <2> QED BY <2>1 DEF StrictSubsetOrdering
<1>4. T \ {x} # {}
  <2>1. SUFFICES ASSUME T \subseteq {x} PROVE \A y \in T : x >= y
    BY <1>2
  <2>2. \A y \in T : y = x /\ y \in Nat
    BY <2>1
  <2> QED BY <2>2
<1>5. PICK m \in T \ {x} : \A y \in T \ {x} : m >= y
  BY <1>3, <1>4
<1>6. CASE x <= m
  BY <1>5, <1>6
<1>7. CASE m <= x
  <2>1. \A y \in T : y \in Nat /\ (y = x \/ m >= y)
    BY <1>5
  <2>2. x \in Nat /\ m \in Nat /\ x \in T
    BY <1>5
  <2>3. \A y \in T : x >= y
    BY <1>7, <2>1, <2>2
  <2> QED BY <2>2, <2>3
<1> QED BY <1>5, <1>6, <1>7

\* Max of the community module is that largest one.
LEMMA MaxIsLargest ==
  ASSUME NEW S \in SUBSET Nat, IsFiniteSet(S), S # {}
  PROVE  Reads!Max(S) \in S /\ \A x \in S : Reads!Max(S) >= x
<1>1. \E m \in S : \A x \in S : m >= x
  BY Largest
<1> QED BY <1>1 DEF Reads!Max

LEMMA NumbersAreFinite ==
  ASSUME NEW n \in Nat, NEW S \in SUBSET (1 .. n)
  PROVE  IsFiniteSet(S)
<1>1. IsFiniteSet(1 .. n)
  BY FS_Interval
<1> QED BY <1>1, FS_Subset

LEMMA GreatestIsGreater ==
  ASSUME NEW id \in Nat, last \in Nat
  PROVE  /\ Reads!Greatest(id) \in {id, last}
         /\ Reads!Greatest(id) >= last /\ Reads!Greatest(id) >= id
<1>1. IsFiniteSet({last, id})
  <2>1. {last, id} = {last} \cup {id}
    OBVIOUS
  <2>2. IsFiniteSet({last})
    BY FS_Singleton
  <2>3. IsFiniteSet({last} \cup {id})
    BY <2>2, FS_AddElement
  <2> QED BY <2>1, <2>3
<1>2. Reads!Max({last, id}) \in {last, id} /\ \A x \in {last, id} : Reads!Max({last, id}) >= x
  BY <1>1, MaxIsLargest
<1> QED BY <1>2 DEF Reads!Greatest

LEMMA SameCount == ASSUME NEW S PROVE Reads!Cardinality(S) = Cardinality(S)
  BY DEF Cardinality, Reads!Cardinality

LEMMA ReadSlots ==
  \A s \in {"save", "publish", "count", "ack"}, i \in Nat :
    LET new == [step |-> s, id |-> i]
    IN  new \in ReadSlot /\ new # None /\ new.step = s /\ new.id = i
<1>1. \A s \in {"save", "publish", "count", "ack"}, i \in Nat :
        [step |-> s, id |-> i] \in ReadSlot
  BY DEF ReadSlot
<1> QED BY <1>1, NoneIsNoValue

LEMMA ReadsInit == Init => ReadsInv
<1> SUFFICES ASSUME Init PROVE ReadsInv
  OBVIOUS
<1>1. /\ ids = 0 /\ messages = {} /\ published = {} /\ own = {} /\ mentions = {}
      /\ readsRequest = [r \in Requests |-> None] /\ last = 0 /\ count = 0 /\ readsUntrue = FALSE
  BY DEF Init, Reads!Init
<1>2. Cardinality(Counted) = 0
  <2>1. Counted = {}
    BY <1>1 DEF Counted
  <2> QED BY <2>1, FS_EmptySet
<1>3. Uncounted = {}
  BY <1>1 DEF Uncounted
<1>4. MentionsCounted
  BY <1>1, <1>2, <1>3 DEF MentionsCounted
<1>5. ReadsTyped
  <2>1. ids \in Nat /\ last \in Nat /\ count \in Nat /\ last <= ids
    BY <1>1
  <2>2. /\ messages \subseteq 1 .. ids /\ published \subseteq 1 .. ids
        /\ own \subseteq 1 .. ids /\ mentions \subseteq 1 .. ids
    BY <1>1
  <2>3. readsRequest \in [Requests -> ReadSlot \cup {None}]
    BY <1>1
  <2>4. \A r \in Requests : readsRequest[r] = None
    BY <1>1
  <2> QED BY <2>1, <2>2, <2>3, <2>4 DEF ReadsTyped
<1> QED BY <1>1, <1>4, <1>5 DEF ReadsInv, IdsAreTaken, OwnAreRead, Pending

\* An ack, of whatever id: it leaves no mention that would have to be counted
\* unless it says so.
LEMMA Acknowledged ==
  ASSUME ReadsInv, NEW id \in 1 .. ids, Reads!AdvanceReadState(id),
         UNCHANGED <<ids, messages, published, own, mentions>>,
         \/ UNCHANGED readsRequest
         \/ \E r \in Requests : /\ readsRequest[r] # None /\ readsRequest[r].id = id
                                /\ readsRequest' = [readsRequest EXCEPT ![r] = None]
  PROVE  ReadsInv'
<1>1. /\ last' \in {id, last} /\ last' >= last /\ last' >= id /\ count' = 0
      /\ readsUntrue' = (readsUntrue \/ Reads!Missed(id)) /\ last' = Reads!Greatest(id)
  BY GreatestIsGreater DEF ReadsInv, ReadsTyped, Reads!AdvanceReadState
<1>2. ReadsTyped'
  BY <1>1 DEF ReadsInv, ReadsTyped, Reads!Missed
<1>3. \A q \in Requests : readsRequest'[q] # None => readsRequest'[q] = readsRequest[q]
  BY DEF ReadsInv, ReadsTyped
<1>4. IdsAreTaken'
  BY <1>3 DEF ReadsInv, IdsAreTaken, Pending
<1>5. OwnAreRead'
  <2> SUFFICES ASSUME NEW o \in own
               PROVE o <= last' \/ \E r \in Requests : Pending(r)' /\ readsRequest'[r].id = o
    BY DEF OwnAreRead
  <2>1. o \in Nat /\ id \in Nat /\ last \in Nat /\ last' \in Nat
    BY <1>1 DEF ReadsInv, ReadsTyped
  <2>2. CASE o <= last
    BY <1>1, <2>1, <2>2
  <2>3. CASE o = id
    BY <1>1, <2>1, <2>3
  <2>4. ASSUME NEW r \in Requests, Pending(r), readsRequest[r].id = o, o # id
        PROVE  Pending(r)' /\ readsRequest'[r].id = o
    BY <2>4 DEF ReadsInv, ReadsTyped, Pending
  <2> QED BY <2>2, <2>3, <2>4 DEF ReadsInv, OwnAreRead
<1>6. MentionsCounted'
  <2> SUFFICES ASSUME ~ readsUntrue' PROVE Uncounted' = {} /\ Counted' = {}
    BY <1>1, FS_EmptySet DEF MentionsCounted
  <2>0. ~ Reads!Missed(id) /\ last' \in Nat
    BY <1>1, <1>2 DEF ReadsTyped
  <2>1. \A m \in mentions : m \in Nat /\ m <= ids /\ ~ (m > last')
    BY <1>1, <2>0 DEF Reads!Missed, ReadsInv, ReadsTyped
  <2>2. ASSUME NEW r \in Requests, Pending(r) PROVE readsRequest[r].id \notin mentions
    <3> SUFFICES ASSUME readsRequest[r].id \in mentions PROVE FALSE
      OBVIOUS
    <3>1. readsRequest[r].id <= Reads!Greatest(id)
      BY <1>1, <2>0, <2>1
    <3> QED BY <2>0, <2>2, <3>1 DEF Reads!Missed, Pending
  <2>3. \A r \in Requests : Pending(r)' => readsRequest'[r].id \notin mentions
    BY <1>3, <2>2 DEF Pending
  <2> QED BY <2>1, <2>3 DEF Uncounted, Counted
<1> QED BY <1>2, <1>4, <1>5, <1>6 DEF ReadsInv

LEMMA ReadsNext == ReadsInv /\ [Next]_vars => ReadsInv'
<1> SUFFICES ASSUME ReadsInv, [Next]_vars PROVE ReadsInv'
  OBVIOUS
<1>t. ReadsTyped /\ IdsAreTaken /\ OwnAreRead /\ MentionsCounted
  BY DEF ReadsInv
<1>1. ASSUME NEW r \in Requests, Reads!TakeId(r) PROVE ReadsInv'
  <2> DEFINE new == [step |-> "save", id |-> ids + 1]
  <2>1. /\ readsRequest[r] = None /\ ids' = ids + 1 /\ readsRequest' = [readsRequest EXCEPT ![r] = new]
        /\ \/ own' = own \cup {ids + 1} /\ mentions' = mentions
           \/ mentions' = mentions \cup {ids + 1} /\ own' = own
           \/ own' = own /\ mentions' = mentions
        /\ UNCHANGED <<messages, published, last, count, readsUntrue>>
    BY <1>1 DEF Reads!TakeId, Reads!Goes
  <2>2. new \in ReadSlot /\ new # None /\ new.step = "save" /\ new.id = ids + 1
    BY <1>t, ReadSlots DEF ReadsTyped
  <2> HIDE DEF new
  <2>3. ReadsTyped'
    <3>1. ids \in Nat /\ ids + 1 \in Nat /\ 1 .. ids \subseteq 1 .. (ids + 1) /\ ids + 1 \in 1 .. (ids + 1)
      BY <1>t DEF ReadsTyped
    <3>2. readsRequest' \in [Requests -> ReadSlot \cup {None}]
      BY <1>t, <2>1, <2>2 DEF ReadsTyped
    <3>3. \A q \in Requests : readsRequest'[q] # None => readsRequest'[q].id \in 1 .. ids'
      BY <1>t, <2>1, <2>2, <3>1 DEF ReadsTyped
    <3>4. own' \subseteq 1 .. ids' /\ mentions' \subseteq 1 .. ids'
      BY <1>t, <2>1, <3>1 DEF ReadsTyped
    <3> QED BY <1>t, <2>1, <3>1, <3>2, <3>3, <3>4 DEF ReadsTyped
  <2>4. /\ \A q \in Requests \ {r} : readsRequest'[q] = readsRequest[q] /\ Pending(q)' = Pending(q)
        /\ Pending(r)' /\ ~ Pending(r) /\ readsRequest'[r].id = ids + 1
        /\ \A q \in Requests : Pending(q) => readsRequest[q].id <= ids
    BY <1>t, <2>1, <2>2 DEF ReadsTyped, Pending
  <2>5. IdsAreTaken'
    <3>1. ids + 1 \notin own /\ ids + 1 \notin mentions /\ ~ (ids + 1 <= ids)
      BY <1>t DEF ReadsTyped
    <3> QED BY <1>t, <2>1, <2>4, <3>1 DEF IdsAreTaken
  <2>6. OwnAreRead'
    BY <1>t, <2>1, <2>4 DEF ReadsTyped, OwnAreRead
  <2>7. MentionsCounted'
    <3> SUFFICES ASSUME ~ readsUntrue' PROVE MentionsCounted'
      BY DEF MentionsCounted
    <3>1. /\ ids + 1 \notin mentions /\ ids + 1 > last /\ ids + 1 \in Nat
          /\ Uncounted' = Uncounted \cup (mentions' \cap {ids + 1})
      BY <1>t, <2>1, <2>4 DEF ReadsTyped, Uncounted
    <3>2. Counted' = Counted
      BY <2>1, <3>1 DEF Counted
    <3> QED BY <1>t, <2>1, <3>1, <3>2 DEF MentionsCounted
  <2> QED BY <2>3, <2>5, <2>6, <2>7 DEF ReadsInv
<1>2. ASSUME NEW r \in Requests, Reads!CreateMessage(r) \/ Reads!PublishMessageEvent(r)
      PROVE  ReadsInv'
  <2>1. PICK s \in {"publish", "count"} :
          readsRequest' = [readsRequest EXCEPT ![r] = [step |-> s, id |-> readsRequest[r].id]]
    BY <1>2 DEF Reads!CreateMessage, Reads!PublishMessageEvent, Reads!Goes
  <2> DEFINE new == [step |-> s, id |-> readsRequest[r].id]
  <2>2. /\ Pending(r) /\ readsRequest' = [readsRequest EXCEPT ![r] = new]
        /\ messages' \in {messages, messages \cup {readsRequest[r].id}}
        /\ published' \in {published, published \cup {readsRequest[r].id}}
        /\ UNCHANGED <<ids, own, mentions, last, count, readsUntrue>>
    BY <1>2, <2>1 DEF Reads!CreateMessage, Reads!PublishMessageEvent, Reads!Doing, Pending
  <2>3. new \in ReadSlot /\ new # None /\ new.step = s /\ new.id = readsRequest[r].id
    <3>1. readsRequest[r].id \in Nat
      BY <1>t, <2>2 DEF ReadsTyped, Pending
    <3> QED BY <3>1, ReadSlots
  <2> HIDE DEF new
  <2>4. ReadsTyped'
    BY <1>t, <2>2, <2>3 DEF ReadsTyped, Pending
  <2>5. \A q \in Requests : Pending(q)' = Pending(q) /\ (Pending(q) => readsRequest'[q].id = readsRequest[q].id)
    BY <1>t, <2>2, <2>3 DEF ReadsTyped, Pending
  <2>6. Uncounted' = Uncounted
    BY <2>2, <2>5 DEF Uncounted
  <2>7. Counted' = Counted
    BY <2>2, <2>6 DEF Counted
  <2> QED BY <1>t, <2>2, <2>4, <2>5, <2>6, <2>7 DEF ReadsInv, IdsAreTaken, OwnAreRead, MentionsCounted
<1>3. ASSUME NEW r \in Requests, Reads!MarkAuthorReadOnSend(r) \/ Reads!AckGuildSaves(r)
      PROVE  ReadsInv'
  <2>1. readsRequest[r] # None /\ Reads!AdvanceReadState(readsRequest[r].id) /\ Reads!Ends(r)
    BY <1>3 DEF Reads!MarkAuthorReadOnSend, Reads!AckGuildSaves, Reads!Doing
  <2>2. UNCHANGED <<ids, messages, published, own, mentions>>
    BY <1>3 DEF Reads!MarkAuthorReadOnSend, Reads!AckGuildSaves
  <2> QED BY <1>t, <2>1, <2>2, Acknowledged DEF ReadsTyped, Reads!Ends
<1>4. CASE Reads!AckMessage
  BY <1>t, <1>4, Acknowledged DEF ReadsTyped, Reads!AckMessage
<1>5. ASSUME NEW r \in Requests, Reads!BumpMentionCounts(r) PROVE ReadsInv'
  <2> DEFINE id == readsRequest[r].id
  <2>1. /\ Pending(r) /\ id \notin own /\ readsRequest' = [readsRequest EXCEPT ![r] = None]
        /\ count' = IF id \in mentions THEN count + 1 ELSE count
        /\ UNCHANGED <<ids, messages, published, own, mentions, last, readsUntrue>>
    BY <1>5 DEF Reads!BumpMentionCounts, Reads!Doing, Reads!Ends, Pending
  <2>2. ReadsTyped'
    BY <1>t, <2>1 DEF ReadsTyped
  <2>3. /\ \A q \in Requests \ {r} : readsRequest'[q] = readsRequest[q] /\ Pending(q)' = Pending(q)
        /\ ~ Pending(r)' /\ id \in Nat
    BY <1>t, <2>1 DEF ReadsTyped, Pending
  <2>4. IdsAreTaken'
    BY <1>t, <2>1, <2>3 DEF ReadsTyped, IdsAreTaken
  <2>5. OwnAreRead'
    BY <1>t, <2>1, <2>3 DEF ReadsTyped, OwnAreRead
  <2>6. MentionsCounted'
    <3> SUFFICES ASSUME ~ readsUntrue' PROVE MentionsCounted'
      BY DEF MentionsCounted
    <3>1. Uncounted' = Uncounted \ {id}
      BY <1>t, <2>1, <2>3 DEF Uncounted, IdsAreTaken
    <3>2. CASE id \notin mentions
      <4>1. Uncounted' = Uncounted /\ Counted' = Counted
        BY <2>1, <3>1, <3>2 DEF Uncounted, Counted
      <4> QED BY <1>t, <2>1, <3>2, <4>1 DEF MentionsCounted
    <3>3. CASE id \in mentions
      <4>1. id \in Uncounted
        BY <2>1, <3>3 DEF Uncounted
      <4>2. id > last /\ id \notin Counted
        BY <1>t, <2>1, <4>1 DEF MentionsCounted, Counted
      <4>3. Counted' = Counted \cup {id}
        BY <2>1, <3>1, <3>3, <4>1, <4>2 DEF Counted
      <4>4. IsFiniteSet(Counted)
        BY <1>t, NumbersAreFinite DEF Counted, ReadsTyped
      <4>5. Cardinality(Counted') = Cardinality(Counted) + 1
        BY <4>2, <4>3, <4>4, FS_AddElement
      <4> QED BY <1>t, <2>1, <3>1, <3>3, <4>5 DEF MentionsCounted
    <3> QED BY <3>2, <3>3
  <2> QED BY <2>2, <2>4, <2>5, <2>6 DEF ReadsInv
<1>6. ASSUME NEW r \in Requests, Reads!AckGuild(r) PROVE ReadsInv'
  <2> DEFINE new == [step |-> "ack", id |-> Reads!Max(messages)]
  <2>1. /\ readsRequest[r] = None /\ messages # {} /\ readsRequest' = [readsRequest EXCEPT ![r] = new]
        /\ UNCHANGED <<ids, messages, published, own, mentions, last, count, readsUntrue>>
    BY <1>6 DEF Reads!AckGuild, Reads!Goes
  <2>2. Reads!Max(messages) \in messages
    <3>0. ids \in Nat /\ messages \in SUBSET (1 .. ids)
      BY <1>t DEF ReadsTyped
    <3>1. IsFiniteSet(messages) /\ messages \in SUBSET Nat
      <4>1. IsFiniteSet(messages)
        BY <3>0, NumbersAreFinite
      <4> QED BY <3>0, <4>1
    <3> QED BY <2>1, <3>1, MaxIsLargest
  <2>3. new \in ReadSlot /\ new # None /\ new.step = "ack" /\ new.id \in 1 .. ids
    <3>0. messages \subseteq 1 .. ids /\ ids \in Nat
      BY <1>t DEF ReadsTyped
    <3>1. \A m \in messages : m \in 1 .. ids /\ m \in Nat
      BY <3>0
    <3> QED BY <2>2, <3>1, ReadSlots
  <2> HIDE DEF new
  <2>4. ReadsTyped'
    BY <1>t, <2>1, <2>3 DEF ReadsTyped
  <2>5. \A q \in Requests : Pending(q)' = Pending(q) /\ (Pending(q) => readsRequest'[q] = readsRequest[q])
    BY <1>t, <2>1, <2>3 DEF ReadsTyped, Pending
  <2>6. Uncounted' = Uncounted
    BY <2>1, <2>5 DEF Uncounted
  <2>7. Counted' = Counted
    BY <2>1, <2>6 DEF Counted
  <2> QED BY <1>t, <2>1, <2>4, <2>5, <2>6, <2>7 DEF ReadsInv, IdsAreTaken, OwnAreRead, MentionsCounted
<1>7. CASE UNCHANGED readsVars
  <2>1. UNCHANGED <<ids, messages, published, own, mentions, readsRequest, last, count, readsUntrue>>
    BY <1>7 DEF readsVars
  <2>2. Uncounted' = Uncounted /\ Counted' = Counted
    BY <2>1 DEF Uncounted, Counted, Pending
  <2> QED BY <1>t, <2>1, <2>2
        DEF ReadsInv, ReadsTyped, IdsAreTaken, OwnAreRead, MentionsCounted, Pending
<1> QED BY <1>1, <1>2, <1>3, <1>4, <1>5, <1>6, <1>7 DEF Next, vars, Reads!Next

(* When no handler is under way, a user has read what he wrote himself,    *)
(* and the count is that of the mentions he has not read, unless an ack    *)
(* came before a mention it covers was counted or covered less than there  *)
(* was, whatever the order in which messages and acks take their steps.    *)
THEOREM ReadsHold == Spec => []ReadsAreTrue
<1>1. ReadsInv => ReadsAreTrue
  <2> SUFFICES ASSUME ReadsInv, Reads!Quiet
               PROVE  /\ \A id \in own : id <= last
                      /\ readsUntrue \/ count = Cardinality({m \in mentions : m > last})
    BY SameCount DEF ReadsAreTrue, Reads!ReadsAreTrue
  <2>1. \A r \in Requests : ~ Pending(r)
    BY DEF Reads!Quiet, Pending
  <2>2. Counted = {m \in mentions : m > last}
    BY <2>1 DEF Counted, Uncounted
  <2> QED BY <2>1, <2>2 DEF ReadsInv, OwnAreRead, MentionsCounted
<1> QED BY <1>1, ReadsInit, ReadsNext, PTL DEF Spec

-----------------------------------------------------------------------------
(* One attachment. *)

FilesTyped ==
  /\ attachment \in {"none", "presigned", "uploaded", "gone"}
  /\ message \in {None, "live", "deleted", "expiring"}
  /\ upload \in [Uploads -> {None, "writing", "written"}]
  /\ listed \in {"no", "listed", "removed"}

\* Until two steps cross: one upload at a time, and none of what is uploaded;
\* what is written or uploaded is there until the collector removes it, who
\* does not look at what is sent.
OneUpload ==
  /\ \A u, v \in Uploads : upload[u] # None /\ upload[v] # None => u = v
  /\ attachment \notin {"presigned", "gone"} => \A u \in Uploads : upload[u] = None

WholeFile ==
  /\ attachment = "presigned" /\ listed # "removed" =>
       \A u \in Uploads : upload[u] = "written" => object = "whole"
  /\ attachment = "uploaded" /\ listed # "removed" => object = "whole"
  /\ message = "live" => listed = "no" /\ attachment = "uploaded"

FilesInv == FilesTyped /\ (~ filesCrossed => OneUpload /\ WholeFile)

LEMMA FilesInit == Init => FilesInv
  BY NoneIsNoValue DEF Init, Attached!Init, FilesInv, FilesTyped, OneUpload, WholeFile

LEMMA FilesNext == FilesInv /\ [Next]_vars => FilesInv'
<1> SUFFICES ASSUME FilesInv, [Next]_vars PROVE FilesInv'
  OBVIOUS
<1> USE NoneIsNoValue DEF FilesInv, FilesTyped, OneUpload, WholeFile
<1>1. CASE Attached!PresignAttachment
  BY <1>1 DEF Attached!PresignAttachment
<1>2. CASE Attached!CreateMessage \/ Attached!DeleteMessage
  BY <1>2 DEF Attached!CreateMessage, Attached!DeleteMessage
<1>3. ASSUME NEW u \in Uploads, Attached!UploadAttachmentContent(u) PROVE FilesInv'
  BY <1>3 DEF Attached!UploadAttachmentContent, Attached!Goes
<1>4. ASSUME NEW u \in Uploads, Attached!Save(u) \/ Attached!SaveFails(u) PROVE FilesInv'
  BY <1>4 DEF Attached!Save, Attached!SaveFails, Attached!Goes
<1>5. ASSUME NEW u \in Uploads, Attached!MarkUploaded(u) PROVE FilesInv'
  BY <1>5 DEF Attached!MarkUploaded, Attached!Written, Attached!Goes
<1>6. CASE Attached!Ages
  BY <1>6 DEF Attached!Ages
<1>7. CASE \/ Attached!GcUnboundAttachments \/ Attached!GcDeletedMessageAttachments
           \/ Attached!ApplyRetention
  BY <1>7 DEF Attached!GcUnboundAttachments, Attached!GcDeletedMessageAttachments,
              Attached!ApplyRetention, Attached!Lists
<1>8. CASE Attached!DeleteObject \/ Attached!DeleteRow
  BY <1>8 DEF Attached!DeleteObject, Attached!DeleteRow
<1>9. CASE UNCHANGED filesVars
  BY <1>9 DEF filesVars
<1> QED BY <1>1, <1>2, <1>3, <1>4, <1>5, <1>6, <1>7, <1>8, <1>9 DEF Next, vars, Attached!Next

-----------------------------------------------------------------------------
(* One channel. *)

RoomsTyped ==
  /\ row \in {None, "", "category"} /\ password \in Nat /\ unlocked \in Nat
  /\ roomsRequest \in [Requests -> RoomSlot \cup {None}]

In(r, step) == roomsRequest[r] # None /\ roomsRequest[r].step = step

\* While a channel is created, none is shown and nobody is at it, except that
\* its category may be deleted.
CreatedAlone ==
  \A r \in Requests : In(r, "create") =>
    /\ row = None /\ roomsShown = None
    /\ \A q \in Requests \ {r} :
         roomsRequest[q] = None \/ (In(q, "category") /\ ~ roomsRequest[q].seen)

\* What the client does not show as it is will still be told.
WillBeShown ==
  \/ roomsUntrue \/ refetch
  \/ IF row # None /\ ~ hidden
       THEN roomsShown = row \/ \E r \in Requests : In(r, "publish")
       ELSE roomsShown = None \/ \E r \in Requests : In(r, "deleted") /\ roomsRequest[r].seen

ParentIsThere == dangling \/ row # "category" \/ category

\* Who unlocks the channel does so by its password, or loses it soon.
LockHolds ==
  ~ relocked =>
    /\ \A r \in Requests : In(r, "unlock") => roomsRequest[r].key = password
    /\ unlocked \in {0, password} \/ \E r \in Requests : In(r, "revoke")

RoomsInv == RoomsTyped /\ CreatedAlone /\ WillBeShown /\ ParentIsThere /\ LockHolds

LEMMA RoomsInit == Init => RoomsInv
<1> SUFFICES ASSUME Init PROVE RoomsInv
  OBVIOUS
<1>1. /\ category = TRUE /\ row = None /\ hidden = FALSE /\ password = 0 /\ unlocked = 0
      /\ roomsRequest = [r \in Requests |-> None] /\ refetch = FALSE /\ roomsShown = None
      /\ roomsUntrue = FALSE /\ relocked = FALSE
  BY DEF Init, Rooms!Init
<1>2. RoomsTyped
  BY <1>1 DEF RoomsTyped
<1>3. \A r \in Requests : roomsRequest[r] = None
  BY <1>1
<1> QED BY <1>1, <1>2, <1>3, NoneIsNoValue
      DEF RoomsInv, In, CreatedAlone, WillBeShown, ParentIsThere, LockHolds

\* The handler r is at a slot of the given step, or at none, and nobody else moves.
Moves(r, new) ==
  /\ roomsRequest' \in [Requests -> RoomSlot \cup {None}]
  /\ roomsRequest'[r] = new /\ \A q \in Requests \ {r} : roomsRequest'[q] = roomsRequest[q]

LEMMA RoomBegins ==
  ASSUME RoomsTyped, NEW r \in Requests, NEW new \in RoomSlot,
         roomsRequest' = [roomsRequest EXCEPT ![r] = new]
  PROVE  Moves(r, new) /\ new # None
BY NoneIsNoValue DEF RoomsTyped, Moves

LEMMA RoomGoes ==
  ASSUME RoomsTyped, NEW r \in Requests, NEW s \in RoomSteps, roomsRequest[r] # None,
         Rooms!Goes(r, s)
  PROVE  \E new \in RoomSlot :
           /\ Moves(r, new) /\ new # None /\ new.step = s
           /\ new.parent = roomsRequest[r].parent /\ new.seen = roomsRequest[r].seen
<1> DEFINE new == [roomsRequest[r] EXCEPT !.step = s]
<1>1. roomsRequest[r] \in RoomSlot /\ roomsRequest' = [roomsRequest EXCEPT ![r] = new]
  BY DEF RoomsTyped, Rooms!Goes
<1>2. /\ new \in RoomSlot /\ new.step = s
      /\ new.parent = roomsRequest[r].parent /\ new.seen = roomsRequest[r].seen
  BY <1>1 DEF RoomSlot
<1>3. new # None
  BY <1>2, NoneIsNoValue
<1> HIDE DEF new
<1>4. Moves(r, new)
  BY <1>1, <1>2 DEF RoomsTyped, Moves
<1> QED BY <1>2, <1>3, <1>4

LEMMA RoomFields ==
  ASSUME RoomsTyped, NEW r \in Requests, roomsRequest[r] # None
  PROVE  roomsRequest[r].parent \in {"", "category"} /\ roomsRequest[r].key \in Nat
<1>1. roomsRequest[r] \in RoomSlot
  BY DEF RoomsTyped
<1> QED BY <1>1 DEF RoomSlot

LEMMA RoomEnds ==
  ASSUME RoomsTyped, NEW r \in Requests, Rooms!Ends(r)
  PROVE  Moves(r, None)
BY DEF RoomsTyped, Moves, Rooms!Ends

LEMMA RoomsNext == RoomsInv /\ [Next]_vars => RoomsInv'
<1> SUFFICES ASSUME RoomsInv, [Next]_vars PROVE RoomsInv'
  OBVIOUS
<1>t. RoomsTyped /\ CreatedAlone /\ WillBeShown /\ ParentIsThere /\ LockHolds
  BY DEF RoomsInv
<1>1. ASSUME NEW r \in Requests, Rooms!CreateChannel(r) PROVE RoomsInv'
  <2>1. PICK new \in RoomSlot : roomsRequest[r] = None /\ Moves(r, new) /\ new # None /\ new.step = "create"
    <3>1. PICK p \in {"", "category"}, b \in BOOLEAN :
            /\ roomsRequest[r] = None
            /\ roomsRequest' = [roomsRequest EXCEPT ![r] = Rooms!Slot("create", p, b, 0)]
      BY <1>t, <1>1 DEF Rooms!CreateChannel, Rooms!Begins, Rooms!Parents, Rooms!Visible, RoomsTyped
    <3> DEFINE slot == Rooms!Slot("create", p, b, 0)
    <3>2. slot \in RoomSlot /\ slot.step = "create"
      BY <1>t DEF RoomsTyped, RoomSteps, RoomSlot, Rooms!Slot
    <3> HIDE DEF slot
    <3> QED BY <1>t, <3>1, <3>2, RoomBegins DEF slot
  <2>2. RoomsTyped'
    BY <1>t, <1>1, <2>1, NoneIsNoValue, BoundsAreNumbers
       DEF RoomsTyped, In, Moves, Rooms!CreateChannel, Rooms!Unshown, Rooms!Unlocked
  <2>3. CreatedAlone'
    BY <1>t, <1>1, <2>1, NoneIsNoValue, BoundsAreNumbers
       DEF RoomsTyped, CreatedAlone, In, Moves, Rooms!CreateChannel, Rooms!Unshown, Rooms!Unlocked
  <2>4. WillBeShown'
    BY <1>t, <1>1, <2>1, NoneIsNoValue, BoundsAreNumbers
       DEF RoomsTyped, WillBeShown, In, Moves, Rooms!CreateChannel, Rooms!Unshown, Rooms!Unlocked
  <2>5. ParentIsThere'
    BY <1>t, <1>1, <2>1, NoneIsNoValue, BoundsAreNumbers
       DEF RoomsTyped, ParentIsThere, In, Moves, Rooms!CreateChannel, Rooms!Unshown, Rooms!Unlocked
  <2>6. LockHolds'
    BY <1>t, <1>1, <2>1, NoneIsNoValue, BoundsAreNumbers
       DEF RoomsTyped, LockHolds, In, Moves, Rooms!CreateChannel, Rooms!Unshown, Rooms!Unlocked
  <2> QED BY <2>2, <2>3, <2>4, <2>5, <2>6 DEF RoomsInv
<1>2. ASSUME NEW r \in Requests, Rooms!CreateWrites(r) PROVE RoomsInv'
  <2>1. PICK new \in RoomSlot : In(r, "create") /\ Moves(r, new) /\ new # None /\ new.step = "publish"
    BY <1>t, <1>2, RoomGoes DEF Rooms!CreateWrites, Rooms!Doing, RoomSteps, In
  <2>0. roomsRequest[r].parent \in {"", "category"} /\ roomsRequest[r].key \in Nat
    BY <1>t, <2>1, RoomFields DEF In
  <2>2. RoomsTyped'
    BY <1>t, <1>2, <2>0, <2>1, NoneIsNoValue, BoundsAreNumbers
       DEF RoomsTyped, In, Moves, Rooms!CreateWrites, Rooms!Unshown, Rooms!Unlocked
  <2>3. CreatedAlone'
    BY <1>t, <1>2, <2>0, <2>1, NoneIsNoValue, BoundsAreNumbers
       DEF RoomsTyped, CreatedAlone, In, Moves, Rooms!CreateWrites, Rooms!Unshown, Rooms!Unlocked
  <2>4. WillBeShown'
    <3>1. roomsShown = None /\ roomsShown' = None
      BY <1>t, <1>2, <2>1 DEF CreatedAlone, Rooms!CreateWrites, Rooms!Unshown
    <3>2. In(r, "publish")'
      BY <2>1 DEF In, Moves
    <3> QED BY <3>1, <3>2 DEF WillBeShown
  <2>5. ParentIsThere'
    BY <1>t, <1>2, <2>0, <2>1, NoneIsNoValue, BoundsAreNumbers
       DEF RoomsTyped, ParentIsThere, In, Moves, Rooms!CreateWrites, Rooms!Unshown, Rooms!Unlocked
  <2>6. LockHolds'
    BY <1>t, <1>2, <2>0, <2>1, NoneIsNoValue, BoundsAreNumbers
       DEF RoomsTyped, LockHolds, In, Moves, Rooms!CreateWrites, Rooms!Unshown, Rooms!Unlocked
  <2> QED BY <2>2, <2>3, <2>4, <2>5, <2>6 DEF RoomsInv
<1>3. ASSUME NEW r \in Requests, Rooms!UpdateChannel(r) PROVE RoomsInv'
  <2>1. PICK new \in RoomSlot : roomsRequest[r] = None /\ Moves(r, new) /\ new # None /\ new.step = "update"
    <3>1. PICK p \in {"", "category"}, b \in BOOLEAN :
            /\ roomsRequest[r] = None
            /\ roomsRequest' = [roomsRequest EXCEPT ![r] = Rooms!Slot("update", p, b, 0)]
      BY <1>t, <1>3 DEF Rooms!UpdateChannel, Rooms!Begins, Rooms!Parents, Rooms!Visible, RoomsTyped
    <3> DEFINE slot == Rooms!Slot("update", p, b, 0)
    <3>2. slot \in RoomSlot /\ slot.step = "update"
      BY <1>t DEF RoomsTyped, RoomSteps, RoomSlot, Rooms!Slot
    <3> HIDE DEF slot
    <3> QED BY <1>t, <3>1, <3>2, RoomBegins DEF slot
  <2>2. RoomsTyped'
    BY <1>t, <1>3, <2>1, NoneIsNoValue, BoundsAreNumbers
       DEF RoomsTyped, In, Moves, Rooms!UpdateChannel, Rooms!Unshown, Rooms!Unlocked
  <2>3. CreatedAlone'
    BY <1>t, <1>3, <2>1, NoneIsNoValue, BoundsAreNumbers
       DEF RoomsTyped, CreatedAlone, In, Moves, Rooms!UpdateChannel, Rooms!Unshown, Rooms!Unlocked
  <2>4. WillBeShown'
    BY <1>t, <1>3, <2>1, NoneIsNoValue, BoundsAreNumbers
       DEF RoomsTyped, WillBeShown, In, Moves, Rooms!UpdateChannel, Rooms!Unshown, Rooms!Unlocked
  <2>5. ParentIsThere'
    BY <1>t, <1>3, <2>1, NoneIsNoValue, BoundsAreNumbers
       DEF RoomsTyped, ParentIsThere, In, Moves, Rooms!UpdateChannel, Rooms!Unshown, Rooms!Unlocked
  <2>6. LockHolds'
    BY <1>t, <1>3, <2>1, NoneIsNoValue, BoundsAreNumbers
       DEF RoomsTyped, LockHolds, In, Moves, Rooms!UpdateChannel, Rooms!Unshown, Rooms!Unlocked
  <2> QED BY <2>2, <2>3, <2>4, <2>5, <2>6 DEF RoomsInv
<1>4. ASSUME NEW r \in Requests, Rooms!UpdateWrites(r) PROVE RoomsInv'
  <2>1. PICK new \in RoomSlot : In(r, "update") /\ Moves(r, new) /\ new # None /\ new.step = "publish"
    BY <1>t, <1>4, RoomGoes DEF Rooms!UpdateWrites, Rooms!Doing, RoomSteps, In
  <2>0. roomsRequest[r].parent \in {"", "category"} /\ roomsRequest[r].key \in Nat
    BY <1>t, <2>1, RoomFields DEF In
  <2>2. RoomsTyped'
    BY <1>t, <1>4, <2>0, <2>1, NoneIsNoValue, BoundsAreNumbers
       DEF RoomsTyped, In, Moves, Rooms!UpdateWrites, Rooms!Unshown, Rooms!Unlocked
  <2>3. CreatedAlone'
    BY <1>t, <1>4, <2>0, <2>1, NoneIsNoValue, BoundsAreNumbers
       DEF RoomsTyped, CreatedAlone, In, Moves, Rooms!UpdateWrites, Rooms!Unshown, Rooms!Unlocked
  <2>4. WillBeShown'
    BY <1>t, <1>4, <2>0, <2>1, NoneIsNoValue, BoundsAreNumbers
       DEF RoomsTyped, WillBeShown, In, Moves, Rooms!UpdateWrites, Rooms!Unshown, Rooms!Unlocked
  <2>5. ParentIsThere'
    BY <1>t, <1>4, <2>0, <2>1, NoneIsNoValue, BoundsAreNumbers
       DEF RoomsTyped, ParentIsThere, In, Moves, Rooms!UpdateWrites, Rooms!Unshown, Rooms!Unlocked
  <2>6. LockHolds'
    BY <1>t, <1>4, <2>0, <2>1, NoneIsNoValue, BoundsAreNumbers
       DEF RoomsTyped, LockHolds, In, Moves, Rooms!UpdateWrites, Rooms!Unshown, Rooms!Unlocked
  <2> QED BY <2>2, <2>3, <2>4, <2>5, <2>6 DEF RoomsInv
<1>5. ASSUME NEW r \in Requests, Rooms!PublishChannel(r) PROVE RoomsInv'
  <2>1. In(r, "publish") /\ Moves(r, None)
    BY <1>t, <1>5, RoomEnds DEF Rooms!PublishChannel, Rooms!Doing, In
  <2>0. roomsRequest[r].parent \in {"", "category"} /\ roomsRequest[r].key \in Nat
    BY <1>t, <2>1, RoomFields DEF In
  <2>2. RoomsTyped'
    BY <1>t, <1>5, <2>0, <2>1, NoneIsNoValue, BoundsAreNumbers
       DEF RoomsTyped, In, Moves, Rooms!PublishChannel, Rooms!Visible, Rooms!Truth, Rooms!Unlocked,
           Rooms!Publishes
  <2>3. CreatedAlone'
    BY <1>t, <1>5, <2>0, <2>1, NoneIsNoValue, BoundsAreNumbers
       DEF RoomsTyped, CreatedAlone, In, Moves, Rooms!PublishChannel, Rooms!Visible, Rooms!Truth,
           Rooms!Unlocked, Rooms!Publishes
  <2>4. WillBeShown'
    BY <1>t, <1>5, <2>0, <2>1, NoneIsNoValue, BoundsAreNumbers
       DEF RoomsTyped, WillBeShown, In, Moves, Rooms!PublishChannel, Rooms!Visible, Rooms!Truth,
           Rooms!Unlocked, Rooms!Publishes
  <2>5. ParentIsThere'
    BY <1>t, <1>5, <2>0, <2>1, NoneIsNoValue, BoundsAreNumbers
       DEF RoomsTyped, ParentIsThere, In, Moves, Rooms!PublishChannel, Rooms!Visible, Rooms!Truth,
           Rooms!Unlocked, Rooms!Publishes
  <2>6. LockHolds'
    BY <1>t, <1>5, <2>0, <2>1, NoneIsNoValue, BoundsAreNumbers
       DEF RoomsTyped, LockHolds, In, Moves, Rooms!PublishChannel, Rooms!Visible, Rooms!Truth,
           Rooms!Unlocked, Rooms!Publishes
  <2> QED BY <2>2, <2>3, <2>4, <2>5, <2>6 DEF RoomsInv
<1>6. ASSUME NEW r \in Requests, Rooms!DeleteChannel(r) PROVE RoomsInv'
  <2>1. PICK new \in RoomSlot : roomsRequest[r] = None /\ Moves(r, new) /\ new # None /\ new.step = "delete"
    <3>1. PICK p \in {"", "category"}, b \in BOOLEAN :
            /\ roomsRequest[r] = None
            /\ roomsRequest' = [roomsRequest EXCEPT ![r] = Rooms!Slot("delete", p, b, 0)]
      BY <1>t, <1>6 DEF Rooms!DeleteChannel, Rooms!Begins, Rooms!Parents, Rooms!Visible, RoomsTyped
    <3> DEFINE slot == Rooms!Slot("delete", p, b, 0)
    <3>2. slot \in RoomSlot /\ slot.step = "delete"
      BY <1>t DEF RoomsTyped, RoomSteps, RoomSlot, Rooms!Slot
    <3> HIDE DEF slot
    <3> QED BY <1>t, <3>1, <3>2, RoomBegins DEF slot
  <2>2. RoomsTyped'
    BY <1>t, <1>6, <2>1, NoneIsNoValue, BoundsAreNumbers
       DEF RoomsTyped, In, Moves, Rooms!DeleteChannel, Rooms!Visible, Rooms!Unshown, Rooms!Unlocked
  <2>3. CreatedAlone'
    BY <1>t, <1>6, <2>1, NoneIsNoValue, BoundsAreNumbers
       DEF RoomsTyped, CreatedAlone, In, Moves, Rooms!DeleteChannel, Rooms!Visible, Rooms!Unshown,
           Rooms!Unlocked
  <2>4. WillBeShown'
    BY <1>t, <1>6, <2>1, NoneIsNoValue, BoundsAreNumbers
       DEF RoomsTyped, WillBeShown, In, Moves, Rooms!DeleteChannel, Rooms!Visible, Rooms!Unshown,
           Rooms!Unlocked
  <2>5. ParentIsThere'
    BY <1>t, <1>6, <2>1, NoneIsNoValue, BoundsAreNumbers
       DEF RoomsTyped, ParentIsThere, In, Moves, Rooms!DeleteChannel, Rooms!Visible, Rooms!Unshown,
           Rooms!Unlocked
  <2>6. LockHolds'
    BY <1>t, <1>6, <2>1, NoneIsNoValue, BoundsAreNumbers
       DEF RoomsTyped, LockHolds, In, Moves, Rooms!DeleteChannel, Rooms!Visible, Rooms!Unshown,
           Rooms!Unlocked
  <2> QED BY <2>2, <2>3, <2>4, <2>5, <2>6 DEF RoomsInv
<1>7. ASSUME NEW r \in Requests, Rooms!DeleteWrites(r) PROVE RoomsInv'
  <2>1. PICK new \in RoomSlot : In(r, "delete") /\ Moves(r, new) /\ new # None /\ new.step = "deleted" /\ new.seen = roomsRequest[r].seen
    BY <1>t, <1>7, RoomGoes DEF Rooms!DeleteWrites, Rooms!Doing, RoomSteps, In
  <2>0. roomsRequest[r].parent \in {"", "category"} /\ roomsRequest[r].key \in Nat
    BY <1>t, <2>1, RoomFields DEF In
  <2>2. RoomsTyped'
    BY <1>t, <1>7, <2>0, <2>1, NoneIsNoValue, BoundsAreNumbers
       DEF RoomsTyped, In, Moves, Rooms!DeleteWrites
  <2>3. CreatedAlone'
    BY <1>t, <1>7, <2>0, <2>1, NoneIsNoValue, BoundsAreNumbers
       DEF RoomsTyped, CreatedAlone, In, Moves, Rooms!DeleteWrites
  <2>4. WillBeShown'
    BY <1>t, <1>7, <2>0, <2>1, NoneIsNoValue, BoundsAreNumbers
       DEF RoomsTyped, WillBeShown, In, Moves, Rooms!DeleteWrites
  <2>5. ParentIsThere'
    BY <1>t, <1>7, <2>0, <2>1, NoneIsNoValue, BoundsAreNumbers
       DEF RoomsTyped, ParentIsThere, In, Moves, Rooms!DeleteWrites
  <2>6. LockHolds'
    BY <1>t, <1>7, <2>0, <2>1, NoneIsNoValue, BoundsAreNumbers
       DEF RoomsTyped, LockHolds, In, Moves, Rooms!DeleteWrites
  <2> QED BY <2>2, <2>3, <2>4, <2>5, <2>6 DEF RoomsInv
<1>8. ASSUME NEW r \in Requests, Rooms!PublishDelete(r) PROVE RoomsInv'
  <2>1. In(r, "deleted") /\ Moves(r, None)
    BY <1>t, <1>8, RoomEnds DEF Rooms!PublishDelete, Rooms!Doing, In
  <2>0. roomsRequest[r].parent \in {"", "category"} /\ roomsRequest[r].key \in Nat
    BY <1>t, <2>1, RoomFields DEF In
  <2>2. RoomsTyped'
    BY <1>t, <1>8, <2>0, <2>1, NoneIsNoValue, BoundsAreNumbers
       DEF RoomsTyped, In, Moves, Rooms!PublishDelete, Rooms!Visible, Rooms!Truth, Rooms!Unlocked,
           Rooms!Publishes
  <2>3. CreatedAlone'
    BY <1>t, <1>8, <2>0, <2>1, NoneIsNoValue, BoundsAreNumbers
       DEF RoomsTyped, CreatedAlone, In, Moves, Rooms!PublishDelete, Rooms!Visible, Rooms!Truth,
           Rooms!Unlocked, Rooms!Publishes
  <2>4. WillBeShown'
    BY <1>t, <1>8, <2>0, <2>1, NoneIsNoValue, BoundsAreNumbers
       DEF RoomsTyped, WillBeShown, In, Moves, Rooms!PublishDelete, Rooms!Visible, Rooms!Truth,
           Rooms!Unlocked, Rooms!Publishes
  <2>5. ParentIsThere'
    BY <1>t, <1>8, <2>0, <2>1, NoneIsNoValue, BoundsAreNumbers
       DEF RoomsTyped, ParentIsThere, In, Moves, Rooms!PublishDelete, Rooms!Visible, Rooms!Truth,
           Rooms!Unlocked, Rooms!Publishes
  <2>6. LockHolds'
    BY <1>t, <1>8, <2>0, <2>1, NoneIsNoValue, BoundsAreNumbers
       DEF RoomsTyped, LockHolds, In, Moves, Rooms!PublishDelete, Rooms!Visible, Rooms!Truth,
           Rooms!Unlocked, Rooms!Publishes
  <2> QED BY <2>2, <2>3, <2>4, <2>5, <2>6 DEF RoomsInv
<1>9. ASSUME NEW r \in Requests, Rooms!DeleteCategory(r) PROVE RoomsInv'
  <2>1. PICK new \in RoomSlot : roomsRequest[r] = None /\ Moves(r, new) /\ new # None /\ new.step = "category" /\ (row # "category" => ~ new.seen)
          /\ UNCHANGED <<category, row, hidden, password, unlocked, refetch, roomsShown, roomsUntrue, dangling, relocked>>
    <3>1. PICK p \in {"", "category"}, b \in BOOLEAN :
            /\ roomsRequest[r] = None /\ (row # "category" => ~ b)
            /\ roomsRequest' = [roomsRequest EXCEPT ![r] = Rooms!Slot("category", p, b, 0)]
      BY <1>t, <1>9 DEF Rooms!DeleteCategory, Rooms!Begins, Rooms!Parents, Rooms!Visible, RoomsTyped
    <3> DEFINE slot == Rooms!Slot("category", p, b, 0)
    <3>2. slot \in RoomSlot /\ slot.step = "category" /\ (~ b => ~ slot.seen)
      BY <1>t DEF RoomsTyped, RoomSteps, RoomSlot, Rooms!Slot
    <3> HIDE DEF slot
    <3> QED BY <1>t, <1>9, <3>1, <3>2, RoomBegins DEF slot, Rooms!DeleteCategory, Rooms!Unshown, Rooms!Unlocked
  <2>2. RoomsTyped'
    BY <1>t, <1>9, <2>1, NoneIsNoValue, BoundsAreNumbers
       DEF RoomsTyped, In, Moves
  <2>3. CreatedAlone'
    <3> SUFFICES ASSUME NEW c \in Requests, In(c, "create")'
                 PROVE  /\ row' = None /\ roomsShown' = None
                        /\ \A q \in Requests \ {c} :
                             roomsRequest'[q] = None \/ (In(q, "category")' /\ ~ roomsRequest'[q].seen)
      BY DEF CreatedAlone
    <3>1. c # r /\ In(c, "create")
      BY <2>1 DEF In, Moves
    <3>2. /\ row = None /\ roomsShown = None
          /\ \A q \in Requests \ {c} :
               roomsRequest[q] = None \/ (In(q, "category") /\ ~ roomsRequest[q].seen)
      BY <1>t, <3>1 DEF CreatedAlone
    <3>3. In(r, "category")' /\ ~ roomsRequest'[r].seen
      BY <2>1, <3>2, NoneIsNoValue DEF In, Moves
    <3> QED BY <2>1, <3>2, <3>3 DEF In, Moves
  <2>4. WillBeShown'
    BY <1>t, <1>9, <2>1, NoneIsNoValue, BoundsAreNumbers
       DEF RoomsTyped, WillBeShown, In, Moves
  <2>5. ParentIsThere'
    BY <1>t, <1>9, <2>1, NoneIsNoValue, BoundsAreNumbers
       DEF RoomsTyped, ParentIsThere, In, Moves
  <2>6. LockHolds'
    BY <1>t, <1>9, <2>1, NoneIsNoValue, BoundsAreNumbers
       DEF RoomsTyped, LockHolds, In, Moves
  <2> QED BY <2>2, <2>3, <2>4, <2>5, <2>6 DEF RoomsInv
<1>10. ASSUME NEW r \in Requests, Rooms!CategoryWrites(r) PROVE RoomsInv'
  <2>1. PICK new \in RoomSlot \cup {None} :
          In(r, "category") /\ Moves(r, new) /\ IF roomsRequest[r].seen THEN new # None /\ new.step = "publish" ELSE new = None
    BY <1>t, <1>10, RoomGoes, RoomEnds DEF Rooms!CategoryWrites, Rooms!Doing, RoomSteps, In
  <2>0. roomsRequest[r].parent \in {"", "category"} /\ roomsRequest[r].key \in Nat
    BY <1>t, <2>1, RoomFields DEF In
  <2>2. RoomsTyped'
    BY <1>t, <1>10, <2>0, <2>1, NoneIsNoValue, BoundsAreNumbers
       DEF RoomsTyped, In, Moves, Rooms!CategoryWrites, Rooms!Unlocked, Rooms!Risen
  <2>3. CreatedAlone'
    <3> SUFFICES ASSUME NEW c \in Requests, In(c, "create")'
                 PROVE  /\ row' = None /\ roomsShown' = None
                        /\ \A q \in Requests \ {c} :
                             roomsRequest'[q] = None \/ (In(q, "category")' /\ ~ roomsRequest'[q].seen)
      BY DEF CreatedAlone
    <3>1. c # r /\ In(c, "create")
      BY <2>1 DEF In, Moves
    <3>2. /\ row = None /\ roomsShown = None
          /\ \A q \in Requests \ {c} :
               roomsRequest[q] = None \/ (In(q, "category") /\ ~ roomsRequest[q].seen)
      BY <1>t, <3>1 DEF CreatedAlone
    <3>3. roomsRequest'[r] = None
      BY <2>1, <3>1, <3>2 DEF In, Moves
    <3>4. row' = None /\ roomsShown' = None
      BY <1>10, <3>2 DEF Rooms!CategoryWrites
    <3> QED BY <2>1, <3>2, <3>3, <3>4 DEF In, Moves
  <2>4. WillBeShown'
    BY <1>t, <1>10, <2>0, <2>1, NoneIsNoValue, BoundsAreNumbers
       DEF RoomsTyped, WillBeShown, In, Moves, Rooms!CategoryWrites, Rooms!Unlocked, Rooms!Risen
  <2>5. ParentIsThere'
    BY <1>t, <1>10, <2>0, <2>1, NoneIsNoValue, BoundsAreNumbers
       DEF RoomsTyped, ParentIsThere, In, Moves, Rooms!CategoryWrites, Rooms!Unlocked, Rooms!Risen
  <2>6. LockHolds'
    BY <1>t, <1>10, <2>0, <2>1, NoneIsNoValue, BoundsAreNumbers
       DEF RoomsTyped, LockHolds, In, Moves, Rooms!CategoryWrites, Rooms!Unlocked, Rooms!Risen
  <2> QED BY <2>2, <2>3, <2>4, <2>5, <2>6 DEF RoomsInv
<1>11. ASSUME NEW r \in Requests, Rooms!ChangeOverwrite(r) PROVE RoomsInv'
  <2>1. PICK new \in RoomSlot : roomsRequest[r] = None /\ Moves(r, new) /\ new # None /\ new.step = "overwrite"
    <3>1. PICK p \in {"", "category"}, b \in BOOLEAN :
            /\ roomsRequest[r] = None
            /\ roomsRequest' = [roomsRequest EXCEPT ![r] = Rooms!Slot("overwrite", p, b, 0)]
      BY <1>t, <1>11 DEF Rooms!ChangeOverwrite, Rooms!Begins, Rooms!Parents, Rooms!Visible,
          RoomsTyped
    <3> DEFINE slot == Rooms!Slot("overwrite", p, b, 0)
    <3>2. slot \in RoomSlot /\ slot.step = "overwrite"
      BY <1>t DEF RoomsTyped, RoomSteps, RoomSlot, Rooms!Slot
    <3> HIDE DEF slot
    <3> QED BY <1>t, <3>1, <3>2, RoomBegins DEF slot
  <2>2. RoomsTyped'
    BY <1>t, <1>11, <2>1, NoneIsNoValue, BoundsAreNumbers
       DEF RoomsTyped, In, Moves, Rooms!ChangeOverwrite, Rooms!Visible, Rooms!Unshown,
           Rooms!Unlocked
  <2>3. CreatedAlone'
    BY <1>t, <1>11, <2>1, NoneIsNoValue, BoundsAreNumbers
       DEF RoomsTyped, CreatedAlone, In, Moves, Rooms!ChangeOverwrite, Rooms!Visible, Rooms!Unshown,
           Rooms!Unlocked
  <2>4. WillBeShown'
    BY <1>t, <1>11, <2>1, NoneIsNoValue, BoundsAreNumbers
       DEF RoomsTyped, WillBeShown, In, Moves, Rooms!ChangeOverwrite, Rooms!Visible, Rooms!Unshown,
           Rooms!Unlocked
  <2>5. ParentIsThere'
    BY <1>t, <1>11, <2>1, NoneIsNoValue, BoundsAreNumbers
       DEF RoomsTyped, ParentIsThere, In, Moves, Rooms!ChangeOverwrite, Rooms!Visible,
           Rooms!Unshown, Rooms!Unlocked
  <2>6. LockHolds'
    BY <1>t, <1>11, <2>1, NoneIsNoValue, BoundsAreNumbers
       DEF RoomsTyped, LockHolds, In, Moves, Rooms!ChangeOverwrite, Rooms!Visible, Rooms!Unshown,
           Rooms!Unlocked
  <2> QED BY <2>2, <2>3, <2>4, <2>5, <2>6 DEF RoomsInv
<1>12. ASSUME NEW r \in Requests, Rooms!ApplyOverwrite(r) PROVE RoomsInv'
  <2>1. PICK new \in RoomSlot : In(r, "overwrite") /\ Moves(r, new) /\ new # None /\ new.step = "viewers"
    BY <1>t, <1>12, RoomGoes DEF Rooms!ApplyOverwrite, Rooms!Doing, RoomSteps, In, Rooms!Overwritten
  <2>0. roomsRequest[r].parent \in {"", "category"} /\ roomsRequest[r].key \in Nat
    BY <1>t, <2>1, RoomFields DEF In
  <2>2. RoomsTyped'
    BY <1>t, <1>12, <2>0, <2>1, NoneIsNoValue, BoundsAreNumbers
       DEF RoomsTyped, In, Moves, Rooms!ApplyOverwrite, Rooms!Unlocked, Rooms!Overwritten
  <2>3. CreatedAlone'
    BY <1>t, <1>12, <2>0, <2>1, NoneIsNoValue, BoundsAreNumbers
       DEF RoomsTyped, CreatedAlone, In, Moves, Rooms!ApplyOverwrite, Rooms!Unlocked,
           Rooms!Overwritten
  <2>4. WillBeShown'
    BY <1>t, <1>12, <2>0, <2>1, NoneIsNoValue, BoundsAreNumbers
       DEF RoomsTyped, WillBeShown, In, Moves, Rooms!ApplyOverwrite, Rooms!Unlocked,
           Rooms!Overwritten
  <2>5. ParentIsThere'
    BY <1>t, <1>12, <2>0, <2>1, NoneIsNoValue, BoundsAreNumbers
       DEF RoomsTyped, ParentIsThere, In, Moves, Rooms!ApplyOverwrite, Rooms!Unlocked,
           Rooms!Overwritten
  <2>6. LockHolds'
    BY <1>t, <1>12, <2>0, <2>1, NoneIsNoValue, BoundsAreNumbers
       DEF RoomsTyped, LockHolds, In, Moves, Rooms!ApplyOverwrite, Rooms!Unlocked, Rooms!Overwritten
  <2> QED BY <2>2, <2>3, <2>4, <2>5, <2>6 DEF RoomsInv
<1>13. ASSUME NEW r \in Requests, Rooms!RemoveOverwrite(r) PROVE RoomsInv'
  <2>1. PICK new \in RoomSlot : In(r, "overwrite") /\ Moves(r, new) /\ new # None /\ new.step = "viewers"
    BY <1>t, <1>13, RoomGoes DEF Rooms!RemoveOverwrite, Rooms!Doing, RoomSteps, In,
        Rooms!Overwritten
  <2>0. roomsRequest[r].parent \in {"", "category"} /\ roomsRequest[r].key \in Nat
    BY <1>t, <2>1, RoomFields DEF In
  <2>2. RoomsTyped'
    BY <1>t, <1>13, <2>0, <2>1, NoneIsNoValue, BoundsAreNumbers
       DEF RoomsTyped, In, Moves, Rooms!RemoveOverwrite, Rooms!Unlocked, Rooms!Overwritten
  <2>3. CreatedAlone'
    BY <1>t, <1>13, <2>0, <2>1, NoneIsNoValue, BoundsAreNumbers
       DEF RoomsTyped, CreatedAlone, In, Moves, Rooms!RemoveOverwrite, Rooms!Unlocked,
           Rooms!Overwritten
  <2>4. WillBeShown'
    BY <1>t, <1>13, <2>0, <2>1, NoneIsNoValue, BoundsAreNumbers
       DEF RoomsTyped, WillBeShown, In, Moves, Rooms!RemoveOverwrite, Rooms!Unlocked,
           Rooms!Overwritten
  <2>5. ParentIsThere'
    BY <1>t, <1>13, <2>0, <2>1, NoneIsNoValue, BoundsAreNumbers
       DEF RoomsTyped, ParentIsThere, In, Moves, Rooms!RemoveOverwrite, Rooms!Unlocked,
           Rooms!Overwritten
  <2>6. LockHolds'
    BY <1>t, <1>13, <2>0, <2>1, NoneIsNoValue, BoundsAreNumbers
       DEF RoomsTyped, LockHolds, In, Moves, Rooms!RemoveOverwrite, Rooms!Unlocked,
           Rooms!Overwritten
  <2> QED BY <2>2, <2>3, <2>4, <2>5, <2>6 DEF RoomsInv
<1>14. ASSUME NEW r \in Requests, Rooms!ViewersAfter(r) PROVE RoomsInv'
  <2>1. PICK new \in RoomSlot \cup {None} :
          In(r, "viewers") /\ Moves(r, new) /\ (new # None => new.step \in {"gained", "lost"})
    BY <1>t, <1>14, RoomGoes, RoomEnds DEF Rooms!ViewersAfter, Rooms!Doing, RoomSteps, In
  <2>0. roomsRequest[r].parent \in {"", "category"} /\ roomsRequest[r].key \in Nat
    BY <1>t, <2>1, RoomFields DEF In
  <2>2. RoomsTyped'
    BY <1>t, <1>14, <2>0, <2>1, NoneIsNoValue, BoundsAreNumbers
       DEF RoomsTyped, In, Moves, Rooms!ViewersAfter, Rooms!Visible, Rooms!Unshown, Rooms!Unlocked
  <2>3. CreatedAlone'
    BY <1>t, <1>14, <2>0, <2>1, NoneIsNoValue, BoundsAreNumbers
       DEF RoomsTyped, CreatedAlone, In, Moves, Rooms!ViewersAfter, Rooms!Visible, Rooms!Unshown,
           Rooms!Unlocked
  <2>4. WillBeShown'
    BY <1>t, <1>14, <2>0, <2>1, NoneIsNoValue, BoundsAreNumbers
       DEF RoomsTyped, WillBeShown, In, Moves, Rooms!ViewersAfter, Rooms!Visible, Rooms!Unshown,
           Rooms!Unlocked
  <2>5. ParentIsThere'
    BY <1>t, <1>14, <2>0, <2>1, NoneIsNoValue, BoundsAreNumbers
       DEF RoomsTyped, ParentIsThere, In, Moves, Rooms!ViewersAfter, Rooms!Visible, Rooms!Unshown,
           Rooms!Unlocked
  <2>6. LockHolds'
    BY <1>t, <1>14, <2>0, <2>1, NoneIsNoValue, BoundsAreNumbers
       DEF RoomsTyped, LockHolds, In, Moves, Rooms!ViewersAfter, Rooms!Visible, Rooms!Unshown,
           Rooms!Unlocked
  <2> QED BY <2>2, <2>3, <2>4, <2>5, <2>6 DEF RoomsInv
<1>15. ASSUME NEW r \in Requests, Rooms!PublishOverwriteEvents(r) PROVE RoomsInv'
  <2>1. (In(r, "gained") \/ In(r, "lost")) /\ Moves(r, None)
    BY <1>t, <1>15, RoomEnds DEF Rooms!PublishOverwriteEvents, Rooms!Doing, In
  <2>0. roomsRequest[r].parent \in {"", "category"} /\ roomsRequest[r].key \in Nat
    BY <1>t, <2>1, RoomFields DEF In
  <2>2. RoomsTyped'
    BY <1>t, <1>15, <2>0, <2>1, NoneIsNoValue, BoundsAreNumbers
       DEF RoomsTyped, In, Moves, Rooms!PublishOverwriteEvents, Rooms!Visible, Rooms!Truth,
           Rooms!Unlocked, Rooms!Publishes
  <2>3. CreatedAlone'
    BY <1>t, <1>15, <2>0, <2>1, NoneIsNoValue, BoundsAreNumbers
       DEF RoomsTyped, CreatedAlone, In, Moves, Rooms!PublishOverwriteEvents, Rooms!Visible,
           Rooms!Truth, Rooms!Unlocked, Rooms!Publishes
  <2>4. WillBeShown'
    BY <1>t, <1>15, <2>0, <2>1, NoneIsNoValue, BoundsAreNumbers
       DEF RoomsTyped, WillBeShown, In, Moves, Rooms!PublishOverwriteEvents, Rooms!Visible,
           Rooms!Truth, Rooms!Unlocked, Rooms!Publishes
  <2>5. ParentIsThere'
    BY <1>t, <1>15, <2>0, <2>1, NoneIsNoValue, BoundsAreNumbers
       DEF RoomsTyped, ParentIsThere, In, Moves, Rooms!PublishOverwriteEvents, Rooms!Visible,
           Rooms!Truth, Rooms!Unlocked, Rooms!Publishes
  <2>6. LockHolds'
    BY <1>t, <1>15, <2>0, <2>1, NoneIsNoValue, BoundsAreNumbers
       DEF RoomsTyped, LockHolds, In, Moves, Rooms!PublishOverwriteEvents, Rooms!Visible,
           Rooms!Truth, Rooms!Unlocked, Rooms!Publishes
  <2> QED BY <2>2, <2>3, <2>4, <2>5, <2>6 DEF RoomsInv
<1>16. ASSUME NEW r \in Requests, Rooms!ChangePassword(r) PROVE RoomsInv'
  <2>1. PICK new \in RoomSlot : roomsRequest[r] = None /\ Moves(r, new) /\ new # None /\ new.step = "revoke"
    <3>1. PICK p \in {"", "category"}, b \in BOOLEAN :
            /\ roomsRequest[r] = None
            /\ roomsRequest' = [roomsRequest EXCEPT ![r] = Rooms!Slot("revoke", p, b, 0)]
      BY <1>t, <1>16 DEF Rooms!ChangePassword, Rooms!Begins, Rooms!Parents, Rooms!Visible,
          RoomsTyped
    <3> DEFINE slot == Rooms!Slot("revoke", p, b, 0)
    <3>2. slot \in RoomSlot /\ slot.step = "revoke"
      BY <1>t DEF RoomsTyped, RoomSteps, RoomSlot, Rooms!Slot
    <3> HIDE DEF slot
    <3> QED BY <1>t, <3>1, <3>2, RoomBegins DEF slot
  <2>2. RoomsTyped'
    <3>1. password' \in Nat
      BY <1>16, BoundsAreNumbers DEF Rooms!ChangePassword
    <3> QED BY <1>t, <1>16, <2>1, <3>1 DEF RoomsTyped, Moves, Rooms!ChangePassword, Rooms!Unshown
  <2>3. CreatedAlone'
    BY <1>t, <1>16, <2>1, NoneIsNoValue, BoundsAreNumbers
       DEF RoomsTyped, CreatedAlone, In, Moves, Rooms!ChangePassword, Rooms!Unshown, Rooms!Doing
  <2>4. WillBeShown'
    BY <1>t, <1>16, <2>1, NoneIsNoValue, BoundsAreNumbers
       DEF RoomsTyped, WillBeShown, In, Moves, Rooms!ChangePassword, Rooms!Unshown, Rooms!Doing
  <2>5. ParentIsThere'
    BY <1>t, <1>16, <2>1, NoneIsNoValue, BoundsAreNumbers
       DEF RoomsTyped, ParentIsThere, In, Moves, Rooms!ChangePassword, Rooms!Unshown, Rooms!Doing
  <2>6. LockHolds'
    BY <1>t, <1>16, <2>1, NoneIsNoValue, BoundsAreNumbers
       DEF RoomsTyped, LockHolds, In, Moves, Rooms!ChangePassword, Rooms!Unshown, Rooms!Doing
  <2> QED BY <2>2, <2>3, <2>4, <2>5, <2>6 DEF RoomsInv
<1>17. ASSUME NEW r \in Requests, Rooms!RevokeUnlocks(r) PROVE RoomsInv'
  <2>1. PICK new \in RoomSlot : In(r, "revoke") /\ Moves(r, new) /\ new # None /\ new.step = "publish"
    BY <1>t, <1>17, RoomGoes DEF Rooms!RevokeUnlocks, Rooms!Doing, RoomSteps, In
  <2>0. roomsRequest[r].parent \in {"", "category"} /\ roomsRequest[r].key \in Nat
    BY <1>t, <2>1, RoomFields DEF In
  <2>2. RoomsTyped'
    BY <1>t, <1>17, <2>0, <2>1, NoneIsNoValue, BoundsAreNumbers
       DEF RoomsTyped, In, Moves, Rooms!RevokeUnlocks, Rooms!Unshown, Rooms!RevokeChannelUnlocks
  <2>3. CreatedAlone'
    BY <1>t, <1>17, <2>0, <2>1, NoneIsNoValue, BoundsAreNumbers
       DEF RoomsTyped, CreatedAlone, In, Moves, Rooms!RevokeUnlocks, Rooms!Unshown,
           Rooms!RevokeChannelUnlocks
  <2>4. WillBeShown'
    BY <1>t, <1>17, <2>0, <2>1, NoneIsNoValue, BoundsAreNumbers
       DEF RoomsTyped, WillBeShown, In, Moves, Rooms!RevokeUnlocks, Rooms!Unshown,
           Rooms!RevokeChannelUnlocks
  <2>5. ParentIsThere'
    BY <1>t, <1>17, <2>0, <2>1, NoneIsNoValue, BoundsAreNumbers
       DEF RoomsTyped, ParentIsThere, In, Moves, Rooms!RevokeUnlocks, Rooms!Unshown,
           Rooms!RevokeChannelUnlocks
  <2>6. LockHolds'
    BY <1>t, <1>17, <2>0, <2>1, NoneIsNoValue, BoundsAreNumbers
       DEF RoomsTyped, LockHolds, In, Moves, Rooms!RevokeUnlocks, Rooms!Unshown,
           Rooms!RevokeChannelUnlocks
  <2> QED BY <2>2, <2>3, <2>4, <2>5, <2>6 DEF RoomsInv
<1>18. ASSUME NEW r \in Requests, Rooms!UnlockChannel(r) PROVE RoomsInv'
  <2>1. PICK new \in RoomSlot : roomsRequest[r] = None /\ Moves(r, new) /\ new # None /\ new.step = "unlock" /\ new.key = password
    <3>1. PICK p \in {"", "category"}, b \in BOOLEAN :
            /\ roomsRequest[r] = None
            /\ roomsRequest' = [roomsRequest EXCEPT ![r] = Rooms!Slot("unlock", p, b, password)]
      BY <1>t, <1>18 DEF Rooms!UnlockChannel, Rooms!Begins, Rooms!Parents, Rooms!Visible, RoomsTyped
    <3> DEFINE slot == Rooms!Slot("unlock", p, b, password)
    <3>2. slot \in RoomSlot /\ slot.step = "unlock" /\ slot.key = password
      BY <1>t DEF RoomsTyped, RoomSteps, RoomSlot, Rooms!Slot
    <3> HIDE DEF slot
    <3> QED BY <1>t, <3>1, <3>2, RoomBegins DEF slot
  <2>2. RoomsTyped'
    BY <1>t, <1>18, <2>1, NoneIsNoValue, BoundsAreNumbers
       DEF RoomsTyped, In, Moves, Rooms!UnlockChannel, Rooms!Visible, Rooms!Unshown, Rooms!Unlocked
  <2>3. CreatedAlone'
    BY <1>t, <1>18, <2>1, NoneIsNoValue, BoundsAreNumbers
       DEF RoomsTyped, CreatedAlone, In, Moves, Rooms!UnlockChannel, Rooms!Visible, Rooms!Unshown,
           Rooms!Unlocked
  <2>4. WillBeShown'
    BY <1>t, <1>18, <2>1, NoneIsNoValue, BoundsAreNumbers
       DEF RoomsTyped, WillBeShown, In, Moves, Rooms!UnlockChannel, Rooms!Visible, Rooms!Unshown,
           Rooms!Unlocked
  <2>5. ParentIsThere'
    BY <1>t, <1>18, <2>1, NoneIsNoValue, BoundsAreNumbers
       DEF RoomsTyped, ParentIsThere, In, Moves, Rooms!UnlockChannel, Rooms!Visible, Rooms!Unshown,
           Rooms!Unlocked
  <2>6. LockHolds'
    BY <1>t, <1>18, <2>1, NoneIsNoValue, BoundsAreNumbers
       DEF RoomsTyped, LockHolds, In, Moves, Rooms!UnlockChannel, Rooms!Visible, Rooms!Unshown,
           Rooms!Unlocked
  <2> QED BY <2>2, <2>3, <2>4, <2>5, <2>6 DEF RoomsInv
<1>19. ASSUME NEW r \in Requests, Rooms!UnlockWrites(r) PROVE RoomsInv'
  <2>1. In(r, "unlock") /\ Moves(r, None)
    BY <1>t, <1>19, RoomEnds DEF Rooms!UnlockWrites, Rooms!Doing, In
  <2>0. roomsRequest[r].parent \in {"", "category"} /\ roomsRequest[r].key \in Nat
    BY <1>t, <2>1, RoomFields DEF In
  <2>2. RoomsTyped'
    BY <1>t, <1>19, <2>0, <2>1, NoneIsNoValue, BoundsAreNumbers
       DEF RoomsTyped, In, Moves, Rooms!UnlockWrites, Rooms!Unshown
  <2>3. CreatedAlone'
    BY <1>t, <1>19, <2>0, <2>1, NoneIsNoValue, BoundsAreNumbers
       DEF RoomsTyped, CreatedAlone, In, Moves, Rooms!UnlockWrites, Rooms!Unshown
  <2>4. WillBeShown'
    BY <1>t, <1>19, <2>0, <2>1, NoneIsNoValue, BoundsAreNumbers
       DEF RoomsTyped, WillBeShown, In, Moves, Rooms!UnlockWrites, Rooms!Unshown
  <2>5. ParentIsThere'
    BY <1>t, <1>19, <2>0, <2>1, NoneIsNoValue, BoundsAreNumbers
       DEF RoomsTyped, ParentIsThere, In, Moves, Rooms!UnlockWrites, Rooms!Unshown
  <2>6. LockHolds'
    BY <1>t, <1>19, <2>0, <2>1, NoneIsNoValue, BoundsAreNumbers
       DEF RoomsTyped, LockHolds, In, Moves, Rooms!UnlockWrites, Rooms!Unshown
  <2> QED BY <2>2, <2>3, <2>4, <2>5, <2>6 DEF RoomsInv
<1>20. ASSUME NEW r \in Requests, Rooms!UndoChannelUpdate(r) PROVE RoomsInv'
  <2>1. PICK new \in RoomSlot : roomsRequest[r] = None /\ Moves(r, new) /\ new # None /\ new.step = "restore"
    <3>1. PICK p \in {"", "category"}, b \in BOOLEAN :
            /\ roomsRequest[r] = None
            /\ roomsRequest' = [roomsRequest EXCEPT ![r] = Rooms!Slot("restore", p, b, password)]
      BY <1>t, <1>20 DEF Rooms!UndoChannelUpdate, Rooms!Begins, Rooms!Parents, Rooms!Visible,
          RoomsTyped
    <3> DEFINE slot == Rooms!Slot("restore", p, b, password)
    <3>2. slot \in RoomSlot /\ slot.step = "restore"
      BY <1>t DEF RoomsTyped, RoomSteps, RoomSlot, Rooms!Slot
    <3> HIDE DEF slot
    <3> QED BY <1>t, <3>1, <3>2, RoomBegins DEF slot
  <2>2. RoomsTyped'
    BY <1>t, <1>20, <2>1, NoneIsNoValue, BoundsAreNumbers
       DEF RoomsTyped, In, Moves, Rooms!UndoChannelUpdate, Rooms!Unshown, Rooms!Unlocked
  <2>3. CreatedAlone'
    BY <1>t, <1>20, <2>1, NoneIsNoValue, BoundsAreNumbers
       DEF RoomsTyped, CreatedAlone, In, Moves, Rooms!UndoChannelUpdate, Rooms!Unshown,
           Rooms!Unlocked
  <2>4. WillBeShown'
    BY <1>t, <1>20, <2>1, NoneIsNoValue, BoundsAreNumbers
       DEF RoomsTyped, WillBeShown, In, Moves, Rooms!UndoChannelUpdate, Rooms!Unshown,
           Rooms!Unlocked
  <2>5. ParentIsThere'
    BY <1>t, <1>20, <2>1, NoneIsNoValue, BoundsAreNumbers
       DEF RoomsTyped, ParentIsThere, In, Moves, Rooms!UndoChannelUpdate, Rooms!Unshown,
           Rooms!Unlocked
  <2>6. LockHolds'
    BY <1>t, <1>20, <2>1, NoneIsNoValue, BoundsAreNumbers
       DEF RoomsTyped, LockHolds, In, Moves, Rooms!UndoChannelUpdate, Rooms!Unshown, Rooms!Unlocked
  <2> QED BY <2>2, <2>3, <2>4, <2>5, <2>6 DEF RoomsInv
<1>21. ASSUME NEW r \in Requests, Rooms!SavesChannel(r) PROVE RoomsInv'
  <2>1. PICK new \in RoomSlot : In(r, "restore") /\ Moves(r, new) /\ new # None /\ new.step = "notice"
    BY <1>t, <1>21, RoomGoes DEF Rooms!SavesChannel, Rooms!Doing, RoomSteps, In
  <2>0. roomsRequest[r].parent \in {"", "category"} /\ roomsRequest[r].key \in Nat
    BY <1>t, <2>1, RoomFields DEF In
  <2>2. RoomsTyped'
    BY <1>t, <1>21, <2>0, <2>1, NoneIsNoValue, BoundsAreNumbers
       DEF RoomsTyped, In, Moves, Rooms!SavesChannel
  <2>3. CreatedAlone'
    BY <1>t, <1>21, <2>0, <2>1, NoneIsNoValue, BoundsAreNumbers
       DEF RoomsTyped, CreatedAlone, In, Moves, Rooms!SavesChannel
  <2>4. WillBeShown'
    BY <1>t, <1>21, <2>0, <2>1, NoneIsNoValue, BoundsAreNumbers
       DEF RoomsTyped, WillBeShown, In, Moves, Rooms!SavesChannel
  <2>5. ParentIsThere'
    BY <1>t, <1>21, <2>0, <2>1, NoneIsNoValue, BoundsAreNumbers
       DEF RoomsTyped, ParentIsThere, In, Moves, Rooms!SavesChannel
  <2>6. LockHolds'
    BY <1>t, <1>21, <2>0, <2>1, NoneIsNoValue, BoundsAreNumbers
       DEF RoomsTyped, LockHolds, In, Moves, Rooms!SavesChannel
  <2> QED BY <2>2, <2>3, <2>4, <2>5, <2>6 DEF RoomsInv
<1>22. CASE Rooms!Refetch \/ Rooms!UndoOverwriteDelete
  <2>1. /\ UNCHANGED <<category, row, roomsRequest, dangling, password, unlocked, relocked>>
        /\ \/ roomsShown' = (IF row # None /\ ~ hidden THEN row ELSE None) /\ UNCHANGED hidden
           \/ /\ row # None /\ roomsUntrue' = (roomsUntrue \/ hidden' # hidden)
              /\ hidden' \in BOOLEAN /\ UNCHANGED <<refetch, roomsShown>>
    BY <1>22
       DEF Rooms!Refetch, Rooms!UndoOverwriteDelete, Rooms!UndoOverwrite, Rooms!Truth,
           Rooms!Visible, Rooms!Unlocked
  <2>2. RoomsTyped' /\ ParentIsThere' /\ LockHolds'
    BY <1>t, <2>1 DEF RoomsTyped, ParentIsThere, LockHolds, In
  <2>3. CreatedAlone'
    BY <1>t, <2>1 DEF CreatedAlone, In
  <2>4. WillBeShown'
    <3>1. CASE roomsShown' = (IF row # None /\ ~ hidden THEN row ELSE None) /\ UNCHANGED hidden
      BY <2>1, <3>1 DEF WillBeShown
    <3>2. CASE hidden' # hidden /\ roomsUntrue'
      BY <3>2 DEF WillBeShown
    <3>3. CASE UNCHANGED <<hidden, refetch, roomsShown>> /\ (roomsUntrue => roomsUntrue')
      BY <1>t, <2>1, <3>3 DEF WillBeShown, In
    <3> QED BY <2>1, <3>1, <3>2, <3>3
  <2> QED BY <2>2, <2>3, <2>4 DEF RoomsInv
<1>23. ASSUME NEW r \in Requests, Rooms!UndoOverwriteUpdate(r) PROVE RoomsInv'
  <2>1. PICK new \in RoomSlot : roomsRequest[r] = None /\ Moves(r, new) /\ new # None /\ new.step = "notice"
    <3>1. PICK p \in {"", "category"}, b \in BOOLEAN :
            /\ roomsRequest[r] = None
            /\ roomsRequest' = [roomsRequest EXCEPT ![r] = Rooms!Slot("notice", p, b, 0)]
      BY <1>t, <1>23 DEF Rooms!UndoOverwriteUpdate, Rooms!UndoOverwrite, Rooms!Begins, Rooms!Parents, Rooms!Visible,
          RoomsTyped
    <3> DEFINE slot == Rooms!Slot("notice", p, b, 0)
    <3>2. slot \in RoomSlot /\ slot.step = "notice"
      BY <1>t DEF RoomsTyped, RoomSteps, RoomSlot, Rooms!Slot
    <3> HIDE DEF slot
    <3> QED BY <1>t, <3>1, <3>2, RoomBegins DEF slot
  <2>2. RoomsTyped'
    BY <1>t, <1>23, <2>1, NoneIsNoValue, BoundsAreNumbers
       DEF RoomsTyped, In, Moves, Rooms!UndoOverwriteUpdate, Rooms!UndoOverwrite,
           Rooms!Unshown, Rooms!Unlocked
  <2>3. CreatedAlone'
    BY <1>t, <1>23, <2>1, NoneIsNoValue, BoundsAreNumbers
       DEF RoomsTyped, CreatedAlone, In, Moves, Rooms!UndoOverwriteUpdate, Rooms!UndoOverwrite,
           Rooms!Unshown, Rooms!Unlocked
  <2>4. WillBeShown'
    <3>1. /\ UNCHANGED <<row, refetch, roomsShown>> /\ hidden' \in BOOLEAN
          /\ roomsUntrue' = (roomsUntrue \/ hidden' # hidden)
      BY <1>23 DEF Rooms!UndoOverwriteUpdate, Rooms!UndoOverwrite
    <3>2. \A q \in Requests : In(q, "publish") \/ In(q, "deleted") =>
            roomsRequest'[q] = roomsRequest[q]
      BY <2>1, NoneIsNoValue DEF In, Moves
    <3>3. CASE hidden' # hidden
      BY <3>1, <3>3 DEF WillBeShown
    <3>4. CASE UNCHANGED hidden /\ (roomsUntrue => roomsUntrue')
      BY <1>t, <3>1, <3>2, <3>4 DEF WillBeShown, In
    <3> QED BY <3>1, <3>3, <3>4
  <2>5. ParentIsThere'
    BY <1>t, <1>23, <2>1, NoneIsNoValue, BoundsAreNumbers
       DEF RoomsTyped, ParentIsThere, In, Moves, Rooms!UndoOverwriteUpdate, Rooms!UndoOverwrite,
           Rooms!Unshown, Rooms!Unlocked
  <2>6. LockHolds'
    BY <1>t, <1>23, <2>1, NoneIsNoValue, BoundsAreNumbers
       DEF RoomsTyped, LockHolds, In, Moves, Rooms!UndoOverwriteUpdate, Rooms!UndoOverwrite,
           Rooms!Unshown, Rooms!Unlocked
  <2> QED BY <2>2, <2>3, <2>4, <2>5, <2>6 DEF RoomsInv
<1>24. ASSUME NEW r \in Requests, Rooms!NoticeUndone(r) PROVE RoomsInv'
  <2>1. In(r, "notice") /\ Moves(r, None)
    BY <1>t, <1>24, RoomEnds DEF Rooms!NoticeUndone, Rooms!Doing, In
  <2>0. roomsRequest[r].parent \in {"", "category"} /\ roomsRequest[r].key \in Nat
    BY <1>t, <2>1, RoomFields DEF In
  <2>2. RoomsTyped'
    BY <1>t, <1>24, <2>0, <2>1, NoneIsNoValue, BoundsAreNumbers
       DEF RoomsTyped, In, Moves, Rooms!NoticeUndone, Rooms!Visible, Rooms!Truth, Rooms!Unlocked,
           Rooms!Publishes
  <2>3. CreatedAlone'
    BY <1>t, <1>24, <2>0, <2>1, NoneIsNoValue, BoundsAreNumbers
       DEF RoomsTyped, CreatedAlone, In, Moves, Rooms!NoticeUndone, Rooms!Visible, Rooms!Truth,
           Rooms!Unlocked, Rooms!Publishes
  <2>4. WillBeShown'
    <3>1. UNCHANGED <<row, hidden, refetch>>
      BY <1>24 DEF Rooms!NoticeUndone
    <3>2. \A q \in Requests : In(q, "publish") \/ In(q, "deleted") =>
            roomsRequest'[q] = roomsRequest[q]
      BY <2>1, NoneIsNoValue DEF In, Moves
    <3>3. CASE UNCHANGED <<roomsShown, roomsUntrue>>
      BY <1>t, <3>1, <3>2, <3>3 DEF WillBeShown, In
    <3>4. CASE Rooms!Publishes("")
      <4>1. /\ roomsShown' = ""
            /\ roomsUntrue' <=> "" # IF row # None /\ ~ hidden THEN row ELSE None
        BY <3>4 DEF Rooms!Publishes, Rooms!Truth, Rooms!Visible
      <4>2. CASE roomsUntrue'
        BY <4>2 DEF WillBeShown
      <4>3. CASE "" = IF row # None /\ ~ hidden THEN row ELSE None
        BY <3>1, <4>1, <4>3 DEF WillBeShown
      <4> QED BY <4>1, <4>2, <4>3
    <3> QED BY <1>24, <3>3, <3>4 DEF Rooms!NoticeUndone
  <2>5. ParentIsThere'
    BY <1>t, <1>24, <2>0, <2>1, NoneIsNoValue, BoundsAreNumbers
       DEF RoomsTyped, ParentIsThere, In, Moves, Rooms!NoticeUndone, Rooms!Visible, Rooms!Truth,
           Rooms!Unlocked, Rooms!Publishes
  <2>6. LockHolds'
    BY <1>t, <1>24, <2>0, <2>1, NoneIsNoValue, BoundsAreNumbers
       DEF RoomsTyped, LockHolds, In, Moves, Rooms!NoticeUndone, Rooms!Visible, Rooms!Truth,
           Rooms!Unlocked, Rooms!Publishes
  <2> QED BY <2>2, <2>3, <2>4, <2>5, <2>6 DEF RoomsInv
<1>25. CASE UNCHANGED roomsVars
  BY <1>t, <1>25
     DEF roomsVars, RoomsInv, RoomsTyped, CreatedAlone, WillBeShown, ParentIsThere, LockHolds, In
<1>26. CASE Rooms!Next
  BY <1>26, <1>1, <1>2, <1>3, <1>4, <1>5, <1>6, <1>7, <1>8, <1>9, <1>10, <1>11, <1>12, <1>13, <1>14,
     <1>15, <1>16, <1>17, <1>18, <1>19, <1>20, <1>21, <1>22, <1>23, <1>24 DEF Rooms!Next
<1> QED BY <1>25, <1>26 DEF Next, vars

(* Once handlers and clients are done, a channel is shown where and only   *)
(* where it may be seen, its parent exists, and who has unlocked it did so *)
(* by its password, with the exceptions that ChannelsAreTrue names.        *)
THEOREM ChannelsHold == Spec => []ChannelsAreTrue
<1>1. RoomsInv => ChannelsAreTrue
  BY NoneIsNoValue
     DEF RoomsInv, WillBeShown, ParentIsThere, LockHolds, In, ChannelsAreTrue,
         Rooms!ChannelsAreTrue,
         Rooms!Quiet, Rooms!Truth, Rooms!Visible
<1> QED BY <1>1, RoomsInit, RoomsNext, PTL DEF Spec

-----------------------------------------------------------------------------
(* One sound pack, and the choice of it. *)

Has(r, step) == soundsRequest[r] # None /\ soundsRequest[r].step = step
AtPack(r) == soundsRequest[r] # None /\ soundsRequest[r].step \in
               {"disable", "save", "file", "url", "old", "read", "send", "delete"}
AtChoice(r) == soundsRequest[r] # None /\ soundsRequest[r].step \in
                 {"choose", "chose", "cleared", "delete", "removed"}

SoundsTyped ==
  /\ pack \in Packs \cup {None} /\ config \in Configs /\ chosen \in BOOLEAN
  /\ soundsRequest \in [Requests -> SoundSlot \cup {None}]
  /\ \A r \in Requests : soundsRequest[r] # None =>
       /\ Has(r, "save") => soundsRequest[r].arg \in Packs
       /\ Has(r, "config") => soundsRequest[r].arg \in Configs
       /\ soundsRequest[r].step \in {"file", "url", "old", "delete", "removed"}
            => soundsRequest[r].was \in Packs
       /\ soundsRequest[r].step \in {"url", "old"} => soundsRequest[r].file \in Uploads

\* Every file that is or was named has been on the disk.
Known(p) == p # None => p.audio \in used \cup {None}
FilesAreKnown ==
  /\ disk \subseteq used /\ Known(pack)
  /\ \A r \in Requests : soundsRequest[r] # None =>
       /\ Known(soundsRequest[r].was) /\ soundsRequest[r].file \in used \cup {None}
       /\ Has(r, "save") => Known(soundsRequest[r].arg)

\* Who uploaded a file is the only one who knows of it before it is named.
Names(p, f) == p # None /\ p.audio = f
NewFile ==
  \A r \in Requests : Has(r, "url") =>
    /\ soundsRequest[r].file \in disk /\ ~ Names(pack, soundsRequest[r].file)
    /\ \A q \in Requests : soundsRequest[q] # None =>
         /\ q # r => soundsRequest[q].file # soundsRequest[r].file
         /\ ~ Names(soundsRequest[q].was, soundsRequest[r].file)
         /\ Has(q, "save") => ~ Names(soundsRequest[q].arg, soundsRequest[r].file)

\* What is named is there, and nobody is about to remove it.
NamedIsThere ==
  pack # None =>
    /\ pack.audio \in disk \cup back \cup {None}
    /\ \A r \in Requests : Has(r, "old") \/ Has(r, "removed") =>
         pack.audio # soundsRequest[r].was.audio \/ pack.audio \in back \cup {None}

NoFileLeft ==
  \A f \in disk :
    \/ f \in lost \/ Names(pack, f)
    \/ \E r \in Requests : Has(r, "url") /\ soundsRequest[r].file = f
    \/ \E r \in Requests : (Has(r, "old") \/ Has(r, "removed")) /\ soundsRequest[r].was.audio = f

IsDeleted ==
  /\ (pack # None \/ gone \/ \E r \in Requests : AtPack(r)) => made
  /\ (\E r \in Requests : Has(r, "removed")) => gone
  /\ gone /\ ~ revived => pack = None

IsNotChosen ==
  gone /\ pack = None /\ ~ unheard => ~ chosen /\ \A r \in Requests : ~ Has(r, "choose")

\* Until two handlers of the pack overlap.
OneOfPack ==
  ~ unsaid =>
    /\ \A q, r \in Requests : AtPack(q) /\ AtPack(r) => q = r
    /\ IF gone THEN pack = None /\ \A r \in Requests : ~ AtPack(r) ELSE made => pack # None
    /\ \A r \in Requests :
         /\ soundsRequest[r] # None /\ soundsRequest[r].step \in {"save", "file", "url", "delete"}
              => soundsShown = pack
         /\ Has(r, "send") => soundsRequest[r].was = pack
         /\ Has(r, "disable") => soundsRequest[r].was = [pack EXCEPT !.on = FALSE]
    /\ (\A r \in Requests : ~ AtPack(r) /\ ~ Has(r, "removed")) => soundsShown = pack

\* Until two handlers of the choice overlap.
OneOfChoice ==
  ~ unheard =>
    /\ \A q, r \in Requests : AtChoice(q) /\ AtChoice(r) => q = r
    /\ \A r \in Requests :
         /\ Has(r, "chose") => chosen = TRUE
         /\ Has(r, "cleared") => chosen = FALSE
         /\ Has(r, "delete") /\ told => soundsRequest[r].arg
         /\ Has(r, "removed") => chosen = FALSE /\ (told => soundsRequest[r].arg)
    /\ (\A r \in Requests : ~ AtChoice(r)) => told = chosen

SoundsInv ==
  /\ SoundsTyped /\ FilesAreKnown /\ NewFile /\ NamedIsThere /\ NoFileLeft
  /\ IsDeleted /\ IsNotChosen /\ OneOfPack /\ OneOfChoice

LEMMA SoundsInit == Init => SoundsInv
<1> SUFFICES ASSUME Init PROVE SoundsInv
  OBVIOUS
<1>1. /\ pack = None /\ made = FALSE /\ gone = FALSE /\ disk = {} /\ used = {}
      /\ chosen = FALSE /\ told = FALSE /\ soundsShown = None
      /\ config = [on |-> TRUE, each |-> TRUE, url |-> FALSE]
      /\ soundsRequest = [r \in Requests |-> None]
  BY DEF Init, Sounds!Init
<1>2. \A r \in Requests : soundsRequest[r] = None
  BY <1>1
<1>3. SoundsTyped
  BY <1>1, <1>2 DEF SoundsTyped, Configs
<1> QED BY <1>1, <1>2, <1>3
      DEF SoundsInv, FilesAreKnown, NewFile, NamedIsThere, NoFileLeft, IsDeleted, IsNotChosen,
          OneOfPack,
          OneOfChoice, Has, AtPack, AtChoice, Known

\* The handler r is at the slot, or at none, and nobody else moves.
MovesTo(r, new) ==
  /\ soundsRequest' \in [Requests -> SoundSlot \cup {None}]
  /\ soundsRequest'[r] = new /\ \A q \in Requests \ {r} : soundsRequest'[q] = soundsRequest[q]

LEMMA SoundMoves ==
  ASSUME SoundsTyped, NEW r \in Requests, NEW new \in SoundSlot,
         soundsRequest' = [soundsRequest EXCEPT ![r] = new]
  PROVE  MovesTo(r, new) /\ new # None
BY NoneIsNoValue DEF SoundsTyped, MovesTo

LEMMA SoundEnds ==
  ASSUME SoundsTyped, NEW r \in Requests, Sounds!Ends(r)
  PROVE  MovesTo(r, None)
BY DEF SoundsTyped, MovesTo, Sounds!Ends

LEMMA SoundGoes ==
  ASSUME SoundsTyped, NEW r \in Requests, NEW s \in SoundSteps, soundsRequest[r] # None,
         soundsRequest' = [soundsRequest EXCEPT ![r].step = s]
  PROVE  \E new \in SoundSlot :
           /\ MovesTo(r, new) /\ new # None /\ new.step = s
           /\ new.was = soundsRequest[r].was /\ new.file = soundsRequest[r].file
           /\ new.arg = soundsRequest[r].arg
<1> DEFINE new == [soundsRequest[r] EXCEPT !.step = s]
<1>1. soundsRequest[r] \in SoundSlot /\ soundsRequest' = [soundsRequest EXCEPT ![r] = new]
  BY DEF SoundsTyped
<1>2. /\ new \in SoundSlot /\ new.step = s
      /\ new.was = soundsRequest[r].was /\ new.file = soundsRequest[r].file
      /\ new.arg = soundsRequest[r].arg
  BY <1>1 DEF SoundSlot
<1> HIDE DEF new
<1> QED BY <1>1, <1>2, SoundMoves

LEMMA SoundSends ==
  ASSUME SoundsTyped, NEW r \in Requests, NEW p \in Packs, soundsRequest[r] # None,
         soundsRequest' = [soundsRequest EXCEPT ![r].step = "send", ![r].was = p]
  PROVE  \E new \in SoundSlot :
           /\ MovesTo(r, new) /\ new # None /\ new.step = "send"
           /\ new.was = p /\ new.file = soundsRequest[r].file
<1> DEFINE new == [soundsRequest[r] EXCEPT !.step = "send", !.was = p]
<1>1. soundsRequest[r] \in SoundSlot /\ soundsRequest' = [soundsRequest EXCEPT ![r] = new]
  BY DEF SoundsTyped
<1>2. new \in SoundSlot /\ new.step = "send" /\ new.was = p /\ new.file = soundsRequest[r].file
  BY <1>1 DEF SoundSlot, SoundSteps
<1> HIDE DEF new
<1> QED BY <1>1, <1>2, SoundMoves

LEMMA SoundUploads ==
  ASSUME SoundsTyped, NEW r \in Requests, NEW f \in Uploads, soundsRequest[r] # None,
         soundsRequest' = [soundsRequest EXCEPT ![r].step = "url", ![r].file = f]
  PROVE  \E new \in SoundSlot :
           /\ MovesTo(r, new) /\ new # None /\ new.step = "url"
           /\ new.was = soundsRequest[r].was /\ new.file = f
<1> DEFINE new == [soundsRequest[r] EXCEPT !.step = "url", !.file = f]
<1>1. soundsRequest[r] \in SoundSlot /\ soundsRequest' = [soundsRequest EXCEPT ![r] = new]
  BY DEF SoundsTyped
<1>2. new \in SoundSlot /\ new.step = "url" /\ new.was = soundsRequest[r].was /\ new.file = f
  BY <1>1 DEF SoundSlot, SoundSteps
<1> HIDE DEF new
<1> QED BY <1>1, <1>2, SoundMoves

LEMMA TypesKept ==
  ASSUME SoundsTyped, NEW r \in Requests, NEW new, MovesTo(r, new),
         pack' \in Packs \cup {None}, config' \in Configs, chosen' \in BOOLEAN,
         new # None =>
           /\ new.step = "save" => new.arg \in Packs
           /\ new.step = "config" => new.arg \in Configs
           /\ new.step \in {"file", "url", "old", "delete", "removed"} => new.was \in Packs
           /\ new.step \in {"url", "old"} => new.file \in Uploads
  PROVE  SoundsTyped'
BY DEF SoundsTyped, MovesTo, Has

LEMMA Elsewhere ==
  ASSUME NEW r \in Requests, NEW new, MovesTo(r, new)
  PROVE  /\ \A q \in Requests, s \in {"url", "old", "removed", "save"} :
              Has(q, s)' <=> IF q = r THEN new # None /\ new.step = s ELSE Has(q, s)
         /\ \A q \in Requests : q # r => soundsRequest'[q] = soundsRequest[q]
         /\ soundsRequest'[r] = new
BY DEF Has, MovesTo

FilesRight == FilesAreKnown /\ NewFile /\ NamedIsThere /\ NoFileLeft

\* What is said of the files, when the handler r changes none.
LEMMA FilesAside ==
  ASSUME SoundsTyped, FilesRight, NEW r \in Requests, NEW new, MovesTo(r, new),
         UNCHANGED <<back, lost, disk, used>>,
         pack # None => pack' # None /\ pack'.audio = pack.audio,
         pack = None /\ pack' # None => pack'.audio = None,
         \A s \in {"url", "old", "removed"} : ~ Has(r, s) /\ ~ (new # None /\ new.step = s),
         new # None /\ soundsRequest[r] = None =>
           /\ new.was = pack \/ (new.was # None /\ new.was.audio = None)
           /\ new.file = None
           /\ new.step = "save" => pack # None /\ new.arg # None /\ new.arg.audio = pack.audio,
         new # None /\ soundsRequest[r] # None =>
           /\ new.was \in {pack, soundsRequest[r].was} /\ new.file = soundsRequest[r].file
           /\ new.step # "save"
  PROVE  FilesRight'
<1>1. FilesAreKnown /\ NewFile /\ NamedIsThere /\ NoFileLeft /\ UNCHANGED <<back, lost, disk,
    used>>
  BY DEF FilesRight
<1>2. \A q \in Requests, s \in {"url", "old", "removed"} :
        Has(q, s)' <=> Has(q, s) /\ q # r
  BY Elsewhere
<1>3. \A q \in Requests : Has(q, "save")' =>
        \/ q # r /\ Has(q, "save")
        \/ /\ q = r /\ pack # None /\ soundsRequest'[r].arg # None
                               /\ soundsRequest'[r].arg.audio = pack.audio
  BY Elsewhere
<1>4. \A q \in Requests : q # r => soundsRequest'[q] = soundsRequest[q]
  BY Elsewhere
<1>5. soundsRequest'[r] # None =>
        \/ /\ \/ soundsRequest'[r].was = pack
              \/ soundsRequest'[r].was # None /\ soundsRequest'[r].was.audio = None
           /\ soundsRequest'[r].file = None
        \/ /\ soundsRequest[r] # None
           /\ soundsRequest'[r].was \in {pack, soundsRequest[r].was}
           /\ soundsRequest'[r].file = soundsRequest[r].file
  BY Elsewhere
<1>6. FilesAreKnown'
  BY <1>1, <1>3, <1>4, <1>5 DEF FilesAreKnown, Known
<1>7. NewFile'
  <2> SUFFICES ASSUME NEW u \in Requests, Has(u, "url")'
               PROVE  /\ soundsRequest'[u].file \in disk'
                      /\ ~ Names(pack, soundsRequest[u].file)'
                      /\ \A q \in Requests : soundsRequest'[q] # None =>
                           /\ q # u => soundsRequest'[q].file # soundsRequest'[u].file
                           /\ ~ Names(soundsRequest[q].was, soundsRequest[u].file)'
                           /\ Has(q, "save")' => ~ Names(soundsRequest[q].arg,
                               soundsRequest[u].file)'
    BY DEF NewFile
  <2> DEFINE f == soundsRequest[u].file
  <2>1. u # r /\ Has(u, "url") /\ soundsRequest'[u].file = f
    BY <1>2, <1>4
  <2>2. /\ f \in disk /\ ~ Names(pack, f)
        /\ \A q \in Requests : soundsRequest[q] # None =>
             /\ q # u => soundsRequest[q].file # f
             /\ ~ Names(soundsRequest[q].was, f)
             /\ Has(q, "save") => ~ Names(soundsRequest[q].arg, f)
    BY <1>1, <2>1 DEF NewFile
  <2>3. f \in Uploads /\ f # None
    BY <2>1, NoneIsNoValue DEF SoundsTyped, Has
  <2> HIDE DEF f
  <2>4. f \in disk' /\ ~ Names(pack', f)
    BY <1>1, <2>2, <2>3 DEF Names
  <2>5. ASSUME NEW q \in Requests, soundsRequest'[q] # None
        PROVE  /\ q # u => soundsRequest'[q].file # f
               /\ ~ Names(soundsRequest'[q].was, f)
               /\ Has(q, "save")' => ~ Names(soundsRequest'[q].arg, f)
    <3>1. CASE q # r
      BY <3>1, <2>5, <1>3, <1>4, <2>2
    <3>2. CASE q = r
      BY <3>2, <2>5, <1>3, <1>5, <2>1, <2>2, <2>3 DEF Names
    <3> QED BY <3>1, <3>2
  <2> QED BY <2>1, <2>4, <2>5
<1>8. NamedIsThere'
  BY <1>1, <1>2, <1>4 DEF NamedIsThere
<1>9. NoFileLeft'
  BY <1>1, <1>2, <1>4 DEF NoFileLeft, Names
<1> QED BY <1>6, <1>7, <1>8, <1>9 DEF FilesRight

\* The file g is removed by whom it was left to.
LEMMA FileRemoved ==
  ASSUME SoundsTyped, FilesRight, NEW r \in Requests, NEW new, MovesTo(r, new), NEW g,
         UNCHANGED <<pack, back, lost, used>>, disk' = disk \ {g},
         \/ Has(r, "url") /\ g = soundsRequest[r].file
         \/ (Has(r, "old") \/ Has(r, "removed")) /\ g = soundsRequest[r].was.audio,
         new # None =>
           /\ new.step \notin {"url", "old", "removed", "save"}
           /\ new.was = soundsRequest[r].was /\ new.file = soundsRequest[r].file
  PROVE  FilesRight'
<1>1. /\ FilesAreKnown /\ NewFile /\ NamedIsThere /\ NoFileLeft
      /\ UNCHANGED <<pack, back, lost, used>> /\ disk' = disk \ {g}
  BY DEF FilesRight
<1>2. \A q \in Requests, s \in {"url", "old", "removed", "save"} :
        Has(q, s)' <=> Has(q, s) /\ q # r
  BY Elsewhere DEF Has
<1>3. \A q \in Requests : q # r => soundsRequest'[q] = soundsRequest[q]
  BY Elsewhere
<1>4. soundsRequest'[r] # None =>
        /\ soundsRequest[r] # None /\ soundsRequest'[r].was = soundsRequest[r].was
        /\ soundsRequest'[r].file = soundsRequest[r].file
  BY Elsewhere DEF Has
<1>5. FilesAreKnown'
  BY <1>1, <1>2, <1>3, <1>4 DEF FilesAreKnown, Known
<1>6. \A u \in Requests : u # r /\ Has(u, "url") => soundsRequest[u].file # g
  <2>1. Has(r, "old") \/ Has(r, "removed") => soundsRequest[r].was # None
    BY NoneIsNoValue DEF SoundsTyped, Has
  <2> QED BY <1>1, <2>1 DEF NewFile, Names, Has
<1>7. NewFile'
  BY <1>1, <1>2, <1>3, <1>4, <1>6 DEF NewFile
<1>8. pack # None => pack.audio # g \/ pack.audio \in back \cup {None}
  BY <1>1 DEF NewFile, NamedIsThere, Names
<1>9. NamedIsThere'
  BY <1>1, <1>2, <1>3, <1>8 DEF NamedIsThere
<1>10. NoFileLeft'
  <2> SUFFICES ASSUME NEW f \in disk'
               PROVE  \/ f \in lost' \/ Names(pack', f)
                      \/ \E q \in Requests : Has(q, "url")' /\ soundsRequest'[q].file = f
                      \/ \E q \in Requests : /\ (Has(q, "old") \/ Has(q, "removed"))'
                                             /\ soundsRequest'[q].was.audio = f
    BY DEF NoFileLeft, Names
  <2>1. f \in disk /\ f # g
    BY <1>1
  <2>2. CASE f \in lost \/ Names(pack, f)
    BY <2>2, <1>1
  <2>3. ASSUME NEW q \in Requests, Has(q, "url"), soundsRequest[q].file = f
        PROVE  \E u \in Requests : Has(u, "url")' /\ soundsRequest'[u].file = f
    <3>1. q # r
      BY <2>1, <2>3 DEF Has
    <3> QED BY <3>1, <2>3, <1>2, <1>3
  <2>4. ASSUME NEW q \in Requests, Has(q, "old") \/ Has(q, "removed"),
      soundsRequest[q].was.audio = f
        PROVE  \E u \in Requests : (Has(u, "old") \/ Has(u, "removed"))' /\
            soundsRequest'[u].was.audio = f
    <3>1. q # r
      BY <2>1, <2>4 DEF Has
    <3> QED BY <3>1, <2>4, <1>2, <1>3
  <2> QED BY <1>1, <2>1, <2>2, <2>3, <2>4 DEF NoFileLeft
<1> QED BY <1>5, <1>7, <1>9, <1>10 DEF FilesRight

\* What is said of the pack, when the handler r is not at it.
LEMMA PackAside ==
  ASSUME IsDeleted, OneOfPack, NEW r \in Requests, NEW new, MovesTo(r, new),
         UNCHANGED <<pack, made, gone, revived, soundsShown, unsaid>>,
         ~ AtPack(r) /\ ~ Has(r, "removed"),
         new # None => new.step \notin {"disable", "save", "file", "url", "old", "read", "send",
                                        "delete", "removed"}
  PROVE  IsDeleted' /\ OneOfPack'
<1>1. \A q \in Requests : /\ AtPack(q)' <=> AtPack(q)
                          /\ Has(q, "removed")' <=> Has(q, "removed")
  BY DEF AtPack, Has, MovesTo
<1>2. \A q \in Requests : AtPack(q) \/ Has(q, "removed") =>
        soundsRequest'[q] = soundsRequest[q]
  BY DEF MovesTo
<1>3. IsDeleted'
  BY <1>1 DEF IsDeleted
<1>4. \A q \in Requests :
        /\ Has(q, "send")' <=> Has(q, "send")
        /\ Has(q, "disable")' <=> Has(q, "disable")
        /\ (soundsRequest[q] # None /\ soundsRequest[q].step \in {"save", "file", "url",
            "delete"})'
             => soundsRequest[q] # None /\ soundsRequest[q].step \in {"save", "file", "url",
                 "delete"}
  BY DEF MovesTo, Has, AtPack
<1>5. OneOfPack'
  BY <1>1, <1>2, <1>4 DEF OneOfPack, Has, AtPack
<1> QED BY <1>3, <1>5

\* The handler r comes to the pack, alone or overlapping.
LEMMA PackBegins ==
  ASSUME OneOfPack, IsDeleted, NEW r \in Requests, NEW new, MovesTo(r, new), new # None,
         soundsRequest[r] = None, UNCHANGED <<pack, made, gone, revived, soundsShown>>, pack #
             None,
         ~ unsaid' => ~ unsaid /\ \A q \in Requests \ {r} : ~ AtPack(q),
         new.step \in {"save", "file", "delete"}
  PROVE  IsDeleted' /\ OneOfPack'
<1>1. \A q \in Requests : AtPack(q)' <=> AtPack(q) \/ q = r
  BY DEF AtPack, MovesTo
<1>2. \A q \in Requests : Has(q, "removed")' <=> Has(q, "removed")
  BY DEF Has, MovesTo
<1>3. IsDeleted'
  BY <1>1, <1>2 DEF IsDeleted
<1>4. ASSUME ~ unsaid' PROVE /\ ~ gone /\ soundsShown = pack
                             /\ \A q \in Requests : AtPack(q)' => q = r
  <2>1. ~ gone /\ (\A q \in Requests : ~ AtPack(q))
    BY <1>4 DEF OneOfPack, AtPack
  <2>2. \A q \in Requests : ~ Has(q, "removed")
    BY <2>1 DEF IsDeleted
  <2> QED BY <1>1, <1>4, <2>1, <2>2 DEF OneOfPack
<1>5. OneOfPack'
  BY <1>1, <1>4 DEF OneOfPack, AtPack, MovesTo, Has
<1> QED BY <1>3, <1>5

\* The handler r goes on with the pack.
LEMMA PackGoes ==
  ASSUME OneOfPack, IsDeleted, NEW r \in Requests, NEW new, MovesTo(r, new), AtPack(r),
         UNCHANGED <<unsaid, gone, made>>, pack' = None => pack = None,
         gone /\ ~ revived' => pack' = None,
         new # None =>
           /\ new.step \in {"file", "url", "old", "read", "send"}
           /\ ~ unsaid /\ new.step = "send" => new.was = pack',
         ~ unsaid /\ (new = None \/ new.step \in {"file", "url"}) => soundsShown' = pack'
  PROVE  IsDeleted' /\ OneOfPack'
<1>1. \A q \in Requests : /\ AtPack(q)' => AtPack(q)
                          /\ Has(q, "removed")' => Has(q, "removed")
  BY DEF AtPack, Has, MovesTo
<1>2. IsDeleted'
  BY <1>1 DEF IsDeleted
<1>3. ASSUME ~ unsaid PROVE OneOfPack'
  <2>1. \A q \in Requests : AtPack(q) => q = r
    BY <1>3 DEF OneOfPack
  <2>2. ~ gone /\ pack # None
    BY <1>3 DEF OneOfPack, IsDeleted
  <2>3. \A q \in Requests \ {r} : ~ AtPack(q)'
    BY <1>1, <2>1
  <2>4. (\A q \in Requests : ~ AtPack(q)') => new = None
    BY DEF AtPack, MovesTo
  <2>5. \A q \in Requests : soundsRequest'[q] # None /\ AtPack(q)' => q = r /\ soundsRequest'[q]
      = new
    BY <2>3 DEF MovesTo
  <2> QED BY <1>1, <1>3, <2>1, <2>2, <2>3, <2>4, <2>5 DEF OneOfPack, AtPack, Has
<1> QED BY <1>2, <1>3 DEF OneOfPack

\* What is said of the choice, when the handler r is not at it.
LEMMA ChoiceAside ==
  ASSUME IsNotChosen, OneOfChoice, NEW r \in Requests, NEW new, MovesTo(r, new),
         UNCHANGED <<chosen, told, unheard>>, gone' /\ pack' = None => gone /\ pack = None,
         ~ AtChoice(r),
         new # None =>
           new.step \notin {"choose", "chose", "cleared", "delete", "removed"}
  PROVE  IsNotChosen' /\ OneOfChoice'
<1>1. \A q \in Requests : AtChoice(q)' <=> AtChoice(q)
  BY DEF AtChoice, MovesTo
<1>2. \A q \in Requests : AtChoice(q) => soundsRequest'[q] = soundsRequest[q]
  BY DEF MovesTo
<1>3. \A q \in Requests, s \in {"choose", "chose", "cleared", "delete", "removed"} :
        Has(q, s)' <=> Has(q, s)
  BY <1>1, <1>2 DEF Has, AtChoice
<1>4. IsNotChosen'
  BY <1>3 DEF IsNotChosen
<1>5. OneOfChoice'
  BY <1>1, <1>2, <1>3 DEF OneOfChoice, Has, AtChoice
<1> QED BY <1>4, <1>5

\* The handler r comes to the choice, alone or overlapping.
LEMMA ChoiceBegins ==
  ASSUME OneOfChoice, IsNotChosen, NEW r \in Requests, NEW new, MovesTo(r, new), new # None,
         soundsRequest[r] = None, UNCHANGED <<pack, gone, told>>,
         ~ unheard' => ~ unheard /\ \A q \in Requests \ {r} : ~ AtChoice(q),
         \/ new.step = "choose" /\ chosen' = chosen /\ pack # None
         \/ new.step = "cleared" /\ chosen' = FALSE
         \/ new.step = "delete" /\ chosen' = chosen /\ (told = chosen /\ told => new.arg)
  PROVE  IsNotChosen' /\ OneOfChoice'
<1>1. ASSUME ~ unheard' PROVE IsNotChosen' /\ OneOfChoice'
  <2>1. ~ unheard /\ told = chosen /\ \A q \in Requests : ~ AtChoice(q)
    BY <1>1 DEF OneOfChoice, AtChoice
  <2>2. \A q \in Requests : AtChoice(q)' => q = r
    BY <2>1 DEF AtChoice, MovesTo
  <2>3. \A q \in Requests, s \in {"choose", "chose", "cleared", "delete", "removed"} :
          Has(q, s)' => q = r /\ new.step = s
    BY <2>1 DEF Has, MovesTo, AtChoice
  <2>4. AtChoice(r)'
    BY DEF AtChoice, MovesTo
  <2>5. IsNotChosen'
    BY <2>1, <2>3 DEF IsNotChosen
  <2>6. soundsRequest'[r] = new
    BY DEF MovesTo
  <2>7. /\ \A q \in Requests : Has(q, "chose")' => chosen' = TRUE
        /\ \A q \in Requests : Has(q, "cleared")' => chosen' = FALSE
        /\ \A q \in Requests : Has(q, "removed")' => FALSE
    BY <2>3
  <2>8. \A q \in Requests : Has(q, "delete")' /\ told' => soundsRequest'[q].arg
    BY <2>1, <2>3, <2>6
  <2>9. OneOfChoice'
    BY <2>2, <2>4, <2>7, <2>8 DEF OneOfChoice
  <2> QED BY <2>5, <2>9
<1> QED BY <1>1 DEF IsNotChosen, OneOfChoice

\* The handler r goes on with the choice, or is done with it.
LEMMA ChoiceGoes ==
  ASSUME OneOfChoice, IsNotChosen, NEW r \in Requests, NEW new, MovesTo(r, new), AtChoice(r),
         UNCHANGED unheard, gone' /\ pack' = None => chosen' = FALSE \/ (gone /\ pack = None),
         chosen' = chosen \/ chosen' = FALSE \/ Has(r, "choose"),
         new # None => new.step \in {"chose", "removed"},
         new # None /\ new.step = "chose" => chosen' = TRUE /\ Has(r, "choose"),
         new # None /\ new.step = "removed" =>
           /\ Has(r, "delete") /\ new.arg = soundsRequest[r].arg
           /\ chosen' = FALSE /\ told' = told,
         new = None /\ ~ unheard => told' = chosen' /\ chosen' = chosen
  PROVE  IsNotChosen' /\ OneOfChoice'
<1>1. ASSUME ~ unheard PROVE IsNotChosen' /\ OneOfChoice'
  <2>1. \A q \in Requests : AtChoice(q) => q = r
    BY <1>1 DEF OneOfChoice
  <2>2. \A q \in Requests : AtChoice(q)' => q = r
    BY <2>1 DEF AtChoice, MovesTo
  <2>3. \A q \in Requests, s \in {"choose", "chose", "cleared", "delete", "removed"} :
          Has(q, s)' => q = r /\ new # None /\ new.step = s
    BY <2>1 DEF Has, MovesTo, AtChoice
  <2>4. (\A q \in Requests : ~ AtChoice(q)') => new = None
    BY DEF AtChoice, MovesTo
  <2>5. IsNotChosen'
    BY <1>1, <2>3 DEF IsNotChosen
  <2>6. soundsRequest'[r] = new
    BY DEF MovesTo
  <2>7. /\ \A q \in Requests : Has(q, "chose")' => chosen' = TRUE
        /\ \A q \in Requests : ~ Has(q, "cleared")' /\ ~ Has(q, "delete")'
    BY <2>3
  <2>8. \A q \in Requests : Has(q, "removed")' => chosen' = FALSE /\ (told' =>
      soundsRequest'[q].arg)
    BY <1>1, <2>3, <2>6 DEF OneOfChoice
  <2>9. (\A q \in Requests : ~ AtChoice(q)') => told' = chosen'
    BY <1>1, <2>4
  <2>10. OneOfChoice'
    BY <2>2, <2>7, <2>8, <2>9 DEF OneOfChoice
  <2> QED BY <2>5, <2>10
<1> QED BY <1>1 DEF IsNotChosen, OneOfChoice

LEMMA SoundsNext == SoundsInv /\ [Next]_vars => SoundsInv'
<1> SUFFICES ASSUME SoundsInv, [Next]_vars PROVE SoundsInv'
  OBVIOUS
<1>t. /\ SoundsTyped /\ FilesAreKnown /\ NewFile /\ NamedIsThere /\ NoFileLeft
      /\ IsDeleted /\ IsNotChosen /\ OneOfPack /\ OneOfChoice /\ FilesRight
  BY DEF SoundsInv, FilesRight
<1>1. ASSUME NEW r \in Requests, Sounds!CreateVoicePack(r) PROVE SoundsInv'
  <2>1. PICK new \in SoundSlot :
          /\ soundsRequest[r] = None /\ MovesTo(r, new) /\ new # None
          /\ new.was \in Packs /\ new.was.audio = None /\ new.file = None
          /\ \/ new.step = "send" /\ new.was = pack'
             \/ new.step = "disable" /\ new.was = [pack' EXCEPT !.on = FALSE]
    <3>1. PICK s \in {"send", "disable"}, on \in BOOLEAN :
            /\ soundsRequest[r] = None /\ pack' \in Packs /\ pack'.audio = None
            /\ s = (IF on THEN "send" ELSE "disable") /\ pack'.on = TRUE
            /\ soundsRequest' = [soundsRequest EXCEPT ![r] =
                 [Sounds!Slot(s, None) EXCEPT !.was = [pack' EXCEPT !.on = on]]]
      <4>1. PICK rare \in BOOLEAN, on \in BOOLEAN :
              /\ pack' = [rare |-> rare, on |-> TRUE, audio |-> None]
              /\ soundsRequest[r] = None
              /\ soundsRequest' = [soundsRequest EXCEPT ![r] =
                   [Sounds!Slot(IF on THEN "send" ELSE "disable", None) EXCEPT
                      !.was = [pack' EXCEPT !.on = on]]]
        BY <1>1 DEF Sounds!CreateVoicePack, Sounds!BeginsAs
      <4>2. pack' \in Packs /\ pack'.audio = None /\ pack'.on = TRUE
        BY <4>1 DEF Packs
      <4>3. CASE on
        BY <4>1, <4>2, <4>3
      <4>4. CASE ~ on
        BY <4>1, <4>2, <4>4
      <4> QED BY <4>3, <4>4
    <3> DEFINE p    == [pack' EXCEPT !.on = on]
    <3>2. p \in Packs /\ p.audio = None /\ (on = TRUE => p = pack')
      BY <3>1 DEF Packs
    <3> HIDE DEF p
    <3> DEFINE slot == [Sounds!Slot(s, None) EXCEPT !.was = p]
    <3>3. slot \in SoundSlot /\ slot.step = s /\ slot.was = p /\ slot.file = None
      BY <1>t, <3>2 DEF SoundsTyped, SoundSteps, SoundSlot, SoundArgs, Sounds!Slot
    <3> HIDE DEF slot
    <3>4. soundsRequest' = [soundsRequest EXCEPT ![r] = slot]
      BY <3>1 DEF slot, p
    <3>5. (s = "send" /\ p = pack') \/ (s = "disable" /\ p = [pack' EXCEPT !.on = FALSE])
      <4>1. CASE on = TRUE
        BY <3>1, <3>2, <4>1
      <4>2. CASE on = FALSE
        BY <3>1, <4>2 DEF p
      <4> QED BY <4>1, <4>2
    <3>6. MovesTo(r, slot) /\ slot # None
      BY <1>t, <3>3, <3>4, SoundMoves
    <3> QED BY <3>1, <3>2, <3>3, <3>5, <3>6
  <2>2. SoundsTyped'
    <3>1. pack' \in Packs
      BY <1>t, <1>1, <2>1 DEF Sounds!CreateVoicePack, Packs
    <3>2. UNCHANGED <<config, chosen>>
      BY <1>t, <1>1, <2>1 DEF Sounds!CreateVoicePack, Sounds!row, Sounds!files, Sounds!user,
          Sounds!choice, Sounds!guild, Sounds!sound
    <3> QED BY <1>t, <2>1, <3>1, <3>2, TypesKept DEF SoundsTyped, Has
  <2>3. FilesRight'
    <3>1. pack = None
      BY <1>t, <1>1, <2>1 DEF IsDeleted, Sounds!CreateVoicePack
    <3>2. pack'.audio = None /\ UNCHANGED <<back, lost, disk, used>>
      BY <1>t, <1>1, <2>1 DEF Sounds!CreateVoicePack, Sounds!row, Sounds!files, Sounds!user,
          Sounds!choice, Sounds!guild, Sounds!sound
    <3> QED BY <1>t, <2>1, <3>1, <3>2, NoneIsNoValue, FilesAside DEF Has
  <2>4. IsDeleted' /\ OneOfPack'
    <3>0. pack' \in Packs
      BY <1>1 DEF Sounds!CreateVoicePack, Packs
    <3>1. /\ ~ made /\ made' = TRUE /\ pack' # None /\ UNCHANGED <<gone, revived>>
      BY <1>1, <3>0, NoneIsNoValue DEF Sounds!CreateVoicePack, Sounds!row, Sounds!files,
          Sounds!user, Sounds!choice, Sounds!guild, Sounds!sound
    <3>2. ~ gone /\ \A q \in Requests : ~ AtPack(q) /\ ~ Has(q, "removed")
      BY <1>t, <3>1 DEF IsDeleted
    <3>3. \A q \in Requests : q # r => ~ AtPack(q)' /\ ~ Has(q, "removed")'
      BY <2>1, <3>2 DEF AtPack, Has, MovesTo
    <3>4. ~ Has(r, "removed")' /\ AtPack(r)' /\ soundsRequest'[r] = new
      BY <2>1 DEF Has, AtPack, MovesTo
    <3>5. IsDeleted'
      BY <3>1, <3>2, <3>3, <3>4 DEF IsDeleted
    <3>6. OneOfPack'
      BY <2>1, <3>1, <3>2, <3>3, <3>4 DEF OneOfPack, AtPack, Has
    <3> QED BY <3>5, <3>6
  <2>5. IsNotChosen' /\ OneOfChoice'
    <3>1. UNCHANGED <<chosen, told, unheard>> /\ ~ gone'
      BY <1>t, <1>1, <2>1 DEF IsDeleted, Sounds!CreateVoicePack, Sounds!row, Sounds!files,
          Sounds!user, Sounds!choice, Sounds!guild, Sounds!sound
    <3> QED BY <1>t, <2>1, <3>1, ChoiceAside DEF Has, AtChoice
  <2> QED BY <2>2, <2>3, <2>4, <2>5 DEF SoundsInv, FilesRight
<1>2. ASSUME NEW r \in Requests, Sounds!PackDisabled(r) PROVE SoundsInv'
  <2>1. PICK new \in SoundSlot :
          /\ Has(r, "disable") /\ MovesTo(r, new) /\ new # None /\ new.step = "send"
          /\ new.was = soundsRequest[r].was /\ new.file = soundsRequest[r].file
          /\ new.arg = soundsRequest[r].arg
    <3>1. /\ Has(r, "disable") /\ soundsRequest[r] # None
          /\ soundsRequest' = [soundsRequest EXCEPT ![r].step = "send"]
      BY <1>2 DEF Sounds!PackDisabled, Sounds!Doing, Sounds!Goes, Has
    <3>2. "send" \in SoundSteps
      BY DEF SoundSteps
    <3> QED BY <1>t, <3>1, <3>2, SoundGoes
  <2>2. SoundsTyped'
    <3>1. pack' \in Packs \cup {None}
      BY <1>t, <1>2, <2>1 DEF Sounds!PackDisabled, SoundsTyped, Packs
    <3>2. UNCHANGED <<config, chosen>>
      BY <1>t, <1>2, <2>1 DEF Sounds!PackDisabled, Sounds!row, Sounds!files, Sounds!user,
          Sounds!choice, Sounds!guild, Sounds!sound
    <3> QED BY <1>t, <2>1, <3>1, <3>2, TypesKept DEF SoundsTyped, Has
  <2>3. FilesRight'
    <3>1. pack # None => pack' # None /\ pack'.audio = pack.audio
      BY <1>t, <1>2, <2>1, NoneIsNoValue DEF Sounds!PackDisabled, SoundsTyped, Packs
    <3>2. pack = None => pack' = None
      BY <1>t, <1>2, <2>1 DEF Sounds!PackDisabled
    <3>3. UNCHANGED <<back, lost, disk, used>>
      BY <1>t, <1>2, <2>1 DEF Sounds!PackDisabled, Sounds!row, Sounds!files, Sounds!user,
          Sounds!choice, Sounds!guild, Sounds!sound
    <3> QED BY <1>t, <2>1, <3>1, <3>2, <3>3, FilesAside DEF Has
  <2>4. IsDeleted' /\ OneOfPack'
    <3>1. UNCHANGED <<unsaid, gone, made, revived>>
      BY <1>t, <1>2, <2>1 DEF Sounds!PackDisabled, Sounds!row, Sounds!files, Sounds!user,
          Sounds!choice, Sounds!guild, Sounds!sound
    <3>2. pack' = None <=> pack = None
      BY <1>t, <1>2, <2>1, NoneIsNoValue DEF Sounds!PackDisabled, SoundsTyped, Packs
    <3>3. gone /\ ~ revived' => pack' = None
      BY <1>t, <3>1, <3>2 DEF IsDeleted
    <3>4. ~ unsaid => new.was = pack'
      <4>1. ~ unsaid => ~ gone /\ pack # None
        BY <1>t, <2>1 DEF OneOfPack, IsDeleted, AtPack, Has
      <4>2. pack # None => pack' = [pack EXCEPT !.on = FALSE]
        BY <1>2 DEF Sounds!PackDisabled
      <4> QED BY <1>t, <2>1, <4>1, <4>2 DEF OneOfPack
    <3> QED BY <1>t, <2>1, <3>1, <3>2, <3>3, <3>4, PackGoes DEF Has, AtPack
  <2>5. IsNotChosen' /\ OneOfChoice'
    <3>1. UNCHANGED <<chosen, told, unheard, gone>>
      BY <1>t, <1>2, <2>1 DEF Sounds!PackDisabled, Sounds!row, Sounds!files, Sounds!user,
          Sounds!choice, Sounds!guild, Sounds!sound
    <3>2. pack' = None => pack = None
      BY <1>t, <1>2, <2>1, NoneIsNoValue DEF Sounds!PackDisabled, SoundsTyped, Packs
    <3> QED BY <1>t, <2>1, <3>1, <3>2, ChoiceAside DEF Has, AtChoice
  <2> QED BY <2>2, <2>3, <2>4, <2>5 DEF SoundsInv, FilesRight
<1>3. ASSUME NEW r \in Requests, Sounds!PatchVoicePack(r) PROVE SoundsInv'
  <2>1. PICK new \in SoundSlot :
          /\ soundsRequest[r] = None /\ MovesTo(r, new) /\ new # None /\ new.step = "save"
          /\ new.was = pack /\ new.file = None /\ new.arg \in Packs /\ new.arg.audio =
              pack.audio
    <3>1. PICK p \in Packs :
            /\ soundsRequest[r] = None
            /\ p.audio = pack.audio
            /\ soundsRequest' = [soundsRequest EXCEPT ![r] = Sounds!Slot("save", p)]
      BY <1>t, <1>3 DEF Sounds!PatchVoicePack, Sounds!Begins, Sounds!BeginsAs, SoundsTyped, Packs, Configs
    <3> DEFINE slot == Sounds!Slot("save", p)
    <3>2. /\ slot \in SoundSlot /\ slot.step = "save"
          /\ slot.was = pack /\ slot.file = None /\ slot.arg \in Packs /\ slot.arg.audio =
              pack.audio
      BY <1>t, <3>1 DEF SoundsTyped, SoundSteps, SoundSlot, SoundArgs, Sounds!Slot
    <3> HIDE DEF slot
    <3> QED BY <1>t, <3>1, <3>2, SoundMoves DEF slot
  <2>2. SoundsTyped'
    <3>1. UNCHANGED <<pack, config, chosen>>
      BY <1>t, <1>3, <2>1 DEF Sounds!PatchVoicePack, Sounds!row, Sounds!files, Sounds!user,
          Sounds!choice, Sounds!guild, Sounds!sound
    <3> QED BY <1>t, <2>1, <3>1, TypesKept DEF SoundsTyped, Has
  <2>3. FilesRight'
    <3>1. pack # None /\ UNCHANGED <<pack, back, lost, disk, used>>
      BY <1>t, <1>3, <2>1 DEF Sounds!PatchVoicePack, Sounds!row, Sounds!files, Sounds!user,
          Sounds!choice, Sounds!guild, Sounds!sound
    <3> QED BY <1>t, <2>1, <3>1, FilesAside, NoneIsNoValue DEF Has
  <2>4. IsDeleted' /\ OneOfPack'
    <3>1. UNCHANGED <<pack, made, gone, revived, soundsShown>> /\ pack # None
      BY <1>t, <1>3, <2>1 DEF Sounds!PatchVoicePack, Sounds!row, Sounds!files, Sounds!user,
          Sounds!choice, Sounds!guild, Sounds!sound
    <3>2. ~ unsaid' => ~ unsaid /\ \A q \in Requests \ {r} : ~ AtPack(q)
      BY <1>t, <1>3, <2>1 DEF Sounds!PatchVoicePack, Sounds!Overlaps, Sounds!OfPack, AtPack
    <3> QED BY <1>t, <2>1, <3>1, <3>2, PackBegins DEF Has, AtPack
  <2>5. IsNotChosen' /\ OneOfChoice'
    <3>1. UNCHANGED <<chosen, told, unheard>> /\ (gone' /\ pack' = None => gone /\ pack = None)
      BY <1>t, <1>3, <2>1 DEF Sounds!PatchVoicePack, Sounds!row, Sounds!files, Sounds!user,
          Sounds!choice, Sounds!guild, Sounds!sound
    <3> QED BY <1>t, <2>1, <3>1, ChoiceAside DEF Has, AtChoice
  <2> QED BY <2>2, <2>3, <2>4, <2>5 DEF SoundsInv, FilesRight
<1>4. ASSUME NEW r \in Requests, Sounds!PackSaved(r) PROVE SoundsInv'
  <2>1. PICK new \in SoundSlot :
          /\ Has(r, "save") /\ MovesTo(r, new) /\ new # None /\ new.step = "send"
          /\ new.was = pack' /\ new.file = soundsRequest[r].file /\ pack' \in Packs
    <3>1. /\ Has(r, "save") /\ pack' \in Packs /\ soundsRequest[r] # None
          /\ soundsRequest' = [soundsRequest EXCEPT ![r].step = "send", ![r].was = pack']
      BY <1>t, <1>4 DEF Sounds!PackSaved, Sounds!Doing, Has, SoundsTyped
    <3> QED BY <1>t, <3>1, SoundSends
  <2>2. SoundsTyped'
    <3>1. UNCHANGED <<config, chosen>>
      BY <1>t, <1>4, <2>1 DEF Sounds!PackSaved, Sounds!row, Sounds!files, Sounds!user,
          Sounds!choice, Sounds!guild, Sounds!sound
    <3> QED BY <1>t, <2>1, <3>1, TypesKept DEF SoundsTyped, Has
  <2>3. FilesRight'
    <3>0. FilesAreKnown /\ NewFile /\ NamedIsThere /\ NoFileLeft
      BY <1>t DEF FilesRight
    <3>1. /\ pack' = soundsRequest[r].arg /\ pack' \in Packs /\ pack' # None
          /\ disk' = disk /\ used' = used
      BY <1>t, <1>4, <2>1, NoneIsNoValue DEF Sounds!PackSaved, Sounds!row, Sounds!files,
          Sounds!user, Sounds!choice, Sounds!guild, Sounds!sound
    <3>2. /\ back \subseteq back' /\ lost \subseteq lost'
          /\ pack = None \/ pack.audio # pack'.audio => pack'.audio \in back'
          /\ pack # None /\ pack.audio # pack'.audio => pack.audio \in lost'
      BY <1>4 DEF Sounds!PackSaved
    <3>3. /\ \A q \in Requests, s \in {"url", "old", "removed", "save"} :
               Has(q, s)' <=> q # r /\ Has(q, s)
          /\ \A q \in Requests : q # r => soundsRequest'[q] = soundsRequest[q]
          /\ soundsRequest'[r].was = pack' /\ soundsRequest'[r].file = soundsRequest[r].file
      BY <2>1, Elsewhere DEF Has
    <3>4. FilesAreKnown'
      BY <2>1, <3>0, <3>1, <3>3 DEF FilesAreKnown, Known, Has
    <3>5. NewFile'
      BY <2>1, <3>0, <3>1, <3>3 DEF NewFile, Names, Has
    <3>6. NamedIsThere'
      BY <3>0, <3>1, <3>2, <3>3 DEF NamedIsThere
    <3>7. NoFileLeft'
      <4> SUFFICES ASSUME NEW f \in disk'
                   PROVE  \/ f \in lost' \/ Names(pack', f)
                          \/ \E q \in Requests : Has(q, "url")' /\ soundsRequest'[q].file = f
                          \/ \E q \in Requests : /\ (Has(q, "old") \/ Has(q, "removed"))'
                                                 /\ soundsRequest'[q].was.audio = f
        BY DEF NoFileLeft, Names
      <4>1. f \in disk
        BY <3>1, <3>2, <3>3
      <4>2. CASE f \in lost \/ Names(pack, f)
        BY <4>2, <3>1, <3>2, <3>3 DEF Names
      <4>3. ASSUME NEW q \in Requests, Has(q, "url"), soundsRequest[q].file = f
            PROVE  \E u \in Requests : Has(u, "url")' /\ soundsRequest'[u].file = f
        <5>1. q # r
          BY <2>1, <4>3 DEF Has
        <5> QED BY <5>1, <4>3, <3>1, <3>2, <3>3
      <4>4. ASSUME NEW q \in Requests, Has(q, "old") \/ Has(q, "removed"),
          soundsRequest[q].was.audio = f
            PROVE  \E u \in Requests : (Has(u, "old") \/ Has(u, "removed"))' /\
                soundsRequest'[u].was.audio = f
        <5>1. q # r
          BY <2>1, <4>4 DEF Has
        <5> QED BY <5>1, <4>4, <3>1, <3>2, <3>3
      <4> QED BY <3>0, <4>1, <4>2, <4>3, <4>4 DEF NoFileLeft
    <3> QED BY <3>4, <3>5, <3>6, <3>7 DEF FilesRight
  <2>4. IsDeleted' /\ OneOfPack'
    <3>1. pack' # None /\ UNCHANGED <<unsaid, gone, made>>
      BY <1>t, <1>4, <2>1, NoneIsNoValue DEF Sounds!PackSaved, Sounds!row, Sounds!files,
          Sounds!user, Sounds!choice, Sounds!guild, Sounds!sound
    <3>2. gone /\ ~ revived' => FALSE
      BY <1>t, <1>4, <2>1 DEF Sounds!PackSaved, IsDeleted
    <3> QED BY <1>t, <2>1, <3>1, <3>2, PackGoes DEF Has, AtPack
  <2>5. IsNotChosen' /\ OneOfChoice'
    <3>1. UNCHANGED <<chosen, told, unheard>>
      BY <1>t, <1>4, <2>1 DEF Sounds!PackSaved, Sounds!row, Sounds!files, Sounds!user,
          Sounds!choice, Sounds!guild, Sounds!sound
    <3>2. pack' # None
      BY <1>t, <1>4, <2>1, NoneIsNoValue
    <3> QED BY <1>t, <2>1, <3>1, <3>2, ChoiceAside DEF Has, AtChoice
  <2> QED BY <2>2, <2>3, <2>4, <2>5 DEF SoundsInv, FilesRight
<1>5. ASSUME NEW r \in Requests, Sounds!UploadVoicePackAudio(r) PROVE SoundsInv'
  <2>1. PICK new \in SoundSlot :
          /\ soundsRequest[r] = None /\ MovesTo(r, new) /\ new # None /\ new.step = "file"
          /\ new.was = pack /\ new.file = None
    <3>1. /\ soundsRequest[r] = None
          /\ soundsRequest' = [soundsRequest EXCEPT ![r] = Sounds!Slot("file", None)]
      BY <1>5 DEF Sounds!UploadVoicePackAudio, Sounds!Begins, Sounds!BeginsAs
    <3> DEFINE slot == Sounds!Slot("file", None)
    <3>2. /\ slot \in SoundSlot /\ slot.step = "file"
          /\ slot.was = pack /\ slot.file = None
      BY <1>t, <3>1 DEF SoundsTyped, SoundSteps, SoundSlot, SoundArgs, Sounds!Slot
    <3> HIDE DEF slot
    <3> QED BY <1>t, <3>1, <3>2, SoundMoves DEF slot
  <2>2. SoundsTyped'
    <3>1. UNCHANGED <<pack, config, chosen>> /\ pack # None
      BY <1>t, <1>5, <2>1 DEF Sounds!UploadVoicePackAudio, Sounds!row, Sounds!files,
          Sounds!user, Sounds!choice, Sounds!guild, Sounds!sound
    <3> QED BY <1>t, <2>1, <3>1, TypesKept DEF SoundsTyped, Has
  <2>3. FilesRight'
    <3>1. UNCHANGED <<pack, back, lost, disk, used>>
      BY <1>t, <1>5, <2>1 DEF Sounds!UploadVoicePackAudio, Sounds!row, Sounds!files,
          Sounds!user, Sounds!choice, Sounds!guild, Sounds!sound
    <3> QED BY <1>t, <2>1, <3>1, FilesAside DEF Has
  <2>4. IsDeleted' /\ OneOfPack'
    <3>1. UNCHANGED <<pack, made, gone, revived, soundsShown>> /\ pack # None
      BY <1>t, <1>5, <2>1 DEF Sounds!UploadVoicePackAudio, Sounds!row, Sounds!files,
          Sounds!user, Sounds!choice, Sounds!guild, Sounds!sound
    <3>2. ~ unsaid' => ~ unsaid /\ \A q \in Requests \ {r} : ~ AtPack(q)
      BY <1>t, <1>5, <2>1 DEF Sounds!UploadVoicePackAudio, Sounds!Overlaps, Sounds!OfPack,
          AtPack
    <3> QED BY <1>t, <2>1, <3>1, <3>2, PackBegins DEF Has, AtPack
  <2>5. IsNotChosen' /\ OneOfChoice'
    <3>1. UNCHANGED <<chosen, told, unheard>> /\ (gone' /\ pack' = None => gone /\ pack = None)
      BY <1>t, <1>5, <2>1 DEF Sounds!UploadVoicePackAudio, Sounds!row, Sounds!files,
          Sounds!user, Sounds!choice, Sounds!guild, Sounds!sound
    <3> QED BY <1>t, <2>1, <3>1, ChoiceAside DEF Has, AtChoice
  <2> QED BY <2>2, <2>3, <2>4, <2>5 DEF SoundsInv, FilesRight
<1>6. ASSUME NEW r \in Requests, Sounds!AudioSaved(r) PROVE SoundsInv'
  <2>1. PICK new \in SoundSlot, f \in Uploads :
          /\ Has(r, "file") /\ MovesTo(r, new) /\ new # None /\ new.step = "url"
          /\ new.was = soundsRequest[r].was /\ new.file = f
          /\ f \notin used /\ used' = used \cup {f} /\ disk' = disk \cup {f}
    <3>1. PICK f \in Uploads :
            /\ Has(r, "file") /\ soundsRequest[r] # None
            /\ soundsRequest' = [soundsRequest EXCEPT ![r].step = "url", ![r].file = f]
            /\ f \notin used /\ used' = used \cup {f} /\ disk' = disk \cup {f}
      BY <1>6 DEF Sounds!AudioSaved, Sounds!Doing, Has
    <3> QED BY <1>t, <3>1, SoundUploads
  <2>2. SoundsTyped'
    <3>1. UNCHANGED <<pack, config, chosen>>
      BY <1>t, <1>6, <2>1 DEF Sounds!AudioSaved, Sounds!row, Sounds!files, Sounds!user,
          Sounds!choice, Sounds!guild, Sounds!sound
    <3> QED BY <1>t, <2>1, <3>1, TypesKept DEF SoundsTyped, Has, Packs
  <2>3. FilesRight'
    <3>0. FilesAreKnown /\ NewFile /\ NamedIsThere /\ NoFileLeft
      BY <1>t DEF FilesRight
    <3>1. UNCHANGED <<pack, back, lost>> /\ f # None
      BY <1>6, NoneIsNoValue DEF Sounds!AudioSaved, Sounds!row, Sounds!files, Sounds!user,
          Sounds!choice, Sounds!guild, Sounds!sound
    <3>3. /\ \A q \in Requests, s \in {"old", "removed", "save"} :
               Has(q, s)' <=> q # r /\ Has(q, s)
          /\ \A q \in Requests : Has(q, "url")' <=> q = r \/ Has(q, "url")
          /\ \A q \in Requests : q # r => soundsRequest'[q] = soundsRequest[q]
          /\ soundsRequest'[r].was = soundsRequest[r].was /\ soundsRequest'[r].file = f
      BY <2>1, Elsewhere DEF Has
    <3>4. FilesAreKnown'
      BY <2>1, <3>0, <3>1, <3>3 DEF FilesAreKnown, Known, Has
    <3>5. /\ ~ Names(pack, f)
          /\ \A q \in Requests : soundsRequest[q] # None =>
               /\ soundsRequest[q].file # f /\ ~ Names(soundsRequest[q].was, f)
               /\ Has(q, "save") => ~ Names(soundsRequest[q].arg, f)
      BY <2>1, <3>0, <3>1 DEF FilesAreKnown, Known, Names
    <3>6. NewFile'
      <4> SUFFICES ASSUME NEW u \in Requests, Has(u, "url")', NEW q \in Requests
                   PROVE  /\ soundsRequest'[u].file \in disk'
                          /\ ~ Names(pack, soundsRequest[u].file)'
                          /\ soundsRequest'[q] # None =>
                               /\ q # u => soundsRequest'[q].file # soundsRequest'[u].file
                               /\ ~ Names(soundsRequest[q].was, soundsRequest[u].file)'
                               /\ Has(q, "save")' => ~ Names(soundsRequest[q].arg,
                                   soundsRequest[u].file)'
        BY DEF NewFile
      <4>1. CASE u = r
        BY <4>1, <2>1, <3>1, <3>3, <3>5 DEF Names, Has
      <4>2. CASE u # r
        <5>1. Has(u, "url") /\ soundsRequest'[u] = soundsRequest[u]
          BY <4>2, <3>3
        <5> QED BY <4>2, <5>1, <2>1, <3>0, <3>1, <3>3, <3>5 DEF NewFile, Names, Has
      <4> QED BY <4>1, <4>2
    <3>7. NamedIsThere'
      BY <2>1, <3>0, <3>1, <3>3 DEF NamedIsThere
    <3>8. NoFileLeft'
      <4> SUFFICES ASSUME NEW g \in disk'
                   PROVE  \/ g \in lost' \/ Names(pack', g)
                          \/ \E q \in Requests : Has(q, "url")' /\ soundsRequest'[q].file = g
                          \/ \E q \in Requests : /\ (Has(q, "old") \/ Has(q, "removed"))'
                                                 /\ soundsRequest'[q].was.audio = g
        BY DEF NoFileLeft, Names
      <4>1. g \in disk \/ g = f
        BY <2>1, <3>1, <3>3
      <4>2. CASE g \in lost \/ Names(pack, g)
        BY <4>2, <2>1, <3>1, <3>3 DEF Names
      <4>3. ASSUME NEW q \in Requests, Has(q, "url"), soundsRequest[q].file = g
            PROVE  \E u \in Requests : Has(u, "url")' /\ soundsRequest'[u].file = g
        <5>1. q # r
          BY <2>1, <4>3 DEF Has
        <5> QED BY <5>1, <4>3, <2>1, <3>1, <3>3
      <4>4. ASSUME NEW q \in Requests, Has(q, "old") \/ Has(q, "removed"),
          soundsRequest[q].was.audio = g
            PROVE  \E u \in Requests : (Has(u, "old") \/ Has(u, "removed"))' /\
                soundsRequest'[u].was.audio = g
        <5>1. q # r
          BY <2>1, <4>4 DEF Has
        <5> QED BY <5>1, <4>4, <2>1, <3>1, <3>3
      <4>5. CASE g = f
        BY <4>5, <2>1, <3>3
      <4> QED BY <4>5, <3>0, <4>1, <4>2, <4>3, <4>4 DEF NoFileLeft
    <3> QED BY <3>4, <3>6, <3>7, <3>8 DEF FilesRight
  <2>4. IsDeleted' /\ OneOfPack'
    <3>1. UNCHANGED <<unsaid, gone, made, revived, pack, soundsShown>>
      BY <1>t, <1>6, <2>1 DEF Sounds!AudioSaved, Sounds!row, Sounds!files, Sounds!user,
          Sounds!choice, Sounds!guild, Sounds!sound
    <3>2. ~ unsaid => soundsShown = pack
      BY <1>t, <1>6, <2>1 DEF OneOfPack, Has
    <3>3. gone /\ ~ revived' => pack' = None
      BY <1>t, <3>1 DEF IsDeleted
    <3> QED BY <1>t, <2>1, <3>1, <3>2, <3>3, PackGoes DEF Has, AtPack
  <2>5. IsNotChosen' /\ OneOfChoice'
    <3>1. UNCHANGED <<chosen, told, unheard>> /\ (gone' /\ pack' = None => gone /\ pack = None)
      BY <1>t, <1>6, <2>1 DEF Sounds!AudioSaved, Sounds!row, Sounds!files, Sounds!user,
          Sounds!choice, Sounds!guild, Sounds!sound
    <3> QED BY <1>t, <2>1, <3>1, ChoiceAside DEF Has, AtChoice
  <2> QED BY <2>2, <2>3, <2>4, <2>5 DEF SoundsInv, FilesRight
<1>7. ASSUME NEW r \in Requests, Sounds!UrlWritten(r) PROVE SoundsInv'
  <2>1. PICK new \in SoundSlot :
          /\ Has(r, "url") /\ MovesTo(r, new) /\ new # None /\ new.step = "old"
          /\ new.was = soundsRequest[r].was /\ new.file = soundsRequest[r].file
          /\ new.arg = soundsRequest[r].arg
    <3>1. /\ Has(r, "url") /\ soundsRequest[r] # None
          /\ soundsRequest' = [soundsRequest EXCEPT ![r].step = "old"]
      BY <1>7 DEF Sounds!UrlWritten, Sounds!Doing, Sounds!Goes, Has
    <3>2. "old" \in SoundSteps
      BY DEF SoundSteps
    <3> QED BY <1>t, <3>1, <3>2, SoundGoes
  <2>2. SoundsTyped'
    <3>1. pack' \in Packs \cup {None}
      BY <1>t, <1>7, <2>1 DEF Sounds!UrlWritten, SoundsTyped, Packs, Has
    <3>2. UNCHANGED <<config, chosen>>
      BY <1>t, <1>7, <2>1 DEF Sounds!UrlWritten, Sounds!row, Sounds!files, Sounds!user,
          Sounds!choice, Sounds!guild, Sounds!sound
    <3> QED BY <1>t, <2>1, <3>1, <3>2, TypesKept DEF SoundsTyped, Has
  <2>3. FilesRight'
    <3>0. FilesAreKnown /\ NewFile /\ NamedIsThere /\ NoFileLeft
      BY <1>t DEF FilesRight
    <3> DEFINE f == soundsRequest[r].file
    <3>1. /\ pack = None => pack' = None
          /\ pack # None => pack' # None /\ pack'.audio = f
          /\ f \in Uploads
      BY <1>t, <1>7, <2>1, NoneIsNoValue DEF Sounds!UrlWritten, SoundsTyped, Packs, Has
    <3>2. /\ UNCHANGED <<disk, used, back>> /\ lost \subseteq lost'
          /\ pack = None => f \in lost'
          /\ pack # None /\ pack.audio # soundsRequest[r].was.audio => pack.audio \in lost'
      BY <1>7 DEF Sounds!UrlWritten, Sounds!row, Sounds!files, Sounds!user, Sounds!choice,
          Sounds!guild, Sounds!sound
    <3>3. /\ \A q \in Requests, s \in {"url", "removed", "save"} :
               Has(q, s)' <=> q # r /\ Has(q, s)
          /\ \A q \in Requests : Has(q, "old")' <=> q = r \/ Has(q, "old")
          /\ \A q \in Requests : q # r => soundsRequest'[q] = soundsRequest[q]
          /\ soundsRequest'[r].was = soundsRequest[r].was /\ soundsRequest'[r].file = f
      BY <2>1, Elsewhere DEF Has
    <3>4. /\ f \in disk /\ ~ Names(pack, f)
          /\ \A q \in Requests : soundsRequest[q] # None =>
               /\ q # r => soundsRequest[q].file # f
               /\ ~ Names(soundsRequest[q].was, f)
      BY <2>1, <3>0 DEF NewFile
    <3>5. FilesAreKnown'
      BY <2>1, <3>0, <3>1, <3>2, <3>3 DEF FilesAreKnown, Known, Has
    <3>6. NewFile'
      BY <2>1, <3>0, <3>1, <3>2, <3>3, <3>4 DEF NewFile, Names, Has
    <3>7. \A q \in Requests : Has(q, "old") \/ Has(q, "removed") \/ q = r =>
            soundsRequest[q] # None /\ soundsRequest[q].was # None
      BY <1>t, <2>1, NoneIsNoValue DEF SoundsTyped, Has
    <3>8. NamedIsThere'
      BY <3>1, <3>2, <3>3, <3>4, <3>7 DEF NamedIsThere, Names
    <3>9. NoFileLeft'
      BY <3>0, <3>1, <3>2, <3>3 DEF NoFileLeft, Names
    <3> QED BY <3>5, <3>6, <3>8, <3>9 DEF FilesRight
  <2>4. IsDeleted' /\ OneOfPack'
    <3>1. UNCHANGED <<unsaid, gone, made, revived>>
      BY <1>t, <1>7, <2>1 DEF Sounds!UrlWritten, Sounds!row, Sounds!files, Sounds!user,
          Sounds!choice, Sounds!guild, Sounds!sound
    <3>2. pack' = None <=> pack = None
      BY <1>t, <1>7, <2>1, NoneIsNoValue DEF Sounds!UrlWritten, SoundsTyped, Packs, Has
    <3>3. gone /\ ~ revived' => pack' = None
      BY <1>t, <3>1, <3>2 DEF IsDeleted
    <3> QED BY <1>t, <2>1, <3>1, <3>2, <3>3, PackGoes DEF Has, AtPack
  <2>5. IsNotChosen' /\ OneOfChoice'
    <3>1. UNCHANGED <<chosen, told, unheard, gone>>
      BY <1>t, <1>7, <2>1 DEF Sounds!UrlWritten, Sounds!row, Sounds!files, Sounds!user,
          Sounds!choice, Sounds!guild, Sounds!sound
    <3>2. pack' = None => pack = None
      BY <1>t, <1>7, <2>1, NoneIsNoValue DEF Sounds!UrlWritten, SoundsTyped, Packs, Has
    <3> QED BY <1>t, <2>1, <3>1, <3>2, ChoiceAside DEF Has, AtChoice
  <2> QED BY <2>2, <2>3, <2>4, <2>5 DEF SoundsInv, FilesRight
<1>8. ASSUME NEW r \in Requests, Sounds!UrlFails(r) PROVE SoundsInv'
  <2>1. Has(r, "url") /\ MovesTo(r, None)
    BY <1>t, <1>8, SoundEnds DEF Sounds!UrlFails, Sounds!Doing, Has
  <2>2. SoundsTyped'
    <3>1. UNCHANGED <<pack, config, chosen>>
      BY <1>t, <1>8, <2>1 DEF Sounds!UrlFails, Sounds!row, Sounds!files, Sounds!user,
          Sounds!choice, Sounds!guild, Sounds!sound
    <3> QED BY <1>t, <2>1, <3>1, TypesKept DEF SoundsTyped, Has
  <2>3. FilesRight'
    <3>1. /\ UNCHANGED <<pack, back, lost, used>>
          /\ disk' = disk \ {soundsRequest[r].file}
      BY <1>t, <1>8, <2>1 DEF Sounds!UrlFails, Sounds!row, Sounds!files, Sounds!user,
          Sounds!choice, Sounds!guild, Sounds!sound
    <3> QED BY <1>t, <2>1, <3>1, FileRemoved DEF Has
  <2>4. IsDeleted' /\ OneOfPack'
    <3>1. UNCHANGED <<unsaid, gone, made, revived, pack, soundsShown>>
      BY <1>t, <1>8, <2>1 DEF Sounds!UrlFails, Sounds!row, Sounds!files, Sounds!user,
          Sounds!choice, Sounds!guild, Sounds!sound
    <3>2. ~ unsaid => soundsShown = pack
      BY <1>t, <1>8, <2>1 DEF OneOfPack, Has
    <3>3. gone /\ ~ revived' => pack' = None
      BY <1>t, <3>1 DEF IsDeleted
    <3> QED BY <1>t, <2>1, <3>1, <3>2, <3>3, PackGoes DEF Has, AtPack
  <2>5. IsNotChosen' /\ OneOfChoice'
    <3>1. UNCHANGED <<chosen, told, unheard>> /\ (gone' /\ pack' = None => gone /\ pack = None)
      BY <1>t, <1>8, <2>1 DEF Sounds!UrlFails, Sounds!row, Sounds!files, Sounds!user,
          Sounds!choice, Sounds!guild, Sounds!sound
    <3> QED BY <1>t, <2>1, <3>1, ChoiceAside DEF Has, AtChoice
  <2> QED BY <2>2, <2>3, <2>4, <2>5 DEF SoundsInv, FilesRight
<1>9. ASSUME NEW r \in Requests, Sounds!OldAudioRemoved(r) PROVE SoundsInv'
  <2>1. PICK new \in SoundSlot :
          /\ Has(r, "old") /\ MovesTo(r, new) /\ new # None /\ new.step = "read"
          /\ new.was = soundsRequest[r].was /\ new.file = soundsRequest[r].file
          /\ new.arg = soundsRequest[r].arg
    <3>1. /\ Has(r, "old") /\ soundsRequest[r] # None
          /\ soundsRequest' = [soundsRequest EXCEPT ![r].step = "read"]
      BY <1>9 DEF Sounds!OldAudioRemoved, Sounds!Doing, Sounds!Goes, Has
    <3>2. "read" \in SoundSteps
      BY DEF SoundSteps
    <3> QED BY <1>t, <3>1, <3>2, SoundGoes
  <2>2. SoundsTyped'
    <3>1. UNCHANGED <<pack, config, chosen>>
      BY <1>t, <1>9, <2>1 DEF Sounds!OldAudioRemoved, Sounds!row, Sounds!files, Sounds!user,
          Sounds!choice, Sounds!guild, Sounds!sound
    <3> QED BY <1>t, <2>1, <3>1, TypesKept DEF SoundsTyped, Has
  <2>3. FilesRight'
    <3>1. /\ UNCHANGED <<pack, back, lost, used>>
          /\ disk' = disk \ {soundsRequest[r].was.audio}
      BY <1>t, <1>9, <2>1 DEF Sounds!OldAudioRemoved, Sounds!row, Sounds!files, Sounds!user,
          Sounds!choice, Sounds!guild, Sounds!sound
    <3> QED BY <1>t, <2>1, <3>1, FileRemoved DEF Has
  <2>4. IsDeleted' /\ OneOfPack'
    <3>1. UNCHANGED <<unsaid, gone, made, revived, pack, soundsShown>>
      BY <1>t, <1>9, <2>1 DEF Sounds!OldAudioRemoved, Sounds!row, Sounds!files, Sounds!user,
          Sounds!choice, Sounds!guild, Sounds!sound
    <3>2. gone /\ ~ revived' => pack' = None
      BY <1>t, <3>1 DEF IsDeleted
    <3> QED BY <1>t, <2>1, <3>1, <3>2, PackGoes DEF Has, AtPack
  <2>5. IsNotChosen' /\ OneOfChoice'
    <3>1. UNCHANGED <<chosen, told, unheard>> /\ (gone' /\ pack' = None => gone /\ pack = None)
      BY <1>t, <1>9, <2>1 DEF Sounds!OldAudioRemoved, Sounds!row, Sounds!files, Sounds!user,
          Sounds!choice, Sounds!guild, Sounds!sound
    <3> QED BY <1>t, <2>1, <3>1, ChoiceAside DEF Has, AtChoice
  <2> QED BY <2>2, <2>3, <2>4, <2>5 DEF SoundsInv, FilesRight
<1>10. ASSUME NEW r \in Requests, Sounds!ReadAgain(r) PROVE SoundsInv'
  <2>1. PICK new \in SoundSlot \cup {None} :
          /\ Has(r, "read") /\ MovesTo(r, new)
          /\ pack = None => new = None
          /\ pack # None => /\ new # None /\ new.step = "send" /\ new.was = pack
                            /\ new.file = soundsRequest[r].file
    <3>1. /\ Has(r, "read") /\ soundsRequest[r] # None /\ pack \in Packs \cup {None}
          /\ pack = None => Sounds!Ends(r)
          /\ pack # None =>
               soundsRequest' = [soundsRequest EXCEPT ![r].step = "send", ![r].was = pack]
      BY <1>t, <1>10 DEF Sounds!ReadAgain, Sounds!Doing, Has, SoundsTyped
    <3> QED BY <1>t, <3>1, SoundEnds, SoundSends
  <2>2. SoundsTyped'
    <3>1. UNCHANGED <<pack, config, chosen>>
      BY <1>t, <1>10, <2>1 DEF Sounds!ReadAgain, Sounds!row, Sounds!files, Sounds!user,
          Sounds!choice, Sounds!guild, Sounds!sound
    <3> QED BY <1>t, <2>1, <3>1, TypesKept DEF SoundsTyped, Has
  <2>3. FilesRight'
    <3>1. UNCHANGED <<pack, back, lost, disk, used>>
      BY <1>t, <1>10, <2>1 DEF Sounds!ReadAgain, Sounds!row, Sounds!files, Sounds!user,
          Sounds!choice, Sounds!guild, Sounds!sound
    <3> QED BY <1>t, <2>1, <3>1, FilesAside DEF Has
  <2>4. IsDeleted' /\ OneOfPack'
    <3>1. UNCHANGED <<unsaid, gone, made, revived, pack, soundsShown>>
      BY <1>t, <1>10, <2>1 DEF Sounds!ReadAgain, Sounds!row, Sounds!files, Sounds!user,
          Sounds!choice, Sounds!guild, Sounds!sound
    <3>2. gone /\ ~ revived' => pack' = None
      BY <1>t, <3>1 DEF IsDeleted
    <3>3. ~ unsaid => pack # None
      BY <1>t, <1>10, <2>1 DEF OneOfPack, IsDeleted, AtPack, Has
    <3> QED BY <1>t, <2>1, <3>1, <3>2, <3>3, PackGoes DEF Has, AtPack
  <2>5. IsNotChosen' /\ OneOfChoice'
    <3>1. UNCHANGED <<chosen, told, unheard>> /\ (gone' /\ pack' = None => gone /\ pack = None)
      BY <1>t, <1>10, <2>1 DEF Sounds!ReadAgain, Sounds!row, Sounds!files, Sounds!user,
          Sounds!choice, Sounds!guild, Sounds!sound
    <3> QED BY <1>t, <2>1, <3>1, ChoiceAside DEF Has, AtChoice
  <2> QED BY <2>2, <2>3, <2>4, <2>5 DEF SoundsInv, FilesRight
<1>11. ASSUME NEW r \in Requests, Sounds!DeleteVoicePack(r) PROVE SoundsInv'
  <2>1. PICK new \in SoundSlot :
          /\ soundsRequest[r] = None /\ MovesTo(r, new) /\ new # None /\ new.step = "delete"
          /\ new.was = pack /\ new.file = None /\ new.arg = chosen
    <3>1. /\ soundsRequest[r] = None
          /\ soundsRequest' = [soundsRequest EXCEPT ![r] = Sounds!Slot("delete", chosen)]
      BY <1>11 DEF Sounds!Affected, Sounds!DeleteVoicePack, Sounds!Begins, Sounds!BeginsAs
    <3> DEFINE slot == Sounds!Slot("delete", chosen)
    <3>2. /\ slot \in SoundSlot /\ slot.step = "delete"
          /\ slot.was = pack /\ slot.file = None /\ slot.arg = chosen
      BY <1>t, <3>1 DEF SoundsTyped, SoundSteps, SoundSlot, SoundArgs, Sounds!Slot
    <3> HIDE DEF slot
    <3> QED BY <1>t, <3>1, <3>2, SoundMoves DEF slot
  <2>2. SoundsTyped'
    <3>1. UNCHANGED <<pack, config, chosen>> /\ pack # None
      BY <1>t, <1>11, <2>1 DEF Sounds!DeleteVoicePack, Sounds!row, Sounds!files, Sounds!user,
          Sounds!choice, Sounds!guild, Sounds!sound
    <3> QED BY <1>t, <2>1, <3>1, TypesKept DEF SoundsTyped, Has
  <2>3. FilesRight'
    <3>1. UNCHANGED <<pack, back, lost, disk, used>>
      BY <1>t, <1>11, <2>1 DEF Sounds!DeleteVoicePack, Sounds!row, Sounds!files, Sounds!user,
          Sounds!choice, Sounds!guild, Sounds!sound
    <3> QED BY <1>t, <2>1, <3>1, FilesAside DEF Has
  <2>4. IsDeleted' /\ OneOfPack'
    <3>1. UNCHANGED <<pack, made, gone, revived, soundsShown>> /\ pack # None
      BY <1>t, <1>11, <2>1 DEF Sounds!DeleteVoicePack, Sounds!row, Sounds!files, Sounds!user,
          Sounds!choice, Sounds!guild, Sounds!sound
    <3>2. ~ unsaid' => ~ unsaid /\ \A q \in Requests \ {r} : ~ AtPack(q)
      BY <1>t, <1>11, <2>1 DEF Sounds!DeleteVoicePack, Sounds!Overlaps, Sounds!OfPack, AtPack
    <3> QED BY <1>t, <2>1, <3>1, <3>2, PackBegins DEF Has, AtPack
  <2>5. IsNotChosen' /\ OneOfChoice'
    <3>1. UNCHANGED <<pack, gone, told, chosen>>
      BY <1>t, <1>11, <2>1 DEF Sounds!DeleteVoicePack, Sounds!row, Sounds!files, Sounds!user,
          Sounds!choice, Sounds!guild, Sounds!sound
    <3>2. ~ unheard' => ~ unheard /\ \A q \in Requests \ {r} : ~ AtChoice(q)
      BY <1>t, <1>11, <2>1 DEF Sounds!DeleteVoicePack, Sounds!Meets, Sounds!OfChoice, AtChoice
    <3>3. told = chosen /\ told => new.arg
      BY <2>1
    <3> QED BY <1>t, <2>1, <3>1, <3>2, <3>3, ChoiceBegins DEF Has, AtChoice
  <2> QED BY <2>2, <2>3, <2>4, <2>5 DEF SoundsInv, FilesRight
<1>12. ASSUME NEW r \in Requests, Sounds!PackDeleted(r) PROVE SoundsInv'
  <2>1. PICK new \in SoundSlot :
          /\ Has(r, "delete") /\ MovesTo(r, new) /\ new # None /\ new.step = "removed"
          /\ new.was = soundsRequest[r].was /\ new.file = soundsRequest[r].file
          /\ new.arg = soundsRequest[r].arg
    <3>1. /\ Has(r, "delete") /\ soundsRequest[r] # None
          /\ soundsRequest' = [soundsRequest EXCEPT ![r].step = "removed"]
      BY <1>12 DEF Sounds!PackDeleted, Sounds!Doing, Sounds!Goes, Has
    <3>2. "removed" \in SoundSteps
      BY DEF SoundSteps
    <3> QED BY <1>t, <3>1, <3>2, SoundGoes
  <2>2. SoundsTyped'
    <3>1. pack' = None /\ chosen' = FALSE /\ UNCHANGED config
      BY <1>t, <1>12, <2>1 DEF Sounds!PackDeleted, Sounds!row, Sounds!files, Sounds!user,
          Sounds!choice, Sounds!guild, Sounds!sound
    <3> QED BY <1>t, <2>1, <3>1, TypesKept DEF SoundsTyped, Has
  <2>3. FilesRight'
    <3>0. FilesAreKnown /\ NewFile /\ NamedIsThere /\ NoFileLeft
      BY <1>t DEF FilesRight
    <3>1. pack' = None /\ UNCHANGED <<disk, used, back>>
      BY <1>12 DEF Sounds!PackDeleted, Sounds!row, Sounds!files, Sounds!user, Sounds!choice,
          Sounds!guild, Sounds!sound
    <3>2. /\ lost \subseteq lost'
          /\ pack # None /\ pack.audio # soundsRequest[r].was.audio => pack.audio \in lost'
      BY <1>12 DEF Sounds!PackDeleted
    <3>3. /\ \A q \in Requests, s \in {"url", "old", "save"} :
               Has(q, s)' <=> q # r /\ Has(q, s)
          /\ \A q \in Requests : Has(q, "removed")' <=> q = r \/ Has(q, "removed")
          /\ \A q \in Requests : q # r => soundsRequest'[q] = soundsRequest[q]
          /\ soundsRequest'[r].was = soundsRequest[r].was
          /\ soundsRequest'[r].file = soundsRequest[r].file
      BY <2>1, Elsewhere DEF Has
    <3>4. FilesAreKnown'
      BY <2>1, <3>0, <3>1, <3>3 DEF FilesAreKnown, Known, Has
    <3>5. NewFile'
      BY <2>1, <3>0, <3>1, <3>3 DEF NewFile, Names, Has
    <3>6. NamedIsThere'
      BY <3>1 DEF NamedIsThere
    <3>7. NoFileLeft'
      <4> SUFFICES ASSUME NEW f \in disk'
                   PROVE  \/ f \in lost' \/ Names(pack', f)
                          \/ \E q \in Requests : Has(q, "url")' /\ soundsRequest'[q].file = f
                          \/ \E q \in Requests : /\ (Has(q, "old") \/ Has(q, "removed"))'
                                                 /\ soundsRequest'[q].was.audio = f
        BY DEF NoFileLeft, Names
      <4>1. f \in disk
        BY <3>1, <3>2, <3>3
      <4>2. CASE f \in lost \/ Names(pack, f)
        BY <4>2, <3>1, <3>2, <3>3 DEF Names
      <4>3. ASSUME NEW q \in Requests, Has(q, "url"), soundsRequest[q].file = f
            PROVE  \E u \in Requests : Has(u, "url")' /\ soundsRequest'[u].file = f
        <5>1. q # r
          BY <2>1, <4>3 DEF Has
        <5> QED BY <5>1, <4>3, <3>1, <3>2, <3>3
      <4>4. ASSUME NEW q \in Requests, Has(q, "old") \/ Has(q, "removed"),
          soundsRequest[q].was.audio = f
            PROVE  \E u \in Requests : (Has(u, "old") \/ Has(u, "removed"))' /\
                soundsRequest'[u].was.audio = f
        <5>1. q # r
          BY <2>1, <4>4 DEF Has
        <5> QED BY <5>1, <4>4, <3>1, <3>2, <3>3
      <4> QED BY <3>0, <4>1, <4>2, <4>3, <4>4 DEF NoFileLeft
    <3> QED BY <3>4, <3>5, <3>6, <3>7 DEF FilesRight
  <2>4. IsDeleted' /\ OneOfPack'
    <3>1. pack' = None /\ gone' = TRUE /\ UNCHANGED <<made, revived, unsaid>>
      BY <1>12 DEF Sounds!PackDeleted, Sounds!row, Sounds!files, Sounds!user, Sounds!choice,
          Sounds!guild, Sounds!sound
    <3>2. AtPack(r)
      BY <2>1 DEF AtPack, Has
    <3>3. \A q \in Requests : AtPack(q)' <=> AtPack(q) /\ q # r
      BY <2>1 DEF AtPack, MovesTo
    <3>4. Has(r, "removed")'
      BY <2>1 DEF Has, MovesTo
    <3>5. made
      BY <1>t, <3>2 DEF IsDeleted
    <3>6. IsDeleted'
      BY <3>1, <3>5 DEF IsDeleted
    <3>7. ~ unsaid => \A q \in Requests : ~ AtPack(q)'
      BY <1>t, <3>2, <3>3 DEF OneOfPack
    <3>8. OneOfPack'
      BY <3>1, <3>4, <3>7 DEF OneOfPack, AtPack, Has
    <3> QED BY <3>6, <3>8
  <2>5. IsNotChosen' /\ OneOfChoice'
    <3>1. UNCHANGED <<told, unheard>> /\ chosen' = FALSE
      BY <1>t, <1>12, <2>1 DEF Sounds!PackDeleted, Sounds!row, Sounds!files, Sounds!user,
          Sounds!choice, Sounds!guild, Sounds!sound
    <3>2. AtChoice(r) /\ new.step = "removed" /\ new.arg = soundsRequest[r].arg
      BY <2>1 DEF AtChoice, Has
    <3> QED BY <1>t, <2>1, <3>1, <3>2, ChoiceGoes
  <2> QED BY <2>2, <2>3, <2>4, <2>5 DEF SoundsInv, FilesRight
<1>13. ASSUME NEW r \in Requests, Sounds!DeletionSent(r) PROVE SoundsInv'
  <2>1. Has(r, "removed") /\ MovesTo(r, None)
    BY <1>t, <1>13, SoundEnds DEF Sounds!DeletionSent, Sounds!Doing, Has
  <2>2. SoundsTyped'
    <3>1. UNCHANGED <<pack, config, chosen>>
      BY <1>t, <1>13, <2>1 DEF Sounds!DeletionSent, Sounds!row, Sounds!files, Sounds!user,
          Sounds!choice, Sounds!guild, Sounds!sound
    <3> QED BY <1>t, <2>1, <3>1, TypesKept DEF SoundsTyped, Has
  <2>3. FilesRight'
    <3>1. /\ UNCHANGED <<pack, back, lost, used>>
          /\ disk' = disk \ {soundsRequest[r].was.audio}
      BY <1>t, <1>13, <2>1 DEF Sounds!DeletionSent, Sounds!row, Sounds!files, Sounds!user,
          Sounds!choice, Sounds!guild, Sounds!sound
    <3> QED BY <1>t, <2>1, <3>1, FileRemoved DEF Has
  <2>4. IsDeleted' /\ OneOfPack'
    <3>1. soundsShown' = None /\ UNCHANGED <<pack, gone, made, revived, unsaid>>
      BY <1>13 DEF Sounds!DeletionSent, Sounds!row, Sounds!files, Sounds!user, Sounds!choice,
          Sounds!guild, Sounds!sound
    <3>2. \A q \in Requests : /\ AtPack(q)' <=> AtPack(q)
                              /\ Has(q, "removed")' => Has(q, "removed")
      BY <2>1 DEF AtPack, Has, MovesTo
    <3>3. gone /\ ~ AtPack(r)
      BY <1>t, <2>1 DEF IsDeleted, AtPack, Has
    <3>4. IsDeleted'
      BY <1>t, <3>1, <3>2 DEF IsDeleted
    <3>5. ~ unsaid => pack = None /\ \A q \in Requests : ~ AtPack(q)'
      BY <1>t, <3>2, <3>3 DEF OneOfPack
    <3>6. OneOfPack'
      BY <3>1, <3>3, <3>5 DEF OneOfPack, AtPack, Has
    <3> QED BY <3>4, <3>6
  <2>5. IsNotChosen' /\ OneOfChoice'
    <3>1. UNCHANGED <<pack, gone, unheard, chosen>>
      BY <1>t, <1>13, <2>1 DEF Sounds!DeletionSent, Sounds!row, Sounds!files, Sounds!user,
          Sounds!choice, Sounds!guild, Sounds!sound
    <3>2. ~ unheard => told' = chosen
      BY <1>t, <1>13, <2>1 DEF Sounds!DeletionSent, OneOfChoice
    <3> QED BY <1>t, <2>1, <3>1, <3>2, ChoiceGoes DEF Has, AtChoice
  <2> QED BY <2>2, <2>3, <2>4, <2>5 DEF SoundsInv, FilesRight
<1>14. ASSUME NEW r \in Requests, Sounds!PublishVoicePackUpdate(r) PROVE SoundsInv'
  <2>1. Has(r, "send") /\ MovesTo(r, None)
    BY <1>t, <1>14, SoundEnds DEF Sounds!PublishVoicePackUpdate, Sounds!Doing, Has
  <2>2. SoundsTyped'
    <3>1. UNCHANGED <<pack, config, chosen>>
      BY <1>t, <1>14, <2>1 DEF Sounds!PublishVoicePackUpdate, Sounds!row, Sounds!files,
          Sounds!user, Sounds!choice, Sounds!guild, Sounds!sound
    <3> QED BY <1>t, <2>1, <3>1, TypesKept DEF SoundsTyped, Has
  <2>3. FilesRight'
    <3>1. UNCHANGED <<pack, back, lost, disk, used>>
      BY <1>t, <1>14, <2>1 DEF Sounds!PublishVoicePackUpdate, Sounds!row, Sounds!files,
          Sounds!user, Sounds!choice, Sounds!guild, Sounds!sound
    <3> QED BY <1>t, <2>1, <3>1, FilesAside DEF Has
  <2>4. IsDeleted' /\ OneOfPack'
    <3>1. UNCHANGED <<unsaid, gone, made, revived, pack>> /\ soundsShown' = soundsRequest[r].was
      BY <1>t, <1>14, <2>1 DEF Sounds!PublishVoicePackUpdate, Sounds!row, Sounds!files,
          Sounds!user, Sounds!choice, Sounds!guild, Sounds!sound
    <3>2. gone /\ ~ revived' => pack' = None
      BY <1>t, <3>1 DEF IsDeleted
    <3>3. ~ unsaid => soundsRequest[r].was = pack
      BY <1>t, <1>14, <2>1 DEF OneOfPack, Has
    <3> QED BY <1>t, <2>1, <3>1, <3>2, <3>3, PackGoes DEF Has, AtPack
  <2>5. IsNotChosen' /\ OneOfChoice'
    <3>1. UNCHANGED <<chosen, told, unheard>> /\ (gone' /\ pack' = None => gone /\ pack = None)
      BY <1>t, <1>14, <2>1 DEF Sounds!PublishVoicePackUpdate, Sounds!row, Sounds!files,
          Sounds!user, Sounds!choice, Sounds!guild, Sounds!sound
    <3> QED BY <1>t, <2>1, <3>1, ChoiceAside DEF Has, AtChoice
  <2> QED BY <2>2, <2>3, <2>4, <2>5 DEF SoundsInv, FilesRight
<1>15. ASSUME NEW r \in Requests, Sounds!SelectVoicePack(r) PROVE SoundsInv'
  <2>1. PICK new \in SoundSlot :
          /\ soundsRequest[r] = None /\ MovesTo(r, new) /\ new # None /\ new.step = "choose"
          /\ new.was = pack /\ new.file = None
    <3>1. /\ soundsRequest[r] = None
          /\ soundsRequest' = [soundsRequest EXCEPT ![r] = Sounds!Slot("choose", None)]
      BY <1>15 DEF Sounds!SelectVoicePack, Sounds!Begins, Sounds!BeginsAs
    <3> DEFINE slot == Sounds!Slot("choose", None)
    <3>2. /\ slot \in SoundSlot /\ slot.step = "choose"
          /\ slot.was = pack /\ slot.file = None
      BY <1>t, <3>1 DEF SoundsTyped, SoundSteps, SoundSlot, SoundArgs, Sounds!Slot
    <3> HIDE DEF slot
    <3> QED BY <1>t, <3>1, <3>2, SoundMoves DEF slot
  <2>2. SoundsTyped'
    <3>1. UNCHANGED <<pack, config, chosen>>
      BY <1>t, <1>15, <2>1 DEF Sounds!SelectVoicePack, Sounds!row, Sounds!files, Sounds!user,
          Sounds!choice, Sounds!guild, Sounds!sound
    <3> QED BY <1>t, <2>1, <3>1, TypesKept DEF SoundsTyped, Has
  <2>3. FilesRight'
    <3>1. UNCHANGED <<pack, back, lost, disk, used>>
      BY <1>t, <1>15, <2>1 DEF Sounds!SelectVoicePack, Sounds!row, Sounds!files, Sounds!user,
          Sounds!choice, Sounds!guild, Sounds!sound
    <3> QED BY <1>t, <2>1, <3>1, FilesAside DEF Has
  <2>4. IsDeleted' /\ OneOfPack'
    <3>1. UNCHANGED <<pack, made, gone, revived, soundsShown, unsaid>>
      BY <1>t, <1>15, <2>1 DEF Sounds!SelectVoicePack, Sounds!row, Sounds!files, Sounds!user,
          Sounds!choice, Sounds!guild, Sounds!sound
    <3> QED BY <1>t, <2>1, <3>1, PackAside DEF Has, AtPack
  <2>5. IsNotChosen' /\ OneOfChoice'
    <3>1. UNCHANGED <<pack, gone, told, chosen>> /\ pack # None
      BY <1>t, <1>15, <2>1 DEF Sounds!SelectVoicePack, Sounds!row, Sounds!files, Sounds!user,
          Sounds!choice, Sounds!guild, Sounds!sound
    <3>2. ~ unheard' => ~ unheard /\ \A q \in Requests \ {r} : ~ AtChoice(q)
      BY <1>t, <1>15, <2>1 DEF Sounds!SelectVoicePack, Sounds!Meets, Sounds!OfChoice, AtChoice
    <3> QED BY <1>t, <2>1, <3>1, <3>2, ChoiceBegins DEF Has, AtChoice
  <2> QED BY <2>2, <2>3, <2>4, <2>5 DEF SoundsInv, FilesRight
<1>16. ASSUME NEW r \in Requests, Sounds!Chosen(r) PROVE SoundsInv'
  <2>1. PICK new \in SoundSlot :
          /\ Has(r, "choose") /\ MovesTo(r, new) /\ new # None /\ new.step = "chose"
          /\ new.was = soundsRequest[r].was /\ new.file = soundsRequest[r].file
          /\ new.arg = soundsRequest[r].arg
    <3>1. /\ Has(r, "choose") /\ soundsRequest[r] # None
          /\ soundsRequest' = [soundsRequest EXCEPT ![r].step = "chose"]
      BY <1>16 DEF Sounds!Chosen, Sounds!Doing, Sounds!Goes, Has
    <3>2. "chose" \in SoundSteps
      BY DEF SoundSteps
    <3> QED BY <1>t, <3>1, <3>2, SoundGoes
  <2>2. SoundsTyped'
    <3>1. UNCHANGED <<pack, config>> /\ chosen' = TRUE
      BY <1>t, <1>16, <2>1 DEF Sounds!Chosen, Sounds!row, Sounds!files, Sounds!user,
          Sounds!choice, Sounds!guild, Sounds!sound
    <3> QED BY <1>t, <2>1, <3>1, TypesKept DEF SoundsTyped, Has
  <2>3. FilesRight'
    <3>1. UNCHANGED <<pack, back, lost, disk, used>>
      BY <1>t, <1>16, <2>1 DEF Sounds!Chosen, Sounds!row, Sounds!files, Sounds!user,
          Sounds!choice, Sounds!guild, Sounds!sound
    <3> QED BY <1>t, <2>1, <3>1, FilesAside DEF Has
  <2>4. IsDeleted' /\ OneOfPack'
    <3>1. UNCHANGED <<pack, made, gone, revived, soundsShown, unsaid>>
      BY <1>t, <1>16, <2>1 DEF Sounds!Chosen, Sounds!row, Sounds!files, Sounds!user,
          Sounds!choice, Sounds!guild, Sounds!sound
    <3> QED BY <1>t, <2>1, <3>1, PackAside DEF Has, AtPack
  <2>5. IsNotChosen' /\ OneOfChoice'
    <3>1. UNCHANGED <<pack, gone, unheard>> /\ chosen' = TRUE
      BY <1>t, <1>16, <2>1 DEF Sounds!Chosen, Sounds!row, Sounds!files, Sounds!user,
          Sounds!choice, Sounds!guild, Sounds!sound
    <3> QED BY <1>t, <2>1, <3>1, ChoiceGoes DEF Has, AtChoice
  <2> QED BY <2>2, <2>3, <2>4, <2>5 DEF SoundsInv, FilesRight
<1>17. ASSUME NEW r \in Requests, Sounds!ClearMyVoicePackSelection(r) PROVE SoundsInv'
  <2>1. PICK new \in SoundSlot :
          /\ soundsRequest[r] = None /\ MovesTo(r, new) /\ new # None /\ new.step = "cleared"
          /\ new.was = pack /\ new.file = None
    <3>1. /\ soundsRequest[r] = None
          /\ soundsRequest' = [soundsRequest EXCEPT ![r] = Sounds!Slot("cleared", None)]
      BY <1>17 DEF Sounds!ClearMyVoicePackSelection, Sounds!Begins, Sounds!BeginsAs
    <3> DEFINE slot == Sounds!Slot("cleared", None)
    <3>2. /\ slot \in SoundSlot /\ slot.step = "cleared"
          /\ slot.was = pack /\ slot.file = None
      BY <1>t, <3>1 DEF SoundsTyped, SoundSteps, SoundSlot, SoundArgs, Sounds!Slot
    <3> HIDE DEF slot
    <3> QED BY <1>t, <3>1, <3>2, SoundMoves DEF slot
  <2>2. SoundsTyped'
    <3>1. UNCHANGED <<pack, config>> /\ chosen' = FALSE
      BY <1>t, <1>17, <2>1 DEF Sounds!ClearMyVoicePackSelection, Sounds!row, Sounds!files,
          Sounds!user, Sounds!choice, Sounds!guild, Sounds!sound
    <3> QED BY <1>t, <2>1, <3>1, TypesKept DEF SoundsTyped, Has
  <2>3. FilesRight'
    <3>1. UNCHANGED <<pack, back, lost, disk, used>>
      BY <1>t, <1>17, <2>1 DEF Sounds!ClearMyVoicePackSelection, Sounds!row, Sounds!files,
          Sounds!user, Sounds!choice, Sounds!guild, Sounds!sound
    <3> QED BY <1>t, <2>1, <3>1, FilesAside DEF Has
  <2>4. IsDeleted' /\ OneOfPack'
    <3>1. UNCHANGED <<pack, made, gone, revived, soundsShown, unsaid>>
      BY <1>t, <1>17, <2>1 DEF Sounds!ClearMyVoicePackSelection, Sounds!row, Sounds!files,
          Sounds!user, Sounds!choice, Sounds!guild, Sounds!sound
    <3> QED BY <1>t, <2>1, <3>1, PackAside DEF Has, AtPack
  <2>5. IsNotChosen' /\ OneOfChoice'
    <3>1. UNCHANGED <<pack, gone, told>> /\ chosen' = FALSE
      BY <1>t, <1>17, <2>1 DEF Sounds!ClearMyVoicePackSelection, Sounds!row, Sounds!files,
          Sounds!user, Sounds!choice, Sounds!guild, Sounds!sound
    <3>2. ~ unheard' => ~ unheard /\ \A q \in Requests \ {r} : ~ AtChoice(q)
      BY <1>t, <1>17, <2>1 DEF Sounds!ClearMyVoicePackSelection, Sounds!Meets, Sounds!OfChoice,
          AtChoice
    <3> QED BY <1>t, <2>1, <3>1, <3>2, ChoiceBegins DEF Has, AtChoice
  <2> QED BY <2>2, <2>3, <2>4, <2>5 DEF SoundsInv, FilesRight
<1>18. ASSUME NEW r \in Requests, Sounds!ChoiceSent(r) PROVE SoundsInv'
  <2>1. (Has(r, "chose") \/ Has(r, "cleared")) /\ MovesTo(r, None)
    BY <1>t, <1>18, SoundEnds DEF Sounds!ChoiceSent, Sounds!Doing, Has
  <2>2. SoundsTyped'
    <3>1. UNCHANGED <<pack, config, chosen>>
      BY <1>t, <1>18, <2>1 DEF Sounds!ChoiceSent, Sounds!row, Sounds!files, Sounds!user,
          Sounds!choice, Sounds!guild, Sounds!sound
    <3> QED BY <1>t, <2>1, <3>1, TypesKept DEF SoundsTyped, Has
  <2>3. FilesRight'
    <3>1. UNCHANGED <<pack, back, lost, disk, used>>
      BY <1>t, <1>18, <2>1 DEF Sounds!ChoiceSent, Sounds!row, Sounds!files, Sounds!user,
          Sounds!choice, Sounds!guild, Sounds!sound
    <3> QED BY <1>t, <2>1, <3>1, FilesAside DEF Has
  <2>4. IsDeleted' /\ OneOfPack'
    <3>1. UNCHANGED <<pack, made, gone, revived, soundsShown, unsaid>>
      BY <1>t, <1>18, <2>1 DEF Sounds!ChoiceSent, Sounds!row, Sounds!files, Sounds!user,
          Sounds!choice, Sounds!guild, Sounds!sound
    <3> QED BY <1>t, <2>1, <3>1, PackAside DEF Has, AtPack
  <2>5. IsNotChosen' /\ OneOfChoice'
    <3>1. UNCHANGED <<pack, gone, unheard, chosen>>
      BY <1>t, <1>18, <2>1 DEF Sounds!ChoiceSent, Sounds!row, Sounds!files, Sounds!user,
          Sounds!choice, Sounds!guild, Sounds!sound
    <3>2. ~ unheard => told' = chosen
      BY <1>t, <1>18, <2>1 DEF Sounds!ChoiceSent, Sounds!Doing, OneOfChoice, Has
    <3> QED BY <1>t, <2>1, <3>1, <3>2, ChoiceGoes DEF Has, AtChoice
  <2> QED BY <2>2, <2>3, <2>4, <2>5 DEF SoundsInv, FilesRight
<1>19. ASSUME NEW r \in Requests, Sounds!PatchGuildVoicePack(r) PROVE SoundsInv'
  <2>1. PICK new \in SoundSlot :
          /\ soundsRequest[r] = None /\ MovesTo(r, new) /\ new # None /\ new.step = "config"
          /\ new.was = pack /\ new.file = None /\ new.arg \in Configs
    <3>1. PICK p \in Configs :
            /\ soundsRequest[r] = None
            /\ soundsRequest' = [soundsRequest EXCEPT ![r] = Sounds!Slot("config", p)]
      BY <1>t, <1>19 DEF Sounds!PatchGuildVoicePack, Sounds!Begins, Sounds!BeginsAs, SoundsTyped, Packs, Configs
    <3> DEFINE slot == Sounds!Slot("config", p)
    <3>2. /\ slot \in SoundSlot /\ slot.step = "config"
          /\ slot.was = pack /\ slot.file = None /\ slot.arg \in Configs
      BY <1>t, <3>1 DEF SoundsTyped, SoundSteps, SoundSlot, SoundArgs, Sounds!Slot
    <3> HIDE DEF slot
    <3> QED BY <1>t, <3>1, <3>2, SoundMoves DEF slot
  <2>2. SoundsTyped'
    <3>1. UNCHANGED <<pack, config, chosen>>
      BY <1>t, <1>19, <2>1 DEF Sounds!PatchGuildVoicePack, Sounds!row, Sounds!files,
          Sounds!user, Sounds!choice, Sounds!guild, Sounds!sound
    <3> QED BY <1>t, <2>1, <3>1, TypesKept DEF SoundsTyped, Has
  <2>3. FilesRight'
    <3>1. UNCHANGED <<pack, back, lost, disk, used>>
      BY <1>t, <1>19, <2>1 DEF Sounds!PatchGuildVoicePack, Sounds!row, Sounds!files,
          Sounds!user, Sounds!choice, Sounds!guild, Sounds!sound
    <3> QED BY <1>t, <2>1, <3>1, FilesAside DEF Has
  <2>4. IsDeleted' /\ OneOfPack'
    <3>1. UNCHANGED <<pack, made, gone, revived, soundsShown, unsaid>>
      BY <1>t, <1>19, <2>1 DEF Sounds!PatchGuildVoicePack, Sounds!row, Sounds!files,
          Sounds!user, Sounds!choice, Sounds!guild, Sounds!sound
    <3> QED BY <1>t, <2>1, <3>1, PackAside DEF Has, AtPack
  <2>5. IsNotChosen' /\ OneOfChoice'
    <3>1. UNCHANGED <<chosen, told, unheard>> /\ (gone' /\ pack' = None => gone /\ pack = None)
      BY <1>t, <1>19, <2>1 DEF Sounds!PatchGuildVoicePack, Sounds!row, Sounds!files,
          Sounds!user, Sounds!choice, Sounds!guild, Sounds!sound
    <3> QED BY <1>t, <2>1, <3>1, ChoiceAside DEF Has, AtChoice
  <2> QED BY <2>2, <2>3, <2>4, <2>5 DEF SoundsInv, FilesRight
<1>20. ASSUME NEW r \in Requests, Sounds!ConfigSaved(r) PROVE SoundsInv'
  <2>1. Has(r, "config") /\ MovesTo(r, None)
    BY <1>t, <1>20, SoundEnds DEF Sounds!ConfigSaved, Sounds!Doing, Has
  <2>2. SoundsTyped'
    <3>1. config' = soundsRequest[r].arg /\ UNCHANGED <<pack, chosen>>
      BY <1>t, <1>20, <2>1 DEF Sounds!ConfigSaved, Sounds!row, Sounds!files, Sounds!user,
          Sounds!choice, Sounds!guild, Sounds!sound
    <3> QED BY <1>t, <2>1, <3>1, TypesKept DEF SoundsTyped, Has
  <2>3. FilesRight'
    <3>1. UNCHANGED <<pack, back, lost, disk, used>>
      BY <1>t, <1>20, <2>1 DEF Sounds!ConfigSaved, Sounds!row, Sounds!files, Sounds!user,
          Sounds!choice, Sounds!guild, Sounds!sound
    <3> QED BY <1>t, <2>1, <3>1, FilesAside DEF Has
  <2>4. IsDeleted' /\ OneOfPack'
    <3>1. UNCHANGED <<pack, made, gone, revived, soundsShown, unsaid>>
      BY <1>t, <1>20, <2>1 DEF Sounds!ConfigSaved, Sounds!row, Sounds!files, Sounds!user,
          Sounds!choice, Sounds!guild, Sounds!sound
    <3> QED BY <1>t, <2>1, <3>1, PackAside DEF Has, AtPack
  <2>5. IsNotChosen' /\ OneOfChoice'
    <3>1. UNCHANGED <<chosen, told, unheard>> /\ (gone' /\ pack' = None => gone /\ pack = None)
      BY <1>t, <1>20, <2>1 DEF Sounds!ConfigSaved, Sounds!row, Sounds!files, Sounds!user,
          Sounds!choice, Sounds!guild, Sounds!sound
    <3> QED BY <1>t, <2>1, <3>1, ChoiceAside DEF Has, AtChoice
  <2> QED BY <2>2, <2>3, <2>4, <2>5 DEF SoundsInv, FilesRight
<1>21. ASSUME NEW r \in Requests, Sounds!PutChannelVoicePack(r) PROVE SoundsInv'
  <2>1. PICK new \in SoundSlot :
          /\ soundsRequest[r] = None /\ MovesTo(r, new) /\ new # None /\ new.step = "allow"
          /\ new.was = pack /\ new.file = None
    <3>1. PICK p \in BOOLEAN :
            /\ soundsRequest[r] = None
            /\ soundsRequest' = [soundsRequest EXCEPT ![r] = Sounds!Slot("allow", p)]
      BY <1>t, <1>21 DEF Sounds!PutChannelVoicePack, Sounds!Begins, Sounds!BeginsAs, SoundsTyped, Packs, Configs
    <3> DEFINE slot == Sounds!Slot("allow", p)
    <3>2. /\ slot \in SoundSlot /\ slot.step = "allow"
          /\ slot.was = pack /\ slot.file = None
      BY <1>t, <3>1 DEF SoundsTyped, SoundSteps, SoundSlot, SoundArgs, Sounds!Slot
    <3> HIDE DEF slot
    <3> QED BY <1>t, <3>1, <3>2, SoundMoves DEF slot
  <2>2. SoundsTyped'
    <3>1. UNCHANGED <<pack, config, chosen>>
      BY <1>t, <1>21, <2>1 DEF Sounds!PutChannelVoicePack, Sounds!row, Sounds!files,
          Sounds!user, Sounds!choice, Sounds!guild, Sounds!sound
    <3> QED BY <1>t, <2>1, <3>1, TypesKept DEF SoundsTyped, Has
  <2>3. FilesRight'
    <3>1. UNCHANGED <<pack, back, lost, disk, used>>
      BY <1>t, <1>21, <2>1 DEF Sounds!PutChannelVoicePack, Sounds!row, Sounds!files,
          Sounds!user, Sounds!choice, Sounds!guild, Sounds!sound
    <3> QED BY <1>t, <2>1, <3>1, FilesAside DEF Has
  <2>4. IsDeleted' /\ OneOfPack'
    <3>1. UNCHANGED <<pack, made, gone, revived, soundsShown, unsaid>>
      BY <1>t, <1>21, <2>1 DEF Sounds!PutChannelVoicePack, Sounds!row, Sounds!files,
          Sounds!user, Sounds!choice, Sounds!guild, Sounds!sound
    <3> QED BY <1>t, <2>1, <3>1, PackAside DEF Has, AtPack
  <2>5. IsNotChosen' /\ OneOfChoice'
    <3>1. UNCHANGED <<chosen, told, unheard>> /\ (gone' /\ pack' = None => gone /\ pack = None)
      BY <1>t, <1>21, <2>1 DEF Sounds!PutChannelVoicePack, Sounds!row, Sounds!files,
          Sounds!user, Sounds!choice, Sounds!guild, Sounds!sound
    <3> QED BY <1>t, <2>1, <3>1, ChoiceAside DEF Has, AtChoice
  <2> QED BY <2>2, <2>3, <2>4, <2>5 DEF SoundsInv, FilesRight
<1>22. ASSUME NEW r \in Requests, Sounds!ChannelWritten(r) PROVE SoundsInv'
  <2>1. Has(r, "allow") /\ MovesTo(r, None)
    BY <1>t, <1>22, SoundEnds DEF Sounds!ChannelWritten, Sounds!Doing, Has
  <2>2. SoundsTyped'
    <3>1. UNCHANGED <<pack, config, chosen>>
      BY <1>t, <1>22, <2>1 DEF Sounds!ChannelWritten, Sounds!row, Sounds!files, Sounds!user,
          Sounds!choice, Sounds!guild, Sounds!sound
    <3> QED BY <1>t, <2>1, <3>1, TypesKept DEF SoundsTyped, Has
  <2>3. FilesRight'
    <3>1. UNCHANGED <<pack, back, lost, disk, used>>
      BY <1>t, <1>22, <2>1 DEF Sounds!ChannelWritten, Sounds!row, Sounds!files, Sounds!user,
          Sounds!choice, Sounds!guild, Sounds!sound
    <3> QED BY <1>t, <2>1, <3>1, FilesAside DEF Has
  <2>4. IsDeleted' /\ OneOfPack'
    <3>1. UNCHANGED <<pack, made, gone, revived, soundsShown, unsaid>>
      BY <1>t, <1>22, <2>1 DEF Sounds!ChannelWritten, Sounds!row, Sounds!files, Sounds!user,
          Sounds!choice, Sounds!guild, Sounds!sound
    <3> QED BY <1>t, <2>1, <3>1, PackAside DEF Has, AtPack
  <2>5. IsNotChosen' /\ OneOfChoice'
    <3>1. UNCHANGED <<chosen, told, unheard>> /\ (gone' /\ pack' = None => gone /\ pack = None)
      BY <1>t, <1>22, <2>1 DEF Sounds!ChannelWritten, Sounds!row, Sounds!files, Sounds!user,
          Sounds!choice, Sounds!guild, Sounds!sound
    <3> QED BY <1>t, <2>1, <3>1, ChoiceAside DEF Has, AtChoice
  <2> QED BY <2>2, <2>3, <2>4, <2>5 DEF SoundsInv, FilesRight
<1>23. ASSUME NEW r \in Requests, Sounds!PlayVoicePack(r) PROVE SoundsInv'
  <2>1. PICK new \in SoundSlot :
          /\ soundsRequest[r] = None /\ MovesTo(r, new) /\ new # None /\ new.step = "enter"
          /\ new.was = pack /\ new.file = None
    <3>1. /\ soundsRequest[r] = None
          /\ soundsRequest' = [soundsRequest EXCEPT ![r] = Sounds!Slot("enter", config.url)]
      BY <1>23 DEF Sounds!PlayVoicePack, Sounds!Begins, Sounds!BeginsAs
    <3> DEFINE slot == Sounds!Slot("enter", config.url)
    <3>2. /\ slot \in SoundSlot /\ slot.step = "enter"
          /\ slot.was = pack /\ slot.file = None
      BY <1>t, <3>1 DEF SoundsTyped, SoundSteps, SoundSlot, SoundArgs, Configs, Sounds!Slot
    <3> HIDE DEF slot
    <3> QED BY <1>t, <3>1, <3>2, SoundMoves DEF slot
  <2>2. SoundsTyped'
    <3>1. UNCHANGED <<pack, config, chosen>>
      BY <1>t, <1>23, <2>1 DEF Sounds!PlayVoicePack, Sounds!row, Sounds!files, Sounds!user,
          Sounds!choice, Sounds!guild, Sounds!sound
    <3> QED BY <1>t, <2>1, <3>1, TypesKept DEF SoundsTyped, Has
  <2>3. FilesRight'
    <3>1. UNCHANGED <<pack, back, lost, disk, used>>
      BY <1>t, <1>23, <2>1 DEF Sounds!PlayVoicePack, Sounds!row, Sounds!files, Sounds!user,
          Sounds!choice, Sounds!guild, Sounds!sound
    <3> QED BY <1>t, <2>1, <3>1, FilesAside DEF Has
  <2>4. IsDeleted' /\ OneOfPack'
    <3>1. UNCHANGED <<pack, made, gone, revived, soundsShown, unsaid>>
      BY <1>t, <1>23, <2>1 DEF Sounds!PlayVoicePack, Sounds!row, Sounds!files, Sounds!user,
          Sounds!choice, Sounds!guild, Sounds!sound
    <3> QED BY <1>t, <2>1, <3>1, PackAside DEF Has, AtPack
  <2>5. IsNotChosen' /\ OneOfChoice'
    <3>1. UNCHANGED <<chosen, told, unheard>> /\ (gone' /\ pack' = None => gone /\ pack = None)
      BY <1>t, <1>23, <2>1 DEF Sounds!PlayVoicePack, Sounds!row, Sounds!files, Sounds!user,
          Sounds!choice, Sounds!guild, Sounds!sound
    <3> QED BY <1>t, <2>1, <3>1, ChoiceAside DEF Has, AtChoice
  <2> QED BY <2>2, <2>3, <2>4, <2>5 DEF SoundsInv, FilesRight
<1>24. ASSUME NEW r \in Requests, Sounds!Allow(r) PROVE SoundsInv'
  <2>1. PICK new \in SoundSlot \cup {None} :
          /\ Has(r, "enter") /\ MovesTo(r, new)
          /\ new # None => /\ new.step = "resolve" /\ new.was = soundsRequest[r].was
                           /\ new.file = soundsRequest[r].file
    <3>1. /\ Has(r, "enter") /\ soundsRequest[r] # None
          /\ Sounds!Ends(r) \/ soundsRequest' = [soundsRequest EXCEPT ![r].step = "resolve"]
      BY <1>24 DEF Sounds!Allow, Sounds!Doing, Sounds!Goes, Has
    <3>2. "resolve" \in SoundSteps
      BY DEF SoundSteps
    <3> QED BY <1>t, <3>1, <3>2, SoundEnds, SoundGoes
  <2>2. SoundsTyped'
    <3>1. UNCHANGED <<pack, config, chosen>>
      BY <1>t, <1>24, <2>1 DEF Sounds!Allow, Sounds!row, Sounds!files, Sounds!user,
          Sounds!choice, Sounds!guild, Sounds!sound
    <3> QED BY <1>t, <2>1, <3>1, TypesKept DEF SoundsTyped, Has
  <2>3. FilesRight'
    <3>1. UNCHANGED <<pack, back, lost, disk, used>>
      BY <1>t, <1>24, <2>1 DEF Sounds!Allow, Sounds!row, Sounds!files, Sounds!user,
          Sounds!choice, Sounds!guild, Sounds!sound
    <3> QED BY <1>t, <2>1, <3>1, FilesAside DEF Has
  <2>4. IsDeleted' /\ OneOfPack'
    <3>1. UNCHANGED <<pack, made, gone, revived, soundsShown, unsaid>>
      BY <1>t, <1>24, <2>1 DEF Sounds!Allow, Sounds!row, Sounds!files, Sounds!user,
          Sounds!choice, Sounds!guild, Sounds!sound
    <3> QED BY <1>t, <2>1, <3>1, PackAside DEF Has, AtPack
  <2>5. IsNotChosen' /\ OneOfChoice'
    <3>1. UNCHANGED <<chosen, told, unheard>> /\ (gone' /\ pack' = None => gone /\ pack = None)
      BY <1>t, <1>24, <2>1 DEF Sounds!Allow, Sounds!row, Sounds!files, Sounds!user,
          Sounds!choice, Sounds!guild, Sounds!sound
    <3> QED BY <1>t, <2>1, <3>1, ChoiceAside DEF Has, AtChoice
  <2> QED BY <2>2, <2>3, <2>4, <2>5 DEF SoundsInv, FilesRight
<1>25. ASSUME NEW r \in Requests, Sounds!ResolveVoicePackAudio(r) PROVE SoundsInv'
  <2>1. Has(r, "resolve") /\ MovesTo(r, None)
    BY <1>t, <1>25, SoundEnds DEF Sounds!ResolveVoicePackAudio, Sounds!Doing, Has
  <2>2. SoundsTyped'
    <3>1. UNCHANGED <<pack, config, chosen>>
      BY <1>t, <1>25, <2>1 DEF Sounds!ResolveVoicePackAudio, Sounds!row, Sounds!files,
          Sounds!user, Sounds!choice, Sounds!guild, Sounds!sound
    <3> QED BY <1>t, <2>1, <3>1, TypesKept DEF SoundsTyped, Has
  <2>3. FilesRight'
    <3>1. UNCHANGED <<pack, back, lost, disk, used>>
      BY <1>t, <1>25, <2>1 DEF Sounds!ResolveVoicePackAudio, Sounds!row, Sounds!files,
          Sounds!user, Sounds!choice, Sounds!guild, Sounds!sound
    <3> QED BY <1>t, <2>1, <3>1, FilesAside DEF Has
  <2>4. IsDeleted' /\ OneOfPack'
    <3>1. UNCHANGED <<pack, made, gone, revived, soundsShown, unsaid>>
      BY <1>t, <1>25, <2>1 DEF Sounds!ResolveVoicePackAudio, Sounds!row, Sounds!files,
          Sounds!user, Sounds!choice, Sounds!guild, Sounds!sound
    <3> QED BY <1>t, <2>1, <3>1, PackAside DEF Has, AtPack
  <2>5. IsNotChosen' /\ OneOfChoice'
    <3>1. UNCHANGED <<chosen, told, unheard>> /\ (gone' /\ pack' = None => gone /\ pack = None)
      BY <1>t, <1>25, <2>1 DEF Sounds!ResolveVoicePackAudio, Sounds!row, Sounds!files,
          Sounds!user, Sounds!choice, Sounds!guild, Sounds!sound
    <3> QED BY <1>t, <2>1, <3>1, ChoiceAside DEF Has, AtChoice
  <2> QED BY <2>2, <2>3, <2>4, <2>5 DEF SoundsInv, FilesRight
<1>26. CASE Sounds!CoolsDown \/ Sounds!MemberChanges \/ UNCHANGED soundsVars
  <2>1. UNCHANGED <<pack, made, gone, back, lost, revived, disk, used, chosen, told, unheard,
                    config, soundsShown, soundsRequest, unsaid>>
    BY <1>26 DEF Sounds!CoolsDown, Sounds!MemberChanges, soundsVars, Sounds!row, Sounds!files,
        Sounds!user, Sounds!choice, Sounds!guild, Sounds!sound
  <2>2. \A r \in Requests : /\ \A s \in SoundSteps : Has(r, s)' <=> Has(r, s)
                            /\ AtPack(r)' <=> AtPack(r)
                            /\ AtChoice(r)' <=> AtChoice(r)
    BY <2>1 DEF Has, AtPack, AtChoice
  <2>3. SoundsTyped'
    BY <1>t, <2>1 DEF SoundsTyped, Has
  <2>4. FilesAreKnown' /\ NewFile'
    BY <1>t, <2>1 DEF FilesAreKnown, Known, NewFile, Names, Has
  <2>5. NamedIsThere' /\ NoFileLeft'
    BY <1>t, <2>1 DEF NamedIsThere, NoFileLeft, Names, Has
  <2>6. IsDeleted' /\ IsNotChosen'
    BY <1>t, <2>1 DEF IsDeleted, IsNotChosen, AtPack, Has
  <2>7. OneOfPack'
    BY <1>t, <2>1 DEF OneOfPack, AtPack, Has
  <2>8. OneOfChoice'
    BY <1>t, <2>1 DEF OneOfChoice, AtChoice, Has
  <2> QED BY <2>3, <2>4, <2>5, <2>6, <2>7, <2>8 DEF SoundsInv
<1>27. CASE Sounds!Next
  BY <1>27, <1>1, <1>2, <1>3, <1>4, <1>5, <1>6, <1>7, <1>8, <1>9, <1>10, <1>11, <1>12, <1>13,
      <1>14, <1>15, <1>16, <1>17, <1>18, <1>19, <1>20, <1>21, <1>22, <1>23, <1>24, <1>25, <1>26
      DEF Sounds!Next
<1> QED BY <1>26, <1>27 DEF Next, vars

(* A live message's attachment can be downloaded whole; and the audio that *)
(* a sound pack names is on the disk, no file stays behind without a name, *)
(* a deleted pack stays deleted and unchosen, and what was sent last is    *)
(* what is so: with the exceptions that FilesServed and PacksHold name.    *)
THEOREM FilesHold == Spec => []FilesServed
<1>1. SoundsInv => Sounds!PacksHold
  <2> SUFFICES ASSUME SoundsInv PROVE Sounds!PacksHold
    OBVIOUS
  <2>1. /\ NamedIsThere /\ NoFileLeft /\ IsDeleted /\ IsNotChosen /\ OneOfPack /\ OneOfChoice
    BY DEF SoundsInv
  <2>2. Sounds!Audible
    BY <2>1 DEF NamedIsThere, Sounds!Audible
  <2>3. Sounds!NothingLeft
    BY <2>1 DEF NoFileLeft, Names, Has, Sounds!NothingLeft, Sounds!At, Sounds!Doing
  <2>4. Sounds!StaysDeleted
    BY <2>1 DEF IsDeleted, IsNotChosen, Sounds!StaysDeleted
  <2>5. ~ unsaid /\ Sounds!OfPack \cup Sounds!At("removed") = {} => soundsShown = pack
    BY <2>1 DEF OneOfPack, AtPack, Has, Sounds!OfPack, Sounds!At, Sounds!Doing
  <2>6. ~ unheard /\ Sounds!OfChoice = {} => told = chosen
    BY <2>1 DEF OneOfChoice, AtChoice, Sounds!OfChoice
  <2> QED BY <2>2, <2>3, <2>4, <2>5, <2>6 DEF Sounds!PacksHold, Sounds!Announced
<1>2. FilesInv => Attached!FilesServed
  BY DEF FilesInv, WholeFile, Attached!FilesServed
<1>3. FilesInv /\ SoundsInv => FilesServed
  BY <1>1, <1>2 DEF FilesServed
<1> QED BY <1>3, FilesInit, FilesNext, SoundsInit, SoundsNext, PTL DEF Spec

-----------------------------------------------------------------------------
(* One message, its texts and its index. *)

Writing(r, step) == textsRequest[r] # None /\ textsRequest[r].step = step

TextsTyped ==
  /\ textsState \in {"none", "live", "deleted", "gone"}
  /\ textsText \in Nat /\ edits \in Seq(Nat) /\ texts \in Seq(Nat)
  /\ textsRequest \in [Requests -> TextSlot \cup {None}]
  /\ textsQueue \in [Workers -> Seq(BOOLEAN)]
  /\ reading \in [Workers -> Reading \cup {None}]

\* Before the message is there, nobody is at it; a person's is no stream.
Unwritten ==
  /\ textsState = "none" =>
       texts = <<>> /\ edits = <<>> /\ \A r \in Requests : textsRequest[r] = None
  /\ ~ bot => ~ streaming /\ \A r \in Requests : ~ Writing(r, "append") /\ ~ Writing(r, "end")

\* The text a handler read is still the text, when its version is free.
EditsFollow ==
  ~ bot /\ textsState \in {"live", "deleted"} =>
    /\ texts = Append(edits, textsText)
    /\ \A r \in Requests : Writing(r, "edit") =>
         /\ Len(textsRequest[r].edits) <= Len(edits)
         /\ Len(textsRequest[r].edits) = Len(edits) => textsRequest[r].text = textsText

Waits(s)   == \E i \in 1 .. Len(s) : s[i] = FALSE
Removes(s) == \E i \in 1 .. Len(s) : s[i] = TRUE

\* Only a deleted message is removed from the index.
RemovedWhenDeleted ==
  (\E r \in Requests : Writing(r, "remove")) \/ (\E w \in Workers : Removes(textsQueue[w])) =>
    textsState \in {"deleted", "gone"}

\* The text is in the index, and whoever would still write another text there
\* is known to have been crossed; or the text is on its way there.
OnItsWay ==
  \/ \E r \in Requests : Writing(r, "index")
  \/ \E w \in Workers : Waits(textsQueue[w])
  \/ \E w \in Workers : reading[w] # None /\ reading[w].text = textsText

IndexFollows ==
  textsState = "live" /\ ~ streaming /\ ~ textsUntrue =>
    \/ OnItsWay
    \/ indexed = textsText /\ \A w \in Workers : reading[w] # None => reading[w].crossed

TextsInv ==
  TextsTyped /\ Unwritten /\ EditsFollow /\ RemovedWhenDeleted /\ IndexFollows

LEMMA TextsInit == Init => TextsInv
<1> SUFFICES ASSUME Init PROVE TextsInv
  OBVIOUS
<1>1. /\ textsState = "none" /\ streaming = FALSE /\ textsText = 0 /\ edits = <<>> /\ texts = <<>>
      /\ textsRequest = [r \in Requests |-> None] /\ textsQueue = [w \in Workers |-> <<>>]
      /\ reading = [w \in Workers |-> None]
  BY DEF Init, Texts!Init
<1>2. TextsTyped
  BY <1>1 DEF TextsTyped
<1>3. /\ \A r \in Requests : textsRequest[r] = None
      /\ \A w \in Workers : Len(textsQueue[w]) = 0
  BY <1>1
<1> QED BY <1>1, <1>2, <1>3
      DEF TextsInv, Unwritten, EditsFollow, RemovedWhenDeleted, IndexFollows, Writing, Removes

\* The handler r is at the slot, or at none, and nobody else moves.
WritesAt(r, new) ==
  /\ textsRequest' \in [Requests -> TextSlot \cup {None}]
  /\ textsRequest'[r] = new /\ \A q \in Requests \ {r} : textsRequest'[q] = textsRequest[q]

LEMMA TextMoves ==
  ASSUME TextsTyped, NEW r \in Requests, NEW new \in TextSlot,
         textsRequest' = [textsRequest EXCEPT ![r] = new]
  PROVE  WritesAt(r, new) /\ new # None
BY NoneIsNoValue DEF TextsTyped, WritesAt

LEMMA TextEnds ==
  ASSUME TextsTyped, NEW r \in Requests, Texts!Ends(r)
  PROVE  WritesAt(r, None)
BY DEF TextsTyped, WritesAt, Texts!Ends

\* A handler that is not queueing for the index writes the text and will, or
\* leaves the text alone, or ends what is claimed.
LEMMA IndexAside ==
  ASSUME IndexFollows, NEW r \in Requests, NEW new, WritesAt(r, new), ~ Writing(r, "index"),
         UNCHANGED <<textsQueue, reading, indexed>>,
         \/ new # None /\ new.step = "index"
         \/ textsState' # "live" \/ streaming' \/ textsUntrue'
         \/ /\ UNCHANGED textsText
            /\ textsState' = "live" /\ ~ streaming' /\ ~ textsUntrue' =>
                 textsState = "live" /\ ~ streaming /\ ~ textsUntrue
  PROVE  IndexFollows'
<1>1. \A q \in Requests : Writing(q, "index") => Writing(q, "index")'
  BY DEF Writing, WritesAt
<1>2. new # None /\ new.step = "index" => Writing(r, "index")'
  BY DEF Writing, WritesAt
<1>3. textsText' = textsText => (OnItsWay => OnItsWay')
  BY <1>1 DEF OnItsWay
<1>4. new # None /\ new.step = "index" => OnItsWay'
  BY <1>2 DEF OnItsWay
<1> QED BY <1>3, <1>4 DEF IndexFollows

LEMMA RemovalsAside ==
  ASSUME RemovedWhenDeleted, NEW r \in Requests, NEW new, WritesAt(r, new), UNCHANGED textsQueue,
         textsState \in {"deleted", "gone"} => textsState' \in {"deleted", "gone"},
         new # None /\ new.step = "remove" => textsState' \in {"deleted", "gone"}
  PROVE  RemovedWhenDeleted'
<1>1. \A q \in Requests : Writing(q, "remove")' =>
        Writing(q, "remove") \/ (q = r /\ new # None /\ new.step = "remove")
  BY DEF Writing, WritesAt
<1> QED BY <1>1 DEF RemovedWhenDeleted

\* A message is written for the first time, or text that was not yet there.
LEMMA TextWritten ==
  ASSUME TextsTyped, Texts!Writes
  PROVE  /\ textsText' \in Nat /\ texts' \in Seq(Nat)
         /\ textsState = "gone" => UNCHANGED <<textsText, texts>>
         /\ textsState # "gone" => texts' = Append(texts, textsText')
<1>1. textsText \in Nat /\ texts \in Seq(Nat) /\ Len(texts) \in Nat
  BY DEF TextsTyped
<1>2. CASE textsState = "gone"
  BY <1>1, <1>2 DEF Texts!Writes
<1>3. CASE textsState # "gone"
  <2>1. textsText' = Len(texts) + 1 /\ texts' = Append(texts, Len(texts) + 1)
    BY <1>3 DEF Texts!Writes
  <2> QED BY <1>1, <1>3, <2>1
<1> QED BY <1>2, <1>3

LEMMA TextCreateMessageKeeps ==
  ASSUME TextsInv, NEW r \in Requests, Texts!CreateMessage(r)
  PROVE  TextsInv'
<1>t. TextsTyped /\ Unwritten /\ EditsFollow /\ RemovedWhenDeleted /\ IndexFollows
  BY DEF TextsInv
<1>1. PICK new \in TextSlot :
        /\ textsRequest[r] = None /\ WritesAt(r, new) /\ new # None
        /\ new.step = "index" /\ new.text = textsText /\ new.edits = edits
  <2>1. PICK s \in {"index"} :
          /\ textsRequest[r] = None
          /\ textsRequest' = [textsRequest EXCEPT ![r] = [step |-> s, text |-> textsText, edits |-> edits]]
    BY DEF Texts!CreateMessage, Texts!Goes, Texts!Doing, Writing
  <2> DEFINE slot == [step |-> s, text |-> textsText, edits |-> edits]
  <2>2. slot \in TextSlot /\ slot.step = s /\ slot.text = textsText /\ slot.edits = edits
    BY <1>t DEF TextsTyped, TextSlot
  <2> HIDE DEF slot
  <2> QED BY <1>t, <2>1, <2>2, TextMoves DEF slot
<1>w. Texts!Writes
  BY DEF Texts!CreateMessage
<1>v. /\ textsText' \in Nat /\ texts' \in Seq(Nat)
      /\ textsState = "gone" => UNCHANGED <<textsText, texts>>
      /\ textsState # "gone" => texts' = Append(texts, textsText')
  BY <1>t, <1>w, TextWritten DEF TextsTyped
<1>2. /\ textsState = "none" /\ textsState' = "live"
      /\ UNCHANGED <<bot, streaming, edits, textsUntrue>>
      /\ UNCHANGED <<textsQueue, reading, indexed>>
  BY DEF Texts!CreateMessage, Texts!index, Texts!row
<1>4. TextsTyped'
  BY <1>t, <1>1, <1>2, <1>v DEF TextsTyped, WritesAt
<1>5. \A q \in Requests : q # r => textsRequest'[q] = textsRequest[q]
  BY <1>1 DEF WritesAt
<1>6. textsRequest'[r] = new
  BY <1>1 DEF WritesAt
<1>7. Unwritten'
  BY <1>t, <1>1, <1>2, <1>5, <1>6, <1>v DEF Unwritten, Writing
<1>8. EditsFollow'
  BY <1>t, <1>1, <1>2, <1>4, <1>5, <1>6, <1>v DEF EditsFollow, Unwritten, Writing, TextsTyped
<1>9. RemovedWhenDeleted'
  BY <1>t, <1>1, <1>2, RemovalsAside DEF Unwritten
<1>10. IndexFollows'
  BY <1>t, <1>1, <1>2, IndexAside DEF Writing
<1> QED BY <1>4, <1>7, <1>8, <1>9, <1>10 DEF TextsInv

LEMMA TextStreamingMessageAccessKeeps ==
  ASSUME TextsInv, NEW r \in Requests, Texts!StreamingMessageAccess(r)
  PROVE  TextsInv'
<1>t. TextsTyped /\ Unwritten /\ EditsFollow /\ RemovedWhenDeleted /\ IndexFollows
  BY DEF TextsInv
<1>1. PICK new \in TextSlot :
        /\ textsRequest[r] = None /\ WritesAt(r, new) /\ new # None
        /\ new.step \in {"append", "end"} /\ new.text = textsText /\ new.edits = edits
  <2>1. PICK s \in {"append", "end"} :
          /\ textsRequest[r] = None
          /\ textsRequest' = [textsRequest EXCEPT ![r] = [step |-> s, text |-> textsText, edits |-> edits]]
    BY DEF Texts!StreamingMessageAccess, Texts!Goes, Texts!Doing, Writing
  <2> DEFINE slot == [step |-> s, text |-> textsText, edits |-> edits]
  <2>2. slot \in TextSlot /\ slot.step = s /\ slot.text = textsText /\ slot.edits = edits
    BY <1>t DEF TextsTyped, TextSlot
  <2> HIDE DEF slot
  <2> QED BY <1>t, <2>1, <2>2, TextMoves DEF slot
<1>2. /\ streaming /\ textsState = "live"
      /\ UNCHANGED <<textsState, bot, streaming, textsText, edits, texts, textsUntrue>>
      /\ UNCHANGED <<textsQueue, reading, indexed>>
  BY DEF Texts!StreamingMessageAccess, Texts!index, Texts!row
<1>4. TextsTyped'
  BY <1>t, <1>1, <1>2 DEF TextsTyped, WritesAt
<1>5. \A q \in Requests : q # r => textsRequest'[q] = textsRequest[q]
  BY <1>1 DEF WritesAt
<1>6. textsRequest'[r] = new
  BY <1>1 DEF WritesAt
<1>7. Unwritten'
  BY <1>t, <1>1, <1>2, <1>5, <1>6 DEF Unwritten, Writing
<1>8. EditsFollow'
  BY <1>t, <1>1, <1>2, <1>4, <1>5, <1>6 DEF EditsFollow, Unwritten, Writing, TextsTyped
<1>9. RemovedWhenDeleted'
  BY <1>t, <1>1, <1>2, RemovalsAside DEF Unwritten
<1>10. IndexFollows'
  BY <1>t, <1>1, <1>2, IndexAside DEF Writing
<1> QED BY <1>4, <1>7, <1>8, <1>9, <1>10 DEF TextsInv

LEMMA TextAppendStreamKeeps ==
  ASSUME TextsInv, NEW r \in Requests, Texts!AppendStream(r)
  PROVE  TextsInv'
<1>t. TextsTyped /\ Unwritten /\ EditsFollow /\ RemovedWhenDeleted /\ IndexFollows
  BY DEF TextsInv
<1> DEFINE new == None
<1>1. Writing(r, "append") /\ WritesAt(r, new)
  BY <1>t, TextEnds DEF Texts!AppendStream, Texts!Doing, Writing
<1>0. new = None
  OBVIOUS
<1> HIDE DEF new
<1>w. Texts!Writes
  BY DEF Texts!AppendStream
<1>v. /\ textsText' \in Nat /\ texts' \in Seq(Nat)
      /\ textsState = "gone" => UNCHANGED <<textsText, texts>>
      /\ textsState # "gone" => texts' = Append(texts, textsText')
  BY <1>t, <1>w, TextWritten DEF TextsTyped
<1>2. /\ (~ streaming => textsUntrue')
      /\ UNCHANGED <<textsState, bot, streaming, edits>>
      /\ UNCHANGED <<textsQueue, reading, indexed>>
  BY DEF Texts!AppendStream, Texts!index, Texts!row
<1>4. TextsTyped'
  BY <1>t, <1>0, <1>1, <1>2, <1>v DEF TextsTyped, WritesAt
<1>5. \A q \in Requests : q # r => textsRequest'[q] = textsRequest[q]
  BY <1>1 DEF WritesAt
<1>6. textsRequest'[r] = new
  BY <1>1 DEF WritesAt
<1>7. Unwritten'
  BY <1>t, <1>0, <1>1, <1>2, <1>5, <1>6, <1>v DEF Unwritten, Writing
<1>8. EditsFollow'
  BY <1>t, <1>0, <1>1, <1>2, <1>4, <1>5, <1>6, <1>v DEF EditsFollow, Unwritten, Writing,
      TextsTyped
<1>9. RemovedWhenDeleted'
  BY <1>t, <1>0, <1>1, <1>2, RemovalsAside DEF Unwritten
<1>10. IndexFollows'
  BY <1>t, <1>0, <1>1, <1>2, IndexAside DEF Writing
<1> QED BY <1>4, <1>7, <1>8, <1>9, <1>10 DEF TextsInv

LEMMA TextEndStreamKeeps ==
  ASSUME TextsInv, NEW r \in Requests, Texts!EndStream(r)
  PROVE  TextsInv'
<1>t. TextsTyped /\ Unwritten /\ EditsFollow /\ RemovedWhenDeleted /\ IndexFollows
  BY DEF TextsInv
<1>1. PICK new \in TextSlot :
        /\ Writing(r, "end") /\ WritesAt(r, new) /\ new # None
        /\ new.step = "index" /\ new.text = textsText /\ new.edits = edits
  <2>1. PICK s \in {"index"} :
          /\ Writing(r, "end")
          /\ textsRequest' = [textsRequest EXCEPT ![r] = [step |-> s, text |-> textsText, edits |-> edits]]
    BY DEF Texts!EndStream, Texts!Goes, Texts!Doing, Writing
  <2> DEFINE slot == [step |-> s, text |-> textsText, edits |-> edits]
  <2>2. slot \in TextSlot /\ slot.step = s /\ slot.text = textsText /\ slot.edits = edits
    BY <1>t DEF TextsTyped, TextSlot
  <2> HIDE DEF slot
  <2> QED BY <1>t, <2>1, <2>2, TextMoves DEF slot
<1>w. Texts!Writes \/ UNCHANGED <<textsText, texts>>
  BY DEF Texts!EndStream
<1>v. /\ textsText' \in Nat /\ texts' \in Seq(Nat)
      /\ textsState = "gone" => UNCHANGED <<textsText, texts>>
  BY <1>t, <1>w, TextWritten DEF TextsTyped
<1>2. /\ streaming' = FALSE
      /\ UNCHANGED <<textsState, bot, edits, textsUntrue>>
      /\ UNCHANGED <<textsQueue, reading, indexed>>
  BY DEF Texts!EndStream, Texts!index, Texts!row
<1>4. TextsTyped'
  BY <1>t, <1>1, <1>2, <1>v DEF TextsTyped, WritesAt
<1>5. \A q \in Requests : q # r => textsRequest'[q] = textsRequest[q]
  BY <1>1 DEF WritesAt
<1>6. textsRequest'[r] = new
  BY <1>1 DEF WritesAt
<1>7. Unwritten'
  BY <1>t, <1>1, <1>2, <1>5, <1>6, <1>v DEF Unwritten, Writing
<1>8. EditsFollow'
  BY <1>t, <1>1, <1>2, <1>4, <1>5, <1>6, <1>v DEF EditsFollow, Unwritten, Writing, TextsTyped
<1>9. RemovedWhenDeleted'
  BY <1>t, <1>1, <1>2, RemovalsAside DEF Unwritten
<1>10. IndexFollows'
  BY <1>t, <1>1, <1>2, IndexAside DEF Writing
<1> QED BY <1>4, <1>7, <1>8, <1>9, <1>10 DEF TextsInv

LEMMA TextGcStaleStreamsKeeps ==
  ASSUME TextsInv, NEW r \in Requests, Texts!GcStaleStreams(r)
  PROVE  TextsInv'
<1>t. TextsTyped /\ Unwritten /\ EditsFollow /\ RemovedWhenDeleted /\ IndexFollows
  BY DEF TextsInv
<1>1. PICK new \in TextSlot :
        /\ textsRequest[r] = None /\ WritesAt(r, new) /\ new # None
        /\ new.step = "index" /\ new.text = textsText /\ new.edits = edits
  <2>1. PICK s \in {"index"} :
          /\ textsRequest[r] = None
          /\ textsRequest' = [textsRequest EXCEPT ![r] = [step |-> s, text |-> textsText, edits |-> edits]]
    BY DEF Texts!GcStaleStreams, Texts!Goes, Texts!Doing, Writing
  <2> DEFINE slot == [step |-> s, text |-> textsText, edits |-> edits]
  <2>2. slot \in TextSlot /\ slot.step = s /\ slot.text = textsText /\ slot.edits = edits
    BY <1>t DEF TextsTyped, TextSlot
  <2> HIDE DEF slot
  <2> QED BY <1>t, <2>1, <2>2, TextMoves DEF slot
<1>2. /\ streaming /\ textsState = "live" /\ streaming' = FALSE
      /\ UNCHANGED <<textsState, bot, textsText, edits, texts, textsUntrue>>
      /\ UNCHANGED <<textsQueue, reading, indexed>>
  BY DEF Texts!GcStaleStreams, Texts!index, Texts!row
<1>4. TextsTyped'
  BY <1>t, <1>1, <1>2 DEF TextsTyped, WritesAt
<1>5. \A q \in Requests : q # r => textsRequest'[q] = textsRequest[q]
  BY <1>1 DEF WritesAt
<1>6. textsRequest'[r] = new
  BY <1>1 DEF WritesAt
<1>7. Unwritten'
  BY <1>t, <1>1, <1>2, <1>5, <1>6 DEF Unwritten, Writing
<1>8. EditsFollow'
  BY <1>t, <1>1, <1>2, <1>4, <1>5, <1>6 DEF EditsFollow, Unwritten, Writing, TextsTyped
<1>9. RemovedWhenDeleted'
  BY <1>t, <1>1, <1>2, RemovalsAside DEF Unwritten
<1>10. IndexFollows'
  BY <1>t, <1>1, <1>2, IndexAside DEF Writing
<1> QED BY <1>4, <1>7, <1>8, <1>9, <1>10 DEF TextsInv

LEMMA TextEditMessageKeeps ==
  ASSUME TextsInv, NEW r \in Requests, Texts!EditMessage(r)
  PROVE  TextsInv'
<1>t. TextsTyped /\ Unwritten /\ EditsFollow /\ RemovedWhenDeleted /\ IndexFollows
  BY DEF TextsInv
<1>1. PICK new \in TextSlot :
        /\ textsRequest[r] = None /\ WritesAt(r, new) /\ new # None
        /\ new.step = "edit" /\ new.text = textsText /\ new.edits = edits
  <2>1. PICK s \in {"edit"} :
          /\ textsRequest[r] = None
          /\ textsRequest' = [textsRequest EXCEPT ![r] = [step |-> s, text |-> textsText, edits |-> edits]]
    BY DEF Texts!EditMessage, Texts!Goes, Texts!Doing, Writing
  <2> DEFINE slot == [step |-> s, text |-> textsText, edits |-> edits]
  <2>2. slot \in TextSlot /\ slot.step = s /\ slot.text = textsText /\ slot.edits = edits
    BY <1>t DEF TextsTyped, TextSlot
  <2> HIDE DEF slot
  <2> QED BY <1>t, <2>1, <2>2, TextMoves DEF slot
<1>2. /\ textsState = "live"
      /\ UNCHANGED <<textsState, bot, streaming, textsText, edits, texts, textsUntrue>>
      /\ UNCHANGED <<textsQueue, reading, indexed>>
  BY DEF Texts!EditMessage, Texts!index, Texts!row
<1>4. TextsTyped'
  BY <1>t, <1>1, <1>2 DEF TextsTyped, WritesAt
<1>5. \A q \in Requests : q # r => textsRequest'[q] = textsRequest[q]
  BY <1>1 DEF WritesAt
<1>6. textsRequest'[r] = new
  BY <1>1 DEF WritesAt
<1>7. Unwritten'
  BY <1>t, <1>1, <1>2, <1>5, <1>6 DEF Unwritten, Writing
<1>8. EditsFollow'
  BY <1>t, <1>1, <1>2, <1>4, <1>5, <1>6 DEF EditsFollow, Unwritten, Writing, TextsTyped
<1>9. RemovedWhenDeleted'
  BY <1>t, <1>1, <1>2, RemovalsAside DEF Unwritten
<1>10. IndexFollows'
  BY <1>t, <1>1, <1>2, IndexAside DEF Writing
<1> QED BY <1>4, <1>7, <1>8, <1>9, <1>10 DEF TextsInv

LEMMA TextSaveEditKeeps ==
  ASSUME TextsInv, NEW r \in Requests, Texts!SaveEdit(r)
  PROVE  TextsInv'
<1>t. TextsTyped /\ Unwritten /\ EditsFollow /\ RemovedWhenDeleted /\ IndexFollows
  BY DEF TextsInv
<1>1. PICK new \in TextSlot :
        /\ Writing(r, "edit") /\ WritesAt(r, new) /\ new # None
        /\ new.step = "index" /\ new.text = textsText /\ new.edits = edits
  <2>1. PICK s \in {"index"} :
          /\ Writing(r, "edit")
          /\ textsRequest' = [textsRequest EXCEPT ![r] = [step |-> s, text |-> textsText, edits |-> edits]]
    BY DEF Texts!SaveEdit, Texts!Goes, Texts!Doing, Writing
  <2> DEFINE slot == [step |-> s, text |-> textsText, edits |-> edits]
  <2>2. slot \in TextSlot /\ slot.step = s /\ slot.text = textsText /\ slot.edits = edits
    BY <1>t DEF TextsTyped, TextSlot
  <2> HIDE DEF slot
  <2> QED BY <1>t, <2>1, <2>2, TextMoves DEF slot
<1>w. Texts!Writes
  BY DEF Texts!SaveEdit
<1>v. /\ textsText' \in Nat /\ texts' \in Seq(Nat)
      /\ textsState = "gone" => UNCHANGED <<textsText, texts>>
      /\ textsState # "gone" => texts' = Append(texts, textsText')
  BY <1>t, <1>w, TextWritten DEF TextsTyped
<1>2. /\ UNCHANGED <<textsState, bot, streaming, textsUntrue>>
      /\ UNCHANGED <<textsQueue, reading, indexed>>
  BY DEF Texts!SaveEdit, Texts!index, Texts!row
<1>3. /\ textsState = "gone" \/ Len(edits) = Len(textsRequest[r].edits)
      /\ edits' = Append(edits, textsRequest[r].text) /\ textsRequest[r].text \in Nat
  BY <1>t, <1>1, NoneIsNoValue DEF Texts!SaveEdit, Texts!FreshVersion, TextsTyped, TextSlot,
      Writing
<1>4. TextsTyped'
  BY <1>t, <1>1, <1>2, <1>v, <1>3 DEF TextsTyped, WritesAt
<1>5. \A q \in Requests : q # r => textsRequest'[q] = textsRequest[q]
  BY <1>1 DEF WritesAt
<1>6. textsRequest'[r] = new
  BY <1>1 DEF WritesAt
<1>7. Unwritten'
  BY <1>t, <1>1, <1>2, <1>5, <1>6, <1>v, <1>3 DEF Unwritten, Writing
<1>8. EditsFollow'
  <2> SUFFICES ASSUME ~ bot, textsState \in {"live", "deleted"}
               PROVE  /\ texts' = Append(edits', textsText')
                      /\ \A q \in Requests : Writing(q, "edit")' =>
                           /\ Len(textsRequest'[q].edits) <= Len(edits')
                           /\ Len(textsRequest'[q].edits) = Len(edits')
                                => textsRequest'[q].text = textsText'
    BY <1>2 DEF EditsFollow
  <2>1. textsRequest[r].text = textsText /\ texts = Append(edits, textsText)
    BY <1>t, <1>1, <1>3 DEF EditsFollow
  <2>2. texts' = Append(edits', textsText')
    BY <1>3, <1>v, <2>1
  <2>3. edits \in Seq(Nat) /\ Len(edits') = Len(edits) + 1 /\ Len(edits) \in Nat
    BY <1>t, <1>3 DEF TextsTyped
  <2>4. ASSUME NEW q \in Requests, Writing(q, "edit")'
        PROVE  Len(textsRequest'[q].edits) \in Nat /\ Len(textsRequest'[q].edits) <= Len(edits)
    <3>1. q # r
      BY <1>1, <1>6, <2>4 DEF Writing
    <3>2. Writing(q, "edit") /\ textsRequest'[q] = textsRequest[q]
      BY <1>5, <2>4, <3>1 DEF Writing
    <3>3. textsRequest[q].edits \in Seq(Nat)
      BY <1>t, <3>2 DEF TextsTyped, TextSlot, Writing
    <3> QED BY <1>t, <3>2, <3>3 DEF EditsFollow
  <2> QED BY <2>2, <2>3, <2>4
<1>9. RemovedWhenDeleted'
  BY <1>t, <1>1, <1>2, RemovalsAside DEF Unwritten
<1>10. IndexFollows'
  BY <1>t, <1>1, <1>2, IndexAside DEF Writing
<1> QED BY <1>4, <1>7, <1>8, <1>9, <1>10 DEF TextsInv

LEMMA TextSaveEditFailsKeeps ==
  ASSUME TextsInv, NEW r \in Requests, Texts!SaveEditFails(r)
  PROVE  TextsInv'
<1>t. TextsTyped /\ Unwritten /\ EditsFollow /\ RemovedWhenDeleted /\ IndexFollows
  BY DEF TextsInv
<1> DEFINE new == None
<1>1. Writing(r, "edit") /\ WritesAt(r, new)
  BY <1>t, TextEnds DEF Texts!SaveEditFails, Texts!Doing, Writing
<1>0. new = None
  OBVIOUS
<1> HIDE DEF new
<1>2. /\ UNCHANGED <<textsState, bot, streaming, textsText, edits, texts, textsUntrue>>
      /\ UNCHANGED <<textsQueue, reading, indexed>>
  BY DEF Texts!SaveEditFails, Texts!index, Texts!row
<1>4. TextsTyped'
  BY <1>t, <1>0, <1>1, <1>2 DEF TextsTyped, WritesAt
<1>5. \A q \in Requests : q # r => textsRequest'[q] = textsRequest[q]
  BY <1>1 DEF WritesAt
<1>6. textsRequest'[r] = new
  BY <1>1 DEF WritesAt
<1>7. Unwritten'
  BY <1>t, <1>0, <1>1, <1>2, <1>5, <1>6 DEF Unwritten, Writing
<1>8. EditsFollow'
  BY <1>t, <1>0, <1>1, <1>2, <1>4, <1>5, <1>6 DEF EditsFollow, Unwritten, Writing, TextsTyped
<1>9. RemovedWhenDeleted'
  BY <1>t, <1>0, <1>1, <1>2, RemovalsAside DEF Unwritten
<1>10. IndexFollows'
  BY <1>t, <1>0, <1>1, <1>2, IndexAside DEF Writing
<1> QED BY <1>4, <1>7, <1>8, <1>9, <1>10 DEF TextsInv

LEMMA TextDeleteMessageKeeps ==
  ASSUME TextsInv, NEW r \in Requests, Texts!DeleteMessage(r)
  PROVE  TextsInv'
<1>t. TextsTyped /\ Unwritten /\ EditsFollow /\ RemovedWhenDeleted /\ IndexFollows
  BY DEF TextsInv
<1>1. PICK new \in TextSlot :
        /\ textsRequest[r] = None /\ WritesAt(r, new) /\ new # None
        /\ new.step = "remove" /\ new.text = textsText /\ new.edits = edits
  <2>1. PICK s \in {"remove"} :
          /\ textsRequest[r] = None
          /\ textsRequest' = [textsRequest EXCEPT ![r] = [step |-> s, text |-> textsText, edits |-> edits]]
    BY DEF Texts!DeleteMessage, Texts!Goes, Texts!Doing, Writing
  <2> DEFINE slot == [step |-> s, text |-> textsText, edits |-> edits]
  <2>2. slot \in TextSlot /\ slot.step = s /\ slot.text = textsText /\ slot.edits = edits
    BY <1>t DEF TextsTyped, TextSlot
  <2> HIDE DEF slot
  <2> QED BY <1>t, <2>1, <2>2, TextMoves DEF slot
<1>2. /\ textsState = "live" /\ textsState' = "deleted"
      /\ UNCHANGED <<bot, streaming, textsText, edits, texts, textsUntrue>>
      /\ UNCHANGED <<textsQueue, reading, indexed>>
  BY DEF Texts!DeleteMessage, Texts!index, Texts!row
<1>4. TextsTyped'
  BY <1>t, <1>1, <1>2 DEF TextsTyped, WritesAt
<1>5. \A q \in Requests : q # r => textsRequest'[q] = textsRequest[q]
  BY <1>1 DEF WritesAt
<1>6. textsRequest'[r] = new
  BY <1>1 DEF WritesAt
<1>7. Unwritten'
  BY <1>t, <1>1, <1>2, <1>5, <1>6 DEF Unwritten, Writing
<1>8. EditsFollow'
  BY <1>t, <1>1, <1>2, <1>4, <1>5, <1>6 DEF EditsFollow, Unwritten, Writing, TextsTyped
<1>9. RemovedWhenDeleted'
  BY <1>t, <1>1, <1>2, RemovalsAside DEF Unwritten
<1>10. IndexFollows'
  BY <1>t, <1>1, <1>2, IndexAside DEF Writing
<1> QED BY <1>4, <1>7, <1>8, <1>9, <1>10 DEF TextsInv

LEMMA TextPostsKeep ==
  ASSUME TextsInv, Texts!PostPrivateSystem \/ \E r \in Requests : Texts!PostAsUser(r)
  PROVE  TextsInv'
<1>1. CASE \E r \in Requests : ~ bot /\ Texts!CreateMessage(r)
  BY <1>1, TextCreateMessageKeeps
<1>2. CASE /\ ~ bot /\ textsState = "none" /\ textsState' = "live" /\ Texts!Writes
           /\ textsUntrue' = TRUE
           /\ UNCHANGED <<bot, streaming, edits, textsRequest, Texts!index>>
  <2>t. TextsTyped /\ Unwritten /\ EditsFollow /\ RemovedWhenDeleted /\ IndexFollows
    BY DEF TextsInv
  <2>1. /\ textsText' \in Nat /\ texts' \in Seq(Nat) /\ texts' = Append(texts, textsText')
    BY <1>2, <2>t, TextWritten
  <2>2. UNCHANGED <<bot, streaming, edits, textsRequest, textsQueue, reading, indexed>>
    BY <1>2 DEF Texts!index
  <2>3. TextsTyped'
    BY <1>2, <2>t, <2>1, <2>2 DEF TextsTyped
  <2>4. Unwritten' /\ EditsFollow'
    BY <1>2, <2>t, <2>1, <2>2 DEF Unwritten, EditsFollow, Writing
  <2>5. RemovedWhenDeleted'
    BY <1>2, <2>t, <2>2 DEF RemovedWhenDeleted, Writing
  <2>6. IndexFollows'
    BY <1>2 DEF IndexFollows
  <2> QED BY <2>3, <2>4, <2>5, <2>6 DEF TextsInv
<1> QED BY <1>1, <1>2 DEF Texts!PostPrivateSystem, Texts!PostAsUser

LEMMA TextStartStreamKeeps ==
  ASSUME TextsInv, Texts!StartStream
  PROVE  TextsInv'
<1>t. TextsTyped /\ Unwritten /\ EditsFollow /\ RemovedWhenDeleted /\ IndexFollows
  BY DEF TextsInv
<1>1. /\ textsText' \in Nat /\ texts' \in Seq(Nat)
  BY <1>t, TextWritten DEF Texts!StartStream
<1>2. /\ UNCHANGED <<bot, edits, textsRequest, textsQueue, reading, indexed>>
      /\ bot /\ textsState = "none" /\ textsState' = "live" /\ streaming' = TRUE
  BY DEF Texts!StartStream, Texts!index
<1>3. TextsTyped'
  BY <1>t, <1>1, <1>2 DEF TextsTyped
<1>4. Unwritten' /\ EditsFollow' /\ IndexFollows'
  BY <1>t, <1>2 DEF Unwritten, EditsFollow, IndexFollows, Writing
<1>5. RemovedWhenDeleted'
  BY <1>t, <1>2 DEF RemovedWhenDeleted, Writing
<1> QED BY <1>3, <1>4, <1>5 DEF TextsInv

LEMMA TextRetentionKeeps ==
  ASSUME TextsInv, Texts!ApplyRetention
  PROVE  TextsInv'
<1>t. TextsTyped /\ Unwritten /\ EditsFollow /\ RemovedWhenDeleted /\ IndexFollows
  BY DEF TextsInv
<1>1. /\ UNCHANGED <<bot, streaming, textsText, texts, textsRequest, textsQueue, reading, indexed>>
      /\ textsState' = "gone" /\ edits' = <<>>
  BY DEF Texts!ApplyRetention, Texts!index
<1>2. TextsTyped'
  BY <1>t, <1>1 DEF TextsTyped
<1>3. Unwritten' /\ EditsFollow' /\ IndexFollows'
  BY <1>t, <1>1 DEF Unwritten, EditsFollow, IndexFollows, Writing
<1>4. RemovedWhenDeleted'
  BY <1>1 DEF RemovedWhenDeleted
<1> QED BY <1>2, <1>3, <1>4 DEF TextsInv

\* A bot's message is rewritten when a button is pressed.
LEMMA TextInteractionKeeps ==
  ASSUME TextsInv, NEW r \in Requests, Texts!InteractionUpdateMessage(r)
  PROVE  TextsInv'
<1>t. TextsTyped /\ Unwritten /\ EditsFollow /\ RemovedWhenDeleted /\ IndexFollows
  BY DEF TextsInv
<1>1. PICK new \in TextSlot :
        /\ WritesAt(r, new) /\ new # None /\ new.step \in {"update", "index"}
        /\ new.step = "update" => textsState = "live" /\ UNCHANGED <<textsText, texts>>
        /\ new.step = "index" => Texts!Writes
        /\ textsRequest[r] = None \/ Writing(r, "update")
        /\ textsRequest[r] = None => new.step = "update"
  <2>1. PICK s \in {"update", "index"} :
          /\ textsRequest' = [textsRequest EXCEPT ![r] = [step |-> s, text |-> textsText, edits |-> edits]]
          /\ s = "update" => textsState = "live" /\ UNCHANGED <<textsText, texts>>
          /\ s = "index" => Texts!Writes
          /\ textsRequest[r] = None \/ Writing(r, "update")
          /\ textsRequest[r] = None => s = "update"
    BY DEF Texts!InteractionUpdateMessage, Texts!Goes, Texts!Doing, Writing
  <2> DEFINE slot == [step |-> s, text |-> textsText, edits |-> edits]
  <2>2. slot \in TextSlot /\ slot.step = s
    BY <1>t DEF TextsTyped, TextSlot
  <2> HIDE DEF slot
  <2> QED BY <1>t, <2>1, <2>2, TextMoves DEF slot
<1>2. /\ UNCHANGED <<textsState, bot, streaming, edits, textsUntrue, textsQueue, reading, indexed>>
      /\ bot
  BY DEF Texts!InteractionUpdateMessage, Texts!index
<1>3. /\ textsText' \in Nat /\ texts' \in Seq(Nat)
  BY <1>t, <1>1, TextWritten DEF TextsTyped
<1>4. TextsTyped'
  BY <1>t, <1>1, <1>2, <1>3 DEF TextsTyped, WritesAt
<1>5. textsState # "none"
  BY <1>t, <1>1 DEF Unwritten, Writing
<1>6. Unwritten' /\ EditsFollow'
  BY <1>2, <1>5 DEF Unwritten, EditsFollow
<1>7. RemovedWhenDeleted'
  BY <1>t, <1>1, <1>2, RemovalsAside
<1>8. IndexFollows'
  <2>1. ~ Writing(r, "index")
    BY <1>1 DEF Writing
  <2>2. new.step = "index" \/ UNCHANGED textsText
    BY <1>1
  <2> QED BY <1>t, <1>1, <1>2, <2>1, <2>2, IndexAside
<1> QED BY <1>4, <1>6, <1>7, <1>8 DEF TextsInv

LEMMA Appended ==
  ASSUME NEW s \in Seq(BOOLEAN), NEW x \in BOOLEAN
  PROVE  /\ Append(s, x) \in Seq(BOOLEAN)
         /\ Waits(Append(s, x)) <=> Waits(s) \/ x = FALSE
         /\ Removes(Append(s, x)) <=> Removes(s) \/ x = TRUE
<1>1. /\ Append(s, x) \in Seq(BOOLEAN) /\ Len(Append(s, x)) = Len(s) + 1 /\ Len(s) \in Nat
      /\ \A i \in 1 .. Len(s) : Append(s, x)[i] = s[i]
      /\ Append(s, x)[Len(s) + 1] = x
  OBVIOUS
<1>2. 1 .. Len(s) + 1 = 1 .. Len(s) \cup {Len(s) + 1}
  BY <1>1
<1> QED BY <1>1, <1>2 DEF Waits, Removes

LEMMA Popped ==
  ASSUME NEW s \in Seq(BOOLEAN), s # <<>>
  PROVE  /\ Head(s) \in BOOLEAN /\ Tail(s) \in Seq(BOOLEAN)
         /\ Waits(s) => Waits(Tail(s)) \/ Head(s) = FALSE
         /\ Removes(Tail(s)) => Removes(s)
         /\ Head(s) = TRUE => Removes(s)
<1>1. /\ Head(s) = s[1] /\ Head(s) \in BOOLEAN /\ Tail(s) \in Seq(BOOLEAN)
      /\ Len(s) \in Nat /\ Len(s) >= 1 /\ Len(Tail(s)) = Len(s) - 1
      /\ \A i \in 1 .. Len(s) - 1 : Tail(s)[i] = s[i + 1]
  OBVIOUS
<1>2. ASSUME NEW i \in 1 .. Len(s), i # 1
      PROVE  i - 1 \in 1 .. Len(s) - 1 /\ Tail(s)[i - 1] = s[i]
  <2>1. i - 1 \in 1 .. Len(s) - 1 /\ (i - 1) + 1 = i
    BY <1>1, <1>2
  <2>2. Tail(s)[i - 1] = s[(i - 1) + 1]
    BY <1>1, <2>1
  <2> QED BY <2>1, <2>2
<1>3. \A i \in 1 .. Len(Tail(s)) : i + 1 \in 1 .. Len(s)
  BY <1>1
<1>4. Waits(s) => Waits(Tail(s)) \/ Head(s) = FALSE
  BY <1>1, <1>2 DEF Waits
<1>5. Removes(Tail(s)) => Removes(s)
  BY <1>1, <1>3 DEF Removes
<1>6. Head(s) = TRUE => Removes(s)
  <2>1. 1 \in 1 .. Len(s) /\ Head(s) = s[1]
    BY <1>1
  <2> QED BY <2>1, Zenon DEF Removes
<1> QED BY <1>1, <1>4, <1>5, <1>6

\* What the workers will do is in the queues and in what they read.
LEMMA TextEnqueueKeeps ==
  ASSUME TextsInv, NEW r \in Requests, Texts!Enqueue(r)
  PROVE  TextsInv'
<1>t. TextsTyped /\ Unwritten /\ EditsFollow /\ RemovedWhenDeleted /\ IndexFollows
  BY DEF TextsInv
<1>1. /\ Writing(r, "index") \/ Writing(r, "remove")
      /\ WritesAt(r, None) /\ UNCHANGED <<textsState, bot, streaming, textsText, edits, texts, reading, indexed>>
  BY <1>t, TextEnds DEF Texts!Enqueue, Texts!Doing, Writing, Texts!row
<1>2. /\ \A q \in Requests : q # r => textsRequest'[q] = textsRequest[q]
      /\ textsRequest'[r] = None
  BY <1>1 DEF WritesAt
<1>3. Unwritten' /\ EditsFollow'
  BY <1>t, <1>1, <1>2 DEF Unwritten, EditsFollow, Writing
<1>4. CASE textsUntrue' /\ textsQueue' = textsQueue
  <2>1. TextsTyped' /\ IndexFollows'
    BY <1>t, <1>1, <1>4 DEF TextsTyped, IndexFollows, WritesAt
  <2>2. RemovedWhenDeleted'
    BY <1>t, <1>1, <1>2, <1>4 DEF RemovedWhenDeleted, Writing
  <2> QED BY <1>3, <2>1, <2>2 DEF TextsInv
<1>5. ASSUME NEW w \in Workers, NEW x \in BOOLEAN, textsUntrue' <=> textsUntrue,
             textsQueue' = [textsQueue EXCEPT ![w] = Append(@, x)],
             x = FALSE => Writing(r, "index"), x = TRUE => Writing(r, "remove")
      PROVE  TextsInv'
  <2>1. textsQueue[w] \in Seq(BOOLEAN)
    BY <1>t DEF TextsTyped
  <2>2. /\ textsQueue' \in [Workers -> Seq(BOOLEAN)]
        /\ textsQueue'[w] = Append(textsQueue[w], x)
        /\ \A v \in Workers \ {w} : textsQueue'[v] = textsQueue[v]
    BY <1>t, <1>5, <2>1, Appended DEF TextsTyped
  <2>3. /\ \A v \in Workers : Waits(textsQueue[v]) => Waits(textsQueue'[v])
        /\ x = FALSE => Waits(textsQueue'[w])
        /\ \A v \in Workers : Removes(textsQueue'[v]) => Removes(textsQueue[v]) \/ x = TRUE
    BY <2>1, <2>2, Appended
  <2>4. TextsTyped'
    BY <1>t, <1>1, <2>2 DEF TextsTyped, WritesAt
  <2>5. RemovedWhenDeleted'
    BY <1>t, <1>1, <1>2, <1>5, <2>3 DEF RemovedWhenDeleted, Writing
  <2>6. \A q \in Requests : Writing(q, "index") => Writing(q, "index")' \/ q = r
    BY <1>2 DEF Writing
  <2>7. Writing(r, "index") => x = FALSE
    BY <1>5 DEF Writing
  <2>8. IndexFollows'
    BY <1>t, <1>1, <1>5, <2>3, <2>6, <2>7 DEF IndexFollows, OnItsWay
  <2> QED BY <1>3, <2>4, <2>5, <2>8 DEF TextsInv
<1>6. ASSUME NEW op, op = (textsRequest[r].step = "remove")
      PROVE  \E w \in Workers :
               \/ textsUntrue' /\ textsQueue' = textsQueue
               \/ /\ textsUntrue' <=> textsUntrue
                  /\ textsQueue' = [textsQueue EXCEPT ![w] = Append(@, op)]
  <2>1. PICK w \in Workers \ {Backfill} :
          /\ textsUntrue' = (textsUntrue \/ Len(textsQueue[w]) = QueueSize)
          /\ textsQueue' = IF Len(textsQueue[w]) = QueueSize THEN textsQueue
                           ELSE [textsQueue EXCEPT ![w] = Append(@, op)]
    BY <1>1, <1>6, Zenon DEF Texts!Enqueue, Texts!Queues, Texts!Doing, Writing
  <2>2. CASE Len(textsQueue[w]) = QueueSize
    BY <2>1, <2>2
  <2>3. CASE Len(textsQueue[w]) # QueueSize
    BY <2>1, <2>3
  <2> QED BY <2>2, <2>3
<1>7. CASE Writing(r, "index")
  <2>1. (textsRequest[r].step = "remove") = FALSE
    BY <1>7 DEF Writing
  <2>2. FALSE # TRUE
    OBVIOUS
  <2> QED BY <1>4, <1>5, <1>6, <1>7, <2>1, <2>2
<1>8. CASE Writing(r, "remove")
  <2>1. (textsRequest[r].step = "remove") = TRUE
    BY <1>8 DEF Writing
  <2>2. FALSE # TRUE
    OBVIOUS
  <2> QED BY <1>4, <1>5, <1>6, <1>8, <2>1, <2>2
<1> QED BY <1>1, <1>7, <1>8

\* What the worker w puts there crosses what the others have read.
LEMMA TextPuts ==
  ASSUME TextsTyped, NEW w \in Workers, NEW t, Texts!Put(w, t)
  PROVE  /\ indexed' = t /\ reading' \in [Workers -> Reading \cup {None}] /\ reading'[w] = None
         /\ \A v \in Workers \ {w} :
              /\ reading[v] = None => reading'[v] = None
              /\ reading[v] # None => /\ reading'[v] # None /\ reading'[v].crossed
                                      /\ reading'[v].text = reading[v].text
<1>1. /\ indexed' = t
      /\ reading' = [v \in Workers |->
           IF v = w \/ reading[v] = None THEN IF v = w THEN None ELSE reading[v]
           ELSE [reading[v] EXCEPT !.crossed = TRUE]]
  BY DEF Texts!Put
<1>2. ASSUME NEW v \in Workers, reading[v] # None
      PROVE  /\ [reading[v] EXCEPT !.crossed = TRUE] \in Reading
             /\ [reading[v] EXCEPT !.crossed = TRUE].crossed = TRUE
             /\ [reading[v] EXCEPT !.crossed = TRUE].text = reading[v].text
  <2>1. reading[v] \in Reading
    BY <1>2 DEF TextsTyped
  <2> QED BY <2>1 DEF Reading
<1>3. \A v \in Workers : reading[v] \in Reading \cup {None}
  BY DEF TextsTyped
<1> QED BY <1>1, <1>2, <1>3, NoneIsNoValue

LEMMA TextIndexOneKeeps ==
  ASSUME TextsInv, NEW w \in Workers, Texts!IndexOne(w)
  PROVE  TextsInv'
<1>t. TextsTyped /\ Unwritten /\ EditsFollow /\ RemovedWhenDeleted /\ IndexFollows
  BY DEF TextsInv
<1>1. /\ textsQueue[w] # <<>> /\ reading[w] = None
      /\ textsQueue' = [textsQueue EXCEPT ![w] = Tail(@)]
      /\ UNCHANGED <<textsState, bot, streaming, textsText, edits, texts, textsRequest, textsUntrue>>
  BY DEF Texts!IndexOne, Texts!row
<1>2. textsQueue[w] \in Seq(BOOLEAN)
  BY <1>t DEF TextsTyped
<1>3. /\ textsQueue' \in [Workers -> Seq(BOOLEAN)] /\ textsQueue'[w] = Tail(textsQueue[w])
      /\ \A v \in Workers \ {w} : textsQueue'[v] = textsQueue[v]
  BY <1>t, <1>1, <1>2, Popped DEF TextsTyped
<1>4. /\ \A v \in Workers : Removes(textsQueue'[v]) => Removes(textsQueue[v])
      /\ \A v \in Workers : Waits(textsQueue[v]) =>
           Waits(textsQueue'[v]) \/ (v = w /\ Head(textsQueue[w]) = FALSE)
      /\ Head(textsQueue[w]) = TRUE => Removes(textsQueue[w])
      /\ Head(textsQueue[w]) \in BOOLEAN
  BY <1>1, <1>2, <1>3, Popped
<1>5. Unwritten' /\ EditsFollow'
  BY <1>t, <1>1 DEF Unwritten, EditsFollow, Writing
<1>6. RemovedWhenDeleted'
  BY <1>t, <1>1, <1>4 DEF RemovedWhenDeleted, Writing
<1>7. CASE Head(textsQueue[w]) = TRUE
  <2>1. textsState # "live"
    BY <1>t, <1>4, <1>7 DEF RemovedWhenDeleted
  <2>2. reading' \in [Workers -> Reading \cup {None}]
    BY <1>t, <1>7, TextPuts DEF Texts!IndexOne
  <2>3. TextsTyped' /\ IndexFollows'
    BY <1>t, <1>1, <1>3, <2>1, <2>2 DEF TextsTyped, IndexFollows
  <2> QED BY <1>5, <1>6, <2>3 DEF TextsInv
<1>8. CASE Head(textsQueue[w]) = FALSE
  <2>1. /\ indexed' = indexed
        /\ reading' = [reading EXCEPT
             ![w] = IF textsState = "live" THEN [text |-> textsText, crossed |-> FALSE] ELSE None]
    BY <1>8 DEF Texts!IndexOne
  <2>2. /\ [text |-> textsText, crossed |-> FALSE] \in Reading
        /\ [text |-> textsText, crossed |-> FALSE] # None
    <3>1. [text |-> textsText, crossed |-> FALSE] \in Reading
      BY <1>t DEF TextsTyped, Reading
    <3> QED BY <3>1, NoneIsNoValue
  <2>3. /\ reading' \in [Workers -> Reading \cup {None}]
        /\ textsState = "live" => reading'[w] # None /\ reading'[w].text = textsText
    BY <1>t, <2>1, <2>2 DEF TextsTyped
  <2>4. TextsTyped'
    BY <1>t, <1>1, <1>3, <2>3 DEF TextsTyped
  <2>5. IndexFollows'
    BY <1>1, <2>3 DEF IndexFollows, OnItsWay
  <2> QED BY <1>5, <1>6, <2>4, <2>5 DEF TextsInv
<1> QED BY <1>4, <1>7, <1>8

LEMMA TextRebuildKeeps ==
  ASSUME TextsInv, Texts!RebuildSearchBigrams
  PROVE  TextsInv'
<1>t. TextsTyped /\ Unwritten /\ EditsFollow /\ RemovedWhenDeleted /\ IndexFollows
  BY DEF TextsInv
<1>1. /\ textsState = "live"
      /\ reading' = [reading EXCEPT ![Backfill] = [text |-> textsText, crossed |-> FALSE]]
      /\ UNCHANGED <<textsState, bot, streaming, textsText, edits, texts, textsRequest, textsQueue, indexed,
                     textsUntrue>>
  BY DEF Texts!RebuildSearchBigrams, Texts!row
<1>2. /\ [text |-> textsText, crossed |-> FALSE] \in Reading
      /\ [text |-> textsText, crossed |-> FALSE] # None
  <2>1. [text |-> textsText, crossed |-> FALSE] \in Reading
    BY <1>t DEF TextsTyped, Reading
  <2> QED BY <2>1, NoneIsNoValue
<1>3. /\ reading' \in [Workers -> Reading \cup {None}]
      /\ reading'[Backfill] # None /\ reading'[Backfill].text = textsText
  BY <1>t, <1>1, <1>2, BackfillIsAWorker DEF TextsTyped
<1>4. TextsTyped' /\ Unwritten' /\ EditsFollow'
  BY <1>t, <1>1, <1>3 DEF TextsTyped, Unwritten, EditsFollow, Writing
<1>5. RemovedWhenDeleted'
  BY <1>t, <1>1 DEF RemovedWhenDeleted, Writing
<1>6. IndexFollows'
  BY <1>1, <1>3, BackfillIsAWorker DEF IndexFollows, OnItsWay
<1> QED BY <1>4, <1>5, <1>6 DEF TextsInv

LEMMA TextWorkerKeeps ==
  ASSUME TextsInv, NEW w \in Workers, Texts!Worker(w)
  PROVE  TextsInv'
<1>t. TextsTyped /\ Unwritten /\ EditsFollow /\ RemovedWhenDeleted /\ IndexFollows
  BY DEF TextsInv
<1>1. /\ reading[w] # None /\ (reading[w].crossed => textsUntrue') /\ (textsUntrue => textsUntrue')
      /\ UNCHANGED <<textsState, bot, streaming, textsText, edits, texts, textsRequest, textsQueue>>
  BY DEF Texts!Worker, Texts!row
<1> DEFINE t == IF textsState = "live" THEN reading[w].text ELSE indexed
<1>2. /\ indexed' = t /\ reading' \in [Workers -> Reading \cup {None}] /\ reading'[w] = None
      /\ \A v \in Workers \ {w} :
           /\ reading[v] = None => reading'[v] = None
           /\ reading[v] # None => /\ reading'[v] # None /\ reading'[v].crossed
                                   /\ reading'[v].text = reading[v].text
  <2>1. Texts!Put(w, t)
    BY DEF Texts!Worker
  <2> HIDE DEF t
  <2> QED BY <1>t, <2>1, TextPuts
<1>3. TextsTyped' /\ Unwritten' /\ EditsFollow'
  BY <1>t, <1>1, <1>2 DEF TextsTyped, Unwritten, EditsFollow, Writing
<1>4. RemovedWhenDeleted'
  BY <1>t, <1>1 DEF RemovedWhenDeleted, Writing
<1>5. IndexFollows'
  <2> SUFFICES ASSUME textsState = "live", ~ streaming, ~ textsUntrue', ~ OnItsWay'
               PROVE  indexed' = textsText /\ \A v \in Workers : reading'[v] # None => reading'[v].crossed
    BY <1>1 DEF IndexFollows
  <2>1. /\ \A r \in Requests : ~ Writing(r, "index")
        /\ \A v \in Workers : ~ Waits(textsQueue[v])
        /\ \A v \in Workers \ {w} : reading[v] # None => reading[v].text # textsText
    BY <1>1, <1>2 DEF OnItsWay, Writing
  <2>2. ~ textsUntrue /\ ~ reading[w].crossed
    BY <1>1
  <2>3. reading[w].text = textsText
    BY <1>t, <1>1, <2>1, <2>2 DEF IndexFollows, OnItsWay
  <2> QED BY <1>2, <2>3
<1> QED BY <1>3, <1>4, <1>5 DEF TextsInv

LEMMA TextsNext == TextsInv /\ [Next]_vars => TextsInv'
<1> SUFFICES ASSUME TextsInv, [Next]_vars PROVE TextsInv'
  OBVIOUS
<1>1. CASE Texts!Next
  BY <1>1, TextPostsKeep, TextStartStreamKeeps, TextRetentionKeeps, TextRebuildKeeps,
      TextCreateMessageKeeps, TextStreamingMessageAccessKeeps, TextAppendStreamKeeps,
      TextEndStreamKeeps, TextGcStaleStreamsKeeps, TextEditMessageKeeps, TextSaveEditKeeps,
      TextSaveEditFailsKeeps, TextInteractionKeeps, TextDeleteMessageKeeps, TextEnqueueKeeps,
      TextIndexOneKeeps, TextWorkerKeeps
     DEF Texts!Next
<1>2. CASE UNCHANGED textsVars
  BY <1>2 DEF textsVars, TextsInv, TextsTyped, Unwritten, EditsFollow, RemovedWhenDeleted,
      IndexFollows, OnItsWay, Writing
<1> QED BY <1>1, <1>2 DEF Next, vars

(* Two edits of one message lose no text of its history; and once queues   *)
(* and workers are done the index holds the text, unless it was never      *)
(* queued or two workers wrote in the opposite order of their reads.       *)
THEOREM TextsHold == Spec => []TextsAreTrue
<1>1. TextsInv => Texts!TextsKept
  BY DEF TextsInv, EditsFollow, Texts!TextsKept
<1>2. TextsInv => Texts!IndexFollowsText
  <2> SUFFICES ASSUME TextsInv, textsState = "live", ~ streaming, ~ textsUntrue,
                      \A r \in Requests : textsRequest[r] = None,
                      \A w \in Workers : textsQueue[w] = <<>> /\ reading[w] = None
               PROVE  indexed = textsText
    BY DEF Texts!IndexFollowsText
  <2>1. ~ OnItsWay
    BY DEF OnItsWay, Writing, Waits
  <2> QED BY <2>1 DEF TextsInv, IndexFollows
<1> QED BY <1>1, <1>2, TextsInit, TextsNext, PTL DEF Spec, TextsAreTrue

-----------------------------------------------------------------------------
(* Who sees one message. *)

Doing(r, step) == sightRequest[r] # None /\ sightRequest[r].step = step
Editing(r) == Doing(r, "edit") \/ Doing(r, "update")
Marking(r) == Doing(r, "react") \/ Doing(r, "reaction")
Telling(r) == Doing(r, "create") \/ Doing(r, "delete")

\* A handler that has written the row and is yet to publish.
Publishes(r) == Doing(r, "update") \/ Doing(r, "reaction") \/ Telling(r)

Sees(u, v) == Sight!EphemeralVisibleTo(u) /\ Sight!CanViewMessage(u, v)
Claimed    == Users \ (moved \cup overlooked)

SightTyped ==
  /\ holders \subseteq Users /\ to \subseteq Users /\ visible \in Sight!Visibilities
  /\ sightState \in {"none", "live", "deleted"}
  /\ sightText \in Nat /\ (sightState # "none" => sightText # 0)
  /\ mark \in BOOLEAN /\ copy \in [Users -> Nat] /\ marks \subseteq Users
  /\ sightRequest \in [Requests -> SightSlot \cup {None}]
  /\ \A r \in Requests : /\ Editing(r) => sightRequest[r] \in EditSlot
                         /\ Marking(r) => sightRequest[r] \in MarkSlot
                         /\ Telling(r) => sightRequest[r] \in ToldSlot

Unsent ==
  sightState = "none" =>
    /\ \A r \in Requests : sightRequest[r] = None
    /\ \A u \in Users : copy[u] = 0
    /\ marks = {} /\ moved = {} /\ overlooked = {}

\* A message with addressees is restricted no further.
Addressed ==
  to # {} => /\ visible = Sight!Public
             /\ \A r \in Requests : Editing(r) => sightRequest[r].visible = sightRequest[r].read

MarkedShow == \A u \in marks : copy[u] # 0

OneWrites == \A r, q \in Requests : Publishes(r) /\ Publishes(q) => r = q

\* What a handler has read and written is still so.
EditsAgree ==
  \A r \in Requests : Editing(r) =>
    /\ sightState = "live" /\ sightRequest[r].old = Sight!ResolveAudience(sightRequest[r].read)
    /\ Doing(r, "edit") => sightRequest[r].read = visible /\ sightRequest[r].text = sightText
    /\ Doing(r, "update") =>
         /\ sightRequest[r].visible = visible
         /\ sightText = IF sightRequest[r].content THEN sightRequest[r].text + 1
                        ELSE sightRequest[r].text

SlotsAgree ==
  \A r \in Requests :
    /\ Doing(r, "create") => sightState = "live" /\ sightText = 1
    /\ Doing(r, "delete") => sightState = "deleted"
    /\ Marking(r) => sightState = "live"
    /\ Doing(r, "reaction") => mark = sightRequest[r].on
    /\ Marking(r) \/ Telling(r) => sightRequest[r].visible = visible

\* A client shows what is so, or what was so before the write that is yet to
\* be published.
Due(u) == IF sightState = "live" /\ Sees(u, visible) THEN sightText ELSE 0

Before(r, u) ==
  \/ Doing(r, "create") /\ copy[u] = 0
  \/ Doing(r, "update") /\ copy[u] = IF Sees(u, sightRequest[r].read) THEN sightRequest[r].text ELSE 0
  \/ Doing(r, "delete") /\ copy[u] = IF Sees(u, visible) THEN sightText ELSE 0

CopiesFollow == \A u \in Claimed : copy[u] = Due(u) \/ \E r \in Requests : Before(r, u)

MarksFollow ==
  \/ \E r \in Requests : Doing(r, "reaction")
  \/ \A u \in Claimed : copy[u] # 0 => (u \in marks <=> mark)

SightInv ==
  /\ SightTyped /\ Unsent /\ Addressed /\ MarkedShow
  /\ ~ sightCrossed => OneWrites /\ EditsAgree /\ SlotsAgree /\ CopiesFollow /\ MarksFollow

LEMMA SightInit == Init => SightInv
<1> SUFFICES ASSUME Init PROVE SightInv
  OBVIOUS
<1>1. /\ sightState = "none" /\ to = {} /\ visible = Sight!Public /\ sightText = 0 /\ mark = FALSE
      /\ sightRequest = [r \in Requests |-> None] /\ copy = [u \in Users |-> 0] /\ marks = {}
      /\ ~ sightCrossed /\ moved = {} /\ overlooked = {} /\ holders \subseteq Users
  BY DEF Init, Sight!Init, Sight!Others
<1>2. Sight!Public \in Sight!Visibilities
  BY DEF Sight!Public, Sight!Visibilities
<1>3. \A r \in Requests : sightRequest[r] = None
  BY <1>1
<1>4. SightTyped /\ Unsent /\ Addressed /\ MarkedShow
  BY <1>1, <1>2, <1>3 DEF SightTyped, Unsent, Addressed, MarkedShow, Editing, Marking, Telling, Doing
<1>5. OneWrites /\ EditsAgree /\ SlotsAgree
  BY <1>3 DEF OneWrites, EditsAgree, SlotsAgree, Publishes, Editing, Marking, Telling, Doing
<1>6. CopiesFollow /\ MarksFollow
  BY <1>1 DEF CopiesFollow, MarksFollow, Due, Claimed
<1> QED BY <1>4, <1>5, <1>6 DEF SightInv

\* Handlers are seven, by what they do next.
LEMMA SightSteps ==
  ASSUME SightTyped, NEW r \in Requests, sightRequest[r] # None
  PROVE  Editing(r) \/ Marking(r) \/ Telling(r)
<1>1. sightRequest[r] \in EditSlot \/ sightRequest[r] \in MarkSlot \/ sightRequest[r] \in ToldSlot
  BY DEF SightTyped, SightSlot
<1> QED BY <1>1 DEF Editing, Marking, Telling, Doing, EditSlot, MarkSlot, ToldSlot

LEMMA SightMoves ==
  ASSUME SightTyped, NEW r \in Requests, NEW new \in SightSlot \cup {None},
         sightRequest' = [sightRequest EXCEPT ![r] = new],
         new # None => new \in EditSlot \/ new \in MarkSlot \/ new \in ToldSlot
  PROVE  /\ sightRequest' \in [Requests -> SightSlot \cup {None}]
         /\ \A q \in Requests \ {r} : sightRequest'[q] = sightRequest[q]
         /\ sightRequest'[r] = new
         /\ \A q \in Requests : /\ Editing(q)' => sightRequest'[q] \in EditSlot
                                /\ Marking(q)' => sightRequest'[q] \in MarkSlot
                                /\ Telling(q)' => sightRequest'[q] \in ToldSlot
<1>1. /\ sightRequest' \in [Requests -> SightSlot \cup {None}]
      /\ \A q \in Requests \ {r} : sightRequest'[q] = sightRequest[q]
      /\ sightRequest'[r] = new
  BY DEF SightTyped
<1>2. ASSUME NEW q \in Requests
      PROVE  /\ Editing(q)' => sightRequest'[q] \in EditSlot
             /\ Marking(q)' => sightRequest'[q] \in MarkSlot
             /\ Telling(q)' => sightRequest'[q] \in ToldSlot
  <2>1. CASE q = r
    BY <1>1, <2>1 DEF Editing, Marking, Telling, Doing, EditSlot, MarkSlot, ToldSlot
  <2>2. CASE q # r
    BY <1>1, <2>2 DEF SightTyped, Editing, Marking, Telling, Doing
  <2> QED BY <2>1, <2>2
<1> QED BY <1>1, <1>2

\* A handler that ends.
LEMMA SightEnds ==
  ASSUME SightTyped, NEW r \in Requests, Sight!Ends(r)
  PROVE  /\ sightRequest' \in [Requests -> SightSlot \cup {None}]
         /\ \A q \in Requests \ {r} : sightRequest'[q] = sightRequest[q]
         /\ sightRequest'[r] = None
         /\ \A q \in Requests : /\ Editing(q)' => sightRequest'[q] \in EditSlot
                                /\ Marking(q)' => sightRequest'[q] \in MarkSlot
                                /\ Telling(q)' => sightRequest'[q] \in ToldSlot
<1>1. sightRequest' = [sightRequest EXCEPT ![r] = None] /\ None \in SightSlot \cup {None}
  BY DEF Sight!Ends
<1> QED BY <1>1, SightMoves

\* Who is sent an event about a message is who sees it.
LEMMA RecipientsSee ==
  ASSUME SightTyped, NEW v, to # {} => v = Sight!Public, NEW u \in Users
  PROVE  /\ u \in Sight!Recipients(v) <=> Sees(u, v)
         /\ Sight!Recipients(v) \subseteq Users
BY AuthorIsAUser DEF SightTyped, Sight!Recipients, Sight!EphemeralTargets, Sight!ResolveAudience, Sees,
       Sight!EphemeralVisibleTo, Sight!CanViewMessage, Sight!IsMessageRestricted

\* What clients make of the events a handler sends.
LEMMA Showing ==
  ASSUME SightTyped, NEW c, NEW up, NEW d, NEW t \in Nat, Sight!Shown(c, up, d, t),
         c \subseteq Users, up \subseteq Users
  PROVE  /\ copy' \in [Users -> Nat] /\ marks' \subseteq Users
         /\ \A u \in Users :
              /\ u \in d => copy'[u] = 0
              /\ u \notin d /\ (u \in c \/ (u \in up /\ copy[u] # 0)) => copy'[u] = t
              /\ u \notin d /\ u \notin c /\ (u \in up => copy[u] = 0) => copy'[u] = copy[u]
         /\ MarkedShow /\ (t # 0 \/ (c = {} /\ up = {})) => MarkedShow'
         /\ \A u \in Users : (copy[u] # 0 => (u \in marks <=> mark)) =>
                               (copy'[u] # 0 => (u \in marks' <=> mark))
<1> DEFINE sent == (c \cup {u \in up : copy[u] # 0}) \ d
<1>1. /\ copy' = [u \in Users |-> IF u \in d THEN 0 ELSE IF u \in sent THEN t ELSE copy[u]]
      /\ marks' = IF mark THEN (marks \cup sent) \ d ELSE marks \ (sent \cup d)
      /\ sent \subseteq Users /\ marks \subseteq Users /\ copy \in [Users -> Nat]
  BY DEF Sight!Shown, SightTyped
<1>2. \A u \in Users : u \in sent <=> u \notin d /\ (u \in c \/ (u \in up /\ copy[u] # 0))
  OBVIOUS
<1>3. c = {} /\ up = {} => sent = {}
  OBVIOUS
<1> HIDE DEF sent
<1>4. copy' \in [Users -> Nat] /\ marks' \subseteq Users
  BY <1>1
<1>5. \A u \in Users : copy'[u] = IF u \in d THEN 0 ELSE IF u \in sent THEN t ELSE copy[u]
  BY <1>1
<1>6. \A u \in Users : u \in marks' <=>
        u \notin d /\ (IF u \in sent THEN mark ELSE u \in marks)
  <2>1. CASE mark
    BY <1>1, <1>2, <2>1
  <2>2. CASE ~ mark
    BY <1>1, <1>2, <2>2
  <2> QED BY <2>1, <2>2
<1>7. ASSUME MarkedShow, t # 0 \/ (c = {} /\ up = {}) PROVE MarkedShow'
  BY <1>1, <1>3, <1>4, <1>5, <1>6, <1>7 DEF MarkedShow
<1>8. \A u \in Users : (copy[u] # 0 => (u \in marks <=> mark)) =>
                         (copy'[u] # 0 => (u \in marks' <=> mark))
  BY <1>5, <1>6
<1>9. \A u \in Users :
        /\ u \in d => copy'[u] = 0
        /\ u \notin d /\ (u \in c \/ (u \in up /\ copy[u] # 0)) => copy'[u] = t
        /\ u \notin d /\ u \notin c /\ (u \in up => copy[u] = 0) => copy'[u] = copy[u]
  BY <1>2, <1>5
<1> QED BY <1>4, <1>7, <1>8, <1>9

\* What is due is what the row says, and where it was so it is so.
LEMMA DueAside ==
  ASSUME UNCHANGED <<sightState, visible, sightText, to, holders>>
  PROVE  \A u \in Users : Due(u)' = Due(u)
BY DEF Due, Sees, Sight!EphemeralVisibleTo, Sight!CanViewMessage

LEMMA BeforeAside ==
  ASSUME UNCHANGED <<visible, sightText, to, holders, copy>>, NEW r \in Requests,
         sightRequest'[r] = sightRequest[r], NEW u \in Users
  PROVE  Before(r, u)' <=> Before(r, u)
BY DEF Before, Sees, Doing, Sight!EphemeralVisibleTo, Sight!CanViewMessage

LEMMA SightCreateMessageKeeps ==
  ASSUME SightInv, NEW r \in Requests, Sight!CreateMessage(r)
  PROVE  SightInv'
<1>t. SightTyped /\ Unsent /\ Addressed /\ MarkedShow
  BY DEF SightInv
<1>1. /\ sightState = "none" /\ sightState' = "live" /\ sightText' = 1
      /\ UNCHANGED <<mark, holders, copy, marks, overlooked, sightCrossed, moved>>
  BY DEF Sight!CreateMessage, Sight!seen
<1>2. /\ to' \subseteq Users /\ (to' # {} => visible' = Sight!Public)
      /\ visible' \in Sight!Visibilities
  <2>1. PICK wanted \in Sight!Visibilities, few \in SUBSET Sight!Others :
          to' = few /\ visible' = IF few # {} THEN Sight!Public ELSE Sight!Effective(wanted)
    BY DEF Sight!CreateMessage
  <2>2. /\ Sight!Public \in Sight!Visibilities /\ Sight!ByRole \in Sight!Visibilities
        /\ few \subseteq Users
    BY DEF Sight!Public, Sight!ByRole, Sight!Visibilities, Sight!Others
  <2> QED BY <2>1, <2>2 DEF Sight!Effective
<1>3. PICK new \in ToldSlot : /\ new.step = "create" /\ new.visible = visible'
                              /\ sightRequest' = [sightRequest EXCEPT ![r] = new]
  <2> DEFINE slot == [step |-> "create", visible |-> visible']
  <2>1. slot \in ToldSlot /\ slot.step = "create" /\ slot.visible = visible'
    BY <1>2 DEF ToldSlot
  <2>2. sightRequest' = [sightRequest EXCEPT ![r] = slot]
    BY DEF Sight!CreateMessage, Sight!Goes
  <2> HIDE DEF slot
  <2> QED BY <2>1, <2>2
<1>4. /\ sightRequest' \in [Requests -> SightSlot \cup {None}]
      /\ \A q \in Requests \ {r} : sightRequest'[q] = None
      /\ sightRequest'[r] = new /\ new # None
      /\ \A q \in Requests : /\ Editing(q)' => sightRequest'[q] \in EditSlot
                             /\ Marking(q)' => sightRequest'[q] \in MarkSlot
                             /\ Telling(q)' => sightRequest'[q] \in ToldSlot
  BY <1>t, <1>1, <1>3, SightMoves, NoneIsNoValue DEF Unsent, SightSlot
<1>5. \A q \in Requests : ~ Editing(q)' /\ ~ Marking(q)' /\ ~ Doing(q, "delete")' /\
                           (Publishes(q)' => q = r)
  BY <1>3, <1>4 DEF Editing, Marking, Telling, Publishes, Doing
<1>6. SightTyped'
  BY <1>t, <1>1, <1>2, <1>4 DEF SightTyped
<1>7. Unsent' /\ Addressed' /\ MarkedShow'
  BY <1>t, <1>1, <1>2, <1>5 DEF Unsent, Addressed, MarkedShow
<1>8. OneWrites' /\ EditsAgree' /\ SlotsAgree'
  BY <1>1, <1>3, <1>4, <1>5 DEF OneWrites, EditsAgree, SlotsAgree, Telling, Doing
<1>9. CopiesFollow' /\ MarksFollow'
  <2>1. Doing(r, "create")'
    BY <1>3, <1>4 DEF Doing
  <2>2. \A u \in Users : Before(r, u)'
    BY <1>t, <1>1, <2>1 DEF Before, Unsent
  <2> QED BY <1>t, <1>1, <2>2 DEF CopiesFollow, MarksFollow, Unsent, Claimed
<1> QED BY <1>6, <1>7, <1>8, <1>9 DEF SightInv

\* The one who is yet to publish knows what clients show.
LEMMA OnlyOnePublishes ==
  ASSUME SightInv, ~ sightCrossed, NEW r \in Requests, Publishes(r)
  PROVE  /\ \A q \in Requests \ {r} : ~ Publishes(q)
         /\ \A u \in Claimed : copy[u] = Due(u) \/ Before(r, u)
         /\ ~ Doing(r, "reaction") => \A u \in Claimed : copy[u] # 0 => (u \in marks <=> mark)
<1>1. OneWrites /\ CopiesFollow /\ MarksFollow
  BY DEF SightInv
<1>2. \A q \in Requests : Publishes(q) => q = r
  BY <1>1 DEF OneWrites
<1>3. \A q \in Requests, u \in Users : Before(q, u) => Publishes(q)
  BY DEF Before, Publishes, Telling
<1>4. \A q \in Requests : Doing(q, "reaction") => Publishes(q)
  BY DEF Publishes
<1> QED BY <1>1, <1>2, <1>3, <1>4 DEF CopiesFollow, MarksFollow, Claimed

\* When he has published, clients show what is due.
LEMMA PublisherEnds ==
  ASSUME SightInv, NEW r \in Requests, Publishes(r), Sight!Ends(r),
         UNCHANGED <<policy, to, sightState, visible, sightText, mark, holders, sightCrossed, moved>>,
         overlooked \subseteq overlooked',
         copy' \in [Users -> Nat], marks' \subseteq Users, MarkedShow',
         ~ sightCrossed => \A u \in Users \ (moved \cup overlooked') :
                             copy'[u] = Due(u) /\ (copy'[u] # 0 => (u \in marks' <=> mark))
  PROVE  SightInv'
<1>t. SightTyped /\ Unsent /\ Addressed
  BY DEF SightInv
<1>1. /\ sightRequest' \in [Requests -> SightSlot \cup {None}]
      /\ \A q \in Requests \ {r} : sightRequest'[q] = sightRequest[q]
      /\ sightRequest'[r] = None
      /\ \A q \in Requests : /\ Editing(q)' => sightRequest'[q] \in EditSlot
                             /\ Marking(q)' => sightRequest'[q] \in MarkSlot
                             /\ Telling(q)' => sightRequest'[q] \in ToldSlot
  BY <1>t, SightEnds
<1>2. SightTyped'
  BY <1>t, <1>1 DEF SightTyped
<1>3. sightState # "none"
  BY <1>t DEF Unsent, Publishes, Telling, Doing
<1>4. Unsent' /\ Addressed'
  BY <1>t, <1>1, <1>3 DEF Unsent, Addressed, Editing, Doing
<1>5. ASSUME ~ sightCrossed' PROVE OneWrites' /\ EditsAgree' /\ SlotsAgree'
  <2>1. OneWrites /\ EditsAgree /\ SlotsAgree
    BY <1>5 DEF SightInv
  <2>2. OneWrites'
    BY <1>1, <2>1 DEF OneWrites, Publishes, Telling, Doing
  <2>3. EditsAgree'
    BY <1>1, <2>1 DEF EditsAgree, Editing, Doing, Sight!ResolveAudience, Sight!CanViewMessage
  <2>4. SlotsAgree'
    BY <1>1, <2>1 DEF SlotsAgree, Marking, Telling, Doing
  <2> QED BY <2>2, <2>3, <2>4
<1>6. ASSUME ~ sightCrossed' PROVE CopiesFollow' /\ MarksFollow'
  <2>1. \A u \in Users : Due(u)' = Due(u)
    BY DueAside
  <2> QED BY <1>6, <2>1 DEF CopiesFollow, MarksFollow, Claimed
<1> QED BY <1>2, <1>4, <1>5, <1>6 DEF SightInv

LEMMA SightPublishCreateKeeps ==
  ASSUME SightInv, NEW r \in Requests, Sight!PublishCreate(r)
  PROVE  SightInv'
<1>t. SightTyped /\ Addressed /\ MarkedShow /\ Unsent
  BY DEF SightInv
<1>1. /\ Doing(r, "create") /\ Publishes(r) /\ Sight!Ends(r)
      /\ Sight!Shown(Sight!Recipients(sightRequest[r].visible), {}, {}, 1)
      /\ UNCHANGED <<policy, to, sightState, visible, sightText, mark, holders, overlooked, sightCrossed, moved>>
  BY DEF Sight!PublishCreate, Sight!row, Sight!Doing, Doing, Publishes, Telling
<1> DEFINE c == Sight!Recipients(sightRequest[r].visible)
<1>2. Sight!Shown(c, {}, {}, 1) /\ c \subseteq Users
  BY <1>1, <1>t, AuthorIsAUser DEF Sight!Recipients, Sight!EphemeralTargets, Sight!ResolveAudience, SightTyped
<1> HIDE DEF c
<1>3. /\ copy' \in [Users -> Nat] /\ marks' \subseteq Users /\ MarkedShow'
      /\ \A u \in Users : (u \in c => copy'[u] = 1) /\ (u \notin c => copy'[u] = copy[u])
      /\ \A u \in Users : (copy[u] # 0 => (u \in marks <=> mark)) =>
                             (copy'[u] # 0 => (u \in marks' <=> mark))
  BY <1>t, <1>2, Showing DEF c
<1>4. ASSUME ~ sightCrossed
      PROVE  \A u \in Claimed : copy'[u] = Due(u) /\ (copy'[u] # 0 => (u \in marks' <=> mark))
  <2>1. sightState = "live" /\ sightText = 1 /\ sightRequest[r].visible = visible
    BY <1>1, <1>4 DEF SightInv, SlotsAgree, Telling
  <2>2. \A u \in Users : u \in c <=> Sees(u, visible)
    BY <1>t, <2>1, RecipientsSee DEF c, Addressed
  <2>3. ~ Doing(r, "reaction")
    BY <1>1 DEF Doing
  <2>4. \A u \in Claimed : copy[u] = Due(u) \/ copy[u] = 0
    BY <1>1, <1>4, OnlyOnePublishes DEF Before, Doing
  <2>5. \A u \in Claimed : copy[u] # 0 => (u \in marks <=> mark)
    BY <1>1, <1>4, <2>3, OnlyOnePublishes
  <2> QED BY <1>3, <2>1, <2>2, <2>4, <2>5 DEF Due, Claimed
<1> QED BY <1>1, <1>3, <1>4, PublisherEnds DEF Claimed

LEMMA SightPublishDeleteKeeps ==
  ASSUME SightInv, NEW r \in Requests, Sight!PublishDelete(r)
  PROVE  SightInv'
<1>t. SightTyped /\ Addressed /\ MarkedShow /\ Unsent
  BY DEF SightInv
<1>1. /\ Doing(r, "delete") /\ Publishes(r) /\ Sight!Ends(r)
      /\ Sight!Shown({}, {}, Sight!Recipients(sightRequest[r].visible), 0)
      /\ UNCHANGED <<policy, to, sightState, visible, sightText, mark, holders, overlooked, sightCrossed, moved>>
  BY DEF Sight!PublishDelete, Sight!row, Sight!Doing, Doing, Publishes, Telling
<1> DEFINE d == Sight!Recipients(sightRequest[r].visible)
<1>2. Sight!Shown({}, {}, d, 0)
  BY <1>1
<1> HIDE DEF d
<1>3. /\ copy' \in [Users -> Nat] /\ marks' \subseteq Users /\ MarkedShow'
      /\ \A u \in Users : (u \in d => copy'[u] = 0) /\ (u \notin d => copy'[u] = copy[u])
      /\ \A u \in Users : (copy[u] # 0 => (u \in marks <=> mark)) =>
                             (copy'[u] # 0 => (u \in marks' <=> mark))
  BY <1>t, <1>2, Showing
<1>4. ASSUME ~ sightCrossed
      PROVE  \A u \in Claimed : copy'[u] = Due(u) /\ (copy'[u] # 0 => (u \in marks' <=> mark))
  <2>1. sightState = "deleted" /\ sightRequest[r].visible = visible
    BY <1>1, <1>4 DEF SightInv, SlotsAgree, Telling
  <2>2. \A u \in Users : u \in d <=> Sees(u, visible)
    BY <1>t, <2>1, RecipientsSee DEF d, Addressed
  <2>3. ~ Doing(r, "reaction")
    BY <1>1 DEF Doing
  <2>5. \A u \in Claimed : ~ Sees(u, visible) => copy[u] = 0
    BY <1>1, <1>4, <2>1, OnlyOnePublishes DEF Before, Doing, Due
  <2>6. \A u \in Claimed : copy[u] # 0 => (u \in marks <=> mark)
    BY <1>1, <1>4, <2>3, OnlyOnePublishes
  <2> QED BY <1>3, <2>1, <2>2, <2>5, <2>6 DEF Due, Claimed
<1> QED BY <1>1, <1>3, <1>4, PublisherEnds DEF Claimed

LEMMA SightPublishReactionKeeps ==
  ASSUME SightInv, NEW r \in Requests, Sight!PublishReactionEvent(r)
  PROVE  SightInv'
<1>t. SightTyped /\ Addressed /\ MarkedShow
  BY DEF SightInv
<1>1. /\ Doing(r, "reaction") /\ Publishes(r) /\ Sight!Ends(r)
      /\ UNCHANGED <<policy, to, sightState, visible, sightText, mark, holders, copy, overlooked, sightCrossed, moved>>
  BY DEF Sight!PublishReactionEvent, Sight!row, Sight!Doing, Doing, Publishes
<1> DEFINE told0 == {u \in Sight!Recipients(sightRequest[r].visible) : copy[u] # 0}
<1>2. /\ marks' = IF sightRequest[r].on THEN marks \cup told0 ELSE marks \ told0
      /\ \A u \in told0 : u \in Users /\ copy[u] # 0
      /\ \A u \in Sight!Recipients(sightRequest[r].visible) : copy[u] # 0 => u \in told0
  BY <1>t, AuthorIsAUser DEF Sight!PublishReactionEvent, Sight!Recipients, Sight!EphemeralTargets,
     Sight!ResolveAudience, SightTyped
<1> HIDE DEF told0
<1>3. copy' \in [Users -> Nat] /\ marks' \subseteq Users /\ MarkedShow'
  BY <1>t, <1>1, <1>2 DEF SightTyped, MarkedShow
<1>4. ASSUME ~ sightCrossed
      PROVE  \A u \in Claimed : copy'[u] = Due(u) /\ (copy'[u] # 0 => (u \in marks' <=> mark))
  <2>1. mark = sightRequest[r].on /\ sightRequest[r].visible = visible
    BY <1>1, <1>4 DEF SightInv, SlotsAgree, Marking
  <2>2. \A u \in Users : u \in Sight!Recipients(sightRequest[r].visible) <=> Sees(u, visible)
    BY <1>t, <2>1, RecipientsSee DEF Addressed
  <2>3. \A u \in Claimed : copy[u] = Due(u)
    BY <1>1, <1>4, OnlyOnePublishes DEF Before, Doing
  <2>4. \A u \in Claimed : copy[u] # 0 => u \in told0
    BY <1>2, <2>2, <2>3 DEF Due, Claimed
  <2> QED BY <1>1, <1>2, <2>1, <2>3, <2>4 DEF Claimed
<1> QED BY <1>1, <1>3, <1>4, PublisherEnds DEF Claimed

\* An edit that is published: who sees the message now is sent it, or an
\* update of the one he has, and who does not any more and had it is told.
LEMMA SightPublishEditKeeps ==
  ASSUME SightInv, NEW r \in Requests, Sight!PublishEdit(r)
  PROVE  SightInv'
<1>t. SightTyped /\ Addressed /\ MarkedShow
  BY DEF SightInv
<1> DEFINE q == sightRequest[r]
           t == IF q.content THEN q.text + 1 ELSE q.text
           new == Sight!ResolveAudience(q.visible)
<1>1. /\ Doing(r, "update") /\ Publishes(r) /\ Sight!Ends(r) /\ Editing(r)
      /\ UNCHANGED <<policy, to, sightState, visible, sightText, mark, holders, sightCrossed, moved>>
      /\ \/ /\ q.visible = q.read /\ Sight!Shown({}, Sight!Recipients(q.visible), {}, t)
            /\ UNCHANGED overlooked
         \/ /\ q.visible # q.read /\ ~ Sight!IsMessageRestricted(q.visible)
            /\ Sight!Shown(Users, {}, {}, t) /\ UNCHANGED overlooked
         \/ /\ q.visible # q.read /\ Sight!IsMessageRestricted(q.visible)
            /\ Sight!IsMessageRestricted(q.read)
            /\ Sight!Shown(Sight!Gained(q.old, new), q.old \cap new, q.old \ new, t)
            /\ UNCHANGED overlooked
         \/ /\ q.visible # q.read /\ ~ Sight!IsMessageRestricted(q.read)
            /\ Sight!Shown({}, new, {}, t) /\ overlooked' = overlooked \cup (Users \ new)
  BY DEF Sight!PublishEdit, Sight!row, Sight!Doing, Doing, Publishes, Editing
<1>2. /\ q \in EditSlot /\ t \in Nat /\ t # 0
      /\ q.visible # q.read => to = {}
  BY <1>t, <1>1 DEF SightTyped, EditSlot, Addressed
<1> HIDE DEF q, t
<1>3. PICK c \in SUBSET Users, up \in SUBSET Users, d \in SUBSET Users :
        /\ Sight!Shown(c, up, d, t) /\ overlooked \subseteq overlooked'
        /\ ~ sightCrossed => \A u \in Users \ overlooked' :
             /\ Sees(u, visible) => u \notin d /\ (u \in c \/ (u \in up /\ Sees(u, q.read)))
             /\ ~ Sees(u, visible) => u \in d \/ (u \notin c /\ ~ Sees(u, q.read))
  <2>1. /\ q.old \subseteq Users /\ new \subseteq Users
        /\ ~ sightCrossed => q.old = Sight!ResolveAudience(q.read) /\ q.visible = visible
    BY <1>1, <1>2 DEF EditSlot, SightInv, EditsAgree, Sight!ResolveAudience, q
  <2>2. to = {} => \A u \in Users, v \in Sight!Visibilities :
                     Sees(u, v) <=> u \in Sight!ResolveAudience(v)
    BY DEF Sees, Sight!EphemeralVisibleTo, Sight!ResolveAudience
  <2>3. to = {} => \A u \in Users, v \in Sight!Visibilities : ~ Sight!IsMessageRestricted(v) => Sees(u, v)
    BY DEF Sees, Sight!EphemeralVisibleTo, Sight!CanViewMessage
  <2>4. q.visible \in Sight!Visibilities /\ q.read \in Sight!Visibilities
    BY <1>2 DEF EditSlot
  <2>5. CASE /\ q.visible = q.read /\ Sight!Shown({}, Sight!Recipients(q.visible), {}, t)
             /\ UNCHANGED overlooked
    <3>1. Sight!Recipients(q.visible) \in SUBSET Users
      BY <1>t, AuthorIsAUser DEF Sight!Recipients, Sight!EphemeralTargets, Sight!ResolveAudience,
         SightTyped
    <3>2. ~ sightCrossed => \A u \in Users : u \in Sight!Recipients(q.visible) <=> Sees(u, visible)
      BY <1>t, <2>1, RecipientsSee DEF Addressed
    <3> QED BY <2>1, <2>5, <3>1, <3>2
  <2>6. CASE /\ q.visible # q.read /\ ~ Sight!IsMessageRestricted(q.visible)
             /\ Sight!Shown(Users, {}, {}, t) /\ UNCHANGED overlooked
    BY <1>2, <2>1, <2>3, <2>4, <2>6
  <2>7. CASE /\ q.visible # q.read /\ Sight!IsMessageRestricted(q.visible)
             /\ Sight!IsMessageRestricted(q.read)
             /\ Sight!Shown(Sight!Gained(q.old, new), q.old \cap new, q.old \ new, t)
             /\ UNCHANGED overlooked
    <3> DEFINE c == new \ q.old
               up == q.old \cap new
               d == q.old \ new
    <3>1. Sight!Shown(c, up, d, t)
      BY <2>7 DEF Sight!Gained
    <3>2. ~ sightCrossed => \A u \in Users : (Sees(u, visible) <=> u \in new) /\ (Sees(u, q.read) <=> u \in q.old)
      BY <1>2, <2>1, <2>2, <2>4, <2>7
    <3>3. c \in SUBSET Users /\ up \in SUBSET Users /\ d \in SUBSET Users
      BY <2>1
    <3>4. ~ sightCrossed => \A u \in Users :
             /\ Sees(u, visible) => u \notin d /\ (u \in c \/ (u \in up /\ Sees(u, q.read)))
             /\ ~ Sees(u, visible) => u \in d \/ (u \notin c /\ ~ Sees(u, q.read))
      BY <3>2
    <3> HIDE DEF c, up, d
    <3> QED BY <2>7, <3>1, <3>3, <3>4
  <2>8. CASE /\ q.visible # q.read /\ ~ Sight!IsMessageRestricted(q.read)
             /\ Sight!Shown({}, new, {}, t) /\ overlooked' = overlooked \cup (Users \ new)
    <3>1. ~ sightCrossed => \A u \in Users : (Sees(u, visible) <=> u \in new) /\ Sees(u, q.read)
      BY <1>2, <2>1, <2>2, <2>3, <2>4, <2>8
    <3> HIDE DEF new
    <3> QED BY <2>1, <2>8, <3>1
  <2> QED BY <1>1, <2>5, <2>6, <2>7, <2>8
<1>4. /\ copy' \in [Users -> Nat] /\ marks' \subseteq Users /\ MarkedShow'
      /\ \A u \in Users :
           /\ u \in d => copy'[u] = 0
           /\ u \notin d /\ (u \in c \/ (u \in up /\ copy[u] # 0)) => copy'[u] = t
           /\ u \notin d /\ u \notin c /\ (u \in up => copy[u] = 0) => copy'[u] = copy[u]
      /\ \A u \in Users : (copy[u] # 0 => (u \in marks <=> mark)) =>
                             (copy'[u] # 0 => (u \in marks' <=> mark))
  BY <1>t, <1>2, <1>3, Showing
<1>5. ASSUME ~ sightCrossed, NEW u \in Users \ (moved \cup overlooked')
      PROVE  copy'[u] = Due(u) /\ (copy'[u] # 0 => (u \in marks' <=> mark))
  <2>1. u \in Claimed
    BY <1>3, <1>5 DEF Claimed
  <2>2. sightState = "live" /\ sightText = t
    BY <1>1, <1>5 DEF SightInv, EditsAgree, q, t
  <2>3. /\ copy[u] = Due(u) \/ copy[u] = (IF Sees(u, q.read) THEN q.text ELSE 0)
        /\ copy[u] # 0 => (u \in marks <=> mark)
    BY <1>1, <1>5, <2>1, OnlyOnePublishes DEF Before, Doing, q
  <2>4. q.text # 0 /\ copy[u] \in Nat
    BY <1>t, <1>2, <1>5 DEF EditSlot, SightTyped
  <2>5. CASE Sees(u, visible)
    BY <1>2, <1>3, <1>4, <1>5, <2>2, <2>3, <2>4, <2>5 DEF Due
  <2>6. CASE ~ Sees(u, visible)
    BY <1>3, <1>4, <1>5, <2>3, <2>6 DEF Due
  <2> QED BY <1>4, <2>3, <2>5, <2>6
<1> QED BY <1>1, <1>3, <1>4, <1>5, PublisherEnds

\* Handlers that only read.
LEMMA SightReads ==
  ASSUME SightInv, NEW r \in Requests, NEW new \in EditSlot \cup MarkSlot,
         sightRequest[r] = None, sightRequest' = [sightRequest EXCEPT ![r] = new],
         new.step \in {"edit", "react"}, new.visible # visible => to = {} \/ new.step = "react",
         UNCHANGED <<policy, to, sightState, visible, sightText, mark, holders, copy, marks,
                     overlooked, sightCrossed, moved>>,
         sightState = "live",
         new.step = "edit" => /\ new \in EditSlot /\ new.read = visible /\ new.text = sightText
                              /\ new.old = Sight!ResolveAudience(visible),
         new.step = "react" => new \in MarkSlot /\ new.visible = visible
  PROVE  SightInv'
<1>t. SightTyped /\ Unsent /\ Addressed /\ MarkedShow
  BY DEF SightInv
<1>1. /\ sightRequest' \in [Requests -> SightSlot \cup {None}]
      /\ \A q \in Requests \ {r} : sightRequest'[q] = sightRequest[q]
      /\ sightRequest'[r] = new
      /\ \A q \in Requests : /\ Editing(q)' => sightRequest'[q] \in EditSlot
                             /\ Marking(q)' => sightRequest'[q] \in MarkSlot
                             /\ Telling(q)' => sightRequest'[q] \in ToldSlot
  BY <1>t, SightMoves DEF SightSlot
<1>2. SightTyped'
  BY <1>t, <1>1 DEF SightTyped
<1>3. Unsent' /\ MarkedShow'
  BY <1>t DEF Unsent, MarkedShow
<1>4. Addressed'
  BY <1>t, <1>1 DEF Addressed, Editing, Doing
<1>5. /\ \A q \in Requests : Publishes(q)' <=> Publishes(q)
      /\ ~ Publishes(r) /\ ~ Doing(r, "reaction")'
  BY <1>1 DEF Publishes, Telling, Doing
<1>6. ASSUME ~ sightCrossed' PROVE OneWrites' /\ EditsAgree' /\ SlotsAgree'
  <2>1. OneWrites /\ EditsAgree /\ SlotsAgree
    BY <1>6 DEF SightInv
  <2>2. OneWrites'
    BY <1>5, <2>1 DEF OneWrites
  <2>3. EditsAgree'
    BY <1>1, <2>1 DEF EditsAgree, Editing, Doing, Sight!ResolveAudience, Sight!CanViewMessage
  <2>4. SlotsAgree'
    BY <1>1, <2>1 DEF SlotsAgree, Marking, Telling, Doing
  <2> QED BY <2>2, <2>3, <2>4
<1>7. ASSUME ~ sightCrossed' PROVE CopiesFollow' /\ MarksFollow'
  <2>1. CopiesFollow /\ MarksFollow
    BY <1>7 DEF SightInv
  <2>2. \A u \in Users : Due(u)' = Due(u)
    BY DueAside
  <2>3. \A q \in Requests \ {r}, u \in Users : Before(q, u)' <=> Before(q, u)
    BY <1>1, BeforeAside
  <2>4. \A u \in Users : ~ Before(r, u)
    BY DEF Before, Doing
  <2>5. CopiesFollow'
    BY <2>1, <2>2, <2>3, <2>4 DEF CopiesFollow, Claimed
  <2>6. MarksFollow'
    BY <1>1, <2>1 DEF MarksFollow, Claimed, Doing
  <2> QED BY <2>5, <2>6
<1> QED BY <1>2, <1>3, <1>4, <1>6, <1>7 DEF SightInv

LEMMA SightEditMessageKeeps ==
  ASSUME SightInv, NEW r \in Requests, Sight!EditMessage(r)
  PROVE  SightInv'
<1>t. SightTyped
  BY DEF SightInv
<1>1. PICK new \in Sight!Visibilities, content \in BOOLEAN :
        /\ new # visible => to = {}
        /\ sightRequest' = [sightRequest EXCEPT ![r] =
             [step |-> "edit", read |-> visible, visible |-> new,
              old |-> Sight!ResolveAudience(visible), content |-> content, text |-> sightText]]
  BY DEF Sight!EditMessage, Sight!Goes
<1>2. /\ sightRequest[r] = None /\ sightState = "live"
      /\ UNCHANGED <<policy, to, sightState, visible, sightText, mark, holders, copy, marks,
                     overlooked, sightCrossed, moved>>
  BY DEF Sight!EditMessage, Sight!row, Sight!seen
<1> DEFINE slot == [step |-> "edit", read |-> visible, visible |-> new,
                    old |-> Sight!ResolveAudience(visible), content |-> content, text |-> sightText]
<1>3. /\ slot \in EditSlot /\ slot.step = "edit" /\ slot.visible = new /\ slot.read = visible
      /\ slot.text = sightText /\ slot.old = Sight!ResolveAudience(visible)
  BY <1>t, <1>1, <1>2 DEF SightTyped, EditSlot, Sight!ResolveAudience
<1>4. sightRequest' = [sightRequest EXCEPT ![r] = slot]
  BY <1>1
<1> HIDE DEF slot
<1> QED BY <1>1, <1>2, <1>3, <1>4, SightReads

LEMMA SightReactsKeeps ==
  ASSUME SightInv, NEW r \in Requests, NEW on \in BOOLEAN, Sight!Reacts(r, on)
  PROVE  SightInv'
<1>t. SightTyped
  BY DEF SightInv
<1>1. /\ sightRequest[r] = None /\ sightState = "live"
      /\ UNCHANGED <<policy, to, sightState, visible, sightText, mark, holders, copy, marks,
                     overlooked, sightCrossed, moved>>
  BY DEF Sight!Reacts, Sight!row, Sight!seen
<1> DEFINE slot == [step |-> "react", visible |-> visible, on |-> on]
<1>2. slot \in MarkSlot /\ slot.step = "react" /\ slot.visible = visible
  BY <1>t DEF SightTyped, MarkSlot
<1>3. sightRequest' = [sightRequest EXCEPT ![r] = slot]
  BY DEF Sight!Reacts, Sight!Goes
<1> HIDE DEF slot
<1> QED BY <1>1, <1>2, <1>3, SightReads

\* A reader that ends without having written.
LEMMA ReaderEnds ==
  ASSUME SightInv, NEW r \in Requests, ~ Publishes(r), Sight!Ends(r),
         UNCHANGED <<policy, to, sightState, visible, sightText, mark, holders, copy, marks,
                     overlooked, sightCrossed, moved>>
  PROVE  SightInv'
<1>t. SightTyped /\ Unsent /\ Addressed /\ MarkedShow
  BY DEF SightInv
<1>1. /\ sightRequest' \in [Requests -> SightSlot \cup {None}]
      /\ \A q \in Requests \ {r} : sightRequest'[q] = sightRequest[q]
      /\ sightRequest'[r] = None
      /\ \A q \in Requests : /\ Editing(q)' => sightRequest'[q] \in EditSlot
                             /\ Marking(q)' => sightRequest'[q] \in MarkSlot
                             /\ Telling(q)' => sightRequest'[q] \in ToldSlot
  BY <1>t, SightEnds
<1>2. SightTyped'
  BY <1>t, <1>1 DEF SightTyped
<1>3. Unsent' /\ MarkedShow' /\ Addressed'
  BY <1>t, <1>1 DEF Unsent, MarkedShow, Addressed, Editing, Doing
<1>4. ASSUME ~ sightCrossed' PROVE OneWrites' /\ EditsAgree' /\ SlotsAgree'
  <2>1. OneWrites /\ EditsAgree /\ SlotsAgree
    BY <1>4 DEF SightInv
  <2>2. OneWrites'
    BY <1>1, <2>1 DEF OneWrites, Publishes, Telling, Doing
  <2>3. EditsAgree'
    BY <1>1, <2>1 DEF EditsAgree, Editing, Doing, Sight!ResolveAudience, Sight!CanViewMessage
  <2>4. SlotsAgree'
    BY <1>1, <2>1 DEF SlotsAgree, Marking, Telling, Doing
  <2> QED BY <2>2, <2>3, <2>4
<1>5. ASSUME ~ sightCrossed' PROVE CopiesFollow' /\ MarksFollow'
  <2>1. CopiesFollow /\ MarksFollow
    BY <1>5 DEF SightInv
  <2>2. \A u \in Users : Due(u)' = Due(u)
    BY DueAside
  <2>3. \A q \in Requests \ {r}, u \in Users : Before(q, u)' <=> Before(q, u)
    BY <1>1, BeforeAside
  <2>4. \A u \in Users : ~ Before(r, u)
    BY DEF Before, Publishes, Telling
  <2>5. CopiesFollow'
    BY <2>1, <2>2, <2>3, <2>4 DEF CopiesFollow, Claimed
  <2>6. MarksFollow'
    BY <1>1, <2>1 DEF MarksFollow, Claimed, Doing, Publishes
  <2> QED BY <2>5, <2>6
<1> QED BY <1>2, <1>3, <1>4, <1>5 DEF SightInv

LEMMA SightSaveEditFailsKeeps ==
  ASSUME SightInv, NEW r \in Requests, Sight!SaveEditFails(r)
  PROVE  SightInv'
<1>1. /\ ~ Publishes(r) /\ Sight!Ends(r)
      /\ UNCHANGED <<policy, to, sightState, visible, sightText, mark, holders, copy, marks,
                     overlooked, sightCrossed, moved>>
  BY DEF Sight!SaveEditFails, Sight!row, Sight!seen, Publishes, Telling, Doing, Sight!Doing
<1> QED BY <1>1, ReaderEnds

\* A handler that writes: unless it crosses another it is alone, and clients
\* show what was due.
LEMMA Alone ==
  ASSUME SightInv, NEW r \in Requests, Sight!Crosses(r), ~ sightCrossed', ~ Publishes(r)
  PROVE  /\ ~ sightCrossed
         /\ \A q \in Requests \ {r} : sightRequest[q] = None
         /\ \A u \in Claimed : copy[u] = Due(u) /\ (copy[u] # 0 => (u \in marks <=> mark))
<1>1. /\ ~ sightCrossed
      /\ \A q \in Requests \ {r} : sightRequest[q] = None
  BY DEF Sight!Crosses
<1>2. \A q \in Requests : ~ Publishes(q)
  BY <1>1 DEF Publishes, Telling, Doing
<1>3. CopiesFollow /\ MarksFollow
  BY <1>1 DEF SightInv
<1>4. \A q \in Requests : ~ Doing(q, "reaction") /\ \A u \in Users : ~ Before(q, u)
  BY <1>2 DEF Before, Publishes, Telling
<1> QED BY <1>1, <1>3, <1>4 DEF CopiesFollow, MarksFollow, Claimed

LEMMA SightSaveEditKeeps ==
  ASSUME SightInv, NEW r \in Requests, Sight!SaveEdit(r)
  PROVE  SightInv'
<1>t. SightTyped /\ Unsent /\ Addressed /\ MarkedShow
  BY DEF SightInv
<1> DEFINE q == sightRequest[r]
<1>1. /\ Doing(r, "edit") /\ Editing(r) /\ Sight!Crosses(r) /\ ~ Publishes(r)
      /\ UNCHANGED <<policy, to, sightState, mark, holders, copy, marks, overlooked, moved>>
      /\ sightText' = IF q.content THEN sightText + 1 ELSE sightText
      /\ q.content => sightText = q.text
      /\ visible' = IF q.visible # q.read THEN q.visible ELSE visible
      /\ sightRequest' = [sightRequest EXCEPT ![r] = [q EXCEPT !.step = "update"]]
  BY DEF Sight!SaveEdit, Sight!Goes, Sight!seen, Sight!Doing, Doing, Editing, Publishes, Telling
<1>2. q \in EditSlot
  BY <1>t, <1>1 DEF SightTyped
<1> DEFINE slot == [q EXCEPT !.step = "update"]
<1>3. /\ slot \in EditSlot /\ slot.step = "update" /\ slot.visible = q.visible /\ slot.read = q.read
      /\ slot.old = q.old /\ slot.text = q.text /\ slot.content = q.content
  BY <1>2 DEF EditSlot
<1>4. sightRequest' = [sightRequest EXCEPT ![r] = slot]
  BY <1>1
<1> HIDE DEF slot
<1>5. /\ sightRequest' \in [Requests -> SightSlot \cup {None}]
      /\ \A p \in Requests \ {r} : sightRequest'[p] = sightRequest[p]
      /\ sightRequest'[r] = slot
      /\ \A p \in Requests : /\ Editing(p)' => sightRequest'[p] \in EditSlot
                             /\ Marking(p)' => sightRequest'[p] \in MarkSlot
                             /\ Telling(p)' => sightRequest'[p] \in ToldSlot
  BY <1>t, <1>3, <1>4, SightMoves DEF SightSlot
<1>6. sightState # "none"
  BY <1>t, <1>1 DEF Unsent, Doing
<1>7. SightTyped'
  <2>1. visible' \in Sight!Visibilities /\ sightText' \in Nat /\ sightText' # 0
    BY <1>t, <1>1, <1>2, <1>6 DEF SightTyped, EditSlot
  <2> QED BY <1>t, <1>1, <1>5, <2>1 DEF SightTyped
<1>8. Unsent' /\ MarkedShow'
  BY <1>t, <1>1, <1>6 DEF Unsent, MarkedShow
<1>9. Addressed'
  BY <1>t, <1>1, <1>3, <1>5 DEF Addressed, Editing, Doing
<1>10. ASSUME ~ sightCrossed'
       PROVE  OneWrites' /\ EditsAgree' /\ SlotsAgree' /\ CopiesFollow' /\ MarksFollow'
  <2>1. /\ ~ sightCrossed
        /\ \A p \in Requests \ {r} : sightRequest[p] = None
        /\ \A u \in Claimed : copy[u] = Due(u) /\ (copy[u] # 0 => (u \in marks <=> mark))
    BY <1>1, <1>10, Alone
  <2>2. /\ sightState = "live" /\ q.read = visible /\ q.text = sightText
        /\ q.old = Sight!ResolveAudience(visible)
    BY <1>1, <2>1 DEF SightInv, EditsAgree
  <2>3. /\ \A p \in Requests : sightRequest'[p] # None => p = r
        /\ \A p \in Requests : ~ Marking(p)' /\ ~ Telling(p)' /\ ~ Doing(p, "edit")'
        /\ Doing(r, "update")' /\ visible' = q.visible
    BY <1>1, <1>3, <1>5, <2>1, <2>2, NoneIsNoValue DEF Marking, Telling, Doing, SightSlot
  <2>4. OneWrites' /\ SlotsAgree'
    BY <2>3 DEF OneWrites, SlotsAgree, Publishes, Telling, Marking, Doing
  <2>5. EditsAgree'
    <3>1. sightText' = IF slot.content THEN slot.text + 1 ELSE slot.text
      BY <1>1, <1>3, <2>2
    <3>2. slot.old = Sight!ResolveAudience(sightRequest[r].read)'
      BY <1>1, <1>3, <1>5, <2>2 DEF Sight!ResolveAudience, Sight!CanViewMessage
    <3> QED BY <1>1, <1>3, <1>5, <2>2, <2>3, <3>1, <3>2 DEF EditsAgree, Editing, Doing
  <2>6. ASSUME NEW u \in Claimed PROVE Before(r, u)'
    <3>1. copy'[u] = IF Sees(u, visible) THEN q.text ELSE 0
      BY <1>1, <2>1, <2>2 DEF Due
    <3>2. Sees(u, sightRequest[r].read)' <=> Sees(u, visible)
      BY <1>1, <1>3, <1>5, <2>2 DEF Sees, Sight!EphemeralVisibleTo, Sight!CanViewMessage
    <3> QED BY <1>3, <1>5, <2>3, <3>1, <3>2 DEF Before
  <2> QED BY <1>1, <2>1, <2>4, <2>5, <2>6 DEF CopiesFollow, MarksFollow, Claimed
<1> QED BY <1>7, <1>8, <1>9, <1>10 DEF SightInv

LEMMA SightDeleteMessageKeeps ==
  ASSUME SightInv, NEW r \in Requests, Sight!DeleteMessage(r)
  PROVE  SightInv'
<1>t. SightTyped /\ Unsent /\ Addressed /\ MarkedShow
  BY DEF SightInv
<1> DEFINE slot == [step |-> "delete", visible |-> visible]
<1>1. /\ sightRequest[r] = None /\ sightState = "live" /\ sightState' = "deleted"
      /\ Sight!Crosses(r)
      /\ UNCHANGED <<policy, to, visible, sightText, mark, holders, copy, marks, overlooked, moved>>
      /\ sightRequest' = [sightRequest EXCEPT ![r] = slot]
  BY DEF Sight!DeleteMessage, Sight!Goes, Sight!seen
<1>2. slot \in ToldSlot /\ slot.step = "delete" /\ slot.visible = visible
  BY <1>t DEF SightTyped, ToldSlot
<1> HIDE DEF slot
<1>3. /\ sightRequest' \in [Requests -> SightSlot \cup {None}]
      /\ \A p \in Requests \ {r} : sightRequest'[p] = sightRequest[p]
      /\ sightRequest'[r] = slot
      /\ \A p \in Requests : /\ Editing(p)' => sightRequest'[p] \in EditSlot
                             /\ Marking(p)' => sightRequest'[p] \in MarkSlot
                             /\ Telling(p)' => sightRequest'[p] \in ToldSlot
  BY <1>t, <1>1, <1>2, SightMoves DEF SightSlot
<1>4. SightTyped'
  BY <1>t, <1>1, <1>3 DEF SightTyped
<1>5. Unsent' /\ MarkedShow' /\ Addressed'
  BY <1>t, <1>1, <1>2, <1>3 DEF Unsent, MarkedShow, Addressed, Editing, Doing
<1>6. ASSUME ~ sightCrossed'
      PROVE  OneWrites' /\ EditsAgree' /\ SlotsAgree' /\ CopiesFollow' /\ MarksFollow'
  <2>1. /\ ~ sightCrossed
        /\ \A p \in Requests \ {r} : sightRequest[p] = None
        /\ \A u \in Claimed : copy[u] = Due(u) /\ (copy[u] # 0 => (u \in marks <=> mark))
    BY <1>1, <1>6, Alone DEF Publishes, Telling, Doing
  <2>2. /\ \A p \in Requests : sightRequest'[p] # None => p = r
        /\ \A p \in Requests : ~ Marking(p)' /\ ~ Editing(p)' /\ ~ Doing(p, "create")'
        /\ Doing(r, "delete")' /\ sightRequest'[r].visible = visible
    BY <1>2, <1>3, <2>1, NoneIsNoValue DEF Marking, Editing, Doing, SightSlot
  <2>3. OneWrites' /\ SlotsAgree' /\ EditsAgree'
    BY <1>1, <2>2 DEF OneWrites, SlotsAgree, EditsAgree, Publishes, Telling, Marking, Doing
  <2>4. ASSUME NEW u \in Claimed PROVE Before(r, u)'
    <3>1. copy'[u] = IF Sees(u, visible) THEN sightText ELSE 0
      BY <1>1, <2>1 DEF Due
    <3>2. Sees(u, visible)' <=> Sees(u, visible)
      BY <1>1 DEF Sees, Sight!EphemeralVisibleTo, Sight!CanViewMessage
    <3> QED BY <1>1, <2>2, <3>1, <3>2 DEF Before
  <2> QED BY <1>1, <2>1, <2>3, <2>4 DEF CopiesFollow, MarksFollow, Claimed
<1> QED BY <1>4, <1>5, <1>6 DEF SightInv

LEMMA SightReactionWrittenKeeps ==
  ASSUME SightInv, NEW r \in Requests, Sight!ReactionWritten(r)
  PROVE  SightInv'
<1>t. SightTyped /\ Unsent /\ Addressed /\ MarkedShow
  BY DEF SightInv
<1> DEFINE q == sightRequest[r]
           slot == [q EXCEPT !.step = "reaction"]
<1>1. /\ Doing(r, "react") /\ Marking(r) /\ ~ Publishes(r) /\ mark' = q.on
      /\ UNCHANGED <<policy, to, sightState, visible, sightText, holders, copy, marks, overlooked, moved>>
      /\ \/ mark = q.on /\ Sight!Ends(r) /\ UNCHANGED sightCrossed
         \/ Sight!Crosses(r) /\ sightRequest' = [sightRequest EXCEPT ![r] = slot]
  BY DEF Sight!ReactionWritten, Sight!Goes, Sight!seen, Doing, Sight!Doing, Marking, Publishes, Telling
<1>2. CASE mark = q.on /\ Sight!Ends(r) /\ UNCHANGED sightCrossed
  BY <1>1, <1>2, ReaderEnds
<1>3. CASE Sight!Crosses(r) /\ sightRequest' = [sightRequest EXCEPT ![r] = slot]
  <2>1. q \in MarkSlot
    BY <1>t, <1>1 DEF SightTyped
  <2>2. slot \in MarkSlot /\ slot.step = "reaction" /\ slot.visible = q.visible /\ slot.on = q.on
    BY <2>1 DEF MarkSlot
  <2>3. mark' \in BOOLEAN
    BY <1>1, <2>1 DEF MarkSlot
  <2> HIDE DEF slot
  <2>4. /\ sightRequest' \in [Requests -> SightSlot \cup {None}]
        /\ \A p \in Requests \ {r} : sightRequest'[p] = sightRequest[p]
        /\ sightRequest'[r] = slot
        /\ \A p \in Requests : /\ Editing(p)' => sightRequest'[p] \in EditSlot
                               /\ Marking(p)' => sightRequest'[p] \in MarkSlot
                               /\ Telling(p)' => sightRequest'[p] \in ToldSlot
    BY <1>t, <1>3, <2>2, SightMoves DEF SightSlot
  <2>5. SightTyped'
    BY <1>t, <1>1, <2>3, <2>4 DEF SightTyped
  <2>6. sightState # "none"
    BY <1>t, <1>1 DEF Unsent, Doing
  <2>7. Unsent' /\ MarkedShow' /\ Addressed'
    BY <1>t, <1>1, <2>2, <2>4, <2>6 DEF Unsent, MarkedShow, Addressed, Editing, Doing
  <2>8. ASSUME ~ sightCrossed'
        PROVE  OneWrites' /\ EditsAgree' /\ SlotsAgree' /\ CopiesFollow' /\ MarksFollow'
    <3>1. /\ ~ sightCrossed
          /\ \A p \in Requests \ {r} : sightRequest[p] = None
          /\ \A u \in Claimed : copy[u] = Due(u)
      BY <1>1, <1>3, <2>8, Alone
    <3>2. sightState = "live" /\ q.visible = visible
      BY <1>1, <3>1 DEF SightInv, SlotsAgree
    <3>3. /\ \A p \in Requests : sightRequest'[p] # None => p = r
          /\ \A p \in Requests : ~ Telling(p)' /\ ~ Editing(p)'
          /\ Doing(r, "reaction")' /\ sightRequest'[r].visible = visible /\ sightRequest'[r].on = mark'
      BY <1>1, <2>2, <2>4, <3>1, <3>2, NoneIsNoValue DEF Telling, Editing, Doing, SightSlot
    <3>4. OneWrites' /\ EditsAgree'
      BY <3>3 DEF OneWrites, EditsAgree, Publishes, Doing
    <3>5. SlotsAgree'
      BY <1>1, <3>2, <3>3 DEF SlotsAgree, Telling, Marking, Doing
    <3>6. \A u \in Users : Due(u)' = Due(u)
      BY <1>1, DueAside
    <3> QED BY <1>1, <3>1, <3>3, <3>4, <3>5, <3>6 DEF CopiesFollow, MarksFollow, Claimed
  <2> QED BY <2>5, <2>7, <2>8 DEF SightInv
<1> QED BY <1>1, <1>2, <1>3

\* Who reads the message, or who reacted, shows what he has read.
LEMMA SightViewsKeep ==
  ASSUME SightInv, NEW w \in Users, sightState = "live", copy' \in [Users -> Nat],
         Sees(w, visible), copy'[w] = sightText,
         \A u \in Users \ {w} : copy'[u] = copy[u],
         marks' = IF mark THEN marks \cup {w} ELSE marks \ {w},
         UNCHANGED <<policy, to, sightState, visible, sightText, mark, holders, sightRequest,
                     overlooked, sightCrossed, moved>>
  PROVE  SightInv'
<1>t. SightTyped /\ Unsent /\ Addressed /\ MarkedShow
  BY DEF SightInv
<1>1. /\ marks' \subseteq Users
      /\ \A u \in Users \ {w} : u \in marks' <=> u \in marks
      /\ w \in marks' <=> mark
  BY <1>t DEF SightTyped
<1>2. SightTyped'
  BY <1>t, <1>1 DEF SightTyped, Editing, Marking, Telling, Doing
<1>3. Unsent' /\ Addressed' /\ MarkedShow'
  <2>1. sightText # 0
    BY <1>t DEF SightTyped
  <2> QED BY <1>t, <1>1, <2>1 DEF Unsent, Addressed, MarkedShow, Editing, Doing, SightTyped
<1>4. ASSUME ~ sightCrossed' PROVE OneWrites' /\ EditsAgree' /\ SlotsAgree'
  <2>1. OneWrites /\ EditsAgree /\ SlotsAgree
    BY <1>4 DEF SightInv
  <2> QED BY <2>1 DEF OneWrites, EditsAgree, SlotsAgree, Publishes, Editing, Marking, Telling,
        Doing, Sight!ResolveAudience, Sight!CanViewMessage
<1>5. ASSUME ~ sightCrossed' PROVE CopiesFollow' /\ MarksFollow'
  <2>1. CopiesFollow /\ MarksFollow
    BY <1>5 DEF SightInv
  <2>2. \A u \in Users : Due(u)' = Due(u)
    BY DueAside
  <2>3. \A q \in Requests, u \in Users \ {w} : Before(q, u) => Before(q, u)'
    BY DEF Before, Sees, Doing, Sight!EphemeralVisibleTo, Sight!CanViewMessage
  <2>4. CopiesFollow'
    BY <2>1, <2>2, <2>3 DEF CopiesFollow, Claimed, Due
  <2>5. MarksFollow'
    BY <1>1, <2>1 DEF MarksFollow, Claimed, Doing
  <2> QED BY <2>4, <2>5
<1> QED BY <1>2, <1>3, <1>4, <1>5 DEF SightInv

\* The reactions that are read say nothing of the text that is shown.
LEMMA SightListReactionUsersKeeps ==
  ASSUME SightInv, NEW w \in Users, Sight!ListReactionUsers(w)
  PROVE  SightInv'
<1>t. SightTyped /\ Unsent /\ Addressed /\ MarkedShow
  BY DEF SightInv
<1>0. /\ marks' = (IF mark THEN marks \cup {w} ELSE marks \ {w}) /\ copy[w] # 0
      /\ UNCHANGED <<policy, to, sightState, visible, sightText, mark, copy, holders, sightRequest,
                     overlooked, sightCrossed, moved>>
      /\ sightState = "live"
  BY DEF Sight!ListReactionUsers, Sight!row
<1>1. /\ marks' \subseteq Users
      /\ \A u \in Users \ {w} : u \in marks' <=> u \in marks
      /\ w \in marks' <=> mark
  BY <1>t, <1>0 DEF SightTyped
<1>2. SightTyped'
  BY <1>t, <1>0, <1>1 DEF SightTyped, Editing, Marking, Telling, Doing
<1>3. Unsent' /\ Addressed' /\ MarkedShow'
  BY <1>t, <1>0, <1>1 DEF Unsent, Addressed, MarkedShow, Editing, Doing, SightTyped
<1>4. ASSUME ~ sightCrossed' PROVE OneWrites' /\ EditsAgree' /\ SlotsAgree'
  <2>1. OneWrites /\ EditsAgree /\ SlotsAgree
    BY <1>0, <1>4 DEF SightInv
  <2> QED BY <1>0, <2>1 DEF OneWrites, EditsAgree, SlotsAgree, Publishes, Editing, Marking, Telling,
        Doing, Sight!ResolveAudience, Sight!CanViewMessage
<1>5. ASSUME ~ sightCrossed' PROVE CopiesFollow' /\ MarksFollow'
  <2>1. CopiesFollow /\ MarksFollow
    BY <1>0, <1>5 DEF SightInv
  <2>2. \A u \in Users : Due(u)' = Due(u)
    BY <1>0, DueAside
  <2>3. \A q \in Requests, u \in Users : Before(q, u) => Before(q, u)'
    BY <1>0, BeforeAside
  <2>4. CopiesFollow'
    BY <1>0, <2>1, <2>2, <2>3 DEF CopiesFollow, Claimed
  <2>5. MarksFollow'
    BY <1>0, <1>1, <2>1 DEF MarksFollow, Claimed, Doing
  <2> QED BY <2>4, <2>5
<1> QED BY <1>2, <1>3, <1>4, <1>5 DEF SightInv

\* A role that is given or taken while a handler is under way crosses it.
LEMMA SightRoleChangesKeeps ==
  ASSUME SightInv, NEW w \in Users, Sight!RoleChanges(w)
  PROVE  SightInv'
<1>t. SightTyped /\ Unsent /\ Addressed /\ MarkedShow
  BY DEF SightInv
<1>1. /\ sightState # "none" /\ moved' = moved \cup {w}
      /\ holders' = IF w \in holders THEN holders \ {w} ELSE holders \cup {w}
      /\ UNCHANGED <<policy, to, sightState, visible, sightText, mark, copy, marks, sightRequest, overlooked>>
      /\ ~ sightCrossed' => ~ sightCrossed /\ \A r \in Requests : sightRequest[r] = None
  BY DEF Sight!RoleChanges, Sight!row, Sight!seen
<1>2. SightTyped'
  BY <1>t, <1>1 DEF SightTyped, Editing, Marking, Telling, Doing
<1>3. Unsent' /\ Addressed' /\ MarkedShow'
  BY <1>t, <1>1 DEF Unsent, Addressed, MarkedShow, Editing, Doing
<1>4. ASSUME ~ sightCrossed'
      PROVE  OneWrites' /\ EditsAgree' /\ SlotsAgree' /\ CopiesFollow' /\ MarksFollow'
  <2>1. ~ sightCrossed /\ \A r \in Requests : sightRequest[r] = None /\ sightRequest'[r] = None
    BY <1>1, <1>4
  <2>2. OneWrites' /\ EditsAgree' /\ SlotsAgree'
    BY <2>1 DEF OneWrites, EditsAgree, SlotsAgree, Publishes, Editing, Marking, Telling, Doing
  <2>3. /\ \A u \in Claimed : copy[u] = Due(u) /\ (copy[u] # 0 => (u \in marks <=> mark))
    BY <2>1 DEF SightInv, CopiesFollow, MarksFollow, Before, Doing
  <2>4. \A u \in Users \ {w} : Due(u)' = Due(u)
    BY <1>1 DEF Due, Sees, Sight!EphemeralVisibleTo, Sight!CanViewMessage
  <2> QED BY <1>1, <2>2, <2>3, <2>4 DEF CopiesFollow, MarksFollow, Claimed
<1> QED BY <1>2, <1>3, <1>4 DEF SightInv

LEMMA SightNext == SightInv /\ [Next]_vars => SightInv'
<1> SUFFICES ASSUME SightInv, [Next]_vars PROVE SightInv'
  OBVIOUS
<1>1. CASE Sight!Next
  <2>1. ASSUME NEW r \in Requests, Sight!PutReaction(r) \/ Sight!DeleteReaction(r) PROVE SightInv'
    BY <2>1, SightReactsKeeps DEF Sight!PutReaction, Sight!DeleteReaction
  <2>2. ASSUME NEW w \in Users, Sight!ListMessages(w) \/ Sight!SearchMessages(w) PROVE SightInv'
    <3>1. /\ sightState = "live" /\ Sees(w, visible) /\ Sight!MessageViews(w)
          /\ UNCHANGED <<policy, to, sightState, visible, sightText, mark, holders, sightRequest,
                         overlooked, sightCrossed, moved>>
      BY <2>2 DEF Sight!ListMessages, Sight!SearchMessages, Sight!row, Sees,
         Sight!UserCanViewMessage, Sight!CanViewMessage
    <3>2. SightTyped
      BY DEF SightInv
    <3>3. /\ copy' \in [Users -> Nat] /\ copy'[w] = sightText
          /\ \A u \in Users \ {w} : copy'[u] = copy[u]
          /\ marks' = IF mark THEN marks \cup {w} ELSE marks \ {w}
      BY <3>1, <3>2 DEF Sight!MessageViews, SightTyped
    <3> QED BY <3>1, <3>3, SightViewsKeep
  <2> QED BY <1>1, <2>1, <2>2, SightCreateMessageKeeps, SightPublishCreateKeeps,
       SightEditMessageKeeps, SightSaveEditKeeps, SightSaveEditFailsKeeps, SightPublishEditKeeps,
       SightDeleteMessageKeeps, SightPublishDeleteKeeps, SightReactionWrittenKeeps,
       SightPublishReactionKeeps, SightListReactionUsersKeeps, SightRoleChangesKeeps
      DEF Sight!Next
<1>2. CASE UNCHANGED sightVars
  <2>1. /\ SightTyped /\ Unsent /\ Addressed /\ MarkedShow
        /\ UNCHANGED <<policy, holders, sightState, to, visible, sightText, sightRequest, mark,
                       copy, marks, sightCrossed, moved, overlooked>>
    BY <1>2 DEF sightVars, SightInv
  <2>2. SightTyped' /\ Unsent' /\ Addressed' /\ MarkedShow'
    BY <2>1 DEF SightTyped, Unsent, Addressed, MarkedShow, Editing, Marking, Telling, Doing
  <2>3. ASSUME ~ sightCrossed'
        PROVE  OneWrites' /\ EditsAgree' /\ SlotsAgree' /\ CopiesFollow' /\ MarksFollow'
    <3>1. OneWrites /\ EditsAgree /\ SlotsAgree /\ CopiesFollow /\ MarksFollow
      BY <2>1, <2>3 DEF SightInv
    <3>2. OneWrites' /\ EditsAgree' /\ SlotsAgree'
      BY <2>1, <3>1 DEF OneWrites, EditsAgree, SlotsAgree, Publishes, Editing, Marking, Telling,
        Doing, Sight!ResolveAudience, Sight!CanViewMessage
    <3>3. (\A u \in Users : Due(u)' = Due(u))
          /\ \A q \in Requests, u \in Users : Before(q, u)' <=> Before(q, u)
      BY <2>1, DueAside, BeforeAside
    <3> QED BY <2>1, <3>1, <3>2, <3>3 DEF CopiesFollow, MarksFollow, Claimed, Doing
  <2> QED BY <2>2, <2>3 DEF SightInv
<1> QED BY <1>1, <1>2 DEF Next, vars

(* When the handlers are done and none has crossed another, clients show   *)
(* the text and the reaction as they are to whoever may see the message,   *)
(* and to nobody else; and a reaction is never shown without its message.  *)
THEOREM AudienceHolds == Spec => []ReachesAudience
<1>1. SightInv => ReachesAudience
  <2> SUFFICES ASSUME SightInv PROVE Sight!ReachesAudience /\ Sight!ReactionsAgree
    BY DEF ReachesAudience
  <2>1. ASSUME Sight!Quiet
        PROVE  \A u \in Users \ (moved \cup overlooked) :
                 copy[u] = Due(u) /\ (copy[u] # 0 => (u \in marks <=> mark))
    <3>1. /\ ~ sightCrossed /\ \A r \in Requests : sightRequest[r] = None
      BY <2>1 DEF Sight!Quiet
    <3> QED BY <3>1 DEF SightInv, CopiesFollow, MarksFollow, Before, Doing, Claimed
  <2>2. SightTyped /\ MarkedShow
    BY DEF SightInv
  <2>3. Sight!ReachesAudience
    BY <2>1 DEF Sight!ReachesAudience, Due, Sees
  <2>4. ASSUME Sight!Quiet, NEW u \in Users \ (moved \cup overlooked), copy[u] # 0
        PROVE  (u \in marks) = mark
    <3>1. u \in marks <=> mark
      BY <2>1, <2>4
    <3>2. mark = TRUE \/ mark = FALSE
      BY <2>2 DEF SightTyped
    <3> QED BY <3>1, <3>2, Zenon
  <2> QED BY <2>2, <2>3, <2>4 DEF Sight!ReactionsAgree, MarkedShow
<1> QED BY <1>1, SightInit, SightNext, PTL DEF Spec

-----------------------------------------------------------------------------
(* The stage of one channel. *)

StageTyped ==
  /\ room \in Seq(Listeners) /\ seats \in Seq(Listeners) /\ stageQueue \in Seq(Listeners)
  /\ mode \in {"FREE", "STAGE"} /\ maxSpeakers \in 1 .. HardMaxSpeakers
  /\ dirty \in BOOLEAN /\ patching \in BOOLEAN
  /\ muted \subseteq Listeners /\ sharing \subseteq Listeners

\* The seats are those of a stage, and no more than it has.
SeatsFit ==
  /\ Len(seats) <= maxSpeakers
  /\ mode = "FREE" => seats = <<>>

\* What no reconcile is owed for.
RowsInRoom ==
  OnStage!Settled =>
    /\ OnStage!Range(seats) \cup OnStage!Range(stageQueue) \cup muted \cup sharing
         \subseteq OnStage!Range(room)
    /\ \A u \in OnStage!Range(room) : u \notin muted \/ u \notin OnStage!Range(seats)
    /\ \A i \in DOMAIN room : room[i] \in muted => i > CapacityWindow
    /\ mode = "FREE" => Len(room) <= CapacityWindow

StageInv == StageTyped /\ SeatsFit /\ RowsInRoom

\* A set of numbers has a smallest.
LEMMA Smallest ==
  ASSUME NEW S \in SUBSET Nat, S # {}
  PROVE  \E m \in S : \A x \in S : m <= x
<1>1. PICK n \in S : n \in Nat
  OBVIOUS
<1> DEFINE T == {i \in 0 .. n : n - i \in S}
<1>2. T \in SUBSET Nat /\ IsFiniteSet(T) /\ 0 \in T
  <2>1. IsFiniteSet(0 .. n)
    BY <1>1, FS_Interval
  <2>2. T \subseteq 0 .. n /\ n - 0 = n /\ 0 \in 0 .. n /\ 0 .. n \subseteq Nat
    BY <1>1
  <2> QED BY <1>1, <2>1, <2>2, FS_Subset
<1>3. PICK i \in T : \A j \in T : i >= j
  BY <1>2, Largest
<1>4. ASSUME NEW x \in S PROVE n - i <= x
  <2>1. CASE x <= n
    <3>1. n - x \in 0 .. n /\ n - (n - x) = x
      BY <1>1, <2>1
    <3>2. n - x \in T
      BY <3>1
    <3> QED BY <1>1, <1>3, <2>1, <3>2
  <2>2. CASE ~ (x <= n)
    BY <1>1, <1>3, <2>2
  <2> QED BY <2>1, <2>2
<1>5. n - i \in S
  BY <1>3
<1> QED BY <1>4, <1>5

\* Kept is what its recursion says.
LEMMA KeptUnfolds ==
  ASSUME NEW s \in Seq(Listeners), NEW S
  PROVE  \E f : /\ f = [n \in 0 .. Len(s) |->
                          IF n = 0 THEN <<>>
                          ELSE IF s[n] \in S THEN Append(f[n - 1], s[n]) ELSE f[n - 1]]
                /\ OnStage!Kept(s, S) = f[Len(s)]
<1> DEFINE Next_(f, n) == IF n = 0 THEN <<>>
                          ELSE IF s[n] \in S THEN Append(f[n - 1], s[n]) ELSE f[n - 1]
           Def(f, m) == f = [n \in 0 .. m |-> Next_(f, n)]
           Bad == {m \in Nat : ~ \E f : Def(f, m)}
<1>1. Bad = {}
  <2> SUFFICES ASSUME Bad # {} PROVE FALSE
    OBVIOUS
  <2>1. PICK m \in Bad : \A x \in Bad : m <= x
    <3>1. Bad \in SUBSET Nat
      OBVIOUS
    <3> HIDE DEF Bad
    <3> QED BY <3>1, Smallest
  <2>2. m \in Nat
    OBVIOUS
  <2>3. CASE m = 0
    <3> DEFINE f == [n \in 0 .. 0 |-> <<>>]
    <3>1. Def(f, 0)
      <4>1. \A n \in 0 .. 0 : n = 0
        OBVIOUS
      <4> QED BY <4>1
    <3> QED BY <2>1, <2>3, <3>1
  <2>4. CASE m # 0
    <3>1. m - 1 \in Nat /\ ~ (m <= m - 1)
      BY <2>2, <2>4
    <3>2. PICK g : Def(g, m - 1)
      BY <2>1, <3>1
    <3> DEFINE f == [n \in 0 .. m |-> IF n = m THEN Next_(g, m) ELSE g[n]]
    <3>3. ASSUME NEW n \in 0 .. m PROVE f[n] = Next_(f, n)
      <4>1. n # 0 => n - 1 \in 0 .. m /\ n - 1 # m /\ n - 1 \in 0 .. m - 1
        BY <2>2
      <4>2. n # 0 => f[n - 1] = g[n - 1]
        BY <4>1
      <4>3. Next_(f, n) = Next_(g, n)
        BY <4>2
      <4>4. CASE n = m
        BY <4>3, <4>4
      <4>5. CASE n # m
        <5>1. n \in 0 .. m - 1
          BY <2>2, <4>5
        <5>2. g[n] = Next_(g, n)
          BY <3>2, <5>1
        <5>3. f[n] = g[n]
          BY <4>5
        <5> QED BY <4>3, <5>2, <5>3
      <4> QED BY <4>4, <4>5
    <3>4. Def(f, m)
      <4>1. f = [n \in 0 .. m |-> f[n]]
        OBVIOUS
      <4> HIDE DEF f, Next_
      <4> QED BY <3>3, <4>1
    <3> QED BY <2>1, <3>4
  <2> QED BY <2>3, <2>4
<1>2. Len(s) \in Nat
  OBVIOUS
<1>3. \E f : Def(f, Len(s))
  BY <1>1, <1>2
<1> DEFINE kept == CHOOSE f : f = [n \in 0 .. Len(s) |->
                          IF n = 0 THEN <<>>
                          ELSE IF s[n] \in S THEN Append(f[n - 1], s[n]) ELSE f[n - 1]]
<1>4. Def(kept, Len(s))
  BY <1>3
<1>5. OnStage!Kept(s, S) = kept[Len(s)]
  BY DEF OnStage!Kept
<1> HIDE DEF kept
<1> QED BY <1>4, <1>5

\* t is the rows of the first n of s that are in S: the rows g tells.
Picks(g, t, s, S, n) ==
  /\ g \in [1 .. Len(t) -> 1 .. n]
  /\ \A i, j \in 1 .. Len(t) : i < j => g[i] < g[j]
  /\ \A i \in 1 .. Len(t) : i <= g[i] /\ t[i] = s[g[i]] /\ s[g[i]] \in S
  /\ \A j \in 1 .. n : s[j] \in S => \E i \in 1 .. Len(t) : g[i] = j

LEMMA KeptPicks ==
  ASSUME NEW s \in Seq(Listeners), NEW S
  PROVE  /\ OnStage!Kept(s, S) \in Seq(Listeners)
         /\ \E g : Picks(g, OnStage!Kept(s, S), s, S, Len(s))
<1>1. PICK f : /\ f = [n \in 0 .. Len(s) |->
                         IF n = 0 THEN <<>>
                         ELSE IF s[n] \in S THEN Append(f[n - 1], s[n]) ELSE f[n - 1]]
               /\ OnStage!Kept(s, S) = f[Len(s)]
  BY KeptUnfolds
<1> DEFINE Bad == {n \in 0 .. Len(s) : ~ (f[n] \in Seq(Listeners) /\ \E g : Picks(g, f[n], s, S, n))}
<1>2. Len(s) \in Nat
  OBVIOUS
<1>3. Bad = {}
  <2> SUFFICES ASSUME Bad # {} PROVE FALSE
    OBVIOUS
  <2>1. PICK n \in Bad : \A x \in Bad : n <= x
    <3>1. Bad \in SUBSET Nat
      BY <1>2
    <3> HIDE DEF Bad
    <3> QED BY <3>1, Smallest
  <2>2. n \in 0 .. Len(s) /\ n \in Nat
    BY <1>2
  <2>3. CASE n = 0
    <3>1. f[0] = <<>> /\ Len(<<>>) = 0 /\ <<>> \in Seq(Listeners)
      BY <1>1, <1>2
    <3>2. Picks([i \in 1 .. 0 |-> 0], <<>>, s, S, 0)
      BY <3>1 DEF Picks
    <3> QED BY <2>1, <2>3, <3>1, <3>2
  <2>4. CASE n # 0
    <3> DEFINE t == f[n - 1]
    <3>1. n - 1 \in 0 .. Len(s) /\ ~ (n <= n - 1) /\ n \in 1 .. Len(s) /\ n - 1 \in Nat
      BY <1>2, <2>2, <2>4
    <3>2. t \in Seq(Listeners) /\ \E g : Picks(g, t, s, S, n - 1)
      BY <2>1, <3>1
    <3>3. f[n] = IF s[n] \in S THEN Append(t, s[n]) ELSE t
      BY <1>1, <2>2, <2>4
    <3>4. s[n] \in Listeners
      BY <3>1
    <3> HIDE DEF t
    <3>5. PICK g : Picks(g, t, s, S, n - 1)
      BY <3>2
    <3>6. CASE s[n] \notin S
      <4>1. Picks(g, t, s, S, n)
        <5>1. \A j \in 1 .. n : j = n \/ j \in 1 .. n - 1
          BY <2>2
        <5>2. 1 .. n - 1 \subseteq 1 .. n
          BY <2>2
        <5> QED BY <3>5, <3>6, <5>1, <5>2 DEF Picks
      <4> QED BY <2>1, <3>2, <3>3, <3>6, <4>1
    <3>7. CASE s[n] \in S
      <4> DEFINE l == Len(t)
                 u == Append(t, s[n])
                 h == [i \in 1 .. l + 1 |-> IF i = l + 1 THEN n ELSE g[i]]
      <4>1. /\ l \in Nat /\ u \in Seq(Listeners) /\ Len(u) = l + 1
            /\ u[l + 1] = s[n] /\ \A i \in 1 .. l : u[i] = t[i]
        BY <3>2, <3>4
      <4>2. /\ g \in [1 .. l -> 1 .. n - 1]
            /\ \A i, j \in 1 .. l : i < j => g[i] < g[j]
            /\ \A i \in 1 .. l : i <= g[i] /\ t[i] = s[g[i]] /\ s[g[i]] \in S
            /\ \A j \in 1 .. n - 1 : s[j] \in S => \E i \in 1 .. l : g[i] = j
        BY <3>5 DEF Picks
      <4> HIDE DEF l, u
      <4>3. \A i \in 1 .. l : g[i] \in 1 .. n - 1 /\ g[i] < n /\ g[i] \in Nat
        BY <2>2, <4>2
      <4>4. h[l + 1] = n /\ \A i \in 1 .. l : h[i] = g[i] /\ i \in 1 .. l + 1
        BY <4>1
      <4>5. \A i \in 1 .. l + 1 : i = l + 1 \/ i \in 1 .. l
        BY <4>1
      <4>6. h \in [1 .. l + 1 -> 1 .. n]
        BY <2>2, <3>1, <4>3, <4>5
      <4>7. l + 1 <= n
        <5>1. CASE l = 0
          BY <3>1, <5>1
        <5>2. CASE l # 0
          <6>1. l \in 1 .. l
            BY <4>1, <5>2
          <6> QED BY <2>2, <4>1, <4>2, <4>3, <6>1
        <5> QED BY <5>1, <5>2
      <4> HIDE DEF h
      <4>8. \A i, j \in 1 .. l + 1 : i < j => h[i] < h[j]
        <5> SUFFICES ASSUME NEW i \in 1 .. l + 1, NEW j \in 1 .. l + 1, i < j PROVE h[i] < h[j]
          OBVIOUS
        <5>1. i \in 1 .. l
          BY <4>1
        <5>2. CASE j = l + 1
          BY <4>3, <4>4, <5>1, <5>2
        <5>3. CASE j \in 1 .. l
          BY <4>2, <4>4, <5>1, <5>3
        <5> QED BY <4>5, <5>2, <5>3
      <4>9. \A i \in 1 .. l + 1 : i <= h[i] /\ u[i] = s[h[i]] /\ s[h[i]] \in S
        <5> SUFFICES ASSUME NEW i \in 1 .. l + 1 PROVE i <= h[i] /\ u[i] = s[h[i]] /\ s[h[i]] \in S
          OBVIOUS
        <5>1. CASE i = l + 1
          BY <3>7, <4>1, <4>4, <4>7, <5>1
        <5>2. CASE i \in 1 .. l
          BY <4>1, <4>2, <4>4, <5>2
        <5> QED BY <4>5, <5>1, <5>2
      <4>10. \A j \in 1 .. n : s[j] \in S => \E i \in 1 .. l + 1 : h[i] = j
        <5> SUFFICES ASSUME NEW j \in 1 .. n, s[j] \in S PROVE \E i \in 1 .. l + 1 : h[i] = j
          OBVIOUS
        <5>1. CASE j = n
          <6>1. l + 1 \in 1 .. l + 1
            BY <4>1
          <6> QED BY <4>4, <5>1, <6>1
        <5>2. CASE j \in 1 .. n - 1
          <6>1. PICK i \in 1 .. l : g[i] = j
            BY <4>2, <5>2
          <6>2. i \in 1 .. l + 1 /\ h[i] = j
            BY <4>4, <6>1
          <6> QED BY <6>2
        <5>3. j = n \/ j \in 1 .. n - 1
          BY <2>2
        <5> QED BY <5>1, <5>2, <5>3
      <4>11. Picks(h, u, s, S, n)
        BY <4>1, <4>6, <4>8, <4>9, <4>10 DEF Picks
      <4>12. f[n] = u
        BY <3>3, <3>7 DEF u
      <4> QED BY <2>1, <4>1, <4>11, <4>12
    <3> QED BY <3>6, <3>7
  <2> QED BY <2>3, <2>4
<1>4. Len(s) \in 0 .. Len(s)
  BY <1>2
<1> QED BY <1>1, <1>3, <1>4

\* What Kept keeps, and that it keeps the order.
LEMMA KeptFacts ==
  ASSUME NEW s \in Seq(Listeners), NEW S
  PROVE  /\ OnStage!Kept(s, S) \in Seq(Listeners)
         /\ OnStage!Range(OnStage!Kept(s, S)) = OnStage!Range(s) \cap S
         /\ \A m \in Nat : (\A i \in 1 .. Len(s) : i > m => s[i] \notin S) => Len(OnStage!Kept(s, S)) <= m
         /\ \A u \in S, v \in S : OnStage!Before(s, u, v) => OnStage!Before(OnStage!Kept(s, S), u, v)
<1> DEFINE t == OnStage!Kept(s, S)
<1>1. t \in Seq(Listeners) /\ \E g : Picks(g, t, s, S, Len(s))
  BY KeptPicks
<1> HIDE DEF t
<1>2. PICK g : Picks(g, t, s, S, Len(s))
  BY <1>1
<1>3. /\ Len(t) \in Nat /\ Len(s) \in Nat /\ DOMAIN t = 1 .. Len(t) /\ DOMAIN s = 1 .. Len(s)
  BY <1>1
<1>4. /\ g \in [1 .. Len(t) -> 1 .. Len(s)]
      /\ \A i, j \in 1 .. Len(t) : i < j => g[i] < g[j]
      /\ \A i \in 1 .. Len(t) : i <= g[i] /\ t[i] = s[g[i]] /\ s[g[i]] \in S
      /\ \A j \in 1 .. Len(s) : s[j] \in S => \E i \in 1 .. Len(t) : g[i] = j
  BY <1>2 DEF Picks
<1>5. \A i \in 1 .. Len(t) : g[i] \in 1 .. Len(s)
  BY <1>4
<1>6. OnStage!Range(t) = OnStage!Range(s) \cap S
  <2>1. ASSUME NEW x \in OnStage!Range(t) PROVE x \in OnStage!Range(s) \cap S
    <3>1. PICK i \in 1 .. Len(t) : x = t[i]
      BY <1>3 DEF OnStage!Range
    <3> QED BY <1>3, <1>4, <1>5, <3>1 DEF OnStage!Range
  <2>2. ASSUME NEW x \in OnStage!Range(s) \cap S PROVE x \in OnStage!Range(t)
    <3>1. PICK j \in 1 .. Len(s) : x = s[j]
      BY <1>3 DEF OnStage!Range
    <3>2. PICK i \in 1 .. Len(t) : g[i] = j
      BY <1>4, <3>1
    <3> QED BY <1>3, <1>4, <3>1, <3>2 DEF OnStage!Range
  <2> QED BY <2>1, <2>2
<1>7. ASSUME NEW m \in Nat, \A i \in 1 .. Len(s) : i > m => s[i] \notin S
      PROVE  Len(t) <= m
  <2>1. CASE Len(t) = 0
    BY <2>1
  <2>2. CASE Len(t) # 0
    <3>1. Len(t) \in 1 .. Len(t)
      BY <1>3, <2>2
    <3>2. g[Len(t)] \in 1 .. Len(s) /\ Len(t) <= g[Len(t)] /\ s[g[Len(t)]] \in S
      BY <1>4, <1>5, <3>1
    <3> QED BY <1>3, <1>7, <3>2
  <2> QED BY <2>1, <2>2
<1>8. ASSUME NEW u \in S, NEW v \in S, OnStage!Before(s, u, v)
      PROVE  OnStage!Before(t, u, v)
  <2>1. PICK i \in 1 .. Len(s), j \in 1 .. Len(s) : i < j /\ s[i] = u /\ s[j] = v
    BY <1>3, <1>8 DEF OnStage!Before
  <2>2. PICK a \in 1 .. Len(t) : g[a] = i
    BY <1>4, <2>1
  <2>3. PICK b \in 1 .. Len(t) : g[b] = j
    BY <1>4, <2>1
  <2>4. a < b
    <3>1. a = b \/ b < a \/ a < b
      OBVIOUS
    <3>2. i # j /\ ~ (j < i)
      BY <1>3, <2>1
    <3> QED BY <1>4, <2>2, <2>3, <3>1, <3>2
  <2>5. t[a] = u /\ t[b] = v
    BY <1>4, <2>1, <2>2, <2>3
  <2> QED BY <1>3, <2>4, <2>5 DEF OnStage!Before
<1> QED BY <1>1, <1>6, <1>7, <1>8 DEF t

LEMMA WithoutFacts ==
  ASSUME NEW s \in Seq(Listeners), NEW S
  PROVE  /\ OnStage!Without(s, S) \in Seq(Listeners)
         /\ OnStage!Range(OnStage!Without(s, S)) = OnStage!Range(s) \ S
         /\ \A m \in Nat : (\A i \in 1 .. Len(s) : i > m => s[i] \in S) => Len(OnStage!Without(s, S)) <= m
         /\ Len(OnStage!Without(s, S)) <= Len(s)
         /\ \A u, v : OnStage!Before(s, u, v) /\ u \notin S /\ v \notin S =>
                        OnStage!Before(OnStage!Without(s, S), u, v)
<1> DEFINE R == OnStage!Range(s) \ S
           t == OnStage!Kept(s, R)
<1>1. /\ t \in Seq(Listeners)
      /\ OnStage!Range(t) = OnStage!Range(s) \cap R
      /\ \A m \in Nat : (\A i \in 1 .. Len(s) : i > m => s[i] \notin R) => Len(t) <= m
      /\ \A u \in R, v \in R : OnStage!Before(s, u, v) => OnStage!Before(t, u, v)
  BY KeptFacts
<1>2. OnStage!Without(s, S) = t
  BY DEF OnStage!Without
<1> HIDE DEF t
<1>3. Len(s) \in Nat /\ \A i \in 1 .. Len(s) : ~ (i > Len(s))
  OBVIOUS
<1>4. OnStage!Range(s) \cap R = OnStage!Range(s) \ S
  OBVIOUS
<1>5. \A u, v : OnStage!Before(s, u, v) => u \in OnStage!Range(s) /\ v \in OnStage!Range(s)
  BY DEF OnStage!Before, OnStage!Range
<1>6. \A m \in Nat : (\A i \in 1 .. Len(s) : i > m => s[i] \in S) => Len(t) <= m
  BY <1>1
<1>7. Len(t) <= Len(s)
  BY <1>3, <1>6
<1>8. \A u, v : OnStage!Before(s, u, v) /\ u \notin S /\ v \notin S => OnStage!Before(t, u, v)
  BY <1>1, <1>5
<1> QED BY <1>1, <1>2, <1>4, <1>6, <1>7, <1>8

LEMMA FirstOfFacts ==
  ASSUME NEW s \in Seq(Listeners), NEW n \in Int
  PROVE  /\ OnStage!FirstOf(s, n) \in Seq(Listeners)
         /\ OnStage!Range(OnStage!FirstOf(s, n)) \subseteq OnStage!Range(s)
         /\ n \in Nat => Len(OnStage!FirstOf(s, n)) <= n
<1> DEFINE m == IF Len(s) <= n THEN Len(s) ELSE n
<1>1. m \in Int /\ m <= Len(s) /\ m <= n /\ Len(s) \in Nat /\ DOMAIN s = 1 .. Len(s)
  OBVIOUS
<1>2. OnStage!FirstOf(s, n) = SubSeq(s, 1, m)
  BY DEF OnStage!FirstOf
<1> HIDE DEF m
<1>3. CASE m < 1
  <2>1. SubSeq(s, 1, m) = <<>>
    BY <1>1, <1>3
  <2>2. <<>> \in Seq(Listeners) /\ Len(<<>>) = 0 /\ DOMAIN <<>> = {}
    OBVIOUS
  <2>3. OnStage!Range(<<>>) = {}
    BY <2>2 DEF OnStage!Range
  <2>4. OnStage!FirstOf(s, n) = <<>>
    BY <1>2, <2>1
  <2> DEFINE t == OnStage!FirstOf(s, n)
  <2>5. t \in Seq(Listeners) /\ Len(t) = 0 /\ OnStage!Range(t) = {}
    BY <2>2, <2>3, <2>4
  <2> HIDE DEF t
  <2>6. /\ t \in Seq(Listeners) /\ OnStage!Range(t) \subseteq OnStage!Range(s)
        /\ n \in Nat => Len(t) <= n
    BY <2>5
  <2> QED BY <2>6 DEF t
<1>4. CASE 1 <= m
  <2> DEFINE t == SubSeq(s, 1, m)
  <2>1. t \in Seq(Listeners) /\ Len(t) = m /\ DOMAIN t = 1 .. m /\ \A i \in 1 .. m : t[i] = s[i]
    BY <1>1, <1>4
  <2> HIDE DEF t
  <2>2. OnStage!Range(t) \subseteq OnStage!Range(s)
    BY <1>1, <2>1 DEF OnStage!Range
  <2> QED BY <1>1, <1>2, <2>1, <2>2 DEF t
<1> QED BY <1>1, <1>3, <1>4

LEMMA JoinedFacts ==
  ASSUME NEW s \in Seq(Listeners), NEW t \in Seq(Listeners)
  PROVE  /\ s \o t \in Seq(Listeners) /\ Len(s \o t) = Len(s) + Len(t)
         /\ OnStage!Range(s \o t) = OnStage!Range(s) \cup OnStage!Range(t)
         /\ \A u, v : OnStage!Before(s, u, v) => OnStage!Before(s \o t, u, v)
         /\ \A u \in OnStage!Range(s), v \in OnStage!Range(t) : OnStage!Before(s \o t, u, v)
<1> DEFINE w == s \o t
<1>1. /\ w \in Seq(Listeners) /\ Len(w) = Len(s) + Len(t) /\ Len(s) \in Nat /\ Len(t) \in Nat
      /\ DOMAIN w = 1 .. Len(s) + Len(t) /\ DOMAIN s = 1 .. Len(s) /\ DOMAIN t = 1 .. Len(t)
      /\ \A i \in 1 .. Len(s) : w[i] = s[i]
      /\ \A i \in 1 .. Len(t) : w[Len(s) + i] = t[i]
  OBVIOUS
<1> HIDE DEF w
<1>2. /\ \A i \in 1 .. Len(s) : i \in DOMAIN w
      /\ \A i \in 1 .. Len(t) : Len(s) + i \in DOMAIN w
      /\ \A i \in DOMAIN w : i \in 1 .. Len(s) \/ \E j \in 1 .. Len(t) : i = Len(s) + j
  <2>1. \A i \in DOMAIN w : i \in 1 .. Len(s) \/ (i - Len(s) \in 1 .. Len(t) /\ i = Len(s) + (i - Len(s)))
    BY <1>1
  <2>2. /\ \A i \in 1 .. Len(s) : i \in DOMAIN w
        /\ \A i \in 1 .. Len(t) : Len(s) + i \in DOMAIN w
    BY <1>1
  <2> QED BY <2>1, <2>2
<1>3. OnStage!Range(w) = OnStage!Range(s) \cup OnStage!Range(t)
  <2>1. ASSUME NEW x \in OnStage!Range(w) PROVE x \in OnStage!Range(s) \cup OnStage!Range(t)
    <3>1. PICK i \in DOMAIN w : x = w[i]
      BY DEF OnStage!Range
    <3> QED BY <1>1, <1>2, <3>1 DEF OnStage!Range
  <2>2. ASSUME NEW x \in OnStage!Range(s) PROVE x \in OnStage!Range(w)
    BY <1>1, <1>2 DEF OnStage!Range
  <2>3. ASSUME NEW x \in OnStage!Range(t) PROVE x \in OnStage!Range(w)
    BY <1>1, <1>2 DEF OnStage!Range
  <2> QED BY <2>1, <2>2, <2>3
<1>4. \A u, v : OnStage!Before(s, u, v) => OnStage!Before(w, u, v)
  BY <1>1, <1>2 DEF OnStage!Before
<1>5. ASSUME NEW u \in OnStage!Range(s), NEW v \in OnStage!Range(t) PROVE OnStage!Before(w, u, v)
  <2>1. PICK i \in 1 .. Len(s) : s[i] = u
    BY <1>1 DEF OnStage!Range
  <2>2. PICK j \in 1 .. Len(t) : t[j] = v
    BY <1>1 DEF OnStage!Range
  <2>3. i < Len(s) + j /\ w[i] = u /\ w[Len(s) + j] = v
    BY <1>1, <2>1, <2>2
  <2> QED BY <1>2, <2>1, <2>2, <2>3 DEF OnStage!Before
<1> QED BY <1>1, <1>3, <1>4, <1>5 DEF w

LEMMA AppendedFacts ==
  ASSUME NEW s \in Seq(Listeners), NEW x \in Listeners
  PROVE  /\ Append(s, x) \in Seq(Listeners) /\ Len(Append(s, x)) = Len(s) + 1
         /\ OnStage!Range(Append(s, x)) = OnStage!Range(s) \cup {x}
         /\ \A u, v : OnStage!Before(s, u, v) => OnStage!Before(Append(s, x), u, v)
         /\ \A u \in OnStage!Range(s) : OnStage!Before(Append(s, x), u, x)
<1> DEFINE w == <<x>>
<1>1. Append(s, x) = s \o w /\ w \in Seq(Listeners) /\ Len(w) = 1 /\ w[1] = x /\ DOMAIN w = 1 .. 1
  OBVIOUS
<1> HIDE DEF w
<1>2. OnStage!Range(w) = {x}
  <2>1. \A i \in DOMAIN w : i = 1
    BY <1>1
  <2>2. 1 \in DOMAIN w
    BY <1>1
  <2> QED BY <1>1, <2>1, <2>2 DEF OnStage!Range
<1>3. /\ s \o w \in Seq(Listeners) /\ Len(s \o w) = Len(s) + 1
      /\ OnStage!Range(s \o w) = OnStage!Range(s) \cup {x}
      /\ \A u, v : OnStage!Before(s, u, v) => OnStage!Before(s \o w, u, v)
      /\ \A u \in OnStage!Range(s) : OnStage!Before(s \o w, u, x)
  BY <1>1, <1>2, JoinedFacts
<1> QED BY <1>1, <1>3

LEMMA SameNumber == ASSUME NEW S PROVE OnStage!Cardinality(S) = Cardinality(S)
  BY DEF Cardinality, OnStage!Cardinality

\* Whatever order is chosen, the rows are the same.
LEMMA OrdersFacts ==
  ASSUME NEW s \in Seq(Listeners), NEW t \in OnStage!Orders(s)
  PROVE  t \in Seq(Listeners) /\ Len(t) = Len(s) /\ OnStage!Range(t) \subseteq OnStage!Range(s)
<1>1. DOMAIN s = 1 .. Len(s) /\ Len(s) \in Nat
  OBVIOUS
<1>2. OnStage!Cardinality(DOMAIN s) = Len(s)
  <2>1. Cardinality(1 .. Len(s)) = Len(s)
    BY <1>1, FS_Interval
  <2> QED BY <1>1, <2>1, SameNumber
<1>3. PICK p \in OnStage!SetToSeqs(DOMAIN s) : t = [i \in DOMAIN s |-> s[p[i]]]
  BY DEF OnStage!Orders
<1>4. p \in [1 .. Len(s) -> DOMAIN s]
  BY <1>2, <1>3 DEF OnStage!SetToSeqs
<1>5. \A i \in DOMAIN s : p[i] \in DOMAIN s /\ s[p[i]] \in Listeners
  BY <1>1, <1>4
<1>6. t \in [1 .. Len(s) -> Listeners]
  BY <1>1, <1>3, <1>5
<1>7. t \in Seq(Listeners) /\ Len(t) = Len(s) /\ DOMAIN t = DOMAIN s
  BY <1>1, <1>3, <1>6
<1>8. \A i \in DOMAIN t : t[i] = s[p[i]] /\ p[i] \in DOMAIN s
  BY <1>3, <1>5, <1>7
<1> QED BY <1>7, <1>8 DEF OnStage!Range

LEMMA StageInit == Init => StageInv
<1> SUFFICES ASSUME Init PROVE StageInv
  OBVIOUS
<1>1. /\ room = <<>> /\ seats = <<>> /\ stageQueue = <<>> /\ ~ dirty /\ ~ patching
      /\ dirty \in BOOLEAN /\ patching \in BOOLEAN
      /\ mode = "FREE" /\ maxSpeakers \in 1 .. HardMaxSpeakers /\ muted = {} /\ sharing = {}
  BY DEF Init, OnStage!Init
<1>2. <<>> \in Seq(Listeners) /\ Len(<<>>) = 0 /\ DOMAIN <<>> = {}
  OBVIOUS
<1>3. OnStage!Range(<<>>) = {}
  BY <1>2 DEF OnStage!Range
<1>4. StageTyped /\ SeatsFit
  BY <1>1, <1>2, BoundsAreNumbers DEF StageTyped, SeatsFit
<1>5. RowsInRoom
  BY <1>1, <1>2, <1>3, BoundsAreNumbers DEF RowsInRoom
<1> QED BY <1>4, <1>5 DEF StageInv

\* Who joins or leaves owes a reconcile.
LEMMA StageVoiceKeeps ==
  ASSUME StageInv, NEW u \in Listeners,
         \/ OnStage!Join(u) \/ OnStage!Rejoin(u) \/ OnStage!Leave(u) \/ OnStage!ConnectedChange(u)
  PROVE  StageInv'
<1>t. StageTyped /\ SeatsFit /\ RowsInRoom
  BY DEF StageInv
<1>1. UNCHANGED <<mode, maxSpeakers, seats, stageQueue, muted, sharing, patching>>
  BY DEF OnStage!Join, OnStage!Rejoin, OnStage!Leave, OnStage!ConnectedChange, OnStage!configVars,
     OnStage!rowVars
<1>2. \/ dirty' = TRUE
      \/ room' = room /\ dirty' = dirty
  BY DEF OnStage!Join, OnStage!Rejoin, OnStage!Leave, OnStage!ConnectedChange
<1>3. room' \in Seq(Listeners)
  <2>1. OnStage!Without(room, {u}) \in Seq(Listeners)
    BY <1>t, WithoutFacts DEF StageTyped
  <2>2. room \in Seq(Listeners)
    BY <1>t DEF StageTyped
  <2>3. \A s \in Seq(Listeners) : Append(s, u) \in Seq(Listeners)
    BY AppendedFacts
  <2> QED BY <2>1, <2>2, <2>3 DEF OnStage!Join, OnStage!Rejoin, OnStage!Leave, OnStage!ConnectedChange
<1>4. StageTyped' /\ SeatsFit'
  BY <1>t, <1>1, <1>2, <1>3 DEF StageTyped, SeatsFit
<1>5. RowsInRoom'
  <2>1. CASE dirty' = TRUE
    BY <2>1 DEF RowsInRoom, OnStage!Settled
  <2>2. CASE room' = room /\ dirty' = dirty
    BY <1>t, <1>1, <2>2 DEF RowsInRoom, OnStage!Settled
  <2> QED BY <1>2, <2>1, <2>2
<1> QED BY <1>4, <1>5 DEF StageInv

\* The seats of a stage that begins.
LEMMA RetainedFacts ==
  ASSUME StageTyped, seats = <<>>, NEW max \in Nat
  PROVE  /\ OnStage!Retained(max) \in Seq(Listeners)
         /\ Len(OnStage!Retained(max)) <= max
<1> DEFINE E == OnStage!FirstOf(OnStage!Without(room, muted \cup Restricted), max)
           W == OnStage!Without(E, OnStage!Range(seats))
<1>1. OnStage!Without(room, muted \cup Restricted) \in Seq(Listeners)
  BY WithoutFacts DEF StageTyped
<1>2. E \in Seq(Listeners) /\ Len(E) <= max
  BY <1>1, FirstOfFacts
<1>3. OnStage!Retained(max) = seats \o W
  BY DEF OnStage!Retained
<1> HIDE DEF E
<1>4. W \in Seq(Listeners) /\ Len(W) <= Len(E)
  BY <1>2, WithoutFacts
<1> HIDE DEF W
<1>5. seats \o W \in Seq(Listeners) /\ Len(seats \o W) = Len(W)
  <2>1. seats \in Seq(Listeners) /\ Len(seats) = 0
    BY DEF StageTyped
  <2> QED BY <1>4, <2>1, JoinedFacts
<1>6. Len(E) \in Nat /\ Len(W) \in Nat
  BY <1>2, <1>4
<1> QED BY <1>2, <1>3, <1>4, <1>5, <1>6

\* What a reconcile leaves of the queue comes first, and those it captures
\* are in the room and were not queued.
LEMMA ReconcileQueues ==
  ASSUME StageTyped, OnStage!Reconcile
  PROVE  \E rows \in Seq(Listeners), late \in Seq(Listeners) :
           /\ rows = OnStage!Kept(stageQueue, OnStage!Range(room))
           /\ stageQueue' = rows \o late
           /\ OnStage!Range(rows) = OnStage!Range(stageQueue) \cap OnStage!Range(room)
           /\ OnStage!Range(late) \subseteq OnStage!Range(room)
           /\ OnStage!Range(late) \cap OnStage!Range(rows) = {}
<1> DEFINE seats1  == OnStage!Synced(IF OnStage!Forced THEN OnStage!Retained(maxSpeakers) ELSE seats)
           rows    == OnStage!Synced(stageQueue)
           exempt  == {room[i] : i \in {j \in DOMAIN room : OnStage!Exempt(j, OnStage!Range(seats1))}}
           toMute  == OnStage!Without(room, exempt \cup muted)
           n       == MaxQueueLength - Len(rows)
           rest    == OnStage!Without(toMute, OnStage!Range(rows))
           toQueue == IF OnStage!Forced \/ mode = "STAGE" THEN OnStage!FirstOf(rest, n) ELSE <<>>
<1>1. PICK late \in OnStage!Orders(toQueue) : stageQueue' = OnStage!Queued(rows, late)
  BY DEF OnStage!Reconcile
<1>2. /\ rows = OnStage!Kept(stageQueue, OnStage!Range(room)) /\ rows \in Seq(Listeners)
      /\ OnStage!Range(rows) = OnStage!Range(stageQueue) \cap OnStage!Range(room)
  BY KeptFacts DEF StageTyped, OnStage!Synced
<1>3. toMute \in Seq(Listeners) /\ OnStage!Range(toMute) \subseteq OnStage!Range(room)
  BY WithoutFacts DEF StageTyped
<1> HIDE DEF toMute, rows
<1>4. /\ rest \in Seq(Listeners)
      /\ OnStage!Range(rest) = OnStage!Range(toMute) \ OnStage!Range(rows)
  BY <1>3, WithoutFacts
<1>5. n \in Int
  BY <1>2, BoundsAreNumbers
<1> HIDE DEF rest, n
<1>6. toQueue \in Seq(Listeners) /\ OnStage!Range(toQueue) \subseteq OnStage!Range(rest)
  <2>1. CASE OnStage!Forced \/ mode = "STAGE"
    BY <1>4, <1>5, <2>1, FirstOfFacts
  <2>2. CASE ~ (OnStage!Forced \/ mode = "STAGE")
    <3>1. <<>> \in Seq(Listeners) /\ DOMAIN <<>> = {}
      OBVIOUS
    <3>2. OnStage!Range(<<>>) = {}
      BY <3>1 DEF OnStage!Range
    <3>3. toQueue = <<>>
      BY <2>2
    <3> HIDE DEF toQueue
    <3>4. OnStage!Range(toQueue) = {}
      BY <3>2, <3>3
    <3> QED BY <3>1, <3>3, <3>4
  <2> QED BY <2>1, <2>2
<1> HIDE DEF toQueue
<1>7. late \in Seq(Listeners) /\ OnStage!Range(late) \subseteq OnStage!Range(toQueue)
  BY <1>6, OrdersFacts
<1>8. stageQueue' = rows \o late
  BY <1>1 DEF OnStage!Queued
<1> QED BY <1>2, <1>3, <1>4, <1>6, <1>7, <1>8

LEMMA StageReconcileKeeps ==
  ASSUME StageInv, OnStage!Reconcile
  PROVE  StageInv'
<1>t. StageTyped /\ SeatsFit /\ RowsInRoom
  BY DEF StageInv
<1> DEFINE seats0 == IF OnStage!Forced THEN OnStage!Retained(maxSpeakers) ELSE seats
           seats1 == OnStage!Synced(seats0)
           exempt == {room[i] : i \in {j \in DOMAIN room : OnStage!Exempt(j, OnStage!Range(seats1))}}
<1>1. /\ mode' = (IF OnStage!Forced THEN "STAGE" ELSE mode)
      /\ seats' = seats1 /\ muted' = OnStage!Range(room) \ exempt
      /\ sharing' = sharing \cap OnStage!Range(room)
      /\ dirty' = FALSE /\ patching' = FALSE /\ UNCHANGED <<room, maxSpeakers>>
  BY DEF OnStage!Reconcile
<1>2. OnStage!Forced <=> Len(room) > CapacityWindow /\ mode = "FREE"
  BY <1>t DEF OnStage!Forced, StageTyped
<1>3. maxSpeakers \in Nat /\ Len(seats) \in Nat /\ maxSpeakers \in 1 .. HardMaxSpeakers
  BY <1>t, BoundsAreNumbers DEF StageTyped
<1>4. /\ seats0 \in Seq(Listeners) /\ Len(seats0) <= maxSpeakers
      /\ ~ OnStage!Forced => seats0 = seats
  <2>1. CASE OnStage!Forced
    BY <1>t, <1>2, <1>3, <2>1, RetainedFacts DEF SeatsFit
  <2>2. CASE ~ OnStage!Forced
    BY <1>t, <2>2 DEF SeatsFit, StageTyped
  <2> QED BY <2>1, <2>2
<1> HIDE DEF seats0
<1>5. /\ seats1 \in Seq(Listeners) /\ Len(seats1) <= Len(seats0)
      /\ OnStage!Range(seats1) \subseteq OnStage!Range(room)
  <2>1. Len(seats0) \in Nat /\ \A i \in 1 .. Len(seats0) : ~ (i > Len(seats0))
    BY <1>4
  <2> QED BY <1>4, <2>1, KeptFacts DEF OnStage!Synced
<1> HIDE DEF seats1
<1>6. Len(seats0) \in Nat /\ Len(seats1) \in Nat /\ Len(seats1) <= maxSpeakers
  BY <1>3, <1>4, <1>5
<1>7. PICK rows \in Seq(Listeners), late \in Seq(Listeners) :
        /\ stageQueue' = rows \o late
        /\ OnStage!Range(rows) \subseteq OnStage!Range(room)
        /\ OnStage!Range(late) \subseteq OnStage!Range(room)
  BY <1>t, ReconcileQueues
<1>8. stageQueue' \in Seq(Listeners) /\ OnStage!Range(stageQueue') \subseteq OnStage!Range(room)
  BY <1>7, JoinedFacts
<1>9. /\ room \in Seq(Listeners) /\ DOMAIN room = 1 .. Len(room) /\ Len(room) \in Nat
      /\ OnStage!Range(room) \subseteq Listeners
      /\ \A x \in OnStage!Range(room) : \E i \in DOMAIN room : x = room[i]
      /\ \A i \in DOMAIN room : room[i] \in OnStage!Range(room)
  BY <1>t DEF StageTyped, OnStage!Range
<1>10. StageTyped'
  BY <1>t, <1>1, <1>5, <1>8, <1>9 DEF StageTyped
<1>11. SeatsFit'
  <2>1. ASSUME mode' = "FREE" PROVE seats' = <<>>
    <3>1. ~ OnStage!Forced /\ mode = "FREE"
      BY <1>1, <2>1
    <3>2. seats0 = <<>>
      BY <1>t, <1>4, <3>1 DEF SeatsFit
    <3>3. Len(seats1) = 0
      BY <1>5, <1>6, <3>2
    <3> QED BY <1>1, <1>5, <3>3
  <2> QED BY <1>1, <1>6, <2>1 DEF SeatsFit
<1>12. /\ \A u \in OnStage!Range(room) : u \notin muted' \/ u \notin OnStage!Range(seats')
       /\ \A i \in DOMAIN room : room[i] \in muted' => i > CapacityWindow
  <2>1. \A i \in DOMAIN room : room[i] \in muted' => ~ OnStage!Exempt(i, OnStage!Range(seats1))
    BY <1>1
  <2>2. \A i \in DOMAIN room :
          room[i] \in muted' => ~ (i <= CapacityWindow) /\ room[i] \notin OnStage!Range(seats1)
    BY <2>1 DEF OnStage!Exempt
  <2>3. \A i \in DOMAIN room : i \in Nat
    BY <1>9
  <2> QED BY <1>1, <1>9, <2>2, <2>3, BoundsAreNumbers
<1>13. mode' = "FREE" => Len(room) <= CapacityWindow
  BY <1>1, <1>2, <1>9, BoundsAreNumbers
<1>14. RowsInRoom'
  BY <1>1, <1>5, <1>8, <1>12, <1>13 DEF RowsInRoom
<1> QED BY <1>10, <1>11, <1>14 DEF StageInv

\* A handler that gives nothing to who is not in the room, nor a seat to who
\* stays muted.
LEMMA HandlerKeeps ==
  ASSUME StageInv, UNCHANGED <<room, dirty, patching, mode, maxSpeakers>>,
         seats' \in Seq(Listeners), Len(seats') <= maxSpeakers, mode = "FREE" => seats' = <<>>,
         stageQueue' \in Seq(Listeners), muted' \subseteq muted, sharing' \subseteq Listeners,
         OnStage!Range(seats') \subseteq OnStage!Range(seats) \cup (OnStage!Range(room) \ muted'),
         OnStage!Range(stageQueue') \subseteq OnStage!Range(stageQueue) \cup OnStage!Range(room),
         sharing' \subseteq sharing \cup OnStage!Range(room)
  PROVE  StageInv'
<1>t. StageTyped /\ SeatsFit /\ RowsInRoom
  BY DEF StageInv
<1>1. StageTyped' /\ SeatsFit'
  BY <1>t DEF StageTyped, SeatsFit
<1>2. ASSUME OnStage!Settled'
      PROVE  /\ OnStage!Range(seats') \cup OnStage!Range(stageQueue') \cup muted' \cup sharing'
                  \subseteq OnStage!Range(room)
             /\ \A u \in OnStage!Range(room) : u \notin muted' \/ u \notin OnStage!Range(seats')
             /\ \A i \in DOMAIN room : room[i] \in muted' => i > CapacityWindow
             /\ mode = "FREE" => Len(room) <= CapacityWindow
  <2>1. OnStage!Settled
    BY <1>2 DEF OnStage!Settled
  <2>2. /\ OnStage!Range(seats) \cup OnStage!Range(stageQueue) \cup muted \cup sharing
             \subseteq OnStage!Range(room)
        /\ \A u \in OnStage!Range(room) : u \notin muted \/ u \notin OnStage!Range(seats)
        /\ \A i \in DOMAIN room : room[i] \in muted => i > CapacityWindow
        /\ mode = "FREE" => Len(room) <= CapacityWindow
    BY <1>t, <2>1 DEF RowsInRoom
  <2> QED BY <2>2
<1>3. RowsInRoom'
  BY <1>2 DEF RowsInRoom
<1> QED BY <1>1, <1>3 DEF StageInv

LEMMA StagePatchKeeps ==
  ASSUME StageInv, OnStage!PatchVoiceStage
  PROVE  StageInv'
<1>t. StageTyped /\ SeatsFit
  BY DEF StageInv
<1>1. PICK max \in 1 .. HardMaxSpeakers :
        maxSpeakers' = max /\ (OnStage!PatchToFree \/ OnStage!PatchToStage(max))
  BY DEF OnStage!PatchVoiceStage
<1>2. patching' = TRUE /\ UNCHANGED <<room, dirty, muted>>
  BY DEF OnStage!PatchVoiceStage, OnStage!voiceVars
<1>3. max \in Nat /\ <<>> \in Seq(Listeners) /\ Len(<<>>) = 0
  BY BoundsAreNumbers
<1>4. /\ seats' \in Seq(Listeners) /\ stageQueue' \in Seq(Listeners) /\ sharing' \subseteq Listeners
      /\ mode' \in {"FREE", "STAGE"} /\ Len(seats') <= max /\ (mode' = "FREE" => seats' = <<>>)
  <2>1. CASE OnStage!PatchToFree
    <3>1. seats' = <<>> /\ mode' = "FREE" /\ sharing' = sharing
      BY <1>t, <2>1 DEF OnStage!PatchToFree, SeatsFit, StageTyped
    <3>2. stageQueue' = <<>> \/ stageQueue' = stageQueue
      BY <2>1 DEF OnStage!PatchToFree
    <3>3. seats' \in Seq(Listeners) /\ Len(seats') <= max
      BY <1>3, <3>1
    <3>4. stageQueue' \in Seq(Listeners)
      BY <1>t, <1>3, <3>2 DEF StageTyped
    <3>5. sharing' \subseteq Listeners
      BY <1>t, <3>1 DEF StageTyped
    <3> QED BY <3>1, <3>3, <3>4, <3>5
  <2>2. CASE OnStage!PatchToStage(max)
    <3>1. mode' = "STAGE" /\ stageQueue' = stageQueue
      BY <2>2 DEF OnStage!PatchToStage
    <3>2. CASE mode = "FREE"
      <4>1. seats' = OnStage!Retained(max) /\ sharing' = sharing
        BY <2>2, <3>2 DEF OnStage!PatchToStage
      <4>2. OnStage!Retained(max) \in Seq(Listeners) /\ Len(OnStage!Retained(max)) <= max
        BY <1>t, <1>3, <3>2, RetainedFacts DEF SeatsFit
      <4> QED BY <1>t, <3>1, <4>1, <4>2 DEF StageTyped
    <3>3. CASE mode # "FREE"
      <4> DEFINE S == OnStage!Demoted(max)
      <4>1. seats' = OnStage!Without(seats, S) /\ sharing' = sharing \ S
        BY <2>2, <3>3 DEF OnStage!PatchToStage, OnStage!RemoveSpeakers
      <4>2. \A i \in 1 .. Len(seats) : i > max => seats[i] \in S
        <5>1. DOMAIN seats = 1 .. Len(seats)
          BY <1>t DEF StageTyped
        <5> QED BY <5>1 DEF OnStage!Demoted
      <4> HIDE DEF S
      <4>3. OnStage!Without(seats, S) \in Seq(Listeners) /\ Len(OnStage!Without(seats, S)) <= max
        BY <1>t, <1>3, <4>2, WithoutFacts DEF StageTyped
      <4> QED BY <1>t, <3>1, <4>1, <4>3 DEF StageTyped
    <3> QED BY <3>2, <3>3
  <2> QED BY <1>1, <2>1, <2>2
<1>5. StageTyped' /\ SeatsFit'
  BY <1>t, <1>1, <1>2, <1>4 DEF StageTyped, SeatsFit
<1>6. RowsInRoom'
  BY <1>2 DEF RowsInRoom, OnStage!Settled
<1> QED BY <1>5, <1>6 DEF StageInv

\* A seat that is given up takes the share with it.
LEMMA StageRemovesKeep ==
  ASSUME StageInv, NEW S, OnStage!RemoveSpeakers(S),
         UNCHANGED <<room, dirty, patching, mode, maxSpeakers, stageQueue, muted>>
  PROVE  StageInv'
<1>t. StageTyped /\ SeatsFit
  BY DEF StageInv
<1>1. seats' = OnStage!Without(seats, S) /\ sharing' = sharing \ S
  BY DEF OnStage!RemoveSpeakers
<1>2. /\ seats' \in Seq(Listeners) /\ Len(seats') <= Len(seats)
      /\ OnStage!Range(seats') \subseteq OnStage!Range(seats)
  BY <1>t, <1>1, WithoutFacts DEF StageTyped
<1>3. /\ Len(seats) \in Nat /\ Len(seats') \in Nat /\ maxSpeakers \in Nat
      /\ Len(seats) <= maxSpeakers
  BY <1>t, <1>2, BoundsAreNumbers DEF StageTyped, SeatsFit
<1>4. Len(seats') <= maxSpeakers
  BY <1>2, <1>3
<1>5. mode = "FREE" => seats' = <<>>
  <2>1. seats = <<>> => Len(seats) = 0
    OBVIOUS
  <2>2. Len(seats') = 0 => seats' = <<>>
    BY <1>2
  <2> QED BY <1>t, <1>2, <1>3, <2>1, <2>2 DEF SeatsFit
<1>6. stageQueue' \in Seq(Listeners) /\ sharing' \subseteq Listeners /\ sharing' \subseteq sharing
  BY <1>t, <1>1 DEF StageTyped
<1> QED BY <1>2, <1>4, <1>5, <1>6, HandlerKeeps

LEMMA StageHandlersKeep ==
  ASSUME StageInv, NEW u \in Listeners,
         \/ OnStage!Apply(u) \/ OnStage!Unqueue(u) \/ OnStage!BringUp(u) \/ OnStage!BringDown(u)
         \/ OnStage!ScreenStart(u) \/ OnStage!ScreenStop(u) \/ OnStage!ReleaseSeat(u)
  PROVE  StageInv'
<1>t. StageTyped /\ SeatsFit
  BY DEF StageInv
<1>1. /\ OnStage!Without(stageQueue, {u}) \in Seq(Listeners)
      /\ OnStage!Range(OnStage!Without(stageQueue, {u})) \subseteq OnStage!Range(stageQueue)
  BY <1>t, WithoutFacts DEF StageTyped
<1>2. CASE OnStage!Apply(u)
  <2>1. /\ stageQueue' = Append(stageQueue, u) /\ u \in OnStage!Range(room)
        /\ UNCHANGED <<room, dirty, patching, mode, maxSpeakers, seats, muted, sharing>>
    BY <1>2 DEF OnStage!Apply, OnStage!MayApply, OnStage!voiceVars, OnStage!configVars
  <2>2. /\ Append(stageQueue, u) \in Seq(Listeners)
        /\ OnStage!Range(Append(stageQueue, u)) = OnStage!Range(stageQueue) \cup {u}
    BY <1>t, AppendedFacts DEF StageTyped
  <2> QED BY <1>t, <2>1, <2>2, HandlerKeeps DEF StageTyped, SeatsFit
<1>3. CASE OnStage!Unqueue(u)
  <2>1. /\ stageQueue' = OnStage!Without(stageQueue, {u})
        /\ UNCHANGED <<room, dirty, patching, mode, maxSpeakers, seats, muted, sharing>>
    BY <1>3 DEF OnStage!Unqueue, OnStage!voiceVars, OnStage!configVars
  <2> QED BY <1>t, <1>1, <2>1, HandlerKeeps DEF StageTyped, SeatsFit
<1>4. CASE OnStage!BringUp(u)
  <2>1. /\ seats' = Append(seats, u) /\ stageQueue' = OnStage!Without(stageQueue, {u})
        /\ muted' = muted \ {u} /\ u \in OnStage!Range(room) /\ mode = "STAGE"
        /\ Len(seats) < maxSpeakers
        /\ UNCHANGED <<room, dirty, patching, mode, maxSpeakers, sharing>>
    BY <1>4 DEF OnStage!BringUp, OnStage!MayBringUp, OnStage!Dequeued, OnStage!voiceVars, OnStage!configVars
  <2>2. /\ Append(seats, u) \in Seq(Listeners) /\ Len(Append(seats, u)) = Len(seats) + 1
        /\ OnStage!Range(Append(seats, u)) = OnStage!Range(seats) \cup {u}
    BY <1>t, AppendedFacts DEF StageTyped
  <2>3. Len(seats') <= maxSpeakers
    BY <1>t, <2>1, <2>2, BoundsAreNumbers DEF StageTyped
  <2>4. sharing' \subseteq Listeners
    BY <1>t, <2>1 DEF StageTyped
  <2> QED BY <1>1, <2>1, <2>2, <2>3, <2>4, HandlerKeeps
<1>5. CASE OnStage!BringDown(u) \/ OnStage!ReleaseSeat(u)
  <2>1. /\ OnStage!RemoveSpeakers({u})
        /\ UNCHANGED <<room, dirty, patching, mode, maxSpeakers, stageQueue, muted>>
    BY <1>5 DEF OnStage!BringDown, OnStage!ReleaseSeat, OnStage!voiceVars, OnStage!configVars
  <2> QED BY <2>1, StageRemovesKeep
<1>6. CASE OnStage!ScreenStart(u) \/ OnStage!ScreenStop(u)
  <2>1. /\ sharing' \subseteq sharing \cup OnStage!Range(room) /\ sharing' \subseteq sharing \cup {u}
        /\ UNCHANGED <<room, dirty, patching, mode, maxSpeakers, seats, stageQueue, muted>>
    BY <1>6 DEF OnStage!ScreenStart, OnStage!ScreenStop, OnStage!voiceVars, OnStage!configVars
  <2>2. /\ seats' \in Seq(Listeners) /\ stageQueue' \in Seq(Listeners) /\ sharing' \subseteq Listeners
        /\ Len(seats') <= maxSpeakers /\ (mode = "FREE" => seats' = <<>>)
    BY <1>t, <2>1 DEF StageTyped, SeatsFit
  <2> QED BY <2>1, <2>2, HandlerKeeps
<1> QED BY <1>2, <1>3, <1>4, <1>5, <1>6

LEMMA StageNext == StageInv /\ [Next]_vars => StageInv'
<1> SUFFICES ASSUME StageInv, [Next]_vars PROVE StageInv'
  OBVIOUS
<1>1. CASE OnStage!Next
  <2>1. CASE OnStage!LoadSeats
    <3>1. UNCHANGED <<room, dirty, patching, mode, maxSpeakers, seats, stageQueue, muted, sharing>>
      BY <2>1 DEF OnStage!LoadSeats, OnStage!voiceVars, OnStage!configVars, OnStage!rowVars
    <3> QED BY <3>1 DEF StageInv, StageTyped, SeatsFit, RowsInRoom, OnStage!Settled
  <2> QED BY <1>1, <2>1, StageVoiceKeeps, StageReconcileKeeps, StagePatchKeeps, StageHandlersKeep
      DEF OnStage!Next
<1>2. CASE UNCHANGED stageVars
  BY <1>2 DEF stageVars, StageInv, StageTyped, SeatsFit, RowsInRoom, OnStage!Settled
<1> QED BY <1>1, <1>2 DEF Next, vars

LEMMA RangeIsSmall ==
  ASSUME NEW s \in Seq(Listeners)
  PROVE  /\ IsFiniteSet(OnStage!Range(s)) /\ Cardinality(OnStage!Range(s)) <= Len(s)
         /\ Cardinality(OnStage!Range(s)) \in Nat
<1> DEFINE R == OnStage!Range(s)
<1>1. DOMAIN s = 1 .. Len(s) /\ Len(s) \in Nat
  OBVIOUS
<1>2. s \in [1 .. Len(s) -> R] /\ \A x \in R : \E i \in 1 .. Len(s) : s[i] = x
  BY <1>1 DEF OnStage!Range
<1>3. s \in Surjection(1 .. Len(s), R)
  BY <1>2 DEF Surjection
<1>4. IsFiniteSet(1 .. Len(s)) /\ Cardinality(1 .. Len(s)) = Len(s)
  BY <1>1, FS_Interval
<1>5. IsFiniteSet(R) /\ Cardinality(R) <= Len(s)
  BY <1>3, <1>4, FS_Surjection
<1> QED BY <1>5, FS_CardinalityType

(* When no reconcile is owed, a row belongs to a user in the room, no more *)
(* users may speak than a stage or an open room takes, and whoever is      *)
(* muted for capacity has neither a place in the window nor a seat.        *)
THEOREM RoomSettles == Spec => []SettledRoom
<1>1. StageInv => SettledRoom
  <2> SUFFICES ASSUME StageInv, OnStage!Settled
               PROVE  /\ OnStage!Range(seats) \cup OnStage!Range(stageQueue) \cup muted \cup sharing
                           \subseteq OnStage!Range(room)
                      /\ OnStage!Cardinality({u \in OnStage!Range(room) : OnStage!CanPublishAudio(u)})
                           <= IF mode = "STAGE" THEN HardMaxSpeakers ELSE CapacityWindow
                      /\ \A i \in DOMAIN room : room[i] \in muted => ~ OnStage!Exempt(i, OnStage!Range(seats))
    BY DEF SettledRoom, OnStage!SettledRoom
  <2>t. StageTyped /\ SeatsFit /\ RowsInRoom
    BY DEF StageInv
  <2>1. /\ OnStage!Range(seats) \cup OnStage!Range(stageQueue) \cup muted \cup sharing
             \subseteq OnStage!Range(room)
        /\ \A u \in OnStage!Range(room) : u \notin muted \/ u \notin OnStage!Range(seats)
        /\ \A i \in DOMAIN room : room[i] \in muted => i > CapacityWindow
        /\ mode = "FREE" => Len(room) <= CapacityWindow
    BY <2>t DEF RowsInRoom
  <2>2. /\ room \in Seq(Listeners) /\ seats \in Seq(Listeners) /\ DOMAIN room = 1 .. Len(room)
        /\ Len(room) \in Nat /\ Len(seats) \in Nat
        /\ Len(seats) <= maxSpeakers /\ maxSpeakers \in 1 .. HardMaxSpeakers
        /\ mode = "FREE" \/ mode = "STAGE"
    BY <2>t DEF StageTyped, SeatsFit
  <2>3. ASSUME NEW i \in DOMAIN room, room[i] \in muted
        PROVE  ~ OnStage!Exempt(i, OnStage!Range(seats))
    <3>1. room[i] \in OnStage!Range(room) /\ i \in Nat
      BY <2>2 DEF OnStage!Range
    <3>2. room[i] \notin OnStage!Range(seats) /\ ~ (i <= CapacityWindow)
      BY <2>1, <2>3, <3>1, BoundsAreNumbers
    <3> QED BY <3>2 DEF OnStage!Exempt
  <2> DEFINE P == {u \in OnStage!Range(room) : OnStage!CanPublishAudio(u)}
  <2>4. CASE mode = "STAGE"
    <3>1. P \subseteq OnStage!Range(seats)
      BY <2>4 DEF OnStage!CanPublishAudio
    <3>2. Cardinality(P) <= Cardinality(OnStage!Range(seats)) /\ Cardinality(P) \in Nat
      BY <2>2, <3>1, RangeIsSmall, FS_Subset, FS_CardinalityType
    <3>3. Cardinality(P) <= HardMaxSpeakers
      BY <2>2, <3>2, RangeIsSmall, BoundsAreNumbers
    <3> QED BY <2>1, <2>3, <2>4, <3>3, SameNumber
  <2>5. CASE mode # "STAGE"
    <3>1. P \subseteq OnStage!Range(room)
      OBVIOUS
    <3>2. Cardinality(P) <= Cardinality(OnStage!Range(room)) /\ Cardinality(P) \in Nat
      BY <2>2, <3>1, RangeIsSmall, FS_Subset, FS_CardinalityType
    <3>3. Cardinality(P) <= CapacityWindow
      BY <2>1, <2>2, <2>5, <3>2, RangeIsSmall, BoundsAreNumbers
    <3> QED BY <2>1, <2>3, <2>5, <3>3, SameNumber
  <2> QED BY <2>4, <2>5
<1> QED BY <1>1, StageInit, StageNext, PTL DEF Spec

\* A step keeps the order of the queue: who is queued stays before those who
\* came after him and those who come now.
InOrder ==
  \A u \in OnStage!Range(stageQueue) \cap OnStage!Range(stageQueue'), v \in OnStage!Range(stageQueue') :
    u # v /\ (v \in OnStage!Range(stageQueue) => OnStage!Before(stageQueue, u, v)) =>
      OnStage!Before(stageQueue', u, v)

LEMMA StageKeepsOrder == StageInv /\ [Next]_vars => InOrder
<1> SUFFICES ASSUME StageInv, [Next]_vars PROVE InOrder
  OBVIOUS
<1>t. StageTyped /\ stageQueue \in Seq(Listeners)
  BY DEF StageInv, StageTyped
<1>1. ASSUME UNCHANGED stageQueue PROVE InOrder
  BY <1>1 DEF InOrder
<1>2. ASSUME NEW S, stageQueue' = OnStage!Without(stageQueue, S) PROVE InOrder
  <2>1. /\ OnStage!Range(stageQueue') = OnStage!Range(stageQueue) \ S
        /\ \A u, v : OnStage!Before(stageQueue, u, v) /\ u \notin S /\ v \notin S =>
                      OnStage!Before(stageQueue', u, v)
    BY <1>t, <1>2, WithoutFacts
  <2> QED BY <2>1 DEF InOrder
<1>3. ASSUME NEW x \in Listeners, stageQueue' = Append(stageQueue, x), x \notin OnStage!Range(stageQueue)
      PROVE  InOrder
  <2>1. /\ OnStage!Range(stageQueue') = OnStage!Range(stageQueue) \cup {x}
        /\ \A u, v : OnStage!Before(stageQueue, u, v) => OnStage!Before(stageQueue', u, v)
        /\ \A u \in OnStage!Range(stageQueue) : OnStage!Before(stageQueue', u, x)
    BY <1>t, <1>3, AppendedFacts
  <2> QED BY <1>3, <2>1 DEF InOrder
<1>4. ASSUME stageQueue' = <<>> PROVE InOrder
  <2>1. OnStage!Range(stageQueue') = {}
    <3>1. DOMAIN stageQueue' = {}
      BY <1>4
    <3> QED BY <3>1 DEF OnStage!Range
  <2> QED BY <2>1 DEF InOrder
<1>5. ASSUME OnStage!Reconcile PROVE InOrder
  <2>1. PICK rows \in Seq(Listeners), late \in Seq(Listeners) :
          /\ rows = OnStage!Kept(stageQueue, OnStage!Range(room))
          /\ stageQueue' = rows \o late
          /\ OnStage!Range(rows) = OnStage!Range(stageQueue) \cap OnStage!Range(room)
          /\ OnStage!Range(late) \subseteq OnStage!Range(room)
          /\ OnStage!Range(late) \cap OnStage!Range(rows) = {}
    BY <1>t, <1>5, ReconcileQueues
  <2>2. \A u \in OnStage!Range(room), v \in OnStage!Range(room) :
          OnStage!Before(stageQueue, u, v) => OnStage!Before(rows, u, v)
    BY <1>t, <2>1, KeptFacts
  <2>3. /\ OnStage!Range(stageQueue') = OnStage!Range(rows) \cup OnStage!Range(late)
        /\ \A u, v : OnStage!Before(rows, u, v) => OnStage!Before(stageQueue', u, v)
        /\ \A u \in OnStage!Range(rows), v \in OnStage!Range(late) : OnStage!Before(stageQueue', u, v)
    BY <2>1, JoinedFacts
  <2>4. ASSUME NEW u \in OnStage!Range(stageQueue) \cap OnStage!Range(stageQueue'),
               NEW v \in OnStage!Range(stageQueue'), u # v,
               v \in OnStage!Range(stageQueue) => OnStage!Before(stageQueue, u, v)
        PROVE  OnStage!Before(stageQueue', u, v)
    <3>1. u \in OnStage!Range(room) /\ v \in OnStage!Range(room)
      BY <2>1, <2>3
    <3>2. u \in OnStage!Range(rows)
      BY <2>1, <3>1
    <3>3. CASE v \in OnStage!Range(late)
      BY <2>3, <3>2, <3>3
    <3>4. CASE v \in OnStage!Range(rows)
      BY <2>1, <2>2, <2>3, <2>4, <3>1, <3>4
    <3> QED BY <2>3, <3>3, <3>4
  <2> QED BY <2>4 DEF InOrder
<1>6. CASE OnStage!Next
  <2>1. CASE \E u \in Listeners : \/ OnStage!Join(u) \/ OnStage!Rejoin(u) \/ OnStage!Leave(u)
                                 \/ OnStage!ConnectedChange(u) \/ OnStage!BringDown(u)
                                 \/ OnStage!ScreenStart(u) \/ OnStage!ScreenStop(u)
                                 \/ OnStage!ReleaseSeat(u) \/ OnStage!LoadSeats
    <3>1. UNCHANGED stageQueue
      BY <2>1 DEF OnStage!Join, OnStage!Rejoin, OnStage!Leave, OnStage!ConnectedChange,
         OnStage!BringDown, OnStage!ScreenStart, OnStage!ScreenStop, OnStage!ReleaseSeat,
         OnStage!LoadSeats, OnStage!rowVars
    <3> QED BY <1>1, <3>1
  <2>2. ASSUME OnStage!LoadSeats PROVE InOrder
    <3>1. UNCHANGED stageQueue
      BY <2>2 DEF OnStage!LoadSeats, OnStage!rowVars
    <3> QED BY <1>1, <3>1
  <2>3. ASSUME NEW u \in Listeners, OnStage!Unqueue(u) \/ OnStage!BringUp(u) PROVE InOrder
    <3>1. stageQueue' = OnStage!Without(stageQueue, {u})
      BY <2>3 DEF OnStage!Unqueue, OnStage!BringUp, OnStage!Dequeued
    <3> QED BY <1>2, <3>1
  <2>4. ASSUME NEW u \in Listeners, OnStage!Apply(u) PROVE InOrder
    <3>1. stageQueue' = Append(stageQueue, u) /\ u \notin OnStage!Range(stageQueue)
      BY <2>4 DEF OnStage!Apply, OnStage!MayApply
    <3> QED BY <1>3, <3>1
  <2>5. ASSUME OnStage!PatchVoiceStage PROVE InOrder
    <3>1. stageQueue' = <<>> \/ UNCHANGED stageQueue
      BY <2>5 DEF OnStage!PatchVoiceStage, OnStage!PatchToFree, OnStage!PatchToStage
    <3> QED BY <1>1, <1>4, <3>1
  <2> QED BY <1>5, <1>6, <2>1, <2>2, <2>3, <2>4, <2>5 DEF OnStage!Next
<1>7. CASE UNCHANGED stageVars
  BY <1>1, <1>7 DEF stageVars
<1> QED BY <1>6, <1>7 DEF Next, vars

\* Who gives up his seat on a stage gives up his share.
ShareEnds ==
  \A u \in OnStage!Range(seats) \ OnStage!Range(seats') : mode' = "STAGE" => u \notin sharing'

LEMMA StageEndsShares == StageInv /\ [Next]_vars => ShareEnds
<1> SUFFICES ASSUME StageInv, [Next]_vars PROVE ShareEnds
  OBVIOUS
<1>t. StageTyped /\ SeatsFit /\ seats \in Seq(Listeners)
  BY DEF StageInv, StageTyped
<1>1. ASSUME UNCHANGED seats PROVE ShareEnds
  BY <1>1 DEF ShareEnds
<1>2. ASSUME seats = <<>> PROVE ShareEnds
  <2>1. DOMAIN seats = {}
    BY <1>2
  <2> QED BY <2>1 DEF ShareEnds, OnStage!Range
<1>3. ASSUME NEW S, OnStage!RemoveSpeakers(S) PROVE ShareEnds
  <2>1. OnStage!Range(seats') = OnStage!Range(seats) \ S /\ sharing' = sharing \ S
    BY <1>t, <1>3, WithoutFacts DEF OnStage!RemoveSpeakers
  <2> QED BY <2>1 DEF ShareEnds
<1>4. ASSUME OnStage!Reconcile PROVE ShareEnds
  <2>1. CASE OnStage!Forced
    <3>1. seats = <<>>
      BY <1>t, <2>1 DEF OnStage!Forced, StageTyped, SeatsFit
    <3> QED BY <1>2, <3>1
  <2>2. CASE ~ OnStage!Forced
    <3>1. /\ seats' = OnStage!Kept(seats, OnStage!Range(room))
          /\ sharing' = sharing \cap OnStage!Range(room)
      BY <1>4, <2>2 DEF OnStage!Reconcile, OnStage!Synced
    <3>2. OnStage!Range(seats') = OnStage!Range(seats) \cap OnStage!Range(room)
      BY <1>t, <3>1, KeptFacts
    <3> QED BY <3>1, <3>2 DEF ShareEnds
  <2> QED BY <2>1, <2>2
<1>5. ASSUME OnStage!PatchVoiceStage PROVE ShareEnds
  <2>1. CASE OnStage!PatchToFree
    BY <2>1 DEF OnStage!PatchToFree, ShareEnds
  <2>2. ASSUME NEW max, OnStage!PatchToStage(max) PROVE ShareEnds
    <3>1. seats = <<>> \/ OnStage!RemoveSpeakers(OnStage!Demoted(max))
      BY <1>t, <2>2 DEF OnStage!PatchToStage, SeatsFit
    <3> QED BY <1>2, <1>3, <3>1
  <2> QED BY <1>5, <2>1, <2>2 DEF OnStage!PatchVoiceStage
<1>6. ASSUME NEW u \in Listeners, OnStage!BringUp(u) PROVE ShareEnds
  <2>1. OnStage!Range(seats') = OnStage!Range(seats) \cup {u}
    BY <1>t, <1>6, AppendedFacts DEF OnStage!BringUp
  <2> QED BY <2>1 DEF ShareEnds
<1>7. ASSUME NEW u \in Listeners, OnStage!BringDown(u) \/ OnStage!ReleaseSeat(u) PROVE ShareEnds
  BY <1>3, <1>7 DEF OnStage!BringDown, OnStage!ReleaseSeat
<1>8. ASSUME NEW u \in Listeners, \/ OnStage!Join(u) \/ OnStage!Rejoin(u) \/ OnStage!Leave(u)
                                 \/ OnStage!ConnectedChange(u) \/ OnStage!Apply(u)
                                 \/ OnStage!Unqueue(u) \/ OnStage!ScreenStart(u)
                                 \/ OnStage!ScreenStop(u)
      PROVE  ShareEnds
  <2>1. UNCHANGED seats
    BY <1>8 DEF OnStage!Join, OnStage!Rejoin, OnStage!Leave, OnStage!ConnectedChange, OnStage!Apply,
       OnStage!Unqueue, OnStage!ScreenStart, OnStage!ScreenStop, OnStage!rowVars
  <2> QED BY <1>1, <2>1
<1>9. ASSUME OnStage!LoadSeats PROVE ShareEnds
  BY <1>1, <1>9 DEF OnStage!LoadSeats, OnStage!rowVars
<1>10. CASE OnStage!Next
  BY <1>4, <1>5, <1>6, <1>7, <1>8, <1>9, <1>10 DEF OnStage!Next
<1>11. CASE UNCHANGED stageVars
  BY <1>1, <1>11 DEF stageVars
<1> QED BY <1>10, <1>11 DEF Next, vars

(* The queue is first come first served through captures, bring-ups and    *)
(* leaves; and who is brought down, trimmed or timed out stops sharing.    *)
THEOREM SeatsHold == Spec => SeatsAreFair
<1>1. Spec => []StageInv
  BY StageInit, StageNext, PTL DEF Spec
<1>2. StageInv /\ [Next]_vars => [InOrder]_stageQueue /\ [ShareEnds]_OnStage!vars
  BY StageKeepsOrder, StageEndsShares
<1>3. Spec => [][InOrder]_stageQueue /\ [][ShareEnds]_OnStage!vars
  BY <1>1, <1>2, PTL DEF Spec
<1> QED BY <1>3 DEF SeatsAreFair, OnStage!NobodyOvertakes, OnStage!UnseatedStopsSharing, InOrder, ShareEnds
=============================================================================
