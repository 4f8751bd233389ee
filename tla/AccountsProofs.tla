--------------------------- MODULE AccountsProofs ---------------------------
(***************************************************************************)
(* Proofs about MCAccounts: its six invariants, for any number of handlers *)
(* at a time, users, tokens and bounds. The parts share no state and Next  *)
(* takes a step of one of them, so that each invariant is proved from its  *)
(* own part. Each needs to know, besides itself, what a handler still      *)
(* knows of the rows it read, when others have written in between:         *)
(*                                                                         *)
(*   PlatformInv   a handler that is not stale has counted an              *)
(*                 administrator who is still there;                       *)
(*   AccessInv     every live token is of a chain that knows the password  *)
(*                 or is about to be swept, and a chain has one live token *)
(*                 or the one its exchange has still to give;              *)
(*   GuildInv      a row has one user, what the list of members lacks has  *)
(*                 its event to come, and who is banned is about to go;    *)
(*   AgentsInv     a handler holds what was agreed to, and a code or a     *)
(*                 device is claimed by one;                               *)
(*   RobotsInv     a deleted bot is in no guild and a bot of one guild in  *)
(*                 no other, its seat has a membership or an event to      *)
(*                 come, and the limiter has let through no more since any *)
(*                 instant than its rate allows;                           *)
(*   FriendsInv    friends are friends of each other, a request that a     *)
(*                 handler will drop is still pending, and who writes is   *)
(*                 not asked for consent any more;                         *)
(*   ShopInv       the ledger adds up entry by entry, whoever is about to  *)
(*                 change the balance has the row locked, and what a round *)
(*                 of the day will pay is what the row says.               *)
(***************************************************************************)
EXTENDS MCAccounts, FiniteSetTheorems, SequenceTheorems, TLAPS

-----------------------------------------------------------------------------
(* Registration and administrators. *)

PlatformTyped ==
  /\ users \subseteq Registrants /\ platformAdmins \subseteq users
  /\ platformDisabled \subseteq users
  /\ platformUses \in Nat /\ IsFiniteSet(invited)
  /\ invited \subseteq users
  /\ platformRequest \in [Requests -> PlatformSlot \cup {None}]
  /\ founded \in BOOLEAN /\ platformCrossed \in BOOLEAN

\* A handler that is not stale has counted what is still there.
CountHolds(r) ==
  LET q == platformRequest[r]
      others == Platform!Active \ {q.user}
  IN q # None /\ ~ q.stale =>
       /\ q.step = "disable" => q.user \notin platformAdmins \/ others # {}
       /\ q.step = "demote" => others # {}

PlatformInv ==
  /\ PlatformTyped
  /\ \A r \in Requests : platformRequest[r] # None /\ platformRequest[r].step # "create"
       => platformRequest[r].user \in users
  /\ \A r \in Requests : CountHolds(r)
  /\ PlatformIsHeld

LEMMA PlatformCardinality ==
  ASSUME NEW S PROVE Platform!Cardinality(S) = Cardinality(S)
  BY DEF Platform!Cardinality, Cardinality

LEMMA PlatformInit == Init => PlatformInv
<1> SUFFICES ASSUME Init PROVE PlatformInv
  OBVIOUS
<1> USE DEF Init, Platform!Init
<1>1. invited = {} /\ IsFiniteSet(invited) /\ Cardinality(invited) = 0
  BY FS_EmptySet
<1>2. PlatformTyped
  BY <1>1 DEF PlatformTyped
<1>3. \A r \in Requests : platformRequest[r] = None
  OBVIOUS
<1>4. PlatformIsHeld
  BY <1>1, PlatformCardinality, BoundsAreNumbers DEF PlatformIsHeld, Platform!PlatformIsHeld
<1> QED
  BY <1>2, <1>3, <1>4 DEF PlatformInv, CountHolds

\* Handlers that only begin: what they have counted holds at that moment.
LEMMA PlatformBegins ==
  ASSUME PlatformInv, NEW r \in Requests, NEW u \in Registrants,
         NEW step \in {"create", "disable", "demote", "promote"},
         step # "create" => u \in users,
         step = "disable" => u \notin platformAdmins \/ Platform!Active \ {u} # {},
         step = "demote" => Platform!Active \ {u} # {},
         platformRequest[r] = None,
         platformRequest' = [platformRequest EXCEPT
           ![r] = [step |-> step, user |-> u, stale |-> FALSE]],
         UNCHANGED <<users, platformAdmins, platformDisabled, platformInvite, platformUses,
                     invited, founded, platformCrossed>>
  PROVE  PlatformInv'
<1> USE DEF PlatformInv, PlatformTyped
<1>2. platformRequest' \in [Requests -> PlatformSlot \cup {None}]
  BY Zenon DEF PlatformSlot
<1>3. Platform!Active' = Platform!Active
  BY DEF Platform!Active
<1>4. ASSUME NEW q \in Requests PROVE CountHolds(q)'
  BY <1>3 DEF CountHolds
<1>5. PlatformIsHeld'
  BY <1>3, PlatformCardinality DEF PlatformIsHeld, Platform!PlatformIsHeld
<1> QED
  BY <1>2, <1>4, <1>5

LEMMA PlatformNext == PlatformInv /\ [Next]_vars => PlatformInv'
<1> SUFFICES ASSUME PlatformInv, [Next]_vars PROVE PlatformInv'
  OBVIOUS
<1>0. platformAdmins \subseteq users
  BY DEF PlatformInv, PlatformTyped
<1>1. ASSUME NEW r \in Requests, NEW u \in Registrants, Platform!Signup(r, u)
      PROVE  PlatformInv'
  BY <1>0, <1>1, PlatformBegins DEF Platform!Signup, Platform!Begins
<1>2. ASSUME NEW r \in Requests, NEW u \in Registrants, Platform!DisableUser(r, u)
      PROVE  PlatformInv'
  BY <1>0, <1>2, PlatformBegins DEF Platform!DisableUser, Platform!Begins, Platform!OtherActiveAdmins
<1>3. ASSUME NEW r \in Requests, NEW u \in Registrants, Platform!RevokeSystemAdmin(r, u)
      PROVE  PlatformInv'
  BY <1>0, <1>3, PlatformBegins DEF Platform!RevokeSystemAdmin, Platform!Begins, Platform!OtherActiveAdmins
<1>4. ASSUME NEW r \in Requests, NEW u \in Registrants, Platform!GrantSystemAdmin(r, u)
      PROVE  PlatformInv'
  BY <1>0, <1>4, PlatformBegins DEF Platform!GrantSystemAdmin, Platform!Begins
<1>5. ASSUME NEW r \in Requests, NEW u \in Registrants, Platform!DeleteAccount(r, u)
      PROVE  PlatformInv'
  BY <1>0, <1>5, PlatformBegins DEF Platform!DeleteAccount, Platform!Begins, Platform!MayGo
<1> USE PlatformCardinality DEF PlatformInv, PlatformTyped
<1>6. ASSUME NEW u \in Registrants, Platform!Register(u) PROVE PlatformInv'
  <2> USE <1>6 DEF Platform!Register
  <2>1. \A r \in Requests : platformRequest[r] = None \/ platformRequest[r].step = "create"
    OBVIOUS
  <2>2. invited = {} /\ platformDisabled = {} /\ Platform!Active' = {u}
    BY DEF Platform!Active
  <2>3. PlatformIsHeld'
    BY <2>2 DEF PlatformIsHeld, Platform!PlatformIsHeld
  <2>4. \A r \in Requests : CountHolds(r)'
    BY <2>1 DEF CountHolds
  <2> QED
    BY <2>1, <2>2, <2>3, <2>4
<1>7. ASSUME NEW u \in Registrants, Platform!SignupOpen(u) PROVE PlatformInv'
  BY <1>7 DEF Platform!SignupOpen, CountHolds, Platform!Active, PlatformIsHeld,
              Platform!PlatformIsHeld
<1>8. ASSUME NEW u \in Registrants, Platform!EnableUser(u) PROVE PlatformInv'
  <2> USE <1>8 DEF Platform!EnableUser
  <2>1. Platform!Active \subseteq Platform!Active'
    BY DEF Platform!Active
  <2>2. \A r \in Requests : CountHolds(r)'
    BY <2>1 DEF CountHolds
  <2>3. PlatformIsHeld'
    BY <2>1 DEF PlatformIsHeld, Platform!PlatformIsHeld
  <2> QED
    BY <2>2, <2>3
<1>9. CASE Platform!InviteExpires \/ Platform!RevokeInvite
  BY <1>9 DEF Platform!InviteExpires, Platform!RevokeInvite, CountHolds, Platform!Active,
              PlatformIsHeld, Platform!PlatformIsHeld
<1>10. ASSUME NEW r \in Requests, Platform!SignupCommits(r) PROVE PlatformInv'
  <2> DEFINE u == platformRequest[r].user
  <2> USE <1>10, NoneIsNoValue DEF Platform!SignupCommits, Platform!Doing, Platform!Ends
  <2>1. /\ platformRequest' = [platformRequest EXCEPT ![r] = None]
        /\ u \in Registrants /\ Platform!Active' = Platform!Active
    BY DEF Platform!Active, PlatformSlot
  <2>2. platformRequest' \in [Requests -> PlatformSlot \cup {None}]
    BY <2>1, Zenon
  <2>3. \A q \in Requests : CountHolds(q)'
    BY <2>1 DEF CountHolds
  <2>4. CASE Platform!ConsumeUse /\ u \notin users
    <3>1. u \notin invited /\ invited' = invited \cup {u} /\ platformUses' = platformUses + 1
      BY <2>4
    <3>2. IsFiniteSet(invited') /\ Cardinality(invited') = Cardinality(invited) + 1
      BY <3>1, FS_AddElement
    <3>3. PlatformIsHeld'
      BY <2>1, <2>4, <3>1, <3>2, BoundsAreNumbers
         DEF PlatformIsHeld, Platform!PlatformIsHeld, Platform!ConsumeUse
    <3> QED
      BY <2>1, <2>2, <2>3, <2>4, <3>2, <3>3
  <2>5. CASE ~ (Platform!ConsumeUse /\ u \notin users)
    <3>1. PlatformIsHeld'
      BY <2>1, <2>5 DEF PlatformIsHeld, Platform!PlatformIsHeld
    <3> QED
      BY <2>1, <2>2, <2>3, <2>5, <3>1
  <2> QED
    BY <2>4, <2>5
<1>11. ASSUME NEW r \in Requests, Platform!Writes(r) PROVE PlatformInv'
  <2> DEFINE u == platformRequest[r].user
  <2> USE <1>11 DEF Platform!Writes, Platform!Doing
  <2>1. platformRequest[r] \in PlatformSlot /\ u \in users
    BY DEF PlatformSlot
  <2>2. platformRequest' = [q \in Requests |->
          IF q = r \/ platformRequest[q] = None THEN None
          ELSE [platformRequest[q] EXCEPT !.stale = TRUE]]
    BY DEF Platform!Outdates
  <2>3. ASSUME NEW q \in Requests
        PROVE  /\ platformRequest'[q] \in PlatformSlot \cup {None}
               /\ platformRequest'[q] # None => /\ platformRequest'[q].stale
                                                /\ platformRequest[q] # None
                                                /\ platformRequest'[q].step = platformRequest[q].step
                                                /\ platformRequest'[q].user = platformRequest[q].user
    BY <2>2 DEF PlatformSlot
  <2>4. \A q \in Requests : CountHolds(q)'
    BY <2>3 DEF CountHolds
  <2>5. platformRequest' \in [Requests -> PlatformSlot \cup {None}]
    BY <2>2, <2>3
  <2>6. platformAdmins' \subseteq users' /\ platformDisabled' \subseteq users'
    BY <2>1
  <2>7. founded' /\ ~ platformCrossed' => Platform!Active' # {}
    <3> SUFFICES ASSUME founded, ~ platformCrossed, ~ platformRequest[r].stale
                 PROVE  Platform!Active' # {}
      OBVIOUS
    <3>1. CountHolds(r) /\ Platform!Active # {}
      BY DEF PlatformIsHeld, Platform!PlatformIsHeld
    <3> QED
      BY <3>1, <2>1 DEF CountHolds, Platform!Active
  <2>8. PlatformIsHeld'
    BY <2>7 DEF PlatformIsHeld, Platform!PlatformIsHeld
  <2>9. platformCrossed' \in BOOLEAN
    BY <2>1, Zenon DEF PlatformSlot
  <2> QED
    BY <2>3, <2>4, <2>5, <2>6, <2>8, <2>9
<1>12. CASE UNCHANGED platformVars
  BY <1>12 DEF platformVars, CountHolds, Platform!Active, PlatformIsHeld,
               Platform!PlatformIsHeld
<1>13. CASE Platform!Next
  BY <1>1, <1>2, <1>3, <1>4, <1>5, <1>6, <1>7, <1>8, <1>9, <1>10, <1>11, <1>13
     DEF Platform!Next
<1> QED
  BY <1>12, <1>13 DEF Next, vars

(* An administrator can always act, and the invitation brought no more     *)
(* users than it allows.                                                   *)
THEOREM PlatformHolds == Spec => []PlatformIsHeld
<1>1. PlatformInv => PlatformIsHeld
  BY DEF PlatformInv
<1> QED
  BY <1>1, PlatformInit, PlatformNext, PTL DEF Spec
-----------------------------------------------------------------------------
(* Sessions of an account. *)

Given == 1 .. issued

AccessTyped ==
  /\ password \in Nat /\ tokensDisabled \in BOOLEAN
  /\ issued \in 0 .. MaxTokens
  /\ chain \in [1 .. MaxTokens -> Nat]
  /\ \A t \in Given : chain[t] \in 1 .. t
  /\ tokensLive \subseteq Given
  /\ knows \in [1 .. MaxTokens -> Nat]
  /\ dead \subseteq Given /\ tokensLate \subseteq Given /\ twins \subseteq Given
  /\ tokensRequest \in [Requests -> AccessSlot \cup {None}]
  /\ \A r \in Requests : tokensRequest[r] # None =>
       /\ tokensRequest[r].chain \in Access!Chains \cup {0}
       /\ tokensRequest[r].step \in {"rotate", "user"} => tokensRequest[r].chain # 0

\* A revocation is under way that spares at most the chain c.
Sweeping(c) ==
  \E r \in Requests : Access!Doing(r, "sweep") /\ tokensRequest[r].chain # c
SweepNears ==
  \E r \in Requests : Access!Doing(r, "sweep")

\* What a live token of chain c may rely on.
Good(c) ==
  c \in tokensLate \/ /\ c \notin dead
                      /\ knows[c] = password \/ SweepNears
                      /\ ~ tokensDisabled \/ Sweeping(c)

\* A handler that is to issue a token, and that no revocation has crossed.
Issuing(r) ==
  /\ tokensRequest[r] # None /\ tokensRequest[r].step # "sweep"
  /\ ~ tokensRequest[r].swept

Excused(c) == c \in tokensLate \/ c \in twins

LiveIn(c) == {t \in tokensLive : chain[t] = c}

LiveAreGood == \A t \in tokensLive : Good(chain[t])

IssuedWillBeGood ==
  \A r \in Requests : Issuing(r) =>
    LET c == tokensRequest[r].chain
    IN IF c # 0 THEN Good(c)
       ELSE /\ tokensRequest[r].pw = password \/ SweepNears
            /\ ~ tokensDisabled \/ SweepNears

OneOfEachChain ==
  \A s, t \in tokensLive : chain[s] = chain[t] => s = t \/ Excused(chain[t])

\* The token that is exchanged goes before the next one comes.
ExchangedGoes ==
  \A r \in Requests : Issuing(r) /\ tokensRequest[r].chain # 0 =>
    \/ Excused(tokensRequest[r].chain)
    \/ LiveIn(tokensRequest[r].chain) \subseteq
         IF tokensRequest[r].step = "rotate" THEN {tokensRequest[r].token} ELSE {}

OneExchange ==
  \A q, r \in Requests :
    /\ Issuing(q) /\ Issuing(r) /\ tokensRequest[q].chain # 0
    /\ tokensRequest[q].chain = tokensRequest[r].chain
    => q = r \/ Excused(tokensRequest[r].chain)

AccessInv ==
  /\ AccessTyped
  /\ LiveAreGood /\ IssuedWillBeGood
  /\ OneOfEachChain /\ ExchangedGoes /\ OneExchange

LEMMA AccessSlots == None \notin AccessSlot
  BY NoneIsNoValue

LEMMA AccessInit == Init => AccessInv
<1> SUFFICES ASSUME Init PROVE AccessInv
  OBVIOUS
<1> USE BoundsAreNumbers DEF Init, Access!Init
<1>1. AccessTyped
  <2>1. chain \in [1 .. MaxTokens -> Nat] /\ knows \in [1 .. MaxTokens -> Nat]
    BY DEF Access!Tokens
  <2>2. \A r \in Requests : tokensRequest[r] = None
    OBVIOUS
  <2>3. tokensRequest \in [Requests -> AccessSlot \cup {None}]
    BY Zenon
  <2>4. Given = {}
    BY DEF Given
  <2>5. /\ password \in Nat /\ issued \in 0 .. MaxTokens
        /\ tokensLive = {} /\ dead = {} /\ tokensLate = {} /\ twins = {}
    OBVIOUS
  <2>6. tokensDisabled \in BOOLEAN
    BY Zenon
  <2> QED
    BY <2>1, <2>2, <2>3, <2>4, <2>5, <2>6 DEF AccessTyped
<1>2. LiveAreGood /\ OneOfEachChain
  BY DEF LiveAreGood, OneOfEachChain
<1>3. \A r \in Requests : ~ Issuing(r)
  BY DEF Issuing
<1> QED
  BY <1>1, <1>2, <1>3 DEF AccessInv, IssuedWillBeGood, ExchangedGoes, OneExchange

\* What a revocation of the chains cs leaves in order.
LEMMA AccessSwept ==
  ASSUME AccessInv, NEW cs \in SUBSET Access!Chains,
         tokensLive' = tokensLive \ Access!Covered(cs),
         tokensLate' = tokensLate \ cs, dead' = dead \cup cs,
         tokensRequest' \in [Requests -> AccessSlot \cup {None}],
         \A q \in Requests : tokensRequest'[q] # None =>
           /\ tokensRequest[q] # None
           /\ tokensRequest'[q].step = tokensRequest[q].step
           /\ tokensRequest'[q].token = tokensRequest[q].token
           /\ tokensRequest'[q].chain = tokensRequest[q].chain,
         \A q \in Requests : Issuing(q)' => Issuing(q) /\ tokensRequest[q].chain \notin cs,
         knows' \in [1 .. MaxTokens -> Nat], password' \in Nat, tokensDisabled' \in BOOLEAN,
         UNCHANGED <<issued, chain, twins>>
  PROVE  AccessTyped' /\ OneOfEachChain' /\ ExchangedGoes' /\ OneExchange'
<1> USE DEF AccessInv
<1>1. cs \subseteq Given /\ Access!Chains' = Access!Chains
  BY DEF AccessTyped, Given, Access!Chains
<1>2. AccessTyped'
  BY <1>1 DEF AccessTyped, Given
<1>3. \A c : c \notin cs => (c \in tokensLate' \cup twins' <=> c \in tokensLate \cup twins)
  OBVIOUS
<1>4. \A t \in tokensLive' : t \in tokensLive /\ chain[t] \notin cs
  BY DEF Access!Covered
<1>5. OneOfEachChain'
  BY <1>3, <1>4 DEF OneOfEachChain, Excused
<1>6. ExchangedGoes'
  <2> SUFFICES ASSUME NEW r \in Requests, Issuing(r)', tokensRequest'[r].chain # 0,
                      ~ Excused(tokensRequest[r].chain)'
               PROVE  LiveIn(tokensRequest[r].chain)' \subseteq
                        IF tokensRequest'[r].step = "rotate" THEN {tokensRequest'[r].token} ELSE {}
    BY DEF ExchangedGoes
  <2>1. Issuing(r) /\ tokensRequest'[r] # None /\ tokensRequest[r].chain \notin cs
    BY DEF Issuing
  <2> QED
    BY <1>4, <2>1 DEF ExchangedGoes, Excused, LiveIn
<1>7. OneExchange'
  <2> SUFFICES ASSUME NEW q \in Requests, NEW r \in Requests, Issuing(q)', Issuing(r)',
                      tokensRequest'[q].chain # 0,
                      tokensRequest'[q].chain = tokensRequest'[r].chain
               PROVE  q = r \/ Excused(tokensRequest[r].chain)'
    BY DEF OneExchange
  <2>1. /\ Issuing(r) /\ tokensRequest'[r] # None /\ tokensRequest[r].chain \notin cs
        /\ Issuing(q) /\ tokensRequest'[q] # None
    BY DEF Issuing
  <2> QED
    BY <2>1 DEF OneExchange, Excused
<1> QED
  BY <1>2, <1>5, <1>6, <1>7

LEMMA AccessNext == AccessInv /\ [Next]_vars => AccessInv'
<1> SUFFICES ASSUME AccessInv, [Next]_vars PROVE AccessInv'
  OBVIOUS
<1> USE NoneIsNoValue DEF AccessInv
<1> DEFINE Slots == [Requests -> AccessSlot \cup {None}]
<1>1. ASSUME NEW r \in Requests, Access!Login(r) PROVE AccessInv'
  <2> DEFINE new == [step |-> "issue", token |-> 0, chain |-> 0, pw |-> password,
                     swept |-> FALSE]
  <2>1. /\ ~ tokensDisabled /\ tokensRequest[r] = None
        /\ tokensRequest' = [tokensRequest EXCEPT ![r] = new]
        /\ UNCHANGED <<password, tokensDisabled, issued, chain, tokensLive, knows, dead,
                       tokensLate, twins>>
    BY <1>1 DEF Access!Login, Access!Begins
  <2>2. new \in AccessSlot
    BY DEF AccessSlot, AccessTyped
  <2>3. tokensRequest' \in Slots
    BY <2>1, <2>2, Zenon DEF AccessTyped
  <2>4. AccessTyped'
    BY <2>1, <2>2, <2>3 DEF AccessTyped, Given, Access!Chains
  <2>5. ASSUME NEW q \in Requests PROVE Access!Doing(q, "sweep")' <=> Access!Doing(q, "sweep")
    BY <2>1, <2>2 DEF Access!Doing, AccessSlot, AccessTyped
  <2>6. LiveAreGood' /\ OneOfEachChain'
    BY <2>1, <2>5 DEF LiveAreGood, Good, Sweeping, SweepNears, OneOfEachChain, Excused, Access!Doing
  <2>7. IssuedWillBeGood'
    BY <2>1, <2>2, <2>5 DEF IssuedWillBeGood, Issuing, Good, Sweeping, SweepNears, Access!Doing
  <2>8. ExchangedGoes' /\ OneExchange'
    BY <2>1, <2>2 DEF ExchangedGoes, OneExchange, Issuing, Excused, LiveIn
  <2> QED
    BY <2>4, <2>6, <2>7, <2>8
<1>2. ASSUME NEW r \in Requests, NEW t \in tokensLive, Access!Refresh(r, t)
      PROVE  AccessInv'
  <2> DEFINE new == [step |-> "rotate", token |-> t, chain |-> chain[t], pw |-> 0,
                     swept |-> FALSE]
  <2>1. /\ tokensRequest[r] = None
        /\ tokensRequest' = [tokensRequest EXCEPT ![r] = new]
        /\ UNCHANGED <<password, tokensDisabled, issued, chain, tokensLive, knows, dead,
                       tokensLate>>
        /\ twins \subseteq twins' /\ twins' \subseteq twins \cup {chain[t]}
        /\ \A q \in Requests : tokensRequest[q] # None /\ tokensRequest[q].token = t
             => chain[t] \in twins'
    BY <1>2 DEF Access!Refresh, Access!Begins
  <2>2. new \in AccessSlot /\ chain[t] \in Given /\ chain[t] # 0 /\ chain[t] \in Access!Chains
    BY DEF AccessSlot, AccessTyped, Given, Access!Chains
  <2>3. tokensRequest' \in Slots
    BY <2>1, <2>2, Zenon DEF AccessTyped
  <2>4. AccessTyped'
    BY <2>1, <2>2, <2>3 DEF AccessTyped, Given, Access!Chains
  <2>5. ASSUME NEW q \in Requests PROVE Access!Doing(q, "sweep")' <=> Access!Doing(q, "sweep")
    BY <2>1, <2>2 DEF Access!Doing, AccessSlot, AccessTyped
  <2>6. LiveAreGood' /\ OneOfEachChain'
    BY <2>1, <2>5 DEF LiveAreGood, Good, Sweeping, SweepNears, OneOfEachChain, Excused, Access!Doing
  <2>7. IssuedWillBeGood'
    BY <2>1, <2>2, <2>5 DEF IssuedWillBeGood, LiveAreGood, Issuing, Good, Sweeping, SweepNears,
                            Access!Doing
  <2>8. ExchangedGoes'
    BY <2>1, <2>2 DEF ExchangedGoes, OneOfEachChain, Issuing, Excused, LiveIn
  <2>9. ASSUME NEW q \in Requests, q # r, Issuing(q), tokensRequest[q].chain = chain[t]
        PROVE  chain[t] \in tokensLate \cup twins'
    <3>1. t \in LiveIn(chain[t])
      BY DEF LiveIn
    <3>2. Excused(chain[t]) \/ (tokensRequest[q].step = "rotate" /\ tokensRequest[q].token = t)
      BY <2>2, <2>9, <3>1 DEF ExchangedGoes
    <3> QED
      BY <2>1, <2>9, <3>2 DEF Excused, Issuing
  <2>10. OneExchange'
    BY <2>1, <2>2, <2>9 DEF OneExchange, Issuing, Excused
  <2> QED
    BY <2>4, <2>6, <2>7, <2>8, <2>10
<1>3. ASSUME NEW r \in Requests, Access!RefreshRevokes(r) PROVE AccessInv'
  <2> DEFINE q0 == tokensRequest[r]
  <2>1. /\ q0 # None /\ q0.step = "rotate"
        /\ tokensRequest' = [tokensRequest EXCEPT ![r].step = "user"]
        /\ tokensLive' = tokensLive \ {q0.token}
        /\ UNCHANGED <<password, tokensDisabled, issued, chain, knows, dead, tokensLate, twins>>
    BY <1>3 DEF Access!RefreshRevokes, Access!Doing, Access!Goes
  <2>2. tokensRequest' = [tokensRequest EXCEPT ![r] = [q0 EXCEPT !.step = "user"]]
    BY <2>1, Zenon
  <2>3. q0 \in AccessSlot /\ [q0 EXCEPT !.step = "user"] \in AccessSlot
    BY <2>1 DEF AccessTyped, AccessSlot
  <2> DEFINE new == [q0 EXCEPT !.step = "user"]
  <2>4. new # None /\ new.token = q0.token /\ new.chain = q0.chain /\ new.step = "user"
        /\ new.swept = q0.swept
    <3>1. new # None
      BY <2>3, AccessSlots
    <3>2. new.token = q0.token /\ new.chain = q0.chain /\ new.step = "user"
          /\ new.swept = q0.swept
      BY <2>3 DEF AccessSlot
    <3> QED
      BY <3>1, <3>2
  <2> HIDE DEF new
  <2>5. tokensRequest' \in Slots
    BY <2>2, <2>3, Zenon DEF AccessTyped, new
  <2>6. /\ tokensRequest'[r] = new /\ \A q \in Requests \ {r} : tokensRequest'[q] = tokensRequest[q]
    BY <2>2, Zenon DEF AccessTyped, new
  <2>7. AccessTyped'
    BY <2>1, <2>4, <2>5, <2>6 DEF AccessTyped, Given, Access!Chains
  <2>8. LiveAreGood' /\ OneOfEachChain'
    BY <2>1, <2>4, <2>6 DEF LiveAreGood, Good, Sweeping, SweepNears, OneOfEachChain, Excused,
                            Access!Doing
  <2>9. \A q \in Requests : Issuing(q)' => Issuing(q) /\ tokensRequest'[q].chain = tokensRequest[q].chain
    BY <2>1, <2>4, <2>6 DEF Issuing
  <2>10. IssuedWillBeGood'
    <3>1. \A q \in Requests : Issuing(q)' /\ tokensRequest[q].chain = 0 =>
            tokensRequest'[q].pw = tokensRequest[q].pw
      BY <2>1, <2>4, <2>6 DEF AccessTyped, Issuing
    <3> QED
      BY <2>1, <2>4, <2>6, <2>9, <3>1 DEF IssuedWillBeGood, Good, Sweeping, SweepNears, Access!Doing
  <2>11. ExchangedGoes'
    BY <2>1, <2>4, <2>6, <2>9 DEF ExchangedGoes, Excused, LiveIn
  <2>12. OneExchange'
    BY <2>1, <2>9 DEF OneExchange, Excused
  <2> QED
    BY <2>7, <2>8, <2>10, <2>11, <2>12
<1>4. ASSUME NEW r \in Requests, Access!RefreshLoadsUser(r) PROVE AccessInv'
  <2> DEFINE q0 == tokensRequest[r]
             new == IF tokensDisabled THEN None ELSE [q0 EXCEPT !.step = "issue"]
  <2>1. /\ q0 # None /\ q0.step = "user"
        /\ tokensRequest' = [tokensRequest EXCEPT ![r] = new]
        /\ UNCHANGED <<password, tokensDisabled, issued, chain, tokensLive, knows, dead,
                       tokensLate, twins>>
    <3>1. /\ q0 # None /\ q0.step = "user"
          /\ IF tokensDisabled THEN tokensRequest' = [tokensRequest EXCEPT ![r] = None]
             ELSE tokensRequest' = [tokensRequest EXCEPT ![r].step = "issue"]
          /\ UNCHANGED <<password, tokensDisabled, issued, chain, tokensLive, knows, dead,
                         tokensLate, twins>>
      BY <1>4 DEF Access!RefreshLoadsUser, Access!Doing, Access!Goes, Access!Ends
    <3> QED
      BY <3>1, Zenon
  <2>3. q0 \in AccessSlot /\ new \in AccessSlot \cup {None}
    BY <2>1 DEF AccessTyped, AccessSlot
  <2>4. new # None => new.token = q0.token /\ new.chain = q0.chain /\ new.step = "issue"
        /\ new.swept = q0.swept
    <3>1. CASE tokensDisabled
      BY <3>1
    <3>2. CASE ~ tokensDisabled
      <4>1. new = [q0 EXCEPT !.step = "issue"]
        BY <3>2
      <4> QED
        BY <2>3, <4>1 DEF AccessSlot
    <3> QED
      BY <3>1, <3>2
  <2> HIDE DEF new
  <2>5. tokensRequest' \in Slots
    BY <2>1, <2>3, Zenon DEF AccessTyped
  <2>6. /\ tokensRequest'[r] = new /\ \A q \in Requests \ {r} : tokensRequest'[q] = tokensRequest[q]
    BY <2>1, Zenon DEF AccessTyped
  <2>7. AccessTyped'
    BY <2>1, <2>4, <2>5, <2>6 DEF AccessTyped, Given, Access!Chains
  <2>8. LiveAreGood' /\ OneOfEachChain'
    BY <2>1, <2>4, <2>6 DEF LiveAreGood, Good, Sweeping, SweepNears, OneOfEachChain, Excused,
                            Access!Doing
  <2>9. \A q \in Requests : Issuing(q)' =>
          Issuing(q) /\ tokensRequest'[q].chain = tokensRequest[q].chain
    BY <2>1, <2>4, <2>6 DEF Issuing
  <2>10. IssuedWillBeGood'
    <3>1. \A q \in Requests : Issuing(q)' /\ tokensRequest[q].chain = 0 =>
            tokensRequest'[q].pw = tokensRequest[q].pw
      BY <2>1, <2>4, <2>6 DEF AccessTyped, Issuing
    <3> QED
      BY <2>1, <2>4, <2>6, <2>9, <3>1 DEF IssuedWillBeGood, Good, Sweeping, SweepNears, Access!Doing
  <2>11. ExchangedGoes'
    BY <2>1, <2>4, <2>6, <2>9 DEF ExchangedGoes, Excused, LiveIn, Issuing
  <2>12. OneExchange'
    BY <2>1, <2>9 DEF OneExchange, Excused
  <2> QED
    BY <2>7, <2>8, <2>10, <2>11, <2>12
<1>5. ASSUME NEW r \in Requests, Access!IssueTokens(r) PROVE AccessInv'
  <2> DEFINE q0 == tokensRequest[r]
  <2>0. PICK n, c : n = issued + 1 /\ c = IF q0.chain = 0 THEN n ELSE q0.chain
    OBVIOUS
  <2>1. /\ q0 # None /\ q0.step = "issue" /\ issued < MaxTokens
        /\ issued' = n /\ tokensLive' = tokensLive \cup {n}
        /\ chain' = [chain EXCEPT ![n] = c]
        /\ knows' = IF q0.chain = 0 THEN [knows EXCEPT ![n] = q0.pw] ELSE knows
        /\ tokensLate' = IF q0.swept THEN tokensLate \cup {chain'[n]} ELSE tokensLate
        /\ tokensRequest' = [tokensRequest EXCEPT ![r] = None]
        /\ UNCHANGED <<password, tokensDisabled, dead, twins>>
    BY <1>5, <2>0 DEF Access!IssueTokens, Access!Doing, Access!Ends
  <2>2. q0 \in AccessSlot /\ issued \in Nat /\ n \in 1 .. MaxTokens /\ n \notin Given
        /\ Given' = Given \cup {n}
    BY <2>0, <2>1, BoundsAreNumbers DEF AccessTyped, Given
  <2>3. /\ q0.chain \in Nat /\ q0.pw \in Nat
        /\ q0.chain # 0 => q0.chain \in Given
    <3>1. Access!Chains \subseteq Given
      BY <2>2 DEF AccessTyped, Access!Chains, Given
    <3> QED
      BY <2>1, <2>2, <3>1 DEF AccessSlot, AccessTyped
  <2>4. chain' \in [1 .. MaxTokens -> Nat] /\ chain'[n] = c
        /\ \A t \in Given : chain'[t] = chain[t] /\ chain'[t] \in Given
    BY <2>0, <2>1, <2>2, <2>3 DEF AccessTyped, Given
  <2>5. knows' \in [1 .. MaxTokens -> Nat] /\ (\A d \in Given : knows'[d] = knows[d])
        /\ (q0.chain = 0 => knows'[n] = q0.pw)
    BY <2>1, <2>2, <2>3 DEF AccessTyped, Given
  <2>6. tokensRequest' \in Slots /\ tokensRequest'[r] = None
        /\ \A q \in Requests \ {r} : tokensRequest'[q] = tokensRequest[q]
    BY <2>1, Zenon DEF AccessTyped
  <2>7. /\ tokensLate' = IF q0.swept THEN tokensLate \cup {c} ELSE tokensLate
        /\ c \in Given' /\ c # 0 /\ c <= n
    BY <2>0, <2>1, <2>2, <2>3, <2>4 DEF Given
  <2>8. AccessTyped'
    <3>1. Access!Chains' = Access!Chains \cup {c}
      <4>1. Access!Chains' = {chain'[t] : t \in Given'} /\ Access!Chains = {chain[t] : t \in Given}
        BY DEF Access!Chains, Given
      <4> QED
        BY <2>2, <2>4, <4>1
    <3>2. \A t \in Given' : chain'[t] \in 1 .. t
      BY <2>0, <2>2, <2>4, <2>7 DEF AccessTyped, Given
    <3>3. issued' \in 0 .. MaxTokens
      BY <2>0, <2>1, <2>2
    <3> QED
      BY <2>1, <2>2, <2>4, <2>5, <2>6, <2>7, <3>1, <3>2, <3>3 DEF AccessTyped
  <2>9. \A q \in Requests : Access!Doing(q, "sweep") =>
          Access!Doing(q, "sweep")' /\ tokensRequest'[q].chain = tokensRequest[q].chain
                                    /\ tokensRequest[q].chain \in Given \cup {0}
    BY <2>1, <2>6 DEF Access!Doing, AccessTyped, Access!Chains, Given
  <2>10. SweepNears => SweepNears' /\ Sweeping(n)'
    BY <2>2, <2>9 DEF SweepNears, Sweeping
  <2>11. ASSUME NEW d \in Given, Good(d)
         PROVE  Good(d)'
    BY <2>1, <2>5, <2>7, <2>9, <2>11 DEF Good, SweepNears, Sweeping
  <2>12. Good(c)'
    <3>1. CASE q0.swept
      BY <2>7, <3>1 DEF Good
    <3>2. CASE ~ q0.swept /\ q0.chain # 0
      <4>1. Good(c) /\ c \in Given
        BY <2>0, <2>1, <2>3, <3>2 DEF IssuedWillBeGood, Issuing
      <4> QED
        BY <4>1, <2>11
    <3>3. CASE ~ q0.swept /\ q0.chain = 0
      <4>1. c = n /\ n \notin dead /\ (q0.pw = password \/ SweepNears)
            /\ (~ tokensDisabled \/ SweepNears)
        BY <2>0, <2>1, <2>2, <3>3 DEF IssuedWillBeGood, Issuing, AccessTyped
      <4> QED
        BY <2>1, <2>5, <2>10, <3>3, <4>1 DEF Good
    <3> QED
      BY <3>1, <3>2, <3>3, <2>3
  <2>13. LiveAreGood'
    BY <2>1, <2>4, <2>11, <2>12 DEF LiveAreGood, AccessTyped
  <2>14. ASSUME NEW q \in Requests, Issuing(q)'
         PROVE  /\ q # r /\ Issuing(q) /\ tokensRequest'[q] = tokensRequest[q]
                /\ tokensRequest[q].chain \in Given \cup {0}
    BY <2>6, <2>14 DEF Issuing, AccessTyped, Access!Chains, Given
  <2>15. IssuedWillBeGood'
    <3>1. ASSUME NEW q \in Requests, Issuing(q)', NEW d \in Given, d = tokensRequest[q].chain
          PROVE  Good(d)'
      <4>1. d # 0
        BY <2>2 DEF Given
      <4>2. Issuing(q)
        BY <2>14, <3>1
      <4>3. Good(d)
        BY <3>1, <4>1, <4>2 DEF IssuedWillBeGood
      <4> QED
        BY <2>11, <4>3
    <3>2. ASSUME NEW q \in Requests, Issuing(q)', tokensRequest[q].chain = 0
          PROVE  /\ tokensRequest[q].pw = password' \/ SweepNears'
                 /\ ~ tokensDisabled' \/ SweepNears'
      BY <2>1, <2>10, <2>14, <3>2 DEF IssuedWillBeGood
    <3> SUFFICES ASSUME NEW q \in Requests, Issuing(q)'
                 PROVE  IF tokensRequest'[q].chain # 0 THEN Good(tokensRequest[q].chain)'
                        ELSE /\ tokensRequest'[q].pw = password' \/ SweepNears'
                             /\ ~ tokensDisabled' \/ SweepNears'
      BY DEF IssuedWillBeGood
    <3>3. PICK d : d = tokensRequest'[q].chain
      OBVIOUS
    <3>4. CASE d # 0
      <4>1. d \in Given /\ d = tokensRequest[q].chain
        BY <2>14, <3>3, <3>4
      <4>2. Good(d)'
        BY <3>1, <4>1
      <4> QED
        BY <3>3, <3>4, <4>2 DEF Good, Sweeping
    <3>5. CASE d = 0
      BY <2>14, <3>2, <3>3, <3>5
    <3> QED
      BY <3>4, <3>5
  <2>16. \A t \in tokensLive : t \in Given /\ chain[t] \in Given
    BY <2>4 DEF AccessTyped
  \* Until it is exchanged or crossed, the chain of r has no live token.
  <2>17. q0.swept \/ q0.chain = 0 \/ Excused(q0.chain) \/ LiveIn(q0.chain) = {}
    BY <2>1 DEF ExchangedGoes, Issuing
  <2>18. ASSUME c \notin tokensLate' \cup twins'
         PROVE  \A t \in tokensLive : chain[t] # c
    <3>1. CASE q0.chain = 0
      BY <2>0, <2>2, <2>16, <3>1
    <3>2. CASE q0.chain # 0
      <4>1. c = q0.chain /\ ~ q0.swept /\ ~ Excused(q0.chain)
        BY <2>0, <2>1, <2>7, <2>18, <3>2 DEF Excused
      <4> QED
        BY <2>17, <3>2, <4>1 DEF LiveIn
    <3> QED
      BY <3>1, <3>2
  <2>19. tokensLate \subseteq tokensLate' /\ twins' = twins
    BY <2>1, <2>7
  <2>20. OneOfEachChain'
    <3> SUFFICES ASSUME NEW s \in tokensLive', NEW t \in tokensLive', chain'[s] = chain'[t],
                        chain'[t] \notin tokensLate' \cup twins'
                 PROVE  s = t
      BY DEF OneOfEachChain, Excused
    <3>1. CASE s # n /\ t # n
      BY <2>1, <2>4, <2>16, <2>19, <3>1 DEF OneOfEachChain, Excused
    <3>2. CASE s = n \/ t = n
      BY <2>1, <2>4, <2>16, <2>18, <3>2
    <3> QED
      BY <3>1, <3>2
  <2>21. ASSUME NEW q \in Requests, Issuing(q)', tokensRequest[q].chain # 0,
                tokensRequest[q].chain \notin tokensLate' \cup twins'
         PROVE  tokensRequest[q].chain # c
    <3>1. CASE q0.chain = 0
      BY <2>0, <2>2, <2>14, <2>21, <3>1
    <3>2. CASE q0.chain # 0
      <4>1. c = q0.chain
        BY <2>0, <3>2
      <4>2. CASE q0.swept
        BY <2>7, <2>21, <4>2
      <4>3. CASE ~ q0.swept
        <5>1. Issuing(r) /\ Issuing(q) /\ q # r
          BY <2>1, <2>14, <2>21, <4>3 DEF Issuing
        <5> QED
          BY <2>19, <2>21, <4>1, <5>1 DEF OneExchange, Excused
      <4> QED
        BY <4>2, <4>3
    <3> QED
      BY <3>1, <3>2
  <2>22. ExchangedGoes'
    <3> SUFFICES ASSUME NEW q \in Requests, Issuing(q)', tokensRequest'[q].chain # 0,
                        tokensRequest'[q].chain \notin tokensLate' \cup twins',
                        NEW t \in tokensLive', chain'[t] = tokensRequest'[q].chain
                 PROVE  t \in IF tokensRequest'[q].step = "rotate" THEN {tokensRequest'[q].token}
                              ELSE {}
      BY DEF ExchangedGoes, LiveIn, Excused
    <3>1. Issuing(q) /\ tokensRequest'[q] = tokensRequest[q]
      BY <2>14
    <3>2. t # n /\ t \in tokensLive /\ chain[t] = tokensRequest[q].chain
      BY <2>1, <2>4, <2>16, <2>21, <3>1
    <3> QED
      BY <2>19, <3>1, <3>2 DEF ExchangedGoes, LiveIn, Excused
  <2>23. OneExchange'
    BY <2>14, <2>19 DEF OneExchange, Excused
  <2> QED
    BY <2>8, <2>13, <2>15, <2>20, <2>22, <2>23
<1>6. ASSUME NEW r \in Requests, Access!IssueFails(r) PROVE AccessInv'
  <2>1. /\ Access!Doing(r, "issue") /\ tokensRequest' = [tokensRequest EXCEPT ![r] = None]
        /\ UNCHANGED <<password, tokensDisabled, issued, chain, tokensLive, knows, dead,
                       tokensLate, twins>>
    BY <1>6 DEF Access!IssueFails, Access!Ends
  <2>2. tokensRequest' \in Slots
    BY <2>1, Zenon DEF AccessTyped
  <2>3. \A q \in Requests : tokensRequest'[q] # None => tokensRequest'[q] = tokensRequest[q]
    BY <2>1, <2>2 DEF AccessTyped
  <2>4. AccessTyped'
    BY <2>1, <2>2, <2>3 DEF AccessTyped, Given, Access!Chains
  <2>5. \A q \in Requests : Access!Doing(q, "sweep") => tokensRequest'[q] = tokensRequest[q]
    BY <2>1 DEF Access!Doing, AccessTyped
  <2>6. LiveAreGood' /\ OneOfEachChain'
    BY <2>1, <2>5 DEF LiveAreGood, Good, Sweeping, SweepNears, OneOfEachChain, Excused, Access!Doing
  <2>7. IssuedWillBeGood'
    BY <2>1, <2>3, <2>5 DEF IssuedWillBeGood, Issuing, Good, Sweeping, SweepNears, Access!Doing
  <2>8. ExchangedGoes' /\ OneExchange'
    BY <2>1, <2>3 DEF ExchangedGoes, OneExchange, Issuing, Excused, LiveIn
  <2> QED
    BY <2>4, <2>6, <2>7, <2>8
<1>7. ASSUME NEW t \in tokensLive, Access!Logout(t) PROVE AccessInv'
  <2> USE <1>7 DEF Access!Logout
  <2>1. AccessTyped'
    BY DEF AccessTyped, Given, Access!Chains
  <2>2. LiveAreGood' /\ OneOfEachChain'
    BY DEF LiveAreGood, Good, Sweeping, SweepNears, OneOfEachChain, Excused, Access!Doing
  <2>3. IssuedWillBeGood'
    BY DEF IssuedWillBeGood, Issuing, Good, Sweeping, SweepNears, Access!Doing
  <2>4. ExchangedGoes' /\ OneExchange'
    BY DEF ExchangedGoes, OneExchange, Issuing, Excused, LiveIn
  <2> QED
    BY <2>1, <2>2, <2>3, <2>4
<1>8. ASSUME NEW r \in Requests, NEW c \in Access!Chains \cup {0},
             \/ Access!ChangePassword(r, c)
             \/ c = 0 /\ (Access!ResetPassword(r) \/ Access!DisableUser(r))
      PROVE  AccessInv'
  <2> DEFINE new == [step |-> "sweep", token |-> 0, chain |-> c, pw |-> 0, swept |-> FALSE]
  <2>1. /\ tokensRequest[r] = None
        /\ tokensRequest' = [tokensRequest EXCEPT ![r] = new]
        /\ UNCHANGED <<issued, chain, tokensLive, knows, dead, tokensLate, twins>>
        /\ \/ password' = password + 1 /\ tokensDisabled' = tokensDisabled
           \/ password' = password /\ c = 0
    BY <1>8 DEF Access!ChangePassword, Access!ResetPassword, Access!DisableUser, Access!Begins
  <2>2. new \in AccessSlot /\ 0 \notin Given
    BY DEF AccessSlot, AccessTyped, Access!Chains, Given
  <2>3. password' \in Nat
    BY <2>1 DEF AccessTyped
  <2>4. tokensDisabled' \in BOOLEAN
    BY <1>8, Zenon DEF Access!ChangePassword, Access!ResetPassword, Access!DisableUser, AccessTyped
  <2>5. tokensRequest' \in Slots /\ tokensRequest'[r] = new
        /\ \A q \in Requests \ {r} : tokensRequest'[q] = tokensRequest[q]
    BY <2>1, <2>2, Zenon DEF AccessTyped
  <2>6. new # None /\ new.step = "sweep" /\ new.chain = c
    BY <2>2
  <2> HIDE DEF new
  <2>7. AccessTyped'
    BY <2>1, <2>3, <2>4, <2>5, <2>6 DEF AccessTyped, Given, Access!Chains
  <2>8. /\ Access!Doing(r, "sweep")'
        /\ \A q \in Requests : Access!Doing(q, "sweep") =>
             q # r /\ tokensRequest'[q] = tokensRequest[q]
    BY <2>1, <2>5, <2>6 DEF Access!Doing
  <2>9. SweepNears'
    BY <2>8 DEF SweepNears
  <2>10. ASSUME NEW d \in Given, Good(d)
         PROVE  Good(d)'
    BY <2>1, <2>2, <2>5, <2>6, <2>8, <2>9, <2>10 DEF Good, Sweeping, Access!Doing
  <2>11. LiveAreGood'
    <3>1. ASSUME NEW t \in tokensLive PROVE chain[t] \in Given
      <4>1. t \in Given /\ chain[t] \in 1 .. t
        BY DEF AccessTyped
      <4> QED
        BY <4>1 DEF Given, AccessTyped
    <3>2. ASSUME NEW t \in tokensLive, NEW d \in Given, d = chain[t] PROVE Good(d)'
      BY <2>10, <3>2 DEF LiveAreGood
    <3> QED
      BY <2>1, <3>1, <3>2 DEF LiveAreGood, Good, Sweeping
  <2>12. \A q \in Requests : Issuing(q)' => Issuing(q) /\ tokensRequest'[q] = tokensRequest[q]
    BY <2>5, <2>6 DEF Issuing
  <2>13. IssuedWillBeGood'
    <3>1. \A q \in Requests : Issuing(q) /\ tokensRequest[q].chain # 0 =>
            tokensRequest[q].chain \in Given
      BY DEF AccessTyped, Given, Issuing, Access!Chains
    <3>2. ASSUME NEW q \in Requests, Issuing(q), tokensRequest[q].chain # 0,
                 NEW d \in Given, d = tokensRequest[q].chain
          PROVE  Good(d)'
      BY <2>10, <3>2 DEF IssuedWillBeGood
    <3> QED
      BY <2>9, <2>12, <3>1, <3>2 DEF IssuedWillBeGood, Good, Sweeping
  <2>14. OneOfEachChain' /\ ExchangedGoes' /\ OneExchange'
    BY <2>1, <2>12 DEF OneOfEachChain, ExchangedGoes, OneExchange, Excused, LiveIn
  <2> QED
    BY <2>7, <2>11, <2>13, <2>14
<1>9. CASE Access!EnableUser
  <2> USE <1>9 DEF Access!EnableUser
  <2>1. AccessTyped'
    BY DEF AccessTyped, Given, Access!Chains
  <2>2. LiveAreGood' /\ OneOfEachChain'
    BY DEF LiveAreGood, Good, Sweeping, SweepNears, OneOfEachChain, Excused, Access!Doing
  <2>3. IssuedWillBeGood'
    BY DEF IssuedWillBeGood, Issuing, Good, Sweeping, SweepNears, Access!Doing
  <2>4. ExchangedGoes' /\ OneExchange'
    BY DEF ExchangedGoes, OneExchange, Issuing, Excused, LiveIn
  <2> QED
    BY <2>1, <2>2, <2>3, <2>4
\* A revocation of all chains but c, or, by an operation of its own, of others.
<1>10. ASSUME NEW cs \in SUBSET Access!Chains, NEW after \in Slots,
              Access!Sweep(cs, after),
              \A q \in Requests :
                \/ after[q] = tokensRequest[q]
                \/ /\ after[q] = None /\ Access!Doing(q, "sweep")
                   /\ tokensRequest[q].chain \notin cs
                   /\ \A d \in Access!Chains \ cs :
                        d = tokensRequest[q].chain /\ knows'[d] = password,
              \A d \in Given :
                knows'[d] = knows[d] \/ (d \notin cs /\ knows'[d] = password),
              knows' \in [1 .. MaxTokens -> Nat],
              UNCHANGED <<issued, chain, twins>>,
              \/ UNCHANGED <<password, tokensDisabled>>
              \/ cs = Access!Chains /\ password' \in Nat /\ tokensDisabled' \in BOOLEAN
       PROVE  AccessInv'
  <2>1. /\ tokensLive' = tokensLive \ Access!Covered(cs)
        /\ dead' = dead \cup cs /\ tokensLate' = tokensLate \ cs
        /\ tokensRequest' = [q \in Requests |->
             IF Access!Crosses(q, cs) THEN [after[q] EXCEPT !.swept = TRUE] ELSE after[q]]
    BY <1>10 DEF Access!Sweep
  <2>2. \A q \in Requests : Access!Crosses(q, cs) => after[q] = tokensRequest[q]
    BY <1>10 DEF Access!Crosses, Access!Doing
  <2>3. ASSUME NEW q \in Requests
        PROVE  /\ tokensRequest'[q] \in AccessSlot \cup {None}
               /\ tokensRequest'[q] # None =>
                    /\ tokensRequest[q] # None
                    /\ tokensRequest'[q].step = tokensRequest[q].step
                    /\ tokensRequest'[q].token = tokensRequest[q].token
                    /\ tokensRequest'[q].chain = tokensRequest[q].chain
                    /\ tokensRequest'[q].pw = tokensRequest[q].pw
    <3>1. CASE Access!Crosses(q, cs)
      <4>1. /\ tokensRequest[q] \in AccessSlot
            /\ tokensRequest'[q] = [tokensRequest[q] EXCEPT !.swept = TRUE]
        BY <2>1, <2>2, <3>1 DEF Access!Crosses, AccessTyped
      <4> QED
        BY <4>1 DEF AccessSlot
    <3>2. CASE ~ Access!Crosses(q, cs)
      BY <1>10, <2>1, <3>2 DEF AccessTyped
    <3> QED
      BY <3>1, <3>2
  <2>4. tokensRequest' \in Slots
    BY <2>1, <2>3
  <2>5. ASSUME NEW q \in Requests, Issuing(q)'
        PROVE  Issuing(q) /\ tokensRequest[q].chain \notin cs \cup {0}
    <3>1. CASE Access!Crosses(q, cs)
      <4>1. /\ tokensRequest[q] \in AccessSlot
            /\ tokensRequest'[q] = [tokensRequest[q] EXCEPT !.swept = TRUE]
        BY <2>1, <2>2, <3>1 DEF Access!Crosses, AccessTyped
      <4> QED
        BY <2>5, <4>1 DEF AccessSlot, Issuing
    <3>2. CASE ~ Access!Crosses(q, cs)
      <4>1. tokensRequest'[q] = tokensRequest[q]
        BY <1>10, <2>1, <2>5, <3>2 DEF Issuing
      <4> QED
        BY <2>5, <3>2, <4>1 DEF Issuing, Access!Crosses
    <3> QED
      BY <3>1, <3>2
  <2>6. password' \in Nat /\ tokensDisabled' \in BOOLEAN
    BY <1>10, Zenon DEF AccessTyped
  <2>7. AccessTyped' /\ OneOfEachChain' /\ ExchangedGoes' /\ OneExchange'
    BY <1>10, <2>1, <2>3, <2>4, <2>5, <2>6, AccessSwept
  \* A revocation that ends spared one chain at most, which knows the password.
  <2>8. ASSUME NEW d \in Access!Chains \ cs, Good(d)
        PROVE  Good(d)'
    <3>1. d \in Given /\ UNCHANGED <<password, tokensDisabled>>
      BY <1>10 DEF AccessTyped, Access!Chains, Given
    <3>2. CASE \A q \in Requests : after[q] = tokensRequest[q]
      <4>1. \A q \in Requests : Access!Doing(q, "sweep") => tokensRequest'[q] = tokensRequest[q]
        BY <2>1, <3>2 DEF Access!Doing, Access!Crosses
      <4> QED
        BY <1>10, <2>1, <2>8, <3>1, <4>1 DEF Good, Sweeping, SweepNears, Access!Doing
    <3>3. ASSUME NEW q \in Requests, after[q] # tokensRequest[q] PROVE Good(d)'
      <4>1. d = tokensRequest[q].chain /\ knows'[d] = password
        BY <1>10, <3>3
      <4>2. ASSUME NEW p \in Requests, Access!Doing(p, "sweep"), tokensRequest[p].chain # d
            PROVE  tokensRequest'[p] = tokensRequest[p]
        BY <1>10, <2>1, <4>2 DEF Access!Doing, Access!Crosses
      <4> QED
        BY <2>1, <2>8, <3>1, <4>1, <4>2 DEF Good, Sweeping, Access!Doing
    <3> QED
      BY <3>2, <3>3
  <2>9. LiveAreGood'
    <3>1. \A t \in tokensLive' : t \in tokensLive /\ chain[t] \in Access!Chains \ cs
      BY <2>1 DEF Access!Covered, Access!Chains, AccessTyped, Given
    <3>2. ASSUME NEW t \in tokensLive', NEW d \in Access!Chains \ cs, d = chain[t] PROVE Good(d)'
      BY <2>8, <3>1, <3>2 DEF LiveAreGood
    <3> QED
      BY <1>10, <3>1, <3>2 DEF LiveAreGood, Good, Sweeping
  <2>10. IssuedWillBeGood'
    <3>1. ASSUME NEW q \in Requests, Issuing(q)'
          PROVE  /\ tokensRequest'[q].chain = tokensRequest[q].chain
                 /\ tokensRequest[q].chain \in Access!Chains \ cs
                 /\ tokensRequest[q].chain # 0
      BY <2>3, <2>5, <3>1 DEF Issuing, AccessTyped
    <3>2. ASSUME NEW q \in Requests, Issuing(q)', NEW d \in Access!Chains \ cs,
                 d = tokensRequest[q].chain
          PROVE  Good(d)'
      BY <2>5, <2>8, <3>2 DEF IssuedWillBeGood
    <3> QED
      BY <3>1, <3>2 DEF IssuedWillBeGood, Good, Sweeping
  <2> QED
    BY <2>7, <2>9, <2>10
<1>11. ASSUME NEW r \in Requests, Access!RevokeAllSessions(r) PROVE AccessInv'
  <2>1. PICK c : c = tokensRequest[r].chain
    OBVIOUS
  <2>2. PICK cs : cs = Access!Chains \ {c}
    OBVIOUS
  <2>3. PICK after : after = Access!Done(r)
    OBVIOUS
  <2>4. /\ Access!Doing(r, "sweep") /\ Access!Sweep(cs, after)
        /\ knows' = IF c = 0 THEN knows ELSE [knows EXCEPT ![c] = password]
        /\ UNCHANGED <<password, tokensDisabled, issued, chain, twins>>
    BY <1>11, <2>1, <2>2, <2>3 DEF Access!RevokeAllSessions
  <2>5. after \in Slots /\ after = [tokensRequest EXCEPT ![r] = None]
    BY <2>3, Zenon DEF Access!Done, AccessTyped
  <2>6. c \in Access!Chains \cup {0}
    BY <2>1, <2>4 DEF AccessTyped, Access!Doing
  <2>7. Access!Chains \subseteq Given /\ Given \subseteq 1 .. MaxTokens /\ 0 \notin Given
    BY BoundsAreNumbers DEF Access!Chains, AccessTyped, Given
  <2>8. knows' \in [1 .. MaxTokens -> Nat]
    BY <2>4, <2>6, <2>7 DEF AccessTyped
  <2>9. \A d \in Access!Chains \ cs : d = c /\ knows'[d] = password
    BY <2>2, <2>4, <2>6, <2>7 DEF AccessTyped
  <2>10. ASSUME NEW q \in Requests
         PROVE  \/ after[q] = tokensRequest[q]
                \/ /\ after[q] = None /\ Access!Doing(q, "sweep")
                   /\ tokensRequest[q].chain \notin cs
                   /\ \A d \in Access!Chains \ cs :
                        d = tokensRequest[q].chain /\ knows'[d] = password
    <3>1. CASE q = r
      <4>1. after[q] = None
        BY <2>5, <3>1, Zenon DEF AccessTyped
      <4> QED
        BY <2>1, <2>2, <2>4, <2>9, <3>1, <4>1
    <3>2. CASE q # r
      BY <2>5, <3>2, Zenon DEF AccessTyped
    <3> QED
      BY <3>1, <3>2
  <2>11. ASSUME NEW d \in Given
         PROVE  knows'[d] = knows[d] \/ (d \notin cs /\ knows'[d] = password)
    <3>1. CASE d = c
      <4>1. c # 0 /\ d \notin cs /\ c \in 1 .. MaxTokens
        BY <2>2, <2>7, <3>1
      <4> QED
        BY <2>4, <3>1, <4>1 DEF AccessTyped
    <3>2. CASE d # c
      <4>1. d \in 1 .. MaxTokens
        BY <2>7
      <4>2. knows'[d] = knows[d]
        BY <2>4, <3>2, <4>1 DEF AccessTyped
      <4> QED
        BY <4>2
    <3> QED
      BY <3>1, <3>2
  <2>12. cs \in SUBSET Access!Chains
    BY <2>2
  <2>13. after \in Slots /\ Access!Sweep(cs, after)
    BY <2>4, <2>5
  <2>14. /\ UNCHANGED <<issued, chain, twins>>
         /\ \/ UNCHANGED <<password, tokensDisabled>>
            \/ cs = Access!Chains /\ password' \in Nat /\ tokensDisabled' \in BOOLEAN
    BY <2>4
  <2> QED
    BY <1>10, <2>8, <2>10, <2>11, <2>12, <2>13, <2>14, Zenon
<1>12. ASSUME NEW cs \in SUBSET Access!Chains, Access!Sweep(cs, tokensRequest),
              UNCHANGED <<issued, chain, knows, twins>>,
              \/ UNCHANGED <<password, tokensDisabled>>
              \/ cs = Access!Chains /\ password' \in Nat /\ tokensDisabled' \in BOOLEAN
       PROVE  AccessInv'
  <2>1. PICK after : after = tokensRequest
    OBVIOUS
  <2>2. after \in Slots /\ knows' \in [1 .. MaxTokens -> Nat] /\ Access!Sweep(cs, after)
    BY <1>12, <2>1 DEF AccessTyped
  <2>3. \A q \in Requests : after[q] = tokensRequest[q]
    BY <2>1
  <2>4. (\A d \in Given : knows'[d] = knows[d]) /\ UNCHANGED <<issued, chain, twins>>
    BY <1>12
  <2> QED
    BY <1>10, <1>12, <2>2, <2>3, <2>4, Zenon
<1>13. ASSUME NEW c \in Access!Chains, Access!RevokeOtherSessions(c) \/ Access!RevokeSession(c)
       PROVE  AccessInv'
  <2>1. CASE Access!RevokeOtherSessions(c)
    <3>1. PICK cs : cs = Access!Chains \ {c}
      OBVIOUS
    <3> QED
      BY <1>12, <2>1, <3>1 DEF Access!RevokeOtherSessions
  <2>2. CASE Access!RevokeSession(c)
    BY <1>12, <2>2 DEF Access!RevokeSession
  <2> QED
    BY <1>13, <2>1, <2>2
<1>14. CASE Access!DeleteAccount
  <2>1. PICK cs : cs = Access!Chains
    OBVIOUS
  <2>2. tokensDisabled' \in BOOLEAN
    BY <1>14, Zenon DEF Access!DeleteAccount
  <2>3. /\ password' = password + 1 /\ Access!Sweep(cs, tokensRequest)
        /\ UNCHANGED <<issued, chain, knows, twins>>
    BY <1>14, <2>1 DEF Access!DeleteAccount
  <2>4. password' \in Nat
    BY <2>3 DEF AccessTyped
  <2> QED
    BY <1>12, <2>1, <2>2, <2>3, <2>4
<1>15. CASE UNCHANGED tokensVars
  <2> USE <1>15 DEF tokensVars
  <2>1. AccessTyped'
    BY DEF AccessTyped, Given, Access!Chains
  <2>2. LiveAreGood' /\ OneOfEachChain'
    BY DEF LiveAreGood, Good, Sweeping, SweepNears, OneOfEachChain, Excused, Access!Doing
  <2>3. IssuedWillBeGood'
    BY DEF IssuedWillBeGood, Issuing, Good, Sweeping, SweepNears, Access!Doing
  <2>4. ExchangedGoes' /\ OneExchange'
    BY DEF ExchangedGoes, OneExchange, Issuing, Excused, LiveIn
  <2> QED
    BY <2>1, <2>2, <2>3, <2>4
<1>16. CASE Access!Next
  <2>1. ASSUME NEW r \in Requests, Access!ResetPassword(r) \/ Access!DisableUser(r)
        PROVE  AccessInv'
    BY <1>8, <2>1
  <2> QED
    BY <1>1, <1>2, <1>3, <1>4, <1>5, <1>6, <1>7, <1>8, <1>9, <1>11, <1>13, <1>14, <1>16, <2>1
       DEF Access!Next
<1> QED
  BY <1>15, <1>16 DEF Next, vars

(* Who was revoked stays out: once nothing is under way, what is live      *)
(* belongs to a chain that nobody revoked, that knows the password of now, *)
(* and is the only live token of its chain.                                *)
THEOREM RevokedStayOut == Spec => []RevokedStaysOut
<1>1. AccessInv => RevokedStaysOut
  <2> SUFFICES ASSUME AccessInv, Access!Quiet PROVE RevokedStaysOut
    BY DEF RevokedStaysOut, Access!RevokedStaysOut
  <2>1. ~ SweepNears /\ \A c : ~ Sweeping(c)
    BY DEF Access!Quiet, SweepNears, Sweeping, Access!Doing
  <2> QED
    BY <2>1 DEF AccessInv, LiveAreGood, Good, OneOfEachChain, Excused, RevokedStaysOut,
                Access!RevokedStaysOut
<1> QED
  BY <1>1, AccessInit, AccessNext, PTL DEF Spec

-----------------------------------------------------------------------------
(* The members of a guild. *)

As(slot, steps) == slot # None /\ slot.step \in steps
Handled(r, steps) == As(guildRequest[r], steps)

\* A row that is gone, and whose GUILD_MEMBER_REMOVE is still to come.
Gone == {"removed", "ban removed"}
Leaving(i) == \E r \in Requests : Handled(r, Gone) /\ guildRequest[r].id = i
Coming(i)  == \E r \in Requests : Handled(r, {"add"}) /\ guildRequest[r].id = i
Current(i) == \E u \in Users : guildMember[u] = i

GuildTyped ==
  /\ ids \in Nat /\ guildUses \in Nat /\ installed \in Nat
  /\ guildUses + installed = ids /\ guildUses <= MaxUses
  /\ guildMember \in [Users -> 0 .. ids]
  /\ guildRequest \in [Requests -> GuildSlot \cup {None}]
  /\ shown \subseteq 1 .. ids /\ banned \subseteq Users /\ owner \in Users \cup {None}
  /\ \A r \in Requests : guildRequest[r] # None /\ guildRequest[r].step # "undo" =>
       guildRequest[r].user \in Users

\* Steps at which a handler knows of a row, which is not 0.
Rowed == Gone \cup {"remove", "delete", "ban removes", "add"}

\* A row has one user all its life.
RowsAreOfOne ==
  /\ \A u, v \in Users : guildMember[u] = guildMember[v] => u = v \/ guildMember[u] = 0
  /\ \A r \in Requests : guildRequest[r] # None =>
       /\ guildRequest[r].id <= ids
       /\ \A u \in Users : guildMember[u] = guildRequest[r].id =>
            u = guildRequest[r].user \/ guildMember[u] = 0
  /\ \A r \in Requests : Handled(r, Rowed) => guildRequest[r].id # 0
  /\ \A r \in Requests : Handled(r, Gone) => ~ Current(guildRequest[r].id)

\* What the list shows too much or too little has its event to come.
ListCatchesUp == \A i : i # 0 =>
  /\ i \in shown \ reordered => Current(i) \/ Leaving(i)
  /\ Current(i) => i \in shown \cup reordered \/ Coming(i)
  /\ Coming(i) => Current(i) \/ Leaving(i) \/ i \in reordered

\* A banned member is about to be removed, or is one of the excused.
BansCatchUp ==
  /\ \A u \in banned : guildMember[u] # 0 =>
       \/ u \in guildCrossed
       \/ \E r \in Requests : Handled(r, {"ban removes"})
            /\ guildRequest[r].user = u /\ guildRequest[r].id = guildMember[u]
  /\ \A r \in Requests, u \in Users :
       Handled(r, {"ban"}) /\ guildRequest[r].user = u /\ guildMember[u] # 0 =>
         guildMember[u] = guildRequest[r].id \/ u \in guildCrossed

\* Who is or becomes the owner stays, or met his removal.
Heads(u) ==
  \/ owner = u
  \/ \E r \in Requests : Handled(r, {"transfer"}) /\ guildRequest[r].user = u

HeadStays ==
  \A u \in Users : Heads(u) =>
    \/ u \in met
    \/ /\ guildMember[u] # 0
       /\ \A r \in Requests : Handled(r, Guild!Removing) => guildRequest[r].user # u

GuildInv == GuildTyped /\ RowsAreOfOne /\ ListCatchesUp /\ BansCatchUp /\ HeadStays

LEMMA GuildInit == Init => GuildInv
<1> SUFFICES ASSUME Init PROVE GuildInv
  OBVIOUS
<1> USE NoneIsNoValue, BoundsAreNumbers DEF Init, Guild!Init
<1>1. guildRequest \in [Requests -> GuildSlot \cup {None}]
  BY Zenon
<1>2. \A r \in Requests : guildRequest[r] = None
  OBVIOUS
<1>3. \A u \in Users : guildMember[u] = 0
  OBVIOUS
<1>4. GuildTyped
  BY <1>1, <1>2 DEF GuildTyped
<1>5. RowsAreOfOne /\ ListCatchesUp /\ BansCatchUp
  BY <1>2, <1>3 DEF RowsAreOfOne, ListCatchesUp, BansCatchUp, Handled, As, Current, Coming
<1>6. HeadStays
  BY <1>2 DEF HeadStays, Heads, Handled, As
<1> QED
  BY <1>4, <1>5, <1>6 DEF GuildInv

LEMMA RowNumbers ==
  ASSUME GuildTyped
  PROVE  /\ ids \in Nat /\ 0 \in 0 .. ids
         /\ \A u \in Users : guildMember[u] \in 0 .. ids /\ guildMember[u] \in Nat
<1>1. ids \in Nat /\ guildMember \in [Users -> 0 .. ids]
  BY DEF GuildTyped
<1>2. \A u \in Users : guildMember[u] \in 0 .. ids
  BY <1>1
<1> QED
  BY <1>1, <1>2

\* One handler goes on to what it does next, or is done.
Puts(r, new) ==
  /\ guildRequest' \in [Requests -> GuildSlot \cup {None}]
  /\ guildRequest'[r] = new
  /\ \A q \in Requests : q # r => guildRequest'[q] = guildRequest[q]

LEMMA SlotPut ==
  ASSUME GuildTyped, NEW r \in Requests, NEW new \in GuildSlot \cup {None},
         guildRequest' = [guildRequest EXCEPT ![r] = new]
  PROVE  Puts(r, new)
<1>1. guildRequest' \in [Requests -> GuildSlot \cup {None}]
  BY Zenon DEF GuildTyped
<1>2. guildRequest'[r] = new /\ \A q \in Requests : q # r => guildRequest'[q] = guildRequest[q]
  BY Zenon DEF GuildTyped
<1> QED
  BY <1>1, <1>2 DEF Puts

\* A row may go, and a handler knows of the row it read or of none.
LEMMA OneGoesOn ==
  ASSUME GuildTyped, RowsAreOfOne, NEW r \in Requests, NEW new, Puts(r, new),
         ids' = ids, \A u \in Users : guildMember'[u] \in {guildMember[u], 0},
         \/ new = None
         \/ /\ new.id \in Nat
            /\ \/ new.id = 0
               \/ /\ guildRequest[r] # None /\ new.id = guildRequest[r].id
                  /\ new.user = guildRequest[r].user
               \/ new.user \in Users /\ new.id = guildMember[new.user],
         As(new, Rowed) => new.id # 0,
         As(new, Gone) => \A u \in Users : guildMember'[u] # new.id
  PROVE  RowsAreOfOne'
<1>1. \A u, v \in Users : guildMember'[u] = guildMember'[v] => u = v \/ guildMember'[u] = 0
  BY DEF RowsAreOfOne
<1>2. ASSUME NEW q \in Requests, guildRequest'[q] # None
      PROVE  /\ guildRequest'[q].id <= ids
             /\ \A u \in Users : guildMember'[u] = guildRequest'[q].id =>
                  u = guildRequest'[q].user \/ guildMember'[u] = 0
  <2>1. CASE q # r
    BY <1>2, <2>1 DEF RowsAreOfOne, Puts
  <2>2. CASE q = r
    <3>1. new # None /\ guildRequest'[q] = new
      BY <1>2, <2>2 DEF Puts
    <3>2. CASE new.id = 0
      BY <3>1, <3>2 DEF GuildTyped
    <3>3. CASE /\ guildRequest[r] # None /\ new.id = guildRequest[r].id
               /\ new.user = guildRequest[r].user
      BY <3>1, <3>3 DEF RowsAreOfOne
    <3>4. CASE new.user \in Users /\ new.id = guildMember[new.user]
      BY <3>1, <3>4 DEF GuildTyped, RowsAreOfOne
    <3> QED
      BY <3>1, <3>2, <3>3, <3>4
  <2> QED
    BY <2>1, <2>2
<1>3. ASSUME NEW q \in Requests, Handled(q, Rowed)' PROVE guildRequest'[q].id # 0
  <2>1. CASE q = r
    BY <1>3, <2>1 DEF Puts, Handled
  <2>2. CASE q # r
    BY <1>3, <2>2 DEF Puts, Handled, RowsAreOfOne
  <2> QED
    BY <2>1, <2>2
<1>4. ASSUME NEW q \in Requests, Handled(q, Gone)'
      PROVE  \A u \in Users : guildMember'[u] # guildRequest'[q].id
  <2>1. CASE q = r
    BY <1>4, <2>1 DEF Puts, Handled
  <2>2. CASE q # r
    <3>1. Handled(q, Gone) /\ Handled(q, Rowed) /\ guildRequest'[q] = guildRequest[q]
      BY <1>4, <2>2 DEF Puts, Handled, As, Rowed
    <3> QED
      BY <3>1 DEF RowsAreOfOne, Current
  <2> QED
    BY <2>1, <2>2
<1> QED
  BY <1>1, <1>2, <1>3, <1>4 DEF RowsAreOfOne, Current

\* What moves no row, and no handler with an event, is not seen in the list.
LEMMA ListIdle ==
  ASSUME ListCatchesUp, NEW r \in Requests, NEW new, Puts(r, new),
         UNCHANGED <<guildMember, shown, reordered>>,
         ~ Handled(r, Gone \cup {"add"}), ~ As(new, Gone \cup {"add"})
  PROVE  ListCatchesUp'
<1>1. ASSUME NEW q \in Requests
      PROVE  /\ Handled(q, Gone)' <=> Handled(q, Gone)
             /\ Handled(q, {"add"})' <=> Handled(q, {"add"})
             /\ Handled(q, Gone \cup {"add"}) => guildRequest'[q] = guildRequest[q]
  <2>1. CASE q = r
    BY <2>1 DEF Puts, Handled, As
  <2>2. CASE q # r
    BY <2>2 DEF Puts, Handled
  <2> QED
    BY <2>1, <2>2
<1>2. \A i : /\ Leaving(i)' <=> Leaving(i)
             /\ Coming(i)' <=> Coming(i)
             /\ Current(i)' <=> Current(i)
  BY <1>1 DEF Leaving, Coming, Current, Handled, As
<1> QED
  BY <1>2 DEF ListCatchesUp

\* Rows may go; who is banned new, or whose ban is over, is no member or excused.
LEMMA BansStay ==
  ASSUME GuildTyped, BansCatchUp, NEW r \in Requests, NEW new, Puts(r, new),
         \A u \in Users : guildMember'[u] \in {guildMember[u], 0},
         \A u \in guildCrossed : guildMember'[u] # 0 => u \in guildCrossed',
         banned' \subseteq Users,
         \A u \in banned' \ banned : guildMember'[u] # 0 =>
           \/ u \in guildCrossed'
           \/ As(new, {"ban removes"}) /\ new.user = u /\ new.id = guildMember'[u],
         Handled(r, {"ban removes"}) =>
           \A u \in Users : u = guildRequest[r].user /\ guildMember[u] = guildRequest[r].id =>
             guildMember'[u] = 0 \/ u \in guildCrossed',
         As(new, {"ban"}) =>
           \A u \in Users : new.user = u /\ guildMember'[u] # 0 =>
             guildMember'[u] = new.id \/ u \in guildCrossed'
  PROVE  BansCatchUp'
<1>1. ASSUME NEW u \in banned', guildMember'[u] # 0, u \notin guildCrossed'
      PROVE  \E q \in Requests : Handled(q, {"ban removes"})'
               /\ guildRequest'[q].user = u /\ guildRequest'[q].id = guildMember'[u]
  <2>1. CASE u \in banned
    <3>1. guildMember'[u] = guildMember[u] /\ u \in Users /\ u \notin guildCrossed
      BY <1>1
    <3>2. PICK q \in Requests : Handled(q, {"ban removes"})
                 /\ guildRequest[q].user = u /\ guildRequest[q].id = guildMember[u]
      BY <1>1, <2>1, <3>1 DEF BansCatchUp
    <3>3. q # r
      BY <1>1, <3>1, <3>2
    <3> QED
      BY <3>1, <3>2, <3>3 DEF Puts, Handled
  <2>2. CASE u \notin banned
    BY <1>1, <2>2 DEF Puts, Handled
  <2> QED
    BY <2>1, <2>2
<1>2. ASSUME NEW q \in Requests, NEW u \in Users, Handled(q, {"ban"})',
             guildRequest'[q].user = u, guildMember'[u] # 0
      PROVE  guildMember'[u] = guildRequest'[q].id \/ u \in guildCrossed'
  <2>1. CASE q = r
    BY <1>2, <2>1 DEF Puts, Handled
  <2>2. CASE q # r
    <3>1. Handled(q, {"ban"}) /\ guildRequest'[q] = guildRequest[q]
      BY <1>2, <2>2 DEF Puts, Handled
    <3>2. guildMember'[u] = guildMember[u] /\ guildRequest[q].user = u
      BY <1>2, <3>1
    <3> QED
      BY <1>2, <3>1, <3>2 DEF BansCatchUp
  <2> QED
    BY <2>1, <2>2
<1> QED
  BY <1>1, <1>2 DEF BansCatchUp

\* Who comes to the head is a member nobody removes, or has met his removal.
LEMMA HeadsStay ==
  ASSUME HeadStays, NEW r \in Requests, NEW new, Puts(r, new), met \subseteq met',
         \A u \in Users : owner' = u => Heads(u) \/ u \in met',
         \A u \in Users : Heads(u) => guildMember'[u] = guildMember[u] \/ u \in met',
         As(new, {"transfer"}) => \A u \in Users : new.user = u =>
           \/ u \in met'
           \/ /\ guildMember'[u] # 0
              /\ \A q \in Requests : Handled(q, Guild!Removing) => guildRequest[q].user # u,
         As(new, Guild!Removing) => \A u \in Users : new.user = u /\ Heads(u) =>
           \/ u \in met'
           \/ Handled(r, Guild!Removing) /\ guildRequest[r].user = u
  PROVE  HeadStays'
<1> SUFFICES ASSUME NEW u \in Users, Heads(u)', u \notin met'
             PROVE  /\ guildMember'[u] # 0
                    /\ \A q \in Requests : Handled(q, Guild!Removing)' =>
                         guildRequest'[q].user # u
  BY DEF HeadStays
<1>1. CASE As(new, {"transfer"}) /\ new.user = u
  <2>1. ~ As(new, Guild!Removing)
    BY <1>1 DEF As, Guild!Removing
  <2> QED
    BY <1>1, <2>1 DEF Puts, Handled
<1>2. CASE ~ (As(new, {"transfer"}) /\ new.user = u)
  <2>1. Heads(u)
    BY <1>2 DEF Heads, Puts, Handled
  <2>2. /\ guildMember[u] # 0
        /\ \A q \in Requests : Handled(q, Guild!Removing) => guildRequest[q].user # u
    BY <2>1 DEF HeadStays
  <2> QED
    BY <2>1, <2>2 DEF Puts, Handled
<1> QED
  BY <1>1, <1>2

\* A new row is of its user alone, and its ADD will be published.
LEMMA OneJoins ==
  ASSUME GuildInv, NEW r \in Requests, Handled(r, {"join", "install"}),
         guildMember[guildRequest[r].user] = 0, Guild!Joins(r, guildRequest[r].user),
         guildUses' \in Nat, installed' \in Nat, guildUses' + installed' = ids + 1,
         guildUses' <= MaxUses, UNCHANGED <<banned, owner, shown, reordered, met>>
  PROVE  GuildInv'
<1> DEFINE u == guildRequest[r].user
           new == [step |-> "add", user |-> u, id |-> ids + 1]
<1> USE NoneIsNoValue DEF GuildInv
<1>1. u \in Users /\ ids \in Nat /\ ids + 1 \in Nat
  BY DEF GuildTyped, Handled, As
<1> HIDE DEF u
<1>2. new \in GuildSlot
  BY <1>1 DEF GuildSlot
<1>3. guildRequest' = [guildRequest EXCEPT ![r] = new] /\ ids' = ids + 1
  <2>1. ids' = ids + 1
    BY DEF Guild!Joins
  <2>2. guildRequest' = [guildRequest EXCEPT ![r] = [step |-> "add", user |-> u, id |-> ids']]
    BY DEF Guild!Joins, u
  <2> QED
    BY <2>1, <2>2
<1>4. Puts(r, new)
  BY <1>2, <1>3, SlotPut
<1>5. new # None /\ new.step = "add" /\ new.user = u /\ new.id = ids'
  BY <1>2, <1>3
<1>6. guildMember' \in [Users -> 0 .. ids']
  <2>1. guildMember' = [guildMember EXCEPT ![u] = ids']
    BY DEF Guild!Joins, u
  <2>2. guildMember \in [Users -> 0 .. ids'] /\ ids' \in 0 .. ids'
    BY <1>1, <1>3 DEF GuildTyped
  <2> QED
    BY <2>1, <2>2
<1>7. guildMember'[u] = ids' /\ \A v \in Users : v # u => guildMember'[v] = guildMember[v]
  BY <1>1 DEF Guild!Joins, GuildTyped, u
<1>8. /\ guildMember[u] = 0 /\ \A v \in Users : guildMember[v] \in 0 .. ids
      /\ guildCrossed \subseteq guildCrossed'
      /\ Guild!Under(u, {"ban", "ban removes"}) \/ u \in banned => u \in guildCrossed'
  BY <1>1 DEF Guild!Joins, GuildTyped, u
<1>a. \A v \in Users : v # u => guildMember'[v] \in 0 .. ids /\ guildMember'[v] # ids'
  BY <1>1, <1>3, <1>7, RowNumbers
<1>b. ids' # 0 /\ ids' \in Nat /\ ids' <= ids'
  BY <1>1, <1>3
<1> HIDE DEF new
<1>9. GuildTyped'
  <2>1. /\ guildRequest' \in [Requests -> GuildSlot \cup {None}]
        /\ \A q \in Requests : guildRequest'[q] # None /\ guildRequest'[q].step # "undo" =>
             guildRequest'[q].user \in Users
    BY <1>1, <1>4, <1>5 DEF Puts, GuildTyped
  <2>2. ids' \in Nat /\ shown' \subseteq 1 .. ids' /\ banned' \subseteq Users
    BY <1>1, <1>3 DEF GuildTyped
  <2> QED
    BY <1>3, <1>6, <2>1, <2>2 DEF GuildTyped
<1>10. RowsAreOfOne'
  <2>1. \A v, w \in Users : guildMember'[v] = guildMember'[w] => v = w \/ guildMember'[v] = 0
    BY <1>7, <1>a DEF RowsAreOfOne
  <2>2. ASSUME NEW q \in Requests, guildRequest'[q] # None
        PROVE  /\ guildRequest'[q].id <= ids'
               /\ \A v \in Users : guildMember'[v] = guildRequest'[q].id =>
                    v = guildRequest'[q].user \/ guildMember'[v] = 0
    <3>1. CASE q = r
      BY <1>4, <1>5, <1>a, <1>b, <3>1 DEF Puts
    <3>2. CASE q # r
      <4>1. guildRequest'[q] = guildRequest[q] /\ guildRequest[q] \in GuildSlot
        BY <1>4, <2>2, <3>2 DEF Puts, GuildTyped
      <4>2. guildRequest[q].id <= ids /\ guildRequest[q].id \in Nat
        BY <2>2, <4>1 DEF RowsAreOfOne, GuildSlot
      <4>3. guildRequest[q].id # ids' /\ guildRequest[q].id <= ids'
        BY <1>1, <1>3, <4>2
      <4>4. \A v \in Users : guildMember[v] = guildRequest[q].id =>
              v = guildRequest[q].user \/ guildMember[v] = 0
        BY <2>2, <4>1 DEF RowsAreOfOne
      <4> QED
        BY <1>7, <4>1, <4>3, <4>4
    <3> QED
      BY <3>1, <3>2
  <2>3. ASSUME NEW q \in Requests, Handled(q, Rowed)' PROVE guildRequest'[q].id # 0
    BY <1>1, <1>3, <1>4, <1>5, <2>3 DEF Puts, Handled, RowsAreOfOne
  <2>4. ASSUME NEW q \in Requests, Handled(q, Gone)'
        PROVE  \A v \in Users : guildMember'[v] # guildRequest'[q].id
    <3>1. q # r
      BY <1>4, <1>5, <2>4 DEF Puts, Handled, As, Gone
    <3>2. /\ Handled(q, Gone) /\ guildRequest'[q] = guildRequest[q]
          /\ guildRequest[q] # None /\ guildRequest[q] \in GuildSlot
      BY <1>4, <2>4, <3>1 DEF Puts, Handled, As, GuildTyped
    <3>3. guildRequest[q].id <= ids /\ guildRequest[q].id \in Nat
      BY <3>2 DEF RowsAreOfOne, GuildSlot
    <3> QED
      BY <1>1, <1>3, <1>7, <3>2, <3>3 DEF RowsAreOfOne, Current
  <2> QED
    BY <2>1, <2>2, <2>3, <2>4 DEF RowsAreOfOne, Current
<1>11. ListCatchesUp'
  <2> SUFFICES ASSUME NEW i, i # 0
               PROVE  /\ i \in shown \ reordered => Current(i)' \/ Leaving(i)'
                      /\ Current(i)' => i \in shown \cup reordered \/ Coming(i)'
                      /\ Coming(i)' => Current(i)' \/ Leaving(i)' \/ i \in reordered
    BY DEF ListCatchesUp
  <2>1. \A q \in Requests : q # r => guildRequest'[q] = guildRequest[q]
    BY <1>4 DEF Puts
  <2>2. ~ Handled(r, Gone) /\ ~ Handled(r, {"add"}) /\ ~ Handled(r, Gone)' /\ Handled(r, {"add"})'
    BY <1>4, <1>5 DEF Puts, Handled, As, Gone
  <2>3. Leaving(i)' <=> Leaving(i)
    BY <2>1, <2>2 DEF Leaving, Handled
  <2>4. Coming(i)' <=> Coming(i) \/ i = ids'
    BY <1>4, <1>5, <2>1, <2>2 DEF Coming, Handled, Puts
  <2>5. Current(i)' <=> Current(i) \/ i = ids'
    BY <1>1, <1>7, <1>8 DEF Current
  <2> QED
    BY <2>3, <2>4, <2>5 DEF ListCatchesUp
<1>12. BansCatchUp'
  <2>1. ASSUME NEW q \in Requests, Handled(q, {"ban", "ban removes"})
        PROVE  guildRequest'[q] = guildRequest[q] /\ (guildRequest[q].user = u => u \in guildCrossed')
    <3>1. q # r
      BY <2>1 DEF Handled, As
    <3>2. guildRequest[q].user = u => Guild!Under(u, {"ban", "ban removes"})
      BY <2>1 DEF Guild!Under, Handled, As
    <3> QED
      BY <1>4, <1>8, <3>1, <3>2 DEF Puts
  <2>2. ASSUME NEW v \in banned', guildMember'[v] # 0, v \notin guildCrossed'
        PROVE  \E q \in Requests : Handled(q, {"ban removes"})'
                 /\ guildRequest'[q].user = v /\ guildRequest'[q].id = guildMember'[v]
    <3>1. v \in banned /\ v # u /\ v \in Users /\ v \notin guildCrossed
      BY <1>8, <2>2 DEF GuildTyped
    <3>2. guildMember'[v] = guildMember[v]
      BY <1>7, <3>1
    <3>3. PICK q \in Requests : Handled(q, {"ban removes"})
                 /\ guildRequest[q].user = v /\ guildRequest[q].id = guildMember[v]
      BY <2>2, <3>1, <3>2 DEF BansCatchUp
    <3>4. guildRequest'[q] = guildRequest[q]
      BY <2>1, <3>3 DEF Handled, As
    <3> QED
      BY <3>2, <3>3, <3>4 DEF Handled
  <2>3. ASSUME NEW q \in Requests, NEW v \in Users, Handled(q, {"ban"})',
               guildRequest'[q].user = v, guildMember'[v] # 0
        PROVE  guildMember'[v] = guildRequest'[q].id \/ v \in guildCrossed'
    <3>1. q # r
      BY <1>4, <1>5, <2>3 DEF Puts, Handled, As
    <3>2. Handled(q, {"ban"}) /\ guildRequest'[q] = guildRequest[q]
      BY <1>4, <2>3, <3>1 DEF Puts, Handled
    <3>3. CASE v = u
      BY <2>1, <2>3, <3>2, <3>3 DEF Handled, As
    <3>4. CASE v # u
      <4>1. guildMember'[v] = guildMember[v]
        BY <1>7, <3>4
      <4> QED
        BY <1>8, <2>3, <3>2, <4>1 DEF BansCatchUp
    <3> QED
      BY <3>3, <3>4
  <2> QED
    BY <2>2, <2>3 DEF BansCatchUp
<1>13. HeadStays'
  <2>1. \A v \in Users : Heads(v) => guildMember'[v] = guildMember[v] \/ v \in met'
    BY <1>7, <1>8 DEF HeadStays
  <2>2. ~ As(new, {"transfer"}) /\ ~ As(new, Guild!Removing)
    BY <1>5 DEF As, Guild!Removing
  <2> QED
    BY <1>4, <2>1, <2>2, HeadsStay DEF Heads
<1> QED
  BY <1>9, <1>10, <1>11, <1>12, <1>13

\* A handler that checks and reads begins; it sees rows as they are.
LEMMA GuildBegins ==
  ASSUME GuildInv, NEW r \in Requests, NEW u \in Users \cup {None}, NEW id \in Nat,
         NEW step \in {"join", "install", "remove", "delete", "ban", "erase", "transfer",
                       "undo"},
         Guild!Begins(r, step, u, id),
         step # "undo" => u \in Users,
         id = 0 \/ (u \in Users /\ id = guildMember[u]),
         step \in {"remove", "delete"} => id # 0,
         step = "ban" => id = guildMember[u],
         step = "transfer" => guildMember[u] # 0,
         UNCHANGED <<guildUses, installed, ids, guildMember, banned, owner, shown, guildCrossed,
                     reordered>>,
         met \subseteq met',
         step \in Guild!Removing => u \in met' \/ (u # owner /\ ~ Guild!Under(u, {"transfer"})),
         step = "transfer" => u \in met' \/ ~ Guild!Under(u, Guild!Removing)
  PROVE  GuildInv'
<1> USE NoneIsNoValue DEF GuildInv
<1> DEFINE new == [step |-> step, user |-> u, id |-> id]
<1>1. new \in GuildSlot
  BY DEF GuildSlot
<1>2. Puts(r, new) /\ guildRequest[r] = None
  BY <1>1, SlotPut DEF Guild!Begins
<1>3. new # None /\ new.step = step /\ new.user = u /\ new.id = id
  BY <1>1
<1>4. \A steps : ~ Handled(r, steps) /\ (As(new, steps) <=> step \in steps)
  BY <1>2, <1>3 DEF Handled, As
<1> HIDE DEF new
<1>5. GuildTyped'
  BY <1>2, <1>3 DEF GuildTyped, Puts
<1>6. RowsAreOfOne'
  <2>1. \A v \in Users : guildMember'[v] \in {guildMember[v], 0}
    OBVIOUS
  <2>2. As(new, Rowed) => new.id # 0
    BY <1>3, <1>4 DEF Rowed, Gone
  <2>3. ~ As(new, Gone)
    BY <1>4 DEF Gone
  <2>4. \/ new.id = 0
        \/ new.user \in Users /\ new.id = guildMember[new.user]
    BY <1>3
  <2> QED
    BY <1>2, <1>3, <2>1, <2>2, <2>3, <2>4, OneGoesOn
<1>7. ListCatchesUp'
  <2>1. ~ Handled(r, Gone \cup {"add"}) /\ ~ As(new, Gone \cup {"add"})
    BY <1>4 DEF Gone
  <2> QED
    BY <1>2, <2>1, ListIdle
<1>8. BansCatchUp'
  <2>1. As(new, {"ban"}) => \A v \in Users : new.user = v /\ guildMember'[v] # 0 =>
          guildMember'[v] = new.id \/ v \in guildCrossed'
    BY <1>3, <1>4
  <2>2. /\ \A v \in Users : guildMember'[v] \in {guildMember[v], 0}
        /\ \A v \in guildCrossed : guildMember'[v] # 0 => v \in guildCrossed'
        /\ banned' \subseteq Users /\ banned' \ banned = {}
    BY DEF GuildTyped
  <2> QED
    BY <1>2, <1>4, <2>1, <2>2, BansStay
<1>9. HeadStays'
  <2>1. As(new, {"transfer"}) => \A v \in Users : new.user = v =>
          \/ v \in met'
          \/ /\ guildMember'[v] # 0
             /\ \A q \in Requests : Handled(q, Guild!Removing) => guildRequest[q].user # v
    BY <1>3, <1>4 DEF Guild!Under, Handled, As
  <2>2. As(new, Guild!Removing) => \A v \in Users : new.user = v /\ Heads(v) => v \in met'
    BY <1>3, <1>4 DEF Guild!Under, Handled, As, Heads
  <2>3. \A v \in Users : owner' = v => Heads(v)
    BY DEF Heads
  <2> QED
    BY <1>2, <2>1, <2>2, <2>3, HeadsStay
<1> QED
  BY <1>5, <1>6, <1>7, <1>8, <1>9

\* A handler goes on or is done, and no row and no event comes of it.
LEMMA GuildGoesOn ==
  ASSUME GuildInv, NEW r \in Requests, NEW new \in GuildSlot \cup {None},
         guildRequest' = [guildRequest EXCEPT ![r] = new],
         Handled(r, {"join", "ban", "ban removes", "transfer", "undo"}),
         \/ new = None
         \/ /\ Handled(r, {"ban"}) /\ new.step = "ban removes"
            /\ new.user = guildRequest[r].user
            /\ new.id = guildRequest[r].id /\ new.id # 0,
         UNCHANGED <<guildUses, installed, ids, guildMember, shown, reordered>>,
         \/ Handled(r, {"ban"}) /\ banned' = banned \cup {guildRequest[r].user}
         \/ banned' = banned,
         Handled(r, {"ban"}) /\ new = None => guildRequest[r].id = 0,
         \/ Handled(r, {"transfer"}) /\ owner' = guildRequest[r].user
         \/ owner' = owner
         \/ owner' \in met' \cap (Users \cup {None}),
         met \subseteq met', guildCrossed \subseteq guildCrossed',
         Handled(r, {"ban removes"}) => guildRequest[r].user \in guildCrossed'
  PROVE  GuildInv'
<1> USE NoneIsNoValue DEF GuildInv
<1>1. Puts(r, new)
  BY SlotPut
<1>2. guildRequest[r] # None /\ guildRequest[r] \in GuildSlot
  BY DEF Handled, As, GuildTyped
<1>3. \/ new = None
      \/ /\ new # None /\ new.step = "ban removes" /\ new.user = guildRequest[r].user
         /\ new.id = guildRequest[r].id /\ new.id # 0 /\ Handled(r, {"ban"})
  OBVIOUS
<1>4. GuildTyped'
  <2>1. Handled(r, {"ban"}) => guildRequest[r].user \in Users
    BY DEF GuildTyped, Handled, As
  <2>2. \A q \in Requests : guildRequest'[q] # None /\ guildRequest'[q].step # "undo" =>
          guildRequest'[q].user \in Users
    BY <1>1, <1>3, <2>1 DEF Puts, GuildTyped
  <2>3. owner' \in Users \cup {None}
    BY DEF GuildTyped, Handled, As
  <2> QED
    BY <1>1, <2>1, <2>2, <2>3 DEF GuildTyped, Puts
<1>5. RowsAreOfOne'
  <2>1. \A v \in Users : guildMember'[v] \in {guildMember[v], 0}
    OBVIOUS
  <2>2. (As(new, Rowed) => new.id # 0) /\ ~ As(new, Gone)
    BY <1>3 DEF As, Gone
  <2>3. \/ new = None
        \/ /\ new.id \in Nat /\ new.id = guildRequest[r].id
           /\ new.user = guildRequest[r].user
    BY <1>2, <1>3 DEF GuildSlot
  <2> QED
    BY <1>1, <1>2, <2>1, <2>2, <2>3, OneGoesOn
<1>6. ListCatchesUp'
  <2>1. ~ Handled(r, Gone \cup {"add"}) /\ ~ As(new, Gone \cup {"add"})
    BY <1>3 DEF Handled, As, Gone
  <2> QED
    BY <1>1, <2>1, ListIdle
<1>7. BansCatchUp'
  <2>1. \A u \in Users : Handled(r, {"ban"}) /\ guildRequest[r].user = u /\ guildMember[u] # 0 =>
          guildMember[u] = guildRequest[r].id \/ u \in guildCrossed
    BY DEF BansCatchUp
  <2>2. \A u \in banned' \ banned : guildMember'[u] # 0 =>
           \/ u \in guildCrossed'
           \/ As(new, {"ban removes"}) /\ new.user = u /\ new.id = guildMember'[u]
    <3> SUFFICES ASSUME NEW u \in banned' \ banned, guildMember'[u] # 0, u \notin guildCrossed'
                 PROVE  As(new, {"ban removes"}) /\ new.user = u /\ new.id = guildMember'[u]
      OBVIOUS
    <3>1. Handled(r, {"ban"}) /\ guildRequest[r].user = u /\ u \in Users
      BY <1>4 DEF GuildTyped
    <3>2. guildMember[u] = guildRequest[r].id
      BY <2>1, <3>1
    <3>3. new # None
      BY <3>1, <3>2
    <3> QED
      BY <1>3, <3>1, <3>2, <3>3 DEF As
  <2>3. ~ As(new, {"ban"}) /\ banned' \subseteq Users
    BY <1>3, <1>4 DEF As, GuildTyped
  <2>4. /\ \A u \in Users : guildMember'[u] \in {guildMember[u], 0}
        /\ \A u \in guildCrossed : guildMember'[u] # 0 => u \in guildCrossed'
        /\ Handled(r, {"ban removes"}) =>
             \A u \in Users : u = guildRequest[r].user /\ guildMember[u] = guildRequest[r].id =>
               guildMember'[u] = 0 \/ u \in guildCrossed'
    OBVIOUS
  <2> QED
    BY <1>1, <2>2, <2>3, <2>4, BansStay
<1>8. HeadStays'
  <2>1. \A u \in Users : owner' = u => Heads(u) \/ u \in met'
    BY DEF Heads
  <2>2. ~ As(new, {"transfer"})
    BY <1>3 DEF As
  <2>3. As(new, Guild!Removing) => Handled(r, Guild!Removing) /\ guildRequest[r].user = new.user
    BY <1>3 DEF As, Handled, Guild!Removing
  <2> QED
    BY <1>1, <2>1, <2>2, <2>3, HeadsStay
<1> QED
  BY <1>4, <1>5, <1>6, <1>7, <1>8

\* A row that goes, by a handler that has its REMOVE to publish, or to say so.
LEMMA RowGoes ==
  ASSUME GuildInv, NEW r \in Requests, NEW new \in GuildSlot \cup {None},
         guildRequest' = [guildRequest EXCEPT ![r] = new],
         Handled(r, {"remove", "delete", "ban removes", "erase"}),
         IF guildRequest[r].id = 0 THEN new = None
         ELSE /\ As(new, Gone) /\ new.user = guildRequest[r].user
              /\ new.id = guildRequest[r].id,
         NEW out, Guild!Leaves(out),
         \A u \in out : u = guildRequest[r].user,
         \A u \in Users : u = guildRequest[r].user /\ guildRequest[r].id = guildMember[u] => u \in out,
         reordered \subseteq reordered',
         \A u \in out : guildMember[u] \in {0, guildRequest[r].id} \cup reordered',
         UNCHANGED <<guildUses, installed, ids, banned, owner, shown, met>>
  PROVE  GuildInv'
<1> USE NoneIsNoValue DEF GuildInv
<1>1. Puts(r, new)
  BY SlotPut
<1>2. /\ guildRequest[r] # None /\ guildRequest[r] \in GuildSlot /\ guildRequest[r].id \in Nat
      /\ guildRequest[r].user \in Users
  BY DEF Handled, As, GuildTyped, GuildSlot
<1>3. \A u \in Users : guildMember'[u] = IF u \in out THEN 0 ELSE guildMember[u]
  BY DEF Guild!Leaves
<1>4. GuildTyped'
  <2>1. guildMember' \in [Users -> 0 .. ids']
    <3>1. guildMember' = [u \in Users |-> IF u \in out THEN 0 ELSE guildMember[u]]
      BY DEF Guild!Leaves
    <3>2. 0 \in 0 .. ids /\ \A u \in Users : guildMember[u] \in 0 .. ids
      BY RowNumbers
    <3> QED
      BY <3>1, <3>2
  <2>2. \A q \in Requests : guildRequest'[q] # None /\ guildRequest'[q].step # "undo" =>
          guildRequest'[q].user \in Users
    BY <1>1, <1>2 DEF Puts, GuildTyped, As
  <2> QED
    BY <1>1, <2>1, <2>2 DEF GuildTyped, Puts
<1>5. RowsAreOfOne'
  <2>1. As(new, Gone) => \A u \in Users : guildMember'[u] # new.id
    <3> SUFFICES ASSUME As(new, Gone), NEW u \in Users, guildMember'[u] = new.id PROVE FALSE
      OBVIOUS
    <3>1. new.id = guildRequest[r].id /\ new.id # 0
      BY DEF As
    <3>2. u \notin out /\ guildMember[u] = guildRequest[r].id
      BY <1>3, <3>1
    <3>3. u = guildRequest[r].user
      BY <1>2, <3>1, <3>2 DEF RowsAreOfOne
    <3> QED
      BY <3>2, <3>3
  <2>2. As(new, Rowed) => new.id # 0
    BY DEF As
  <2>3. \/ new = None
        \/ /\ new.id \in Nat /\ new.id = guildRequest[r].id
           /\ new.user = guildRequest[r].user
    BY <1>2
  <2> QED
    BY <1>1, <1>2, <1>3, <2>1, <2>2, <2>3, OneGoesOn
<1>6. ListCatchesUp'
  <2> SUFFICES ASSUME NEW i, i # 0
               PROVE  /\ i \in shown \ reordered' => Current(i)' \/ Leaving(i)'
                      /\ Current(i)' => i \in shown \cup reordered' \/ Coming(i)'
                      /\ Coming(i)' => Current(i)' \/ Leaving(i)' \/ i \in reordered'
    BY DEF ListCatchesUp
  <2>1. \A q \in Requests : q # r => guildRequest'[q] = guildRequest[q]
    BY <1>1 DEF Puts
  <2>2. /\ ~ Handled(r, Gone) /\ ~ Handled(r, {"add"}) /\ ~ Handled(r, {"add"})'
        /\ guildRequest[r].id # 0 => Handled(r, Gone)' /\ guildRequest'[r].id = guildRequest[r].id
    BY <1>1 DEF Puts, Handled, As, Gone
  <2>3. /\ Coming(i)' <=> Coming(i)
        /\ Leaving(i) => Leaving(i)'
        /\ i = guildRequest[r].id => Leaving(i)'
    BY <2>1, <2>2 DEF Leaving, Coming, Handled
  <2>4. Current(i)' => Current(i)
    BY <1>3 DEF Current
  <2>5. Current(i) => Current(i)' \/ i = guildRequest[r].id \/ i \in reordered'
    BY <1>3 DEF Current
  <2> QED
    BY <2>3, <2>4, <2>5 DEF ListCatchesUp
<1>7. BansCatchUp'
  <2>1. \A u \in guildCrossed : guildMember'[u] # 0 => u \in guildCrossed'
    BY DEF Guild!Leaves
  <2>2. \A u \in Users : guildMember'[u] \in {guildMember[u], 0}
    BY <1>3
  <2>3. \A u \in Users : u = guildRequest[r].user /\ guildMember[u] = guildRequest[r].id =>
          guildMember'[u] = 0
    BY <1>3
  <2>4. ~ As(new, {"ban"})
    BY DEF As, Gone
  <2>5. banned' \subseteq Users /\ banned' = banned
    BY DEF GuildTyped
  <2> QED
    BY <1>1, <2>1, <2>2, <2>3, <2>4, <2>5, BansStay
<1>8. HeadStays'
  <2>1. Handled(r, Guild!Removing)
    BY DEF Handled, As, Guild!Removing
  <2>2. \A u \in Users : Heads(u) => guildMember'[u] = guildMember[u] \/ u \in met'
    BY <1>3, <2>1 DEF HeadStays
  <2>3. ~ As(new, {"transfer"}) /\ ~ As(new, Guild!Removing)
    BY DEF As, Gone, Guild!Removing
  <2>4. \A u \in Users : owner' = u => Heads(u)
    BY DEF Heads
  <2> QED
    BY <1>1, <2>2, <2>3, <2>4, HeadsStay
<1> QED
  BY <1>4, <1>5, <1>6, <1>7, <1>8

LEMMA GuildNext == GuildInv /\ [Next]_vars => GuildInv'
<1> SUFFICES ASSUME GuildInv, [Next]_vars PROVE GuildInv'
  OBVIOUS
<1> USE NoneIsNoValue DEF GuildInv
\* The invitation is not looked at, and a ban may always go.
<1>1. ASSUME UNCHANGED <<guildUses, installed, ids, guildMember, owner, guildRequest, shown,
                         guildCrossed, met, reordered>>,
             banned' \subseteq banned
      PROVE  GuildInv'
  <2>1. GuildTyped' /\ RowsAreOfOne'
    BY <1>1 DEF GuildTyped, RowsAreOfOne, Handled, Current
  <2>2. ListCatchesUp'
    BY <1>1 DEF ListCatchesUp, Handled, Current, Leaving, Coming
  <2>3. BansCatchUp' /\ HeadStays'
    BY <1>1 DEF BansCatchUp, HeadStays, Handled, Heads
  <2> QED
    BY <2>1, <2>2, <2>3
<1>2. ASSUME NEW u \in Users, Guild!UndoUnban(u) PROVE GuildInv'
  <2>1. /\ UNCHANGED <<guildUses, installed, ids, guildMember, owner, guildRequest, shown, met,
                       reordered>>
        /\ banned' = banned \cup {u}
        /\ guildMember[u] # 0 => u \in guildCrossed'
        /\ guildCrossed \subseteq guildCrossed'
    BY <1>2 DEF Guild!UndoUnban, Guild!people, Guild!listed
  <2>2. GuildTyped' /\ RowsAreOfOne'
    BY <2>1 DEF GuildTyped, RowsAreOfOne, Handled, Current
  <2>3. ListCatchesUp'
    BY <2>1 DEF ListCatchesUp, Handled, Current, Leaving, Coming
  <2>4. BansCatchUp' /\ HeadStays'
    BY <2>1 DEF BansCatchUp, HeadStays, Handled, Heads
  <2> QED
    BY <2>2, <2>3, <2>4
<1>3. ASSUME NEW u \in Users, Guild!DeleteBot(u) PROVE GuildInv'
  <2>1. /\ UNCHANGED <<guildUses, installed, ids, banned, owner, guildRequest, shown>>
        /\ \A v \in Users : guildMember'[v] = IF v = u THEN 0 ELSE guildMember[v]
        /\ guildMember' = [v \in Users |-> IF v \in {u} THEN 0 ELSE guildMember[v]]
        /\ guildCrossed' = {v \in guildCrossed : guildMember'[v] # 0}
        /\ reordered' = reordered \cup ({guildMember[u]} \ {0}) /\ met \subseteq met'
        /\ u = owner \/ Guild!Under(u, {"transfer"}) => u \in met'
    BY <1>3 DEF Guild!DeleteBot, Guild!Leaves, Guild!MeetsBot
  <2>2. GuildTyped'
    <3>1. guildMember' \in [Users -> 0 .. ids]
      BY <2>1 DEF GuildTyped
    <3> QED
      BY <2>1, <3>1 DEF GuildTyped
  <2>3. RowsAreOfOne'
    BY <2>1 DEF RowsAreOfOne, Handled, Current, As, Gone, Rowed
  <2>4. ListCatchesUp'
    <3> SUFFICES ASSUME NEW i, i # 0
                 PROVE  /\ i \in shown \ reordered' => Current(i)' \/ Leaving(i)'
                        /\ Current(i)' => i \in shown \cup reordered' \/ Coming(i)'
                        /\ Coming(i)' => Current(i)' \/ Leaving(i)' \/ i \in reordered'
      BY <2>1 DEF ListCatchesUp
    <3>1. (Leaving(i)' <=> Leaving(i)) /\ (Coming(i)' <=> Coming(i))
      BY <2>1 DEF Leaving, Coming, Handled
    <3>2. (Current(i)' => Current(i)) /\ (Current(i) => Current(i)' \/ i \in reordered')
      BY <2>1 DEF Current
    <3> QED
      BY <2>1, <3>1, <3>2 DEF ListCatchesUp
  <2>5. BansCatchUp'
    <3>1. \A v \in banned : guildMember'[v] # 0 => v \in Users /\ guildMember'[v] = guildMember[v]
      BY <2>1 DEF GuildTyped
    <3>2. \A v \in Users : guildMember'[v] # 0 =>
            guildMember'[v] = guildMember[v] /\ (v \in guildCrossed => v \in guildCrossed')
      BY <2>1
    <3> QED
      BY <2>1, <3>1, <3>2 DEF BansCatchUp, Handled
  <2>6. HeadStays'
    <3>1. \A v : Heads(v)' <=> Heads(v)
      BY <2>1 DEF Heads, Handled
    <3>2. Heads(u) => u \in met'
      BY <2>1 DEF Heads, Guild!Under, Handled, As
    <3> QED
      BY <2>1, <3>1, <3>2 DEF HeadStays, Handled
  <2> QED
    BY <2>2, <2>3, <2>4, <2>5, <2>6
<1>4. ASSUME NEW r \in Requests, NEW u \in Users,
             Guild!JoinByInvite(r, u) \/ Guild!InstallBot(r, u) \/ Guild!Kick(r, u)
             \/ Guild!UninstallBot(r, u) \/ Guild!BanUser(r, u) \/ Guild!DeleteAccount(r, u)
             \/ Guild!TransferOwnership(r, u)
      PROVE  GuildInv'
  <2>1. guildMember[u] \in Nat
    BY RowNumbers
  <2>2. CASE Guild!JoinByInvite(r, u) \/ Guild!InstallBot(r, u)
    <3>1. PICK step \in {"join", "install"} : Guild!Begins(r, step, u, 0)
      BY <2>2 DEF Guild!JoinByInvite, Guild!InstallBot
    <3>2. /\ UNCHANGED <<guildUses, installed, ids, guildMember, banned, owner, shown,
                         guildCrossed, reordered, met>>
      BY <2>2 DEF Guild!JoinByInvite, Guild!InstallBot, Guild!Unlisted, Guild!SameHead,
                  Guild!people, Guild!listed
    <3> QED
      BY <3>1, <3>2, GuildBegins DEF Guild!Removing
  <2>3. CASE Guild!Kick(r, u)
    <3>1. /\ Guild!Begins(r, "remove", u, guildMember[u]) /\ guildMember[u] # 0 /\ u # owner
          /\ UNCHANGED <<guildUses, installed, ids, guildMember, banned, owner, shown,
                         guildCrossed, reordered>>
          /\ met \subseteq met' /\ (Guild!Under(u, {"transfer"}) => u \in met')
      BY <2>3 DEF Guild!Kick, Guild!Meets, Guild!Unlisted, Guild!people, Guild!listed
    <3> QED
      BY <2>1, <3>1, GuildBegins
  <2>4. CASE Guild!UninstallBot(r, u)
    <3>1. PICK step \in {"remove", "delete"} : Guild!Begins(r, step, u, guildMember[u])
      BY <2>4 DEF Guild!UninstallBot
    <3>2. /\ guildMember[u] # 0
          /\ UNCHANGED <<guildUses, installed, ids, guildMember, banned, owner, shown,
                         guildCrossed, reordered>>
          /\ met \subseteq met' /\ (u = owner \/ Guild!Under(u, {"transfer"}) => u \in met')
      BY <2>4 DEF Guild!UninstallBot, Guild!MeetsBot, Guild!Unlisted, Guild!people, Guild!listed
    <3> QED
      BY <2>1, <3>1, <3>2, GuildBegins
  <2>5. CASE Guild!BanUser(r, u) \/ Guild!DeleteAccount(r, u)
    <3>1. PICK step \in {"ban", "erase"} : Guild!Begins(r, step, u, guildMember[u])
      BY <2>5 DEF Guild!BanUser, Guild!DeleteAccount
    <3>2. /\ u # owner
          /\ UNCHANGED <<guildUses, installed, ids, guildMember, banned, owner, shown,
                         guildCrossed, reordered>>
          /\ met \subseteq met' /\ (Guild!Under(u, {"transfer"}) => u \in met')
      BY <2>5 DEF Guild!BanUser, Guild!DeleteAccount, Guild!Meets, Guild!Unlisted,
                  Guild!people, Guild!listed
    <3> QED
      BY <2>1, <3>1, <3>2, GuildBegins
  <2>6. CASE Guild!TransferOwnership(r, u)
    <3>1. /\ Guild!Begins(r, "transfer", u, 0) /\ guildMember[u] # 0
          /\ UNCHANGED <<guildUses, installed, ids, guildMember, banned, owner, shown,
                         guildCrossed, reordered>>
          /\ met \subseteq met' /\ (Guild!Under(u, Guild!Removing) => u \in met')
      BY <2>6 DEF Guild!TransferOwnership, Guild!Meets, Guild!Unlisted, Guild!people,
                  Guild!listed
    <3> QED
      BY <3>1, GuildBegins DEF Guild!Removing
  <2> QED
    BY <1>4, <2>2, <2>3, <2>4, <2>5, <2>6
<1>5. ASSUME NEW r \in Requests, Guild!JoinCommits(r) PROVE GuildInv'
  <2>1. Handled(r, {"join"}) /\ UNCHANGED <<installed, banned, shown, reordered, owner, met>>
    BY <1>5 DEF Guild!JoinCommits, Guild!Doing, Guild!people, Guild!listed, Guild!SameHead,
                Handled, As
  <2>2. CASE Guild!ConsumeInviteUse /\ guildMember[guildRequest[r].user] = 0
    <3>1. Guild!Joins(r, guildRequest[r].user) /\ guildUses' = guildUses + 1
      BY <1>5, <2>2 DEF Guild!JoinCommits
    <3>2. guildUses < MaxUses /\ Handled(r, {"join", "install"})
      BY <2>1, <2>2 DEF Guild!ConsumeInviteUse, Handled, As
    <3>3. /\ guildUses' \in Nat /\ installed' \in Nat /\ guildUses' + installed' = ids + 1
          /\ guildUses' <= MaxUses
      BY <2>1, <3>1, <3>2, BoundsAreNumbers DEF GuildTyped
    <3> QED
      BY <2>1, <2>2, <3>1, <3>2, <3>3, OneJoins
  <2>3. CASE ~ (Guild!ConsumeInviteUse /\ guildMember[guildRequest[r].user] = 0)
    <3>1. /\ guildRequest' = [guildRequest EXCEPT ![r] = None]
          /\ UNCHANGED <<guildUses, ids, guildMember, guildCrossed>>
      BY <1>5, <2>3 DEF Guild!JoinCommits, Guild!Ends
    <3>2. ~ Handled(r, {"ban"}) /\ ~ Handled(r, {"ban removes"})
          /\ Handled(r, {"join", "ban", "ban removes", "transfer", "undo"})
      BY <2>1 DEF Handled, As
    <3> QED
      BY <2>1, <3>1, <3>2, GuildGoesOn
  <2> QED
    BY <2>2, <2>3
<1>6. ASSUME NEW r \in Requests, Guild!BotInstalled(r) PROVE GuildInv'
  <2>1. /\ Handled(r, {"install"})
        /\ UNCHANGED <<guildUses, banned, shown, reordered, owner, met>>
    BY <1>6 DEF Guild!BotInstalled, Guild!Doing, Guild!people, Guild!listed, Guild!SameHead,
                Handled, As
  <2> DEFINE u == guildRequest[r].user
  <2>2. u \in Users
    BY <2>1 DEF Handled, As, GuildTyped
  <2>3. CASE guildMember[u] = 0
    <3>1. Guild!Joins(r, guildRequest[r].user) /\ installed' = installed + 1
      BY <1>6, <2>3 DEF Guild!BotInstalled
    <3>2. Handled(r, {"join", "install"})
      BY <2>1 DEF Handled, As
    <3>3. /\ guildUses' \in Nat /\ installed' \in Nat /\ guildUses' + installed' = ids + 1
          /\ guildUses' <= MaxUses
      BY <2>1, <3>1 DEF GuildTyped
    <3> QED
      BY <2>1, <2>3, <3>1, <3>2, <3>3, OneJoins
  <2>4. CASE guildMember[u] # 0
    <3> DEFINE new == [step |-> "add", user |-> u, id |-> guildMember[u]]
    <3>1. /\ guildRequest' = [guildRequest EXCEPT ![r] = new]
          /\ UNCHANGED <<ids, installed, guildMember, guildCrossed>>
      BY <1>6, <2>4 DEF Guild!BotInstalled
    <3>2. new \in GuildSlot /\ guildMember[u] \in Nat
      <4>1. guildMember[u] \in Nat
        BY <2>2, RowNumbers
      <4> QED
        BY <2>2, <4>1 DEF GuildSlot
    <3>3. Puts(r, new)
      BY <3>1, <3>2, SlotPut
    <3>4. new # None /\ new.step = "add" /\ new.user = u /\ new.id = guildMember[u]
      BY <3>2
    <3> HIDE DEF new, u
    <3>5. /\ ~ Handled(r, Gone \cup {"add"}) /\ ~ Handled(r, {"ban removes"})
          /\ ~ As(new, Gone) /\ ~ As(new, {"ban"}) /\ ~ As(new, {"transfer"})
          /\ ~ As(new, Guild!Removing)
      BY <2>1, <3>4 DEF Handled, As, Gone, Guild!Removing
    <3>6. GuildTyped'
      BY <2>1, <2>2, <3>1, <3>3, <3>4 DEF GuildTyped, Puts
    <3>7. RowsAreOfOne'
      <4>1. \A v \in Users : guildMember'[v] \in {guildMember[v], 0}
        BY <3>1
      <4>2. As(new, Rowed) => new.id # 0
        BY <2>4, <3>4
      <4>3. new.user \in Users /\ new.id = guildMember[new.user] /\ new.id \in Nat
        BY <2>2, <3>2, <3>4
      <4> QED
        BY <3>1, <3>3, <3>5, <4>1, <4>2, <4>3, OneGoesOn
    <3>8. ListCatchesUp'
      <4> SUFFICES ASSUME NEW i, i # 0
                   PROVE  /\ i \in shown \ reordered => Current(i) \/ Leaving(i)'
                          /\ Current(i) => i \in shown \cup reordered \/ Coming(i)'
                          /\ Coming(i)' => Current(i) \/ Leaving(i)' \/ i \in reordered
        BY <2>1, <3>1 DEF ListCatchesUp, Current
      <4>1. \A q \in Requests : q # r => guildRequest'[q] = guildRequest[q]
        BY <3>3 DEF Puts
      <4>2. ~ Handled(r, Gone) /\ ~ Handled(r, {"add"}) /\ ~ Handled(r, Gone)'
        BY <3>3, <3>5 DEF Puts, Handled, As
      <4>3. Leaving(i)' <=> Leaving(i)
        BY <4>1, <4>2 DEF Leaving, Handled
      <4>4. (Coming(i) => Coming(i)') /\ (Coming(i)' => Coming(i) \/ i = guildMember[u])
        BY <3>3, <3>4, <4>1, <4>2 DEF Coming, Handled, Puts
      <4>5. i = guildMember[u] => Current(i)
        BY <2>2 DEF Current
      <4> QED
        BY <4>3, <4>4, <4>5 DEF ListCatchesUp
    <3>9. BansCatchUp'
      <4>1. /\ \A v \in Users : guildMember'[v] \in {guildMember[v], 0}
            /\ \A v \in guildCrossed : guildMember'[v] # 0 => v \in guildCrossed'
            /\ banned' \subseteq Users /\ banned' \ banned = {}
        BY <2>1, <3>1 DEF GuildTyped
      <4> QED
        BY <3>3, <3>5, <4>1, BansStay
    <3>10. HeadStays'
      <4>1. \A v \in Users : owner' = v => Heads(v)
        BY <2>1 DEF Heads
      <4> QED
        BY <2>1, <3>1, <3>3, <3>5, <4>1, HeadsStay
    <3> QED
      BY <3>6, <3>7, <3>8, <3>9, <3>10
  <2> QED
    BY <2>3, <2>4
<1>7. ASSUME NEW r \in Requests, Guild!PublishGuildJoined(r) \/ Guild!PublishRemove(r)
      PROVE  GuildInv'
  <2> DEFINE i == guildRequest[r].id
  <2>1. /\ Handled(r, Gone \cup {"add"}) /\ guildRequest' = [guildRequest EXCEPT ![r] = None]
        /\ UNCHANGED <<guildUses, installed, ids, guildMember, banned, owner, guildCrossed, met>>
        /\ shown' = IF Handled(r, Gone) THEN shown \ {i} ELSE shown \cup {i}
        /\ reordered' = reordered \cup
             (IF Handled(r, Gone) THEN {j \in {i} : Coming(j)} ELSE {})
    <3>1. CASE Guild!PublishGuildJoined(r)
      BY <3>1 DEF Guild!PublishGuildJoined, Guild!Doing, Guild!Ends, Guild!people,
                  Guild!SameHead, Handled, As, Gone
    <3>2. CASE Guild!PublishRemove(r)
      <4>1. \A j : Coming(j) <=> \E q \in Requests : Guild!Doing(q, "add") /\ guildRequest[q].id = j
        BY DEF Coming, Handled, As, Guild!Doing
      <4>2. Handled(r, Gone)
        BY <3>2 DEF Guild!PublishRemove, Handled, As, Gone
      <4> QED
        BY <3>2, <4>1, <4>2 DEF Guild!PublishRemove, Guild!Ends, Guild!people, Handled, As
    <3> QED
      BY <1>7, <3>1, <3>2
  <2>2. /\ Puts(r, None) /\ guildRequest[r] # None /\ i \in 1 .. ids
        /\ Handled(r, Rowed) /\ (Handled(r, {"add"}) <=> ~ Handled(r, Gone))
    <3>1. Puts(r, None)
      BY <2>1, SlotPut
    <3>2. /\ guildRequest[r] # None /\ guildRequest[r] \in GuildSlot /\ Handled(r, Rowed)
          /\ (Handled(r, {"add"}) <=> ~ Handled(r, Gone))
      BY <2>1 DEF Handled, As, GuildTyped, Gone, Rowed
    <3>3. i \in Nat /\ i # 0 /\ i <= ids
      BY <3>2 DEF RowsAreOfOne, GuildSlot
    <3> QED
      BY <3>1, <3>2, <3>3 DEF GuildTyped
  <2> HIDE DEF i
  <2>3. \A steps : ~ As(None, steps)
    BY DEF As
  <2>4. GuildTyped'
    <3>1. shown' \subseteq 1 .. ids
      BY <2>1, <2>2 DEF GuildTyped
    <3> QED
      BY <2>1, <2>2, <3>1 DEF GuildTyped, Puts
  <2>5. RowsAreOfOne'
    <3>1. \A v \in Users : guildMember'[v] \in {guildMember[v], 0}
      BY <2>1
    <3> QED
      BY <2>1, <2>2, <2>3, <3>1, OneGoesOn
  <2>6. ListCatchesUp'
    <3> SUFFICES ASSUME NEW j, j # 0
                 PROVE  /\ j \in shown' \ reordered' => Current(j) \/ Leaving(j)'
                        /\ Current(j) => j \in shown' \cup reordered' \/ Coming(j)'
                        /\ Coming(j)' => Current(j) \/ Leaving(j)' \/ j \in reordered'
      BY <2>1 DEF ListCatchesUp, Current
    <3>1. /\ \A q \in Requests : q # r => guildRequest'[q] = guildRequest[q]
          /\ guildRequest'[r] = None
      BY <2>2 DEF Puts
    <3>2. (Leaving(j)' => Leaving(j)) /\ (Coming(j)' => Coming(j))
      BY <3>1 DEF Leaving, Coming, Handled, As
    <3>3. CASE j # i
      <4>1. (Leaving(j) => Leaving(j)') /\ (Coming(j) => Coming(j)')
        BY <3>1, <3>3 DEF Leaving, Coming, Handled, i
      <4> QED
        BY <2>1, <3>2, <3>3, <4>1 DEF ListCatchesUp
    <3>4. CASE j = i /\ Handled(r, Gone)
      <4>1. ~ Current(j)
        BY <3>4 DEF RowsAreOfOne, i
      <4> QED
        BY <2>1, <3>2, <3>4, <4>1
    <3>5. CASE j = i /\ ~ Handled(r, Gone)
      <4>1. Coming(j) /\ (Leaving(j) => Leaving(j)')
        BY <2>2, <3>1, <3>5 DEF Leaving, Coming, Handled, i
      <4> QED
        BY <2>1, <3>5, <4>1 DEF ListCatchesUp
    <3> QED
      BY <3>3, <3>4, <3>5
  <2>7. BansCatchUp'
    <3>1. /\ \A v \in Users : guildMember'[v] \in {guildMember[v], 0}
          /\ \A v \in guildCrossed : guildMember'[v] # 0 => v \in guildCrossed'
          /\ banned' \subseteq Users /\ banned' \ banned = {}
      BY <2>1 DEF GuildTyped
    <3>2. ~ Handled(r, {"ban removes"})
      BY <2>1 DEF Handled, As, Gone
    <3> QED
      BY <2>2, <2>3, <3>1, <3>2, BansStay
  <2>8. HeadStays'
    <3>1. \A v \in Users : owner' = v => Heads(v)
      BY <2>1 DEF Heads
    <3> QED
      BY <2>1, <2>2, <2>3, <3>1, HeadsStay
  <2> QED
    BY <2>4, <2>5, <2>6, <2>7, <2>8
<1>8. ASSUME NEW r \in Requests, Guild!RemoveMember(r) \/ Guild!AccountDeleted(r)
      PROVE  GuildInv'
  <2>1. /\ Handled(r, {"remove", "delete", "ban removes", "erase"})
        /\ guildRequest[r] # None /\ guildRequest[r] \in GuildSlot
        /\ UNCHANGED <<guildUses, installed, ids, banned, owner, shown, met>>
        /\ reordered \subseteq reordered'
    BY <1>8 DEF Guild!RemoveMember, Guild!AccountDeleted, Guild!Doing, Guild!SameHead,
                Guild!listed, Handled, As, GuildTyped
  <2>2. guildRequest[r].user \in Users
    BY <2>1 DEF Handled, As, GuildTyped
  <2>3. ASSUME NEW step \in Gone,
               guildRequest' = [guildRequest EXCEPT ![r].step = step]
        PROVE  \E new \in GuildSlot :
                 /\ guildRequest' = [guildRequest EXCEPT ![r] = new]
                 /\ As(new, Gone) /\ new.user = guildRequest[r].user
                 /\ new.id = guildRequest[r].id
    <3> DEFINE new == [guildRequest[r] EXCEPT !.step = step]
    <3>1. new \in GuildSlot /\ new.step = step /\ new.user = guildRequest[r].user
          /\ new.id = guildRequest[r].id
      BY <2>1 DEF GuildSlot, Gone
    <3>2. guildRequest' = [guildRequest EXCEPT ![r] = new]
      BY <2>3 DEF GuildTyped
    <3> QED
      BY <3>1, <3>2 DEF As
  <2>4. CASE Guild!RemoveMember(r)
    <3> DEFINE out == {u \in Users : Guild!DeletedBy(r, u)}
    <3>1. /\ Guild!Leaves(out) /\ \A u \in out : u = guildRequest[r].user
          /\ \A u \in Users : u = guildRequest[r].user /\ guildRequest[r].id = guildMember[u] => u \in out
          /\ \A u \in out : guildMember[u] \in {0, guildRequest[r].id} \cup reordered'
      BY <2>4 DEF Guild!RemoveMember, Guild!DeletedBy
    <3> HIDE DEF out
    <3>2. guildRequest[r].id # 0
      BY <2>4 DEF Guild!RemoveMember, RowsAreOfOne, Handled, As, Rowed
    <3>3. PICK step \in Gone : guildRequest' = [guildRequest EXCEPT ![r].step = step]
      BY <2>4 DEF Guild!RemoveMember, Guild!Goes, Gone
    <3>4. PICK new \in GuildSlot :
                 /\ guildRequest' = [guildRequest EXCEPT ![r] = new]
                 /\ As(new, Gone) /\ new.user = guildRequest[r].user
                 /\ new.id = guildRequest[r].id
      BY <2>3, <3>3
    <3> QED
      BY <2>1, <3>1, <3>2, <3>4, RowGoes
  <2>5. CASE Guild!AccountDeleted(r)
    <3>1. /\ Guild!Leaves({guildRequest[r].user})
          /\ reordered' = reordered \cup ({guildMember[guildRequest[r].user]}
                                            \ {0, guildRequest[r].id})
          /\ IF guildRequest[r].id # 0
             THEN guildRequest' = [guildRequest EXCEPT ![r].step = "removed"]
             ELSE guildRequest' = [guildRequest EXCEPT ![r] = None]
      BY <2>5 DEF Guild!AccountDeleted, Guild!Goes, Guild!Ends
    <3>2. \A u \in {guildRequest[r].user} :
            guildMember[u] \in {0, guildRequest[r].id} \cup reordered'
      BY <3>1
    <3>3. CASE guildRequest[r].id = 0
      BY <2>1, <3>1, <3>2, <3>3, RowGoes
    <3>4. CASE guildRequest[r].id # 0
      <4>1. PICK new \in GuildSlot :
                 /\ guildRequest' = [guildRequest EXCEPT ![r] = new]
                 /\ As(new, Gone) /\ new.user = guildRequest[r].user
                 /\ new.id = guildRequest[r].id
        BY <2>3, <3>1, <3>4 DEF Gone
      <4> QED
        BY <2>1, <3>1, <3>2, <3>4, <4>1, RowGoes
    <3> QED
      BY <3>3, <3>4
  <2> QED
    BY <1>8, <2>4, <2>5
<1>9. ASSUME NEW r \in Requests, Guild!BanWrites(r) \/ Guild!RemoveFails(r)
      PROVE  GuildInv'
  <2>1. CASE Guild!BanWrites(r)
    <3>1. /\ Handled(r, {"ban"}) /\ banned' = banned \cup {guildRequest[r].user}
          /\ UNCHANGED <<guildUses, installed, ids, guildMember, shown, reordered, owner, met,
                         guildCrossed>>
          /\ IF guildRequest[r].id # 0
             THEN guildRequest' = [guildRequest EXCEPT ![r].step = "ban removes"]
             ELSE guildRequest' = [guildRequest EXCEPT ![r] = None]
      BY <2>1 DEF Guild!BanWrites, Guild!Doing, Guild!Goes, Guild!Ends, Guild!Unlisted,
                  Guild!people, Guild!listed, Handled, As
    <3>2. /\ ~ Handled(r, {"ban removes"}) /\ guildRequest[r] \in GuildSlot
          /\ Handled(r, {"join", "ban", "ban removes", "transfer", "undo"})
      BY <3>1 DEF Handled, As, GuildTyped
    <3>3. CASE guildRequest[r].id = 0
      BY <3>1, <3>2, <3>3, GuildGoesOn
    <3>4. CASE guildRequest[r].id # 0
      <4> DEFINE new == [guildRequest[r] EXCEPT !.step = "ban removes"]
      <4>1. new \in GuildSlot /\ new.step = "ban removes" /\ new.user = guildRequest[r].user
            /\ new.id = guildRequest[r].id
        BY <3>2 DEF GuildSlot
      <4>2. guildRequest' = [guildRequest EXCEPT ![r] = new]
        BY <3>1, <3>4 DEF GuildTyped
      <4> HIDE DEF new
      <4> QED
        BY <3>1, <3>2, <3>4, <4>1, <4>2, GuildGoesOn
    <3> QED
      BY <3>3, <3>4
  <2>2. CASE Guild!RemoveFails(r)
    <3>1. /\ Handled(r, {"ban removes"}) /\ guildRequest' = [guildRequest EXCEPT ![r] = None]
          /\ guildCrossed' = guildCrossed \cup {guildRequest[r].user}
          /\ UNCHANGED <<guildUses, installed, ids, guildMember, shown, reordered, banned, owner,
                         met>>
      BY <2>2 DEF Guild!RemoveFails, Guild!Doing, Guild!Ends, Guild!SameHead, Guild!people,
                  Guild!listed, Handled, As
    <3>2. ~ Handled(r, {"ban"}) /\ Handled(r, {"join", "ban", "ban removes", "transfer", "undo"})
      BY <3>1 DEF Handled, As
    <3> QED
      BY <3>1, <3>2, GuildGoesOn
  <2> QED
    BY <1>9, <2>1, <2>2
<1>10. ASSUME NEW r \in Requests,
              Guild!TransferWrites(r) \/ Guild!UndoGuildUpdate(r) \/ Guild!GuildSaved(r)
       PROVE  GuildInv'
  <2>1. CASE Guild!TransferWrites(r) \/ Guild!GuildSaved(r)
    <3>1. /\ Handled(r, {"transfer", "undo"}) /\ guildRequest' = [guildRequest EXCEPT ![r] = None]
          /\ owner' = guildRequest[r].user /\ met \subseteq met'
          /\ Handled(r, {"transfer"}) \/ owner' = owner \/ owner' \in met'
          /\ UNCHANGED <<guildUses, installed, ids, guildMember, shown, reordered, banned,
                         guildCrossed>>
      BY <2>1 DEF Guild!TransferWrites, Guild!GuildSaved, Guild!Doing, Guild!Ends,
                  Guild!Unlisted, Guild!people, Guild!listed, Handled, As
    <3>2. /\ ~ Handled(r, {"ban removes"}) /\ ~ Handled(r, {"ban"})
          /\ Handled(r, {"join", "ban", "ban removes", "transfer", "undo"})
          /\ owner' \in Users \cup {None}
      BY <3>1 DEF Handled, As, GuildTyped, GuildSlot
    <3> QED
      BY <3>1, <3>2, GuildGoesOn
  <2>2. CASE Guild!UndoGuildUpdate(r)
    <3>1. /\ Guild!Begins(r, "undo", owner, 0)
          /\ UNCHANGED <<guildUses, installed, ids, guildMember, banned, owner, shown,
                         guildCrossed, reordered, met>>
      BY <2>2 DEF Guild!UndoGuildUpdate, Guild!Unlisted, Guild!SameHead, Guild!people,
                  Guild!listed
    <3>2. owner \in Users \cup {None}
      BY DEF GuildTyped
    <3> QED
      BY <3>1, <3>2, GuildBegins DEF Guild!Removing
  <2> QED
    BY <1>10, <2>1, <2>2
<1>11. CASE Guild!Next
  <2>1. CASE Guild!CreateInvite \/ Guild!InviteExpires \/ Guild!DeleteInvite
    BY <1>1, <2>1 DEF Guild!CreateInvite, Guild!InviteExpires, Guild!DeleteInvite,
                      Guild!Unlisted, Guild!SameHead, Guild!people, Guild!listed
  <2>2. ASSUME NEW u \in Users, Guild!UnbanUser(u) \/ Guild!UndoBan(u) PROVE GuildInv'
    BY <1>1, <2>2 DEF Guild!UnbanUser, Guild!UndoBan, Guild!Unlisted, Guild!people,
                      Guild!listed
  <2> QED
    BY <1>2, <1>3, <1>4, <1>5, <1>6, <1>7, <1>8, <1>9, <1>10, <1>11, <2>1, <2>2 DEF Guild!Next
<1>12. CASE UNCHANGED guildVars
  BY <1>1, <1>12 DEF guildVars
<1> QED
  BY <1>11, <1>12 DEF Next, vars, guildVars

(* The members are true: every use of the invitation is one row that came  *)
(* in by it, within its limit; when the handlers of joins, installations,  *)
(* removals and bans are done, the list the events built holds the rows    *)
(* there are, and nobody is banned and a member but the excused; and the   *)
(* owner is a member, unless he became it while he was being removed, is a *)
(* bot that was removed, or was written back by an undo.                   *)
THEOREM MembersHold == Spec => []MembersAreTrue
<1>1. GuildInv => MembersAreTrue
  <2> SUFFICES ASSUME GuildInv PROVE MembersAreTrue
    OBVIOUS
  <2>1. guildUses + installed = ids /\ guildUses <= MaxUses
    BY DEF GuildInv, GuildTyped
  <2>2. ASSUME Guild!Quiet
        PROVE  /\ shown \ reordered = {guildMember[u] : u \in Users} \ ({0} \cup reordered)
               /\ \A u \in banned : guildMember[u] # 0 => u \in guildCrossed
    <3>1. \A r \in Requests : \A steps : ~ Handled(r, steps)
      BY <2>2 DEF Guild!Quiet, Handled, As
    <3>2. 0 \notin shown
      BY DEF GuildInv, GuildTyped
    <3>3. \A i : ~ Leaving(i) /\ ~ Coming(i)
      BY <3>1 DEF Leaving, Coming
    <3>4. shown \ reordered \subseteq {guildMember[u] : u \in Users} \ ({0} \cup reordered)
      BY <3>2, <3>3 DEF GuildInv, ListCatchesUp, Current
    <3>5. \A u \in Users : guildMember[u] \in shown \cup reordered \cup {0}
      BY <3>3 DEF GuildInv, ListCatchesUp, Current
    <3>6. \A u \in banned : guildMember[u] # 0 => u \in guildCrossed
      BY <3>1 DEF GuildInv, BansCatchUp
    <3> QED
      BY <3>4, <3>5, <3>6
  <2>3. \A u \in Users : owner = u => guildMember[u] # 0 \/ u \in met
    BY DEF GuildInv, HeadStays, Heads
  <2> QED
    BY <2>1, <2>2, <2>3 DEF MembersAreTrue, Guild!MembersAreTrue
<1> QED
  BY <1>1, GuildInit, GuildNext, PTL DEF Spec

-----------------------------------------------------------------------------
(* The grants of agents. *)

Agreed(u, s) == \E a \in approvals : a.user = u /\ s \subseteq a.scope

AgentsTyped ==
  /\ approvals \subseteq [user : Users, scope : SUBSET Scopes]
  /\ tokens \in Seq([user : Users, scope : SUBSET Scopes, by : {"device", "code", "refresh"}])
  /\ agentsLive \subseteq DOMAIN tokens
  /\ agentsRequest \in [Requests -> AgentSlot \cup {None}]
  /\ device \in [status : {"none", "pending", "approved", "denied", "expired", "consumed"},
                 user : Users \cup {None}, scope : SUBSET Scopes]
  /\ code \in CodeSlot \cup {None}
  /\ denied \in BOOLEAN /\ overwritten \in BOOLEAN

\* Whatever may still become a token was agreed to.
AllAgreed ==
  /\ \A t \in DOMAIN tokens : Agreed(tokens[t].user, tokens[t].scope)
  /\ \A r \in Requests : agentsRequest[r] # None /\ agentsRequest[r].step # "approve" =>
       Agreed(agentsRequest[r].user, agentsRequest[r].scope)
  /\ device.status = "approved" => Agreed(device.user, device.scope)
  /\ code # None => Agreed(code.user, code.scope)

\* A code is in one token, or in one request that will issue it, or in none.
Once(by) ==
  /\ \A s, t \in DOMAIN tokens : tokens[s].by = by /\ tokens[t].by = by => s = t
  /\ \A q, r \in Requests : Agents!Doing(q, by) /\ Agents!Doing(r, by) => q = r
  /\ \A t \in DOMAIN tokens, r \in Requests : tokens[t].by = by => ~ Agents!Doing(r, by)
Spent(by) ==
  \/ \E t \in DOMAIN tokens : tokens[t].by = by
  \/ \E r \in Requests : Agents!Doing(r, by)

CodeOnce == Once("code") /\ (Spent("code") => code # None /\ code.used)

DeviceOnce ==
  ~ overwritten =>
    /\ Once("device")
    /\ Spent("device") => device.status \in {"consumed", "expired"} /\ ~ denied
    /\ denied => device.status \in {"denied", "expired"}

AgentsInv == AgentsTyped /\ AllAgreed /\ CodeOnce /\ DeviceOnce

LEMMA AgentsInit == Init => AgentsInv
<1> SUFFICES ASSUME Init PROVE AgentsInv
  OBVIOUS
<1> USE NoneIsNoValue DEF Init, Agents!Init
<1>1. agentsRequest \in [Requests -> AgentSlot \cup {None}]
  BY Zenon
<1>2. tokens = << >> /\ DOMAIN tokens = {}
  OBVIOUS
<1>3. \A r \in Requests : agentsRequest[r] = None
  OBVIOUS
<1>4. denied \in BOOLEAN /\ overwritten \in BOOLEAN /\ ~ denied
  BY Zenon
<1>5. device \in [status : {"none", "pending", "approved", "denied", "expired", "consumed"},
                  user : Users \cup {None}, scope : SUBSET Scopes]
  OBVIOUS
<1>6. AgentsTyped
  BY <1>1, <1>2, <1>4, <1>5 DEF AgentsTyped
<1>7. AllAgreed
  BY <1>2, <1>3 DEF AllAgreed
<1>8. ASSUME NEW by PROVE Once(by) /\ ~ Spent(by)
  BY <1>2, <1>3 DEF Once, Spent, Agents!Doing
<1> QED
  BY <1>4, <1>6, <1>7, <1>8 DEF AgentsInv, CodeOnce, DeviceOnce

LEMMA OnceKept ==
  ASSUME NEW by, Once(by), tokens' = tokens,
         \A q \in Requests : Agents!Doing(q, by)' => Agents!Doing(q, by)
  PROVE  Once(by)' /\ (Spent(by)' => Spent(by))
  BY DEF Once, Spent

LEMMA OnceBegins ==
  ASSUME NEW by, NEW r \in Requests, Once(by), ~ Spent(by), tokens' = tokens,
         \A q \in Requests : q # r /\ Agents!Doing(q, by)' => Agents!Doing(q, by)
  PROVE  Once(by)'
  BY DEF Once, Spent

\* The token takes the place of the request that issues it.
LEMMA OnceIssues ==
  ASSUME AgentsTyped, NEW by, Once(by), NEW r \in Requests,
         NEW x \in [user : Users, scope : SUBSET Scopes, by : {"device", "code", "refresh"}],
         tokens' = Append(tokens, x),
         x.by = by => Agents!Doing(r, by),
         \A q \in Requests : Agents!Doing(q, by)' => Agents!Doing(q, by) /\ q # r
  PROVE  Once(by)' /\ (Spent(by)' => Spent(by))
<1>1. PICK n : n = Len(tokens) + 1
  OBVIOUS
<1>2. /\ DOMAIN tokens' = DOMAIN tokens \cup {n} /\ n \notin DOMAIN tokens
      /\ tokens'[n] = x /\ \A t \in DOMAIN tokens : tokens'[t] = tokens[t]
  BY <1>1 DEF AgentsTyped
<1>3. \A t \in DOMAIN tokens' : t \in DOMAIN tokens \/ t = n
  BY <1>2
<1> QED
  BY <1>2, <1>3 DEF Once, Spent

LEMMA AgentsNext == AgentsInv /\ [Next]_vars => AgentsInv'
<1> SUFFICES ASSUME AgentsInv, [Next]_vars PROVE AgentsInv'
  OBVIOUS
<1> USE NoneIsNoValue DEF AgentsInv
<1> DEFINE Slots == [Requests -> AgentSlot \cup {None}]
           Statuses == {"none", "pending", "approved", "denied", "expired", "consumed"}
           Devices == [status : Statuses, user : Users \cup {None}, scope : SUBSET Scopes]
\* The device code gets another status, or tokens are revoked.
<1>1. ASSUME NEW status \in Statuses \ {"approved"},
             \/ device' = device /\ denied' = denied
             \/ /\ device' = [device EXCEPT !.status = status]
                /\ \/ status = "denied" /\ device.status = "pending" /\ denied' = TRUE
                   \/ status = "expired" /\ denied' = denied
                   \/ status = "pending" /\ device.status = "none" /\ denied' = denied,
             agentsLive' \subseteq agentsLive,
             UNCHANGED <<code, tokens, agentsRequest, approvals, overwritten>>
      PROVE  AgentsInv'
  <2>1. device' \in Devices /\ (device' = device \/ device'.status = status)
    BY <1>1 DEF AgentsTyped
  <2>2. denied' \in BOOLEAN
    BY <1>1, Zenon DEF AgentsTyped
  <2>3. AgentsTyped'
    BY <1>1, <2>1, <2>2 DEF AgentsTyped
  <2>4. AllAgreed'
    BY <1>1, <2>1 DEF AllAgreed, Agreed
  <2>5. CodeOnce'
    BY <1>1 DEF CodeOnce, Once, Spent, Agents!Doing
  <2>6. ASSUME ~ overwritten
        PROVE  /\ Once("device")' /\ (Spent("device")' => Spent("device"))
               /\ Once("device") /\ (Spent("device") => device.status \in {"consumed", "expired"})
               /\ Spent("device") => ~ denied
               /\ denied => device.status \in {"denied", "expired"}
    BY <1>1, <2>6 DEF DeviceOnce, Once, Spent, Agents!Doing
  <2>7. DeviceOnce'
    <3>1. CASE device' = device /\ denied' = denied
      BY <1>1, <2>6, <3>1 DEF DeviceOnce
    <3>2. CASE status = "denied" /\ device.status = "pending"
               /\ device' = [device EXCEPT !.status = status]
      <4>1. device'.status = "denied"
        BY <3>2 DEF AgentsTyped
      <4> QED
        BY <1>1, <2>6, <3>2, <4>1 DEF DeviceOnce
    <3>3. CASE status = "expired" /\ denied' = denied /\ device' = [device EXCEPT !.status = status]
      <4>1. device'.status = "expired"
        BY <3>3 DEF AgentsTyped
      <4> QED
        BY <1>1, <2>6, <3>3, <4>1 DEF DeviceOnce
    <3>4. CASE status = "pending" /\ device.status = "none" /\ denied' = denied
      BY <1>1, <2>6, <3>4 DEF DeviceOnce
    <3> QED
      BY <1>1, <3>1, <3>2, <3>3, <3>4
  <2> QED
    BY <2>3, <2>4, <2>5, <2>7
\* A handler begins that cannot issue by itself.
<1>2. ASSUME NEW r \in Requests, NEW step \in {"approve", "consume", "rotate"}, NEW u \in Users,
             NEW s \in SUBSET Scopes, NEW t \in Nat,
             Agents!Begins(r, step, u, s, t), step # "approve" => Agreed(u, s),
             UNCHANGED <<device, code, tokens, agentsLive, approvals, denied, overwritten>>
      PROVE  AgentsInv'
  <2> DEFINE new == [step |-> step, user |-> u, scope |-> s, token |-> t]
  <2>1. agentsRequest[r] = None /\ agentsRequest' = [agentsRequest EXCEPT ![r] = new]
    BY <1>2 DEF Agents!Begins
  <2>2. new \in AgentSlot /\ new # None /\ new.step = step /\ new.user = u /\ new.scope = s
    <3>1. new \in AgentSlot /\ new.step = step /\ new.user = u /\ new.scope = s
      BY DEF AgentSlot
    <3> QED
      BY <3>1
  <2>3. agentsRequest' \in Slots /\ agentsRequest'[r] = new
        /\ \A q \in Requests : q # r => agentsRequest'[q] = agentsRequest[q]
    BY <2>1, <2>2, Zenon DEF AgentsTyped
  <2> HIDE DEF new
  <2>4. AgentsTyped'
    BY <1>2, <2>3 DEF AgentsTyped
  <2>5. AllAgreed'
    BY <1>2, <2>2, <2>3 DEF AllAgreed, Agreed
  <2>6. \A q \in Requests : /\ Agents!Doing(q, "code")' => Agents!Doing(q, "code")
                            /\ Agents!Doing(q, "device")' => Agents!Doing(q, "device")
    BY <2>2, <2>3 DEF Agents!Doing
  <2>7. CodeOnce'
    BY <1>2, <2>6, OnceKept DEF CodeOnce
  <2>8. DeviceOnce'
    BY <1>2, <2>6, OnceKept DEF DeviceOnce
  <2> QED
    BY <2>4, <2>5, <2>7, <2>8
<1>3. ASSUME NEW r \in Requests, Agents!ApproveWrites(r) PROVE AgentsInv'
  <2>0. PICK u, s : u = agentsRequest[r].user /\ s = agentsRequest[r].scope
    OBVIOUS
  <2>1. /\ Agents!Doing(r, "approve")
        /\ agentsRequest' = [agentsRequest EXCEPT ![r] = None]
        /\ device' = [device EXCEPT !.status = "approved", !.user = u, !.scope = s]
        /\ approvals' = approvals \cup {[user |-> u, scope |-> s]}
        /\ UNCHANGED <<code, tokens, agentsLive, denied>>
    BY <1>3, <2>0 DEF Agents!ApproveWrites, Agents!Ends
  <2>2. overwritten' = (overwritten \/ device.status # "pending")
    BY <1>3 DEF Agents!ApproveWrites
  <2>3. u \in Users /\ s \in SUBSET Scopes
    BY <2>0, <2>1 DEF Agents!Doing, AgentsTyped, AgentSlot
  <2>4. /\ device' \in Devices /\ device'.status = "approved" /\ device'.user = u
        /\ device'.scope = s
    BY <2>1, <2>3 DEF AgentsTyped
  <2>5. agentsRequest' \in Slots /\ agentsRequest'[r] = None
        /\ \A q \in Requests : q # r => agentsRequest'[q] = agentsRequest[q]
    BY <2>1, Zenon DEF AgentsTyped
  <2>6. overwritten' \in BOOLEAN
    BY <2>2, Zenon
  <2>7. AgentsTyped'
    BY <2>1, <2>3, <2>4, <2>5, <2>6 DEF AgentsTyped
  <2>8. \E a \in approvals' : a.user = u /\ s \subseteq a.scope
    <3>1. [user |-> u, scope |-> s] \in approvals'
      BY <2>1
    <3> QED
      BY <3>1
  <2>9. approvals \subseteq approvals'
    BY <2>1
  <2>10. AllAgreed'
    <3>1. ASSUME NEW t \in DOMAIN tokens
          PROVE  \E a \in approvals' : a.user = tokens[t].user /\ tokens[t].scope \subseteq a.scope
      BY <2>9 DEF AllAgreed, Agreed
    <3>2. ASSUME NEW q \in Requests, agentsRequest'[q] # None, agentsRequest'[q].step # "approve"
          PROVE  \E a \in approvals' : /\ a.user = agentsRequest'[q].user
                                       /\ agentsRequest'[q].scope \subseteq a.scope
      <4>1. agentsRequest'[q] = agentsRequest[q]
        BY <2>5, <3>2
      <4> QED
        BY <2>9, <3>2, <4>1 DEF AllAgreed, Agreed
    <3>3. code # None => \E a \in approvals' : a.user = code.user /\ code.scope \subseteq a.scope
      BY <2>9 DEF AllAgreed, Agreed
    <3> QED
      BY <2>1, <2>4, <2>8, <3>1, <3>2, <3>3 DEF AllAgreed, Agreed
  <2>11. \A q \in Requests : /\ Agents!Doing(q, "code")' => Agents!Doing(q, "code")
                             /\ Agents!Doing(q, "device")' => Agents!Doing(q, "device")
    BY <2>5 DEF Agents!Doing
  <2>12. CodeOnce'
    BY <2>1, <2>11, OnceKept DEF CodeOnce
  <2>13. DeviceOnce'
    <3> SUFFICES ASSUME ~ overwritten'
                 PROVE  Once("device")' /\ ~ Spent("device")' /\ ~ denied'
      BY DEF DeviceOnce
    <3>1. ~ overwritten /\ device.status = "pending"
      BY <2>2
    <3>2. Once("device") /\ ~ Spent("device") /\ ~ denied
      BY <3>1 DEF DeviceOnce
    <3> QED
      BY <2>1, <2>11, <3>2, OnceKept
  <2> QED
    BY <2>7, <2>10, <2>12, <2>13
<1>4. ASSUME NEW r \in Requests, Agents!DeviceCodeConsumed(r) PROVE AgentsInv'
  <2> DEFINE q0 == agentsRequest[r]
             new == IF device.status = "approved" THEN [q0 EXCEPT !.step = "device"] ELSE None
  <2>1. /\ Agents!Doing(r, "consume")
        /\ agentsRequest' = [agentsRequest EXCEPT ![r] = new]
        /\ device' = IF device.status = "approved" THEN [device EXCEPT !.status = "consumed"]
                     ELSE device
        /\ UNCHANGED <<code, tokens, agentsLive, approvals, denied, overwritten>>
    <3>1. /\ Agents!Doing(r, "consume")
          /\ IF device.status = "approved" THEN agentsRequest' = [agentsRequest EXCEPT ![r].step = "device"]
             ELSE agentsRequest' = [agentsRequest EXCEPT ![r] = None]
          /\ device' = IF device.status = "approved" THEN [device EXCEPT !.status = "consumed"]
                       ELSE device
          /\ UNCHANGED <<code, tokens, agentsLive, approvals, denied, overwritten>>
      BY <1>4 DEF Agents!DeviceCodeConsumed, Agents!Goes, Agents!Ends
    <3> QED
      BY <3>1, Zenon
  <2>2. q0 \in AgentSlot /\ q0 # None /\ q0.step = "consume"
    BY <2>1 DEF AgentsTyped, Agents!Doing
  <2>3. /\ new \in AgentSlot \cup {None}
        /\ device.status # "approved" => new = None
        /\ device.status = "approved" =>
             new # None /\ new.step = "device" /\ new.user = q0.user /\ new.scope = q0.scope
    <3>1. CASE device.status = "approved"
      <4>1. new = [q0 EXCEPT !.step = "device"]
        BY <3>1
      <4>2. new \in AgentSlot /\ new.step = "device" /\ new.user = q0.user /\ new.scope = q0.scope
        BY <2>2, <4>1 DEF AgentSlot
      <4> QED
        BY <3>1, <4>2
    <3>2. CASE device.status # "approved"
      BY <3>2
    <3> QED
      BY <3>1, <3>2
  <2>4. agentsRequest' \in Slots /\ agentsRequest'[r] = new
        /\ \A q \in Requests : q # r => agentsRequest'[q] = agentsRequest[q]
    BY <2>1, <2>3, Zenon DEF AgentsTyped
  <2> HIDE DEF new
  <2>5. device' \in Devices /\ device'.status # "approved"
        /\ (device' # device => device.status = "approved" /\ device'.status = "consumed")
    BY <2>1 DEF AgentsTyped
  <2>6. AgentsTyped'
    BY <2>1, <2>4, <2>5 DEF AgentsTyped
  <2>7. AllAgreed'
    <3>1. ASSUME NEW q \in Requests, agentsRequest'[q] # None, agentsRequest'[q].step # "approve"
          PROVE  \E a \in approvals : /\ a.user = agentsRequest'[q].user
                                      /\ agentsRequest'[q].scope \subseteq a.scope
      <4>1. CASE q = r
        <5>1. agentsRequest'[q].user = q0.user /\ agentsRequest'[q].scope = q0.scope
          BY <2>3, <2>4, <3>1, <4>1
        <5>2. Agreed(q0.user, q0.scope)
          BY <2>2 DEF AllAgreed
        <5> QED
          BY <5>1, <5>2 DEF Agreed
      <4>2. CASE q # r
        <5>1. agentsRequest'[q] = agentsRequest[q]
          BY <2>4, <4>2
        <5> QED
          BY <3>1, <5>1 DEF AllAgreed, Agreed
      <4> QED
        BY <4>1, <4>2
    <3>2. \A t \in DOMAIN tokens : Agreed(tokens[t].user, tokens[t].scope)
      BY DEF AllAgreed
    <3>3. code # None => Agreed(code.user, code.scope)
      BY DEF AllAgreed
    <3> QED
      BY <2>1, <2>5, <3>1, <3>2, <3>3 DEF AllAgreed, Agreed
  <2>8. \A q \in Requests : /\ Agents!Doing(q, "code")' => Agents!Doing(q, "code")
                            /\ q # r /\ Agents!Doing(q, "device")' => Agents!Doing(q, "device")
    BY <2>3, <2>4 DEF Agents!Doing
  <2>9. CodeOnce'
    BY <2>1, <2>8, OnceKept DEF CodeOnce
  <2>10. DeviceOnce'
    <3> SUFFICES ASSUME ~ overwritten'
                 PROVE  /\ Once("device")'
                        /\ Spent("device")' => device'.status \in {"consumed", "expired"} /\ ~ denied'
                        /\ denied' => device'.status \in {"denied", "expired"}
      BY DEF DeviceOnce
    <3>1. Once("device") /\ (denied => device.status \in {"denied", "expired"})
          /\ (Spent("device") => device.status \in {"consumed", "expired"} /\ ~ denied)
      BY <2>1 DEF DeviceOnce
    <3>2. CASE device.status = "approved"
      <4>1. ~ Spent("device") /\ ~ denied /\ device'.status = "consumed"
        BY <2>1, <3>1, <3>2 DEF AgentsTyped
      <4>2. Once("device")'
        BY <2>1, <2>8, <3>1, <4>1, OnceBegins
      <4> QED
        BY <2>1, <4>1, <4>2
    <3>3. CASE device.status # "approved"
      <4>1. \A q \in Requests : Agents!Doing(q, "device")' => Agents!Doing(q, "device")
        BY <2>3, <2>4, <3>3 DEF Agents!Doing
      <4> QED
        BY <2>1, <3>1, <3>3, <4>1, OnceKept
    <3> QED
      BY <3>2, <3>3
  <2> QED
    BY <2>6, <2>7, <2>9, <2>10
<1>5. ASSUME NEW u \in Users, Agents!PostAuthorizeApprove(u) PROVE AgentsInv'
  <2>0. PICK s : s = Agents!Filter(Scopes, u)
    OBVIOUS
  <2>1. /\ code = None /\ code' = [user |-> u, scope |-> s, used |-> FALSE]
        /\ approvals' = approvals \cup {[user |-> u, scope |-> s]}
        /\ UNCHANGED <<device, tokens, agentsLive, agentsRequest, denied, overwritten>>
    BY <1>5, <2>0 DEF Agents!PostAuthorizeApprove
  <2>2. s \in SUBSET Scopes
    BY <2>0 DEF Agents!Filter
  <2>3. code' \in CodeSlot /\ code' # None /\ code'.user = u /\ code'.scope = s
    <3>1. code' \in CodeSlot /\ code'.user = u /\ code'.scope = s
      BY <2>1, <2>2 DEF CodeSlot
    <3> QED
      BY <3>1
  <2>4. AgentsTyped'
    BY <2>1, <2>2, <2>3 DEF AgentsTyped
  <2>5. \E a \in approvals' : a.user = u /\ s \subseteq a.scope
    <3>1. [user |-> u, scope |-> s] \in approvals'
      BY <2>1
    <3> QED
      BY <3>1
  <2>6. AllAgreed'
    <3>1. \A t \in DOMAIN tokens :
            \E a \in approvals' : a.user = tokens[t].user /\ tokens[t].scope \subseteq a.scope
      BY <2>1 DEF AllAgreed, Agreed
    <3>2. \A q \in Requests : agentsRequest[q] # None /\ agentsRequest[q].step # "approve" =>
            \E a \in approvals' : /\ a.user = agentsRequest[q].user
                                  /\ agentsRequest[q].scope \subseteq a.scope
      BY <2>1 DEF AllAgreed, Agreed
    <3>3. device.status = "approved" =>
            \E a \in approvals' : a.user = device.user /\ device.scope \subseteq a.scope
      BY <2>1 DEF AllAgreed, Agreed
    <3> QED
      BY <2>1, <2>3, <2>5, <3>1, <3>2, <3>3 DEF AllAgreed, Agreed
  <2>7. CodeOnce'
    BY <2>1 DEF CodeOnce, Once, Spent, Agents!Doing
  <2>8. DeviceOnce'
    BY <2>1 DEF DeviceOnce, Once, Spent, Agents!Doing
  <2> QED
    BY <2>4, <2>6, <2>7, <2>8
<1>6. ASSUME NEW r \in Requests, Agents!TokenAuthorizationCode(r) PROVE AgentsInv'
  <2>0. PICK u, s : u = code.user /\ s = Agents!Filter(code.scope, code.user)
    OBVIOUS
  <2> DEFINE new == [step |-> "code", user |-> u, scope |-> s, token |-> 0]
  <2>1. /\ code # None /\ ~ code.used /\ code' = [code EXCEPT !.used = TRUE]
        /\ agentsRequest[r] = None
        /\ agentsRequest' = [agentsRequest EXCEPT ![r] = new]
        /\ UNCHANGED <<device, tokens, agentsLive, approvals, denied, overwritten>>
    BY <1>6, <2>0 DEF Agents!TokenAuthorizationCode, Agents!Begins
  <2>2. u \in Users /\ s \in SUBSET Scopes /\ s \subseteq code.scope /\ code \in CodeSlot
    BY <2>0, <2>1 DEF Agents!Filter, AgentsTyped, CodeSlot
  <2>3. new \in AgentSlot /\ new # None /\ new.step = "code" /\ new.user = u /\ new.scope = s
    <3>1. new \in AgentSlot /\ new.step = "code" /\ new.user = u /\ new.scope = s
      BY <2>2 DEF AgentSlot
    <3> QED
      BY <3>1
  <2>4. agentsRequest' \in Slots /\ agentsRequest'[r] = new
        /\ \A q \in Requests : q # r => agentsRequest'[q] = agentsRequest[q]
    BY <2>1, <2>3, Zenon DEF AgentsTyped
  <2> HIDE DEF new
  <2>5. code' \in CodeSlot /\ code' # None /\ code'.used /\ code'.user = u
        /\ code'.scope = code.scope
    <3>1. code' \in CodeSlot /\ code'.used /\ code'.user = u /\ code'.scope = code.scope
      BY <2>0, <2>1, <2>2 DEF CodeSlot
    <3> QED
      BY <3>1
  <2>6. AgentsTyped'
    BY <2>1, <2>4, <2>5 DEF AgentsTyped
  <2>7. PICK a \in approvals : a.user = u /\ code.scope \subseteq a.scope
    BY <2>0, <2>1 DEF AllAgreed, Agreed
  <2>8. AllAgreed'
    <3>1. ASSUME NEW q \in Requests, agentsRequest'[q] # None, agentsRequest'[q].step # "approve"
          PROVE  \E b \in approvals : /\ b.user = agentsRequest'[q].user
                                      /\ agentsRequest'[q].scope \subseteq b.scope
      <4>1. CASE q = r
        BY <2>2, <2>3, <2>4, <2>7, <4>1
      <4>2. CASE q # r
        <5>1. agentsRequest'[q] = agentsRequest[q]
          BY <2>4, <4>2
        <5> QED
          BY <3>1, <5>1 DEF AllAgreed, Agreed
      <4> QED
        BY <4>1, <4>2
    <3>2. /\ \A t \in DOMAIN tokens : Agreed(tokens[t].user, tokens[t].scope)
          /\ device.status = "approved" => Agreed(device.user, device.scope)
      BY DEF AllAgreed
    <3> QED
      BY <2>1, <2>5, <2>7, <3>1, <3>2 DEF AllAgreed, Agreed
  <2>9. \A q \in Requests : /\ q # r /\ Agents!Doing(q, "code")' => Agents!Doing(q, "code")
                            /\ Agents!Doing(q, "device")' => Agents!Doing(q, "device")
    BY <2>3, <2>4 DEF Agents!Doing
  <2>10. CodeOnce'
    <3>1. Once("code") /\ ~ Spent("code")
      BY <2>1 DEF CodeOnce
    <3> QED
      BY <2>1, <2>5, <2>9, <3>1, OnceBegins DEF CodeOnce
  <2>11. DeviceOnce'
    BY <2>1, <2>9, OnceKept DEF DeviceOnce
  <2> QED
    BY <2>6, <2>8, <2>10, <2>11
<1>7. ASSUME NEW r \in Requests, Agents!IssueAgentTokens(r) PROVE AgentsInv'
  <2>0. PICK x : x = [user |-> agentsRequest[r].user, scope |-> agentsRequest[r].scope,
                      by |-> agentsRequest[r].step]
    OBVIOUS
  <2>1. /\ agentsRequest[r] # None /\ agentsRequest[r].step \in {"device", "code", "refresh"}
        /\ tokens' = Append(tokens, x) /\ agentsLive' = agentsLive \cup {Len(tokens')}
        /\ agentsRequest' = [agentsRequest EXCEPT ![r] = None]
        /\ UNCHANGED <<device, code, approvals, denied, overwritten>>
    BY <1>7, <2>0 DEF Agents!IssueAgentTokens, Agents!Ends
  <2>2. x \in [user : Users, scope : SUBSET Scopes, by : {"device", "code", "refresh"}]
        /\ x.by = agentsRequest[r].step /\ Agreed(x.user, x.scope)
    BY <2>0, <2>1 DEF AgentsTyped, AgentSlot, AllAgreed
  <2>3. agentsRequest' \in Slots /\ agentsRequest'[r] = None
        /\ \A q \in Requests : q # r => agentsRequest'[q] = agentsRequest[q]
    BY <2>1, Zenon DEF AgentsTyped
  <2>4. PICK n : n = Len(tokens) + 1
    OBVIOUS
  <2>5. /\ DOMAIN tokens' = DOMAIN tokens \cup {n} /\ Len(tokens') = n
        /\ tokens'[n] = x /\ \A t \in DOMAIN tokens : tokens'[t] = tokens[t]
        /\ tokens' \in Seq([user : Users, scope : SUBSET Scopes, by : {"device", "code", "refresh"}])
    BY <2>1, <2>2, <2>4 DEF AgentsTyped
  <2>6. AgentsTyped'
    BY <2>1, <2>3, <2>5 DEF AgentsTyped
  <2>7. AllAgreed'
    <3>1. ASSUME NEW t \in DOMAIN tokens'
          PROVE  \E a \in approvals : a.user = tokens'[t].user /\ tokens'[t].scope \subseteq a.scope
      <4>1. CASE t = n
        BY <2>2, <2>5, <4>1 DEF Agreed
      <4>2. CASE t # n
        <5>1. t \in DOMAIN tokens /\ tokens'[t] = tokens[t]
          BY <2>5, <3>1, <4>2
        <5> QED
          BY <5>1 DEF AllAgreed, Agreed
      <4> QED
        BY <4>1, <4>2
    <3>2. \A q \in Requests : agentsRequest'[q] # None => agentsRequest'[q] = agentsRequest[q]
      BY <2>3
    <3>3. \A q \in Requests : agentsRequest'[q] # None /\ agentsRequest'[q].step # "approve" =>
            \E a \in approvals : /\ a.user = agentsRequest'[q].user
                                 /\ agentsRequest'[q].scope \subseteq a.scope
      BY <3>2 DEF AllAgreed, Agreed
    <3>4. /\ device.status = "approved" => Agreed(device.user, device.scope)
          /\ code # None => Agreed(code.user, code.scope)
      BY DEF AllAgreed
    <3> QED
      BY <2>1, <3>1, <3>3, <3>4 DEF AllAgreed, Agreed
  <2>8. ASSUME NEW by \in {"code", "device"}, Once(by)
        PROVE  Once(by)' /\ (Spent(by)' => Spent(by))
    <3>1. x.by = by => Agents!Doing(r, by)
      BY <2>1, <2>2 DEF Agents!Doing
    <3>2. \A q \in Requests : Agents!Doing(q, by)' => Agents!Doing(q, by) /\ q # r
      BY <2>3 DEF Agents!Doing
    <3> QED
      BY <2>1, <2>2, <2>8, <3>1, <3>2, OnceIssues
  <2>9. CodeOnce'
    BY <2>1, <2>8 DEF CodeOnce
  <2>10. DeviceOnce'
    BY <2>1, <2>8 DEF DeviceOnce
  <2> QED
    BY <2>6, <2>7, <2>9, <2>10
<1>8. ASSUME NEW r \in Requests, Agents!RefreshRevokes(r) PROVE AgentsInv'
  <2> DEFINE q0 == agentsRequest[r]
             new == [q0 EXCEPT !.step = "refresh"]
  <2>1. /\ Agents!Doing(r, "rotate")
        /\ agentsRequest' = [agentsRequest EXCEPT ![r].step = "refresh"]
        /\ agentsLive' \subseteq agentsLive
        /\ UNCHANGED <<device, code, tokens, approvals, denied, overwritten>>
    BY <1>8 DEF Agents!RefreshRevokes, Agents!Goes
  <2>2. agentsRequest' = [agentsRequest EXCEPT ![r] = new]
    BY <2>1, Zenon
  <2>3. q0 \in AgentSlot /\ q0 # None /\ q0.step = "rotate"
    BY <2>1 DEF AgentsTyped, Agents!Doing
  <2>4. /\ new \in AgentSlot /\ new # None
        /\ new.step = "refresh" /\ new.user = q0.user /\ new.scope = q0.scope
    <3>1. /\ new \in AgentSlot /\ new.step = "refresh" /\ new.user = q0.user
          /\ new.scope = q0.scope
      BY <2>3 DEF AgentSlot
    <3> QED
      BY <3>1
  <2>5. agentsRequest' \in Slots /\ agentsRequest'[r] = new
        /\ \A q \in Requests : q # r => agentsRequest'[q] = agentsRequest[q]
    BY <2>2, <2>4, Zenon DEF AgentsTyped
  <2> HIDE DEF new
  <2>6. AgentsTyped'
    BY <2>1, <2>5 DEF AgentsTyped
  <2>7. AllAgreed'
    <3>1. ASSUME NEW q \in Requests, agentsRequest'[q] # None, agentsRequest'[q].step # "approve"
          PROVE  \E a \in approvals : /\ a.user = agentsRequest'[q].user
                                      /\ agentsRequest'[q].scope \subseteq a.scope
      <4>1. CASE q = r
        <5>1. Agreed(q0.user, q0.scope)
          BY <2>3 DEF AllAgreed
        <5> QED
          BY <2>4, <2>5, <4>1, <5>1 DEF Agreed
      <4>2. CASE q # r
        <5>1. agentsRequest'[q] = agentsRequest[q]
          BY <2>5, <4>2
        <5> QED
          BY <3>1, <5>1 DEF AllAgreed, Agreed
      <4> QED
        BY <4>1, <4>2
    <3>2. /\ \A t \in DOMAIN tokens : Agreed(tokens[t].user, tokens[t].scope)
          /\ device.status = "approved" => Agreed(device.user, device.scope)
          /\ code # None => Agreed(code.user, code.scope)
      BY DEF AllAgreed
    <3> QED
      BY <2>1, <3>1, <3>2 DEF AllAgreed, Agreed
  <2>8. \A q \in Requests : /\ Agents!Doing(q, "code")' => Agents!Doing(q, "code")
                            /\ Agents!Doing(q, "device")' => Agents!Doing(q, "device")
    BY <2>4, <2>5 DEF Agents!Doing
  <2>9. CodeOnce'
    BY <2>1, <2>8, OnceKept DEF CodeOnce
  <2>10. DeviceOnce'
    BY <2>1, <2>8, OnceKept DEF DeviceOnce
  <2> QED
    BY <2>6, <2>7, <2>9, <2>10
<1>9. ASSUME \/ Agents!PostDeviceCode \/ Agents!TimeOver \/ Agents!PostDeviceDeny
             \/ Agents!ExpiredFound
             \/ \E u \in Users : Agents!RevokeGrants(u) \/ Agents!RevokeSystemAdmin(u)
             \/ \E t \in agentsLive : Agents!Revoke(t)
             \/ UNCHANGED agentsVars
      PROVE  AgentsInv'
  <2>1. PICK status \in Statuses \ {"approved"} :
          \/ device' = device /\ denied' = denied
          \/ /\ device' = [device EXCEPT !.status = status]
             /\ \/ status = "denied" /\ device.status = "pending" /\ denied' = TRUE
                \/ status = "expired" /\ denied' = denied
                \/ status = "pending" /\ device.status = "none" /\ denied' = denied
    <3>1. CASE Agents!PostDeviceCode
      BY <3>1 DEF Agents!PostDeviceCode
    <3>2. CASE Agents!PostDeviceDeny
      BY <3>2 DEF Agents!PostDeviceDeny
    <3>3. CASE Agents!ExpiredFound
      BY <3>3 DEF Agents!ExpiredFound
    <3>4. CASE device' = device /\ denied' = denied
      BY <3>4
    <3> QED
      BY <1>9, <3>1, <3>2, <3>3, <3>4
         DEF Agents!TimeOver, Agents!RevokeGrants, Agents!RevokeSystemAdmin, Agents!Revoke,
             agentsVars
  <2>2. agentsLive' \subseteq agentsLive
        /\ UNCHANGED <<code, tokens, agentsRequest, approvals, overwritten>>
    BY <1>9 DEF Agents!PostDeviceCode, Agents!PostDeviceDeny, Agents!ExpiredFound,
                Agents!TimeOver, Agents!RevokeGrants, Agents!RevokeSystemAdmin, Agents!Revoke,
                agentsVars
  <2> QED
    BY <1>1, <2>1, <2>2
<1>10. ASSUME NEW r \in Requests, NEW u \in Users, Agents!PostDeviceApprove(r, u) PROVE AgentsInv'
  <2>1. PICK s \in SUBSET Scopes :
          /\ Agents!Begins(r, "approve", u, s, 0)
          /\ UNCHANGED <<device, code, tokens, agentsLive, approvals, denied, overwritten>>
    BY <1>10 DEF Agents!PostDeviceApprove, Agents!Filter
  <2> QED
    BY <1>2, <2>1
<1>11. ASSUME NEW r \in Requests, Agents!TokenDeviceCode(r) PROVE AgentsInv'
  <2>1. PICK u, s : u = device.user /\ s = device.scope
    OBVIOUS
  <2>2. /\ Agents!Begins(r, "consume", u, s, 0) /\ device.status = "approved"
        /\ UNCHANGED <<device, code, tokens, agentsLive, approvals, denied, overwritten>>
    BY <1>11, <2>1 DEF Agents!TokenDeviceCode
  <2>3. Agreed(u, s) /\ s \in SUBSET Scopes /\ u \in Users
    BY <2>1, <2>2 DEF AllAgreed, Agreed, AgentsTyped
  <2> QED
    BY <1>2, <2>2, <2>3
<1>12. ASSUME NEW r \in Requests, NEW t \in agentsLive, Agents!TokenRefresh(r, t) PROVE AgentsInv'
  <2>1. PICK u, scope : u = tokens[t].user /\ scope = tokens[t].scope
    OBVIOUS
  <2>2. t \in DOMAIN tokens /\ t \in Nat /\ u \in Users /\ scope \in SUBSET Scopes
        /\ Agreed(u, scope)
    <3>1. t \in DOMAIN tokens
      BY DEF AgentsTyped
    <3>2. tokens \in Seq([user : Users, scope : SUBSET Scopes, by : {"device", "code", "refresh"}])
      BY DEF AgentsTyped
    <3>3. t \in 1 .. Len(tokens)
      BY <3>1, <3>2
    <3>4. u \in Users /\ scope \in SUBSET Scopes
      <4>1. tokens[t] \in [user : Users, scope : SUBSET Scopes, by : {"device", "code", "refresh"}]
        BY <3>2, <3>3, ElementOfSeq
      <4> QED
        BY <2>1, <4>1
    <3>5. t \in Nat
      BY <3>3
    <3>6. Agreed(u, scope)
      BY <2>1, <3>1 DEF AllAgreed
    <3> QED
      BY <3>1, <3>4, <3>5, <3>6
  <2>3. PICK n \in SUBSET scope :
          /\ Agents!Begins(r, "rotate", u, Agents!Filter(n, u), t)
          /\ UNCHANGED <<device, code, tokens, agentsLive, approvals, denied, overwritten>>
    BY <1>12, <2>1 DEF Agents!TokenRefresh, Agents!Narrower
  <2>4. PICK s : s = Agents!Filter(n, u)
    OBVIOUS
  <2>5. s \in SUBSET Scopes /\ Agreed(u, s) /\ Agents!Begins(r, "rotate", u, s, t)
    BY <2>2, <2>3, <2>4 DEF Agents!Filter, Agreed
  <2> QED
    BY <1>2, <2>2, <2>3, <2>5
<1>13. CASE Agents!Next
  BY <1>3, <1>4, <1>5, <1>6, <1>7, <1>8, <1>9, <1>10, <1>11, <1>12, <1>13 DEF Agents!Next
<1> QED
  BY <1>9, <1>13 DEF Next, vars

LEMMA AtMostOne ==
  ASSUME NEW S, \A x, y \in S : x = y
  PROVE  IsFiniteSet(S) /\ Cardinality(S) \in Nat /\ Cardinality(S) <= 1
<1>1. CASE S = {}
  BY <1>1, FS_EmptySet
<1>2. CASE S # {}
  <2>1. PICK x : x \in S
    BY <1>2
  <2>2. S = {x}
    BY <2>1
  <2> QED
    BY <2>2, FS_Singleton
<1> QED
  BY <1>1, <1>2

\* Every token was agreed to, and a code becomes one token at most.
LEMMA AgentsHold == AgentsInv => Agents!AgreedOnly
<1> SUFFICES ASSUME AgentsInv PROVE Agents!AgreedOnly
  OBVIOUS
<1>1. \A t \in DOMAIN tokens : \E a \in approvals :
        a.user = tokens[t].user /\ tokens[t].scope \subseteq a.scope
  BY DEF AgentsInv, AllAgreed, Agreed
<1>2. ASSUME NEW by, Once(by)
      PROVE  /\ Agents!Cardinality(Agents!From(by)) \in Nat
             /\ Agents!Cardinality(Agents!From(by)) <= 1
             /\ ~ Spent(by) => Agents!Cardinality(Agents!From(by)) = 0
  <2>1. PICK S : S = Agents!From(by)
    OBVIOUS
  <2>2. (\A s, t \in S : s = t) /\ (~ Spent(by) => S = {})
    BY <1>2, <2>1 DEF Agents!From, Once, Spent
  <2>3. Agents!Cardinality(S) = Cardinality(S)
    BY DEF Agents!Cardinality, Cardinality
  <2> QED
    BY <2>1, <2>2, <2>3, AtMostOne, FS_EmptySet
<1>3. Agents!Cardinality(Agents!From("code")) <= 1
  BY <1>2 DEF AgentsInv, CodeOnce
<1>4. overwritten \/ Agents!Cardinality(Agents!From("device")) <= (IF denied THEN 0 ELSE 1)
  <2> SUFFICES ASSUME ~ overwritten
               PROVE  Agents!Cardinality(Agents!From("device")) <= (IF denied THEN 0 ELSE 1)
    OBVIOUS
  <2>1. Once("device") /\ (denied => ~ Spent("device"))
    BY DEF AgentsInv, DeviceOnce
  <2>2. CASE denied
    BY <1>2, <2>1, <2>2
  <2>3. CASE ~ denied
    BY <1>2, <2>1, <2>3
  <2> QED
    BY <2>2, <2>3
<1> QED
  BY <1>1, <1>3, <1>4 DEF Agents!AgreedOnly

-----------------------------------------------------------------------------
(* A bot. *)

RobotsTyped ==
  /\ robotsRequest \in [Requests -> RobotSlot \cup {None}]
  /\ bot \in {"new", "there", "deleted"} /\ home \in Two \cup {None}
  /\ robotsMember \subseteq Two /\ dirty \subseteq Two /\ voice \in Two \cup {None}
  /\ ghost \in BOOLEAN /\ unseen \in BOOLEAN /\ wrongly \in BOOLEAN

\* Before there is a bot there is nothing of it.
NewIsEmpty ==
  bot = "new" =>
    /\ robotsMember = {} /\ \A t \in Two : token[t] = None
    /\ \A r \in Requests : robotsRequest[r] = None

\* A bot of one guild is installed in no other, and deleted from no other.
AtHome ==
  /\ home = None \/ robotsMember \subseteq {home}
  /\ \A r \in Requests :
       /\ Robots!Doing(r, "install") =>
            robotsRequest[r].of \in Two /\ (home = None \/ robotsRequest[r].of = home)
       /\ Robots!Doing(r, "kick") \/ Robots!Doing(r, "delete") =>
            robotsRequest[r].of \in {None, home}

DeletedIsOut == bot = "deleted" => ghost \/ robotsMember = {}

LateIsDeleted ==
  /\ ~ wrongly
  /\ \A r \in Requests : Robots!Doing(r, "resolve") /\ robotsRequest[r].late => bot = "deleted"

SeatIsCovered ==
  /\ voice = None \/ voice \in robotsMember \cup dirty \/ Robots!Kicking \/ unseen
  /\ \A r \in Requests : Robots!Doing(r, "join") =>
       robotsRequest[r].of \in robotsMember \/ unseen

\* What is left in the bucket and what was let through stay within the rate.
LimitHolds ==
  /\ now \in 0 .. MaxTime /\ filled \in 0 .. now /\ robotsBucket \in 0 .. Burst
  /\ served \in [0 .. MaxTime -> Nat]
  /\ \A t \in 0 .. filled : served[t] + robotsBucket <= Burst + Rate * (filled - t)
  /\ \A t \in 0 .. MaxTime : t > filled => served[t] = 0

RobotsInv ==
  /\ RobotsTyped /\ NewIsEmpty /\ AtHome /\ DeletedIsOut /\ LateIsDeleted /\ SeatIsCovered
  /\ LimitHolds

LEMMA RobotsInit == Init => RobotsInv
<1> SUFFICES ASSUME Init PROVE RobotsInv
  OBVIOUS
<1> USE NoneIsNoValue DEF Init, Robots!Init
<1>1. robotsRequest \in [Requests -> RobotSlot \cup {None}]
  BY Zenon
<1>2. /\ \A r \in Requests : robotsRequest[r] = None
      /\ \A t \in Two : token[t] = None
      /\ bot = "new" /\ home = None /\ robotsMember = {} /\ dirty = {} /\ voice = None
  OBVIOUS
<1>3. ghost \in BOOLEAN /\ unseen \in BOOLEAN /\ wrongly \in BOOLEAN /\ ~ wrongly
  BY Zenon
<1>4. RobotsTyped
  BY <1>1, <1>2, <1>3 DEF RobotsTyped
<1>5. NewIsEmpty /\ AtHome /\ DeletedIsOut /\ LateIsDeleted /\ SeatIsCovered
  BY <1>2, <1>3 DEF NewIsEmpty, AtHome, DeletedIsOut, LateIsDeleted, SeatIsCovered, Robots!Doing
<1>6. LimitHolds
  <2>1. /\ now = 0 /\ filled = 0 /\ robotsBucket = Burst /\ served = [t \in 0 .. MaxTime |-> 0]
    OBVIOUS
  <2>2. Rate * 0 = 0
    BY BoundsAreNumbers
  <2> QED
    BY <2>1, <2>2, BoundsAreNumbers DEF LimitHolds
<1> QED
  BY <1>4, <1>5, <1>6 DEF RobotsInv

\* A step of the handler r: it goes on with new, or ends.
LEMMA RobotsHandle ==
  ASSUME RobotsInv, NEW r \in Requests, NEW new \in RobotSlot \cup {None},
         robotsRequest' = [robotsRequest EXCEPT ![r] = new],
         bot # "new", bot' \in {"there", "deleted"}, bot = "deleted" => bot' = "deleted",
         UNCHANGED home,
         robotsMember' \subseteq Two, home = None \/ robotsMember' \subseteq {home},
         dirty' \subseteq Two, voice' \in Two \cup {None},
         ghost' \in BOOLEAN, unseen' \in BOOLEAN, wrongly' = FALSE,
         bot' = "deleted" => ghost' \/ robotsMember' = {},
         new # None =>
           /\ new.step = "install" => new.of \in Two /\ (home = None \/ new.of = home)
           /\ new.step \in {"kick", "delete"} => new.of \in {None, home}
           /\ new.step = "resolve" /\ new.late => bot' = "deleted"
           /\ new.step = "join" => new.of \in robotsMember' \/ unseen',
         \A q \in Requests : q # r /\ Robots!Doing(q, "join") =>
           robotsRequest[q].of \in robotsMember' \/ unseen',
         \/ voice' = None \/ voice' \in robotsMember' \cup dirty' \/ unseen'
         \/ new # None /\ new.step = "kicks"
         \/ \E q \in Requests : q # r /\ Robots!Doing(q, "kicks")
  PROVE  RobotsTyped' /\ NewIsEmpty' /\ AtHome' /\ DeletedIsOut' /\ LateIsDeleted' /\ SeatIsCovered'
<1> USE DEF RobotsInv
<1>1. /\ robotsRequest' \in [Requests -> RobotSlot \cup {None}] /\ robotsRequest'[r] = new
      /\ \A q \in Requests : q # r => robotsRequest'[q] = robotsRequest[q]
  BY Zenon DEF RobotsTyped
<1>2. ASSUME NEW step
      PROVE  /\ Robots!Doing(r, step)' <=> new # None /\ new.step = step
             /\ \A q \in Requests : q # r => (Robots!Doing(q, step)' <=> Robots!Doing(q, step))
  BY <1>1 DEF Robots!Doing
<1>3. wrongly' \in BOOLEAN /\ ~ wrongly'
  BY Zenon
<1>4. RobotsTyped'
  BY <1>1, <1>3 DEF RobotsTyped
<1>5. NewIsEmpty' /\ DeletedIsOut'
  BY DEF NewIsEmpty, DeletedIsOut
<1>6. AtHome'
  BY <1>1, <1>2 DEF AtHome
<1>7. LateIsDeleted'
  BY <1>1, <1>2, <1>3 DEF LateIsDeleted
<1>8. SeatIsCovered'
  <2>1. voice' = None \/ voice' \in robotsMember' \cup dirty' \/ Robots!Kicking' \/ unseen'
    BY <1>2 DEF Robots!Kicking
  <2>2. \A q \in Requests : Robots!Doing(q, "join")' =>
          robotsRequest'[q].of \in robotsMember' \/ unseen'
    BY <1>1, <1>2
  <2> QED
    BY <2>1, <2>2 DEF SeatIsCovered
<1> QED
  BY <1>4, <1>5, <1>6, <1>7, <1>8

LEMMA LimitNext ==
  ASSUME LimitHolds,
         \/ UNCHANGED <<robotsBucket, filled, now, served>>
         \/ Robots!Tick
         \/ \E r \in Requests : Robots!Allow(r)
  PROVE  LimitHolds'
<1> USE BoundsAreNumbers
<1>1. CASE UNCHANGED <<robotsBucket, filled, now, served>>
  BY <1>1 DEF LimitHolds
<1>2. CASE Robots!Tick
  BY <1>2 DEF Robots!Tick, LimitHolds
<1>3. ASSUME NEW r \in Requests, Robots!Allow(r) PROVE LimitHolds'
  <2>1. PICK left, earned : left = Robots!Refilled /\ earned = (now - filled) * Rate
    OBVIOUS
  <2>2. /\ now \in Nat /\ filled \in Nat /\ now <= MaxTime /\ filled <= now
        /\ robotsBucket \in Nat /\ robotsBucket <= Burst /\ now - filled \in Nat
    BY DEF LimitHolds
  <2>3. earned \in Nat
    BY <2>1, <2>2
  <2>4. left \in Nat /\ left <= Burst /\ left <= robotsBucket + earned
    BY <2>1, <2>2, <2>3 DEF Robots!Refilled
  <2>5. ASSUME NEW t \in 0 .. now
        PROVE  served[t] \in Nat /\ served[t] + left <= Burst + Rate * (now - t)
    <3>1. served[t] \in Nat /\ t \in 0 .. MaxTime /\ t \in Nat /\ t <= now
      BY <2>2 DEF LimitHolds
    <3>2. CASE t <= filled
      <4>1. served[t] + robotsBucket <= Burst + Rate * (filled - t) /\ filled - t \in Nat
        BY <2>2, <3>1, <3>2 DEF LimitHolds
      <4>2. Rate * (now - t) = Rate * (filled - t) + earned
        BY <2>1, <2>2, <3>1
      <4>3. PICK x, y : x = Rate * (filled - t) /\ y = Rate * (now - t)
        OBVIOUS
      <4>4. x \in Nat /\ y = x + earned
        BY <4>1, <4>2, <4>3
      <4>5. served[t] + left <= Burst + y
        BY <2>2, <2>3, <2>4, <3>1, <4>1, <4>3, <4>4
      <4> QED
        BY <3>1, <4>3, <4>5
    <3>3. CASE t > filled
      <4>1. served[t] = 0 /\ now - t \in Nat
        BY <3>1, <3>3 DEF LimitHolds
      <4>2. PICK y : y = Rate * (now - t)
        OBVIOUS
      <4>3. y \in Nat
        BY <4>1, <4>2
      <4> QED
        BY <2>4, <3>1, <4>1, <4>2, <4>3
    <3> QED
      BY <2>2, <3>1, <3>2, <3>3
  <2>6. CASE ~ Robots!BotFound
    BY <1>3, <2>6 DEF Robots!Allow, LimitHolds
  <2>7. CASE Robots!BotFound /\ left < 1
    <3>1. filled' = now /\ now' = now /\ robotsBucket' = left /\ served' = served
      BY <1>3, <2>1, <2>7 DEF Robots!Allow
    <3>2. \A t \in 0 .. MaxTime : t > now => served[t] = 0
      BY <2>2 DEF LimitHolds
    <3>3. now \in 0 .. MaxTime /\ left \in 0 .. Burst /\ now \in 0 .. now
      BY <2>2, <2>4
    <3> QED
      BY <2>5, <3>1, <3>2, <3>3 DEF LimitHolds
  <2>8. CASE Robots!BotFound /\ ~ left < 1
    <3>1. /\ filled' = now /\ now' = now /\ robotsBucket' = left - 1
          /\ served' = [t \in 0 .. MaxTime |-> IF t <= now THEN served[t] + 1 ELSE served[t]]
      BY <1>3, <2>1, <2>8 DEF Robots!Allow
    <3>2. ASSUME NEW t \in 0 .. MaxTime, t > now PROVE served'[t] = 0
      BY <2>2, <3>1, <3>2 DEF LimitHolds
    <3>3. now \in 0 .. MaxTime /\ left - 1 \in 0 .. Burst /\ now \in 0 .. now
      BY <2>2, <2>4, <2>8
    <3>4. ASSUME NEW t \in 0 .. now
          PROVE  served'[t] + (left - 1) <= Burst + Rate * (now - t)
      <4>1. t \in 0 .. MaxTime /\ t <= now
        BY <2>2
      <4>2. served'[t] = served[t] + 1
        BY <3>1, <4>1
      <4>3. PICK y : y = Burst + Rate * (now - t)
        OBVIOUS
      <4>4. served[t] \in Nat /\ served[t] + left <= y
        BY <2>5, <4>3
      <4>5. served[t] + 1 + (left - 1) = served[t] + left
        BY <2>4, <4>4
      <4> QED
        BY <4>2, <4>3, <4>4, <4>5
    <3>5. served' \in [0 .. MaxTime -> Nat]
      <4>1. \A t \in 0 .. MaxTime : (IF t <= now THEN served[t] + 1 ELSE served[t]) \in Nat
        BY DEF LimitHolds
      <4> QED
        BY <3>1, <4>1
    <3> QED
      BY <3>1, <3>2, <3>3, <3>4, <3>5 DEF LimitHolds
  <2> QED
    BY <2>6, <2>7, <2>8
<1> QED
  BY <1>1, <1>2, <1>3

LEMMA RobotsNext == RobotsInv /\ [Next]_vars => RobotsInv'
<1> SUFFICES ASSUME RobotsInv, [Next]_vars PROVE RobotsInv'
  OBVIOUS
<1> USE NoneIsNoValue DEF RobotsInv
<1> DEFINE Rest == RobotsTyped' /\ NewIsEmpty' /\ AtHome' /\ DeletedIsOut' /\ LateIsDeleted'
                   /\ SeatIsCovered'
<1>1. \A r \in Requests : robotsRequest[r] # None => bot \in {"there", "deleted"}
  BY DEF RobotsTyped, NewIsEmpty
<1>2. /\ DeletedIsOut /\ (home = None \/ robotsMember \subseteq {home}) /\ wrongly = FALSE
      /\ voice = None \/ voice \in robotsMember \cup dirty \/ Robots!Kicking \/ unseen
      /\ \A q \in Requests : Robots!Doing(q, "join") => robotsRequest[q].of \in robotsMember \/ unseen
      /\ \A q \in Requests : robotsRequest[q] # None => robotsRequest[q] \in RobotSlot
  <2>1. wrongly = FALSE
    BY Zenon DEF LateIsDeleted, RobotsTyped
  <2> QED
    BY <2>1 DEF AtHome, SeatIsCovered, RobotsTyped
\* A handler begins, after what it has read.
<1>3. ASSUME NEW r \in Requests, NEW step \in {"token", "install", "uninstall", "kick", "resolve"},
             NEW of \in Two \cup {None}, NEW late \in BOOLEAN,
             Robots!Begins(r, step, of, late), bot \in {"there", "deleted"},
             step = "install" => of \in Two /\ (home = None \/ of = home),
             step = "kick" => of \in {None, home},
             step = "resolve" /\ late => bot = "deleted",
             UNCHANGED <<bot, home, robotsMember, voice, dirty, unseen, wrongly, ghost>>
      PROVE  Rest
  <2> DEFINE new == Robots!Slot(step, of, late)
  <2>1. robotsRequest[r] = None /\ robotsRequest' = [robotsRequest EXCEPT ![r] = new]
    BY <1>3 DEF Robots!Begins
  <2>2. new \in RobotSlot
    BY DEF Robots!Slot, RobotSlot
  <2>3. new.step = step /\ new.of = of /\ new.late = late /\ new # None
    <3>1. new.step = step /\ new.of = of /\ new.late = late
      BY DEF Robots!Slot
    <3> QED
      BY <2>2, <3>1
  <2> HIDE DEF new
  <2>4. Robots!Kicking => \E q \in Requests : q # r /\ Robots!Doing(q, "kicks")
    BY <2>1 DEF Robots!Kicking, Robots!Doing
  <2>5. /\ bot # "new" /\ bot' \in {"there", "deleted"} /\ (bot = "deleted" => bot' = "deleted")
        /\ home' = home /\ wrongly' = FALSE
        /\ robotsMember' \subseteq Two /\ (home = None \/ robotsMember' \subseteq {home})
        /\ dirty' \subseteq Two /\ voice' \in Two \cup {None}
        /\ bot' = "deleted" => ghost' \/ robotsMember' = {}
    BY <1>2, <1>3 DEF RobotsTyped, DeletedIsOut
  <2>6. ghost' \in BOOLEAN /\ unseen' \in BOOLEAN
    BY <1>3, Zenon DEF RobotsTyped
  <2>7. new # None =>
           /\ new.step = "install" => new.of \in Two /\ (home = None \/ new.of = home)
           /\ new.step \in {"kick", "delete"} => new.of \in {None, home}
           /\ new.step = "resolve" /\ new.late => bot' = "deleted"
           /\ new.step = "join" => new.of \in robotsMember' \/ unseen'
    BY <1>3, <2>3
  <2>8. \A q \in Requests : q # r /\ Robots!Doing(q, "join") =>
          robotsRequest[q].of \in robotsMember' \/ unseen'
    BY <1>2, <1>3
  <2>9. \/ voice' = None \/ voice' \in robotsMember' \cup dirty' \/ unseen'
        \/ new # None /\ new.step = "kicks"
        \/ \E q \in Requests : q # r /\ Robots!Doing(q, "kicks")
    BY <1>2, <1>3, <2>4
  <2> QED
    BY <2>1, <2>2, <2>5, <2>6, <2>7, <2>8, <2>9, RobotsHandle
\* It goes on to another step, or ends, and nothing else of the bot moves.
<1>4. ASSUME NEW r \in Requests, NEW step \in {"kicks", "delete", "call"}, NEW new,
             new = None \/ new = [robotsRequest[r] EXCEPT !.step = step],
             robotsRequest[r] # None, robotsRequest' = [robotsRequest EXCEPT ![r] = new]
      PROVE  /\ new \in RobotSlot \cup {None}
             /\ new # None => new.step = step /\ new.of = robotsRequest[r].of
  <2>1. CASE new = None
    BY <2>1
  <2>2. CASE new = [robotsRequest[r] EXCEPT !.step = step]
    <3>1. robotsRequest[r] \in RobotSlot
      BY <1>2, <1>4
    <3> QED
      BY <2>2, <3>1 DEF RobotSlot
  <2> QED
    BY <1>4, <2>1, <2>2
<1>5. ASSUME NEW r \in Requests, Robots!TokenWritten(r) \/ Robots!Answered(r) PROVE Rest
  <2>1. /\ robotsRequest[r] # None /\ robotsRequest[r].step \in {"token", "call"}
        /\ robotsRequest' = [robotsRequest EXCEPT ![r] = None]
        /\ UNCHANGED <<bot, home, robotsMember, voice, dirty, unseen, wrongly, ghost>>
    BY <1>5 DEF Robots!TokenWritten, Robots!Answered, Robots!Doing, Robots!Ends, Robots!room,
                Robots!calls, Robots!data
  <2>2. Robots!Kicking => \E q \in Requests : q # r /\ Robots!Doing(q, "kicks")
    BY <2>1 DEF Robots!Kicking, Robots!Doing
  <2>3. bot \in {"there", "deleted"}
    BY <1>1, <2>1
  <2> QED
    BY <1>2, <2>1, <2>2, <2>3, RobotsHandle DEF RobotsTyped, DeletedIsOut
<1>6. ASSUME NEW r \in Requests, Robots!Installed(r) PROVE Rest
  <2>0. PICK g : g = robotsRequest[r].of
    OBVIOUS
  <2>1. /\ Robots!Doing(r, "install") /\ robotsRequest[r] # None
        /\ robotsRequest[r].step = "install"
        /\ robotsRequest' = [robotsRequest EXCEPT ![r] = None]
        /\ robotsMember' = robotsMember \cup {g}
        /\ UNCHANGED <<bot, home, voice, dirty, unseen, wrongly>>
    BY <1>6, <2>0 DEF Robots!Installed, Robots!Doing, Robots!Ends, Robots!room, Robots!calls
  <2>2. ghost' = (ghost \/ ~ Robots!Exists)
    BY <1>6 DEF Robots!Installed
  <2>3. bot \in {"there", "deleted"} /\ (home = None \/ g = home) /\ g \in Two
    BY <1>1, <2>0, <2>1 DEF AtHome
  <2>4. Robots!Kicking => \E q \in Requests : q # r /\ Robots!Doing(q, "kicks")
    BY <2>1 DEF Robots!Kicking, Robots!Doing
  <2>5. ghost' \in BOOLEAN /\ (bot' = "deleted" => ghost')
    BY <2>1, <2>2, Zenon DEF Robots!Exists
  <2> QED
    BY <1>2, <2>1, <2>3, <2>4, <2>5, RobotsHandle DEF RobotsTyped
<1>7. ASSUME NEW r \in Requests, Robots!Uninstalled(r) PROVE Rest
  <2>0. PICK g, new : g = robotsRequest[r].of /\ new = [robotsRequest[r] EXCEPT !.step = "kicks"]
    OBVIOUS
  <2>1. /\ robotsRequest[r] # None /\ robotsRequest[r].step = "uninstall"
        /\ robotsRequest' = [robotsRequest EXCEPT ![r].step = "kicks"]
        /\ robotsMember' = robotsMember \ {g}
        /\ UNCHANGED <<bot, home, voice, dirty, wrongly, ghost>>
    BY <1>7, <2>0 DEF Robots!Uninstalled, Robots!Doing, Robots!Goes, Robots!calls
  <2>2. unseen' = (unseen \/ Robots!Entering({g}))
    BY <1>7, <2>0 DEF Robots!Uninstalled
  <2>3. robotsRequest' = [robotsRequest EXCEPT ![r] = new]
    BY <2>0, <2>1, Zenon
  <2>4. new \in RobotSlot \cup {None} /\ (new # None => new.step = "kicks")
    BY <1>4, <2>0, <2>1, <2>3
  <2>5. new # None
    <3>1. robotsRequest[r] \in RobotSlot
      BY <1>2, <2>1
    <3>2. new \in RobotSlot
      BY <2>0, <3>1 DEF RobotSlot
    <3> QED
      BY <3>2
  <2>6. unseen' \in BOOLEAN
    BY <2>2, Zenon DEF Robots!Entering, RobotsTyped
  <2>7. \A q \in Requests : Robots!Doing(q, "join") =>
          robotsRequest[q].of \in robotsMember' \/ unseen'
    BY <1>2, <2>1, <2>2 DEF Robots!Entering
  <2>8. bot \in {"there", "deleted"}
    BY <1>1, <2>1
  <2> QED
    BY <1>2, <2>1, <2>3, <2>4, <2>5, <2>6, <2>7, <2>8, RobotsHandle DEF RobotsTyped, DeletedIsOut
\* CAPS_DIRTY goes out for the guild of the seat.
<1>8. ASSUME NEW r \in Requests, Robots!Kicked(r) \/ Robots!KickedBefore(r) PROVE Rest
  <2>1. PICK new : new = IF Robots!Kicked(r) THEN None
                         ELSE [robotsRequest[r] EXCEPT !.step = "delete"]
    OBVIOUS
  <2>2. /\ robotsRequest[r] # None
        /\ robotsRequest[r].step = "kicks" \/ Robots!Doing(r, "kick")
        /\ dirty' = IF voice = None THEN dirty ELSE dirty \cup {voice}
        /\ UNCHANGED <<bot, home, robotsMember, voice, unseen, wrongly, ghost>>
        /\ Robots!Kicked(r) \/ Robots!Doing(r, "kick")
    BY <1>8 DEF Robots!Kicked, Robots!KickedBefore, Robots!KickBotVoiceSessions, Robots!Doing,
                Robots!data, Robots!calls
  <2>3. robotsRequest' = [robotsRequest EXCEPT ![r] = new]
    <3>1. CASE Robots!Kicked(r)
      BY <2>1, <3>1 DEF Robots!Kicked, Robots!Ends
    <3>2. CASE ~ Robots!Kicked(r)
      <4>1. robotsRequest' = [robotsRequest EXCEPT ![r].step = "delete"]
        BY <1>8, <3>2 DEF Robots!KickedBefore, Robots!Goes
      <4> QED
        BY <2>1, <3>2, <4>1, Zenon
    <3> QED
      BY <3>1, <3>2
  <2>4. /\ new \in RobotSlot \cup {None}
        /\ new # None => new.step = "delete" /\ new.of = robotsRequest[r].of
    <3>1. CASE Robots!Kicked(r)
      BY <2>1, <3>1
    <3>2. CASE ~ Robots!Kicked(r)
      <4>1. new = [robotsRequest[r] EXCEPT !.step = "delete"]
        BY <2>1, <3>2
      <4> QED
        BY <1>4, <2>2, <2>3, <4>1
    <3> QED
      BY <3>1, <3>2
  <2>5. new # None => new.of \in {None, home}
    <3>1. new # None => Robots!Doing(r, "kick")
      BY <2>1, <2>2
    <3> QED
      BY <2>4, <3>1 DEF AtHome
  <2>6. dirty' \subseteq Two /\ (voice' = None \/ voice' \in dirty')
    BY <2>2 DEF RobotsTyped
  <2>7. bot \in {"there", "deleted"}
    BY <1>1, <2>2
  <2> QED
    BY <1>2, <2>2, <2>3, <2>4, <2>5, <2>6, <2>7, RobotsHandle DEF RobotsTyped, DeletedIsOut
<1>9. ASSUME NEW r \in Requests, Robots!Deleted(r) PROVE Rest
  <2>0. PICK lost : lost = IF robotsRequest[r].of = None THEN robotsMember ELSE {robotsRequest[r].of}
    OBVIOUS
  <2>1. /\ Robots!Doing(r, "delete") /\ robotsRequest[r] # None
        /\ robotsRequest[r].step = "delete"
        /\ robotsRequest' = [robotsRequest EXCEPT ![r] = None]
        /\ robotsMember' = robotsMember \ lost /\ bot' = "deleted"
        /\ UNCHANGED <<home, voice, dirty, wrongly, ghost>>
    BY <1>9, <2>0 DEF Robots!Deleted, Robots!Doing, Robots!Ends, Robots!calls
  <2>2. unseen' = (unseen \/ Robots!Entering(lost) \/ voice \in lost \ dirty)
    BY <1>9, <2>0 DEF Robots!Deleted
  <2>3. robotsMember' = {}
    <3>1. robotsRequest[r].of \in {None, home}
      BY <2>1 DEF AtHome
    <3> QED
      BY <1>2, <2>0, <2>1, <3>1
  <2>4. unseen' \in BOOLEAN
    BY <2>2, Zenon DEF Robots!Entering, RobotsTyped
  <2>5. \A q \in Requests : Robots!Doing(q, "join") =>
          robotsRequest[q].of \in robotsMember' \/ unseen'
    BY <1>2, <2>1, <2>2 DEF Robots!Entering
  <2>6. \/ voice' = None \/ voice' \in robotsMember' \cup dirty' \/ unseen'
        \/ \E q \in Requests : q # r /\ Robots!Doing(q, "kicks")
    BY <1>2, <2>1, <2>2 DEF Robots!Kicking, Robots!Doing
  <2>7. bot \in {"there", "deleted"}
    BY <1>1, <2>1
  <2> QED
    BY <1>2, <2>1, <2>3, <2>4, <2>5, <2>6, <2>7, RobotsHandle DEF RobotsTyped
<1>10. ASSUME NEW r \in Requests, Robots!Allow(r) PROVE Rest
  <2>1. PICK new : new = IF Robots!BotFound /\ ~ Robots!Refilled < 1
                         THEN [robotsRequest[r] EXCEPT !.step = "call"] ELSE None
    OBVIOUS
  <2>2. /\ Robots!Doing(r, "resolve") /\ robotsRequest[r] # None
        /\ robotsRequest[r].step = "resolve"
        /\ UNCHANGED <<bot, home, robotsMember, voice, dirty, unseen, ghost>>
    BY <1>10 DEF Robots!Allow, Robots!Doing, Robots!data, Robots!room
  <2>3. robotsRequest' = [robotsRequest EXCEPT ![r] = new]
    <3>1. CASE Robots!BotFound /\ ~ Robots!Refilled < 1
      <4>1. robotsRequest' = [robotsRequest EXCEPT ![r].step = "call"]
        BY <1>10, <3>1 DEF Robots!Allow, Robots!Goes
      <4> QED
        BY <2>1, <3>1, <4>1, Zenon
    <3>2. CASE ~ (Robots!BotFound /\ ~ Robots!Refilled < 1)
      <4>1. robotsRequest' = [robotsRequest EXCEPT ![r] = None]
        BY <1>10, <3>2 DEF Robots!Allow, Robots!Ends
      <4> QED
        BY <2>1, <3>2, <4>1
    <3> QED
      BY <3>1, <3>2
  <2>4. new \in RobotSlot \cup {None} /\ (new # None => new.step = "call")
    <3>1. new = None \/ new = [robotsRequest[r] EXCEPT !.step = "call"]
      BY <2>1
    <3> QED
      BY <1>4, <2>2, <2>3, <3>1
  <2>5. wrongly' = FALSE
    <3>1. wrongly' = wrongly \/ (Robots!Exists /\ wrongly' = (wrongly \/ robotsRequest[r].late))
      BY <1>10 DEF Robots!Allow, Robots!BotFound
    <3>2. Robots!Exists => ~ robotsRequest[r].late
      BY <2>2 DEF LateIsDeleted, Robots!Exists
    <3> QED
      BY <1>2, <3>1, <3>2, Zenon
  <2>6. Robots!Kicking => \E q \in Requests : q # r /\ Robots!Doing(q, "kicks")
    BY <2>2 DEF Robots!Kicking, Robots!Doing
  <2>7. bot \in {"there", "deleted"}
    BY <1>1, <2>2
  <2> QED
    BY <1>2, <2>2, <2>3, <2>4, <2>5, <2>6, <2>7, RobotsHandle DEF RobotsTyped, DeletedIsOut
<1>11. ASSUME NEW r \in Requests, NEW g \in Two, Robots!JoinVoice(r, g) PROVE Rest
  <2>0. PICK new : new = Robots!Slot("join", g, FALSE)
    OBVIOUS
  <2>1. /\ robotsRequest[r] # None /\ robotsRequest[r].step = "call" /\ g \in robotsMember
        /\ robotsRequest' = [robotsRequest EXCEPT ![r] = new]
        /\ UNCHANGED <<bot, home, robotsMember, voice, dirty, unseen, wrongly, ghost>>
    BY <1>11, <2>0 DEF Robots!JoinVoice, Robots!Doing, Robots!data, Robots!room, Robots!calls
  <2>2. new \in RobotSlot /\ new.step = "join" /\ new.of = g
    BY <2>0 DEF Robots!Slot, RobotSlot
  <2>3. Robots!Kicking => \E q \in Requests : q # r /\ Robots!Doing(q, "kicks")
    BY <2>1 DEF Robots!Kicking, Robots!Doing
  <2>4. bot \in {"there", "deleted"}
    BY <1>1, <2>1
  <2> QED
    BY <1>2, <2>1, <2>2, <2>3, <2>4, RobotsHandle DEF RobotsTyped, DeletedIsOut
<1>12. ASSUME NEW r \in Requests, Robots!Joined(r) PROVE Rest
  <2>0. PICK g : g = robotsRequest[r].of
    OBVIOUS
  <2>1. /\ Robots!Doing(r, "join") /\ robotsRequest[r] # None /\ robotsRequest[r].step = "join"
        /\ robotsRequest' = [robotsRequest EXCEPT ![r] = None] /\ voice' = g
        /\ UNCHANGED <<bot, home, robotsMember, dirty, unseen, wrongly, ghost>>
    BY <1>12, <2>0 DEF Robots!Joined, Robots!Doing, Robots!Ends, Robots!data, Robots!calls
  <2>2. g \in Two \cup {None} /\ (g \in robotsMember \/ unseen)
    BY <1>2, <2>0, <2>1 DEF RobotSlot
  <2>3. bot \in {"there", "deleted"}
    BY <1>1, <2>1
  <2> QED
    BY <1>2, <2>1, <2>2, <2>3, RobotsHandle DEF RobotsTyped, DeletedIsOut
\* What no handler does.
<1>13. ASSUME robotsRequest' = robotsRequest, UNCHANGED <<unseen, wrongly, ghost>>,
              \/ UNCHANGED <<bot, home, token, robotsMember, voice, dirty>>
              \/ /\ bot = "new" /\ bot' = "there" /\ home' \in Two \cup {None}
                 /\ robotsMember' \in {{}, {home'}} /\ robotsMember' \subseteq Two
                 /\ UNCHANGED <<voice, dirty>>
              \/ bot # "new" /\ UNCHANGED <<bot, home, robotsMember, voice, dirty>>
              \/ /\ UNCHANGED <<bot, home, token, robotsMember>> /\ dirty' \subseteq dirty
                 /\ voice' \in {None, voice}
                 /\ voice' = None \/ voice' \in robotsMember \/ (voice' \in dirty => voice' \in dirty')
       PROVE  Rest
  <2>1. RobotsTyped'
    BY <1>13 DEF RobotsTyped
  <2>2. NewIsEmpty' /\ DeletedIsOut'
    BY <1>13 DEF NewIsEmpty, DeletedIsOut
  <2>3. AtHome' /\ LateIsDeleted'
    BY <1>13 DEF AtHome, LateIsDeleted, NewIsEmpty, Robots!Doing
  <2>4. SeatIsCovered'
    BY <1>13 DEF SeatIsCovered, NewIsEmpty, Robots!Kicking, Robots!Doing
  <2> QED
    BY <2>1, <2>2, <2>3, <2>4
<1>14. ASSUME \/ Robots!CreateBot \/ \E g \in Two : Robots!CreateGuildBot(g)
              \/ Robots!Tick \/ Robots!LeaveVoice
              \/ \E t \in Two : Robots!RevokeToken(t) \/ Robots!Expires(t)
              \/ \E g \in Two : Robots!Recompute(g)
              \/ UNCHANGED robotsVars
       PROVE  Rest
  <2>1. ASSUME NEW g \in Two \cup {None}, NEW guilds \in {{}, {g}}, guilds \subseteq Two,
               Robots!Created(g, guilds)
        PROVE  Rest
    BY <1>13, <2>1 DEF Robots!Created, Robots!room, Robots!calls
  <2>2. CASE Robots!CreateBot
    BY <2>1, <2>2 DEF Robots!CreateBot
  <2>3. ASSUME NEW g \in Two, Robots!CreateGuildBot(g) PROVE Rest
    BY <2>1, <2>3 DEF Robots!CreateGuildBot
  <2>4. CASE Robots!Tick \/ UNCHANGED robotsVars
    BY <1>13, <2>4 DEF Robots!Tick, Robots!data, Robots!room, robotsVars
  <2>5. CASE Robots!LeaveVoice
    BY <1>13, <2>5 DEF Robots!LeaveVoice, Robots!data, Robots!calls
  <2>6. ASSUME NEW t \in Two, Robots!RevokeToken(t) \/ Robots!Expires(t) PROVE Rest
    <3>1. bot # "new"
      BY <2>6 DEF Robots!RevokeToken, Robots!Expires, Robots!Exists, NewIsEmpty
    <3> QED
      BY <1>13, <2>6, <3>1 DEF Robots!RevokeToken, Robots!Expires, Robots!room, Robots!calls
  <2>7. ASSUME NEW g \in Two, Robots!Recompute(g) PROVE Rest
    BY <1>13, <2>7 DEF Robots!Recompute, Robots!data, Robots!calls
  <2> QED
    BY <1>14, <2>2, <2>3, <2>4, <2>5, <2>6, <2>7
<1>15. ASSUME NEW r \in Requests,
              \/ \E t \in Two : Robots!CreateToken(r, t) \/ Robots!ResolveToken(r, t)
              \/ \E g \in Two : \/ Robots!InstallBot(r, g) \/ Robots!UninstallBot(r, g)
                                \/ Robots!DeleteGuildBot(r, g)
              \/ Robots!DeleteBot(r)
       PROVE  Rest
  <2> USE DEF Robots!data, Robots!room, Robots!calls, Robots!Exists
  <2>1. ASSUME NEW t \in Two, Robots!CreateToken(r, t) PROVE Rest
    BY <1>3, <2>1 DEF Robots!CreateToken
  <2>2. ASSUME NEW t \in Two, Robots!ResolveToken(r, t) PROVE Rest
    <3>1. bot \in {"there", "deleted"}
      BY <2>2 DEF Robots!ResolveToken, Robots!Usable, NewIsEmpty, RobotsTyped
    <3>2. PICK late : late = (bot = "deleted")
      OBVIOUS
    <3>3. late \in BOOLEAN
      BY <3>2
    <3>4. Robots!Begins(r, "resolve", t, late) /\ (late => bot = "deleted")
      BY <2>2, <3>2 DEF Robots!ResolveToken
    <3> QED
      BY <1>3, <2>2, <3>1, <3>3, <3>4 DEF Robots!ResolveToken
  <2>3. ASSUME NEW g \in Two, Robots!InstallBot(r, g) PROVE Rest
    BY <1>3, <2>3 DEF Robots!InstallBot, Robots!MayInstall
  <2>4. ASSUME NEW g \in Two, Robots!UninstallBot(r, g) PROVE Rest
    BY <1>3, <2>4 DEF Robots!UninstallBot
  <2>5. ASSUME NEW g \in Two, Robots!DeleteGuildBot(r, g) PROVE Rest
    BY <1>3, <2>5 DEF Robots!DeleteGuildBot
  <2>6. CASE Robots!DeleteBot(r)
    BY <1>3, <2>6 DEF Robots!DeleteBot
  <2> QED
    BY <1>15, <2>1, <2>2, <2>3, <2>4, <2>5, <2>6
<1>16. Robots!Next \/ UNCHANGED robotsVars
  BY DEF Next, vars
<1>17. Rest
  <2>1. CASE UNCHANGED robotsVars
    BY <1>14, <2>1
  <2>2. CASE Robots!Next
    <3>1. ASSUME NEW g \in Two, NEW t \in Two, Robots!RevokeGuildBotToken(g, t) PROVE Rest
      BY <1>14, <3>1 DEF Robots!RevokeGuildBotToken
    <3>2. ASSUME NEW r \in Requests,
                 \/ \E t \in Two : Robots!CreateToken(r, t) \/ Robots!ResolveToken(r, t)
                 \/ \E g \in Two :
                      \/ Robots!InstallBot(r, g) \/ Robots!UninstallBot(r, g)
                      \/ Robots!DeleteGuildBot(r, g) \/ Robots!JoinVoice(r, g)
                 \/ Robots!TokenWritten(r) \/ Robots!Installed(r) \/ Robots!Uninstalled(r)
                 \/ Robots!Kicked(r) \/ Robots!DeleteBot(r) \/ Robots!KickedBefore(r)
                 \/ Robots!Deleted(r) \/ Robots!Allow(r) \/ Robots!Joined(r) \/ Robots!Answered(r)
          PROVE  Rest
      BY <1>5, <1>6, <1>7, <1>8, <1>9, <1>10, <1>11, <1>12, <1>15, <3>2
    <3> QED
      BY <1>14, <2>2, <3>1, <3>2 DEF Robots!Next
  <2> QED
    BY <1>16, <2>1, <2>2
<1>18. LimitHolds'
  <2>1. \/ UNCHANGED <<robotsBucket, filled, now, served>>
        \/ Robots!Tick
        \/ \E r \in Requests : Robots!Allow(r)
    BY <1>16 DEF Robots!Next, Robots!CreateBot, Robots!CreateGuildBot, Robots!Created,
       Robots!LeaveVoice, Robots!RevokeToken, Robots!RevokeGuildBotToken, Robots!Expires,
       Robots!Recompute, Robots!CreateToken, Robots!ResolveToken, Robots!InstallBot,
       Robots!UninstallBot, Robots!DeleteGuildBot, Robots!JoinVoice, Robots!TokenWritten,
       Robots!Installed, Robots!Uninstalled, Robots!Kicked, Robots!DeleteBot,
       Robots!KickedBefore, Robots!Deleted, Robots!Joined, Robots!Answered,
       Robots!KickBotVoiceSessions, Robots!calls, robotsVars
  <2> QED
    BY <2>1, LimitNext
<1> QED
  BY <1>17, <1>18

\* From the bound at the last filling to the bound now.
LEMMA RobotsHold == RobotsInv => Robots!BotsAreTrue
<1> SUFFICES ASSUME RobotsInv PROVE Robots!BotsAreTrue
  OBVIOUS
<1> USE DEF RobotsInv
<1>1. \A t \in 0 .. now : served[t] <= Burst + Rate * (now - t)
  <2> SUFFICES ASSUME NEW t \in 0 .. now PROVE served[t] <= Burst + Rate * (now - t)
    OBVIOUS
  <2> USE BoundsAreNumbers
  <2>1. /\ now \in Nat /\ filled \in Nat /\ now <= MaxTime /\ filled <= now
        /\ robotsBucket \in Nat /\ t \in 0 .. MaxTime /\ t \in Nat
    BY DEF LimitHolds
  <2>2. served[t] \in Nat /\ now - t \in Nat
    BY <2>1 DEF LimitHolds
  <2>3. CASE t > filled
    <3>1. served[t] = 0
      BY <2>1, <2>3 DEF LimitHolds
    <3>2. PICK y : y = Rate * (now - t)
      OBVIOUS
    <3>3. y \in Nat
      BY <2>2, <3>2
    <3> QED
      BY <3>1, <3>2, <3>3
  <2>4. CASE t <= filled
    <3>1. PICK x, y, z : x = Rate * (filled - t) /\ y = Rate * (now - t) /\ z = Rate * (now - filled)
      OBVIOUS
    <3>2. filled - t \in Nat /\ now - filled \in Nat
      BY <2>1, <2>4
    <3>3. x \in Nat /\ z \in Nat /\ y = x + z
      BY <2>1, <3>1, <3>2
    <3>4. served[t] + robotsBucket <= Burst + x
      BY <2>1, <2>4, <3>1 DEF LimitHolds
    <3>5. served[t] <= Burst + y
      BY <2>1, <2>2, <3>3, <3>4
    <3> QED
      BY <3>1, <3>5
  <2> QED
    BY <2>1, <2>3, <2>4
<1>2. bot = "deleted" => ghost \/ robotsMember = {}
  BY DEF DeletedIsOut
<1>3. ~ wrongly /\ (Robots!Exists => home = None \/ robotsMember \subseteq {home})
  BY DEF LateIsDeleted, AtHome
<1>4. voice = None \/ voice \in robotsMember \cup dirty \/ Robots!Kicking \/ unseen
  BY DEF SeatIsCovered
<1> QED
  BY <1>1, <1>2, <1>3, <1>4 DEF Robots!BotsAreTrue

(* What an agent may do, somebody agreed to, and a code gives one token;   *)
(* a deleted bot is in no guild and gets no call through, a bot of a guild *)
(* stays at home, one that lost its guild leaves the channel, and the      *)
(* limiter keeps its rate: oauth and botapi as they are interleaved.       *)
THEOREM MachinesHold == Spec => []MachinesAreHeld
<1> DEFINE Machines == AgentsInv /\ RobotsInv
<1>1. Init => Machines
  BY AgentsInit, RobotsInit
<1>2. Machines /\ [Next]_vars => Machines'
  BY AgentsNext, RobotsNext
<1>3. Machines => MachinesAreHeld
  BY AgentsHold, RobotsHold DEF MachinesAreHeld
<1> QED
  BY <1>1, <1>2, <1>3, PTL DEF Spec

-----------------------------------------------------------------------------
(* Two users among themselves. *)

RowTypes == {None, "pending", "friend", "blocked"}

\* No row of a friend without the other.
Mutual(new) == (\A u \in Two : new[u] = "friend") \/ (\A u \in Two : new[u] # "friend")

FriendsTyped ==
  /\ rows \in [Two -> RowTypes]
  /\ friendsRequest \in [Requests -> FriendSlot \cup {None}]
  /\ dms \in {0, 1}
  /\ asked \in [Two -> BOOLEAN] /\ wrote \in [Two -> BOOLEAN]
  /\ revived \in BOOLEAN

\* The request a handler will drop is still a request, if it is there at all.
DropsPending ==
  \A r \in Requests : Friends!Doing(r, "pending") /\ friendsRequest[r].kept =>
    rows[friendsRequest[r].row] = "pending"

\* Whoever writes, or is about to, has a conversation and accepted it.
WritersAccepted ==
  /\ \A u \in Two : wrote[u] => dms > 0 /\ ~ asked[u]
  /\ \A r \in Requests : Friends!Doing(r, "send") => dms > 0 /\ ~ asked[friendsRequest[r].user]

FriendsInv ==
  FriendsTyped /\ DropsPending /\ WritersAccepted /\ (revived \/ Mutual(rows))

LEMMA OtherOfTwo ==
  ASSUME NEW u \in Two
  PROVE  Friends!Other(u) \in Two /\ Friends!Other(u) # u /\ \A v \in Two : v = u \/ v = Friends!Other(u)
<1>1. \E v \in Two : v # u
  BY TwoAreTwo
<1>2. Friends!Other(u) \in Two /\ Friends!Other(u) # u
  BY <1>1 DEF Friends!Other
<1> QED
  BY <1>2, TwoAreTwo

LEMMA FriendsInit == Init => FriendsInv
<1> SUFFICES ASSUME Init PROVE FriendsInv
  OBVIOUS
<1> USE NoneIsNoValue DEF Init, Friends!Init
<1>1. rows \in [Two -> RowTypes] /\ \A u \in Two : rows[u] = None
  BY DEF RowTypes
<1>2. friendsRequest \in [Requests -> FriendSlot \cup {None}]
  BY Zenon
<1>3. asked \in [Two -> BOOLEAN] /\ wrote \in [Two -> BOOLEAN] /\ revived \in BOOLEAN
  BY Zenon
<1>4. FriendsTyped
  BY <1>1, <1>2, <1>3 DEF FriendsTyped
<1>5. DropsPending /\ WritersAccepted /\ Mutual(rows)
  BY <1>1 DEF DropsPending, WritersAccepted, Mutual, Friends!Doing
<1> QED
  BY <1>4, <1>5 DEF FriendsInv

\* The rows become new: each request is as it was, holds a row no more, or ends.
LEMMA RowsChange ==
  ASSUME FriendsInv, NEW new \in [Two -> RowTypes],
         NEW requests, requests \in [Requests -> FriendSlot \cup {None}],
         \A q \in Requests : requests[q] \in {None, friendsRequest[q]},
         Friends!Rows(new, requests), UNCHANGED <<dms, asked, wrote>>,
         revived' \in BOOLEAN, revived' \/ Mutual(new)
  PROVE  FriendsInv'
<1> USE NoneIsNoValue DEF FriendsInv
<1>1. rows' = new
  BY DEF Friends!Rows
<1>2. ASSUME NEW q \in Requests
      PROVE  /\ friendsRequest'[q] \in FriendSlot \cup {None}
             /\ friendsRequest'[q] # None =>
                  /\ friendsRequest[q] # None
                  /\ friendsRequest'[q].step = friendsRequest[q].step
                  /\ friendsRequest'[q].user = friendsRequest[q].user
                  /\ friendsRequest'[q].row = friendsRequest[q].row
                  /\ friendsRequest'[q].kept =>
                       friendsRequest[q].kept
                       /\ new[friendsRequest[q].row] = rows[friendsRequest[q].row]
  <2>1. PICK s, l : s = friendsRequest[q] /\ l = [s EXCEPT !.kept = FALSE]
    OBVIOUS
  <2>2. friendsRequest'[q] = IF requests[q] # None /\ new[requests[q].row] # rows[requests[q].row]
                             THEN [requests[q] EXCEPT !.kept = FALSE] ELSE requests[q]
    BY DEF Friends!Rows
  <2>3. CASE requests[q] = None
    BY <2>2, <2>3
  <2>4. CASE requests[q] # None
    <3>1. requests[q] = s /\ s # None /\ s \in FriendSlot
      BY <2>1, <2>4
    <3>2. CASE new[s.row] # rows[s.row]
      <4>1. friendsRequest'[q] = l
        BY <2>1, <2>2, <2>4, <3>1, <3>2
      <4>2. /\ l \in FriendSlot /\ l.step = s.step /\ l.user = s.user /\ l.row = s.row
            /\ l.kept = FALSE
        BY <2>1, <3>1 DEF FriendSlot
      <4> QED
        BY <2>1, <3>1, <4>1, <4>2
    <3>3. CASE new[s.row] = rows[s.row]
      BY <2>1, <2>2, <2>4, <3>1, <3>3
    <3> QED
      BY <3>2, <3>3
  <2> QED
    BY <2>3, <2>4
<1>3. friendsRequest' \in [Requests -> FriendSlot \cup {None}]
  <2>1. PICK f : f = friendsRequest'
    OBVIOUS
  <2>2. f = [q \in Requests |-> f[q]]
    BY <2>1 DEF Friends!Rows
  <2>3. \A q \in Requests : f[q] \in FriendSlot \cup {None}
    BY <1>2, <2>1
  <2> QED
    BY <2>1, <2>2, <2>3
<1>4. FriendsTyped'
  BY <1>1, <1>3 DEF FriendsTyped
<1>5. DropsPending'
  BY <1>1, <1>2 DEF DropsPending, Friends!Doing
<1>6. WritersAccepted'
  BY <1>2 DEF WritersAccepted, Friends!Doing
<1>7. revived' \/ Mutual(rows)'
  BY <1>1 DEF Mutual
<1> QED
  BY <1>4, <1>5, <1>6, <1>7

\* The request r becomes new, or ends, and no row changes.
LEMMA RowsStay ==
  ASSUME FriendsInv, NEW r \in Requests, NEW new \in FriendSlot \cup {None},
         friendsRequest' = [friendsRequest EXCEPT ![r] = new],
         UNCHANGED <<rows, revived>>,
         dms' \in {0, 1}, dms > 0 => dms' > 0,
         asked' \in [Two -> BOOLEAN], wrote' \in [Two -> BOOLEAN],
         \A u \in Two : wrote'[u] => dms' > 0 /\ ~ asked'[u],
         dms > 0 => \A u \in Two : asked'[u] => asked[u],
         new # None =>
           /\ new.step = "pending" => rows[new.row] = "pending"
           /\ new.step = "send" => dms' > 0 /\ ~ asked'[new.user]
  PROVE  FriendsInv'
<1> USE NoneIsNoValue DEF FriendsInv
<1>1. /\ friendsRequest' \in [Requests -> FriendSlot \cup {None}] /\ friendsRequest'[r] = new
      /\ \A q \in Requests : q # r => friendsRequest'[q] = friendsRequest[q]
  BY Zenon DEF FriendsTyped
<1>2. FriendsTyped'
  BY <1>1 DEF FriendsTyped
<1>3. DropsPending'
  BY <1>1 DEF DropsPending, Friends!Doing
<1>4. WritersAccepted'
  <2> SUFFICES ASSUME NEW q \in Requests, Friends!Doing(q, "send")'
               PROVE  dms' > 0 /\ ~ asked'[friendsRequest'[q].user]
    BY DEF WritersAccepted
  <2>1. CASE q = r
    BY <1>1, <2>1 DEF Friends!Doing
  <2>2. CASE q # r
    <3>1. friendsRequest'[q] = friendsRequest[q] /\ Friends!Doing(q, "send")
      BY <1>1, <2>2 DEF Friends!Doing
    <3>2. friendsRequest[q].user \in Two
      BY <3>1 DEF FriendsTyped, Friends!Doing, FriendSlot
    <3> QED
      BY <3>1, <3>2 DEF WritersAccepted
  <2> QED
    BY <2>1, <2>2
<1>5. revived' \/ Mutual(rows)'
  BY DEF Mutual
<1> QED
  BY <1>2, <1>3, <1>4, <1>5

LEMMA MutualRows ==
  ASSUME FriendsInv
  PROVE  /\ \A types : /\ Friends!Without(types) \in [Two -> RowTypes]
                       /\ "friend" \in types => Mutual(Friends!Without(types))
         /\ \A left : /\ Friends!Befriended(left) \in [Two -> RowTypes]
                      /\ revived \/ Mutual(Friends!Befriended(left))
         /\ \A u \in Two : /\ Friends!Blocked(u) \in [Two -> RowTypes]
                           /\ Mutual(Friends!Blocked(u))
<1> USE NoneIsNoValue DEF FriendsInv
<1>1. ASSUME NEW types
      PROVE  /\ Friends!Without(types) \in [Two -> RowTypes]
             /\ \A u \in Two : Friends!Without(types)[u] = IF rows[u] \in types THEN None ELSE rows[u]
  BY DEF Friends!Without, FriendsTyped, RowTypes
<1>2. ASSUME NEW types, "friend" \in types PROVE Mutual(Friends!Without(types))
  BY <1>1, <1>2 DEF Mutual
<1>3. ASSUME NEW left
      PROVE  /\ Friends!Befriended(left) \in [Two -> RowTypes]
             /\ revived \/ Mutual(Friends!Befriended(left))
  BY DEF Friends!Befriended, Friends!Both, FriendsTyped, Mutual, RowTypes
<1>4. ASSUME NEW u \in Two
      PROVE  Friends!Blocked(u) \in [Two -> RowTypes] /\ Mutual(Friends!Blocked(u))
  <2>1. PICK w : w = Friends!Without({"friend", "pending"})
    OBVIOUS
  <2>2. w \in [Two -> RowTypes] /\ \A v \in Two : w[v] # "friend"
    BY <1>1, <2>1
  <2>3. Friends!Blocked(u) = [w EXCEPT ![u] = "blocked"]
    BY <2>1 DEF Friends!Blocked
  <2>4. "blocked" \in RowTypes
    BY DEF RowTypes
  <2>5. Friends!Blocked(u) \in [Two -> RowTypes]
    BY <2>2, <2>3, <2>4, Zenon
  <2>6. \A v \in Two : Friends!Blocked(u)[v] # "friend"
    BY <2>2, <2>3
  <2> QED
    BY <2>5, <2>6 DEF Mutual
<1> QED
  BY <1>1, <1>2, <1>3, <1>4

LEMMA FriendsNext == FriendsInv /\ [Next]_vars => FriendsInv'
<1> SUFFICES ASSUME FriendsInv, [Next]_vars PROVE FriendsInv'
  OBVIOUS
<1> USE NoneIsNoValue DEF FriendsInv
<1>1. CASE UNCHANGED friendsVars
  BY <1>1 DEF friendsVars, FriendsTyped, DropsPending, WritersAccepted, Mutual, Friends!Doing
\* A handler that writes rows ends.
<1>2. ASSUME NEW r \in Requests, NEW step, Friends!Doing(r, step)
      PROVE  /\ Friends!Done(r) \in [Requests -> FriendSlot \cup {None}]
             /\ \A q \in Requests : Friends!Done(r)[q] \in {None, friendsRequest[q]}
             /\ friendsRequest[r] \in FriendSlot /\ friendsRequest[r].user \in Two
             /\ friendsRequest[r].row \in Two
  <2>1. Friends!Done(r) \in [Requests -> FriendSlot \cup {None}]
    BY Zenon DEF Friends!Done, FriendsTyped
  <2>2. \A q \in Requests : Friends!Done(r)[q] \in {None, friendsRequest[q]}
    BY DEF Friends!Done, FriendsTyped
  <2>3. friendsRequest[r] \in FriendSlot
    BY <1>2 DEF FriendsTyped, Friends!Doing
  <2> QED
    BY <2>1, <2>2, <2>3 DEF FriendSlot
<1>3. ASSUME NEW r \in Requests, NEW step, Friends!Doing(r, step),
             NEW new \in [Two -> RowTypes], Friends!Rows(new, Friends!Done(r)),
             UNCHANGED <<dms, asked, wrote>>, revived' \in BOOLEAN, revived' \/ Mutual(new)
      PROVE  FriendsInv'
  BY <1>2, <1>3, RowsChange, Zenon
<1>4. rows \in [Two -> RowTypes] /\ revived \in BOOLEAN
  BY Zenon DEF FriendsTyped
\* One that begins has read what it will write by.
<1>5. ASSUME NEW r \in Requests, NEW u \in Two, NEW w \in Two, NEW flag \in BOOLEAN,
             NEW step \in {"ask", "promote", "pending", "friend", "blocked", "nickname", "open", "send"},
             Friends!Begins(r, step, u, w, flag), UNCHANGED <<rows, dms, wrote, revived>>,
             asked' = asked \/ asked' = [asked EXCEPT ![u] = FALSE],
             step = "pending" => rows[w] = "pending",
             step = "send" => dms > 0 /\ ~ asked'[u]
      PROVE  FriendsInv'
  <2>1. PICK new : new = [step |-> step, user |-> u, row |-> w, kept |-> TRUE, flag |-> flag]
    OBVIOUS
  <2>2. new \in FriendSlot /\ new.step = step /\ new.user = u /\ new.row = w
    BY <2>1 DEF FriendSlot
  <2>3. friendsRequest' = [friendsRequest EXCEPT ![r] = new]
    BY <1>5, <2>1 DEF Friends!Begins
  <2>4. asked' \in [Two -> BOOLEAN] /\ wrote' \in [Two -> BOOLEAN]
    BY <1>5, Zenon DEF FriendsTyped
  <2>5. \A v \in Two : asked'[v] => asked[v]
    BY <1>5 DEF FriendsTyped
  <2>6. \A v \in Two : wrote'[v] => dms' > 0 /\ ~ asked'[v]
    BY <1>5, <2>5 DEF WritersAccepted
  <2>7. dms' \in {0, 1} /\ (dms > 0 => dms' > 0)
    BY <1>5 DEF FriendsTyped
  <2>8. new # None =>
           /\ new.step = "pending" => rows[new.row] = "pending"
           /\ new.step = "send" => dms' > 0 /\ ~ asked'[new.user]
    BY <1>5, <2>2
  <2> QED
    BY <1>5, <2>2, <2>3, <2>4, <2>5, <2>6, <2>7, <2>8, RowsStay
<1>6. ASSUME NEW r \in Requests, NEW u \in Two,
             \/ Friends!PostRelationship(r, u) \/ Friends!AcceptFriend(r, u)
             \/ Friends!DeleteRelationship(r, u) \/ Friends!PatchRelationship(r, u)
      PROVE  FriendsInv'
  <2> USE DEF Friends!dm
  <2>1. Friends!Other(u) \in Two
    BY OtherOfTwo
  <2>2. CASE Friends!PostRelationship(r, u)
    <3>1. PICK step : step = IF rows[Friends!Other(u)] = "pending" THEN "promote" ELSE "ask"
      OBVIOUS
    <3>2. step \in {"ask", "promote"}
      BY <3>1
    <3>3. Friends!Begins(r, step, u, u, FALSE) /\ UNCHANGED <<rows, dms, asked, wrote, revived>>
      BY <2>2, <3>1 DEF Friends!PostRelationship
    <3> QED
      BY <1>5, <3>2, <3>3
  <2>3. CASE Friends!AcceptFriend(r, u)
    BY <1>5, <2>1, <2>3 DEF Friends!AcceptFriend
  <2>4. CASE Friends!DeleteRelationship(r, u)
    <3>1. UNCHANGED <<rows, dms, asked, wrote, revived>>
      BY <2>4 DEF Friends!DeleteRelationship
    <3>2. CASE rows[u] # None /\ Friends!Begins(r, rows[u], u, u, FALSE)
      <4>1. rows[u] \in {"pending", "friend", "blocked"}
        BY <1>4, <3>2 DEF RowTypes
      <4> QED
        BY <1>5, <3>1, <3>2, <4>1
    <3>3. CASE rows[Friends!Other(u)] = "pending" /\ Friends!Begins(r, "pending", u, Friends!Other(u), FALSE)
      BY <1>5, <2>1, <3>1, <3>3
    <3> QED
      BY <2>4, <3>2, <3>3 DEF Friends!DeleteRelationship
  <2>5. CASE Friends!PatchRelationship(r, u)
    BY <1>5, <2>5 DEF Friends!PatchRelationship
  <2> QED
    BY <1>6, <2>2, <2>3, <2>4, <2>5
<1>7. ASSUME NEW r \in Requests, NEW u \in Two, Friends!OpenPrivateChannel(r, u) PROVE FriendsInv'
  <2>1. UNCHANGED <<rows, asked, wrote, revived>>
    BY <1>7 DEF Friends!OpenPrivateChannel
  <2>2. CASE dms > 0 /\ dms' = 1 /\ friendsRequest' = friendsRequest
    BY <2>1, <2>2 DEF FriendsTyped, DropsPending, WritersAccepted, Mutual, Friends!Doing
  <2>3. ASSUME NEW flag \in Friends!DMPrivacyCheck(u), Friends!Begins(r, "open", u, u, flag),
               dms' = dms
        PROVE  FriendsInv'
    <3>1. flag \in BOOLEAN
      BY <2>3, Zenon DEF Friends!DMPrivacyCheck
    <3> QED
      BY <1>5, <2>1, <2>3, <3>1
  <2> QED
    BY <1>7, <2>2, <2>3 DEF Friends!OpenPrivateChannel, Friends!ReopenDMChannel
<1>8. ASSUME NEW r \in Requests, NEW u \in Two, Friends!EnforcePrivateSend(r, u) PROVE FriendsInv'
  <2>1. /\ dms > 0 /\ Friends!Begins(r, "send", u, u, FALSE) /\ asked' = [asked EXCEPT ![u] = FALSE]
        /\ UNCHANGED <<rows, dms, wrote, revived>>
    BY <1>8 DEF Friends!EnforcePrivateSend
  <2>2. ~ asked'[u]
    BY <2>1 DEF FriendsTyped
  <2> QED
    BY <1>5, <2>1, <2>2
<1>9. ASSUME NEW r \in Requests,
             \/ Friends!PromoteToFriends(r) \/ Friends!Unfriend(r)
             \/ Friends!UnblockAndRestoreFriend(r)
      PROVE  FriendsInv'
  <2> USE DEF Friends!dm
  <2>1. CASE Friends!PromoteToFriends(r)
    BY <1>3, <1>4, <2>1, MutualRows DEF Friends!PromoteToFriends
  <2>2. CASE Friends!Unfriend(r)
    BY <1>3, <1>4, <2>2, MutualRows DEF Friends!Unfriend
  <2>3. CASE Friends!UnblockAndRestoreFriend(r)
    <3>1. PICK left : /\ Friends!Doing(r, "blocked")
                      /\ Friends!Rows(Friends!Befriended(left), Friends!Done(r))
                      /\ UNCHANGED <<dms, asked, wrote, revived>>
      BY <2>3, Zenon DEF Friends!UnblockAndRestoreFriend
    <3> QED
      BY <1>3, <1>4, <3>1, MutualRows
  <2> QED
    BY <1>9, <2>1, <2>2, <2>3
<1>10. ASSUME NEW r \in Requests, Friends!AskWrites(r) \/ Friends!SavesNickname(r) PROVE FriendsInv'
  <2>1. PICK u : u = friendsRequest[r].user
    OBVIOUS
  <2>2. ASSUME NEW type \in RowTypes PROVE [rows EXCEPT ![u] = type] \in [Two -> RowTypes]
    BY <1>4, <2>2, Zenon
  <2>3. CASE Friends!AskWrites(r)
    <3>1. PICK new : new = IF rows[u] = None THEN [rows EXCEPT ![u] = "pending"] ELSE rows
      OBVIOUS
    <3>2. /\ Friends!Doing(r, "ask") /\ Friends!Rows(new, Friends!Done(r))
          /\ UNCHANGED <<dms, asked, wrote, revived>>
      BY <2>1, <2>3, <3>1 DEF Friends!AskWrites, Friends!dm
    <3>3. u \in Two /\ "pending" \in RowTypes
      BY <1>2, <2>1, <3>2 DEF RowTypes
    <3>4. CASE rows[u] = None
      <4>1. new = [rows EXCEPT ![u] = "pending"]
        BY <3>1, <3>4
      <4>2. new \in [Two -> RowTypes]
        BY <2>2, <3>3, <4>1
      <4>3. Mutual(rows) => Mutual(new)
        BY <1>4, <3>3, <3>4, <4>1 DEF Mutual
      <4> QED
        BY <1>3, <1>4, <3>2, <4>2, <4>3
    <3>5. CASE rows[u] # None
      <4>1. new = rows
        BY <3>1, <3>5
      <4> QED
        BY <1>3, <1>4, <3>2, <4>1
    <3> QED
      BY <3>4, <3>5
  <2>4. CASE Friends!SavesNickname(r)
    <3>1. PICK new : new = IF rows[u] = None THEN [rows EXCEPT ![u] = "friend"] ELSE rows
      OBVIOUS
    <3>2. /\ Friends!Doing(r, "nickname") /\ Friends!Rows(new, Friends!Done(r))
          /\ UNCHANGED <<dms, asked, wrote>>
      BY <2>1, <2>4, <3>1 DEF Friends!SavesNickname, Friends!dm
    <3>3. revived' = (revived \/ rows[u] = None)
      BY <2>1, <2>4, Zenon DEF Friends!SavesNickname
    <3>4. revived' \in BOOLEAN
      BY <3>3, Zenon
    <3>5. CASE rows[u] = None
      <4>1. new = [rows EXCEPT ![u] = "friend"] /\ "friend" \in RowTypes
        BY <3>1, <3>5 DEF RowTypes
      <4>2. new \in [Two -> RowTypes] /\ revived'
        BY <2>2, <3>3, <3>5, <4>1
      <4> QED
        BY <1>3, <3>2, <3>4, <4>2
    <3>6. CASE rows[u] # None
      <4>1. new = rows /\ revived' = revived
        BY <1>4, <3>1, <3>3, <3>6, Zenon
      <4> QED
        BY <1>3, <1>4, <3>2, <3>4, <4>1
    <3> QED
      BY <3>5, <3>6
  <2> QED
    BY <1>10, <2>3, <2>4
<1>11. ASSUME NEW r \in Requests, Friends!DropsRequest(r) PROVE FriendsInv'
  <2>1. PICK w, new : /\ w = friendsRequest[r].row
                      /\ new = IF friendsRequest[r].kept THEN [rows EXCEPT ![w] = None] ELSE rows
    OBVIOUS
  <2>2. /\ Friends!Doing(r, "pending") /\ Friends!Rows(new, Friends!Done(r))
        /\ UNCHANGED <<dms, asked, wrote, revived>>
    BY <1>11, <2>1 DEF Friends!DropsRequest, Friends!dm
  <2>3. w \in Two /\ None \in RowTypes
    BY <1>2, <2>1, <2>2 DEF RowTypes
  <2>4. CASE friendsRequest[r].kept
    <3>1. rows[w] = "pending" /\ new = [rows EXCEPT ![w] = None]
      BY <2>1, <2>2, <2>4 DEF DropsPending
    <3>2. new \in [Two -> RowTypes]
      BY <1>4, <2>3, <3>1, Zenon
    <3>3. Mutual(rows) => Mutual(new)
      BY <1>4, <2>3, <3>1 DEF Mutual
    <3> QED
      BY <1>3, <1>4, <2>2, <3>2, <3>3
  <2>5. CASE ~ friendsRequest[r].kept
    <3>1. new = rows
      BY <2>1, <2>5
    <3> QED
      BY <1>3, <1>4, <2>2, <3>1
  <2> QED
    BY <2>4, <2>5
<1>12. ASSUME NEW r \in Requests, Friends!CreateDMChannel(r) PROVE FriendsInv'
  <2>1. PICK u, v : u = friendsRequest[r].user /\ v = Friends!Other(u)
    OBVIOUS
  <2>2. /\ Friends!Doing(r, "open") /\ friendsRequest' = [friendsRequest EXCEPT ![r] = None]
        /\ UNCHANGED <<rows, wrote, revived>>
    BY <1>12 DEF Friends!CreateDMChannel, Friends!Done
  <2>3. \/ dms > 0 /\ dms' = dms /\ asked' = asked
        \/ ~ dms > 0 /\ dms' = dms + 1 /\ asked' = [asked EXCEPT ![v] = friendsRequest[r].flag]
    BY <1>12, <2>1 DEF Friends!CreateDMChannel, Friends!FindDMChannel
  <2>4. dms' \in {0, 1} /\ (dms > 0 => dms' > 0)
    BY <2>3 DEF FriendsTyped
  <2>5. asked' \in [Two -> BOOLEAN] /\ wrote' \in [Two -> BOOLEAN]
    <3>1. friendsRequest[r].flag \in BOOLEAN
      BY <1>2, <2>2, Zenon DEF FriendSlot
    <3> QED
      BY <2>2, <2>3, <3>1, Zenon DEF FriendsTyped
  <2>6. \A x \in Two : wrote'[x] => dms' > 0 /\ ~ asked'[x]
    BY <2>2, <2>3 DEF WritersAccepted
  <2>7. dms > 0 => \A x \in Two : asked'[x] => asked[x]
    BY <2>3
  <2> QED
    BY <2>2, <2>4, <2>5, <2>6, <2>7, RowsStay
<1>13. ASSUME NEW r \in Requests, Friends!SendsPrivate(r) PROVE FriendsInv'
  <2>1. PICK u : u = friendsRequest[r].user
    OBVIOUS
  <2>2. /\ Friends!Doing(r, "send") /\ friendsRequest' = [friendsRequest EXCEPT ![r] = None]
        /\ wrote' = [wrote EXCEPT ![u] = TRUE] /\ UNCHANGED <<rows, dms, asked, revived>>
    BY <1>13, <2>1 DEF Friends!SendsPrivate, Friends!Done
  <2>3. dms > 0 /\ ~ asked[u]
    BY <2>1, <2>2 DEF WritersAccepted
  <2>4. asked' \in [Two -> BOOLEAN] /\ wrote' \in [Two -> BOOLEAN]
    BY <2>2, Zenon DEF FriendsTyped
  <2>5. \A x \in Two : wrote'[x] => dms' > 0 /\ ~ asked'[x]
    BY <2>2, <2>3 DEF WritersAccepted, FriendsTyped
  <2>6. dms' \in {0, 1} /\ (dms > 0 => dms' > 0)
    BY <2>2 DEF FriendsTyped
  <2>7. \A x \in Two : asked'[x] => asked[x]
    BY <2>2
  <2> QED
    BY <2>2, <2>4, <2>5, <2>6, <2>7, RowsStay
<1>14. ASSUME NEW u \in Two, Friends!BlockUser(u) \/ Friends!PatchRecipientMe(u) PROVE FriendsInv'
  <2>1. CASE Friends!BlockUser(u)
    <3>1. /\ Friends!Rows(Friends!Blocked(u), friendsRequest)
          /\ UNCHANGED <<dms, asked, wrote, revived>>
      BY <2>1 DEF Friends!BlockUser, Friends!dm
    <3>2. friendsRequest \in [Requests -> FriendSlot \cup {None}]
      BY DEF FriendsTyped
    <3> QED
      BY <1>4, <3>1, <3>2, MutualRows, RowsChange
  <2>2. CASE Friends!PatchRecipientMe(u)
    <3>1. /\ UNCHANGED <<rows, friendsRequest, dms, wrote, revived>>
          /\ asked' = asked \/ asked' = [asked EXCEPT ![u] = FALSE]
      BY <2>2 DEF Friends!PatchRecipientMe
    <3>2. asked' \in [Two -> BOOLEAN]
      BY <3>1, Zenon DEF FriendsTyped
    <3>3. \A v \in Two : asked'[v] => asked[v]
      BY <3>1 DEF FriendsTyped
    <3>4. \A r \in Requests : Friends!Doing(r, "send") => friendsRequest[r].user \in Two
      BY <1>2
    <3>5. FriendsTyped'
      BY <3>1, <3>2 DEF FriendsTyped
    <3>6. DropsPending' /\ (revived' \/ Mutual(rows)')
      BY <3>1 DEF DropsPending, Mutual, Friends!Doing
    <3>7. WritersAccepted'
      BY <3>1, <3>3, <3>4 DEF WritersAccepted, Friends!Doing
    <3> QED
      BY <3>5, <3>6, <3>7
  <2> QED
    BY <1>14, <2>1, <2>2
<1>15. CASE Friends!Next
  BY <1>6, <1>7, <1>8, <1>9, <1>10, <1>11, <1>12, <1>13, <1>14, <1>15 DEF Friends!Next
<1> QED
  BY <1>1, <1>15 DEF Next, vars

(* Friendship is mutual, two users have one conversation, and who has      *)
(* written in it has accepted it: social and the rules of private messages *)
(* as their handlers read, decide and write.                               *)
THEOREM SocialHolds == Spec => []SocialIsTrue
<1>1. FriendsInv => SocialIsTrue
  BY DEF FriendsInv, FriendsTyped, Mutual, WritersAccepted, SocialIsTrue, Friends!SocialIsTrue
<1> QED
  BY <1>1, FriendsInit, FriendsNext, PTL DEF Spec

-----------------------------------------------------------------------------
(* The points of a user. *)

Entry == [delta : Int, after : Nat, why : {"settling", "granting", "buying"}]

\* The changes of the ledger l, one after the other, lead to the balance b.
Explains(l, b) ==
  /\ \A i \in 1 .. Len(l) : l[i].after = (IF i = 1 THEN 0 ELSE l[i - 1].after) + l[i].delta
  /\ b = IF Len(l) = 0 THEN 0 ELSE l[Len(l)].after

ShopTyped ==
  /\ row \in Nat /\ pending \in Nat /\ shopBucket \in Nat
  /\ total \in Int /\ balance \in Nat /\ ledger \in Seq(Entry)
  /\ shopRequest \in [Requests -> ShopSlot \cup {None}]
  /\ owned \in {None, "expired", "limited", "forever"}
  /\ granted \in BOOLEAN /\ paid \in BOOLEAN /\ shopLate \in BOOLEAN /\ shopCrossed \in BOOLEAN

\* Whoever is about to change the balance holds its row, and has read it there.
LockHolds ==
  \A r \in Requests : Shop!Adjusting(r) =>
    lock = r /\ shopRequest[r].seen = balance /\ balance + shopRequest[r].delta >= 0

\* Before the mark on the day there is no pay, and with it one.
PaidOnce ==
  /\ ~ granted => total = 0 /\ \A i \in 1 .. Len(ledger) : ledger[i].why # "settling"
  /\ \A i, j \in 1 .. Len(ledger) :
       ledger[i].why = "settling" /\ ledger[j].why = "settling" => i = j
  /\ \A r \in Requests : Shop!Doing(r, "settling") => ~ granted

\* What a round will pay, or has paid, is what the row says.
ScoreHolds ==
  ~ shopLate =>
    /\ granted => total = Shop!ScoreOf(row)
    /\ \A r \in Requests : Shop!Doing(r, "settle") \/ Shop!Doing(r, "settling") =>
         shopRequest[r].delta = Shop!ScoreOf(row)

\* What was paid for is kept, and no grant under way takes it for less.
KeptForever ==
  paid /\ ~ shopCrossed =>
    /\ owned = "forever"
    /\ \A r \in Requests : Shop!Doing(r, "give") => shopRequest[r].had = "forever"

ShopInv ==
  ShopTyped /\ Explains(ledger, balance) /\ LockHolds /\ PaidOnce /\ ScoreHolds /\ KeptForever

LEMMA EntryAdded ==
  ASSUME NEW l \in Seq(Entry), NEW b, Explains(l, b), NEW e \in Entry, e.after = b + e.delta
  PROVE  /\ Append(l, e) \in Seq(Entry) /\ Len(Append(l, e)) = Len(l) + 1 /\ Len(l) \in Nat
         /\ \A i \in 1 .. Len(l) : Append(l, e)[i] = l[i]
         /\ Append(l, e)[Len(l) + 1] = e
         /\ Explains(Append(l, e), e.after)
<1>1. PICK m, n : m = Append(l, e) /\ n = Len(l)
  OBVIOUS
<1>2. /\ m \in Seq(Entry) /\ Len(m) = n + 1 /\ n \in Nat
      /\ \A i \in 1 .. n : m[i] = l[i]
      /\ m[n + 1] = e
  BY <1>1
<1>3. ASSUME NEW i \in 1 .. n + 1
      PROVE  m[i].after = (IF i = 1 THEN 0 ELSE m[i - 1].after) + m[i].delta
  <2>1. CASE i \in 1 .. n
    <3>1. l[i].after = (IF i = 1 THEN 0 ELSE l[i - 1].after) + l[i].delta
      BY <1>1, <2>1 DEF Explains
    <3>2. m[i] = l[i] /\ (i # 1 => m[i - 1] = l[i - 1])
      BY <1>2, <2>1
    <3> QED
      BY <3>1, <3>2
  <2>2. CASE i = n + 1
    <3>1. b = IF i = 1 THEN 0 ELSE l[i - 1].after
      BY <1>1, <1>2, <2>2 DEF Explains
    <3>2. i # 1 => m[i - 1] = l[i - 1]
      BY <1>2, <2>2
    <3> QED
      BY <1>2, <2>2, <3>1, <3>2
  <2> QED
    BY <1>2, <2>1, <2>2
<1>4. Explains(m, e.after)
  BY <1>2, <1>3 DEF Explains
<1> QED
  BY <1>1, <1>2, <1>4

LEMMA ShopInit == Init => ShopInv
<1> SUFFICES ASSUME Init PROVE ShopInv
  OBVIOUS
<1> USE NoneIsNoValue DEF Init, Shop!Init
<1>1. shopRequest \in [Requests -> ShopSlot \cup {None}]
  BY Zenon
<1>2. granted \in BOOLEAN /\ paid \in BOOLEAN /\ shopLate \in BOOLEAN /\ shopCrossed \in BOOLEAN
  BY Zenon
<1>3. ledger \in Seq(Entry) /\ Len(ledger) = 0
  OBVIOUS
<1>4. ShopTyped
  BY <1>1, <1>2, <1>3 DEF ShopTyped
<1>5. Explains(ledger, balance)
  BY <1>3 DEF Explains
<1>6. LockHolds /\ PaidOnce /\ ScoreHolds /\ KeptForever
  BY <1>3 DEF LockHolds, PaidOnce, ScoreHolds, KeptForever, Shop!Adjusting, Shop!Doing
<1> QED
  BY <1>4, <1>5, <1>6 DEF ShopInv

\* The handler r goes on with new, or ends, and no balance changes.
LEMMA ShopHandle ==
  ASSUME ShopInv, NEW r \in Requests, NEW new \in ShopSlot \cup {None},
         shopRequest' = [shopRequest EXCEPT ![r] = new],
         UNCHANGED <<row, pending, shopBucket, shopLate, granted, total, balance, ledger,
                     paid, shopCrossed>>,
         lock' = lock \/ \A q \in Requests : q # r => ~ Shop!Adjusting(q),
         new # None =>
           /\ new.step \in {"buying", "granting", "settling"} =>
                lock' = r /\ new.seen = balance /\ balance + new.delta >= 0
           /\ new.step = "settling" => ~ granted
           /\ new.step \in {"settle", "settling"} /\ ~ shopLate => new.delta = Shop!ScoreOf(row)
           /\ new.step = "give" /\ paid /\ ~ shopCrossed => new.had = "forever",
         owned' \in {None, "expired", "limited", "forever"},
         paid /\ ~ shopCrossed => owned' = "forever"
  PROVE  ShopInv'
<1> USE NoneIsNoValue DEF ShopInv
<1>1. /\ shopRequest' \in [Requests -> ShopSlot \cup {None}] /\ shopRequest'[r] = new
      /\ \A q \in Requests : q # r => shopRequest'[q] = shopRequest[q]
  BY Zenon DEF ShopTyped
<1>2. ASSUME NEW step
      PROVE  /\ Shop!Doing(r, step)' <=> new # None /\ new.step = step
             /\ \A q \in Requests : q # r => (Shop!Doing(q, step)' <=> Shop!Doing(q, step))
  BY <1>1 DEF Shop!Doing
<1>3. ShopTyped'
  BY <1>1 DEF ShopTyped
<1>4. Explains(ledger, balance)'
  BY DEF Explains
<1>5. LockHolds'
  <2> SUFFICES ASSUME NEW q \in Requests, Shop!Adjusting(q)'
               PROVE  lock' = q /\ shopRequest'[q].seen = balance'
                      /\ balance' + shopRequest'[q].delta >= 0
    BY DEF LockHolds
  <2>1. CASE q = r
    BY <1>1, <1>2, <2>1 DEF Shop!Adjusting
  <2>2. CASE q # r
    <3>1. Shop!Adjusting(q) /\ shopRequest'[q] = shopRequest[q]
      BY <1>1, <1>2, <2>2 DEF Shop!Adjusting
    <3> QED
      BY <2>2, <3>1 DEF LockHolds
  <2> QED
    BY <2>1, <2>2
<1>6. PaidOnce'
  BY <1>2 DEF PaidOnce
<1>7. ScoreHolds'
  BY <1>1, <1>2 DEF ScoreHolds, Shop!ScoreOf
<1>8. KeptForever'
  BY <1>1, <1>2 DEF KeptForever
<1> QED
  BY <1>3, <1>4, <1>5, <1>6, <1>7, <1>8

\* No handler moves: the day goes on, or the item expires.
LEMMA ShopDay ==
  ASSUME ShopInv, UNCHANGED <<lock, shopRequest, granted, total, balance, ledger, paid,
                              shopCrossed>>,
         row' \in Nat, pending' \in Nat, shopBucket' \in Nat,
         owned' \in {None, "expired", "limited", "forever"},
         owned = "forever" => owned' = "forever",
         shopLate' \in BOOLEAN,
         ~ shopLate' => ~ shopLate /\
           (row' = row \/ (~ granted /\ \A r \in Requests :
                            ~ Shop!Doing(r, "settle") /\ ~ Shop!Doing(r, "settling")))
  PROVE  ShopInv'
<1> USE DEF ShopInv
<1>1. ShopTyped'
  BY DEF ShopTyped
<1>2. Explains(ledger, balance)'
  BY DEF Explains
<1>3. \A r \in Requests : \A step : Shop!Doing(r, step)' <=> Shop!Doing(r, step)
  BY DEF Shop!Doing
<1>4. LockHolds'
  BY <1>3 DEF LockHolds, Shop!Adjusting
<1>5. PaidOnce'
  BY <1>3 DEF PaidOnce
<1>6. ScoreHolds'
  BY <1>3 DEF ScoreHolds, Shop!ScoreOf
<1>7. KeptForever'
  BY <1>3 DEF KeptForever
<1> QED
  BY <1>1, <1>2, <1>4, <1>5, <1>6, <1>7

\* A transaction commits: it writes the balance and the ledger, and marks the day
\* if it was a settlement.
LEMMA ShopBooks ==
  ASSUME ShopInv, NEW r \in Requests, Shop!Adjusting(r), Shop!Books(r),
         UNCHANGED <<row, pending, shopBucket, shopLate>>,
         \/ Shop!Doing(r, "settling") /\ granted' = TRUE /\ total' = total + shopRequest[r].delta
         \/ ~ Shop!Doing(r, "settling") /\ UNCHANGED <<granted, total>>,
         owned' \in {None, "expired", "limited", "forever"},
         paid' \in BOOLEAN, shopCrossed' \in BOOLEAN,
         paid' /\ ~ shopCrossed' =>
           /\ owned' = "forever"
           /\ \A q \in Requests : Shop!Doing(q, "give") => shopRequest[q].had = "forever"
  PROVE  ShopInv'
<1> USE NoneIsNoValue DEF ShopInv
<1>1. /\ lock = r /\ shopRequest[r].seen = balance /\ balance + shopRequest[r].delta >= 0
      /\ \A q \in Requests : q # r => ~ Shop!Adjusting(q)
  BY DEF LockHolds
<1>2. /\ shopRequest[r] # None /\ shopRequest[r] \in ShopSlot
      /\ shopRequest[r].step \in {"buying", "granting", "settling"}
      /\ shopRequest[r].delta \in Int
  <2>1. shopRequest[r] # None /\ shopRequest[r].step \in {"buying", "granting", "settling"}
    BY DEF Shop!Adjusting, Shop!Doing
  <2>2. shopRequest[r] \in ShopSlot
    BY <2>1 DEF ShopTyped
  <2> QED
    BY <2>1, <2>2 DEF ShopSlot
<1>3. PICK e : e = [delta |-> shopRequest[r].delta, after |-> balance + shopRequest[r].delta,
                    why |-> shopRequest[r].step]
  OBVIOUS
<1>4. /\ e.delta = shopRequest[r].delta /\ e.after = balance + shopRequest[r].delta
      /\ e.why = shopRequest[r].step
  BY <1>3
<1>5. balance \in Nat /\ balance + shopRequest[r].delta \in Nat
  BY <1>1, <1>2 DEF ShopTyped
<1>6. e \in Entry
  BY <1>2, <1>3, <1>5 DEF Entry
<1>7. balance' = e.after /\ ledger' = Append(ledger, e) /\ lock' = None
  BY <1>1, <1>3, <1>4 DEF Shop!Books
<1>8. /\ shopRequest' \in [Requests -> ShopSlot \cup {None}] /\ shopRequest'[r] = None
      /\ \A q \in Requests : q # r => shopRequest'[q] = shopRequest[q]
  <2>1. shopRequest' = [shopRequest EXCEPT ![r] = None]
    BY DEF Shop!Books, Shop!Ends
  <2> QED
    BY <2>1, Zenon DEF ShopTyped
<1>9. /\ ledger \in Seq(Entry) /\ Explains(ledger, balance)
      /\ e.after = balance + e.delta
  BY <1>4 DEF ShopTyped
<1>10. /\ ledger' \in Seq(Entry) /\ Len(ledger') = Len(ledger) + 1 /\ Len(ledger) \in Nat
       /\ \A i \in 1 .. Len(ledger) : ledger'[i] = ledger[i]
       /\ ledger'[Len(ledger) + 1] = e
       /\ Explains(ledger, balance)'
  <2>1. PICK l : l = ledger'
    OBVIOUS
  <2>2. /\ l \in Seq(Entry) /\ Len(l) = Len(ledger) + 1 /\ Len(ledger) \in Nat
        /\ \A i \in 1 .. Len(ledger) : l[i] = ledger[i]
        /\ l[Len(ledger) + 1] = e
        /\ Explains(l, e.after)
    BY <1>6, <1>7, <1>9, <2>1, EntryAdded
  <2> QED
    BY <1>7, <2>1, <2>2 DEF Explains
<1>11. \A q \in Requests : \A step : Shop!Doing(q, step)' <=> q # r /\ Shop!Doing(q, step)
  BY <1>8 DEF Shop!Doing
<1>12. ShopTyped'
  <2>1. total' \in Int /\ balance' \in Nat
    BY <1>2, <1>4, <1>5, <1>7 DEF ShopTyped
  <2>2. granted' \in BOOLEAN
    BY Zenon DEF ShopTyped
  <2> QED
    BY <1>8, <1>10, <2>1, <2>2 DEF ShopTyped
<1>13. LockHolds'
  BY <1>1, <1>11 DEF LockHolds, Shop!Adjusting
<1>14. PaidOnce'
  <2>1. e.why = "settling" <=> Shop!Doing(r, "settling")
    BY <1>2, <1>4 DEF Shop!Doing
  <2>2. \A q \in Requests : ~ Shop!Doing(q, "settling")'
    BY <1>1, <1>11 DEF Shop!Adjusting
  <2>3. CASE Shop!Doing(r, "settling") /\ granted' = TRUE
    <3>1. \A i \in 1 .. Len(ledger) : ledger[i].why # "settling"
      BY <2>3 DEF PaidOnce
    <3>2. \A i \in 1 .. Len(ledger') : ledger'[i].why = "settling" => i = Len(ledger) + 1
      BY <1>10, <3>1
    <3> QED
      BY <2>2, <2>3, <3>2 DEF PaidOnce
  <2>4. CASE ~ Shop!Doing(r, "settling") /\ UNCHANGED <<granted, total>>
    <3>1. \A i \in 1 .. Len(ledger') :
            ledger'[i].why = "settling" => i \in 1 .. Len(ledger) /\ ledger[i].why = "settling"
      BY <1>10, <2>1, <2>4
    <3> QED
      BY <2>2, <2>4, <3>1 DEF PaidOnce
  <2> QED
    BY <2>3, <2>4
<1>15. ScoreHolds'
  <2>1. CASE Shop!Doing(r, "settling") /\ granted' = TRUE /\ total' = total + shopRequest[r].delta
    <3>1. total = 0
      BY <2>1 DEF PaidOnce
    <3>2. total' = shopRequest[r].delta
      BY <1>2, <2>1, <3>1
    <3> QED
      BY <1>8, <1>11, <2>1, <3>2 DEF ScoreHolds, Shop!ScoreOf
  <2>2. CASE UNCHANGED <<granted, total>>
    BY <1>8, <1>11, <2>2 DEF ScoreHolds, Shop!ScoreOf
  <2> QED
    BY <2>1, <2>2
<1>16. KeptForever'
  BY <1>8, <1>11 DEF KeptForever
<1> QED
  BY <1>10, <1>12, <1>13, <1>14, <1>15, <1>16

LEMMA ShopNext == ShopInv /\ [Next]_vars => ShopInv'
<1> SUFFICES ASSUME ShopInv, [Next]_vars PROVE ShopInv'
  OBVIOUS
<1> USE NoneIsNoValue DEF ShopInv
<1>1. CASE UNCHANGED shopVars
  BY <1>1, ShopDay DEF shopVars, ShopTyped
<1>2. CASE Shop!Track \/ Shop!FlushSwaps \/ Shop!MergeBack \/ Shop!Restart \/ Shop!DayEnds
  <2>1. /\ UNCHANGED <<row, lock, shopRequest, shopLate, granted, total, balance, ledger, owned,
                       paid, shopCrossed>>
        /\ pending' \in Nat /\ shopBucket' \in Nat
    BY <1>2 DEF Shop!Track, Shop!FlushSwaps, Shop!MergeBack, Shop!Restart, Shop!DayEnds,
                Shop!settled, Shop!account, Shop!item, ShopTyped
  <2> QED
    BY <2>1, ShopDay DEF ShopTyped
<1>3. CASE Shop!Flush
  <2>1. /\ UNCHANGED <<lock, shopRequest, granted, total, balance, ledger, owned, paid, shopCrossed>>
        /\ row' \in Nat /\ pending' \in Nat /\ shopBucket' \in Nat
    BY <1>3 DEF Shop!Flush, Shop!settled, Shop!account, Shop!item, ShopTyped
  <2>2. shopLate' = (shopLate \/ granted
                     \/ \E r \in Requests : Shop!Doing(r, "settle") \/ Shop!Doing(r, "settling"))
    BY <1>3 DEF Shop!Flush
  <2>3. /\ shopLate' \in BOOLEAN
        /\ ~ shopLate' => ~ shopLate /\ ~ granted
             /\ \A r \in Requests : ~ Shop!Doing(r, "settle") /\ ~ Shop!Doing(r, "settling")
    BY <2>2, Zenon DEF ShopTyped
  <2> QED
    BY <2>1, <2>3, ShopDay DEF ShopTyped
<1>4. CASE Shop!Expire
  <2>1. /\ UNCHANGED <<row, pending, shopBucket, shopLate, lock, shopRequest, granted, total, balance,
                       ledger, paid, shopCrossed>>
        /\ owned = "limited" /\ owned' = "expired"
    BY <1>4 DEF Shop!Expire, Shop!day, Shop!settled, Shop!account
  <2> QED
    BY <2>1, ShopDay DEF ShopTyped
\* A handler begins with what it has read.
<1>5. ASSUME NEW r \in Requests, NEW d \in Int, NEW had \in {None, "expired", "limited", "forever"},
             NEW step \in {"settle", "admin", "buy", "give"}, Shop!Begins(r, step, d, had),
             UNCHANGED <<row, pending, shopBucket, shopLate, lock, granted, total, balance, ledger,
                         owned, paid, shopCrossed>>,
             step = "settle" => d = Shop!ScoreOf(row), step = "give" => had = owned
      PROVE  ShopInv'
  <2>1. PICK new : new = Shop!Slot(step, d, 0, had)
    OBVIOUS
  <2>2. new \in ShopSlot /\ new.step = step /\ new.delta = d /\ new.had = had
    BY <2>1 DEF Shop!Slot, ShopSlot
  <2>3. shopRequest' = [shopRequest EXCEPT ![r] = new]
    BY <1>5, <2>1 DEF Shop!Begins
  <2>4. /\ owned' \in {None, "expired", "limited", "forever"}
        /\ paid /\ ~ shopCrossed => owned = "forever" /\ owned' = "forever"
    BY <1>5 DEF ShopTyped, KeptForever
  <2>5. new # None =>
           /\ new.step \in {"buying", "granting", "settling"} =>
                lock' = r /\ new.seen = balance /\ balance + new.delta >= 0
           /\ new.step = "settling" => ~ granted
           /\ new.step \in {"settle", "settling"} /\ ~ shopLate => new.delta = Shop!ScoreOf(row)
           /\ new.step = "give" /\ paid /\ ~ shopCrossed => new.had = "forever"
    BY <1>5, <2>2, <2>4
  <2> QED
    BY <1>5, <2>2, <2>3, <2>4, <2>5, ShopHandle
<1>6. ASSUME NEW r \in Requests, Shop!RunSettleOnce(r) \/ Shop!Acquire(r) \/ Shop!AdminGrant(r)
      PROVE  ShopInv'
  <2> USE DEF Shop!day, Shop!settled, Shop!account, Shop!item
  <2>1. Shop!ScoreOf(row) \in Int /\ - Shop!Price \in Int
    BY BoundsAreNumbers DEF Shop!ScoreOf, ShopTyped, Shop!Price
  <2>2. CASE Shop!RunSettleOnce(r)
    BY <1>5, <2>1, <2>2 DEF Shop!RunSettleOnce
  <2>3. CASE Shop!Acquire(r)
    BY <1>5, <2>1, <2>3 DEF Shop!Acquire
  <2>4. CASE Shop!AdminGrant(r)
    BY <1>5, <2>4 DEF Shop!AdminGrant, ShopTyped
  <2> QED
    BY <1>6, <2>2, <2>3, <2>4
\* One that ends without a change of the balance.
<1>7. ASSUME NEW r \in Requests, Shop!Ends(r),
             UNCHANGED <<row, pending, shopBucket, shopLate, granted, total, balance, ledger,
                         paid, shopCrossed>>,
             lock' = lock \/ \A q \in Requests : q # r => ~ Shop!Adjusting(q),
             owned' \in {None, "expired", "limited", "forever"},
             paid /\ ~ shopCrossed => owned' = "forever"
      PROVE  ShopInv'
  <2>1. shopRequest' = [shopRequest EXCEPT ![r] = None]
    BY <1>7 DEF Shop!Ends
  <2> QED
    BY <1>7, <2>1, ShopHandle
<1>8. /\ owned \in {None, "expired", "limited", "forever"}
      /\ paid /\ ~ shopCrossed => owned = "forever"
  BY DEF ShopTyped, KeptForever
<1>9. ASSUME NEW r \in Requests, Shop!AdjustPoints(r) PROVE ShopInv'
  <2> USE DEF Shop!day, Shop!settled, Shop!account, Shop!item
  <2>1. /\ UNCHANGED <<row, pending, shopBucket, shopLate, granted, total, balance, ledger, owned,
                       paid, shopCrossed>>
        /\ \A q \in Requests : ~ Shop!Adjusting(q)
    <3>1. lock = None
      BY <1>9 DEF Shop!AdjustPoints, Shop!Free
    <3> QED
      BY <1>9, <3>1 DEF Shop!AdjustPoints, LockHolds
  <2>2. CASE balance + shopRequest[r].delta < 0
    <3>1. Shop!Ends(r)
      BY <1>9, <2>2 DEF Shop!AdjustPoints
    <3> QED
      BY <1>7, <1>8, <2>1, <3>1
  <2>3. CASE ~ balance + shopRequest[r].delta < 0
    <3>1. /\ Shop!Doing(r, "buy") \/ Shop!Doing(r, "admin") \/ (Shop!Doing(r, "settle") /\ ~ granted)
          /\ shopRequest[r] # None /\ shopRequest[r] \in ShopSlot
      <4>1. Shop!Doing(r, "buy") \/ Shop!Doing(r, "admin") \/ (Shop!Doing(r, "settle") /\ ~ granted)
        BY <1>9 DEF Shop!AdjustPoints, Shop!Claims
      <4> QED
        BY <4>1 DEF Shop!Doing, ShopTyped
    <3>2. PICK step, d, new : /\ step = CASE Shop!Doing(r, "buy")   -> "buying"
                                         [] Shop!Doing(r, "admin") -> "granting"
                                         [] OTHER                  -> "settling"
                              /\ d = shopRequest[r].delta
                              /\ new = Shop!Slot(step, d, balance, None)
      OBVIOUS
    <3>3. shopRequest' = [shopRequest EXCEPT ![r] = new] /\ lock' = r
      <4>1. /\ lock' = r
            /\ shopRequest' = [shopRequest EXCEPT ![r] =
                 Shop!Slot(CASE Shop!Doing(r, "buy")   -> "buying"
                             [] Shop!Doing(r, "admin") -> "granting"
                             [] OTHER                  -> "settling", @.delta, balance, None)]
        BY <1>9, <2>3 DEF Shop!AdjustPoints
      <4> QED
        BY <3>2, <4>1, Zenon
    <3>4. /\ step \in {"buying", "granting", "settling"}
          /\ step = "settling" => Shop!Doing(r, "settle") /\ ~ granted
      BY <3>1, <3>2
    <3>5. d \in Int /\ balance + d >= 0
      BY <2>3, <3>1, <3>2 DEF ShopSlot, ShopTyped
    <3>6. /\ new \in ShopSlot /\ new.step = step /\ new.delta = d /\ new.seen = balance
      BY <3>2, <3>4, <3>5 DEF Shop!Slot, ShopSlot, ShopTyped
    <3>7. step = "settling" /\ ~ shopLate => d = Shop!ScoreOf(row)
      BY <3>2, <3>4 DEF ScoreHolds
    <3>8. new # None =>
           /\ new.step \in {"buying", "granting", "settling"} =>
                lock' = r /\ new.seen = balance /\ balance + new.delta >= 0
           /\ new.step = "settling" => ~ granted
           /\ new.step \in {"settle", "settling"} /\ ~ shopLate => new.delta = Shop!ScoreOf(row)
           /\ new.step = "give" /\ paid /\ ~ shopCrossed => new.had = "forever"
      BY <3>3, <3>4, <3>5, <3>6, <3>7
    <3>9. /\ owned' \in {None, "expired", "limited", "forever"}
          /\ paid /\ ~ shopCrossed => owned' = "forever"
      BY <1>8, <2>1
    <3> QED
      BY <2>1, <3>3, <3>6, <3>8, <3>9, ShopHandle
  <2> QED
    BY <2>2, <2>3
<1>10. ASSUME NEW r \in Requests, Shop!Skips(r) \/ Shop!RollsBack(r) PROVE ShopInv'
  <2> USE DEF Shop!day, Shop!settled, Shop!account, Shop!item
  <2>1. CASE Shop!Skips(r)
    BY <1>7, <1>8, <2>1 DEF Shop!Skips
  <2>2. CASE Shop!RollsBack(r)
    <3>1. \A q \in Requests : q # r => ~ Shop!Adjusting(q)
      BY <2>2 DEF Shop!RollsBack, LockHolds
    <3> QED
      BY <1>7, <1>8, <2>2, <3>1 DEF Shop!RollsBack
  <2> QED
    BY <1>10, <2>1, <2>2
<1>11. ASSUME NEW r \in Requests, Shop!GrantItem(r) PROVE ShopInv'
  <2>1. PICK new \in {"limited", "forever"} :
          owned' = CASE shopRequest[r].had = None      -> IF owned = None THEN new ELSE owned
                     [] new = "forever"                -> "forever"
                     [] shopRequest[r].had = "forever" -> owned
                     [] OTHER                          -> "limited"
    BY <1>11 DEF Shop!GrantItem
  <2>2. /\ Shop!Doing(r, "give") /\ Shop!Ends(r)
        /\ UNCHANGED <<row, pending, shopBucket, shopLate, lock, granted, total, balance, ledger,
                       paid, shopCrossed>>
    BY <1>11 DEF Shop!GrantItem, Shop!day, Shop!settled, Shop!account
  <2>3. paid /\ ~ shopCrossed => owned = "forever" /\ shopRequest[r].had = "forever"
    BY <2>2 DEF KeptForever
  <2>4. /\ owned' \in {None, "expired", "limited", "forever"}
        /\ paid /\ ~ shopCrossed => owned' = "forever"
    <3>1. CASE shopRequest[r].had = None
      BY <1>8, <2>1, <2>3, <3>1
    <3>2. CASE shopRequest[r].had # None
      BY <1>8, <2>1, <2>3, <3>2
    <3> QED
      BY <3>1, <3>2
  <2> QED
    BY <1>7, <2>2, <2>4
\* The transactions that commit.
<1>12. ASSUME NEW r \in Requests, Shop!SettleRow(r) \/ Shop!Purchase(r) PROVE ShopInv'
  <2> USE DEF Shop!day, Shop!settled, Shop!account, Shop!item
  <2>1. CASE Shop!SettleRow(r)
    <3>1. /\ Shop!Doing(r, "settling") /\ Shop!Adjusting(r) /\ Shop!Books(r)
          /\ granted' = TRUE /\ total' = total + shopRequest[r].delta
          /\ UNCHANGED <<row, pending, shopBucket, shopLate, owned, paid, shopCrossed>>
      BY <2>1 DEF Shop!SettleRow, Shop!Adjusting
    <3>2. paid' \in BOOLEAN /\ shopCrossed' \in BOOLEAN
      BY <3>1, Zenon DEF ShopTyped
    <3> QED
      BY <1>8, <3>1, <3>2, ShopBooks DEF KeptForever
  <2>2. CASE Shop!Purchase(r)
    <3>1. /\ Shop!Doing(r, "buying") /\ Shop!Adjusting(r) /\ Shop!Books(r)
          /\ paid' = TRUE /\ owned' = "forever"
          /\ UNCHANGED <<row, pending, shopBucket, shopLate, granted, total>>
      BY <2>2 DEF Shop!Purchase, Shop!Adjusting, Shop!GrantedForever
    <3>2. shopCrossed' = (shopCrossed \/ \E q \in Requests : Shop!Doing(q, "give"))
      BY <2>2 DEF Shop!Purchase
    <3>3. paid' \in BOOLEAN /\ shopCrossed' \in BOOLEAN
      BY <3>1, <3>2, Zenon
    <3>4. ~ shopCrossed' => \A q \in Requests : ~ Shop!Doing(q, "give")
      BY <3>2
    <3>5. ~ Shop!Doing(r, "settling")
      BY <3>1 DEF Shop!Doing
    <3> QED
      BY <3>1, <3>3, <3>4, <3>5, ShopBooks
  <2> QED
    BY <1>12, <2>1, <2>2
<1>13. ASSUME NEW r \in Requests, Shop!AdminGrantPoints(r) PROVE ShopInv'
  <2> USE DEF Shop!day, Shop!settled, Shop!account, Shop!item
  <2>1. ASSUME NEW d \in {-1, 1}, Shop!Begins(r, "admin", d, None),
               UNCHANGED <<row, pending, shopBucket, shopLate, lock, granted, total, balance, ledger,
                           owned, paid, shopCrossed>>
        PROVE  ShopInv'
    BY <1>5, <2>1
  <2>2. ASSUME Shop!Doing(r, "granting"), Shop!Books(r),
               UNCHANGED <<row, pending, shopBucket, shopLate, granted, total, owned, paid,
                           shopCrossed>>
        PROVE  ShopInv'
    <3>1. Shop!Adjusting(r) /\ ~ Shop!Doing(r, "settling")
      BY <2>2 DEF Shop!Adjusting, Shop!Doing
    <3>2. paid' \in BOOLEAN /\ shopCrossed' \in BOOLEAN
      BY <2>2, Zenon DEF ShopTyped
    <3> QED
      BY <1>8, <2>2, <3>1, <3>2, ShopBooks DEF KeptForever
  <2> QED
    BY <1>13, <2>1, <2>2 DEF Shop!AdminGrantPoints
<1>14. CASE Shop!Next
  BY <1>2, <1>3, <1>4, <1>6, <1>9, <1>10, <1>11, <1>12, <1>13, <1>14 DEF Shop!Next
<1> QED
  BY <1>1, <1>14 DEF Next, vars

(* The ledger explains the balance and never falls below zero, a day is    *)
(* paid once and by what its row said, and what was paid for is kept:      *)
(* AdjustPoints, the settlement and the grants, whoever interleaves.       *)
THEOREM PointsHold == Spec => []PointsAddUp
<1>1. ShopInv => PointsAddUp
  <2> SUFFICES ASSUME ShopInv PROVE PointsAddUp
    OBVIOUS
  <2> USE DEF ShopInv
  <2>1. PICK n : n = Len(ledger)
    OBVIOUS
  <2>2. /\ ledger \in Seq(Entry) /\ n \in Nat /\ DOMAIN ledger = 1 .. n
        /\ \A i \in 1 .. n : ledger[i] \in Entry
        /\ ledger = <<>> <=> n = 0
    BY <2>1 DEF ShopTyped
  <2>3. \A i \in DOMAIN ledger :
          ledger[i].after = Shop!Before(i) + ledger[i].delta /\ ledger[i].after >= 0
    BY <2>1, <2>2 DEF Explains, Entry, Shop!Before
  <2>4. balance = IF ledger = <<>> THEN 0 ELSE Shop!Last(ledger).after
    BY <2>1, <2>2 DEF Explains, Shop!Last
  <2>5. \A i, j \in DOMAIN ledger :
          ledger[i].why = "settling" /\ ledger[j].why = "settling" => i = j
    BY <2>1, <2>2 DEF PaidOnce
  <2>6. /\ granted /\ ~ shopLate => total = Shop!ScoreOf(row)
        /\ paid /\ ~ shopCrossed => owned = "forever"
    BY DEF ScoreHolds, KeptForever
  <2> QED
    BY <2>3, <2>4, <2>5, <2>6 DEF PointsAddUp, Shop!PointsAddUp
<1> QED
  BY <1>1, ShopInit, ShopNext, PTL DEF Spec
=============================================================================
