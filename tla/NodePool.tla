------------------------------- MODULE NodePool ------------------------------
(***************************************************************************)
(* Which nodes a guild may use (sfunode/pool.go): system administrators    *)
(* grant candidates, the guild's administrators select among them, and the *)
(* scheduler gets the selection, or the platform's default nodes when      *)
(* there is none (Bridge.PoolNodes). SetAdminPool and SetGuildPool check   *)
(* what they are given before their transaction begins.                    *)
(***************************************************************************)
EXTENDS FiniteSets

CONSTANTS
  Nodes,
  Admins,      \* requests of a system administrator
  Managers,    \* requests of a guild's administrator
  Defaults,    \* nodes with platform_default
  None

Requests == Admins \cup Managers

VARIABLES
  candidates,   \* SfuGuildNodeCandidate rows of the guild
  selection,    \* SfuGuildNodeSelection rows
  fallback,     \* SfuGuildNodePool.FallbackToDefault
  revoked,      \* nodes that are REVOKED
  checked       \* request -> the node ids that passed its checks, or None

vars == <<candidates, selection, fallback, revoked, checked>>

TypeOK ==
  /\ candidates \subseteq Nodes /\ selection \subseteq Nodes
  /\ fallback \in BOOLEAN /\ revoked \subseteq Nodes
  /\ checked \in [Requests -> (SUBSET Nodes) \cup {None}]

Init ==
  /\ candidates = {} /\ selection = {} /\ fallback = TRUE /\ revoked = {}
  /\ checked = [r \in Requests |-> None]

Check(r, ids) ==
  /\ checked[r] = None
  /\ checked' = [checked EXCEPT ![r] = ids]
  /\ UNCHANGED <<candidates, selection, fallback, revoked>>

\* validateNodeIDs: every id is that of a node that is not revoked.
AdminChecks(r) == \E ids \in SUBSET (Nodes \ revoked) : Check(r, ids)

\* Mutant: the selection is left as it was.
KeepSelection(granted) == selection

\* Without a selection of its own the request takes from the guild's what is
\* no candidate any more.
Shrunk(granted) == selection \cap granted

SetAdminPool(r) ==
  /\ checked[r] # None
  /\ candidates' = checked[r]
  /\ \/ selection' = Shrunk(checked[r])
     \/ \E ids \in SUBSET checked[r] : selection' = ids
  /\ fallback' \in BOOLEAN
  /\ checked' = [checked EXCEPT ![r] = None]
  /\ UNCHANGED revoked

\* The candidates are read before the transaction.
ManagerChecks(r) == \E ids \in SUBSET candidates : Check(r, ids)

SetGuildPool(r) ==
  /\ checked[r] # None
  /\ selection' = checked[r] /\ fallback' \in BOOLEAN
  /\ checked' = [checked EXCEPT ![r] = None]
  /\ UNCHANGED <<candidates, revoked>>

\* sfu_admin.go; the pools that hold the node are not touched.
Revoke(n) ==
  /\ n \notin revoked
  /\ revoked' = revoked \cup {n}
  /\ UNCHANGED <<candidates, selection, fallback, checked>>

\* PoolNodes.
PoolNodes == IF selection # {} THEN selection ELSE IF fallback THEN Defaults ELSE {}

Next ==
  \/ \E r \in Admins : AdminChecks(r) \/ SetAdminPool(r)
  \/ \E r \in Managers : ManagerChecks(r) \/ SetGuildPool(r)
  \/ \E n \in Nodes : Revoke(n)

Spec == Init /\ [][Next]_vars

-----------------------------------------------------------------------------
(* A guild gets no node that it was not granted, and was not granted when  *)
(* its administrator asked, but the platform's own: a node leaves the      *)
(* candidates together with the selection, and comes back to the selection *)
(* only with a request that was checked before.                            *)
GrantedOnly ==
  [][ \A n \in PoolNodes' \ Defaults :
        n \notin candidates' =>
          \/ n \in PoolNodes /\ n \notin candidates
          \/ \E r \in Managers : checked[r] # None /\ n \in checked[r] ]_vars

=============================================================================
