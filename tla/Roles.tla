-------------------------------- MODULE Roles --------------------------------
(***************************************************************************)
(* A role of a guild, the members that have it, what clients were told of  *)
(* both, and the audit log by which changes are undone (guildapi/roles.go, *)
(* moderation/members.go, auditundo).  A handler reads, decides, writes    *)
(* and publishes.  A role is saved whole, which brings one back that has   *)
(* gone; of a member one column is written, and he is told as he was read, *)
(* but with the roles he has then.  An undo reads the entry, applies the   *)
(* inverse of what it says, and only then locks the entry and marks it.    *)
(***************************************************************************)
EXTENDS Naturals

CONSTANTS
  Requests, Members, None,
  Entries,    \* ids of the audit log: a bound of the model
  MaxPerms    \* bound of the model: values of the permissions, and positions

VARIABLES
  role,       \* its row: permissions and position, or None
  has,        \* "role", "nick", "style" -> members that have the role, a nickname, or
              \* chose to be shown in the style of the role
  entry,      \* entry -> [kind, was, what, undos], or None; was: [row, has], the row of
              \* the role, or what a member had, before; what: the members it is about
  request,    \* request -> [step, entry, kind, was, what, copy], or None; copy: [row, has]
              \* as it will tell it
  told,       \* [row, has]: the role, and the members, as clients know them
  deleted,    \* history: the last that became of the role was a deletion
  crossed,    \* history: it was written by a handler that saw it before it went
  stale       \* history: of "row", "role", "nick", "style", what a request had still to
              \* tell when another wrote it, or an undo wrote and does not tell

vars == <<role, has, entry, request, told, deleted, crossed, stale>>

Values   == 0 .. MaxPerms
OfMember == {"assign", "remove", "rename", "restyle"}

Init ==
  /\ role = None
  /\ has = [a \in {"role", "nick", "style"} |-> {}]
  /\ entry = [e \in Entries |-> None]
  /\ request = [r \in Requests |-> None]
  /\ told = [row |-> None, has |-> has]
  /\ deleted = FALSE /\ crossed = FALSE /\ stale = {}

OfRole(row) == [row |-> row, has |-> {}]
Gone        == OfRole(None)
OfHim(attributes) == [row |-> None, has |-> attributes]

Attributes(m) == {a \in DOMAIN has : m \in has[a]}

Change(kind, was, what) == [kind |-> kind, was |-> was, what |-> what]

Asked(step, e, c, copy) ==
  [step |-> step, entry |-> e, kind |-> c.kind, was |-> c.was, what |-> c.what,
   copy |-> copy]

\* A request that has read what it needs, to change something or undo an entry.
Begins(r, step, e, c, copy) ==
  /\ request[r] = None
  /\ ~ crossed /\ stale \subseteq {"role"}   \* a bound of the model
  /\ request' = [request EXCEPT ![r] = Asked(step, e, c, copy)]
  /\ UNCHANGED <<role, has, entry, told, deleted, crossed, stale>>

Doing(r, step) == request[r] # None /\ request[r].step = step
Ends(r)        == request' = [request EXCEPT ![r] = None]

Logged(c) ==
  \E e \in Entries :
    /\ entry[e] = None
    /\ entry' = [entry EXCEPT ![e] =
         [kind |-> c.kind, was |-> c.was, what |-> c.what, undos |-> 0]]

Column(kind) ==
  CASE kind = "rename" -> "nick" [] kind = "restyle" -> "style" [] OTHER -> "role"

\* What a request that is not undoing has read, or written, of what it will tell.
Carries(q) ==
  IF request[q].kind \in OfMember
  THEN (IF Doing(q, "tell") THEN {"role"} ELSE {}) \cup
       ({"nick", "style"} \
          (IF Doing(q, "write") THEN {Column(request[q].kind)} ELSE {}))
  ELSE IF Doing(q, "write") /\ request[q].kind # "reorder" THEN {}
  ELSE IF request[q].copy = Gone THEN {"row", "role"} ELSE {"row"}

\* Of an undo, the row of the role only, from when it was written.
Concerns(q) ==
  IF \/ request[q] = None
     \/ /\ request[q].entry # None
        /\ Doing(q, "undo") \/ request[q].kind \in OfMember
  THEN {} ELSE Carries(q)

Overtakes(r, written, untold) ==
  stale' = stale \cup untold \cup
             (written \cap UNION {Concerns(q) : q \in Requests \ {r}})

-----------------------------------------------------------------------------
(* What becomes of the role and its members. *)

Exists == role # None

DeletesRole ==
  /\ role' = None /\ has' = [has EXCEPT !["role"] = {}]
  /\ deleted' = TRUE /\ UNCHANGED crossed

\* An insert, if there is no row left to update.
SavesRole(row) ==
  /\ role' = row /\ crossed' = (crossed \/ ~ Exists)
  /\ UNCHANGED <<has, deleted>>

\* One column of the row, if there is one.
PlacesRole(row) ==
  /\ role' = IF Exists THEN <<role[1], row[2]>> ELSE None
  /\ UNCHANGED <<has, deleted, crossed>>

Binds(m) ==
  /\ has' = [has EXCEPT !["role"] = @ \cup m] /\ crossed' = (crossed \/ ~ Exists)
  /\ UNCHANGED <<role, deleted>>

Unbinds(m) ==
  has' = [has EXCEPT !["role"] = @ \ m] /\ UNCHANGED <<role, deleted, crossed>>

Puts(a, m, there) ==
  /\ has' = [has EXCEPT ![a] = IF there THEN @ \cup m ELSE @ \ m]
  /\ UNCHANGED <<role, deleted, crossed>>

-----------------------------------------------------------------------------
(* The handlers. *)

CreateRole(r, p) ==
  /\ role = None /\ \A e \in Entries : entry[e] = None
  /\ request[r] = None
  /\ role' = <<p, 0>> /\ Logged(Change("create", Gone, {}))
  /\ request' = [request EXCEPT ![r] =
       Asked("tell", None, Change("create", Gone, {}), OfRole(<<p, 0>>))]
  /\ UNCHANGED <<has, told, deleted, crossed, stale>>

\* The request leaves the position; the entry keeps the row as it was read.
UpdateRole(r, p) ==
  Exists /\ Begins(r, "write", None, Change("update", OfRole(role), {}),
                   OfRole(<<p, role[2]>>))

ReorderRoles(r, p) ==
  /\ Exists /\ role[2] # p
  /\ Begins(r, "write", None, Change("reorder", Gone, {}), OfRole(<<role[1], p>>))

\* The snapshot is taken before the transaction.
DeleteRole(r) ==
  Exists /\ Begins(r, "write", None, Change("delete", OfRole(role), has["role"]), Gone)

ChangeMemberRole(r, m, kind) ==
  Exists /\ Begins(r, "write", None, Change(kind, Gone, {m}), OfHim(Attributes(m)))

UpdateNickname(r, m) ==
  Begins(r, "write", None,
         Change("rename", OfHim(Attributes(m) \cap {"nick"}), {m}), OfHim(Attributes(m)))

UpdateNameStylePreference(r, m) ==
  Begins(r, "write", None, Change("restyle", Gone, {m}), OfHim(Attributes(m)))

Entered(r) ==
  IF request[r].kind \in {"reorder", "restyle"} THEN UNCHANGED entry   \* for good
  ELSE Logged(Change(request[r].kind, request[r].was, request[r].what))

WritesRole(r) ==
  /\ Doing(r, "write")
  /\ \/ /\ request[r].kind = "delete" /\ DeletesRole
        /\ Overtakes(r, {"row", "role"}, {})
     \/ /\ request[r].kind = "update" /\ SavesRole(request[r].copy.row)
        /\ Overtakes(r, {"row"}, {})
     \/ /\ request[r].kind = "reorder" /\ PlacesRole(request[r].copy.row)
        /\ Overtakes(r, {"row"}, {})
  /\ Entered(r) /\ request' = [request EXCEPT ![r].step = "tell"]
  /\ UNCHANGED told

\* He may choose the style of a role that he had.
WritesMember(r) ==
  /\ Doing(r, "write") /\ request[r].kind \in OfMember
  /\ LET a == Column(request[r].kind) IN
     \E there \in BOOLEAN :
       /\ \/ request[r].kind = "assign" /\ there /\ Binds(request[r].what)
          \/ request[r].kind = "remove" /\ ~ there /\ Unbinds(request[r].what)
          \/ request[r].kind = "rename" /\ Puts(a, request[r].what, there)
          \/ /\ request[r].kind = "restyle" /\ (there => "role" \in request[r].copy.has)
             /\ Puts(a, request[r].what, there)
       /\ request' = [request EXCEPT ![r].step = "look", ![r].copy.has =
                        (@ \ {a}) \cup (IF there THEN {a} ELSE {})]
       /\ Overtakes(r, {a}, {})
  /\ Entered(r) /\ UNCHANGED told

\* Mutant: whether he has the role is told as it was read.
RolesAsRead(r, m) == request[r].copy.has

\* What is told of a member: his row as it was read, his roles as they are.
RolesNow(r, m) == (request[r].copy.has \ {"role"}) \cup (Attributes(m) \cap {"role"})

PublishMemberUpdate(r) ==
  /\ Doing(r, "look")
  /\ \E m \in request[r].what :
       request' = [request EXCEPT ![r].step = "tell", ![r].copy.has = RolesNow(r, m)]
  /\ UNCHANGED <<role, has, entry, told, deleted, crossed, stale>>

ToldRole(row) ==
  [row |-> row, has |-> IF row = None THEN [told.has EXCEPT !["role"] = {}] ELSE told.has]

ToldMember(m, attributes) ==
  [told EXCEPT !.has = [a \in DOMAIN has |->
                          IF a \in attributes THEN @[a] \cup m ELSE @[a] \ m]]

Tells(r) ==
  /\ Doing(r, "tell") /\ Ends(r)
  /\ told' = IF request[r].kind \in OfMember
             THEN ToldMember(request[r].what, request[r].copy.has)
             ELSE ToldRole(request[r].copy.row)
  /\ UNCHANGED <<role, has, entry, deleted, crossed, stale>>

-----------------------------------------------------------------------------
(* Undoing. *)

Available(e) == entry[e] # None /\ entry[e].undos = 0

Applicable(e) ==
  CASE entry[e].kind = "delete" -> ~ Exists
    [] entry[e].kind = "rename" -> TRUE
    [] OTHER                    -> Exists

Undo(r, e) ==
  /\ Available(e) /\ Applicable(e)
  /\ Begins(r, "undo", e, Change(entry[e].kind, entry[e].was, entry[e].what),
            IF entry[e].kind \in {"update", "delete"} THEN entry[e].was ELSE Gone)

\* Restores the role and who had it; a role that is back meanwhile refuses it.
UndoRoleDelete(r) ==
  /\ role' = request[r].was.row /\ has' = [has EXCEPT !["role"] = @ \cup request[r].what]
  /\ deleted' = FALSE /\ UNCHANGED crossed

\* The column, to what it was.
UndoNickname(r) == Puts("nick", request[r].what, "nick" \in request[r].was.has)

\* Who has the role, and that he is renamed, is not told as a handler would.
UndoApplies(r) ==
  /\ Doing(r, "undo")
  /\ \/ /\ request[r].kind = "create" /\ DeletesRole /\ Overtakes(r, {"row", "role"}, {})
     \/ /\ request[r].kind = "update" /\ SavesRole(request[r].was.row)
        /\ Overtakes(r, {"row"}, {})
     \/ /\ request[r].kind = "delete" /\ ~ Exists /\ UndoRoleDelete(r)
        /\ Overtakes(r, {"row"}, {"role"})
     \/ /\ request[r].kind = "assign" /\ Unbinds(request[r].what)
        /\ Overtakes(r, {}, {"role"})
     \/ /\ request[r].kind = "remove" /\ Binds(request[r].what)
        /\ Overtakes(r, {}, {"role"})
     \/ request[r].kind = "rename" /\ UndoNickname(r) /\ Overtakes(r, {}, {"nick"})
  /\ request' = [request EXCEPT ![r].step = "record"]
  /\ UNCHANGED <<entry, told>>

UndoFails(r) ==
  /\ Doing(r, "undo") /\ request[r].kind = "delete" /\ Exists /\ Ends(r)
  /\ UNCHANGED <<role, has, entry, told, deleted, crossed, stale>>

\* Mutant: what was available before is recorded.
StillAvailable(e) == TRUE

\* The status of the entry, read again under its lock.
Locked(e) == Available(e)

\* What another has undone meanwhile has been written once more, and is not told.
UndoRecords(r) ==
  /\ Doing(r, "record")
  /\ LET e == request[r].entry IN
     IF Locked(e)
     THEN /\ entry' = [entry EXCEPT ![e].undos = @ + 1] /\ UNCHANGED stale
          /\ IF request[r].kind \in OfMember THEN Ends(r)
             ELSE request' = [request EXCEPT ![r].step = "tell"]
     ELSE Ends(r) /\ Overtakes(r, {}, Concerns(r)) /\ UNCHANGED entry
  /\ UNCHANGED <<role, has, told, deleted, crossed>>

Next ==
  \E r \in Requests :
    \/ \E p \in Values : CreateRole(r, p) \/ UpdateRole(r, p) \/ ReorderRoles(r, p)
    \/ DeleteRole(r) \/ WritesRole(r) \/ WritesMember(r) \/ PublishMemberUpdate(r)
    \/ Tells(r) \/ UndoApplies(r) \/ UndoFails(r) \/ UndoRecords(r)
    \/ \E m \in Members :
         \/ \E kind \in {"assign", "remove"} : ChangeMemberRole(r, m, kind)
         \/ UpdateNickname(r, m) \/ UpdateNameStylePreference(r, m)
    \/ \E e \in Entries : Undo(r, e)

Spec == Init /\ [][Next]_vars

-----------------------------------------------------------------------------
(* At rest clients know of the role and of its members what the rows say,  *)
(* but for what a request had still to tell when another wrote it, and for *)
(* what an undo wrote.                                                     *)
ClientsKnow ==
  (\A r \in Requests : request[r] = None) =>
    /\ "row" \in stale \/ told.row = role
    /\ \A a \in DOMAIN has : a \in stale \/ told.has[a] = has[a]

(* A role that was deleted stays away until the deletion is undone, and    *)
(* nobody has a role that there is not, unless a handler wrote that had    *)
(* seen it before it went; an entry is marked as undone by one record      *)
(* only, however many undo it at once; and clients know what there is.     *)
RolesAreTrue ==
  /\ crossed \/ (deleted => ~ Exists)
  /\ crossed \/ (~ Exists => has["role"] = {})
  /\ \A e \in Entries : entry[e] # None => entry[e].undos <= 1
  /\ ClientsKnow
=============================================================================
