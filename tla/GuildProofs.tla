---------------------------- MODULE GuildProofs ----------------------------
(***************************************************************************)
(* Proofs about MCGuild: its five invariants, for any number of handlers,  *)
(* items, members and pictures. The parts share no state and Next takes a  *)
(* step of one of them, so that each invariant is proved from its own      *)
(* part. Each needs to know, besides itself, what a handler still  *)
(* carries of what it read, when others have written in between:           *)
(*                                                                         *)
(*   PublicInv     what each handler has written and not yet named, named  *)
(*                 and not yet told, or taken out and not yet removed;     *)
(*   DenialsInv    which jobs hold a record, and what they have still to   *)
(*                 tell of it;                                             *)
(*   RanksInv      what a handler has written of a role that clients have  *)
(*                 not been told, and that one undo has its entry;         *)
(*   StatusInv     what the job under way will show, and that it shows no  *)
(*                 more than the user allows;                              *)
(*   GroupInv      whom the handler under way has still to tell, and what  *)
(*                 it has built for them;                                  *)
(*   PacksInv      that who has a pack found it in use, and how many a     *)
(*                 creation that passed the limit may add;                 *)
(*   PicturesInv   the uses of each picture, counted slot by slot, and the *)
(*                 room each handler that adds one still takes;            *)
(*   ClosetInv     how often each picture hangs, and what the handler that *)
(*                 rewrites a bundle or announces a loadout has left to    *)
(*                 do.                                                     *)
(***************************************************************************)
EXTENDS MCGuild, FiniteSetTheorems, SequenceTheorems, WellFoundedInduction, TLAPS

-----------------------------------------------------------------------------
(* Pictures that anybody may fetch. *)

Kinds   == Public!Kinds
Lists   == PublicLists
OfList  == Public!BannerSteps \cup {"files"}
Uploads == {"write", "place", "create"}

Busy(r, steps) == publicRequest[r] # None /\ publicRequest[r].step \in steps

PublicTyped ==
  /\ column \in [Kinds -> Three \cup {None}] /\ publicShown \in [Kinds -> Three \cup {None}]
  /\ publicRows \in Lists /\ disk \subseteq used /\ used \subseteq Three
  /\ publicRequest \in [Two -> PublicSlot \cup {None}]

\* Which handlers there are for which owner.
OwnersSteps ==
  /\ ~ there => owner = "guild" /\ \A k \in Kinds : column[k] = None
  /\ \A r \in Two :
       /\ Busy(r, {"clear", "cleared", "read"}) => owner = "user"
       /\ Busy(r, {"style"}) => owner = "role" /\ publicRequest[r].kind = None
       /\ Busy(r, OfList) => owner = "guild" /\ publicRequest[r].list \in Lists
       /\ Busy(r, {"files"}) => ~ there \/ publicUnsaid
       /\ Busy(r, {"undo"}) => owner = "guild" /\ publicRequest[r].kind = None
       /\ Busy(r, {"upload", "write", "clean", "clear", "cleared"}) =>
            publicRequest[r].kind \in Kinds

\* Every file is of one kind all its life.
Of(u, k) == {f \in used : u[f] = k} \cup {None}

Sorted(u) ==
  /\ \A k \in Kinds : column[k] \in Of(u, k) /\ publicShown[k] \in Of(u, k)
  /\ Public!Listed(publicRows) \subseteq Of(u, "list")
  /\ \A r \in Two : publicRequest[r] # None =>
       /\ \A k \in Kinds : publicRequest[r].was[k] \in Of(u, k)
       /\ IF Busy(r, OfList)
          THEN /\ publicRequest[r].file \in Of(u, "list")
               /\ Public!Listed(publicRequest[r].list) \subseteq Of(u, "list")
          ELSE publicRequest[r].file \in Of(u, publicRequest[r].kind)

\* Nobody knows the file of an upload before it is written to the row.
Unknown(r, f) ==
  /\ f \in disk /\ publicRows[f] = None
  /\ \A k \in Kinds : column[k] # f /\ publicShown[k] # f
  /\ \A q \in Two : publicRequest[q] # None =>
       /\ \A k \in Kinds : publicRequest[q].was[k] # f
       /\ q # r => publicRequest[q].file # f
       /\ Busy(q, OfList) => publicRequest[q].list[f] = None

UploadsAreNew ==
  \A r \in Two : Busy(r, Uploads) /\ publicRequest[r].file # None =>
    Unknown(r, publicRequest[r].file)

\* A file that will be removed has no name, but one that came back.
RemovedAreFree ==
  \A r \in Two :
    /\ Busy(r, {"clean"}) =>
         \/ Public!Old(r) \in back \cup {None}
         \/ \A k \in Kinds : column[k] # Public!Old(r)
    /\ Busy(r, {"cleared"}) => Public!Old(r) \notin disk
    /\ Busy(r, {"files"}) =>
         Public!Listed(publicRequest[r].list) \cap Public!Listed(publicRows) = {}

\* What a handler that is alone will tell is what there is.
WillSay(r) ==
  LET q == publicRequest[r]
  IN /\ Busy(r, {"upload", "write", "clear", "cleared", "style", "undo"}) =>
          column = publicShown /\ q.was = column
     /\ Busy(r, {"clean"}) => column = [q.was EXCEPT ![q.kind] = q.file]
     /\ Busy(r, {"tell"}) =>
          column = IF owner = "user" \/ q.kind = None THEN q.was
                   ELSE [q.was EXCEPT ![q.kind] = q.file]

Telling ==
  there /\ ~ publicUnsaid =>
    /\ \A q, r \in Two : Public!OfColumns(q) /\ Public!OfColumns(r) => q = r
    /\ \A r \in Two : Public!OfColumns(r) => WillSay(r)
    /\ (\A r \in Two : ~ Public!OfColumns(r)) => publicShown = column

\* The banners that there are, and those that are on their way.
Adding == {r \in Two : Busy(r, {"add", "place", "create"})}

BannersFit ==
  Cardinality(Public!Listed(publicRows)) + Cardinality(Adding)
    < BannerLimit + Cardinality(Two)

Gapless(l) ==
  {l[f] : f \in Public!Listed(l)} = 0 .. Cardinality(Public!Listed(l)) - 1

BannersNumbered ==
  publicCrossed \/ Gapless(publicRows) \/ \E r \in Two : Busy(r, {"load", "number"})

\* What is named can be fetched, and what is on the disk is named, or known to somebody who
\* will name or remove it.
Named(f) == publicRows[f] # None \/ \E k \in Kinds : column[k] = f
Knows(r, f) ==
  \/ Busy(r, Uploads) /\ publicRequest[r].file = f
  \/ Busy(r, {"clean", "clear"}) /\ Public!Old(r) = f
  \/ Busy(r, {"files"}) /\ publicRequest[r].list[f] # None

NamedAreThere ==
  /\ \A f \in Three : publicRows[f] # None => f \in disk
  /\ \A k \in Kinds : \/ column[k] \in {None} \cup disk \cup back
                      \/ \E r \in Two : Busy(r, {"cleared"}) /\ Public!Old(r) = column[k]

KeptAreKnown ==
  \A f \in disk : Named(f) \/ f \in lost \/ \E r \in Two : Knows(r, f)

PublicCore ==
  /\ PublicTyped /\ OwnersSteps /\ (\E u \in [Three -> Kinds \cup {"list"}] : Sorted(u))
  /\ UploadsAreNew /\ RemovedAreFree /\ Telling /\ NamedAreThere /\ KeptAreKnown

PublicInv == PublicCore /\ BannersFit /\ BannersNumbered

LEMMA PublicSlots ==
  ASSUME NEW q \in PublicSlot
  PROVE  /\ \A s \in PublicSteps : [q EXCEPT !.step = s] \in PublicSlot
         /\ \A f \in Three \cup {None} : [q EXCEPT !.file = f] \in PublicSlot
         /\ \A w \in [Kinds -> Three \cup {None}] : [q EXCEPT !.was = w] \in PublicSlot
         /\ \A l \in Lists : [q EXCEPT !.list = l] \in PublicSlot
  BY DEF PublicSlot, Lists, Kinds

\* A handler that goes on keeps what it knows.
LEMMA PublicGoes ==
  ASSUME PublicTyped, NEW r \in Two, publicRequest[r] # None, NEW s \in PublicSteps,
         \/ Public!Goes(r, s)
         \/ \E w \in [Kinds -> Three \cup {None}] :
              publicRequest' = [publicRequest EXCEPT ![r].step = s, ![r].was = w]
         \/ \E l \in Lists :
              publicRequest' = [publicRequest EXCEPT ![r].step = s, ![r].list = l]
  PROVE  /\ publicRequest[r] \in PublicSlot /\ publicRequest'[r] \in PublicSlot
         /\ publicRequest'[r] # None /\ publicRequest'[r].step = s
         /\ publicRequest'[r].kind = publicRequest[r].kind
         /\ publicRequest'[r].file = publicRequest[r].file
         /\ Public!Goes(r, s) => /\ publicRequest'[r].was = publicRequest[r].was
                               /\ publicRequest'[r].list = publicRequest[r].list
         /\ \A q \in Two \ {r} : publicRequest'[q] = publicRequest[q]
<1> DEFINE q0 == publicRequest[r]
<1>1. q0 \in PublicSlot /\ [q0 EXCEPT !.step = s] \in PublicSlot
  BY PublicSlots DEF PublicTyped
<1>2. CASE Public!Goes(r, s)
  BY <1>1, <1>2, NoneIsNoValue DEF PublicTyped, Public!Goes, PublicSlot
<1>3. ASSUME NEW w \in [Kinds -> Three \cup {None}],
             publicRequest' = [publicRequest EXCEPT ![r].step = s, ![r].was = w]
      PROVE  /\ publicRequest'[r] = [[q0 EXCEPT !.step = s] EXCEPT !.was = w]
             /\ publicRequest'[r] \in PublicSlot
             /\ \A q \in Two \ {r} : publicRequest'[q] = publicRequest[q]
  BY <1>1, <1>3, PublicSlots DEF PublicTyped
<1>4. ASSUME NEW l \in Lists,
             publicRequest' = [publicRequest EXCEPT ![r].step = s, ![r].list = l]
      PROVE  /\ publicRequest'[r] = [[q0 EXCEPT !.step = s] EXCEPT !.list = l]
             /\ publicRequest'[r] \in PublicSlot
             /\ \A q \in Two \ {r} : publicRequest'[q] = publicRequest[q]
  BY <1>1, <1>4, PublicSlots DEF PublicTyped
<1>5. CASE \E w \in [Kinds -> Three \cup {None}] :
             publicRequest' = [publicRequest EXCEPT ![r].step = s, ![r].was = w]
  <2>1. PICK w \in [Kinds -> Three \cup {None}] :
          publicRequest' = [publicRequest EXCEPT ![r].step = s, ![r].was = w]
    BY <1>5
  <2>2. /\ publicRequest'[r] = [[q0 EXCEPT !.step = s] EXCEPT !.was = w]
        /\ publicRequest'[r] \in PublicSlot
        /\ \A q \in Two \ {r} : publicRequest'[q] = publicRequest[q]
    BY <1>3, <2>1
  <2>3. /\ publicRequest'[r].step = s /\ publicRequest'[r].kind = q0.kind
        /\ publicRequest'[r].file = q0.file /\ publicRequest'[r] # None
    BY <1>1, <2>2, NoneIsNoValue DEF PublicSlot
  <2>4. Public!Goes(r, s) => /\ publicRequest'[r].was = publicRequest[r].was
                             /\ publicRequest'[r].list = publicRequest[r].list
    BY <1>2
  <2> QED BY <1>1, <2>2, <2>3, <2>4
<1>6. CASE \E l \in Lists :
             publicRequest' = [publicRequest EXCEPT ![r].step = s, ![r].list = l]
  <2>1. PICK l \in Lists :
          publicRequest' = [publicRequest EXCEPT ![r].step = s, ![r].list = l]
    BY <1>6
  <2>2. /\ publicRequest'[r] = [[q0 EXCEPT !.step = s] EXCEPT !.list = l]
        /\ publicRequest'[r] \in PublicSlot
        /\ \A q \in Two \ {r} : publicRequest'[q] = publicRequest[q]
    BY <1>4, <2>1
  <2>3. /\ publicRequest'[r].step = s /\ publicRequest'[r].kind = q0.kind
        /\ publicRequest'[r].file = q0.file /\ publicRequest'[r] # None
    BY <1>1, <2>2, NoneIsNoValue DEF PublicSlot
  <2> QED BY <1>1, <1>2, <2>2, <2>3
<1> QED BY <1>2, <1>5, <1>6

\* A handler of a column that is alone stays so, if it will say what there is.
LEMMA AloneTells ==
  ASSUME Telling, NEW r \in Two, Public!OfColumns(r),
         \A q \in Two : Public!OfColumns(q)' <=> Public!OfColumns(q),
         there' => there, UNCHANGED publicUnsaid,
         there /\ there' /\ WillSay(r) => WillSay(r)'
  PROVE  Telling'
<1> SUFFICES ASSUME there', ~ publicUnsaid'
             PROVE  /\ \A q, p \in Two : Public!OfColumns(q)' /\ Public!OfColumns(p)' => q = p
                    /\ \A q \in Two : Public!OfColumns(q)' => WillSay(q)'
                    /\ ~ \A q \in Two : ~ Public!OfColumns(q)'
  BY Zenon DEF Telling
<1>1. there /\ ~ publicUnsaid
  OBVIOUS
<1>2. \A q, p \in Two : Public!OfColumns(q) /\ Public!OfColumns(p) => q = p
  BY <1>1, Zenon DEF Telling
<1>3. WillSay(r)
  BY <1>1, Zenon DEF Telling
<1> QED BY <1>1, <1>2, <1>3, Zenon

\* A handler of a column begins.
LEMMA PublicStarts ==
  ASSUME PublicCore, NEW r \in Two, NEW s, NEW k, Public!Starts(r, s, k),
         \/ s \in {"upload", "write"} /\ k \in Kinds
         \/ s = "clear" /\ k \in Kinds /\ owner = "user"
         \/ s = "style" /\ k = None /\ owner = "role"
         \/ s = "tell" /\ k = None
         \/ s = "undo" /\ k = None /\ owner = "guild"
  PROVE  PublicCore'
<1> USE NoneIsNoValue
    DEF PublicCore, PublicTyped, Public!Starts, Public!Begins, Busy, Kinds, Public!Kinds, OfList,
        Uploads, Public!BannerSteps, Public!Listed, Public!Old, Public!OfColumns, Public!store,
        Public!banners
<1>1. PublicTyped'
  <2>1. [step |-> s, kind |-> k, file |-> None, was |-> column, list |-> <<>>] \in PublicSlot
    BY DEF PublicSlot, PublicSteps
  <2> QED BY <2>1
<1>2. OwnersSteps'
  BY <1>1 DEF OwnersSteps, PublicSlot, Public!Unsaid
<1>3. (\E u \in [Three -> Kinds \cup {"list"}] : Sorted(u))'
  BY <1>1 DEF Sorted, Of, PublicSlot
<1>4. UploadsAreNew'
  BY <1>1 DEF UploadsAreNew, Unknown, PublicSlot
<1>5. RemovedAreFree'
  BY <1>1 DEF RemovedAreFree, PublicSlot
<1>6. Telling'
  <2> SUFFICES ASSUME there, ~ publicUnsaid'
               PROVE  Telling'
    BY DEF Telling
  <2>1. ~ publicUnsaid /\ \A q \in Two \ {r} : ~ Public!OfColumns(q)
    BY DEF Public!Unsaid
  <2>2. publicShown = column
    BY <2>1 DEF Telling
  <2>3. \A q \in Two : Public!OfColumns(q)' => q = r
    BY <1>1, <2>1
  <2>4. WillSay(r)'
    BY <1>1, <2>2 DEF WillSay, PublicSlot
  <2> QED BY <2>2, <2>3, <2>4 DEF Telling
<1>7. NamedAreThere' /\ KeptAreKnown'
  BY <1>1 DEF NamedAreThere, KeptAreKnown, Named, Knows, PublicSlot
<1> QED BY <1>1, <1>2, <1>3, <1>4, <1>5, <1>6, <1>7

\* A handler of the list begins.
LEMMA PublicLooks ==
  ASSUME PublicCore, NEW r \in Two, NEW s \in Public!BannerSteps \ Uploads, NEW f,
         f = None \/ f \in Public!Listed(publicRows), owner = "guild",
         Public!Begins(r, s, None, f, publicRows),
         UNCHANGED <<owner, there, column, disk, lost, back, publicShown, publicRows, used,
                     publicUnsaid>>
  PROVE  PublicCore'
<1> USE NoneIsNoValue
    DEF PublicCore, PublicTyped, Public!Begins, Busy, Kinds, Public!Kinds, OfList,
        Uploads, Public!BannerSteps, Public!Listed, Public!Old, Public!OfColumns
<1>1. PublicTyped'
  <2>1. [step |-> s, kind |-> None, file |-> f, was |-> column, list |-> publicRows]
          \in PublicSlot
    BY DEF PublicSlot, PublicSteps, Lists
  <2> QED BY <2>1
<1>2. OwnersSteps'
  BY <1>1 DEF OwnersSteps, PublicSlot
<1>3. (\E u \in [Three -> Kinds \cup {"list"}] : Sorted(u))'
  BY <1>1 DEF Sorted, Of, PublicSlot
<1>4. UploadsAreNew'
  BY <1>1 DEF UploadsAreNew, Unknown, PublicSlot
<1>5. RemovedAreFree'
  BY <1>1 DEF RemovedAreFree, PublicSlot
<1>6. Telling'
  BY <1>1 DEF Telling, WillSay, PublicSlot
<1>7. NamedAreThere' /\ KeptAreKnown'
  BY <1>1 DEF NamedAreThere, KeptAreKnown, Named, Knows, PublicSlot
<1> QED BY <1>1, <1>2, <1>3, <1>4, <1>5, <1>6, <1>7
\* A finite set of numbers has a largest: there is no smallest set that has none.
LEMMA Largest ==
  ASSUME NEW S \in SUBSET Nat, IsFiniteSet(S), S # {}
  PROVE  \E m \in S : \A x \in S : x <= m
<1> DEFINE Bad == {T \in SUBSET S : T # {} /\ ~ \E m \in T : \A x \in T : x <= m}
<1> SUFFICES ASSUME Bad # {} PROVE FALSE
  OBVIOUS
<1>1. PICK T \in Bad : \A U \in Bad : ~ (<<U, T>> \in StrictSubsetOrdering(S))
  <2>1. IsWellFoundedOn(StrictSubsetOrdering(S), FiniteSubsetsOf(S)) /\ Bad \subseteq FiniteSubsetsOf(S)
    BY FS_StrictSubsetOrderingWellFounded, FS_FiniteSubsetsOfFinite
  <2> HIDE DEF Bad
  <2> QED BY <2>1, WFMin
<1>2. PICK x \in T : TRUE
  OBVIOUS
<1>3. T \ {x} \notin Bad
  <2>1. SUFFICES ASSUME T \ {x} \in Bad PROVE <<T \ {x}, T>> \in StrictSubsetOrdering(S)
    BY <1>1
  <2> QED BY <2>1 DEF StrictSubsetOrdering
<1>4. T \ {x} # {}
  <2>1. SUFFICES ASSUME T \subseteq {x} PROVE \A y \in T : y <= x
    BY <1>2
  <2>2. \A y \in T : y = x /\ y \in Nat
    BY <2>1
  <2> QED BY <2>2
<1>5. PICK m \in T \ {x} : \A y \in T \ {x} : y <= m
  BY <1>3, <1>4
<1>6. CASE x <= m
  BY <1>5, <1>6
<1>7. CASE m <= x
  <2>1. \A y \in T : y \in Nat /\ (y = x \/ y <= m)
    BY <1>5
  <2>2. x \in Nat /\ m \in Nat /\ x \in T
    BY <1>5
  <2>3. \A y \in T : y <= x
    BY <1>7, <2>1, <2>2
  <2> QED BY <2>2, <2>3
<1> QED BY <1>5, <1>6, <1>7


\* The next position is a number.
LEMMA NextIsNumber ==
  ASSUME NEW l \in PublicLists
  PROVE  Public!Next1(l) \in Nat
<1> DEFINE L == Public!Listed(l)
           S == {l[f] + 1 : f \in L} \cup {0}
           g == [f \in L |-> l[f] + 1]
<1>1. \A f \in L : f \in Three /\ l[f] \in Nat
  BY DEF PublicLists, Public!Listed
<1>2. IsFiniteSet(L)
  BY FiniteNames, FS_Subset DEF Public!Listed
<1>3. g \in Surjection(L, {l[f] + 1 : f \in L})
  BY DEF Surjection
<1>4. IsFiniteSet({l[f] + 1 : f \in L})
  BY <1>2, <1>3, FS_Surjection
<1>5. IsFiniteSet(S) /\ S \in SUBSET Nat /\ S # {}
  <2>1. IsFiniteSet({0})
    BY FS_Singleton
  <2>2. IsFiniteSet(S)
    BY <1>4, <2>1, FS_Union
  <2> QED BY <1>1, <2>2
<1>6. PICK m \in S : \A x \in S : x <= m
  <2> HIDE DEF S
  <2> QED BY <1>5, Largest
<1>7. \A x \in S : m >= x /\ m \in Nat
  BY <1>5, <1>6
<1> QED BY <1>5, <1>6, <1>7 DEF Public!Next1, Public!Max


LEMMA PublicCounts ==
  ASSUME NEW S PROVE Public!Cardinality(S) = Cardinality(S)
  BY DEF Cardinality, Public!Cardinality

\* What is listed is finite.
LEMMA ListedFinite ==
  ASSUME NEW l
  PROVE  IsFiniteSet(Public!Listed(l)) /\ Cardinality(Public!Listed(l)) \in Nat
  BY FiniteNames, FS_Subset, FS_CardinalityType DEF Public!Listed

\* Every other step of a handler.
LEMMA PublicGoesOn ==
  ASSUME PublicCore, NEW r \in Two
  PROVE  (\/ Public!FileSaved(r) \/ Public!UploadFails(r) \/ Public!ColumnWritten(r)
          \/ Public!WriteFails(r) \/ Public!OldRemoved(r) \/ Public!ReadAgain(r)
          \/ Public!ReadFails(r) \/ Public!Published(r) \/ Public!ProfileFileRemoved(r)
          \/ Public!ProfileCleared(r) \/ Public!ProfileFails(r) \/ Public!StyleWritten(r)
          \/ Public!BannerSaved(r) \/ Public!PositionRead(r) \/ Public!RowsLoaded(r)
          \/ Public!BannerFilesRemoved(r) \/ Public!BannerCreated(r) \/ Public!BannerDeleted(r)
          \/ Public!Renumbered(r) \/ Public!OrderWritten(r) \/ Public!GuildDeleted(r)
          \/ Public!GuildSaved(r))
         => PublicCore'
<1> USE NoneIsNoValue
    DEF PublicTyped, Busy, Public!Doing, Kinds, Public!Kinds, OfList, Uploads,
        Public!BannerSteps, Public!Listed, Public!Old, Public!OfColumns, Public!store,
        Public!banners
<1>a. PublicTyped /\ OwnersSteps
  BY DEF PublicCore
<1>b. \E u \in [Three -> Kinds \cup {"list"}] : Sorted(u)
  BY DEF PublicCore
<1>c. UploadsAreNew
  BY DEF PublicCore
<1>d. RemovedAreFree
  BY DEF PublicCore
<1>e. Telling
  BY DEF PublicCore
<1>f. NamedAreThere
  BY DEF PublicCore
<1>g. KeptAreKnown
  BY DEF PublicCore
<1>1. ASSUME Public!FileSaved(r) PROVE PublicCore'
  <2>1. PublicTyped'
    <3>1. PICK f \in Three \ used :
            /\ used' = used \cup {f} /\ disk' = disk \cup {f}
            /\ publicRequest' = [publicRequest EXCEPT ![r].step = "write", ![r].file = f]
      BY <1>a, <1>1 DEF Public!FileSaved, Public!Saved
    <3>2. [[publicRequest[r] EXCEPT !.step = "write"] EXCEPT !.file = f] \in PublicSlot
      BY <1>a, <1>1, PublicSlots DEF Public!FileSaved, Public!Saved, PublicSteps
    <3> QED BY <1>a, <1>1, <3>1, <3>2 DEF Public!FileSaved, Public!Saved
  <2>2. OwnersSteps'
    BY <1>a, <1>1 DEF Public!FileSaved, Public!Saved, PublicSlot, OwnersSteps
  <2>3. (\E u \in [Three -> Kinds \cup {"list"}] : Sorted(u))'
    BY <1>a, <1>b, <1>1 DEF Public!FileSaved, Public!Saved, PublicSlot, Sorted, Of
  <2>4. UploadsAreNew'
    BY <1>a, <1>b, <1>c, <1>1
       DEF Public!FileSaved, Public!Saved, PublicSlot, OwnersSteps, UploadsAreNew, Unknown, Sorted,
           Of
  <2>5. RemovedAreFree'
    BY <1>a, <1>b, <1>c, <1>d, <1>1
       DEF Public!FileSaved, Public!Saved, PublicSlot, OwnersSteps, RemovedAreFree, UploadsAreNew,
           Unknown, Sorted, Of
  <2>6. Telling'
    BY <1>a, <1>e, <1>1
       DEF Public!FileSaved, Public!Saved, PublicSlot, OwnersSteps, Telling, WillSay
  <2>7. NamedAreThere'
    BY <1>a, <1>b, <1>c, <1>d, <1>f, <1>1
       DEF Public!FileSaved, Public!Saved, PublicSlot, OwnersSteps, NamedAreThere, RemovedAreFree,
           UploadsAreNew, Unknown,
       Sorted, Of, Named, Knows
  <2>8. KeptAreKnown'
    BY <1>a, <1>b, <1>c, <1>d, <1>g, <1>1
       DEF Public!FileSaved, Public!Saved, PublicSlot, OwnersSteps, KeptAreKnown, RemovedAreFree,
           UploadsAreNew, Unknown,
       Sorted, Of, Named, Knows
  <2> QED BY <2>1, <2>2, <2>3, <2>4, <2>5, <2>6, <2>7, <2>8 DEF PublicCore
<1>2. ASSUME Public!UploadFails(r) PROVE PublicCore'
  <2>1. PublicTyped'
    BY <1>a, <1>2 DEF Public!UploadFails, Public!Ends, PublicSlot, PublicSteps, Lists, PublicLists
  <2>2. OwnersSteps'
    BY <1>a, <1>2 DEF Public!UploadFails, Public!Ends, PublicSlot, OwnersSteps
  <2>3. (\E u \in [Three -> Kinds \cup {"list"}] : Sorted(u))'
    BY <1>a, <1>b, <1>2 DEF Public!UploadFails, Public!Ends, PublicSlot, Sorted, Of
  <2>4. UploadsAreNew'
    BY <1>a, <1>b, <1>c, <1>2
       DEF Public!UploadFails, Public!Ends, PublicSlot, OwnersSteps, UploadsAreNew, Unknown,
           Sorted, Of
  <2>5. RemovedAreFree'
    BY <1>a, <1>b, <1>c, <1>d, <1>2
       DEF Public!UploadFails, Public!Ends, PublicSlot, OwnersSteps, RemovedAreFree, UploadsAreNew,
           Unknown, Sorted, Of
  <2>6. Telling'
    BY <1>a, <1>e, <1>2
       DEF Public!UploadFails, Public!Ends, PublicSlot, OwnersSteps, Telling, WillSay
  <2>7. NamedAreThere'
    BY <1>a, <1>b, <1>c, <1>d, <1>f, <1>2
       DEF Public!UploadFails, Public!Ends, PublicSlot, OwnersSteps, NamedAreThere, RemovedAreFree,
           UploadsAreNew, Unknown,
       Sorted, Of, Named, Knows
  <2>8. KeptAreKnown'
    BY <1>a, <1>b, <1>c, <1>d, <1>g, <1>2
       DEF Public!UploadFails, Public!Ends, PublicSlot, OwnersSteps, KeptAreKnown, RemovedAreFree,
           UploadsAreNew, Unknown,
       Sorted, Of, Named, Knows
  <2> QED BY <2>1, <2>2, <2>3, <2>4, <2>5, <2>6, <2>7, <2>8 DEF PublicCore
<1>3. ASSUME Public!ColumnWritten(r) PROVE PublicCore'
  <2>0. /\ publicRequest[r] \in PublicSlot /\ publicRequest'[r] \in PublicSlot
        /\ publicRequest'[r] # None /\ publicRequest'[r].step = "clean"
        /\ publicRequest'[r].kind = publicRequest[r].kind
        /\ publicRequest'[r].file = publicRequest[r].file
        /\ publicRequest'[r].was = publicRequest[r].was
        /\ publicRequest'[r].list = publicRequest[r].list
        /\ \A q \in Two \ {r} : publicRequest'[q] = publicRequest[q]
    BY <1>a, <1>3, PublicGoes DEF Public!ColumnWritten, Public!Writes, Public!With, PublicSteps
  <2>1. PublicTyped'
    BY <1>a, <1>3
       DEF Public!ColumnWritten, Public!Writes, Public!With, Public!Goes, PublicSlot, PublicSteps,
           Lists, PublicLists
  <2>2. OwnersSteps'
    BY <1>a, <1>3
       DEF Public!ColumnWritten, Public!Writes, Public!With, Public!Goes, PublicSlot, OwnersSteps
  <2>3. (\E u \in [Three -> Kinds \cup {"list"}] : Sorted(u))'
    BY <1>a, <1>b, <1>3
       DEF Public!ColumnWritten, Public!Writes, Public!With, Public!Goes, PublicSlot, Sorted, Of
  <2>4. UploadsAreNew'
    BY <1>a, <1>b, <1>c, <1>3
       DEF Public!ColumnWritten, Public!Writes, Public!With, Public!Goes, PublicSlot, OwnersSteps,
           UploadsAreNew, Unknown, Sorted, Of
  <2>5. RemovedAreFree'
    BY <1>a, <1>b, <1>c, <1>d, <1>3
       DEF Public!ColumnWritten, Public!Writes, Public!With, Public!Goes, PublicSlot, OwnersSteps,
           RemovedAreFree, UploadsAreNew, Unknown, Sorted, Of
  <2>6. Telling'
    <3>1. Public!OfColumns(r) /\ \A q \in Two : Public!OfColumns(q)' <=> Public!OfColumns(q)
      BY <1>3, <2>0 DEF Public!ColumnWritten
    <3>2. there /\ there' /\ WillSay(r) => WillSay(r)'
      BY <1>a, <1>3
         DEF Public!ColumnWritten, Public!Writes, Public!With, Public!Goes, PublicSlot,
             OwnersSteps, WillSay
    <3>3. (there' => there) /\ UNCHANGED publicUnsaid
      BY <1>3 DEF Public!ColumnWritten, Public!Writes, Public!With, Public!Goes
    <3> HIDE DEF Public!OfColumns
    <3> QED BY <1>e, <3>1, <3>2, <3>3, AloneTells
  <2>7. NamedAreThere'
    BY <1>a, <1>b, <1>c, <1>d, <1>f, <1>3
       DEF Public!ColumnWritten, Public!Writes, Public!With, Public!Goes, PublicSlot, OwnersSteps,
           NamedAreThere, RemovedAreFree, UploadsAreNew, Unknown,
       Sorted, Of, Named, Knows
  <2>8. KeptAreKnown'
    <3> SUFFICES ASSUME NEW f \in disk, f \notin lost'
                 PROVE  Named(f)' \/ \E q \in Two : Knows(q, f)'
      BY <1>3 DEF Public!ColumnWritten, Public!Writes, Public!With, Public!Goes, KeptAreKnown
    <3>0. f \in Three
      BY <1>a
    <3>1. ASSUME NEW q \in Two \ {r}, Knows(q, f) PROVE Knows(q, f)'
      BY <1>a, <1>3, <3>1 DEF Public!ColumnWritten, Public!Writes, Public!With, Public!Goes, Knows
    <3>2. ASSUME Knows(r, f) PROVE Named(f)'
      <4>1. f = publicRequest[r].file /\ publicRequest[r].kind \in Kinds
        BY <1>a, <1>3, <3>2
           DEF Public!ColumnWritten, Public!Writes, Public!With, Public!Goes, Knows, OwnersSteps
      <4>2. there
        BY <4>1, <1>3 DEF Public!ColumnWritten, Public!Writes, Public!With, Public!Goes
      <4>3. column'[publicRequest[r].kind] = f
        BY <1>a, <1>3, <4>1, <4>2
           DEF Public!ColumnWritten, Public!Writes, Public!With, Public!Goes, PublicSlot
      <4> QED BY <4>1, <4>3 DEF Named
    <3>3. ASSUME Named(f), ~ Named(f)' PROVE Knows(r, f)'
      <4>1. PICK k \in Kinds : column[k] = f /\ column'[k] # f
        BY <1>3, <3>3 DEF Public!ColumnWritten, Public!Writes, Public!With, Public!Goes, Named
      <4>2. there /\ column' = Public!With(r, publicRequest[r].file)
        BY <1>3, <4>1 DEF Public!ColumnWritten, Public!Writes, Public!With, Public!Goes
      <4>3. f = publicRequest[r].was[k]
        BY <1>3, <4>1, <4>2 DEF Public!ColumnWritten, Public!Writes, Public!With, Public!Goes
      <4>4. k = publicRequest[r].kind
        BY <1>a, <1>3, <4>1, <4>2, <4>3
           DEF Public!ColumnWritten, Public!Writes, Public!With, Public!Goes, PublicSlot
      <4> QED BY <2>0, <4>3, <4>4 DEF Knows
    <3>4. Named(f) \/ \E q \in Two : Knows(q, f)
      BY <1>g, <1>3 DEF KeptAreKnown, Public!ColumnWritten, Public!Writes, Public!With
    <3> HIDE DEF Knows, Named
    <3> QED BY <3>1, <3>2, <3>3, <3>4
  <2> QED BY <2>1, <2>2, <2>3, <2>4, <2>5, <2>6, <2>7, <2>8 DEF PublicCore
<1>4. ASSUME Public!WriteFails(r) PROVE PublicCore'
  <2>1. PublicTyped'
    BY <1>a, <1>4 DEF Public!WriteFails, Public!Ends, PublicSlot, PublicSteps, Lists, PublicLists
  <2>2. OwnersSteps'
    BY <1>a, <1>4 DEF Public!WriteFails, Public!Ends, PublicSlot, OwnersSteps
  <2>3. (\E u \in [Three -> Kinds \cup {"list"}] : Sorted(u))'
    BY <1>a, <1>b, <1>4 DEF Public!WriteFails, Public!Ends, PublicSlot, Sorted, Of
  <2>4. UploadsAreNew'
    BY <1>a, <1>b, <1>c, <1>4
       DEF Public!WriteFails, Public!Ends, PublicSlot, OwnersSteps, UploadsAreNew,
           Unknown, Sorted, Of
  <2>5. RemovedAreFree'
    BY <1>a, <1>b, <1>c, <1>d, <1>4
       DEF Public!WriteFails, Public!Ends, PublicSlot, OwnersSteps,
           RemovedAreFree, UploadsAreNew, Unknown, Sorted, Of
  <2>6. Telling'
    BY <1>a, <1>e, <1>4
       DEF Public!WriteFails, Public!Ends, PublicSlot, OwnersSteps, Telling, WillSay
  <2>7. NamedAreThere'
    BY <1>a, <1>b, <1>c, <1>d, <1>f, <1>4
       DEF Public!WriteFails, Public!Ends, PublicSlot, OwnersSteps,
           NamedAreThere, RemovedAreFree, UploadsAreNew, Unknown, Sorted, Of, Named, Knows
  <2>8. KeptAreKnown'
    BY <1>a, <1>b, <1>c, <1>d, <1>g, <1>4
       DEF Public!WriteFails, Public!Ends, PublicSlot, OwnersSteps,
           KeptAreKnown, RemovedAreFree, UploadsAreNew, Unknown, Sorted, Of, Named, Knows
  <2> QED BY <2>1, <2>2, <2>3, <2>4, <2>5, <2>6, <2>7, <2>8 DEF PublicCore
<1>5. ASSUME Public!OldRemoved(r) PROVE PublicCore'
  <2>0. /\ publicRequest[r] \in PublicSlot /\ publicRequest'[r] \in PublicSlot
        /\ publicRequest'[r] # None
        /\ publicRequest'[r].step = IF owner = "user" THEN "read" ELSE "tell"
        /\ publicRequest'[r].kind = publicRequest[r].kind
        /\ publicRequest'[r].file = publicRequest[r].file
        /\ publicRequest'[r].was = publicRequest[r].was
        /\ publicRequest'[r].list = publicRequest[r].list
        /\ \A q \in Two \ {r} : publicRequest'[q] = publicRequest[q]
    <3>1. (IF owner = "user" THEN "read" ELSE "tell") \in PublicSteps
      BY DEF PublicSteps
    <3>2. Public!Goes(r, IF owner = "user" THEN "read" ELSE "tell")
      BY <1>5 DEF Public!OldRemoved
    <3>3. publicRequest[r] # None
      BY <1>5 DEF Public!OldRemoved
    <3> HIDE DEF Public!Goes
    <3> QED BY <1>a, <3>1, <3>2, <3>3, PublicGoes
  <2>1. PublicTyped'
    <3>1. PICK p \in {"read", "tell"} : publicRequest' = [publicRequest EXCEPT ![r].step = p]
      BY <1>5 DEF Public!OldRemoved, Public!Goes
    <3>2. [publicRequest[r] EXCEPT !.step = p] \in PublicSlot
      BY <2>0, PublicSlots DEF PublicSteps
    <3> QED BY <1>a, <1>5, <3>1, <3>2 DEF Public!OldRemoved
  <2>2. OwnersSteps'
    BY <1>a, <1>5 DEF Public!OldRemoved, Public!Goes, Public!Superseded, PublicSlot, OwnersSteps
  <2>3. (\E u \in [Three -> Kinds \cup {"list"}] : Sorted(u))'
    BY <1>a, <1>b, <1>5
       DEF Public!OldRemoved, Public!Goes, Public!Superseded, PublicSlot, Sorted, Of
  <2>4. UploadsAreNew'
    BY <1>a, <1>b, <1>c, <1>5
       DEF Public!OldRemoved, Public!Goes, Public!Superseded, PublicSlot, OwnersSteps,
           UploadsAreNew, Unknown, Sorted, Of
  <2>5. RemovedAreFree'
    BY <1>a, <1>b, <1>c, <1>d, <1>5
       DEF Public!OldRemoved, Public!Goes, Public!Superseded, PublicSlot, OwnersSteps,
           RemovedAreFree, UploadsAreNew, Unknown, Sorted, Of
  <2>6. Telling'
    <3>1. Public!OfColumns(r) /\ \A q \in Two : Public!OfColumns(q)' <=> Public!OfColumns(q)
      BY <1>5, <2>0 DEF Public!OldRemoved
    <3>2. there /\ there' /\ WillSay(r) => WillSay(r)'
      BY <1>a, <1>5
         DEF Public!OldRemoved, Public!Goes, Public!Superseded, PublicSlot, OwnersSteps, WillSay
    <3>3. (there' => there) /\ UNCHANGED publicUnsaid
      BY <1>5 DEF Public!OldRemoved, Public!Goes, Public!Superseded
    <3> HIDE DEF Public!OfColumns
    <3> QED BY <1>e, <3>1, <3>2, <3>3, AloneTells
  <2>7. NamedAreThere'
    BY <1>a, <1>b, <1>c, <1>d, <1>f, <1>5
       DEF Public!OldRemoved, Public!Goes, Public!Superseded, PublicSlot, OwnersSteps,
           NamedAreThere, RemovedAreFree, UploadsAreNew, Unknown,
       Sorted, Of, Named, Knows
  <2>8. KeptAreKnown'
    BY <1>a, <1>b, <1>c, <1>d, <1>g, <1>5
       DEF Public!OldRemoved, Public!Goes, Public!Superseded, PublicSlot, OwnersSteps,
           KeptAreKnown, RemovedAreFree, UploadsAreNew, Unknown,
       Sorted, Of, Named, Knows
  <2> QED BY <2>1, <2>2, <2>3, <2>4, <2>5, <2>6, <2>7, <2>8 DEF PublicCore
<1>6. ASSUME Public!ReadFails(r) PROVE PublicCore'
  <2>1. PublicTyped'
    BY <1>a, <1>6 DEF Public!ReadFails, Public!Ends, PublicSlot, PublicSteps, Lists, PublicLists
  <2>2. OwnersSteps'
    BY <1>a, <1>6 DEF Public!ReadFails, Public!Ends, PublicSlot, OwnersSteps
  <2>3. (\E u \in [Three -> Kinds \cup {"list"}] : Sorted(u))'
    BY <1>a, <1>b, <1>6 DEF Public!ReadFails, Public!Ends, PublicSlot, Sorted, Of
  <2>4. UploadsAreNew'
    BY <1>a, <1>b, <1>c, <1>6
       DEF Public!ReadFails, Public!Ends, PublicSlot, OwnersSteps, UploadsAreNew, Unknown, Sorted,
           Of
  <2>5. RemovedAreFree'
    BY <1>a, <1>b, <1>c, <1>d, <1>6
       DEF Public!ReadFails, Public!Ends, PublicSlot, OwnersSteps, RemovedAreFree, UploadsAreNew,
           Unknown, Sorted, Of
  <2>6. Telling'
    BY <1>a, <1>e, <1>6 DEF Public!ReadFails, Public!Ends, PublicSlot, OwnersSteps, Telling, WillSay
  <2>7. NamedAreThere'
    BY <1>a, <1>b, <1>c, <1>d, <1>f, <1>6
       DEF Public!ReadFails, Public!Ends, PublicSlot, OwnersSteps, NamedAreThere, RemovedAreFree,
           UploadsAreNew, Unknown,
       Sorted, Of, Named, Knows
  <2>8. KeptAreKnown'
    BY <1>a, <1>b, <1>c, <1>d, <1>g, <1>6
       DEF Public!ReadFails, Public!Ends, PublicSlot, OwnersSteps, KeptAreKnown, RemovedAreFree,
           UploadsAreNew, Unknown,
       Sorted, Of, Named, Knows
  <2> QED BY <2>1, <2>2, <2>3, <2>4, <2>5, <2>6, <2>7, <2>8 DEF PublicCore
<1>7. ASSUME Public!Published(r) PROVE PublicCore'
  <2>1. PublicTyped'
    BY <1>a, <1>7 DEF Public!Published, Public!Ends, PublicSlot, PublicSteps, Lists, PublicLists
  <2>2. OwnersSteps'
    BY <1>a, <1>7 DEF Public!Published, Public!Ends, PublicSlot, OwnersSteps
  <2>3. (\E u \in [Three -> Kinds \cup {"list"}] : Sorted(u))'
    BY <1>a, <1>b, <1>7 DEF Public!Published, Public!Ends, PublicSlot, Sorted, Of
  <2>4. UploadsAreNew'
    BY <1>a, <1>b, <1>c, <1>7
       DEF Public!Published, Public!Ends, PublicSlot, OwnersSteps, UploadsAreNew,
           Unknown, Sorted, Of
  <2>5. RemovedAreFree'
    BY <1>a, <1>b, <1>c, <1>d, <1>7
       DEF Public!Published, Public!Ends, PublicSlot, OwnersSteps,
           RemovedAreFree, UploadsAreNew, Unknown, Sorted, Of
  <2>6. Telling'
    BY <1>a, <1>e, <1>7
       DEF Public!Published, Public!Ends, PublicSlot, OwnersSteps, Telling, WillSay
  <2>7. NamedAreThere'
    BY <1>a, <1>b, <1>c, <1>d, <1>f, <1>7
       DEF Public!Published, Public!Ends, PublicSlot, OwnersSteps,
           NamedAreThere, RemovedAreFree, UploadsAreNew, Unknown, Sorted, Of, Named, Knows
  <2>8. KeptAreKnown'
    BY <1>a, <1>b, <1>c, <1>d, <1>g, <1>7
       DEF Public!Published, Public!Ends, PublicSlot, OwnersSteps,
           KeptAreKnown, RemovedAreFree, UploadsAreNew, Unknown, Sorted, Of, Named, Knows
  <2> QED BY <2>1, <2>2, <2>3, <2>4, <2>5, <2>6, <2>7, <2>8 DEF PublicCore
<1>8. ASSUME Public!ProfileFileRemoved(r) PROVE PublicCore'
  <2>0. /\ publicRequest[r] \in PublicSlot /\ publicRequest'[r] \in PublicSlot
        /\ publicRequest'[r] # None /\ publicRequest'[r].step = "cleared"
        /\ publicRequest'[r].kind = publicRequest[r].kind
        /\ publicRequest'[r].file = publicRequest[r].file
        /\ publicRequest'[r].was = publicRequest[r].was
        /\ publicRequest'[r].list = publicRequest[r].list
        /\ \A q \in Two \ {r} : publicRequest'[q] = publicRequest[q]
    BY <1>a, <1>8, PublicGoes DEF Public!ProfileFileRemoved, PublicSteps
  <2>1. PublicTyped'
    BY <1>a, <1>8
       DEF Public!ProfileFileRemoved, Public!Goes, PublicSlot, PublicSteps, Lists, PublicLists
  <2>2. OwnersSteps'
    BY <1>a, <1>8 DEF Public!ProfileFileRemoved, Public!Goes, PublicSlot, OwnersSteps
  <2>3. (\E u \in [Three -> Kinds \cup {"list"}] : Sorted(u))'
    BY <1>a, <1>b, <1>8 DEF Public!ProfileFileRemoved, Public!Goes, PublicSlot, Sorted, Of
  <2>4. UploadsAreNew'
    BY <1>a, <1>b, <1>c, <1>8
       DEF Public!ProfileFileRemoved, Public!Goes, PublicSlot, OwnersSteps, UploadsAreNew, Unknown,
           Sorted, Of
  <2>5. RemovedAreFree'
    BY <1>a, <1>b, <1>c, <1>d, <1>8
       DEF Public!ProfileFileRemoved, Public!Goes, PublicSlot, OwnersSteps, RemovedAreFree,
           UploadsAreNew, Unknown, Sorted, Of
  <2>6. Telling'
    BY <1>a, <1>e, <1>8
       DEF Public!ProfileFileRemoved, Public!Goes, PublicSlot, OwnersSteps, Telling, WillSay
  <2>7. NamedAreThere'
    <3>1. \A f \in Three : publicRows[f] # None => f # Public!Old(r)
      BY <1>a, <1>b, <1>8 DEF Public!ProfileFileRemoved, OwnersSteps, Sorted, Of, PublicSlot
    <3>2. ASSUME NEW k \in Kinds, column[k] = Public!Old(r)
          PROVE  Busy(r, {"cleared"})' /\ Public!Old(r)' = column'[k]
      BY <1>8, <2>0, <3>2 DEF Public!ProfileFileRemoved
    <3>3. ASSUME NEW q \in Two, Busy(q, {"cleared"})
          PROVE  Busy(q, {"cleared"})' /\ Public!Old(q)' = Public!Old(q)
      BY <1>a, <1>8, <3>3 DEF Public!ProfileFileRemoved, Public!Goes, PublicSlot
    <3>4. /\ disk' = disk \ {Public!Old(r)}
          /\ UNCHANGED <<column, publicRows, back>>
      BY <1>8 DEF Public!ProfileFileRemoved
    <3> HIDE DEF Busy, Public!Old
    <3> QED BY <1>f, <3>1, <3>2, <3>3, <3>4 DEF NamedAreThere
  <2>8. KeptAreKnown'
    BY <1>a, <1>b, <1>c, <1>d, <1>g, <1>8
       DEF Public!ProfileFileRemoved, Public!Goes, PublicSlot, OwnersSteps, KeptAreKnown,
           RemovedAreFree, UploadsAreNew, Unknown,
       Sorted, Of, Named, Knows
  <2> QED BY <2>1, <2>2, <2>3, <2>4, <2>5, <2>6, <2>7, <2>8 DEF PublicCore
<1>9. ASSUME Public!ProfileCleared(r) PROVE PublicCore'
  <2>0. /\ publicRequest[r] \in PublicSlot /\ publicRequest'[r] \in PublicSlot
        /\ publicRequest'[r] # None /\ publicRequest'[r].step = "read"
        /\ publicRequest'[r].kind = publicRequest[r].kind
        /\ publicRequest'[r].file = publicRequest[r].file
        /\ publicRequest'[r].was = publicRequest[r].was
        /\ publicRequest'[r].list = publicRequest[r].list
        /\ \A q \in Two \ {r} : publicRequest'[q] = publicRequest[q]
    BY <1>a, <1>9, PublicGoes DEF Public!ProfileCleared, Public!Writes, Public!With, PublicSteps
  <2>1. PublicTyped'
    BY <1>a, <1>9
       DEF Public!ProfileCleared, Public!Writes, Public!With, Public!Goes, PublicSlot, PublicSteps,
           Lists, PublicLists
  <2>2. OwnersSteps'
    BY <1>a, <1>9
       DEF Public!ProfileCleared, Public!Writes, Public!With, Public!Goes, PublicSlot, OwnersSteps
  <2>3. (\E u \in [Three -> Kinds \cup {"list"}] : Sorted(u))'
    BY <1>a, <1>b, <1>9
       DEF Public!ProfileCleared, Public!Writes, Public!With, Public!Goes, PublicSlot, Sorted, Of
  <2>4. UploadsAreNew'
    BY <1>a, <1>b, <1>c, <1>9
       DEF Public!ProfileCleared, Public!Writes, Public!With, Public!Goes, PublicSlot, OwnersSteps,
           UploadsAreNew, Unknown, Sorted, Of
  <2>5. RemovedAreFree'
    BY <1>a, <1>b, <1>c, <1>d, <1>9
       DEF Public!ProfileCleared, Public!Writes, Public!With, Public!Goes, PublicSlot, OwnersSteps,
           RemovedAreFree, UploadsAreNew, Unknown, Sorted, Of
  <2>6. Telling'
    <3>1. Public!OfColumns(r) /\ \A q \in Two : Public!OfColumns(q)' <=> Public!OfColumns(q)
      BY <1>9, <2>0 DEF Public!ProfileCleared
    <3>2. there /\ there' /\ WillSay(r) => WillSay(r)'
      BY <1>a, <1>9
         DEF Public!ProfileCleared, Public!Writes, Public!With, Public!Goes, PublicSlot,
             OwnersSteps, WillSay
    <3>3. (there' => there) /\ UNCHANGED publicUnsaid
      BY <1>9 DEF Public!ProfileCleared, Public!Writes, Public!With, Public!Goes
    <3> HIDE DEF Public!OfColumns
    <3> QED BY <1>e, <3>1, <3>2, <3>3, AloneTells
  <2>7. NamedAreThere'
    BY <1>a, <1>b, <1>c, <1>d, <1>f, <1>9
       DEF Public!ProfileCleared, Public!Writes, Public!With, Public!Goes, PublicSlot, OwnersSteps,
           NamedAreThere, RemovedAreFree, UploadsAreNew, Unknown,
       Sorted, Of, Named, Knows
  <2>8. KeptAreKnown'
    BY <1>a, <1>b, <1>c, <1>d, <1>g, <1>9
       DEF Public!ProfileCleared, Public!Writes, Public!With, Public!Goes, PublicSlot, OwnersSteps,
           KeptAreKnown, RemovedAreFree, UploadsAreNew, Unknown,
       Sorted, Of, Named, Knows
  <2> QED BY <2>1, <2>2, <2>3, <2>4, <2>5, <2>6, <2>7, <2>8 DEF PublicCore
<1>10. ASSUME Public!ProfileFails(r) PROVE PublicCore'
  <2>1. PublicTyped'
    BY <1>a, <1>10 DEF Public!ProfileFails, Public!Ends, PublicSlot, PublicSteps, Lists, PublicLists
  <2>2. OwnersSteps'
    BY <1>a, <1>10 DEF Public!ProfileFails, Public!Ends, PublicSlot, OwnersSteps
  <2>3. (\E u \in [Three -> Kinds \cup {"list"}] : Sorted(u))'
    BY <1>a, <1>b, <1>10 DEF Public!ProfileFails, Public!Ends, PublicSlot, Sorted, Of
  <2>4. UploadsAreNew'
    BY <1>a, <1>b, <1>c, <1>10
       DEF Public!ProfileFails, Public!Ends, PublicSlot, OwnersSteps, UploadsAreNew,
           Unknown, Sorted, Of
  <2>5. RemovedAreFree'
    BY <1>a, <1>b, <1>c, <1>d, <1>10
       DEF Public!ProfileFails, Public!Ends, PublicSlot, OwnersSteps,
           RemovedAreFree, UploadsAreNew, Unknown, Sorted, Of
  <2>6. Telling'
    BY <1>a, <1>e, <1>10
       DEF Public!ProfileFails, Public!Ends, PublicSlot, OwnersSteps, Telling, WillSay
  <2>7. NamedAreThere'
    BY <1>a, <1>b, <1>c, <1>d, <1>f, <1>10
       DEF Public!ProfileFails, Public!Ends, PublicSlot, OwnersSteps,
           NamedAreThere, RemovedAreFree, UploadsAreNew, Unknown, Sorted, Of, Named, Knows
  <2>8. KeptAreKnown'
    BY <1>a, <1>b, <1>c, <1>d, <1>g, <1>10
       DEF Public!ProfileFails, Public!Ends, PublicSlot, OwnersSteps,
           KeptAreKnown, RemovedAreFree, UploadsAreNew, Unknown, Sorted, Of, Named, Knows
  <2> QED BY <2>1, <2>2, <2>3, <2>4, <2>5, <2>6, <2>7, <2>8 DEF PublicCore
<1>11. ASSUME Public!BannerSaved(r) PROVE PublicCore'
  <2>1. PublicTyped'
    <3>1. PICK f \in Three \ used :
            /\ used' = used \cup {f} /\ disk' = disk \cup {f}
            /\ publicRequest' = [publicRequest EXCEPT ![r].step = "place", ![r].file = f]
      BY <1>a, <1>11 DEF Public!BannerSaved, Public!Saved
    <3>2. [[publicRequest[r] EXCEPT !.step = "place"] EXCEPT !.file = f] \in PublicSlot
      BY <1>a, <1>11, PublicSlots DEF Public!BannerSaved, Public!Saved, PublicSteps
    <3> QED BY <1>a, <1>11, <3>1, <3>2 DEF Public!BannerSaved, Public!Saved
  <2>2. OwnersSteps'
    BY <1>a, <1>11 DEF Public!BannerSaved, Public!Saved, PublicSlot, OwnersSteps
  <2>3. (\E u \in [Three -> Kinds \cup {"list"}] : Sorted(u))'
    BY <1>a, <1>b, <1>11 DEF Public!BannerSaved, Public!Saved, PublicSlot, Sorted, Of
  <2>4. UploadsAreNew'
    BY <1>a, <1>b, <1>c, <1>11
       DEF Public!BannerSaved, Public!Saved, PublicSlot, OwnersSteps, UploadsAreNew, Unknown,
           Sorted, Of
  <2>5. RemovedAreFree'
    BY <1>a, <1>b, <1>c, <1>d, <1>11
       DEF Public!BannerSaved, Public!Saved, PublicSlot, OwnersSteps, RemovedAreFree,
           UploadsAreNew, Unknown, Sorted, Of
  <2>6. Telling'
    BY <1>a, <1>e, <1>11
       DEF Public!BannerSaved, Public!Saved, PublicSlot, OwnersSteps, Telling, WillSay
  <2>7. NamedAreThere'
    BY <1>a, <1>b, <1>c, <1>d, <1>f, <1>11
       DEF Public!BannerSaved, Public!Saved, PublicSlot, OwnersSteps, NamedAreThere,
           RemovedAreFree, UploadsAreNew, Unknown,
       Sorted, Of, Named, Knows
  <2>8. KeptAreKnown'
    BY <1>a, <1>b, <1>c, <1>d, <1>g, <1>11
       DEF Public!BannerSaved, Public!Saved, PublicSlot, OwnersSteps, KeptAreKnown, RemovedAreFree,
           UploadsAreNew, Unknown,
       Sorted, Of, Named, Knows
  <2> QED BY <2>1, <2>2, <2>3, <2>4, <2>5, <2>6, <2>7, <2>8 DEF PublicCore
<1>12. ASSUME Public!BannerCreated(r) PROVE PublicCore'
  <2>1. PublicTyped'
    <3>1. Public!Next1(publicRequest[r].list) \in Nat
      BY <1>a, <1>12, NextIsNumber
         DEF Public!BannerCreated, Public!Ends, Public!Crosses, OwnersSteps, Lists
    <3>2. publicRows' \in Lists
      <4> HIDE DEF Public!Next1
      <4> QED BY <1>a, <1>12, <3>1 DEF Public!BannerCreated, Lists, PublicLists
    <3> QED BY <1>a, <1>12, <3>2 DEF Public!BannerCreated, Public!Ends
  <2>2. OwnersSteps'
    BY <1>a, <1>12, <2>1
       DEF Public!BannerCreated, Public!Ends, Public!Crosses, PublicSlot, OwnersSteps
  <2>3. (\E u \in [Three -> Kinds \cup {"list"}] : Sorted(u))'
    BY <1>a, <1>b, <1>12
       DEF Public!BannerCreated, Public!Ends, Public!Crosses, PublicSlot, Sorted, Of
  <2>4. UploadsAreNew'
    BY <1>a, <1>b, <1>c, <1>12, <2>1
       DEF Public!BannerCreated, Public!Ends, Public!Crosses, PublicSlot, OwnersSteps,
           UploadsAreNew, Unknown, Sorted, Of
  <2>5. RemovedAreFree'
    BY <1>a, <1>b, <1>c, <1>d, <1>12, <2>1
       DEF Public!BannerCreated, Public!Ends, Public!Crosses, PublicSlot, OwnersSteps,
           RemovedAreFree, UploadsAreNew, Unknown, Sorted, Of
  <2>6. Telling'
    BY <1>a, <1>e, <1>12, <2>1
       DEF Public!BannerCreated, Public!Ends, Public!Crosses, PublicSlot, OwnersSteps, Telling,
           WillSay
  <2>7. NamedAreThere'
    BY <1>a, <1>b, <1>c, <1>d, <1>f, <1>12, <2>1
       DEF Public!BannerCreated, Public!Ends, Public!Crosses, PublicSlot, OwnersSteps,
           NamedAreThere, RemovedAreFree, UploadsAreNew, Unknown,
       Sorted, Of, Named, Knows
  <2>8. KeptAreKnown'
    <3> SUFFICES ASSUME NEW f \in disk, f \notin lost'
                 PROVE  Named(f)' \/ \E q \in Two : Knows(q, f)'
      BY <1>12 DEF Public!BannerCreated, Public!Ends, Public!Crosses, KeptAreKnown
    <3>0. f \in Three
      BY <1>a
    <3>1. publicRequest[r].file = f => publicRows'[f] # None
      <4>1. Public!Next1(publicRequest[r].list) \in Nat
        BY <1>a, <1>12, NextIsNumber
           DEF Public!BannerCreated, Public!Ends, Public!Crosses, OwnersSteps, Lists
      <4> HIDE DEF Public!Next1
      <4> QED BY <1>a, <1>12, <3>0, <4>1
         DEF Public!BannerCreated, Public!Ends, Public!Crosses, Lists, PublicLists
    <3>2. publicRequest[r].file # f => publicRows'[f] = publicRows[f]
      BY <1>a, <1>12, <3>0 DEF Public!BannerCreated, Public!Ends, Public!Crosses, Lists, PublicLists
    <3>3. ASSUME NEW q \in Two \ {r}, Knows(q, f) PROVE Knows(q, f)'
      BY <1>a, <1>12, <3>3 DEF Public!BannerCreated, Public!Ends, Public!Crosses, Knows
    <3>4. ASSUME Knows(r, f) PROVE publicRequest[r].file = f
      BY <1>12, <3>4 DEF Public!BannerCreated, Public!Ends, Public!Crosses, Knows
    <3>5. Named(f) => Named(f)'
      BY <1>12, <3>1, <3>2 DEF Public!BannerCreated, Public!Ends, Public!Crosses, Named
    <3> QED BY <1>g, <1>12, <3>1, <3>3, <3>4, <3>5
       DEF KeptAreKnown, Public!BannerCreated, Public!Ends, Public!Crosses, Named
  <2> QED BY <2>1, <2>2, <2>3, <2>4, <2>5, <2>6, <2>7, <2>8 DEF PublicCore
<1>13. ASSUME Public!BannerDeleted(r) PROVE PublicCore'
  <2>1. PublicTyped'
    <3>1. publicRequest' = [publicRequest EXCEPT ![r].step = "load"]
      BY <1>13 DEF Public!BannerDeleted, Public!Goes
    <3>2. [publicRequest[r] EXCEPT !.step = "load"] \in PublicSlot
      BY <1>a, <1>13, PublicSlots DEF Public!BannerDeleted, PublicSteps
    <3>3. publicRows' \in Lists
      BY <1>a, <1>13 DEF Public!BannerDeleted, Lists, PublicLists
    <3> QED BY <1>a, <1>13, <3>1, <3>2, <3>3 DEF Public!BannerDeleted
  <2>2. OwnersSteps'
    BY <1>a, <1>13, <2>1 DEF Public!BannerDeleted, Public!Goes, PublicSlot, OwnersSteps
  <2>3. (\E u \in [Three -> Kinds \cup {"list"}] : Sorted(u))'
    BY <1>a, <1>b, <1>13 DEF Public!BannerDeleted, Public!Goes, PublicSlot, Sorted, Of
  <2>4. UploadsAreNew'
    BY <1>a, <1>b, <1>c, <1>13, <2>1
       DEF Public!BannerDeleted, Public!Goes, PublicSlot, OwnersSteps, UploadsAreNew, Unknown,
           Sorted, Of
  <2>5. RemovedAreFree'
    BY <1>a, <1>b, <1>c, <1>d, <1>13, <2>1
       DEF Public!BannerDeleted, Public!Goes, PublicSlot, OwnersSteps, RemovedAreFree,
           UploadsAreNew, Unknown, Sorted, Of
  <2>6. Telling'
    BY <1>a, <1>e, <1>13, <2>1
       DEF Public!BannerDeleted, Public!Goes, PublicSlot, OwnersSteps, Telling, WillSay
  <2>7. NamedAreThere'
    <3>1. \A k \in Kinds : column[k] = None \/ column[k] # publicRequest[r].file
      BY <1>a, <1>b, <1>13 DEF Public!BannerDeleted, Sorted, Of, PublicSlot
    <3>2. ASSUME NEW q \in Two, Busy(q, {"cleared"})
          PROVE  Busy(q, {"cleared"})' /\ Public!Old(q)' = Public!Old(q)
      BY <1>a, <1>13, <3>2 DEF Public!BannerDeleted, Public!Goes, PublicSlot
    <3>3. /\ disk' = disk \ {publicRequest[r].file}
          /\ publicRows' = [publicRows EXCEPT ![publicRequest[r].file] = None]
          /\ UNCHANGED <<column, back>>
      BY <1>13 DEF Public!BannerDeleted
    <3>4. publicRows \in [Three -> Nat \cup {None}]
      BY <1>a DEF Lists, PublicLists
    <3>5. \A f \in Three : publicRows'[f] # None => f \in disk'
      BY <1>f, <3>3, <3>4 DEF NamedAreThere
    <3> HIDE DEF Busy, Public!Old
    <3> QED BY <1>f, <3>1, <3>2, <3>3, <3>5 DEF NamedAreThere
  <2>8. KeptAreKnown'
    BY <1>a, <1>b, <1>c, <1>d, <1>g, <1>13, <2>1
       DEF Public!BannerDeleted, Public!Goes, PublicSlot, OwnersSteps, KeptAreKnown,
           RemovedAreFree, UploadsAreNew, Unknown,
       Sorted, Of, Named, Knows
  <2> QED BY <2>1, <2>2, <2>3, <2>4, <2>5, <2>6, <2>7, <2>8 DEF PublicCore
<1>14. ASSUME Public!Renumbered(r) PROVE PublicCore'
  <2>1. PublicTyped'
    <3>1. PICK o \in Public!Orders(publicRequest[r].list) :
            publicRows' = [f \in Three |-> IF publicRows[f] # None /\ f \in DOMAIN o THEN o[f]
                                           ELSE publicRows[f]]
      BY <1>a, <1>14 DEF Public!Renumbered, Public!Ends, Public!Crosses, Public!Placed
    <3>2. \A f \in DOMAIN o : o[f] \in Nat
      <4>1. PICK k : o \in [Public!Listed(publicRequest[r].list) -> 0..k]
        BY PublicCounts, ListedFinite DEF Public!Orders
      <4>2. 0..k \subseteq Nat
        OBVIOUS
      <4> QED BY <4>1, <4>2
    <3>3. publicRows' \in Lists
      BY <1>a, <3>1, <3>2 DEF Lists, PublicLists
    <3> QED BY <1>a, <1>14, <3>3 DEF Public!Renumbered, Public!Ends, Public!Crosses, Public!Placed
  <2>2. OwnersSteps'
    BY <1>a, <1>14, <2>1
       DEF Public!Renumbered, Public!Ends, Public!Crosses, Public!Placed, PublicSlot, OwnersSteps
  <2>3. (\E u \in [Three -> Kinds \cup {"list"}] : Sorted(u))'
    BY <1>a, <1>b, <1>14
       DEF Public!Renumbered, Public!Ends, Public!Crosses, Public!Placed, PublicSlot, Sorted, Of
  <2>4. UploadsAreNew'
    BY <1>a, <1>b, <1>c, <1>14, <2>1
       DEF Public!Renumbered, Public!Ends, Public!Crosses, Public!Placed, PublicSlot, OwnersSteps,
           UploadsAreNew, Unknown, Sorted, Of
  <2>5. RemovedAreFree'
    BY <1>a, <1>b, <1>c, <1>d, <1>14, <2>1
       DEF Public!Renumbered, Public!Ends, Public!Crosses, Public!Placed, PublicSlot, OwnersSteps,
           RemovedAreFree, UploadsAreNew, Unknown, Sorted, Of
  <2>6. Telling'
    BY <1>a, <1>e, <1>14, <2>1
       DEF Public!Renumbered, Public!Ends, Public!Crosses, Public!Placed, PublicSlot, OwnersSteps,
           Telling, WillSay
  <2>7. NamedAreThere'
    BY <1>a, <1>b, <1>c, <1>d, <1>f, <1>14, <2>1
       DEF Public!Renumbered, Public!Ends, Public!Crosses, Public!Placed, PublicSlot, OwnersSteps,
           NamedAreThere, RemovedAreFree, UploadsAreNew, Unknown,
       Sorted, Of, Named, Knows
  <2>8. KeptAreKnown'
    <3> SUFFICES ASSUME NEW f \in disk, f \notin lost'
                 PROVE  Named(f)' \/ \E q \in Two : Knows(q, f)'
      BY <1>14 DEF Public!Renumbered, Public!Ends, Public!Crosses, Public!Placed, KeptAreKnown
    <3>0. f \in Three
      BY <1>a
    <3>1. publicRows'[f] = None <=> publicRows[f] = None
      <4>1. PICK o \in Public!Orders(publicRequest[r].list) :
              publicRows' = [g \in Three |-> IF publicRows[g] # None /\ g \in DOMAIN o THEN o[g]
                                             ELSE publicRows[g]]
        BY <1>14 DEF Public!Renumbered, Public!Ends, Public!Crosses, Public!Placed
      <4>2. \A g \in DOMAIN o : o[g] \in Nat
        BY PublicCounts, ListedFinite DEF Public!Orders
      <4> QED BY <3>0, <4>1, <4>2
    <3>2. ASSUME NEW q \in Two, Knows(q, f) PROVE Knows(q, f)'
      BY <1>a, <1>14, <3>2 DEF Public!Renumbered, Public!Ends, Public!Crosses, Public!Placed, Knows
    <3>3. Named(f) => Named(f)'
      BY <1>14, <3>1 DEF Public!Renumbered, Public!Ends, Public!Crosses, Public!Placed, Named
    <3> QED BY <1>g, <1>14, <3>2, <3>3
       DEF KeptAreKnown, Public!Renumbered, Public!Ends, Public!Crosses, Public!Placed
  <2> QED BY <2>1, <2>2, <2>3, <2>4, <2>5, <2>6, <2>7, <2>8 DEF PublicCore
<1>15. ASSUME Public!OrderWritten(r) PROVE PublicCore'
  <2>1. PublicTyped'
    <3>1. PICK o \in Public!Orders(publicRequest[r].list) :
            publicRows' = [f \in Three |-> IF publicRows[f] # None /\ f \in DOMAIN o THEN o[f]
                                           ELSE publicRows[f]]
      BY <1>a, <1>15 DEF Public!OrderWritten, Public!Ends, Public!Crosses, Public!Placed
    <3>2. \A f \in DOMAIN o : o[f] \in Nat
      <4>1. PICK k : o \in [Public!Listed(publicRequest[r].list) -> 0..k]
        BY PublicCounts, ListedFinite DEF Public!Orders
      <4>2. 0..k \subseteq Nat
        OBVIOUS
      <4> QED BY <4>1, <4>2
    <3>3. publicRows' \in Lists
      BY <1>a, <3>1, <3>2 DEF Lists, PublicLists
    <3> QED BY <1>a, <1>15, <3>3 DEF Public!OrderWritten, Public!Ends, Public!Crosses, Public!Placed
  <2>2. OwnersSteps'
    BY <1>a, <1>15, <2>1
       DEF Public!OrderWritten, Public!Ends, Public!Crosses, Public!Placed, PublicSlot, OwnersSteps
  <2>3. (\E u \in [Three -> Kinds \cup {"list"}] : Sorted(u))'
    BY <1>a, <1>b, <1>15
       DEF Public!OrderWritten, Public!Ends, Public!Crosses, Public!Placed, PublicSlot, Sorted, Of
  <2>4. UploadsAreNew'
    BY <1>a, <1>b, <1>c, <1>15, <2>1
       DEF Public!OrderWritten, Public!Ends, Public!Crosses, Public!Placed, PublicSlot,
           OwnersSteps, UploadsAreNew, Unknown, Sorted, Of
  <2>5. RemovedAreFree'
    BY <1>a, <1>b, <1>c, <1>d, <1>15, <2>1
       DEF Public!OrderWritten, Public!Ends, Public!Crosses, Public!Placed, PublicSlot,
           OwnersSteps, RemovedAreFree, UploadsAreNew, Unknown, Sorted, Of
  <2>6. Telling'
    BY <1>a, <1>e, <1>15, <2>1
       DEF Public!OrderWritten, Public!Ends, Public!Crosses, Public!Placed, PublicSlot,
           OwnersSteps, Telling, WillSay
  <2>7. NamedAreThere'
    BY <1>a, <1>b, <1>c, <1>d, <1>f, <1>15, <2>1
       DEF Public!OrderWritten, Public!Ends, Public!Crosses, Public!Placed, PublicSlot,
           OwnersSteps, NamedAreThere, RemovedAreFree, UploadsAreNew, Unknown,
       Sorted, Of, Named, Knows
  <2>8. KeptAreKnown'
    <3> SUFFICES ASSUME NEW f \in disk, f \notin lost'
                 PROVE  Named(f)' \/ \E q \in Two : Knows(q, f)'
      BY <1>15 DEF Public!OrderWritten, Public!Ends, Public!Crosses, Public!Placed, KeptAreKnown
    <3>0. f \in Three
      BY <1>a
    <3>1. publicRows'[f] = None <=> publicRows[f] = None
      <4>1. PICK o \in Public!Orders(publicRequest[r].list) :
              publicRows' = [g \in Three |-> IF publicRows[g] # None /\ g \in DOMAIN o THEN o[g]
                                             ELSE publicRows[g]]
        BY <1>15 DEF Public!OrderWritten, Public!Ends, Public!Crosses, Public!Placed
      <4>2. \A g \in DOMAIN o : o[g] \in Nat
        BY PublicCounts, ListedFinite DEF Public!Orders
      <4> QED BY <3>0, <4>1, <4>2
    <3>2. ASSUME NEW q \in Two, Knows(q, f) PROVE Knows(q, f)'
      BY <1>a, <1>15, <3>2
         DEF Public!OrderWritten, Public!Ends, Public!Crosses, Public!Placed, Knows
    <3>3. Named(f) => Named(f)'
      BY <1>15, <3>1 DEF Public!OrderWritten, Public!Ends, Public!Crosses, Public!Placed, Named
    <3> QED BY <1>g, <1>15, <3>2, <3>3
       DEF KeptAreKnown, Public!OrderWritten, Public!Ends, Public!Crosses, Public!Placed
  <2> QED BY <2>1, <2>2, <2>3, <2>4, <2>5, <2>6, <2>7, <2>8 DEF PublicCore
<1>16. ASSUME Public!GuildDeleted(r) PROVE PublicCore'
  <2>0. /\ publicRequest[r] \in PublicSlot /\ publicRequest'[r] \in PublicSlot
        /\ publicRequest'[r] # None /\ publicRequest'[r].step = "files"
        /\ publicRequest'[r].kind = publicRequest[r].kind
        /\ publicRequest'[r].file = publicRequest[r].file
        /\ publicRequest'[r].was = publicRequest[r].was
        /\ publicRequest'[r].list = publicRequest[r].list
        /\ \A q \in Two \ {r} : publicRequest'[q] = publicRequest[q]
    BY <1>a, <1>16, PublicGoes DEF Public!GuildDeleted, PublicSteps
  <2>1. PublicTyped'
    <3>1. publicRequest' = [publicRequest EXCEPT ![r].step = "files"]
      BY <1>16 DEF Public!GuildDeleted, Public!Goes
    <3>2. [publicRequest[r] EXCEPT !.step = "files"] \in PublicSlot
      BY <2>0, PublicSlots DEF PublicSteps
    <3>3. publicRows' \in Lists /\ column' \in [Kinds -> Three \cup {None}]
      BY <1>16 DEF Public!GuildDeleted, Lists, PublicLists
    <3> QED BY <1>a, <1>16, <3>1, <3>2, <3>3 DEF Public!GuildDeleted
  <2>2. OwnersSteps'
    BY <1>a, <1>16 DEF Public!GuildDeleted, Public!Goes, PublicSlot, OwnersSteps
  <2>3. (\E u \in [Three -> Kinds \cup {"list"}] : Sorted(u))'
    BY <1>a, <1>b, <1>16 DEF Public!GuildDeleted, Public!Goes, PublicSlot, Sorted, Of
  <2>4. UploadsAreNew'
    BY <1>a, <1>b, <1>c, <1>16
       DEF Public!GuildDeleted, Public!Goes, PublicSlot, OwnersSteps, UploadsAreNew, Unknown,
           Sorted, Of
  <2>5. RemovedAreFree'
    BY <1>a, <1>b, <1>c, <1>d, <1>16
       DEF Public!GuildDeleted, Public!Goes, PublicSlot, OwnersSteps, RemovedAreFree,
           UploadsAreNew, Unknown, Sorted, Of
  <2>6. Telling'
    BY <1>a, <1>e, <1>16
       DEF Public!GuildDeleted, Public!Goes, PublicSlot, OwnersSteps, Telling, WillSay
  <2>7. NamedAreThere'
    BY <1>a, <1>b, <1>c, <1>d, <1>f, <1>16
       DEF Public!GuildDeleted, Public!Goes, PublicSlot, OwnersSteps, NamedAreThere,
           RemovedAreFree, UploadsAreNew, Unknown,
       Sorted, Of, Named, Knows
  <2>8. KeptAreKnown'
    <3> SUFFICES ASSUME NEW f \in disk, f \notin lost'
                 PROVE  Named(f)' \/ \E q \in Two : Knows(q, f)'
      BY <1>16 DEF Public!GuildDeleted, Public!Goes, KeptAreKnown
    <3>0. f \in Three
      BY <1>a
    <3>1. ASSUME NEW q \in Two, Knows(q, f) PROVE Knows(q, f)'
      BY <1>a, <1>16, <3>1 DEF Public!GuildDeleted, Public!Goes, Knows
    <3>2. ASSUME Named(f) PROVE Knows(r, f)'
      <4>1. Public!Listed(publicRows) \subseteq Public!Listed(publicRequest[r].list) \cup lost'
        BY <1>16 DEF Public!GuildDeleted
      <4>2. \A k \in Kinds : column[k] # f
        BY <1>16 DEF Public!GuildDeleted
      <4> QED BY <2>0, <3>0, <3>2, <4>1, <4>2 DEF Named, Knows
    <3> QED BY <1>g, <1>16, <3>1, <3>2 DEF KeptAreKnown, Public!GuildDeleted, Public!Goes
  <2> QED BY <2>1, <2>2, <2>3, <2>4, <2>5, <2>6, <2>7, <2>8 DEF PublicCore
<1>17. ASSUME Public!BannerFilesRemoved(r) PROVE PublicCore'
  <2>1. PublicTyped'
    BY <1>a, <1>17 DEF Public!BannerFilesRemoved, Public!Ends, PublicSlot, PublicSteps, Lists, PublicLists
  <2>2. OwnersSteps'
    BY <1>a, <1>17 DEF Public!BannerFilesRemoved, Public!Ends, PublicSlot, OwnersSteps
  <2>3. (\E u \in [Three -> Kinds \cup {"list"}] : Sorted(u))'
    BY <1>a, <1>b, <1>17 DEF Public!BannerFilesRemoved, Public!Ends, PublicSlot, Sorted, Of
  <2>4. UploadsAreNew'
    BY <1>a, <1>b, <1>c, <1>17
       DEF Public!BannerFilesRemoved, Public!Ends, PublicSlot, OwnersSteps, UploadsAreNew,
           Unknown, Sorted, Of
  <2>5. RemovedAreFree'
    BY <1>a, <1>b, <1>c, <1>d, <1>17
       DEF Public!BannerFilesRemoved, Public!Ends, PublicSlot, OwnersSteps,
           RemovedAreFree, UploadsAreNew, Unknown, Sorted, Of
  <2>6. Telling'
    BY <1>a, <1>e, <1>17
       DEF Public!BannerFilesRemoved, Public!Ends, PublicSlot, OwnersSteps, Telling, WillSay
  <2>7. NamedAreThere'
    BY <1>a, <1>b, <1>c, <1>d, <1>f, <1>17
       DEF Public!BannerFilesRemoved, Public!Ends, PublicSlot, OwnersSteps,
           NamedAreThere, RemovedAreFree, UploadsAreNew, Unknown, Sorted, Of, Named, Knows
  <2>8. KeptAreKnown'
    BY <1>a, <1>b, <1>c, <1>d, <1>g, <1>17
       DEF Public!BannerFilesRemoved, Public!Ends, PublicSlot, OwnersSteps,
           KeptAreKnown, RemovedAreFree, UploadsAreNew, Unknown, Sorted, Of, Named, Knows
  <2> QED BY <2>1, <2>2, <2>3, <2>4, <2>5, <2>6, <2>7, <2>8 DEF PublicCore
<1>18. ASSUME Public!ReadAgain(r) PROVE PublicCore'
  <2>0. /\ publicRequest[r] \in PublicSlot /\ publicRequest'[r] \in PublicSlot
        /\ publicRequest'[r] # None /\ publicRequest'[r].step = "tell"
        /\ publicRequest'[r].kind = publicRequest[r].kind
        /\ publicRequest'[r].file = publicRequest[r].file
        /\ \A q \in Two \ {r} : publicRequest'[q] = publicRequest[q]
    BY <1>a, <1>18, PublicGoes DEF Public!ReadAgain, PublicSteps
  <2>1. PublicTyped'
    <3>1. [[publicRequest[r] EXCEPT !.step = "tell"] EXCEPT !.was = column] \in PublicSlot
      BY <1>a, <1>18, PublicSlots DEF Public!ReadAgain, PublicSteps
    <3> QED BY <1>a, <1>18, <3>1 DEF Public!ReadAgain
  <2>2. OwnersSteps'
    BY <1>a, <1>18 DEF Public!ReadAgain, PublicSlot, OwnersSteps
  <2>3. (\E u \in [Three -> Kinds \cup {"list"}] : Sorted(u))'
    BY <1>a, <1>b, <1>18 DEF Public!ReadAgain, PublicSlot, Sorted, Of
  <2>4. UploadsAreNew'
    BY <1>a, <1>b, <1>c, <1>18
       DEF Public!ReadAgain, PublicSlot, OwnersSteps, UploadsAreNew, Unknown, Sorted, Of
  <2>5. RemovedAreFree'
    BY <1>a, <1>b, <1>c, <1>d, <1>18
       DEF Public!ReadAgain, PublicSlot, OwnersSteps, RemovedAreFree, UploadsAreNew, Unknown,
           Sorted, Of
  <2>6. Telling'
    <3>1. Public!OfColumns(r) /\ \A q \in Two : Public!OfColumns(q)' <=> Public!OfColumns(q)
      BY <1>18, <2>0 DEF Public!ReadAgain
    <3>2. there /\ there' /\ WillSay(r) => WillSay(r)'
      BY <1>a, <1>18 DEF Public!ReadAgain, PublicSlot, OwnersSteps, WillSay
    <3>3. (there' => there) /\ UNCHANGED publicUnsaid
      BY <1>18 DEF Public!ReadAgain
    <3> HIDE DEF Public!OfColumns
    <3> QED BY <1>e, <3>1, <3>2, <3>3, AloneTells
  <2>7. NamedAreThere'
    BY <1>a, <1>b, <1>c, <1>d, <1>f, <1>18
       DEF Public!ReadAgain, PublicSlot, OwnersSteps, NamedAreThere, RemovedAreFree, UploadsAreNew,
           Unknown,
       Sorted, Of, Named, Knows
  <2>8. KeptAreKnown'
    BY <1>a, <1>b, <1>c, <1>d, <1>g, <1>18
       DEF Public!ReadAgain, PublicSlot, OwnersSteps, KeptAreKnown, RemovedAreFree, UploadsAreNew,
           Unknown,
       Sorted, Of, Named, Knows
  <2> QED BY <2>1, <2>2, <2>3, <2>4, <2>5, <2>6, <2>7, <2>8 DEF PublicCore
<1>19. ASSUME Public!StyleWritten(r) PROVE PublicCore'
  <2>0. /\ publicRequest[r] \in PublicSlot /\ publicRequest'[r] \in PublicSlot
        /\ publicRequest'[r] # None /\ publicRequest'[r].step = "tell"
        /\ publicRequest'[r].kind = publicRequest[r].kind
        /\ publicRequest'[r].file = publicRequest[r].file
        /\ \A q \in Two \ {r} : publicRequest'[q] = publicRequest[q]
    <3>1. PICK w \in [Kinds -> Three \cup {None}] :
            publicRequest' = [publicRequest EXCEPT ![r].step = "tell", ![r].was = w]
      <4>1. publicRequest[r].was \in [Kinds -> Three \cup {None}]
        BY <1>a, <1>19 DEF Public!StyleWritten, Public!Overwrites, PublicSlot
      <4> QED BY <1>a, <1>19, <4>1 DEF Public!StyleWritten, Public!Overwrites
    <3>2. publicRequest[r] # None /\ "tell" \in PublicSteps
      BY <1>19 DEF Public!StyleWritten, Public!Overwrites, PublicSteps
    <3> QED BY <1>a, <3>1, <3>2, PublicGoes
  <2>1. PublicTyped'
    <3>1. PICK new \in [Kinds -> Three \cup {None}] :
            /\ column' = new
            /\ publicRequest' = [publicRequest EXCEPT ![r].step = "tell", ![r].was = new]
      <4>1. publicRequest[r].was \in [Kinds -> Three \cup {None}]
        BY <1>a, <1>19 DEF Public!StyleWritten, Public!Overwrites, PublicSlot
      <4> QED BY <1>a, <1>19, <4>1 DEF Public!StyleWritten, Public!Overwrites
    <3>2. [[publicRequest[r] EXCEPT !.step = "tell"] EXCEPT !.was = new] \in PublicSlot
      BY <1>a, <1>19, PublicSlots DEF Public!StyleWritten, Public!Overwrites, PublicSteps
    <3> QED BY <1>a, <1>19, <3>1, <3>2 DEF Public!StyleWritten, Public!Overwrites
  <2>2. OwnersSteps'
    BY <1>a, <1>19 DEF Public!StyleWritten, Public!Overwrites, PublicSlot, OwnersSteps
  <2>3. (\E u \in [Three -> Kinds \cup {"list"}] : Sorted(u))'
    BY <1>a, <1>b, <1>19 DEF Public!StyleWritten, Public!Overwrites, PublicSlot, Sorted, Of
  <2>4. UploadsAreNew'
    BY <1>a, <1>b, <1>c, <1>19
       DEF Public!StyleWritten, Public!Overwrites, PublicSlot, OwnersSteps, UploadsAreNew, Unknown, Sorted, Of
  <2>5. RemovedAreFree'
    BY <1>a, <1>b, <1>c, <1>d, <1>19
       DEF Public!StyleWritten, Public!Overwrites, PublicSlot, OwnersSteps, RemovedAreFree, UploadsAreNew, Unknown,
           Sorted, Of
  <2>6. Telling'
    <3>1. Public!OfColumns(r) /\ \A q \in Two : Public!OfColumns(q)' <=> Public!OfColumns(q)
      BY <1>19, <2>0 DEF Public!StyleWritten, Public!Overwrites
    <3>2. there /\ there' /\ WillSay(r) => WillSay(r)'
      BY <1>a, <1>19 DEF Public!StyleWritten, Public!Overwrites, PublicSlot, OwnersSteps, WillSay
    <3>3. (there' => there) /\ UNCHANGED publicUnsaid
      BY <1>19 DEF Public!StyleWritten, Public!Overwrites
    <3> HIDE DEF Public!OfColumns
    <3> QED BY <1>e, <3>1, <3>2, <3>3, AloneTells
  <2>7. NamedAreThere'
    BY <1>a, <1>b, <1>c, <1>d, <1>f, <1>19
       DEF Public!StyleWritten, Public!Overwrites, PublicSlot, OwnersSteps, NamedAreThere, RemovedAreFree,
           UploadsAreNew, Unknown,
       Sorted, Of, Named, Knows
  <2>8. KeptAreKnown'
    BY <1>a, <1>b, <1>c, <1>d, <1>g, <1>19
       DEF Public!StyleWritten, Public!Overwrites, PublicSlot, OwnersSteps, KeptAreKnown, RemovedAreFree,
           UploadsAreNew, Unknown,
       Sorted, Of, Named, Knows
  <2> QED BY <2>1, <2>2, <2>3, <2>4, <2>5, <2>6, <2>7, <2>8 DEF PublicCore
<1>20. ASSUME Public!PositionRead(r) PROVE PublicCore'
  <2>0. /\ publicRequest[r] \in PublicSlot /\ publicRequest'[r] \in PublicSlot
        /\ publicRequest'[r] # None /\ publicRequest'[r].step = "create"
        /\ publicRequest'[r].kind = publicRequest[r].kind
        /\ publicRequest'[r].file = publicRequest[r].file
        /\ \A q \in Two \ {r} : publicRequest'[q] = publicRequest[q]
    BY <1>a, <1>20, PublicGoes DEF Public!PositionRead, PublicSteps
  <2>1. PublicTyped'
    <3>1. [[publicRequest[r] EXCEPT !.step = "create"] EXCEPT !.list = publicRows] \in PublicSlot
      BY <1>a, <1>20, PublicSlots DEF Public!PositionRead, PublicSteps
    <3> QED BY <1>a, <1>20, <3>1 DEF Public!PositionRead
  <2>2. OwnersSteps'
    BY <1>a, <1>20 DEF Public!PositionRead, PublicSlot, OwnersSteps
  <2>3. (\E u \in [Three -> Kinds \cup {"list"}] : Sorted(u))'
    BY <1>a, <1>b, <1>20 DEF Public!PositionRead, PublicSlot, Sorted, Of
  <2>4. UploadsAreNew'
    BY <1>a, <1>b, <1>c, <1>20
       DEF Public!PositionRead, PublicSlot, OwnersSteps, UploadsAreNew, Unknown, Sorted, Of
  <2>5. RemovedAreFree'
    BY <1>a, <1>b, <1>c, <1>d, <1>20
       DEF Public!PositionRead, PublicSlot, OwnersSteps, RemovedAreFree, UploadsAreNew, Unknown,
           Sorted, Of
  <2>6. Telling'
    BY <1>a, <1>e, <1>20 DEF Public!PositionRead, PublicSlot, OwnersSteps, Telling, WillSay
  <2>7. NamedAreThere'
    BY <1>a, <1>b, <1>c, <1>d, <1>f, <1>20
       DEF Public!PositionRead, PublicSlot, OwnersSteps, NamedAreThere, RemovedAreFree,
           UploadsAreNew, Unknown,
       Sorted, Of, Named, Knows
  <2>8. KeptAreKnown'
    <3> SUFFICES ASSUME NEW f \in disk, f \notin lost'
                 PROVE  Named(f)' \/ \E q \in Two : Knows(q, f)'
      BY <1>20 DEF Public!PositionRead, KeptAreKnown
    <3>0. f \in Three
      BY <1>a
    <3>1. ASSUME NEW q \in Two, Knows(q, f) PROVE Knows(q, f)'
      BY <1>20, <2>0, <3>1 DEF Public!PositionRead, Knows
    <3>2. Named(f) => Named(f)'
      BY <1>20 DEF Public!PositionRead, Named
    <3> QED BY <1>g, <1>20, <3>1, <3>2 DEF KeptAreKnown, Public!PositionRead
  <2> QED BY <2>1, <2>2, <2>3, <2>4, <2>5, <2>6, <2>7, <2>8 DEF PublicCore
<1>21. ASSUME Public!RowsLoaded(r) PROVE PublicCore'
  <2>1. PublicTyped'
    <3>1. [[publicRequest[r] EXCEPT !.step = "number"] EXCEPT !.list = publicRows] \in PublicSlot
      BY <1>a, <1>21, PublicSlots DEF Public!RowsLoaded, PublicSteps
    <3> QED BY <1>a, <1>21, <3>1 DEF Public!RowsLoaded
  <2>2. OwnersSteps'
    BY <1>a, <1>21 DEF Public!RowsLoaded, PublicSlot, OwnersSteps
  <2>3. (\E u \in [Three -> Kinds \cup {"list"}] : Sorted(u))'
    BY <1>a, <1>b, <1>21 DEF Public!RowsLoaded, PublicSlot, Sorted, Of
  <2>4. UploadsAreNew'
    BY <1>a, <1>b, <1>c, <1>21
       DEF Public!RowsLoaded, PublicSlot, OwnersSteps, UploadsAreNew, Unknown, Sorted, Of
  <2>5. RemovedAreFree'
    BY <1>a, <1>b, <1>c, <1>d, <1>21
       DEF Public!RowsLoaded, PublicSlot, OwnersSteps, RemovedAreFree, UploadsAreNew, Unknown,
           Sorted, Of
  <2>6. Telling'
    BY <1>a, <1>e, <1>21 DEF Public!RowsLoaded, PublicSlot, OwnersSteps, Telling, WillSay
  <2>7. NamedAreThere'
    BY <1>a, <1>b, <1>c, <1>d, <1>f, <1>21
       DEF Public!RowsLoaded, PublicSlot, OwnersSteps, NamedAreThere, RemovedAreFree,
           UploadsAreNew, Unknown,
       Sorted, Of, Named, Knows
  <2>8. KeptAreKnown'
    BY <1>a, <1>b, <1>c, <1>d, <1>g, <1>21
       DEF Public!RowsLoaded, PublicSlot, OwnersSteps, KeptAreKnown, RemovedAreFree, UploadsAreNew,
           Unknown,
       Sorted, Of, Named, Knows
  <2> QED BY <2>1, <2>2, <2>3, <2>4, <2>5, <2>6, <2>7, <2>8 DEF PublicCore
<1>22. ASSUME Public!GuildSaved(r) PROVE PublicCore'
  <2>0. /\ publicRequest[r] \in PublicSlot /\ publicRequest[r].was \in [Kinds -> Three \cup {None}]
        /\ publicRequest[r].step = "undo" /\ owner = "guild"
        /\ column' = publicRequest[r].was
        /\ publicRequest' = [publicRequest EXCEPT ![r] = None]
    BY <1>a, <1>22 DEF Public!GuildSaved, Public!Overwrites, Public!Ends, PublicSlot, OwnersSteps
  <2>1. PublicTyped'
    BY <1>a, <1>22, <2>0 DEF Public!GuildSaved, Public!Overwrites, Public!Ends, PublicSlot
  <2>2. OwnersSteps'
    BY <1>a, <1>22, <2>0 DEF Public!GuildSaved, Public!Overwrites, Public!Ends, PublicSlot, OwnersSteps
  <2>3. (\E u \in [Three -> Kinds \cup {"list"}] : Sorted(u))'
    BY <1>a, <1>b, <1>22, <2>0 DEF Public!GuildSaved, Public!Overwrites, Public!Ends, PublicSlot, Sorted, Of
  <2>4. UploadsAreNew'
    BY <1>a, <1>b, <1>c, <1>22, <2>0
       DEF Public!GuildSaved, Public!Overwrites, Public!Ends, PublicSlot, OwnersSteps, UploadsAreNew, Unknown,
           Sorted, Of
  <2>5. RemovedAreFree'
    BY <1>a, <1>b, <1>c, <1>d, <1>22, <2>0
       DEF Public!GuildSaved, Public!Overwrites, Public!Ends, PublicSlot, OwnersSteps, RemovedAreFree,
           UploadsAreNew, Unknown, Sorted, Of
  <2>6. Telling'
    <3> SUFFICES ASSUME there, ~ publicUnsaid
                 PROVE  Telling'
      BY <1>22 DEF Public!GuildSaved, Telling
    <3>1. /\ publicShown = column /\ publicRequest[r].was = column
          /\ \A q \in Two : Public!OfColumns(q) => q = r
      BY <1>a, <1>e, <1>22, <2>0 DEF Public!GuildSaved, Telling, WillSay
    <3>2. \A q \in Two : ~ Public!OfColumns(q)'
      BY <1>a, <2>0, <3>1
    <3> QED BY <1>22, <2>0, <3>1, <3>2 DEF Public!GuildSaved, Telling
  <2>7. NamedAreThere'
    BY <1>a, <1>b, <1>c, <1>d, <1>f, <1>22, <2>0
       DEF Public!GuildSaved, Public!Overwrites, Public!Ends, PublicSlot, OwnersSteps, NamedAreThere,
           RemovedAreFree, UploadsAreNew, Unknown, Sorted, Of, Named, Knows
  <2>8. KeptAreKnown'
    BY <1>a, <1>b, <1>c, <1>d, <1>g, <1>22, <2>0
       DEF Public!GuildSaved, Public!Overwrites, Public!Ends, PublicSlot, OwnersSteps, KeptAreKnown,
           RemovedAreFree, UploadsAreNew, Unknown, Sorted, Of, Named, Knows
  <2> QED BY <2>1, <2>2, <2>3, <2>4, <2>5, <2>6, <2>7, <2>8 DEF PublicCore
<1> QED BY <1>1, <1>2, <1>3, <1>4, <1>5, <1>6, <1>7, <1>8, <1>9, <1>10, <1>11, <1>12, <1>13, <1>14,
           <1>15, <1>16, <1>17, <1>18, <1>19, <1>20, <1>21, <1>22

\* After a list without gap comes its length.
LEMMA NextIsCount ==
  ASSUME NEW l \in PublicLists, Gapless(l)
  PROVE  Public!Next1(l) = Cardinality(Public!Listed(l))
<1> DEFINE L == Public!Listed(l)
           n == Cardinality(L)
           S == {l[f] + 1 : f \in L} \cup {0}
<1>1. n \in Nat
  BY ListedFinite
<1>2. {l[f] : f \in L} = 0 .. n - 1
  BY DEF Gapless
<1>3. n \in S
  <2>1. CASE n = 0
    BY <2>1
  <2>2. CASE n # 0
    <3>1. n - 1 \in 0 .. n - 1
      BY <1>1, <2>2
    <3>2. PICK f \in L : l[f] = n - 1
      BY <1>2, <3>1
    <3>3. l[f] + 1 = n
      BY <1>1, <3>2
    <3> QED BY <3>2, <3>3
  <2> QED BY <2>1, <2>2
<1>4. \A x \in S : x \in Nat /\ n >= x
  <2>1. ASSUME NEW f \in L PROVE l[f] + 1 \in Nat /\ n >= l[f] + 1
    <3>1. l[f] \in 0 .. n - 1
      BY <1>2
    <3> QED BY <1>1, <3>1
  <2> QED BY <1>1, <2>1
<1> HIDE DEF n, S
<1>5. \A m \in S : (\A x \in S : m >= x) => m = n
  BY <1>3, <1>4
<1>6. Public!Max(S) = n
  BY <1>3, <1>4, <1>5 DEF Public!Max
<1> QED BY <1>6 DEF Public!Next1, n, S

\* A banner more, and a new order, leave no gap.
LEMMA AddedGapless ==
  ASSUME NEW l \in PublicLists, Gapless(l), NEW f, f \in Three => l[f] = None
  PROVE  Gapless([l EXCEPT ![f] = Public!Next1(l)])
<1> DEFINE L == Public!Listed(l)
           n == Cardinality(L)
           m == [l EXCEPT ![f] = Public!Next1(l)]
<1>1. n \in Nat /\ IsFiniteSet(L)
  BY ListedFinite
<1>2. Public!Next1(l) = n
  BY NextIsCount
<1>3. CASE f \notin Three
  BY <1>3 DEF PublicLists, Gapless, Public!Listed
<1>4. CASE f \in Three
  <2>1. m = [g \in Three |-> IF g = f THEN n ELSE l[g]]
    BY <1>2, <1>4 DEF PublicLists
  <2>2. f \notin L
    BY <1>4 DEF Public!Listed
  <2>3. Public!Listed(m) = L \cup {f}
    BY <1>1, <1>4, <2>1, NoneIsNoValue DEF Public!Listed
  <2>4. Cardinality(L \cup {f}) = n + 1
    BY <1>1, <2>2, FS_AddElement
  <2>5. \A g \in L : m[g] = l[g]
    BY <2>1, <2>2 DEF Public!Listed
  <2>6. m[f] = n
    BY <1>4, <2>1
  <2>7. {l[g] : g \in L} = 0 .. n - 1
    BY DEF Gapless
  <2> HIDE DEF L, n, m
  <2>8. {m[g] : g \in L \cup {f}} = {l[g] : g \in L} \cup {n}
    BY <2>5, <2>6
  <2>9. (0 .. n - 1) \cup {n} = 0 .. (n + 1) - 1
    BY <1>1
  <2> QED BY <2>3, <2>4, <2>7, <2>8, <2>9 DEF Gapless, m
<1> QED BY <1>3, <1>4

LEMMA OrderedGapless ==
  ASSUME NEW l \in PublicLists, NEW o \in Public!Orders(l), NEW m,
         m = [f \in Three |-> IF l[f] # None /\ f \in DOMAIN o THEN o[f] ELSE l[f]]
  PROVE  Gapless(m)
<1> DEFINE L == Public!Listed(l)
           n == Cardinality(L)
<1>1. n \in Nat /\ IsFiniteSet(L)
  BY ListedFinite
<1>2. o \in Injection(L, 0 .. n - 1)
  BY PublicCounts DEF Public!Orders, Public!IsInjective, Injection, IsInjective
<1>3. IsFiniteSet(0 .. n - 1) /\ Cardinality(0 .. n - 1) = n
  BY <1>1, FS_Interval
<1>4. o \in Surjection(L, 0 .. n - 1)
  BY <1>1, <1>2, <1>3, FS_Injection
<1>5. \A f \in L : m[f] = o[f] /\ o[f] \in 0 .. n - 1
  BY <1>2 DEF Injection, Public!Listed
<1>6. Public!Listed(m) = L
  <2>1. \A f \in L : m[f] # None
    BY <1>1, <1>5, NoneIsNoValue
  <2> QED BY <2>1 DEF Public!Listed
<1>7. {m[f] : f \in L} = 0 .. n - 1
  <2>1. \A i \in 0 .. n - 1 : \E f \in L : o[f] = i
    BY <1>4 DEF Surjection
  <2> HIDE DEF L, n
  <2> QED BY <1>5, <2>1
<1> QED BY <1>6, <1>7 DEF Gapless

\* A list that does not grow still fits.
LEMMA FitStays ==
  ASSUME BannersFit, Public!Listed(publicRows)' \subseteq Public!Listed(publicRows),
         Adding' \subseteq Adding
  PROVE  BannersFit'
<1>1. IsFiniteSet(Adding) /\ IsFiniteSet(Two) /\ Cardinality(Two) \in Nat
  BY FiniteNames, FS_Subset, FS_CardinalityType DEF Adding
<1>2. /\ Cardinality(Adding') \in Nat /\ Cardinality(Adding) \in Nat
      /\ Cardinality(Adding') <= Cardinality(Adding)
  BY <1>1, FS_Subset, FS_CardinalityType
<1>3. /\ Cardinality(Public!Listed(publicRows)') \in Nat
      /\ Cardinality(Public!Listed(publicRows)) \in Nat
      /\ Cardinality(Public!Listed(publicRows)') <= Cardinality(Public!Listed(publicRows))
  BY ListedFinite, FS_Subset, FS_CardinalityType
<1> QED BY <1>1, <1>2, <1>3, BoundsAreNumbers DEF BannersFit


\* The list, whoever goes on.
LEMMA PublicListGoesOn ==
  ASSUME PublicCore, BannersFit, BannersNumbered, NEW r \in Two
  PROVE  (\/ Public!FileSaved(r) \/ Public!UploadFails(r) \/ Public!ColumnWritten(r)
          \/ Public!WriteFails(r) \/ Public!OldRemoved(r) \/ Public!ReadAgain(r)
          \/ Public!ReadFails(r) \/ Public!Published(r) \/ Public!ProfileFileRemoved(r)
          \/ Public!ProfileCleared(r) \/ Public!ProfileFails(r) \/ Public!StyleWritten(r)
          \/ Public!BannerSaved(r) \/ Public!PositionRead(r) \/ Public!RowsLoaded(r)
          \/ Public!BannerFilesRemoved(r) \/ Public!BannerCreated(r) \/ Public!BannerDeleted(r)
          \/ Public!Renumbered(r) \/ Public!OrderWritten(r) \/ Public!GuildDeleted(r)
          \/ Public!GuildSaved(r))
         => BannersFit' /\ BannersNumbered'
<1> USE NoneIsNoValue
    DEF PublicTyped, Busy, Public!Doing, Public!BannerSteps, Public!store, Public!banners
<1>a. PublicTyped /\ OwnersSteps /\ UploadsAreNew
  BY DEF PublicCore
<1>b. publicRows \in PublicLists
  BY <1>a DEF Lists
<1>c. ASSUME UNCHANGED <<publicRows, publicCrossed>>,
             \A q \in Two : /\ Busy(q, {"add", "place", "create"})' => Busy(q, {"add", "place", "create"})
                            /\ Busy(q, {"load", "number"}) => Busy(q, {"load", "number"})'
      PROVE  BannersFit' /\ BannersNumbered'
  <2>1. Adding' \subseteq Adding
    <3> SUFFICES ASSUME NEW q \in Two, Busy(q, {"add", "place", "create"})'
                 PROVE  Busy(q, {"add", "place", "create"})
      BY DEF Adding
    <3> QED BY <1>c
  <2>2. Public!Listed(publicRows)' \subseteq Public!Listed(publicRows)
    BY <1>c DEF Public!Listed
  <2>3. BannersFit'
    BY <2>1, <2>2, FitStays
  <2>4. Gapless(publicRows)' <=> Gapless(publicRows)
    BY <1>c
  <2>5. BannersNumbered'
    <3>1. CASE \E q \in Two : Busy(q, {"load", "number"})
      <4>1. PICK q \in Two : Busy(q, {"load", "number"})
        BY <3>1
      <4>2. Busy(q, {"load", "number"})'
        BY <1>c, <4>1
      <4> QED BY <4>2 DEF BannersNumbered
    <3>2. CASE publicCrossed \/ Gapless(publicRows)
      BY <1>c, <2>4, <3>2 DEF BannersNumbered
    <3> QED BY <3>1, <3>2 DEF BannersNumbered
  <2> QED BY <2>3, <2>5
<1>1. CASE Public!FileSaved(r)
  <2>1. UNCHANGED <<publicRows, publicCrossed>>
    BY <1>1 DEF Public!FileSaved, Public!Saved
  <2>2. \A q \in Two : /\ Busy(q, {"add", "place", "create"})' => Busy(q, {"add", "place", "create"})
                       /\ Busy(q, {"load", "number"}) => Busy(q, {"load", "number"})'
    BY <1>a, <1>1 DEF Public!FileSaved, Public!Saved, PublicSlot
  <2> QED BY <1>c, <2>1, <2>2
<1>2. CASE Public!UploadFails(r)
  <2>1. UNCHANGED <<publicRows, publicCrossed>>
    BY <1>2 DEF Public!UploadFails, Public!Ends
  <2>2. \A q \in Two : /\ Busy(q, {"add", "place", "create"})' => Busy(q, {"add", "place", "create"})
                       /\ Busy(q, {"load", "number"}) => Busy(q, {"load", "number"})'
    BY <1>a, <1>2 DEF Public!UploadFails, Public!Ends, PublicSlot
  <2> QED BY <1>c, <2>1, <2>2
<1>3. CASE Public!ColumnWritten(r)
  <2>1. UNCHANGED <<publicRows, publicCrossed>>
    BY <1>3 DEF Public!ColumnWritten, Public!Writes, Public!With, Public!Goes
  <2>2. \A q \in Two : /\ Busy(q, {"add", "place", "create"})' => Busy(q, {"add", "place", "create"})
                       /\ Busy(q, {"load", "number"}) => Busy(q, {"load", "number"})'
    BY <1>a, <1>3 DEF Public!ColumnWritten, Public!Writes, Public!With, Public!Goes, PublicSlot
  <2> QED BY <1>c, <2>1, <2>2
<1>4. CASE Public!WriteFails(r)
  <2>1. UNCHANGED <<publicRows, publicCrossed>>
    BY <1>4 DEF Public!WriteFails, Public!Ends
  <2>2. \A q \in Two : /\ Busy(q, {"add", "place", "create"})' => Busy(q, {"add", "place", "create"})
                       /\ Busy(q, {"load", "number"}) => Busy(q, {"load", "number"})'
    BY <1>a, <1>4 DEF Public!WriteFails, Public!Ends, PublicSlot
  <2> QED BY <1>c, <2>1, <2>2
<1>5. CASE Public!OldRemoved(r)
  <2>1. UNCHANGED <<publicRows, publicCrossed>>
    BY <1>5 DEF Public!OldRemoved, Public!Goes, Public!Superseded
  <2>2. \A q \in Two : /\ Busy(q, {"add", "place", "create"})' => Busy(q, {"add", "place", "create"})
                       /\ Busy(q, {"load", "number"}) => Busy(q, {"load", "number"})'
    BY <1>a, <1>5 DEF Public!OldRemoved, Public!Goes, Public!Superseded, PublicSlot
  <2> QED BY <1>c, <2>1, <2>2
<1>6. CASE Public!ReadAgain(r)
  <2>1. UNCHANGED <<publicRows, publicCrossed>>
    BY <1>6 DEF Public!ReadAgain
  <2>2. \A q \in Two : /\ Busy(q, {"add", "place", "create"})' => Busy(q, {"add", "place", "create"})
                       /\ Busy(q, {"load", "number"}) => Busy(q, {"load", "number"})'
    BY <1>a, <1>6 DEF Public!ReadAgain, PublicSlot
  <2> QED BY <1>c, <2>1, <2>2
<1>7. CASE Public!ReadFails(r)
  <2>1. UNCHANGED <<publicRows, publicCrossed>>
    BY <1>7 DEF Public!ReadFails, Public!Ends
  <2>2. \A q \in Two : /\ Busy(q, {"add", "place", "create"})' => Busy(q, {"add", "place", "create"})
                       /\ Busy(q, {"load", "number"}) => Busy(q, {"load", "number"})'
    BY <1>a, <1>7 DEF Public!ReadFails, Public!Ends, PublicSlot
  <2> QED BY <1>c, <2>1, <2>2
<1>8. CASE Public!Published(r)
  <2>1. UNCHANGED <<publicRows, publicCrossed>>
    BY <1>8 DEF Public!Published, Public!Ends
  <2>2. \A q \in Two : /\ Busy(q, {"add", "place", "create"})' => Busy(q, {"add", "place", "create"})
                       /\ Busy(q, {"load", "number"}) => Busy(q, {"load", "number"})'
    BY <1>a, <1>8 DEF Public!Published, Public!Ends, PublicSlot
  <2> QED BY <1>c, <2>1, <2>2
<1>9. CASE Public!ProfileFileRemoved(r)
  <2>1. UNCHANGED <<publicRows, publicCrossed>>
    BY <1>9 DEF Public!ProfileFileRemoved, Public!Goes
  <2>2. \A q \in Two : /\ Busy(q, {"add", "place", "create"})' => Busy(q, {"add", "place", "create"})
                       /\ Busy(q, {"load", "number"}) => Busy(q, {"load", "number"})'
    BY <1>a, <1>9 DEF Public!ProfileFileRemoved, Public!Goes, PublicSlot
  <2> QED BY <1>c, <2>1, <2>2
<1>10. CASE Public!ProfileCleared(r)
  <2>1. UNCHANGED <<publicRows, publicCrossed>>
    BY <1>10 DEF Public!ProfileCleared, Public!Writes, Public!With, Public!Goes
  <2>2. \A q \in Two : /\ Busy(q, {"add", "place", "create"})' => Busy(q, {"add", "place", "create"})
                       /\ Busy(q, {"load", "number"}) => Busy(q, {"load", "number"})'
    BY <1>a, <1>10 DEF Public!ProfileCleared, Public!Writes, Public!With, Public!Goes, PublicSlot
  <2> QED BY <1>c, <2>1, <2>2
<1>11. CASE Public!ProfileFails(r)
  <2>1. UNCHANGED <<publicRows, publicCrossed>>
    BY <1>11 DEF Public!ProfileFails, Public!Ends
  <2>2. \A q \in Two : /\ Busy(q, {"add", "place", "create"})' => Busy(q, {"add", "place", "create"})
                       /\ Busy(q, {"load", "number"}) => Busy(q, {"load", "number"})'
    BY <1>a, <1>11 DEF Public!ProfileFails, Public!Ends, PublicSlot
  <2> QED BY <1>c, <2>1, <2>2
<1>12. CASE Public!StyleWritten(r)
  <2>1. UNCHANGED <<publicRows, publicCrossed>>
    BY <1>12 DEF Public!StyleWritten, Public!Overwrites
  <2>2. \A q \in Two : /\ Busy(q, {"add", "place", "create"})' => Busy(q, {"add", "place", "create"})
                       /\ Busy(q, {"load", "number"}) => Busy(q, {"load", "number"})'
    BY <1>a, <1>12 DEF Public!StyleWritten, Public!Overwrites, PublicSlot
  <2> QED BY <1>c, <2>1, <2>2
<1>13. CASE Public!BannerSaved(r)
  <2>1. UNCHANGED <<publicRows, publicCrossed>>
    BY <1>13 DEF Public!BannerSaved, Public!Saved
  <2>2. \A q \in Two : /\ Busy(q, {"add", "place", "create"})' => Busy(q, {"add", "place", "create"})
                       /\ Busy(q, {"load", "number"}) => Busy(q, {"load", "number"})'
    BY <1>a, <1>13 DEF Public!BannerSaved, Public!Saved, PublicSlot
  <2> QED BY <1>c, <2>1, <2>2
<1>14. CASE Public!PositionRead(r)
  <2>1. UNCHANGED <<publicRows, publicCrossed>>
    BY <1>14 DEF Public!PositionRead
  <2>2. \A q \in Two : /\ Busy(q, {"add", "place", "create"})' => Busy(q, {"add", "place", "create"})
                       /\ Busy(q, {"load", "number"}) => Busy(q, {"load", "number"})'
    BY <1>a, <1>14 DEF Public!PositionRead, PublicSlot
  <2> QED BY <1>c, <2>1, <2>2
<1>15. CASE Public!RowsLoaded(r)
  <2>1. UNCHANGED <<publicRows, publicCrossed>>
    BY <1>15 DEF Public!RowsLoaded
  <2>2. \A q \in Two : /\ Busy(q, {"add", "place", "create"})' => Busy(q, {"add", "place", "create"})
                       /\ Busy(q, {"load", "number"}) => Busy(q, {"load", "number"})'
    <3>1. /\ Busy(r, {"load"})
          /\ publicRequest'[r] # None /\ publicRequest'[r].step = "number"
          /\ \A q \in Two \ {r} : publicRequest'[q] = publicRequest[q]
      BY <1>a, <1>15, PublicGoes DEF Public!RowsLoaded, PublicSteps
    <3> QED BY <3>1
  <2> QED BY <1>c, <2>1, <2>2
<1>16. CASE Public!BannerFilesRemoved(r)
  <2>1. UNCHANGED <<publicRows, publicCrossed>>
    BY <1>16 DEF Public!BannerFilesRemoved, Public!Ends
  <2>2. \A q \in Two : /\ Busy(q, {"add", "place", "create"})' => Busy(q, {"add", "place", "create"})
                       /\ Busy(q, {"load", "number"}) => Busy(q, {"load", "number"})'
    BY <1>a, <1>16 DEF Public!BannerFilesRemoved, Public!Ends, PublicSlot
  <2> QED BY <1>c, <2>1, <2>2
<1>17. CASE Public!BannerCreated(r)
  <2>1. /\ publicRows' = [publicRows EXCEPT ![publicRequest[r].file] = Public!Next1(publicRequest[r].list)]
        /\ publicRequest' = [publicRequest EXCEPT ![r] = None]
        /\ Busy(r, {"create"}) /\ (publicCrossed' = (publicCrossed \/ publicRows # publicRequest[r].list))
    BY <1>17 DEF Public!BannerCreated, Public!Ends, Public!Crosses
  <2>2. Adding' = Adding \ {r} /\ r \in Adding
    BY <1>a, <2>1 DEF Adding
  <2>3. \A q \in Two : Busy(q, {"load", "number"}) => Busy(q, {"load", "number"})'
    BY <1>a, <2>1
  <2> HIDE DEF Busy
  <2>4. BannersFit'
    <3> DEFINE L == Public!Listed(publicRows)
    <3>1. Public!Listed(publicRows)' \subseteq L \cup {publicRequest[r].file}
      BY <1>b, <2>1 DEF Public!Listed, PublicLists
    <3>2. /\ IsFiniteSet(L \cup {publicRequest[r].file})
          /\ Cardinality(L \cup {publicRequest[r].file}) <= Cardinality(L) + 1
          /\ Cardinality(L \cup {publicRequest[r].file}) \in Nat /\ Cardinality(L) \in Nat
      <4>1. CASE publicRequest[r].file \in L
        <5>1. L \cup {publicRequest[r].file} = L
          BY <4>1
        <5>2. IsFiniteSet(L) /\ Cardinality(L) \in Nat
          BY ListedFinite
        <5>3. Cardinality(L) <= Cardinality(L) + 1
          BY <5>2
        <5> HIDE DEF L
        <5> QED BY <5>1, <5>2, <5>3
      <4>2. CASE publicRequest[r].file \notin L
        <5>1. IsFiniteSet(L) /\ Cardinality(L) \in Nat
          BY ListedFinite
        <5> HIDE DEF L
        <5>2. /\ IsFiniteSet(L \cup {publicRequest[r].file})
              /\ Cardinality(L \cup {publicRequest[r].file}) = Cardinality(L) + 1
          BY <4>2, <5>1, FS_AddElement
        <5> QED BY <5>1, <5>2
      <4> QED BY <4>1, <4>2
    <3>3. /\ Cardinality(Public!Listed(publicRows)') <= Cardinality(L \cup {publicRequest[r].file})
          /\ Cardinality(Public!Listed(publicRows)') \in Nat
      BY <3>1, <3>2, FS_Subset, FS_CardinalityType
    <3>4. IsFiniteSet(Adding) /\ Cardinality(Adding) \in Nat /\ Cardinality(Two) \in Nat
      BY FiniteNames, FS_Subset, FS_CardinalityType DEF Adding
    <3>5. Cardinality(Adding') = Cardinality(Adding) - 1
      BY <2>2, <3>4, FS_RemoveElement
    <3> QED BY <3>2, <3>3, <3>4, <3>5, BoundsAreNumbers DEF BannersFit
  <2>5. BannersNumbered'
    <3>1. CASE publicRows = publicRequest[r].list /\ Gapless(publicRows)
      <4>1. publicRequest[r].file \in Three => publicRows[publicRequest[r].file] = None
        BY <1>a, <2>1 DEF UploadsAreNew, Unknown, Uploads, Busy
      <4>2. Gapless(publicRows')
        BY <1>b, <2>1, <3>1, <4>1, AddedGapless
      <4> QED BY <4>2 DEF BannersNumbered
    <3>2. CASE publicRows # publicRequest[r].list
      BY <2>1, <3>2 DEF BannersNumbered
    <3>3. CASE ~ Gapless(publicRows)
      BY <2>1, <2>3, <3>3 DEF BannersNumbered
    <3> QED BY <3>1, <3>2, <3>3
  <2> QED BY <2>4, <2>5
<1>18. CASE Public!BannerDeleted(r)
  <2>1. /\ publicRows' = [publicRows EXCEPT ![publicRequest[r].file] = None]
        /\ Busy(r, {"unlist"}) /\ publicRequest' = [publicRequest EXCEPT ![r].step = "load"]
    BY <1>18 DEF Public!BannerDeleted, Public!Goes
  <2>2. Busy(r, {"load", "number"})'
    <3>1. publicRequest'[r] # None /\ publicRequest'[r].step = "load"
      BY <1>a, <1>18, PublicGoes DEF Public!BannerDeleted, PublicSteps
    <3> QED BY <3>1
  <2>3. Adding' \subseteq Adding
    BY <1>a, <2>1 DEF Adding
  <2>4. Public!Listed(publicRows)' \subseteq Public!Listed(publicRows)
    BY <1>b, <2>1 DEF Public!Listed, PublicLists
  <2> HIDE DEF Busy
  <2> QED BY <2>2, <2>3, <2>4, FitStays DEF BannersNumbered
<1>19. CASE Public!Renumbered(r)
  <2>1. PICK o \in Public!Orders(publicRequest[r].list) :
          publicRows' = [f \in Three |-> IF publicRows[f] # None /\ f \in DOMAIN o THEN o[f]
                                         ELSE publicRows[f]]
    BY <1>19 DEF Public!Renumbered, Public!Placed
  <2>2. /\ publicRequest' = [publicRequest EXCEPT ![r] = None]
        /\ publicCrossed' = (publicCrossed \/ publicRows # publicRequest[r].list)
    BY <1>19 DEF Public!Renumbered, Public!Ends, Public!Crosses
  <2>3. BannersNumbered'
    <3>1. CASE publicRows = publicRequest[r].list
      BY <1>b, <2>1, <3>1, OrderedGapless DEF BannersNumbered
    <3>2. CASE publicRows # publicRequest[r].list
      BY <2>2, <3>2 DEF BannersNumbered
    <3> QED BY <3>1, <3>2
  <2>4. Adding' \subseteq Adding
    BY <1>a, <2>2 DEF Adding
  <2>5. Public!Listed(publicRows)' \subseteq Public!Listed(publicRows)
    BY <2>1 DEF Public!Listed
  <2> QED BY <2>3, <2>4, <2>5, FitStays
<1>20. CASE Public!OrderWritten(r)
  <2>1. PICK o \in Public!Orders(publicRequest[r].list) :
          publicRows' = [f \in Three |-> IF publicRows[f] # None /\ f \in DOMAIN o THEN o[f]
                                         ELSE publicRows[f]]
    BY <1>20 DEF Public!OrderWritten, Public!Placed
  <2>2. /\ publicRequest' = [publicRequest EXCEPT ![r] = None]
        /\ publicCrossed' = (publicCrossed \/ publicRows # publicRequest[r].list)
    BY <1>20 DEF Public!OrderWritten, Public!Ends, Public!Crosses
  <2>3. BannersNumbered'
    <3>1. CASE publicRows = publicRequest[r].list
      BY <1>b, <2>1, <3>1, OrderedGapless DEF BannersNumbered
    <3>2. CASE publicRows # publicRequest[r].list
      BY <2>2, <3>2 DEF BannersNumbered
    <3> QED BY <3>1, <3>2
  <2>4. Adding' \subseteq Adding
    BY <1>a, <2>2 DEF Adding
  <2>5. Public!Listed(publicRows)' \subseteq Public!Listed(publicRows)
    BY <2>1 DEF Public!Listed
  <2> QED BY <2>3, <2>4, <2>5, FitStays
<1>21. CASE Public!GuildDeleted(r)
  <2>1. /\ publicRows' = [f \in Three |-> None]
        /\ Busy(r, {"collected"}) /\ publicRequest' = [publicRequest EXCEPT ![r].step = "files"]
    BY <1>21 DEF Public!GuildDeleted, Public!Goes
  <2>2. Adding' \subseteq Adding
    BY <1>a, <2>1 DEF Adding
  <2>3. Public!Listed(publicRows)' = {}
    BY <2>1 DEF Public!Listed
  <2>4. Gapless(publicRows)'
    BY <2>3, FS_EmptySet DEF Gapless
  <2> QED BY <2>2, <2>3, <2>4, FitStays DEF BannersNumbered
<1>22. CASE Public!GuildSaved(r)
  <2>1. UNCHANGED <<publicRows, publicCrossed>>
    BY <1>22 DEF Public!GuildSaved
  <2>2. \A q \in Two : /\ Busy(q, {"add", "place", "create"})' => Busy(q, {"add", "place", "create"})
                       /\ Busy(q, {"load", "number"}) => Busy(q, {"load", "number"})'
    BY <1>a, <1>22 DEF Public!GuildSaved, Public!Ends, PublicSlot
  <2> QED BY <1>c, <2>1, <2>2
<1> QED BY <1>1, <1>2, <1>3, <1>4, <1>5, <1>6, <1>7, <1>8, <1>9, <1>10, <1>11, <1>12, <1>13, <1>14,
           <1>15, <1>16, <1>17, <1>18, <1>19, <1>20, <1>21, <1>22

\* The list, when a handler begins.
LEMMA PublicListBegins ==
  ASSUME PublicCore, BannersFit, BannersNumbered, NEW r \in Two, NEW s \in PublicSteps,
         NEW k, NEW f, NEW l, Public!Begins(r, s, k, f, l), s \notin {"place", "create"},
         s = "add" => Public!HasRoom, UNCHANGED <<publicRows, publicCrossed>>
  PROVE  BannersFit' /\ BannersNumbered'
<1>1. publicRequest \in [Two -> PublicSlot \cup {None}]
  BY DEF PublicCore, PublicTyped
<1>2. /\ publicRequest[r] = None /\ publicRequest'[r].step = s
      /\ \A q \in Two \ {r} : publicRequest'[q] = publicRequest[q]
  BY <1>1 DEF Public!Begins
<1>3. BannersNumbered'
  <2>1. CASE \E q \in Two : Busy(q, {"load", "number"})
    <3>1. PICK q \in Two : Busy(q, {"load", "number"})
      BY <2>1
    <3>2. Busy(q, {"load", "number"})'
      BY <1>2, <3>1 DEF Busy
    <3> QED BY <3>2 DEF BannersNumbered
  <2>2. CASE publicCrossed \/ Gapless(publicRows)
    <3>1. Gapless(publicRows)' <=> Gapless(publicRows)
      OBVIOUS
    <3> QED BY <2>2, <3>1 DEF BannersNumbered
  <2> QED BY <2>1, <2>2 DEF BannersNumbered
<1>4. Public!Listed(publicRows)' = Public!Listed(publicRows)
  BY DEF Public!Listed
<1>5. CASE s # "add"
  <2>1. Adding' \subseteq Adding
    BY <1>2, <1>5 DEF Adding, Busy
  <2> QED BY <1>3, <1>4, <2>1, FitStays
<1>6. CASE s = "add"
  <2>1. Cardinality(Public!Listed(publicRows)) < BannerLimit
    BY <1>6, PublicCounts DEF Public!HasRoom
  <2>2. Adding' \in SUBSET Two
    BY DEF Adding
  <2>3. /\ Cardinality(Adding') \in Nat /\ Cardinality(Two) \in Nat
        /\ Cardinality(Adding') <= Cardinality(Two)
    BY <2>2, FiniteNames, FS_Subset, FS_CardinalityType
  <2>4. Cardinality(Public!Listed(publicRows)) \in Nat
    BY ListedFinite
  <2> QED BY <1>3, <1>4, <2>1, <2>3, <2>4, BoundsAreNumbers DEF BannersFit
<1> QED BY <1>5, <1>6

LEMMA PublicInit == Init => PublicInv
<1> SUFFICES ASSUME Init PROVE PublicInv
  OBVIOUS
<1>1. /\ there = TRUE /\ column = [k \in Kinds |-> None] /\ publicShown = column
      /\ publicRows = [f \in Three |-> None] /\ disk = {} /\ used = {}
      /\ publicRequest = [r \in Two |-> None] /\ back = {} /\ publicUnsaid = FALSE
  BY DEF Init, Public!Init, Kinds
<1>2. PublicTyped
  BY <1>1 DEF PublicTyped, Lists, PublicLists
<1>3. OwnersSteps /\ UploadsAreNew /\ RemovedAreFree /\ Telling /\ NamedAreThere /\ KeptAreKnown
  BY <1>1 DEF OwnersSteps, UploadsAreNew, RemovedAreFree, Telling, NamedAreThere, KeptAreKnown,
              Busy, Public!OfColumns
<1>4. \E u \in [Three -> Kinds \cup {"list"}] : Sorted(u)
  <2>1. [f \in Three |-> "list"] \in [Three -> Kinds \cup {"list"}]
    OBVIOUS
  <2>2. Sorted([f \in Three |-> "list"])
    BY <1>1 DEF Sorted, Of, Public!Listed
  <2> QED BY <2>1, <2>2
<1>5. Public!Listed(publicRows) = {} /\ Adding = {}
  BY <1>1 DEF Public!Listed, Adding, Busy
<1>6. BannersNumbered /\ BannersFit
  <2>1. Gapless(publicRows)
    BY <1>5, FS_EmptySet DEF Gapless
  <2>2. Cardinality(Two) \in Nat /\ Cardinality({}) = 0
    BY FS_EmptySet, FS_CardinalityType, FiniteNames
  <2> QED BY <1>5, <2>1, <2>2, BoundsAreNumbers DEF BannersFit, BannersNumbered
<1> QED BY <1>2, <1>3, <1>4, <1>6 DEF PublicInv, PublicCore

LEMMA PublicNext == PublicInv /\ [Next]_vars => PublicInv'
<1> SUFFICES ASSUME PublicInv, [Next]_vars PROVE PublicInv'
  OBVIOUS
<1>1. CASE UNCHANGED publicVars
  <2>1. PublicCore'
    BY <1>1 DEF publicVars, PublicInv, PublicCore, PublicTyped, OwnersSteps, Sorted, Of,
       UploadsAreNew, Unknown, RemovedAreFree, Telling, WillSay, NamedAreThere, Named,
       KeptAreKnown, Knows, Busy, Public!Listed, Public!Old, Public!OfColumns
  <2>2. BannersFit' /\ BannersNumbered'
    BY <1>1 DEF publicVars, PublicInv, BannersFit, BannersNumbered, Adding, Busy, Public!Listed,
       Gapless
  <2> QED BY <2>1, <2>2 DEF PublicInv
<1>2. ASSUME NEW r \in Two, NEW s, NEW k, Public!Starts(r, s, k),
             \/ s \in {"upload", "write"} /\ k \in Kinds
             \/ s = "clear" /\ k \in Kinds /\ owner = "user"
             \/ s = "style" /\ k = None /\ owner = "role"
             \/ s = "tell" /\ k = None
             \/ s = "undo" /\ k = None /\ owner = "guild"
      PROVE  PublicInv'
  <2>1. PublicCore'
    BY <1>2, PublicStarts DEF PublicInv
  <2>2. /\ Public!Begins(r, s, k, None, <<>>)
        /\ s \in PublicSteps \ {"place", "create", "add"}
        /\ UNCHANGED <<publicRows, publicCrossed>>
    BY <1>2 DEF Public!Starts, Public!banners, PublicSteps, Public!BannerSteps
  <2> QED BY <2>1, <2>2, PublicListBegins DEF PublicInv
<1>3. ASSUME NEW r \in Two, NEW s \in Public!BannerSteps \ Uploads, NEW f,
             f = None \/ f \in Public!Listed(publicRows), owner = "guild",
             Public!Begins(r, s, None, f, publicRows), s = "add" => Public!HasRoom,
             UNCHANGED <<owner, there, column, disk, lost, back, publicShown, publicRows, used,
                         publicUnsaid, publicCrossed>>
      PROVE  PublicInv'
  <2>1. PublicCore'
    BY <1>3, PublicLooks DEF PublicInv
  <2>2. s \in PublicSteps \ {"place", "create"}
    BY <1>3 DEF PublicSteps, Uploads
  <2> QED BY <1>3, <2>1, <2>2, PublicListBegins DEF PublicInv
<1>4. ASSUME NEW r \in Two,
             \/ Public!FileSaved(r) \/ Public!UploadFails(r) \/ Public!ColumnWritten(r)
             \/ Public!WriteFails(r) \/ Public!OldRemoved(r) \/ Public!ReadAgain(r)
             \/ Public!ReadFails(r) \/ Public!Published(r) \/ Public!ProfileFileRemoved(r)
             \/ Public!ProfileCleared(r) \/ Public!ProfileFails(r) \/ Public!StyleWritten(r)
             \/ Public!BannerSaved(r) \/ Public!PositionRead(r) \/ Public!RowsLoaded(r)
             \/ Public!BannerFilesRemoved(r) \/ Public!BannerCreated(r)
             \/ Public!BannerDeleted(r) \/ Public!Renumbered(r) \/ Public!OrderWritten(r)
             \/ Public!GuildDeleted(r) \/ Public!GuildSaved(r)
      PROVE  PublicInv'
  BY <1>4, PublicGoesOn, PublicListGoesOn DEF PublicInv
<1>5. ASSUME NEW r \in Two,
             \/ Public!UploadAvatar(r) \/ Public!UploadBanner(r) \/ Public!UploadGuildAsset(r)
             \/ Public!UploadRoleBadgeAsset(r) \/ Public!DeleteAvatar(r) \/ Public!DeleteBanner(r)
             \/ Public!DeleteGuildAsset(r) \/ Public!DeleteRoleBadgeAsset(r)
             \/ Public!PatchProfile(r) \/ Public!UpdateGuild(r) \/ Public!UndoGuildUpdate(r)
             \/ Public!UpdateRoleStyle(r)
      PROVE  PublicInv'
  <2>1. \E s, k : /\ Public!Starts(r, s, k)
                  /\ \/ s \in {"upload", "write"} /\ k \in Kinds
                     \/ s = "clear" /\ k \in Kinds /\ owner = "user"
                     \/ s = "style" /\ k = None /\ owner = "role"
                     \/ s = "tell" /\ k = None
                     \/ s = "undo" /\ k = None /\ owner = "guild"
    BY <1>5 DEF Kinds, Public!Kinds, Public!UploadAvatar, Public!UploadBanner,
       Public!UploadGuildAsset, Public!UploadRoleBadgeAsset, Public!DeleteAvatar,
       Public!DeleteBanner, Public!DeleteGuildAsset, Public!DeleteRoleBadgeAsset,
       Public!PatchProfile, Public!UpdateGuild, Public!UndoGuildUpdate, Public!UpdateRoleStyle
  <2> QED BY <1>2, <2>1
<1>6. ASSUME NEW r \in Two,
             \/ Public!AddGuildBanner(r) \/ Public!RemoveGuildBanner(r)
             \/ Public!ReorderGuildBanners(r) \/ Public!DeleteGuild(r)
      PROVE  PublicInv'
  <2> USE DEF Public!store, Public!banners, Public!BannerSteps, Uploads
  <2>1. CASE Public!AddGuildBanner(r)
    BY <1>3, <2>1 DEF Public!AddGuildBanner
  <2>2. CASE Public!RemoveGuildBanner(r)
    BY <1>3, <2>2 DEF Public!RemoveGuildBanner
  <2>3. CASE Public!ReorderGuildBanners(r)
    BY <1>3, <2>3 DEF Public!ReorderGuildBanners
  <2>4. CASE Public!DeleteGuild(r)
    BY <1>3, <2>4 DEF Public!DeleteGuild
  <2> QED BY <1>6, <2>1, <2>2, <2>3, <2>4
<1> QED BY <1>1, <1>4, <1>5, <1>6 DEF Next, vars, Public!Next

(* What is named can be fetched, what is kept is named or about to be      *)
(* removed, what the others were sent is what there is, and the list of    *)
(* banners has no gap and at most as many too many as there are handlers.  *)
THEOREM AssetsHold == Spec => []AssetsAreTrue
<1>1. PublicInv => AssetsAreTrue
  <2> SUFFICES ASSUME PublicInv PROVE AssetsAreTrue
    OBVIOUS
  <2>1. PublicTyped /\ NamedAreThere /\ KeptAreKnown /\ Telling /\ BannersFit /\ BannersNumbered
    BY DEF PublicInv, PublicCore
  <2>2. Public!Fetchable
    <3>1. ASSUME NEW f \in Public!Listed(publicRows) PROVE f \in disk
      BY <2>1, <3>1 DEF NamedAreThere, Public!Listed
    <3>2. ASSUME NEW k \in Kinds
          PROVE  column[k] \in {None} \cup disk \cup back
                                  \cup {Public!Old(r) : r \in Public!At("cleared")}
      BY <2>1 DEF NamedAreThere, Public!At, Public!Doing, Busy
    <3> HIDE DEF Public!At, Public!Listed
    <3> QED BY <3>1, <3>2 DEF Public!Fetchable, Public!Named, Kinds
  <2>3. Public!NothingLeft
    <3> SUFFICES ASSUME NEW f \in disk
                 PROVE  f \in Public!Named \cup lost
                     \cup {publicRequest[r].file : r \in Public!At("write") \cup Public!At("place")
                                                              \cup Public!At("create")}
                     \cup {Public!Old(r) : r \in Public!At("clean") \cup Public!At("clear")}
                     \cup UNION {Public!Listed(publicRequest[r].list) : r \in Public!At("files")}
      BY DEF Public!NothingLeft
    <3>1. f \in Three
      BY <2>1 DEF PublicTyped
    <3>2. CASE Named(f) \/ f \in lost
      BY <3>1, <3>2 DEF Named, Public!Named, Public!Listed, Kinds
    <3>3. ASSUME NEW r \in Two, Knows(r, f)
          PROVE  \/ /\ r \in Public!At("write") \cup Public!At("place") \cup Public!At("create")
                    /\ f = publicRequest[r].file
                 \/ /\ r \in Public!At("clean") \cup Public!At("clear")
                    /\ f = Public!Old(r)
                 \/ r \in Public!At("files") /\ f \in Public!Listed(publicRequest[r].list)
      BY <3>1, <3>3 DEF Knows, Busy, Uploads, Public!At, Public!Doing, Public!Listed
    <3>4. Named(f) \/ f \in lost \/ \E r \in Two : Knows(r, f)
      BY <2>1 DEF KeptAreKnown
    <3> QED BY <3>2, <3>3, <3>4
  <2>4. Public!Announced
    BY <2>1 DEF Telling, Public!Announced
  <2>5. Public!ListHolds
    <3>1. Cardinality(Public!Listed(publicRows)) < BannerLimit + Cardinality(Two)
      <4>1. Cardinality(Adding) \in Nat /\ Cardinality(Two) \in Nat
        BY FiniteNames, FS_Subset, FS_CardinalityType DEF Adding
      <4> QED BY <2>1, <4>1, ListedFinite, BoundsAreNumbers DEF BannersFit
    <3>2. ~ publicCrossed /\ Public!At("load") \cup Public!At("number") = {} =>
            Gapless(publicRows)
      BY <2>1 DEF BannersNumbered, Busy, Public!At, Public!Doing
    <3> QED BY <3>1, <3>2, PublicCounts DEF Public!ListHolds, Gapless
  <2> QED BY <2>2, <2>3, <2>4, <2>5 DEF AssetsAreTrue, Public!AssetsAreTrue
<1> QED BY <1>1, PublicInit, PublicNext, PTL DEF Spec

-----------------------------------------------------------------------------
(* The restrictions of a member. *)

Holds(q, r) ==
  /\ denialsJob[q] # None
  /\ \/ r \in denialsJob[q].on
     \/ denialsJob[q].tells # None /\ denialsJob[q].tells[1] = r

DenialsTyped ==
  /\ now \in Nat
  /\ row \in [Records -> Denials!Row \cup {None}]
  /\ changed \in [Records -> Nat]
  /\ denialsTold \in [Records -> {None, "create", "update", "lift"}]
  /\ denialsJob \in [Two -> DenialsJobs \cup {None}]
  /\ \A r \in Records : changed[r] <= now /\ \A q \in Two : Holds(q, r) => row[r] # None
  /\ \A q \in Two : denialsJob[q] # None /\ denialsJob[q].does = "patch" =>
       /\ \E r \in Records : denialsJob[q].on \subseteq {r}
       /\ denialsJob[q].tells # None => denialsJob[q].on = {}

\* Of the records that have not changed since an answer was read, it has those in force then.
Loaded(c) ==
  c # None =>
    /\ c.at \in Nat /\ c.at <= now
    /\ \A r \in Records : changed[r] < c.at =>
         /\ r \in DOMAIN c.rows <=>
              row[r] # None /\ ~ row[r].lifted /\ row[r].expires > c.at
         /\ r \in DOMAIN c.rows => c.rows[r] = row[r]

Ended(r) == row[r].lifted \/ row[r].notified

\* A record that nobody crossed is in one hand, and what he has not told he will.
InOneHand(r) ==
  /\ \A p, q \in Two : Holds(p, r) /\ Holds(q, r) => p = q
  /\ row[r] # None /\ row[r].notified => row[r].lifted \/ row[r].expires <= now
  /\ \A q \in Two : denialsJob[q] # None =>
       /\ denialsJob[q].tells # None /\ denialsJob[q].tells[1] = r =>
            /\ r \notin denialsJob[q].on
            /\ (denialsJob[q].tells[2] = "lift") = Ended(r)
       /\ r \in denialsJob[q].on =>
            /\ ~ Ended(r)
            /\ denialsJob[q].does = "sweep" => row[r].expires <= now
  /\ row[r] # None
       /\ (\A q \in Two : denialsJob[q] = None \/ denialsJob[q].tells = None
                            \/ denialsJob[q].tells[1] # r) =>
     (denialsTold[r] = "lift") = Ended(r)

DenialsInv ==
  /\ DenialsTyped /\ Loaded(cache) /\ Loaded(loading)
  /\ \A r \in Records \ denialsCrossed : InOneHand(r)

LEMMA DenialsInit == Init => DenialsInv
  BY NoneIsNoValue DEF Init, Denials!Init, DenialsInv, DenialsTyped, Holds, Loaded, InOneHand

LEMMA DenialsRows ==
  ASSUME NEW x \in Denials!Row
  PROVE  /\ [x EXCEPT !.lifted = TRUE] \in Denials!Row
         /\ [x EXCEPT !.notified = TRUE] \in Denials!Row
         /\ \A e \in 0 .. Denials!Never : [x EXCEPT !.expires = e] \in Denials!Row
  BY DEF Denials!Row

\* What a job is after a record was written, was passed over, or was told of.
LEMMA DenialsSlots ==
  ASSUME NEW j \in DenialsJobs
  PROVE  /\ \A r \in Records : \A v \in {"create", "update", "lift"} :
              LET k == Denials!Tells(j, r, v)
              IN  /\ k \in DenialsJobs /\ k # None /\ k.does = j.does
                  /\ k.on = j.on \ {r} /\ k.tells = <<r, v>> /\ k.tells # None
         /\ \A r \in Records :
              LET k == Denials!Ends(Denials!Without(j, r))
              IN  /\ k \in DenialsJobs \cup {None}
                  /\ k # None => k.does = j.does /\ k.on = j.on \ {r} /\ k.tells = None
                  /\ k = None => j.on \subseteq {r}
         /\ LET k == Denials!Ends(j)
            IN  /\ k \in DenialsJobs \cup {None}
                /\ k # None => k.does = j.does /\ k.on = j.on /\ k.tells = None
                /\ k = None => j.on = {}
<1>1. j # None /\ None \notin DenialsJobs
  BY NoneIsNoValue
<1>2. ASSUME NEW r \in Records, NEW v \in {"create", "update", "lift"}
      PROVE  LET k == Denials!Tells(j, r, v)
             IN  /\ k \in DenialsJobs /\ k # None /\ k.does = j.does
                 /\ k.on = j.on \ {r} /\ k.tells = <<r, v>> /\ k.tells # None
  <2>1. <<r, v>> \in Records \X {"create", "update", "lift"}
    OBVIOUS
  <2>2. [Denials!Without(j, r) EXCEPT !.tells = <<r, v>>] \in DenialsJobs
    BY <2>1 DEF DenialsJobs, Denials!Without
  <2>3. <<r, v>> # None
    BY <2>1, NoneIsNoValue
  <2> QED BY <1>1, <2>2, <2>3 DEF DenialsJobs, Denials!Tells, Denials!Without
<1>3. ASSUME NEW k \in DenialsJobs
      PROVE  /\ Denials!Ends(k) \in DenialsJobs \cup {None}
             /\ Denials!Ends(k) # None =>
                  /\ Denials!Ends(k).does = k.does /\ Denials!Ends(k).on = k.on
                  /\ Denials!Ends(k).tells = None
             /\ Denials!Ends(k) = None => k.on = {}
  <2>1. [k EXCEPT !.tells = None] \in DenialsJobs
    BY DEF DenialsJobs
  <2> QED BY <1>1, <2>1 DEF DenialsJobs, Denials!Ends
<1>4. ASSUME NEW r \in Records
      PROVE  /\ Denials!Without(j, r) \in DenialsJobs
             /\ Denials!Without(j, r).on = j.on \ {r}
             /\ Denials!Without(j, r).does = j.does
  BY DEF DenialsJobs, Denials!Without
<1>5. ASSUME NEW r \in Records
      PROVE  LET k == Denials!Ends(Denials!Without(j, r))
             IN  /\ k \in DenialsJobs \cup {None}
                 /\ k # None => k.does = j.does /\ k.on = j.on \ {r} /\ k.tells = None
                 /\ k = None => j.on \subseteq {r}
  <2>1. PICK i \in DenialsJobs : /\ i = Denials!Without(j, r)
                                 /\ i.on = j.on \ {r} /\ i.does = j.does
    BY <1>4
  <2>2. i.on = {} => j.on \subseteq {r}
    BY <2>1
  <2> QED BY <1>3, <2>1, <2>2
<1> QED BY <1>2, <1>3, <1>5

\* Whoever finds that the record was ended already passes it over.
LEMMA DenialsPasses ==
  ASSUME DenialsInv, NEW q \in Two, NEW s \in Records,
         denialsJob[q] # None, s \in denialsJob[q].on, denialsJob[q].tells = None, Ended(s),
         denialsJob' = [denialsJob EXCEPT ![q] = Denials!Ends(Denials!Without(@, s))],
         UNCHANGED <<now, row, cache, loading, denialsTold, changed, denialsCrossed>>
  PROVE  DenialsInv'
<1>1. DenialsTyped /\ Loaded(cache) /\ Loaded(loading)
      /\ \A r \in Records \ denialsCrossed : InOneHand(r)
  BY DEF DenialsInv
<1>2. denialsJob[q] \in DenialsJobs
  BY <1>1 DEF DenialsTyped
<1>3. PICK k \in DenialsJobs \cup {None} :
        /\ denialsJob' = [denialsJob EXCEPT ![q] = k]
        /\ k # None => /\ k.does = denialsJob[q].does /\ k.on = denialsJob[q].on \ {s}
                       /\ k.tells = None
        /\ k = None => denialsJob[q].on \subseteq {s}
  <2>1. PICK k \in DenialsJobs \cup {None} :
          /\ k = Denials!Ends(Denials!Without(denialsJob[q], s))
          /\ k # None => /\ k.does = denialsJob[q].does /\ k.on = denialsJob[q].on \ {s}
                         /\ k.tells = None
          /\ k = None => denialsJob[q].on \subseteq {s}
    BY <1>2, DenialsSlots
  <2>2. denialsJob' = [denialsJob EXCEPT ![q] = k]
    BY <1>1, <2>1 DEF DenialsTyped
  <2> QED BY <2>1, <2>2
<1>4. /\ denialsJob'[q] = k /\ \A p \in Two \ {q} : denialsJob'[p] = denialsJob[p]
      /\ denialsJob' \in [Two -> DenialsJobs \cup {None}]
  BY <1>1, <1>3 DEF DenialsTyped
<1>5. \A r \in Records, p \in Two : Holds(p, r)' <=> Holds(p, r) /\ <<p, r>> # <<q, s>>
  BY <1>1, <1>3, <1>4, NoneIsNoValue DEF Holds
<1>6. DenialsTyped'
  BY <1>1, <1>2, <1>3, <1>4, <1>5 DEF DenialsTyped
<1>7. Loaded(cache)' /\ Loaded(loading)'
  BY <1>1 DEF Loaded
<1>8. s \in denialsCrossed
  BY <1>1 DEF InOneHand
<1>9. ASSUME NEW r \in Records \ denialsCrossed' PROVE InOneHand(r)'
  <2>1. InOneHand(r) /\ r # s
    BY <1>1, <1>8, <1>9
  <2>2. \A p, o \in Two : Holds(p, r)' /\ Holds(o, r)' => p = o
    BY <1>5, <2>1 DEF InOneHand
  <2>3. \A p \in Two : denialsJob'[p] # None =>
          /\ denialsJob[p] # None /\ denialsJob'[p].does = denialsJob[p].does
          /\ r \in denialsJob'[p].on => r \in denialsJob[p].on
          /\ denialsJob'[p].tells # None => denialsJob'[p].tells = denialsJob[p].tells
    BY <1>3, <1>4
  <2>4. \A p \in Two :
          \/ denialsJob'[p] = None \/ denialsJob'[p].tells = None
          \/ denialsJob'[p].tells[1] # r
        => \/ denialsJob[p] = None \/ denialsJob[p].tells = None
           \/ denialsJob[p].tells[1] # r
    BY <1>3, <1>4
  <2>5. row'[r] = row[r] /\ denialsTold' = denialsTold /\ now' = now
    OBVIOUS
  <2> QED BY <1>4, <2>1, <2>2, <2>3, <2>4, <2>5 DEF InOneHand, Ended
<1> QED BY <1>6, <1>7, <1>9 DEF DenialsInv

\* Whoever writes a record has to tell of it.
LEMMA DenialsMarks ==
  ASSUME DenialsInv, NEW q \in Two, NEW s \in Records, NEW rec \in Denials!Row,
         NEW v \in {"update", "lift"},
         denialsJob[q] # None, s \in denialsJob[q].on, denialsJob[q].tells = None,
         s \notin denialsCrossed => /\ (v = "lift") = (rec.lifted \/ rec.notified)
                                    /\ rec.notified => rec.lifted \/ rec.expires <= now,
         row' = [row EXCEPT ![s] = rec], changed' = [changed EXCEPT ![s] = now],
         denialsJob' = [denialsJob EXCEPT ![q] = Denials!Tells(@, s, v)],
         UNCHANGED <<now, cache, loading, denialsTold, denialsCrossed>>
  PROVE  DenialsInv'
<1>1. DenialsTyped /\ Loaded(cache) /\ Loaded(loading)
      /\ \A r \in Records \ denialsCrossed : InOneHand(r)
  BY DEF DenialsInv
<1>2. denialsJob[q] \in DenialsJobs
  BY <1>1 DEF DenialsTyped
<1>3. PICK k \in DenialsJobs :
        /\ denialsJob' = [denialsJob EXCEPT ![q] = k] /\ k # None
        /\ k.does = denialsJob[q].does /\ k.on = denialsJob[q].on \ {s}
        /\ k.tells = <<s, v>> /\ k.tells # None
  <2>1. PICK k \in DenialsJobs :
          /\ k = Denials!Tells(denialsJob[q], s, v) /\ k # None
          /\ k.does = denialsJob[q].does /\ k.on = denialsJob[q].on \ {s}
          /\ k.tells = <<s, v>> /\ k.tells # None
    BY <1>2, DenialsSlots, SMTT(20)
  <2>2. denialsJob' = [denialsJob EXCEPT ![q] = k]
    BY <1>1, <2>1 DEF DenialsTyped
  <2> QED BY <2>1, <2>2
<1>4. /\ denialsJob'[q] = k /\ \A p \in Two \ {q} : denialsJob'[p] = denialsJob[p]
      /\ denialsJob' \in [Two -> DenialsJobs \cup {None}]
  BY <1>1, <1>3 DEF DenialsTyped
<1>5. \A r \in Records, p \in Two : Holds(p, r)' <=> Holds(p, r)
  <2>1. k.tells[1] = s
    BY <1>3
  <2>2. \A r \in Records : (r \in k.on \/ (k.tells # None /\ k.tells[1] = r)) <=>
                             r \in denialsJob[q].on
    BY <1>3, <2>1
  <2> QED BY <1>3, <1>4, <2>2, NoneIsNoValue DEF Holds
<1>6. /\ row' \in [Records -> Denials!Row \cup {None}] /\ row'[s] = rec /\ rec # None
      /\ \A r \in Records \ {s} : row'[r] = row[r] /\ changed'[r] = changed[r]
      /\ changed' \in [Records -> Nat] /\ changed'[s] = now
  BY <1>1, NoneIsNoValue DEF DenialsTyped
<1>7. DenialsTyped'
  <2>1. \A p \in Two : denialsJob'[p] # None /\ denialsJob'[p].does = "patch" =>
          /\ \E r \in Records : denialsJob'[p].on \subseteq {r}
          /\ denialsJob'[p].tells # None => denialsJob'[p].on = {}
    <3>1. ASSUME NEW p \in Two, p # q, denialsJob'[p] # None, denialsJob'[p].does = "patch"
          PROVE  /\ \E r \in Records : denialsJob'[p].on \subseteq {r}
                 /\ denialsJob'[p].tells # None => denialsJob'[p].on = {}
      BY <1>1, <1>4, <3>1 DEF DenialsTyped
    <3>2. ASSUME denialsJob[q].does = "patch"
          PROVE  k.on = {}
      <4>1. PICK r \in Records : denialsJob[q].on \subseteq {r}
        BY <1>1, <3>2 DEF DenialsTyped
      <4> QED BY <1>3, <4>1
    <3> QED BY <1>3, <1>4, <3>1, <3>2
  <2> QED BY <1>1, <1>4, <1>5, <1>6, <2>1 DEF DenialsTyped
<1>8. Loaded(cache)' /\ Loaded(loading)'
  BY <1>1, <1>6 DEF Loaded
<1>9. ASSUME NEW r \in Records \ denialsCrossed' PROVE InOneHand(r)'
  <2>1. InOneHand(r)
    BY <1>1
  <2>2. CASE r # s
    BY <1>2, <1>3, <1>4, <1>5, <1>6, <2>1, <2>2 DEF InOneHand, Ended
  <2>3. CASE r = s
    <3>1. /\ Holds(q, s) /\ \A p \in Two : Holds(p, s) => p = q
      BY <2>1, <2>3 DEF InOneHand, Holds
    <3>2. \A p \in Two \ {q} : ~ (denialsJob[p] # None /\ s \in denialsJob[p].on)
                          /\ ~ (denialsJob[p] # None /\ denialsJob[p].tells # None
                                  /\ denialsJob[p].tells[1] = s)
      BY <3>1 DEF Holds
    <3>3. k.tells[1] = s /\ k.tells[2] = v /\ s \notin k.on
      BY <1>3
    <3>4. \A p, o \in Two : Holds(p, r)' /\ Holds(o, r)' => p = o
      BY <1>5, <2>1, <2>3 DEF InOneHand
    <3>5. (v = "lift") = Ended(s)' /\ (row'[s].notified => row'[s].lifted \/ row'[s].expires <= now')
      BY <1>6, <2>3 DEF Ended
    <3>6. \A p \in Two : denialsJob'[p] # None =>
            /\ denialsJob'[p].tells # None /\ denialsJob'[p].tells[1] = s => p = q
            /\ s \notin denialsJob'[p].on
      BY <1>4, <3>2, <3>3
    <3>7. denialsJob'[q] # None /\ denialsJob'[q].tells # None /\ denialsJob'[q].tells[1] = s
          /\ denialsJob'[q].tells[2] = v
      BY <1>3, <1>4, <3>3
    <3> QED BY <2>3, <3>4, <3>5, <3>6, <3>7 DEF InOneHand
  <2> QED BY <2>2, <2>3
<1> QED BY <1>7, <1>8, <1>9 DEF DenialsInv


LEMMA DenialsNext == DenialsInv /\ [Next]_vars => DenialsInv'
<1> SUFFICES ASSUME DenialsInv, Denials!Next PROVE DenialsInv'
  <2>1. CASE UNCHANGED denialsVars
    BY <2>1 DEF denialsVars, DenialsInv, DenialsTyped, Holds, Loaded, InOneHand, Ended
  <2>2. CASE Denials!Next
    BY <2>2
  <2> QED BY <2>1, <2>2 DEF Next, vars
<1> USE NoneIsNoValue DEF Denials!Holds, Denials!Idle
<1>a. DenialsTyped
  BY DEF DenialsInv
<1>b. Loaded(cache) /\ Loaded(loading)
  BY DEF DenialsInv
<1>c. \A r \in Records \ denialsCrossed : InOneHand(r)
  BY DEF DenialsInv
<1>1. ASSUME Denials!LoadRows PROVE DenialsInv'
  <2>1. DenialsTyped'
    BY <1>a, <1>1
       DEF Denials!LoadRows, Denials!InForce, Denials!ActiveAt, Denials!Runs, DenialsTyped,
           DenialsJobs, Denials!Row, Holds
  <2>2. Loaded(cache)' /\ Loaded(loading)'
    BY <1>a, <1>b, <1>1
       DEF Denials!LoadRows, Denials!InForce, Denials!ActiveAt, Denials!Runs, DenialsTyped,
           Denials!Row, Loaded
  <2>3. \A r \in Records \ denialsCrossed' : InOneHand(r)'
    BY <1>a, <1>c, <1>1
       DEF Denials!LoadRows, Denials!InForce, Denials!ActiveAt, Denials!Runs, DenialsTyped,
           DenialsJobs, Denials!Row, InOneHand, Holds, Ended
  <2> QED BY <2>1, <2>2, <2>3 DEF DenialsInv
<1>2. ASSUME Denials!StoreRows PROVE DenialsInv'
  <2>1. DenialsTyped'
    BY <1>a, <1>2
       DEF Denials!StoreRows, Denials!Stamped, DenialsTyped, DenialsJobs, Denials!Row, Holds
  <2>2. Loaded(cache)' /\ Loaded(loading)'
    BY <1>a, <1>b, <1>2 DEF Denials!StoreRows, Denials!Stamped, DenialsTyped, Denials!Row, Loaded
  <2>3. \A r \in Records \ denialsCrossed' : InOneHand(r)'
    BY <1>a, <1>c, <1>2
       DEF Denials!StoreRows, Denials!Stamped, DenialsTyped, DenialsJobs, Denials!Row, InOneHand,
           Holds, Ended
  <2> QED BY <2>1, <2>2, <2>3 DEF DenialsInv
<1>3. ASSUME Denials!TimePasses PROVE DenialsInv'
  <2>1. DenialsTyped'
    BY <1>a, <1>3 DEF Denials!TimePasses, DenialsTyped, DenialsJobs, Denials!Row, Holds
  <2>2. Loaded(cache)' /\ Loaded(loading)'
    BY <1>a, <1>b, <1>3 DEF Denials!TimePasses, DenialsTyped, Denials!Row, Loaded
  <2>3. \A r \in Records \ denialsCrossed' : InOneHand(r)'
    BY <1>a, <1>c, <1>3
       DEF Denials!TimePasses, DenialsTyped, DenialsJobs, Denials!Row, InOneHand, Holds, Ended
  <2> QED BY <2>1, <2>2, <2>3 DEF DenialsInv
<1>4. ASSUME NEW q \in Two, Denials!PublishChange(q) PROVE DenialsInv'
  <2>0. /\ denialsJob[q] \in DenialsJobs /\ denialsJob[q] # None /\ denialsJob[q].tells # None
        /\ denialsJob[q].tells \in Records \X {"create", "update", "lift"}
    BY <1>a, <1>4 DEF Denials!PublishChange, DenialsTyped, DenialsJobs
  <2>k. PICK k \in DenialsJobs \cup {None} :
          /\ denialsJob' = [denialsJob EXCEPT ![q] = k]
          /\ k # None => /\ k.does = denialsJob[q].does /\ k.on = denialsJob[q].on
                         /\ k.tells = None
          /\ k = None => denialsJob[q].on = {}
    BY <1>a, <1>4, <2>0, DenialsSlots DEF Denials!PublishChange, DenialsTyped
  <2>1. DenialsTyped'
    <3>1. \A r \in Records, p \in Two : Holds(p, r)' => Holds(p, r)
      BY <1>a, <2>0, <2>k DEF DenialsTyped, Holds
    <3>2. /\ denialsTold' \in [Records -> {None, "create", "update", "lift"}]
          /\ denialsJob' \in [Two -> DenialsJobs \cup {None}]
          /\ UNCHANGED <<now, row, changed>>
      BY <1>a, <1>4, <2>0, <2>k DEF Denials!PublishChange, DenialsTyped
    <3>3. \A p \in Two : denialsJob'[p] # None /\ denialsJob'[p].does = "patch" =>
            /\ \E r \in Records : denialsJob'[p].on \subseteq {r}
            /\ denialsJob'[p].tells # None => denialsJob'[p].on = {}
      BY <1>a, <2>0, <2>k DEF DenialsTyped
    <3> QED BY <1>a, <3>1, <3>2, <3>3 DEF DenialsTyped
  <2>2. Loaded(cache)' /\ Loaded(loading)'
    BY <1>a, <1>b, <1>4
       DEF Denials!PublishChange, Denials!Idle, Denials!Ends, DenialsTyped, Denials!Row, Loaded
  <2>3. \A r \in Records \ denialsCrossed' : InOneHand(r)'
    BY <1>a, <1>c, <1>4
       DEF Denials!PublishChange, Denials!Idle, Denials!Ends, DenialsTyped, DenialsJobs,
           Denials!Row, InOneHand, Holds, Ended
  <2> QED BY <2>1, <2>2, <2>3 DEF DenialsInv
<1>5. ASSUME NEW q \in Two, Denials!LiftAllForUser(q) PROVE DenialsInv'
  <2>1. DenialsTyped'
    BY <1>a, <1>5
       DEF Denials!LiftAllForUser, Denials!Idle, Denials!InForce, Denials!ActiveAt, Denials!Runs,
           Denials!DoesAll, Denials!Takes, DenialsTyped, DenialsJobs, Denials!Row, Holds
  <2>2. Loaded(cache)' /\ Loaded(loading)'
    BY <1>a, <1>b, <1>5
       DEF Denials!LiftAllForUser, Denials!Idle, Denials!InForce, Denials!ActiveAt, Denials!Runs,
           Denials!DoesAll, Denials!Takes, DenialsTyped, Denials!Row, Loaded
  <2>3. \A r \in Records \ denialsCrossed' : InOneHand(r)'
    BY <1>a, <1>c, <1>5
       DEF Denials!LiftAllForUser, Denials!Idle, Denials!InForce, Denials!ActiveAt, Denials!Runs,
           Denials!DoesAll, Denials!Takes, DenialsTyped, DenialsJobs, Denials!Row, InOneHand,
           Holds, Ended
  <2> QED BY <2>1, <2>2, <2>3 DEF DenialsInv
<1>6. ASSUME NEW q \in Two, Denials!SweepExpired(q) PROVE DenialsInv'
  <2>1. DenialsTyped'
    BY <1>a, <1>6
       DEF Denials!SweepExpired, Denials!Idle, Denials!RanOut, Denials!DoesAll, Denials!Takes,
           DenialsTyped, DenialsJobs, Denials!Row, Holds
  <2>2. Loaded(cache)' /\ Loaded(loading)'
    BY <1>a, <1>b, <1>6
       DEF Denials!SweepExpired, Denials!Idle, Denials!RanOut, Denials!DoesAll, Denials!Takes,
           DenialsTyped, Denials!Row, Loaded
  <2>3. \A r \in Records \ denialsCrossed' : InOneHand(r)'
    BY <1>a, <1>c, <1>6
       DEF Denials!SweepExpired, Denials!Idle, Denials!RanOut, Denials!DoesAll, Denials!Takes,
           DenialsTyped, DenialsJobs, Denials!Row, InOneHand, Holds, Ended
  <2> QED BY <2>1, <2>2, <2>3 DEF DenialsInv
<1>7. ASSUME NEW q \in Two, NEW s \in Records, NEW what \in {"patch", "lift"}, Denials!ManageableRecord(q, s, what) PROVE DenialsInv'
  <2>1. DenialsTyped'
    BY <1>a, <1>7
       DEF Denials!ManageableRecord, Denials!Idle, Denials!ActiveAt, Denials!Runs, Denials!Does,
           Denials!DoesAll, Denials!Takes, DenialsTyped, DenialsJobs, Denials!Row, Holds
  <2>2. Loaded(cache)' /\ Loaded(loading)'
    BY <1>a, <1>b, <1>7
       DEF Denials!ManageableRecord, Denials!Idle, Denials!ActiveAt, Denials!Runs, Denials!Does,
           Denials!DoesAll, Denials!Takes, DenialsTyped, Denials!Row, Loaded
  <2>3. \A r \in Records \ denialsCrossed' : InOneHand(r)'
    BY <1>a, <1>c, <1>7
       DEF Denials!ManageableRecord, Denials!Idle, Denials!ActiveAt, Denials!Runs, Denials!Does,
           Denials!DoesAll, Denials!Takes, DenialsTyped, DenialsJobs, Denials!Row, InOneHand,
           Holds, Ended
  <2> QED BY <2>1, <2>2, <2>3 DEF DenialsInv
<1>8. ASSUME NEW q \in Two, NEW s \in Records, Denials!Lifts(q, s) PROVE DenialsInv'
  <2>1. /\ denialsJob[q] # None /\ denialsJob[q] \in DenialsJobs /\ s \in denialsJob[q].on
        /\ denialsJob[q].tells = None /\ row[s] \in Denials!Row
    BY <1>a, <1>8 DEF Denials!Lifts, DenialsTyped, Holds
  <2>2. CASE row[s].lifted
    BY <1>8, <2>1, <2>2, DenialsPasses DEF Denials!Lifts, Ended
  <2>3. CASE ~ row[s].lifted
    <3>1. PICK rec \in Denials!Row : rec = [row[s] EXCEPT !.lifted = TRUE]
      BY <2>1, DenialsRows
    <3>2. rec.lifted
      BY <2>1, <3>1 DEF Denials!Row
    <3> QED BY <1>8, <2>1, <2>3, <3>1, <3>2, DenialsMarks DEF Denials!Lifts, Denials!Writes
  <2> QED BY <2>2, <2>3
<1>9. ASSUME NEW q \in Two, NEW s \in Records, Denials!SweepMarks(q, s) PROVE DenialsInv'
  <2>1. /\ denialsJob[q] # None /\ denialsJob[q] \in DenialsJobs /\ s \in denialsJob[q].on
        /\ denialsJob[q].tells = None /\ row[s] \in Denials!Row /\ denialsJob[q].does = "sweep"
    BY <1>a, <1>9 DEF Denials!SweepMarks, DenialsTyped, Holds
  <2>2. CASE row[s].notified
    BY <1>9, <2>1, <2>2, DenialsPasses DEF Denials!SweepMarks, Ended
  <2>3. CASE ~ row[s].notified
    <3>1. PICK rec \in Denials!Row : rec = [row[s] EXCEPT !.notified = TRUE]
      BY <2>1, DenialsRows
    <3>2. rec.notified /\ rec.expires = row[s].expires
      BY <2>1, <3>1 DEF Denials!Row
    <3>3. s \notin denialsCrossed => row[s].expires <= now
      BY <1>c, <2>1 DEF InOneHand
    <3> QED BY <1>9, <2>1, <2>3, <3>1, <3>2, <3>3, DenialsMarks
       DEF Denials!SweepMarks, Denials!Writes
  <2> QED BY <2>2, <2>3
<1>10. ASSUME NEW q \in Two, NEW s \in Records, Denials!UndoRestrictionCreate(q, s) PROVE DenialsInv'
  <2>1. DenialsTyped'
    <3>1. PICK rec \in Denials!Row : rec = [row[s] EXCEPT !.lifted = TRUE]
      BY <1>a, <1>10, DenialsRows DEF Denials!UndoRestrictionCreate, Denials!ActiveAt, DenialsTyped
    <3>2. /\ row' = [row EXCEPT ![s] = rec] /\ changed' = [changed EXCEPT ![s] = now]
          /\ \E v \in {"create", "update", "lift"} : denialsTold' = [denialsTold EXCEPT ![s] = v]
          /\ UNCHANGED <<now, denialsJob>>
      BY <1>10, <3>1 DEF Denials!UndoRestrictionCreate, Denials!UndoRestriction, Denials!Writes
    <3> QED BY <1>a, <3>2, NoneIsNoValue DEF DenialsTyped, Holds
  <2>2. Loaded(cache)' /\ Loaded(loading)'
    BY <1>a, <1>b, <1>10
       DEF Denials!UndoRestrictionCreate, Denials!UndoRestriction, Denials!Idle, Denials!ActiveAt,
           Denials!Runs, Denials!Writes, Denials!Takes, DenialsTyped, Denials!Row, Loaded
  <2>3. \A r \in Records \ denialsCrossed' : InOneHand(r)'
    BY <1>a, <1>c, <1>10
       DEF Denials!UndoRestrictionCreate, Denials!UndoRestriction, Denials!Idle, Denials!ActiveAt,
           Denials!Runs, Denials!Writes, Denials!Takes, DenialsTyped, DenialsJobs, Denials!Row,
           InOneHand, Holds, Ended
  <2> QED BY <2>1, <2>2, <2>3 DEF DenialsInv
<1>11. ASSUME NEW q \in Two, NEW s \in Records, NEW e \in 0 .. Denials!Never, Denials!Create(q, s, e) PROVE DenialsInv'
  <2>k. PICK k \in DenialsJobs :
          /\ denialsJob' = [denialsJob EXCEPT ![q] = k] /\ k # None /\ k.on = {}
          /\ k.tells = <<s, "create">> /\ k.tells # None /\ k.does = "create"
    <3>1. Denials!DoesAll("create", {s}) \in DenialsJobs
      BY DEF Denials!DoesAll, DenialsJobs
    <3>2. /\ Denials!DoesAll("create", {s}).on = {s}
          /\ Denials!DoesAll("create", {s}).does = "create"
      BY DEF Denials!DoesAll
    <3>3. PICK j \in DenialsJobs : /\ j = Denials!DoesAll("create", {s})
                                 /\ j.on = {s} /\ j.does = "create"
      BY <3>1, <3>2
    <3>4. PICK i \in DenialsJobs : /\ i = Denials!Tells(j, s, "create")
                                 /\ i # None /\ i.does = "create" /\ i.on = j.on \ {s}
                                 /\ i.tells = <<s, "create">> /\ i.tells # None
      <4>1. PICK v \in {"create", "update", "lift"} : v = "create"
        OBVIOUS
      <4>2. /\ Denials!Tells(j, s, v) \in DenialsJobs /\ Denials!Tells(j, s, v) # None
            /\ Denials!Tells(j, s, v).does = j.does /\ Denials!Tells(j, s, v).on = j.on \ {s}
            /\ Denials!Tells(j, s, v).tells = <<s, v>> /\ Denials!Tells(j, s, v).tells # None
        BY DenialsSlots
      <4> HIDE DEF Denials!Tells
      <4> QED BY <3>3, <4>1, <4>2
    <3>5. denialsJob' = [denialsJob EXCEPT ![q] = i]
      BY <1>11, <3>3, <3>4 DEF Denials!Create
    <3> QED BY <3>3, <3>4, <3>5
  <2>r. PICK rec \in Denials!Row :
          /\ row' = [row EXCEPT ![s] = rec] /\ changed' = [changed EXCEPT ![s] = now]
          /\ ~ rec.lifted /\ ~ rec.notified
    <3>1. [lifted |-> FALSE, expires |-> e, notified |-> FALSE] \in Denials!Row
      BY DEF Denials!Row
    <3> QED BY <1>11, <3>1 DEF Denials!Create, Denials!Writes
  <2>t. /\ UNCHANGED <<now, cache, loading, denialsTold, denialsCrossed>>
        /\ denialsJob[q] = None /\ row[s] = None
    BY <1>11 DEF Denials!Create
  <2>h. \A r \in Records, p \in Two :
          /\ Holds(p, r)' <=> Holds(p, r) \/ (p = q /\ r = s)
          /\ ~ Holds(p, s)
    <3>1. k.tells[1] = s
      BY <2>k
    <3> QED BY <1>a, <2>k, <2>t, <3>1 DEF DenialsTyped, Holds
  <2>s. /\ row' \in [Records -> Denials!Row \cup {None}] /\ row'[s] = rec /\ rec # None
        /\ \A r \in Records \ {s} : row'[r] = row[r] /\ changed'[r] = changed[r]
        /\ changed' \in [Records -> Nat] /\ changed'[s] = now
        /\ denialsJob'[q] = k /\ \A p \in Two \ {q} : denialsJob'[p] = denialsJob[p]
        /\ denialsJob' \in [Two -> DenialsJobs \cup {None}]
    BY <1>a, <2>k, <2>r DEF DenialsTyped
  <2>1. DenialsTyped'
    <3>1. \A p \in Two : denialsJob'[p] # None /\ denialsJob'[p].does = "patch" =>
            /\ \E r \in Records : denialsJob'[p].on \subseteq {r}
            /\ denialsJob'[p].tells # None => denialsJob'[p].on = {}
      BY <1>a, <2>k, <2>s DEF DenialsTyped
    <3> QED BY <1>a, <2>t, <2>h, <2>s, <3>1 DEF DenialsTyped
  <2>2. Loaded(cache)' /\ Loaded(loading)'
    BY <1>a, <1>b, <2>t, <2>s DEF DenialsTyped, Loaded
  <2>3. ASSUME NEW r \in Records \ denialsCrossed' PROVE InOneHand(r)'
    <3>0. InOneHand(r)
      BY <1>c, <2>t
    <3>1. CASE r # s
      <4>1. k.tells[1] = s
        BY <2>k
      <4> QED BY <2>k, <2>t, <2>h, <2>s, <3>0, <3>1, <4>1 DEF InOneHand, Ended
    <3>2. CASE r = s
      <4>1. k.tells[1] = s /\ k.tells[2] = "create"
        BY <2>k
      <4>2. \A p \in Two \ {q} : denialsJob[p] # None =>
              s \notin denialsJob[p].on /\ ~ (denialsJob[p].tells # None /\ denialsJob[p].tells[1] = s)
        BY <2>h DEF Holds
      <4>3. Ended(s)' = FALSE
        BY <2>r, <2>s DEF Ended
      <4>4. \A p, o \in Two : Holds(p, s)' /\ Holds(o, s)' => p = o
        BY <2>h
      <4>5. \A p \in Two : denialsJob'[p] # None =>
              /\ denialsJob'[p].tells # None /\ denialsJob'[p].tells[1] = s => p = q
              /\ s \notin denialsJob'[p].on
        BY <2>k, <2>s, <4>2
      <4>6. denialsJob'[q] # None /\ denialsJob'[q].tells # None
            /\ denialsJob'[q].tells[1] = s /\ denialsJob'[q].tells[2] = "create"
        BY <2>k, <2>s, <4>1
      <4>7. ~ row'[s].notified
        BY <2>r, <2>s
      <4>8. ASSUME NEW p \in Two, denialsJob'[p] # None
            PROVE  /\ denialsJob'[p].tells # None /\ denialsJob'[p].tells[1] = s =>
                        /\ s \notin denialsJob'[p].on
                        /\ (denialsJob'[p].tells[2] = "lift") = Ended(s)'
                   /\ s \notin denialsJob'[p].on
        <5>1. CASE p = q
          BY <4>3, <4>5, <4>6, <4>8, <5>1
        <5>2. CASE p # q
          BY <4>5, <4>8, <5>2
        <5> QED BY <5>1, <5>2
      <4> QED BY <3>2, <4>4, <4>6, <4>7, <4>8 DEF InOneHand
    <3> QED BY <3>1, <3>2
  <2> QED BY <2>1, <2>2, <2>3 DEF DenialsInv
<1>12. ASSUME NEW q \in Two, NEW s \in Records, NEW e \in 0 .. Denials!Never, Denials!PatchWrites(q, s, e) PROVE DenialsInv'
  <2>1. /\ denialsJob[q] # None /\ denialsJob[q] \in DenialsJobs /\ s \in denialsJob[q].on
        /\ denialsJob[q].tells = None /\ row[s] \in Denials!Row
    BY <1>a, <1>12 DEF Denials!PatchWrites, Denials!Idle, DenialsTyped, Holds
  <2>2. PICK rec \in Denials!Row : rec = [row[s] EXCEPT !.expires = e]
    BY <2>1, DenialsRows
  <2>3. rec.lifted = row[s].lifted /\ rec.notified = row[s].notified
    BY <2>1, <2>2 DEF Denials!Row
  <2>4. s \notin denialsCrossed => ~ Ended(s)
    BY <1>c, <2>1 DEF InOneHand
  <2> QED BY <1>12, <2>1, <2>2, <2>3, <2>4, DenialsMarks
     DEF Denials!PatchWrites, Denials!Writes, Ended
<1>13. ASSUME NEW q \in Two, NEW s \in Records, NEW e \in 0 .. Denials!Never, Denials!UndoRestrictionLift(q, s, e) PROVE DenialsInv'
  <2>1. DenialsTyped'
    <3>1. PICK rec \in Denials!Row : rec = Denials!RestrictionFromSnapshot(e)
      BY DEF Denials!RestrictionFromSnapshot, Denials!Row
    <3>2. /\ row' = [row EXCEPT ![s] = rec] /\ changed' = [changed EXCEPT ![s] = now]
          /\ \E v \in {"create", "update", "lift"} : denialsTold' = [denialsTold EXCEPT ![s] = v]
          /\ UNCHANGED <<now, denialsJob>>
      BY <1>13, <3>1 DEF Denials!UndoRestrictionLift, Denials!UndoRestriction, Denials!Writes
    <3> QED BY <1>a, <3>2, NoneIsNoValue DEF DenialsTyped, Holds
  <2>2. Loaded(cache)' /\ Loaded(loading)'
    BY <1>a, <1>b, <1>13
       DEF Denials!UndoRestrictionLift, Denials!UndoRestriction, Denials!RestrictionFromSnapshot,
           Denials!Idle, Denials!Writes, Denials!Takes, DenialsTyped, Denials!Row, Loaded
  <2>3. \A r \in Records \ denialsCrossed' : InOneHand(r)'
    BY <1>a, <1>c, <1>13
       DEF Denials!UndoRestrictionLift, Denials!UndoRestriction, Denials!RestrictionFromSnapshot,
           Denials!Idle, Denials!Writes, Denials!Takes, DenialsTyped, DenialsJobs, Denials!Row,
           InOneHand, Holds, Ended
  <2> QED BY <2>1, <2>2, <2>3 DEF DenialsInv
<1>14. ASSUME NEW q \in Two, NEW s \in Records, NEW e \in 0 .. Denials!Never, Denials!UndoRestrictionUpdate(q, s, e) PROVE DenialsInv'
  <2>1. DenialsTyped'
    <3>1. PICK rec \in Denials!Row : rec = [row[s] EXCEPT !.expires = e]
      BY <1>a, <1>14, DenialsRows DEF Denials!UndoRestrictionUpdate, Denials!ActiveAt, DenialsTyped
    <3>2. /\ row' = [row EXCEPT ![s] = rec] /\ changed' = [changed EXCEPT ![s] = now]
          /\ \E v \in {"create", "update", "lift"} : denialsTold' = [denialsTold EXCEPT ![s] = v]
          /\ UNCHANGED <<now, denialsJob>>
      BY <1>14, <3>1 DEF Denials!UndoRestrictionUpdate, Denials!UndoRestriction, Denials!Writes
    <3> QED BY <1>a, <3>2, NoneIsNoValue DEF DenialsTyped, Holds
  <2>2. Loaded(cache)' /\ Loaded(loading)'
    BY <1>a, <1>b, <1>14
       DEF Denials!UndoRestrictionUpdate, Denials!UndoRestriction, Denials!Idle, Denials!ActiveAt,
           Denials!Runs, Denials!Writes, Denials!Takes, DenialsTyped, Denials!Row, Loaded
  <2>3. \A r \in Records \ denialsCrossed' : InOneHand(r)'
    BY <1>a, <1>c, <1>14
       DEF Denials!UndoRestrictionUpdate, Denials!UndoRestriction, Denials!Idle, Denials!ActiveAt,
           Denials!Runs, Denials!Writes, Denials!Takes, DenialsTyped, DenialsJobs, Denials!Row,
           InOneHand, Holds, Ended
  <2> QED BY <2>1, <2>2, <2>3 DEF DenialsInv
<1>15. ASSUME Denials!Restart PROVE DenialsInv'
  <2>1. DenialsTyped'
    BY <1>a, <1>15 DEF Denials!Restart, DenialsTyped, DenialsJobs, Denials!Row, Holds
  <2>2. Loaded(cache)' /\ Loaded(loading)'
    BY <1>a, <1>b, <1>15 DEF Denials!Restart, DenialsTyped, Denials!Row, Loaded
  <2>3. \A r \in Records \ denialsCrossed' : InOneHand(r)'
    BY <1>a, <1>c, <1>15
       DEF Denials!Restart, DenialsTyped, DenialsJobs, Denials!Row, InOneHand, Holds, Ended
  <2> QED BY <2>1, <2>2, <2>3 DEF DenialsInv
<1> QED BY <1>1, <1>2, <1>3, <1>4, <1>5, <1>6, <1>7, <1>8, <1>9, <1>10, <1>11, <1>12, <1>13, <1>14,
           <1>15
   DEF Denials!Next

(* While an answer is used, it is no further behind than that; and who is  *)
(* done with a record that nobody crossed has told whether it ended.       *)
LEMMA RestrictionsHold == DenialsInv => Denials!RestrictionsAreTrue
<1> SUFFICES ASSUME DenialsInv PROVE Denials!RestrictionsAreTrue
  OBVIOUS
<1>1. DenialsTyped /\ Loaded(cache) /\ \A r \in Records \ denialsCrossed : InOneHand(r)
  BY DEF DenialsInv
<1>2. Denials!AnswersAreYoung
  <2>1. SUFFICES ASSUME cache # None, NEW r \in Records, changed[r] < cache.at
                 PROVE  r \in Denials!Denying <=> Denials!ActiveAt(r)
    BY <1>1 DEF Denials!AnswersAreYoung, Denials!Fresh, Loaded, DenialsTyped
  <2>2. row[r] # None => row[r].expires \in Nat
    BY <1>1, BoundsAreNumbers DEF DenialsTyped, Denials!Row, Denials!Never
  <2> QED BY <1>1, <2>1, <2>2
             DEF Loaded, DenialsTyped, Denials!Denying, Denials!ActiveAt, Denials!Runs
<1>3. Denials!ToldOfTheEnd
  <2>1. SUFFICES ASSUME NEW r \in Records \ denialsCrossed, row[r] # None,
                        \A q \in Two : ~ Holds(q, r)
                 PROVE  /\ (denialsTold[r] = "lift") = (row[r].lifted \/ row[r].notified)
                        /\ row[r].notified => ~ Denials!Runs(row[r])
    BY <1>1 DEF Denials!ToldOfTheEnd, Denials!Holds, Denials!Idle, Holds
  <2>2. InOneHand(r) /\ row[r].expires \in Nat /\ now \in Nat
    BY <1>1, <2>1, BoundsAreNumbers DEF DenialsTyped, Denials!Row, Denials!Never
  <2> QED BY <2>1, <2>2 DEF InOneHand, Holds, Ended, Denials!Runs
<1> QED BY <1>2, <1>3 DEF Denials!RestrictionsAreTrue

-----------------------------------------------------------------------------
(* A role and its members. *)

\* What a request has read or written of what it will tell.
Minds(j) ==
  IF j.kind \in Ranks!OfMember
  THEN IF j.entry # None THEN {}
       ELSE ({"nick", "style"} \ (IF j.step = "write" THEN {Ranks!Column(j.kind)} ELSE {}))
              \cup (IF j.step = "tell" THEN {"role"} ELSE {})
  ELSE IF j.step = "undo" \/ (j.step = "write" /\ j.kind # "reorder") THEN {}
       ELSE {"row"} \cup (IF j.copy.row = None THEN {"role"} ELSE {})

\* What the requests of each kind are like.
Proper(j) ==
  /\ j.entry = None => /\ j.step \in {"write", "look", "tell"}
                       /\ j.step = "look" => j.kind \in Ranks!OfMember
                       /\ j.kind = "create" => j.step = "tell" /\ j.copy.row # None
                       /\ j.kind = "delete" => j.copy.row = None
  /\ j.entry # None => /\ j.step \in {"undo", "record", "tell"}
                       /\ j.kind \notin {"reorder", "restyle"}
                       /\ j.kind \in Ranks!OfMember => j.step # "tell"
                       /\ j.kind = "create" => j.copy.row = None
                       /\ j.kind \in {"update", "delete"} => j.copy.row = j.was.row
  /\ j.kind \in Ranks!OfMember => \E m \in Users : j.what = {m}
  /\ j.kind \in {"update", "delete"} => j.was.row # None
  /\ j.kind \in {"update", "reorder"} => j.copy.row # None
  /\ j.kind \notin Ranks!OfMember => j.copy.has = {} /\ j.was.has = {}

ProperEntry(c) ==
  /\ c.undos \in {0, 1} /\ c.kind \notin {"reorder", "restyle"}
  /\ c.kind \in Ranks!OfMember => \E m \in Users : c.what = {m}
  /\ c.kind \in {"update", "delete"} => c.was.row # None
  /\ c.kind \notin Ranks!OfMember => c.was.has = {}

RanksTyped ==
  /\ role \in RankRows \cup {None}
  /\ has \in [{"role", "nick", "style"} -> SUBSET Users]
  /\ ranksTold.row \in RankRows \cup {None}
  /\ ranksTold.has \in [{"role", "nick", "style"} -> SUBSET Users]
  /\ ranksRequest \in [Two -> RankSlot \cup {None}]
  /\ entry \in [Three -> RankEntry \cup {None}]
  /\ deleted \in BOOLEAN /\ ranksCrossed \in BOOLEAN
  /\ stale \subseteq {"row", "role", "nick", "style"}

RanksProper ==
  /\ \A q \in Two : ranksRequest[q] # None =>
       /\ Proper(ranksRequest[q])
       /\ ranksRequest[q].entry # None => entry[ranksRequest[q].entry] # None
  /\ \A e \in Three : entry[e] # None => ProperEntry(entry[e])

\* Before the first change is logged there is no role, and nobody knows of one.
NothingYet ==
  (\A e \in Three : entry[e] = None) =>
    /\ role = None /\ ~ deleted
    /\ \A q \in Two : ranksRequest[q] # None => ranksRequest[q].kind \in {"rename", "restyle"}

StaysAway ==
  ranksCrossed \/ ((deleted => role = None) /\ (role = None => has["role"] = {}))

\* The row, and each attribute: who will tell it knows it, and if clients do not know it
\* somebody will.
RowKnown ==
  "row" \notin stale =>
    /\ \A q \in Two : ranksRequest[q] # None /\ "row" \in Minds(ranksRequest[q]) =>
         IF ranksRequest[q].step = "write"
         THEN role # None /\ ranksRequest[q].copy.row[1] = role[1]
         ELSE ranksRequest[q].copy.row = role
    /\ \/ ranksTold.row = role
       \/ \E q \in Two : /\ ranksRequest[q] # None /\ "row" \in Minds(ranksRequest[q])
                         /\ ranksRequest[q].step # "write"

Owes(j, a, m) ==
  IF j.kind \in Ranks!OfMember
  THEN j.entry = None /\ m \in j.what /\ j.step \in {"look", "tell"}
  ELSE a \in Minds(j)

HasKnown(a) ==
  a \notin stale =>
    /\ \A q \in Two : ranksRequest[q] # None /\ a \in Minds(ranksRequest[q]) =>
         IF ranksRequest[q].kind \in Ranks!OfMember
         THEN \A m \in ranksRequest[q].what : a \in ranksRequest[q].copy.has <=> m \in has[a]
         ELSE has[a] = {}
    /\ \A m \in Users : \/ m \in ranksTold.has[a] <=> m \in has[a]
                        \/ \E q \in Two : ranksRequest[q] # None /\ Owes(ranksRequest[q], a, m)

Attributes == {"role", "nick", "style"}

RanksInv ==
  /\ RanksTyped /\ RanksProper /\ NothingYet /\ StaysAway
  /\ RowKnown /\ \A a \in Attributes : HasKnown(a)

LEMMA WhatConcerns ==
  ASSUME RanksTyped, RanksProper, NEW q \in Two
  PROVE  Ranks!Concerns(q) = IF ranksRequest[q] = None THEN {} ELSE Minds(ranksRequest[q])
<1>1. CASE ranksRequest[q] = None
  BY <1>1 DEF Ranks!Concerns
<1>2. CASE ranksRequest[q] # None
  <2> DEFINE j == ranksRequest[q]
  <2>1. j \in RankSlot /\ Proper(j)
    BY <1>2 DEF RanksTyped, RanksProper
  <2>2. j.copy = Ranks!Gone <=> j.copy.row = None /\ j.copy.has = {}
    BY <2>1 DEF RankSlot, RankView, Ranks!Gone, Ranks!OfRole
  <2>3. CASE j.kind \in Ranks!OfMember
    BY <1>2, <2>1, <2>3
       DEF RankSlot, RankKinds, Ranks!Concerns, Ranks!Carries, Ranks!Doing, Minds, Ranks!Column, Ranks!OfMember, Proper
  <2>4. CASE j.kind \notin Ranks!OfMember
    BY <1>2, <2>1, <2>2, <2>4
       DEF RankSlot, RankKinds, Ranks!Concerns, Ranks!Carries, Ranks!Doing, Minds, Ranks!OfMember, Proper
  <2> QED BY <2>3, <2>4
<1> QED BY <1>1, <1>2

LEMMA RanksInit == Init => RanksInv
<1> SUFFICES ASSUME Init PROVE RanksInv
  OBVIOUS
<1>1. /\ role = None /\ has = [a \in {"role", "nick", "style"} |-> {}]
      /\ entry = [e \in Three |-> None] /\ ranksRequest = [r \in Two |-> None]
      /\ ranksTold.row = None /\ ranksTold.has = has
      /\ deleted = FALSE /\ ranksCrossed = FALSE /\ stale = {}
  BY DEF Init, Ranks!Init
<1>2. RanksTyped /\ RanksProper
  BY <1>1 DEF RanksTyped, RanksProper
<1>3. NothingYet /\ StaysAway /\ RowKnown
  BY <1>1 DEF NothingYet, StaysAway, RowKnown
<1>4. ASSUME NEW a \in Attributes PROVE HasKnown(a)
  BY <1>1 DEF HasKnown, Attributes
<1> QED BY <1>2, <1>3, <1>4 DEF RanksInv

\* A request that goes on.
LEMMA RankSlots ==
  ASSUME NEW j \in RankSlot
  PROVE  /\ \A s \in {"look", "tell", "record"} : [j EXCEPT !.step = s] \in RankSlot
         /\ \A h \in SUBSET Attributes : [j EXCEPT !.copy.has = h] \in RankSlot
  BY DEF RankSlot, RankView, Attributes

LEMMA RankTuples ==
  ASSUME NEW x \in RankRows, NEW y \in RankRows, NEW p \in Ranks!Values
  PROVE  /\ <<p, x[2]>> \in RankRows /\ <<x[1], p>> \in RankRows
         /\ <<x[1], y[2]>> \in RankRows /\ <<p, 0>> \in RankRows
         /\ <<p, x[2]>> # None /\ <<x[1], p>> # None /\ <<x[1], y[2]>> # None
         /\ <<p, 0>> # None
<1>1. 0 \in Ranks!Values
  BY BoundsAreNumbers DEF Ranks!Values
<1>2. /\ <<p, x[2]>> \in RankRows /\ <<x[1], p>> \in RankRows
      /\ <<x[1], y[2]>> \in RankRows /\ <<p, 0>> \in RankRows
  BY <1>1 DEF RankRows
<1> QED BY <1>2, NoneIsNoValue


LEMMA RanksNext == RanksInv /\ [Next]_vars => RanksInv'
<1> SUFFICES ASSUME RanksInv, Ranks!Next PROVE RanksInv'
  <2>1. CASE UNCHANGED ranksVars
    BY <2>1
       DEF ranksVars, RanksInv, RanksTyped, RanksProper, NothingYet, StaysAway, RowKnown, HasKnown
  <2>2. CASE Ranks!Next
    BY <2>2
  <2> QED BY <2>1, <2>2 DEF Next, vars
<1> USE NoneIsNoValue
<1>a. RanksTyped /\ RanksProper
  BY DEF RanksInv
<1>b. NothingYet
  BY DEF RanksInv
<1>c. StaysAway
  BY DEF RanksInv
<1>d. RowKnown
  BY DEF RanksInv
<1>e. \A a \in Attributes : HasKnown(a)
  BY DEF RanksInv
<1>1. ASSUME NEW r \in Two, NEW p \in Ranks!Values, Ranks!CreateRole(r, p) PROVE RanksInv'
  <2> DEFINE new == <<p, 0>>
             k == [kind |-> "create", was |-> [row |-> None, has |-> {}], what |-> {}, undos |-> 0]
             j == [step |-> "tell", entry |-> None, kind |-> "create",
                   was |-> [row |-> None, has |-> {}], what |-> {},
                   copy |-> [row |-> new, has |-> {}]]
  <2>1. new \in RankRows /\ new # None
    <3>1. 0 \in Ranks!Values
      BY BoundsAreNumbers DEF Ranks!Values
    <3> QED BY <3>1 DEF RankRows
  <2>2. PICK e \in Three : entry' = [entry EXCEPT ![e] = k]
    BY <1>1 DEF Ranks!CreateRole, Ranks!Logged, Ranks!Change, Ranks!Gone, Ranks!OfRole
  <2>3. /\ role = None /\ role' = new /\ ranksRequest[r] = None
        /\ \A d \in Three : entry[d] = None
        /\ ranksRequest' = [ranksRequest EXCEPT ![r] = j]
        /\ UNCHANGED <<has, ranksTold, deleted, ranksCrossed, stale>>
    BY <1>1 DEF Ranks!CreateRole, Ranks!Change, Ranks!Gone, Ranks!OfRole, Ranks!Asked
  <2> HIDE DEF new
  <2>4. k \in RankEntry /\ j \in RankSlot
    BY <2>1 DEF RankEntry, RankSlot, RankView, RankKinds
  <2>5. k # None /\ j # None
    BY <2>4
  <2>6. Proper(j) /\ ProperEntry(k) /\ Minds(j) = {"row"}
    BY <2>1 DEF Proper, ProperEntry, Minds, Ranks!OfMember
  <2>7. ~ deleted
    BY <1>b, <2>3 DEF NothingYet
  <2>8. \A q \in Two : ranksRequest[q] # None => /\ ranksRequest[q].kind \in {"rename", "restyle"}
                                                  /\ "row" \notin Minds(ranksRequest[q])
    BY <1>b, <2>3 DEF NothingYet, Minds, Ranks!OfMember
  <2>9. j.kind = "create" /\ j.step = "tell" /\ j.copy.row = new /\ j.entry = None
    OBVIOUS
  <2>c. /\ entry'[e] = k /\ \A d \in Three \ {e} : entry'[d] = entry[d]
        /\ ranksRequest'[r] = j /\ \A q \in Two \ {r} : ranksRequest'[q] = ranksRequest[q]
    BY <1>a, <2>2, <2>3 DEF RanksTyped
  <2> HIDE DEF k, j
  <2>a. RanksTyped'
    BY <1>a, <2>1, <2>2, <2>3, <2>4 DEF RanksTyped
  <2>b. RanksProper'
    BY <1>a, <2>3, <2>c, <2>5, <2>6, <2>9 DEF RanksTyped, RanksProper, RankSlot
  <2>d. NothingYet'
    BY <2>c, <2>5 DEF NothingYet
  <2>e. StaysAway'
    BY <2>1, <2>3, <2>7 DEF StaysAway
  <2>f. RowKnown'
    BY <2>3, <2>c, <2>5, <2>6, <2>8, <2>9 DEF RowKnown
  <2>g. \A a \in Attributes : HasKnown(a)'
    <3> SUFFICES ASSUME NEW a \in Attributes PROVE HasKnown(a)'
      OBVIOUS
    <3>1. HasKnown(a)
      BY <1>e
    <3>2. a # "row"
      BY DEF Attributes
    <3> QED BY <3>1, <3>2, <2>3, <2>c, <2>5, <2>6, <2>9 DEF HasKnown, Owes, Ranks!OfMember
  <2> QED BY <2>a, <2>b, <2>d, <2>e, <2>f, <2>g DEF RanksInv
<1>2. ASSUME NEW r \in Two, NEW p \in Ranks!Values, Ranks!UpdateRole(r, p) PROVE RanksInv'
  <2>0. role # None /\ role \in RankRows /\ <<p, role[2]>> \in RankRows /\ <<p, role[2]>> # None
    BY <1>a, <1>2, RankTuples DEF Ranks!UpdateRole, Ranks!Exists, RanksTyped
  <2>1. RanksTyped'
    BY <1>a, <2>0, <1>2
       DEF Ranks!UpdateRole, Ranks!Begins, Ranks!Asked, Ranks!Change, Ranks!OfRole, Ranks!Exists,
           RanksTyped, RankSlot, RankView, RankKinds, RankEntry, RankRows, Minds, Ranks!OfMember
  <2>2. RanksProper'
    BY <1>a, <2>0, <1>2
       DEF Ranks!UpdateRole, Ranks!Begins, Ranks!Asked, Ranks!Change, Ranks!OfRole, Ranks!Exists,
           RanksTyped, RanksProper, Proper, ProperEntry, RankSlot, RankView, RankKinds, RankEntry,
           Ranks!OfMember
  <2>3. NothingYet'
    BY <1>a, <2>0, <1>b, <1>2
       DEF Ranks!UpdateRole, Ranks!Begins, Ranks!Asked, Ranks!Change, Ranks!OfRole, Ranks!Exists,
           RanksTyped, NothingYet, RanksProper, Proper, RankSlot, Ranks!OfMember, RankEntry
  <2>4. StaysAway'
    BY <1>a, <2>0, <1>b, <1>c, <1>2
       DEF Ranks!UpdateRole, Ranks!Begins, Ranks!Asked, Ranks!Change, Ranks!OfRole, Ranks!Exists,
           RanksTyped, NothingYet, StaysAway, RanksProper, Proper, RankSlot, Ranks!OfMember
  <2>5. RowKnown'
    BY <1>a, <2>0, <1>b, <1>d, <1>2
       DEF Ranks!UpdateRole, Ranks!Begins, Ranks!Asked, Ranks!Change, Ranks!OfRole, Ranks!Exists,
           RanksTyped, RowKnown, RanksProper, Proper, RankSlot, RankView, RankRows, Ranks!OfMember,
           Minds
  <2>6. \A a \in Attributes : HasKnown(a)'
    BY <1>a, <2>0, <1>b, <1>e, <1>2
       DEF Ranks!UpdateRole, Ranks!Begins, Ranks!Asked, Ranks!Change, Ranks!OfRole, Ranks!Exists,
           RanksTyped, HasKnown, Owes, RanksProper, Proper, RankSlot, RankView, Ranks!OfMember,
           Minds, Attributes
  <2> QED BY <2>1, <2>2, <2>3, <2>4, <2>5, <2>6 DEF RanksInv
<1>3. ASSUME NEW r \in Two, NEW p \in Ranks!Values, Ranks!ReorderRoles(r, p) PROVE RanksInv'
  <2>0. role # None /\ role \in RankRows /\ <<role[1], p>> \in RankRows /\ <<role[1], p>> # None
    BY <1>a, <1>3, RankTuples DEF Ranks!ReorderRoles, Ranks!Exists, RanksTyped
  <2>1. RanksTyped'
    BY <1>a, <2>0, <1>3
       DEF Ranks!ReorderRoles, Ranks!Begins, Ranks!Asked, Ranks!Change, Ranks!OfRole, Ranks!Exists,
           Ranks!Gone, RanksTyped, RankSlot, RankView, RankKinds, RankEntry, RankRows, Minds,
           Ranks!OfMember
  <2>2. RanksProper'
    BY <1>a, <2>0, <1>3
       DEF Ranks!ReorderRoles, Ranks!Begins, Ranks!Asked, Ranks!Change, Ranks!OfRole, Ranks!Exists,
           Ranks!Gone, RanksTyped, RanksProper, Proper, ProperEntry, RankSlot, RankView, RankKinds,
           RankEntry, Ranks!OfMember
  <2>3. NothingYet'
    BY <1>a, <2>0, <1>b, <1>3
       DEF Ranks!ReorderRoles, Ranks!Begins, Ranks!Asked, Ranks!Change, Ranks!OfRole, Ranks!Exists,
           Ranks!Gone, RanksTyped, NothingYet, RanksProper, Proper, RankSlot, Ranks!OfMember,
           RankEntry
  <2>4. StaysAway'
    BY <1>a, <2>0, <1>b, <1>c, <1>3
       DEF Ranks!ReorderRoles, Ranks!Begins, Ranks!Asked, Ranks!Change, Ranks!OfRole, Ranks!Exists,
           Ranks!Gone, RanksTyped, NothingYet, StaysAway, RanksProper, Proper, RankSlot,
           Ranks!OfMember
  <2>5. RowKnown'
    BY <1>a, <2>0, <1>b, <1>d, <1>3
       DEF Ranks!ReorderRoles, Ranks!Begins, Ranks!Asked, Ranks!Change, Ranks!OfRole, Ranks!Exists,
           Ranks!Gone, RanksTyped, RowKnown, RanksProper, Proper, RankSlot, RankView, RankRows,
           Ranks!OfMember, Minds
  <2>6. \A a \in Attributes : HasKnown(a)'
    BY <1>a, <2>0, <1>b, <1>e, <1>3
       DEF Ranks!ReorderRoles, Ranks!Begins, Ranks!Asked, Ranks!Change, Ranks!OfRole, Ranks!Exists,
           Ranks!Gone, RanksTyped, HasKnown, Owes, RanksProper, Proper, RankSlot, RankView,
           Ranks!OfMember, Minds, Attributes
  <2> QED BY <2>1, <2>2, <2>3, <2>4, <2>5, <2>6 DEF RanksInv
<1>4. ASSUME NEW r \in Two, Ranks!DeleteRole(r) PROVE RanksInv'
  <2>1. RanksTyped'
    BY <1>a, <1>4
       DEF Ranks!DeleteRole, Ranks!Begins, Ranks!Asked, Ranks!Change, Ranks!OfRole, Ranks!Exists,
           Ranks!Gone, RanksTyped, RankSlot, RankView, RankKinds, RankEntry, RankRows, Minds,
           Ranks!OfMember
  <2>2. RanksProper'
    BY <1>a, <1>4
       DEF Ranks!DeleteRole, Ranks!Begins, Ranks!Asked, Ranks!Change, Ranks!OfRole, Ranks!Exists,
           Ranks!Gone, RanksTyped, RanksProper, Proper, ProperEntry, RankSlot, RankView, RankKinds,
           RankEntry, Ranks!OfMember
  <2>3. NothingYet'
    BY <1>a, <1>b, <1>4
       DEF Ranks!DeleteRole, Ranks!Begins, Ranks!Asked, Ranks!Change, Ranks!OfRole, Ranks!Exists,
           Ranks!Gone, RanksTyped, NothingYet, RanksProper, Proper, RankSlot, Ranks!OfMember,
           RankEntry
  <2>4. StaysAway'
    BY <1>a, <1>b, <1>c, <1>4
       DEF Ranks!DeleteRole, Ranks!Begins, Ranks!Asked, Ranks!Change, Ranks!OfRole, Ranks!Exists,
           Ranks!Gone, RanksTyped, NothingYet, StaysAway, RanksProper, Proper, RankSlot,
           Ranks!OfMember
  <2>5. RowKnown'
    BY <1>a, <1>b, <1>d, <1>4
       DEF Ranks!DeleteRole, Ranks!Begins, Ranks!Asked, Ranks!Change, Ranks!OfRole, Ranks!Exists,
           Ranks!Gone, RanksTyped, RowKnown, RanksProper, Proper, RankSlot, RankView, RankRows,
           Ranks!OfMember, Minds
  <2>6. \A a \in Attributes : HasKnown(a)'
    BY <1>a, <1>b, <1>e, <1>4
       DEF Ranks!DeleteRole, Ranks!Begins, Ranks!Asked, Ranks!Change, Ranks!OfRole, Ranks!Exists,
           Ranks!Gone, RanksTyped, HasKnown, Owes, RanksProper, Proper, RankSlot, RankView,
           Ranks!OfMember, Minds, Attributes
  <2> QED BY <2>1, <2>2, <2>3, <2>4, <2>5, <2>6 DEF RanksInv
<1>5. ASSUME NEW r \in Two, Ranks!WritesRole(r) PROVE RanksInv'
  <2> DEFINE j == ranksRequest[r]
             k == [j EXCEPT !.step = "tell"]
             c == [kind |-> j.kind, was |-> j.was, what |-> j.what, undos |-> 0]
  <2>h. j \in RankSlot /\ j # None /\ Proper(j) /\ j.step = "write" /\ j.kind \notin Ranks!OfMember
    BY <1>a, <1>5 DEF RanksTyped, RanksProper, Ranks!WritesRole, Ranks!Doing, Ranks!OfMember
  <2>i. /\ j.copy.row \in RankRows \cup {None} /\ j.was \in RankView /\ j.kind \in RankKinds
        /\ j.what \in SUBSET Users /\ k \in RankSlot /\ j.entry = None
    BY <2>h, RankSlots DEF RankSlot, RankView, Proper
  <2>j. c \in RankEntry
    BY <2>i DEF RankEntry
  <2>k. role # None /\ j.copy.row # None =>
          /\ <<role[1], j.copy.row[2]>> \in RankRows /\ <<role[1], j.copy.row[2]>> # None
          /\ j.copy.row[1] = role[1] => <<role[1], j.copy.row[2]>> = j.copy.row
    BY <1>a, <2>i, RankTuples DEF RanksTyped, RankRows
  <2>l. ranksRequest' = [ranksRequest EXCEPT ![r] = k] /\ ranksTold' = ranksTold
    BY <1>5 DEF Ranks!WritesRole
  <2>m. entry' = entry \/ \E e \in Three : entry' = [entry EXCEPT ![e] = c]
    BY <1>5 DEF Ranks!WritesRole, Ranks!Entered, Ranks!Logged, Ranks!Change
  <2>n. \/ /\ j.kind = "delete" /\ role' = None /\ has' = [has EXCEPT !["role"] = {}]
           /\ deleted' = TRUE /\ ranksCrossed' = ranksCrossed
        \/ /\ j.kind = "update" /\ role' = j.copy.row /\ j.copy.row # None
           /\ ranksCrossed' = (ranksCrossed \/ role = None) /\ UNCHANGED <<has, deleted>>
        \/ /\ j.kind = "reorder" /\ j.copy.row # None
           /\ role' = (IF role # None THEN <<role[1], j.copy.row[2]>> ELSE None)
           /\ UNCHANGED <<has, deleted, ranksCrossed>>
    BY <1>5, <2>h
       DEF Ranks!WritesRole, Ranks!DeletesRole, Ranks!SavesRole, Ranks!PlacesRole, Ranks!Exists,
           Proper
  <2>o. /\ stale' = stale \cup ((IF j.kind = "delete" THEN {"row", "role"} ELSE {"row"})
                              \cap UNION {Ranks!Concerns(q) : q \in Two \ {r}})
    BY <1>5 DEF Ranks!WritesRole, Ranks!Overtakes
  <2>p. stale' \subseteq stale \cup {"row", "role"} /\ stale \subseteq stale'
    BY <2>o
  <2>q. \A q \in Two \ {r} : "row" \notin stale' /\ ranksRequest[q] # None => "row" \notin Minds(ranksRequest[q])
    BY <1>a, <2>o, WhatConcerns
  <2>r. /\ ranksRequest'[r] = k /\ \A q \in Two \ {r} : ranksRequest'[q] = ranksRequest[q]
    BY <1>a, <2>l DEF RanksTyped
  <2>s. /\ k.step = "tell" /\ k.copy = j.copy /\ k.kind = j.kind /\ k # None
        /\ "row" \in Minds(k) /\ (j.kind = "reorder" => "row" \in Minds(j))
    BY <2>h, <2>i DEF RankSlot, Minds, Proper
  <2>1. RanksTyped'
    <3> HIDE DEF j, k, c
    <3>1. role' \in RankRows \cup {None} /\ deleted' \in BOOLEAN /\ ranksCrossed' \in BOOLEAN
      BY <1>a, <2>i, <2>k, <2>n DEF RanksTyped
    <3>2. has' \in [{"role", "nick", "style"} -> SUBSET Users]
      BY <1>a, <2>n DEF RanksTyped
    <3>3. entry' \in [Three -> RankEntry \cup {None}]
      BY <1>a, <2>j, <2>m DEF RanksTyped
    <3> QED BY <1>a, <3>1, <3>2, <3>3, <2>i, <2>l, <2>p DEF RanksTyped
  <2>2. RanksProper'
    BY <1>a, <1>5
       DEF Ranks!WritesRole, Ranks!Doing, Ranks!DeletesRole, Ranks!SavesRole, Ranks!PlacesRole,
           Ranks!Entered, Ranks!Logged, Ranks!Change, Ranks!Exists, Ranks!Overtakes, RanksTyped,
           RanksProper, Proper, ProperEntry, RankSlot, RankView, RankKinds, RankEntry,
           Ranks!OfMember
  <2>3. NothingYet'
    BY <1>a, <1>b, <1>5
       DEF Ranks!WritesRole, Ranks!Doing, Ranks!DeletesRole, Ranks!SavesRole, Ranks!PlacesRole,
           Ranks!Entered, Ranks!Logged, Ranks!Change, Ranks!Exists, Ranks!Overtakes, RanksTyped,
           NothingYet, RanksProper, Proper, RankSlot, Ranks!OfMember, RankEntry
  <2>4. StaysAway'
    <3> HIDE DEF j
    <3> QED BY <1>a, <1>c, <2>k, <2>n DEF StaysAway, RanksTyped
  <2>5. RowKnown'
    <3>1. role' = k.copy.row \/ "row" \in stale'
      BY <1>a, <1>d, <2>h, <2>k, <2>n, <2>p, <2>s DEF RowKnown, Proper
    <3> HIDE DEF j, k
    <3> QED BY <3>1, <2>p, <2>q, <2>r, <2>s DEF RowKnown
  <2>6. \A a \in Attributes : HasKnown(a)'
    BY <1>a, <1>b, <1>e, <1>5, WhatConcerns
       DEF Ranks!WritesRole, Ranks!Doing, Ranks!DeletesRole, Ranks!SavesRole, Ranks!PlacesRole,
           Ranks!Entered, Ranks!Logged, Ranks!Change, Ranks!Exists, Ranks!Overtakes, RanksTyped,
           HasKnown, Owes, RanksProper, Proper, RankSlot, RankView, Ranks!OfMember, Minds,
           Attributes
  <2> QED BY <2>1, <2>2, <2>3, <2>4, <2>5, <2>6 DEF RanksInv
<1>6. ASSUME NEW r \in Two, Ranks!WritesMember(r) PROVE RanksInv'
  <2>1. RanksTyped'
    <3> DEFINE j == ranksRequest[r]
               c == [kind |-> j.kind, was |-> j.was, what |-> j.what, undos |-> 0]
    <3>1. j \in RankSlot /\ j # None
      BY <1>a, <1>6 DEF RanksTyped, Ranks!WritesMember, Ranks!Doing
    <3>2. c \in RankEntry /\ j.copy.has \subseteq Attributes /\ j.what \in SUBSET Users
      BY <3>1 DEF RankSlot, RankView, RankEntry, Attributes
    <3>3. Ranks!Column(j.kind) \in Attributes
      BY DEF Ranks!Column, Attributes
    <3>4. PICK h \in SUBSET Attributes :
            ranksRequest' = [ranksRequest EXCEPT ![r] = [[j EXCEPT !.step = "look"] EXCEPT !.copy.has = h]]
      <4>1. PICK there0 \in BOOLEAN : ranksRequest' = [ranksRequest EXCEPT ![r].step = "look", ![r].copy.has =
                        (@ \ {Ranks!Column(j.kind)}) \cup (IF there0 THEN {Ranks!Column(j.kind)} ELSE {})]
        BY <1>6 DEF Ranks!WritesMember
      <4> DEFINE h == (j.copy.has \ {Ranks!Column(j.kind)})
                        \cup (IF there0 THEN {Ranks!Column(j.kind)} ELSE {})
      <4>2. h \in SUBSET Attributes
        BY <3>2, <3>3
      <4>3. ranksRequest' = [ranksRequest EXCEPT ![r] = [[j EXCEPT !.step = "look"] EXCEPT !.copy.has = h]]
        BY <1>a, <3>1, <4>1 DEF RanksTyped, RankSlot, RankView
      <4> QED BY <4>2, <4>3
    <3>5. [[j EXCEPT !.step = "look"] EXCEPT !.copy.has = h] \in RankSlot
      BY <3>1, RankSlots
    <3>6. entry' = entry \/ \E e \in Three : entry' = [entry EXCEPT ![e] = c]
      BY <1>6 DEF Ranks!WritesMember, Ranks!Entered, Ranks!Logged, Ranks!Change
    <3>7. has' \in [{"role", "nick", "style"} -> SUBSET Users]
      <4>1. PICK a \in Attributes, H \in SUBSET Users : has' = [has EXCEPT ![a] = H]
        BY <1>a, <1>6, <3>2, <3>3
           DEF Ranks!WritesMember, Ranks!Binds, Ranks!Unbinds, Ranks!Puts, RanksTyped, Attributes
      <4> QED BY <1>a, <4>1 DEF RanksTyped, Attributes
    <3>8. /\ role' = role /\ deleted' = deleted /\ ranksTold' = ranksTold
          /\ ranksCrossed' \in BOOLEAN
      BY <1>a, <1>6 DEF Ranks!WritesMember, Ranks!Binds, Ranks!Unbinds, Ranks!Puts, RanksTyped
    <3>9. stale' \subseteq {"row", "role", "nick", "style"}
      BY <1>a, <1>6, <3>3 DEF Ranks!WritesMember, Ranks!Overtakes, RanksTyped, Attributes
    <3> HIDE DEF j, c
    <3>10. entry' \in [Three -> RankEntry \cup {None}]
      BY <1>a, <3>2, <3>6 DEF RanksTyped
    <3>11. ranksRequest' \in [Two -> RankSlot \cup {None}]
      BY <1>a, <3>4, <3>5 DEF RanksTyped
    <3> QED BY <1>a, <3>7, <3>8, <3>9, <3>10, <3>11 DEF RanksTyped
  <2>2. RanksProper'
    <3>1. /\ ranksRequest[r] \in RankSlot /\ ranksRequest[r] # None /\ Proper(ranksRequest[r])
          /\ ranksRequest[r].kind \in Ranks!OfMember /\ ranksRequest[r].step = "write"
      BY <1>a, <1>6 DEF RanksTyped, RanksProper, Ranks!WritesMember, Ranks!Doing
    <3>2. ranksRequest[r].entry = None /\ ranksRequest[r].kind \notin {"update", "reorder", "delete", "create"}
      BY <3>1 DEF Proper, Ranks!OfMember
    <3>3. /\ ranksRequest'[r].entry = ranksRequest[r].entry /\ ranksRequest'[r].kind = ranksRequest[r].kind
          /\ ranksRequest'[r].what = ranksRequest[r].what /\ ranksRequest'[r].step = "look"
          /\ \A q \in Two \ {r} : ranksRequest'[q] = ranksRequest[q]
      BY <1>a, <1>6, <3>1 DEF RanksTyped, RankSlot, RankView, Ranks!WritesMember
    <3>4. Proper(ranksRequest'[r])
      BY <3>1, <3>2, <3>3 DEF Proper
    <3> DEFINE c == [kind |-> ranksRequest[r].kind, was |-> ranksRequest[r].was,
                     what |-> ranksRequest[r].what, undos |-> 0]
    <3>5. \/ entry' = entry
          \/ /\ ranksRequest[r].kind \notin {"reorder", "restyle"}
             /\ \E e \in Three : entry[e] = None /\ entry' = [entry EXCEPT ![e] = c]
      BY <1>6 DEF Ranks!WritesMember, Ranks!Entered, Ranks!Logged, Ranks!Change
    <3>6. ranksRequest[r].kind \notin {"reorder", "restyle"} => c # None /\ ProperEntry(c)
      <4>1. c \in RankEntry
        BY <3>1 DEF RankSlot, RankEntry
      <4> QED BY <3>1, <3>2, <4>1, NoneIsNoValue DEF Proper, ProperEntry
    <3> HIDE DEF c
    <3>7. \A e \in Three : /\ entry[e] # None => entry'[e] # None
                           /\ entry'[e] # None => ProperEntry(entry'[e])
      BY <1>a, <3>5, <3>6 DEF RanksTyped, RanksProper
    <3> QED BY <1>a, <3>2, <3>3, <3>4, <3>7 DEF RanksProper, RanksTyped, RankSlot
  <2>3. NothingYet'
    BY <1>a, <1>b, <1>6
       DEF Ranks!WritesMember, Ranks!Doing, Ranks!Column, Ranks!Binds, Ranks!Unbinds, Ranks!Puts,
           Ranks!Entered, Ranks!Logged, Ranks!Change, Ranks!Exists, Ranks!Overtakes, RanksTyped,
           NothingYet, RanksProper, Proper, RankSlot, Ranks!OfMember, RankEntry
  <2>4. StaysAway'
    BY <1>a, <1>b, <1>c, <1>6
       DEF Ranks!WritesMember, Ranks!Doing, Ranks!Column, Ranks!Binds, Ranks!Unbinds, Ranks!Puts,
           Ranks!Entered, Ranks!Logged, Ranks!Change, Ranks!Exists, Ranks!Overtakes, RanksTyped,
           NothingYet, StaysAway, RanksProper, Proper, RankSlot, Ranks!OfMember
  <2> DEFINE j == ranksRequest[r]
  <2>f. PICK b \in Attributes : b = Ranks!Column(j.kind)
    BY DEF Ranks!Column, Attributes
  <2>g. /\ j \in RankSlot /\ j # None /\ j.kind \in Ranks!OfMember
        /\ j.step = "write" /\ j.entry = None
    BY <1>a, <1>6 DEF RanksTyped, RanksProper, Proper, Ranks!WritesMember, Ranks!Doing
  <2>h. /\ has \in [Attributes -> SUBSET Users]
        /\ role' = role /\ ranksTold' = ranksTold
    BY <1>a, <1>6
       DEF Ranks!Column, Attributes, RanksTyped, Ranks!WritesMember, Ranks!Binds, Ranks!Unbinds,
           Ranks!Puts
  <2>i. PICK t \in BOOLEAN :
          /\ has' = [has EXCEPT ![b] = IF t THEN has[b] \cup j.what ELSE has[b] \ j.what]
          /\ ranksRequest' = [ranksRequest EXCEPT
               ![r].step = "look", ![r].copy.has = (@ \ {b}) \cup (IF t THEN {b} ELSE {})]
          /\ Ranks!Overtakes(r, {b}, {})
    BY <1>6, <2>f, <2>g, <2>h
       DEF Ranks!WritesMember, Ranks!Binds, Ranks!Unbinds, Ranks!Puts, Ranks!Column
  <2>j. /\ ranksRequest'[r] # None
        /\ ranksRequest'[r].kind = j.kind /\ ranksRequest'[r].entry = None
        /\ ranksRequest'[r].what = j.what /\ ranksRequest'[r].step = "look"
        /\ ranksRequest'[r].copy.has = (j.copy.has \ {b}) \cup (IF t THEN {b} ELSE {})
        /\ \A q \in Two \ {r} : ranksRequest'[q] = ranksRequest[q]
    <3>1. ranksRequest' = [ranksRequest EXCEPT ![r] =
            [[j EXCEPT !.step = "look"] EXCEPT
               !.copy.has = (j.copy.has \ {b}) \cup (IF t THEN {b} ELSE {})]]
      BY <1>a, <2>g, <2>i DEF RanksTyped, RankSlot, RankView
    <3> DEFINE i == [j EXCEPT !.step = "look"]
               h == (j.copy.has \ {b}) \cup (IF t THEN {b} ELSE {})
    <3>2. j.copy \in RankView /\ j.copy.has \subseteq Attributes /\ h \in SUBSET Attributes
      BY <2>f, <2>g DEF RankSlot, RankView, Attributes
    <3>3. i \in RankSlot
      BY <2>g, RankSlots
    <3>4. /\ ranksRequest'[r] = [i EXCEPT !.copy.has = h]
          /\ \A q \in Two \ {r} : ranksRequest'[q] = ranksRequest[q]
      BY <1>a, <3>1 DEF RanksTyped
    <3>5. /\ i.kind = j.kind /\ i.entry = None /\ i.what = j.what /\ i.step = "look"
          /\ i.copy = j.copy
      BY <2>g DEF RankSlot
    <3> HIDE DEF i, h, j
    <3>6. [i EXCEPT !.copy.has = h].copy.has = h
      BY <3>2, <3>3, <3>5 DEF RankSlot, RankView
    <3>7. [i EXCEPT !.copy.has = h] \in RankSlot
      BY <3>2, <3>3, RankSlots
    <3>8. [i EXCEPT !.copy.has = h] # None
      BY <3>7, NoneIsNoValue
    <3> QED BY <3>3, <3>4, <3>5, <3>6, <3>8 DEF RankSlot, h
  <2>k. /\ Minds(j) = {"nick", "style"} \ {b}
        /\ Minds(ranksRequest'[r]) = {"nick", "style"}
    BY <2>f, <2>g, <2>j DEF Minds
  <2>l. /\ stale \subseteq stale'
        /\ b \notin stale' =>
             \A q \in Two \ {r} : ranksRequest[q] # None => b \notin Minds(ranksRequest[q])
    BY <1>a, <2>i, WhatConcerns DEF Ranks!Overtakes
  <2>m. has'[b] = IF t THEN has[b] \cup j.what ELSE has[b] \ j.what
    BY <2>h, <2>i
  <2>n. \A a \in Attributes \ {b} : has'[a] = has[a]
    BY <2>h, <2>i
  <2> HIDE DEF j, Minds
  <2>5. RowKnown'
    <3>1. "row" \notin Minds(ranksRequest'[r]) /\ "row" \notin Minds(ranksRequest[r])
      BY <2>k DEF j
    <3> QED BY <1>d, <2>h, <2>j, <2>l, <3>1 DEF RowKnown
  <2>6. \A a \in Attributes : HasKnown(a)'
    <3>0. \A a \in Attributes, m \in Users : ~ Owes(ranksRequest[r], a, m)
      BY <2>g DEF Owes, j
    <3>1. \A a \in Attributes, m \in Users : Owes(ranksRequest'[r], a, m) <=> m \in j.what
      BY <2>g, <2>j DEF Owes
    <3>2. ASSUME NEW a \in Attributes \ {b}, a \notin stale' PROVE HasKnown(a)'
      <4>1. HasKnown(a) /\ a \notin stale /\ has'[a] = has[a]
        BY <1>e, <2>l, <2>n, <3>2
      <4>2. /\ a \in Minds(ranksRequest'[r]) => a \in Minds(ranksRequest[r])
            /\ a \in ranksRequest'[r].copy.has <=> a \in ranksRequest[r].copy.has
        BY <2>j, <2>k, <3>2 DEF j
      <4>3. ASSUME NEW q \in Two, ranksRequest'[q] # None, a \in Minds(ranksRequest'[q])
            PROVE  IF ranksRequest'[q].kind \in Ranks!OfMember
                   THEN \A m \in ranksRequest'[q].what :
                          a \in ranksRequest'[q].copy.has <=> m \in has'[a]
                   ELSE has'[a] = {}
        <5>1. CASE q = r
          BY <2>g, <2>j, <4>1, <4>2, <4>3, <5>1 DEF HasKnown, j
        <5>2. CASE q # r
          BY <2>j, <4>1, <4>3, <5>2 DEF HasKnown
        <5> QED BY <5>1, <5>2
      <4>4. ASSUME NEW m \in Users
            PROVE  \/ m \in ranksTold'.has[a] <=> m \in has'[a]
                   \/ \E q \in Two : ranksRequest'[q] # None /\ Owes(ranksRequest'[q], a, m)
        <5> HIDE DEF Owes
        <5> QED BY <2>h, <2>j, <3>0, <4>1 DEF HasKnown
      <4> QED BY <4>3, <4>4 DEF HasKnown
    <3>3. ASSUME b \notin stale' PROVE HasKnown(b)'
      <4>1. HasKnown(b) /\ b \notin stale
        BY <1>e, <2>h, <2>l, <3>3
      <4>2. \A q \in Two : ranksRequest'[q] # None /\ b \in Minds(ranksRequest'[q]) => q = r
        BY <2>j, <2>l, <3>3
      <4>3. b \in ranksRequest'[r].copy.has <=> t
        BY <2>j
      <4>4. \A m \in j.what : m \in has'[b] <=> t
        BY <2>m
      <4>5. \A q \in Two : ranksRequest'[q] # None /\ b \in Minds(ranksRequest'[q]) =>
               IF ranksRequest'[q].kind \in Ranks!OfMember
               THEN \A m \in ranksRequest'[q].what :
                      b \in ranksRequest'[q].copy.has <=> m \in has'[b]
               ELSE has'[b] = {}
        BY <2>g, <2>j, <4>2, <4>3, <4>4
      <4>6. ASSUME NEW m \in Users
            PROVE  \/ m \in ranksTold'.has[b] <=> m \in has'[b]
                   \/ \E q \in Two : ranksRequest'[q] # None /\ Owes(ranksRequest'[q], b, m)
        <5> HIDE DEF Owes
        <5>1. CASE m \in j.what
          BY <2>h, <2>j, <3>1, <5>1
        <5>2. CASE m \notin j.what
          <6>1. m \in has'[b] <=> m \in has[b]
            BY <2>m, <5>2
          <6> QED BY <2>h, <2>j, <3>0, <4>1, <6>1 DEF HasKnown
        <5> QED BY <5>1, <5>2
      <4> QED BY <4>5, <4>6 DEF HasKnown
    <3> QED BY <3>2, <3>3 DEF HasKnown
  <2> QED BY <2>1, <2>2, <2>3, <2>4, <2>5, <2>6 DEF RanksInv
<1>7. ASSUME NEW r \in Two, Ranks!PublishMemberUpdate(r) PROVE RanksInv'
  <2>1. RanksTyped'
    <3> DEFINE j == ranksRequest[r]
    <3>1. j \in RankSlot /\ j # None
      BY <1>a, <1>7 DEF RanksTyped, Ranks!PublishMemberUpdate, Ranks!Doing
    <3>2. j.copy.has \subseteq Attributes
      BY <3>1 DEF RankSlot, RankView, Attributes
    <3>4. PICK h \in SUBSET Attributes :
            ranksRequest' = [ranksRequest EXCEPT ![r] = [[j EXCEPT !.step = "tell"] EXCEPT !.copy.has = h]]
      <4>1. PICK m \in Users : ranksRequest' = [ranksRequest EXCEPT ![r].step = "tell", ![r].copy.has = Ranks!RolesNow(r, m)]
        BY <1>7, <3>1 DEF Ranks!PublishMemberUpdate, RankSlot
      <4>2. Ranks!RolesNow(r, m) \in SUBSET Attributes
        BY <3>2 DEF Ranks!RolesNow, Attributes
      <4>3. ranksRequest' = [ranksRequest EXCEPT ![r] = [[j EXCEPT !.step = "tell"] EXCEPT !.copy.has = Ranks!RolesNow(r, m)]]
        BY <1>a, <3>1, <4>1 DEF RanksTyped, RankSlot, RankView
      <4> QED BY <4>2, <4>3
    <3>5. [[j EXCEPT !.step = "tell"] EXCEPT !.copy.has = h] \in RankSlot
      BY <3>1, RankSlots
    <3> HIDE DEF j
    <3>6. ranksRequest' \in [Two -> RankSlot \cup {None}]
      BY <1>a, <3>4, <3>5 DEF RanksTyped
    <3> QED BY <1>a, <1>7, <3>6 DEF Ranks!PublishMemberUpdate, RanksTyped
  <2>2. RanksProper'
    BY <1>a, <1>7, SMTT(20)
       DEF Ranks!PublishMemberUpdate, Ranks!Doing, Ranks!RolesNow, Ranks!Attributes, RanksTyped,
           RanksProper, Proper, ProperEntry, RankSlot, RankView, RankKinds, RankEntry,
           Ranks!OfMember
  <2>3. NothingYet'
    BY <1>a, <1>b, <1>7
       DEF Ranks!PublishMemberUpdate, Ranks!Doing, Ranks!RolesNow, Ranks!Attributes, RanksTyped,
           NothingYet, RanksProper, Proper, RankSlot, Ranks!OfMember, RankEntry
  <2>4. StaysAway'
    BY <1>a, <1>b, <1>c, <1>7
       DEF Ranks!PublishMemberUpdate, Ranks!Doing, Ranks!RolesNow, Ranks!Attributes, RanksTyped,
           NothingYet, StaysAway, RanksProper, Proper, RankSlot, Ranks!OfMember
  <2>5. RowKnown'
    BY <1>a, <1>b, <1>d, <1>7
       DEF Ranks!PublishMemberUpdate, Ranks!Doing, Ranks!RolesNow, Ranks!Attributes, RanksTyped,
           RowKnown, RanksProper, Proper, RankSlot, RankView, RankRows, Ranks!OfMember, Minds
  <2>6. \A a \in Attributes : HasKnown(a)'
    <3>1. /\ ranksRequest[r] \in RankSlot /\ ranksRequest[r] # None
          /\ ranksRequest[r].entry = None /\ ranksRequest[r].kind \in Ranks!OfMember
          /\ ranksRequest[r].step = "look" /\ \E m \in Users : ranksRequest[r].what = {m}
      BY <1>a, <1>7 DEF RanksTyped, RanksProper, Proper, Ranks!PublishMemberUpdate, Ranks!Doing
    <3>2. PICK m \in Users :
            /\ ranksRequest[r].what = {m}
            /\ ranksRequest' = [ranksRequest EXCEPT ![r].step = "tell", ![r].copy.has = Ranks!RolesNow(r, m)]
      <4>1. PICK n \in Users : ranksRequest[r].what = {n}
        BY <3>1
      <4>2. PICK m \in ranksRequest[r].what :
              ranksRequest' = [ranksRequest EXCEPT ![r].step = "tell", ![r].copy.has = Ranks!RolesNow(r, m)]
        BY <1>7 DEF Ranks!PublishMemberUpdate
      <4>3. m = n
        BY <4>1, <4>2
      <4> QED BY <4>1, <4>2, <4>3
    <3>3. /\ ranksRequest'[r].entry = None /\ ranksRequest'[r].kind = ranksRequest[r].kind
          /\ ranksRequest'[r].what = {m} /\ ranksRequest'[r].step = "tell" /\ ranksRequest'[r] # None
          /\ ranksRequest'[r].copy.has = Ranks!RolesNow(r, m)
          /\ \A q \in Two \ {r} : ranksRequest'[q] = ranksRequest[q]
      <4>1. ranksRequest[r].copy \in RankView
        BY <3>1 DEF RankSlot
      <4>2. /\ ranksRequest'[r].entry = None /\ ranksRequest'[r].kind = ranksRequest[r].kind
            /\ ranksRequest'[r].what = {m} /\ ranksRequest'[r].step = "tell"
            /\ \A q \in Two \ {r} : ranksRequest'[q] = ranksRequest[q]
        BY <1>a, <3>1, <3>2 DEF RanksTyped, RankSlot
      <4>3. ranksRequest'[r].copy.has = Ranks!RolesNow(r, m)
        BY <1>a, <3>1, <3>2, <4>1 DEF RanksTyped, RankSlot, RankView
      <4>4. ranksRequest'[r] # None
        <5> DEFINE j == ranksRequest[r]
                   h == Ranks!RolesNow(r, m)
        <5>1. h \in SUBSET Attributes
          BY <4>1 DEF Ranks!RolesNow, Attributes, RankView
        <5>2. ranksRequest'[r] = [[j EXCEPT !.step = "tell"] EXCEPT !.copy.has = h]
          BY <1>a, <3>1, <3>2, <4>1 DEF RanksTyped, RankSlot, RankView
        <5> HIDE DEF h
        <5>3. [[j EXCEPT !.step = "tell"] EXCEPT !.copy.has = h] \in RankSlot
          BY <3>1, <5>1, RankSlots
        <5> QED BY <5>2, <5>3, NoneIsNoValue
      <4> QED BY <4>2, <4>3, <4>4
    <3>4. \A a \in Attributes :
            /\ a \in Minds(ranksRequest'[r]) <=> a = "role" \/ a \in Minds(ranksRequest[r])
            /\ a \in Ranks!RolesNow(r, m) <=>
                 IF a = "role" THEN m \in has["role"] ELSE a \in ranksRequest[r].copy.has
      BY <1>a, <3>1, <3>3 DEF Minds, Ranks!RolesNow, Ranks!Attributes, Attributes, RanksTyped
    <3>5. \A a, n : \A q \in Two : Owes(ranksRequest'[q], a, n) <=> Owes(ranksRequest[q], a, n)
      BY <3>1, <3>2, <3>3 DEF Owes
    <3>6. has' = has /\ stale' = stale /\ ranksTold' = ranksTold
      BY <1>7 DEF Ranks!PublishMemberUpdate
    <3> SUFFICES ASSUME NEW a \in Attributes, a \notin stale PROVE HasKnown(a)'
      BY <3>6 DEF HasKnown
    <3>7. HasKnown(a)
      BY <1>e
    <3>8. ASSUME NEW n \in Users
          PROVE  \/ n \in ranksTold.has[a] <=> n \in has[a]
                 \/ \E q \in Two : ranksRequest'[q] # None /\ Owes(ranksRequest'[q], a, n)
      BY <3>1, <3>3, <3>5, <3>7 DEF HasKnown
    <3>9. ASSUME NEW q \in Two, ranksRequest'[q] # None, a \in Minds(ranksRequest'[q])
          PROVE  IF ranksRequest'[q].kind \in Ranks!OfMember
                 THEN \A n \in ranksRequest'[q].what : a \in ranksRequest'[q].copy.has <=> n \in has[a]
                 ELSE has[a] = {}
      <4>1. CASE q # r
        BY <3>3, <3>7, <3>9, <4>1 DEF HasKnown
      <4>2. CASE q = r
        <5>1. ranksRequest'[r].kind \in Ranks!OfMember /\ ranksRequest'[r].what = {m}
          BY <3>1, <3>3
        <5>2. a \in ranksRequest'[r].copy.has <=>
                IF a = "role" THEN m \in has["role"] ELSE a \in ranksRequest[r].copy.has
          BY <3>3, <3>4
        <5>3. a # "role" => (a \in ranksRequest[r].copy.has <=> m \in has[a])
          <6>1. a # "role" => a \in Minds(ranksRequest[r])
            BY <3>4, <3>9, <4>2
          <6> QED BY <3>1, <3>2, <3>7, <6>1 DEF HasKnown
        <5> QED BY <4>2, <5>1, <5>2, <5>3
      <4> QED BY <4>1, <4>2
    <3> QED BY <3>6, <3>8, <3>9 DEF HasKnown
  <2> QED BY <2>1, <2>2, <2>3, <2>4, <2>5, <2>6 DEF RanksInv
<1>8. ASSUME NEW r \in Two, Ranks!Tells(r) PROVE RanksInv'
  <2>1. RanksTyped'
    BY <1>a, <1>8
       DEF Ranks!Tells, Ranks!Doing, Ranks!Ends, Ranks!ToldMember, Ranks!ToldRole, RanksTyped,
           RankSlot, RankView, RankKinds, RankEntry, RankRows, Minds, Ranks!OfMember
  <2>2. RanksProper'
    BY <1>a, <1>8
       DEF Ranks!Tells, Ranks!Doing, Ranks!Ends, Ranks!ToldMember, Ranks!ToldRole, RanksTyped,
           RanksProper, Proper, ProperEntry, RankSlot, RankView, RankKinds, RankEntry,
           Ranks!OfMember
  <2>3. NothingYet'
    BY <1>a, <1>b, <1>8
       DEF Ranks!Tells, Ranks!Doing, Ranks!Ends, Ranks!ToldMember, Ranks!ToldRole, RanksTyped,
           NothingYet, RanksProper, Proper, RankSlot, Ranks!OfMember, RankEntry
  <2>4. StaysAway'
    BY <1>a, <1>b, <1>c, <1>8
       DEF Ranks!Tells, Ranks!Doing, Ranks!Ends, Ranks!ToldMember, Ranks!ToldRole, RanksTyped,
           NothingYet, StaysAway, RanksProper, Proper, RankSlot, Ranks!OfMember
  <2>5. RowKnown'
    BY <1>a, <1>b, <1>d, <1>8
       DEF Ranks!Tells, Ranks!Doing, Ranks!Ends, Ranks!ToldMember, Ranks!ToldRole, RanksTyped,
           RowKnown, RanksProper, Proper, RankSlot, RankView, RankRows, Ranks!OfMember, Minds
  <2>6. \A a \in Attributes : HasKnown(a)'
    BY <1>a, <1>b, <1>e, <1>8
       DEF Ranks!Tells, Ranks!Doing, Ranks!Ends, Ranks!ToldMember, Ranks!ToldRole, RanksTyped,
           HasKnown, Owes, RanksProper, Proper, RankSlot, RankView, Ranks!OfMember, Minds,
           Attributes
  <2> QED BY <2>1, <2>2, <2>3, <2>4, <2>5, <2>6 DEF RanksInv
<1>9. ASSUME NEW r \in Two, Ranks!UndoApplies(r) PROVE RanksInv'
  <2> DEFINE j == ranksRequest[r]
             k == [j EXCEPT !.step = "record"]
  <2>h. j \in RankSlot /\ j # None /\ Proper(j) /\ j.step = "undo"
    BY <1>a, <1>9 DEF RanksTyped, RanksProper, Ranks!UndoApplies, Ranks!Doing
  <2>i. /\ j.was.row \in RankRows \cup {None} /\ j.what \in SUBSET Users /\ k \in RankSlot
        /\ j.kind \in {"update", "delete"} => j.was.row # None
    BY <2>h, RankSlots DEF RankSlot, RankView, Proper
  <2>j. ranksRequest' = [ranksRequest EXCEPT ![r] = k] /\ ranksTold' = ranksTold /\ entry' = entry
    BY <1>9 DEF Ranks!UndoApplies
  <2>k. \/ /\ j.kind = "create" /\ role' = None /\ has' = [has EXCEPT !["role"] = {}]
           /\ deleted' = TRUE /\ ranksCrossed' = ranksCrossed
        \/ /\ j.kind = "update" /\ role' = j.was.row
           /\ ranksCrossed' = (ranksCrossed \/ role = None) /\ UNCHANGED <<has, deleted>>
        \/ /\ j.kind = "delete" /\ role' = j.was.row
           /\ has' = [has EXCEPT !["role"] = has["role"] \cup j.what]
           /\ deleted' = FALSE /\ ranksCrossed' = ranksCrossed
        \/ /\ has' = [has EXCEPT !["role"] = has["role"] \ j.what]
           /\ UNCHANGED <<role, deleted, ranksCrossed>>
        \/ /\ has' = [has EXCEPT !["role"] = has["role"] \cup j.what]
           /\ ranksCrossed' = (ranksCrossed \/ role = None) /\ UNCHANGED <<role, deleted>>
        \/ /\ \E H \in SUBSET Users : has' = [has EXCEPT !["nick"] = H]
           /\ UNCHANGED <<role, deleted, ranksCrossed>>
    BY <1>a, <1>9, <2>i DEF RanksTyped, Ranks!UndoApplies, Ranks!DeletesRole, Ranks!SavesRole,
       Ranks!UndoRoleDelete, Ranks!UndoNickname, Ranks!Binds, Ranks!Unbinds, Ranks!Puts, Ranks!Exists
  <2>l. stale' \subseteq {"row", "role", "nick", "style"}
    BY <1>a, <1>9 DEF RanksTyped, Ranks!UndoApplies, Ranks!Overtakes
  <2>1. RanksTyped'
    <3> HIDE DEF j, k
    <3>1. /\ role' \in RankRows \cup {None} /\ deleted' \in BOOLEAN /\ ranksCrossed' \in BOOLEAN
      BY <1>a, <2>i, <2>k DEF RanksTyped
    <3>2. has' \in [{"role", "nick", "style"} -> SUBSET Users]
      BY <1>a, <2>i, <2>k DEF RanksTyped
    <3> QED BY <1>a, <3>1, <3>2, <2>i, <2>j, <2>l DEF RanksTyped
  <2>2. RanksProper'
    BY <1>a, <1>9
       DEF Ranks!UndoApplies, Ranks!Doing, Ranks!DeletesRole, Ranks!SavesRole,
           Ranks!UndoRoleDelete, Ranks!Unbinds, Ranks!Binds, Ranks!UndoNickname, Ranks!Puts,
           Ranks!Exists, Ranks!Overtakes, RanksTyped, RanksProper, Proper, ProperEntry, RankSlot,
           RankView, RankKinds, RankEntry, Ranks!OfMember
  <2>3. NothingYet'
    BY <1>a, <1>b, <1>9
       DEF Ranks!UndoApplies, Ranks!Doing, Ranks!DeletesRole, Ranks!SavesRole,
           Ranks!UndoRoleDelete, Ranks!Unbinds, Ranks!Binds, Ranks!UndoNickname, Ranks!Puts,
           Ranks!Exists, Ranks!Overtakes, RanksTyped, NothingYet, RanksProper, Proper, RankSlot,
           Ranks!OfMember, RankEntry
  <2>4. StaysAway'
    <3> HIDE DEF j, k
    <3>1. \/ role' = None /\ has'["role"] = {}
          \/ role' # None /\ deleted' = FALSE
          \/ role' # None /\ deleted' = deleted /\ ranksCrossed' = (ranksCrossed \/ role = None)
          \/ /\ role' = role /\ deleted' = deleted /\ ranksCrossed' = ranksCrossed
             /\ has'["role"] \subseteq has["role"]
          \/ role' = role /\ deleted' = deleted /\ ranksCrossed' = (ranksCrossed \/ role = None)
      <4>1. has \in [{"role", "nick", "style"} -> SUBSET Users]
        BY <1>a DEF RanksTyped
      <4> QED BY <4>1, <2>i, <2>k
    <3> QED BY <1>c, <3>1 DEF StaysAway
  <2>5. RowKnown'
    BY <1>a, <1>b, <1>d, <1>9, WhatConcerns
       DEF Ranks!UndoApplies, Ranks!Doing, Ranks!DeletesRole, Ranks!SavesRole,
           Ranks!UndoRoleDelete, Ranks!Unbinds, Ranks!Binds, Ranks!UndoNickname, Ranks!Puts,
           Ranks!Exists, Ranks!Overtakes, RanksTyped, RowKnown, RanksProper, Proper, RankSlot,
           RankView, RankRows, Ranks!OfMember, Minds
  <2>6. \A a \in Attributes : HasKnown(a)'
    BY <1>a, <1>b, <1>e, <1>9, WhatConcerns
       DEF Ranks!UndoApplies, Ranks!Doing, Ranks!DeletesRole, Ranks!SavesRole,
           Ranks!UndoRoleDelete, Ranks!Unbinds, Ranks!Binds, Ranks!UndoNickname, Ranks!Puts,
           Ranks!Exists, Ranks!Overtakes, RanksTyped, HasKnown, Owes, RanksProper, Proper,
           RankSlot, RankView, Ranks!OfMember, Minds, Attributes
  <2> QED BY <2>1, <2>2, <2>3, <2>4, <2>5, <2>6 DEF RanksInv
<1>10. ASSUME NEW r \in Two, Ranks!UndoFails(r) PROVE RanksInv'
  <2>1. RanksTyped'
    BY <1>a, <1>10
       DEF Ranks!UndoFails, Ranks!Doing, Ranks!Ends, Ranks!Exists, RanksTyped, RankSlot, RankView,
           RankKinds, RankEntry, RankRows, Minds, Ranks!OfMember
  <2>2. RanksProper'
    BY <1>a, <1>10
       DEF Ranks!UndoFails, Ranks!Doing, Ranks!Ends, Ranks!Exists, RanksTyped, RanksProper, Proper,
           ProperEntry, RankSlot, RankView, RankKinds, RankEntry, Ranks!OfMember
  <2>3. NothingYet'
    BY <1>a, <1>b, <1>10
       DEF Ranks!UndoFails, Ranks!Doing, Ranks!Ends, Ranks!Exists, RanksTyped, NothingYet,
           RanksProper, Proper, RankSlot, Ranks!OfMember, RankEntry
  <2>4. StaysAway'
    BY <1>a, <1>b, <1>c, <1>10
       DEF Ranks!UndoFails, Ranks!Doing, Ranks!Ends, Ranks!Exists, RanksTyped, NothingYet,
           StaysAway, RanksProper, Proper, RankSlot, Ranks!OfMember
  <2>5. RowKnown'
    BY <1>a, <1>b, <1>d, <1>10
       DEF Ranks!UndoFails, Ranks!Doing, Ranks!Ends, Ranks!Exists, RanksTyped, RowKnown,
           RanksProper, Proper, RankSlot, RankView, RankRows, Ranks!OfMember, Minds
  <2>6. \A a \in Attributes : HasKnown(a)'
    BY <1>a, <1>b, <1>e, <1>10
       DEF Ranks!UndoFails, Ranks!Doing, Ranks!Ends, Ranks!Exists, RanksTyped, HasKnown, Owes,
           RanksProper, Proper, RankSlot, RankView, Ranks!OfMember, Minds, Attributes
  <2> QED BY <2>1, <2>2, <2>3, <2>4, <2>5, <2>6 DEF RanksInv
<1>11. ASSUME NEW r \in Two, Ranks!UndoRecords(r) PROVE RanksInv'
  <2> DEFINE j == ranksRequest[r]
             e == j.entry
             k == [j EXCEPT !.step = "tell"]
  <2>h. j \in RankSlot /\ j # None /\ Proper(j) /\ j.step = "record"
    BY <1>a, <1>11 DEF RanksTyped, RanksProper, Ranks!UndoRecords, Ranks!Doing
  <2>i. /\ e \in Three /\ entry[e] # None /\ entry[e] \in RankEntry /\ ProperEntry(entry[e])
        /\ j.kind \notin Ranks!OfMember => Proper(k)
    BY <1>a, <2>h DEF RanksTyped, RanksProper, RankSlot, Proper, RankView
  <2>j. \/ /\ entry[e].undos = 0 /\ entry' = [entry EXCEPT ![e] = [@ EXCEPT !.undos = 1]]
           /\ \/ ranksRequest' = [ranksRequest EXCEPT ![r] = None]
              \/ j.kind \notin Ranks!OfMember /\ ranksRequest' = [ranksRequest EXCEPT ![r] = k]
        \/ entry' = entry /\ ranksRequest' = [ranksRequest EXCEPT ![r] = None]
    BY <1>11, <1>a, <2>i
       DEF Ranks!UndoRecords, Ranks!Locked, Ranks!Available, Ranks!Ends, RankEntry, RanksTyped
  <2>l. [entry[e] EXCEPT !.undos = 1] \in RankEntry /\ (entry[e].undos = 0 => ProperEntry([entry[e] EXCEPT !.undos = 1]))
    BY <2>i DEF RankEntry, ProperEntry
  <2>1. RanksTyped'
    BY <1>a, <1>11, WhatConcerns
       DEF Ranks!UndoRecords, Ranks!Doing, Ranks!Locked, Ranks!Available, Ranks!Ends,
           Ranks!Overtakes, RanksTyped, RankSlot, RankView, RankKinds, RankEntry, RankRows, Minds,
           Ranks!OfMember
  <2>2. RanksProper'
    <3>1. [entry[e] EXCEPT !.undos = 1] # None
      BY <2>l
    <3>2. \A d \in Three : /\ entry[d] # None => entry'[d] # None
                           /\ entry'[d] # None => ProperEntry(entry'[d])
      BY <1>a, <2>i, <2>j, <2>l, <3>1 DEF RanksTyped, RanksProper
    <3> HIDE DEF e
    <3>3. \A q \in Two : ranksRequest[q] # None => ranksRequest[q].entry \in Three \cup {None}
      BY <1>a DEF RanksTyped, RankSlot
    <3>4. \A q \in Two : ranksRequest'[q] # None => 
            ranksRequest[q] # None /\ Proper(ranksRequest'[q]) /\ ranksRequest'[q].entry = ranksRequest[q].entry
      BY <1>a, <2>h, <2>i, <2>j DEF RanksTyped, RanksProper, RankSlot
    <3> QED BY <1>a, <3>2, <3>3, <3>4 DEF RanksProper
  <2>3. NothingYet'
    BY <1>a, <1>b, <1>11
       DEF Ranks!UndoRecords, Ranks!Doing, Ranks!Locked, Ranks!Available, Ranks!Ends,
           Ranks!Overtakes, RanksTyped, NothingYet, RanksProper, Proper, RankSlot, Ranks!OfMember,
           RankEntry
  <2>4. StaysAway'
    BY <1>a, <1>b, <1>c, <1>11
       DEF Ranks!UndoRecords, Ranks!Doing, Ranks!Locked, Ranks!Available, Ranks!Ends,
           Ranks!Overtakes, RanksTyped, NothingYet, StaysAway, RanksProper, Proper, RankSlot,
           Ranks!OfMember
  <2>5. RowKnown'
    BY <1>a, <1>b, <1>d, <1>11, WhatConcerns, SMTT(20)
       DEF Ranks!UndoRecords, Ranks!Doing, Ranks!Locked, Ranks!Available, Ranks!Ends,
           Ranks!Overtakes, RanksTyped, RowKnown, RanksProper, Proper, RankSlot, RankView,
           RankRows, Ranks!OfMember, Minds
  <2>6. \A a \in Attributes : HasKnown(a)'
    BY <1>a, <1>b, <1>e, <1>11, WhatConcerns, SMTT(20)
       DEF Ranks!UndoRecords, Ranks!Doing, Ranks!Locked, Ranks!Available, Ranks!Ends,
           Ranks!Overtakes, RanksTyped, HasKnown, Owes, RanksProper, Proper, RankSlot, RankView,
           Ranks!OfMember, Minds, Attributes
  <2> QED BY <2>1, <2>2, <2>3, <2>4, <2>5, <2>6 DEF RanksInv
<1>12. ASSUME NEW r \in Two, NEW m \in Users, NEW kind \in {"assign", "remove"}, Ranks!ChangeMemberRole(r, m, kind) PROVE RanksInv'
  <2>1. RanksTyped'
    BY <1>a, <1>12
       DEF Ranks!ChangeMemberRole, Ranks!Begins, Ranks!Asked, Ranks!Change, Ranks!OfHim,
           Ranks!Attributes, Ranks!Exists, Ranks!Gone, Ranks!OfRole, RanksTyped, RankSlot,
           RankView, RankKinds, RankEntry, RankRows, Minds, Ranks!OfMember
  <2>2. RanksProper'
    BY <1>a, <1>12
       DEF Ranks!ChangeMemberRole, Ranks!Begins, Ranks!Asked, Ranks!Change, Ranks!OfHim,
           Ranks!Attributes, Ranks!Exists, Ranks!Gone, Ranks!OfRole, RanksTyped, RanksProper,
           Proper, ProperEntry, RankSlot, RankView, RankKinds, RankEntry, Ranks!OfMember
  <2>3. NothingYet'
    BY <1>a, <1>b, <1>12
       DEF Ranks!ChangeMemberRole, Ranks!Begins, Ranks!Asked, Ranks!Change, Ranks!OfHim,
           Ranks!Attributes, Ranks!Exists, Ranks!Gone, Ranks!OfRole, RanksTyped, NothingYet,
           RanksProper, Proper, RankSlot, Ranks!OfMember, RankEntry
  <2>4. StaysAway'
    BY <1>a, <1>b, <1>c, <1>12
       DEF Ranks!ChangeMemberRole, Ranks!Begins, Ranks!Asked, Ranks!Change, Ranks!OfHim,
           Ranks!Attributes, Ranks!Exists, Ranks!Gone, Ranks!OfRole, RanksTyped, NothingYet,
           StaysAway, RanksProper, Proper, RankSlot, Ranks!OfMember
  <2>5. RowKnown'
    BY <1>a, <1>b, <1>d, <1>12
       DEF Ranks!ChangeMemberRole, Ranks!Begins, Ranks!Asked, Ranks!Change, Ranks!OfHim,
           Ranks!Attributes, Ranks!Exists, Ranks!Gone, Ranks!OfRole, RanksTyped, RowKnown,
           RanksProper, Proper, RankSlot, RankView, RankRows, Ranks!OfMember, Minds
  <2>6. \A a \in Attributes : HasKnown(a)'
    BY <1>a, <1>b, <1>e, <1>12
       DEF Ranks!ChangeMemberRole, Ranks!Begins, Ranks!Asked, Ranks!Change, Ranks!OfHim,
           Ranks!Attributes, Ranks!Exists, Ranks!Gone, Ranks!OfRole, RanksTyped, HasKnown, Owes,
           RanksProper, Proper, RankSlot, RankView, Ranks!OfMember, Minds, Attributes
  <2> QED BY <2>1, <2>2, <2>3, <2>4, <2>5, <2>6 DEF RanksInv
<1>13. ASSUME NEW r \in Two, NEW m \in Users, Ranks!UpdateNickname(r, m) PROVE RanksInv'
  <2>1. RanksTyped'
    BY <1>a, <1>13
       DEF Ranks!UpdateNickname, Ranks!Begins, Ranks!Asked, Ranks!Change, Ranks!OfHim,
           Ranks!Attributes, RanksTyped, RankSlot, RankView, RankKinds, RankEntry, RankRows, Minds,
           Ranks!OfMember
  <2>2. RanksProper'
    BY <1>a, <1>13
       DEF Ranks!UpdateNickname, Ranks!Begins, Ranks!Asked, Ranks!Change, Ranks!OfHim,
           Ranks!Attributes, RanksTyped, RanksProper, Proper, ProperEntry, RankSlot, RankView,
           RankKinds, RankEntry, Ranks!OfMember
  <2>3. NothingYet'
    BY <1>a, <1>b, <1>13
       DEF Ranks!UpdateNickname, Ranks!Begins, Ranks!Asked, Ranks!Change, Ranks!OfHim,
           Ranks!Attributes, RanksTyped, NothingYet, RanksProper, Proper, RankSlot, Ranks!OfMember,
           RankEntry
  <2>4. StaysAway'
    BY <1>a, <1>b, <1>c, <1>13
       DEF Ranks!UpdateNickname, Ranks!Begins, Ranks!Asked, Ranks!Change, Ranks!OfHim,
           Ranks!Attributes, RanksTyped, NothingYet, StaysAway, RanksProper, Proper, RankSlot,
           Ranks!OfMember
  <2>5. RowKnown'
    BY <1>a, <1>b, <1>d, <1>13
       DEF Ranks!UpdateNickname, Ranks!Begins, Ranks!Asked, Ranks!Change, Ranks!OfHim,
           Ranks!Attributes, RanksTyped, RowKnown, RanksProper, Proper, RankSlot, RankView,
           RankRows, Ranks!OfMember, Minds
  <2>6. \A a \in Attributes : HasKnown(a)'
    BY <1>a, <1>b, <1>e, <1>13
       DEF Ranks!UpdateNickname, Ranks!Begins, Ranks!Asked, Ranks!Change, Ranks!OfHim,
           Ranks!Attributes, RanksTyped, HasKnown, Owes, RanksProper, Proper, RankSlot, RankView,
           Ranks!OfMember, Minds, Attributes
  <2> QED BY <2>1, <2>2, <2>3, <2>4, <2>5, <2>6 DEF RanksInv
<1>14. ASSUME NEW r \in Two, NEW m \in Users, Ranks!UpdateNameStylePreference(r, m) PROVE RanksInv'
  <2>1. RanksTyped'
    BY <1>a, <1>14
       DEF Ranks!UpdateNameStylePreference, Ranks!Begins, Ranks!Asked, Ranks!Change, Ranks!OfHim,
           Ranks!Attributes, Ranks!Gone, Ranks!OfRole, RanksTyped, RankSlot, RankView, RankKinds,
           RankEntry, RankRows, Minds, Ranks!OfMember
  <2>2. RanksProper'
    BY <1>a, <1>14
       DEF Ranks!UpdateNameStylePreference, Ranks!Begins, Ranks!Asked, Ranks!Change, Ranks!OfHim,
           Ranks!Attributes, Ranks!Gone, Ranks!OfRole, RanksTyped, RanksProper, Proper,
           ProperEntry, RankSlot, RankView, RankKinds, RankEntry, Ranks!OfMember
  <2>3. NothingYet'
    BY <1>a, <1>b, <1>14
       DEF Ranks!UpdateNameStylePreference, Ranks!Begins, Ranks!Asked, Ranks!Change, Ranks!OfHim,
           Ranks!Attributes, Ranks!Gone, Ranks!OfRole, RanksTyped, NothingYet, RanksProper, Proper,
           RankSlot, Ranks!OfMember, RankEntry
  <2>4. StaysAway'
    BY <1>a, <1>b, <1>c, <1>14
       DEF Ranks!UpdateNameStylePreference, Ranks!Begins, Ranks!Asked, Ranks!Change, Ranks!OfHim,
           Ranks!Attributes, Ranks!Gone, Ranks!OfRole, RanksTyped, NothingYet, StaysAway,
           RanksProper, Proper, RankSlot, Ranks!OfMember
  <2>5. RowKnown'
    BY <1>a, <1>b, <1>d, <1>14
       DEF Ranks!UpdateNameStylePreference, Ranks!Begins, Ranks!Asked, Ranks!Change, Ranks!OfHim,
           Ranks!Attributes, Ranks!Gone, Ranks!OfRole, RanksTyped, RowKnown, RanksProper, Proper,
           RankSlot, RankView, RankRows, Ranks!OfMember, Minds
  <2>6. \A a \in Attributes : HasKnown(a)'
    BY <1>a, <1>b, <1>e, <1>14
       DEF Ranks!UpdateNameStylePreference, Ranks!Begins, Ranks!Asked, Ranks!Change, Ranks!OfHim,
           Ranks!Attributes, Ranks!Gone, Ranks!OfRole, RanksTyped, HasKnown, Owes, RanksProper,
           Proper, RankSlot, RankView, Ranks!OfMember, Minds, Attributes
  <2> QED BY <2>1, <2>2, <2>3, <2>4, <2>5, <2>6 DEF RanksInv
<1>15. ASSUME NEW r \in Two, NEW e \in Three, Ranks!Undo(r, e) PROVE RanksInv'
  <2>1. RanksTyped'
    BY <1>a, <1>15
       DEF Ranks!Undo, Ranks!Available, Ranks!Applicable, Ranks!Begins, Ranks!Asked, Ranks!Change,
           Ranks!Gone, Ranks!OfRole, Ranks!Exists, RanksTyped, RankSlot, RankView, RankKinds,
           RankEntry, RankRows, Minds, Ranks!OfMember
  <2>2. RanksProper'
    BY <1>a, <1>15
       DEF Ranks!Undo, Ranks!Available, Ranks!Applicable, Ranks!Begins, Ranks!Asked, Ranks!Change,
           Ranks!Gone, Ranks!OfRole, Ranks!Exists, RanksTyped, RanksProper, Proper, ProperEntry,
           RankSlot, RankView, RankKinds, RankEntry, Ranks!OfMember
  <2>3. NothingYet'
    BY <1>a, <1>b, <1>15
       DEF Ranks!Undo, Ranks!Available, Ranks!Applicable, Ranks!Begins, Ranks!Asked, Ranks!Change,
           Ranks!Gone, Ranks!OfRole, Ranks!Exists, RanksTyped, NothingYet, RanksProper, Proper,
           RankSlot, Ranks!OfMember, RankEntry
  <2>4. StaysAway'
    BY <1>a, <1>b, <1>c, <1>15
       DEF Ranks!Undo, Ranks!Available, Ranks!Applicable, Ranks!Begins, Ranks!Asked, Ranks!Change,
           Ranks!Gone, Ranks!OfRole, Ranks!Exists, RanksTyped, NothingYet, StaysAway, RanksProper,
           Proper, RankSlot, Ranks!OfMember
  <2>5. RowKnown'
    BY <1>a, <1>b, <1>d, <1>15
       DEF Ranks!Undo, Ranks!Available, Ranks!Applicable, Ranks!Begins, Ranks!Asked, Ranks!Change,
           Ranks!Gone, Ranks!OfRole, Ranks!Exists, RanksTyped, RowKnown, RanksProper, Proper,
           RankSlot, RankView, RankRows, Ranks!OfMember, Minds
  <2>6. \A a \in Attributes : HasKnown(a)'
    BY <1>a, <1>b, <1>e, <1>15
       DEF Ranks!Undo, Ranks!Available, Ranks!Applicable, Ranks!Begins, Ranks!Asked, Ranks!Change,
           Ranks!Gone, Ranks!OfRole, Ranks!Exists, RanksTyped, HasKnown, Owes, RanksProper, Proper,
           RankSlot, RankView, Ranks!OfMember, Minds, Attributes
  <2> QED BY <2>1, <2>2, <2>3, <2>4, <2>5, <2>6 DEF RanksInv
<1> QED BY <1>1, <1>2, <1>3, <1>4, <1>5, <1>6, <1>7, <1>8, <1>9, <1>10, <1>11, <1>12, <1>13, <1>14,
           <1>15
   DEF Ranks!Next

LEMMA RolesHold == RanksInv => Ranks!RolesAreTrue
<1> SUFFICES ASSUME RanksInv PROVE Ranks!RolesAreTrue
  OBVIOUS
<1> USE NoneIsNoValue
<1>1. ASSUME NEW e \in Three, entry[e] # None PROVE entry[e].undos <= 1
  BY <1>1 DEF RanksInv, RanksProper, ProperEntry
<1>2. Ranks!ClientsKnow
  <2> SUFFICES ASSUME \A r \in Two : ranksRequest[r] = None
               PROVE  /\ "row" \in stale \/ ranksTold.row = role
                      /\ \A a \in Attributes : a \in stale \/ ranksTold.has[a] = has[a]
    BY DEF RanksInv, RanksTyped, Ranks!ClientsKnow, Attributes
  <2>1. "row" \in stale \/ ranksTold.row = role
    BY DEF RanksInv, RowKnown
  <2>2. ASSUME NEW a \in Attributes, a \notin stale PROVE ranksTold.has[a] = has[a]
    <3>1. \A m \in Users : m \in ranksTold.has[a] <=> m \in has[a]
      BY <2>2 DEF RanksInv, HasKnown
    <3>2. ranksTold.has[a] \subseteq Users /\ has[a] \subseteq Users
      BY DEF RanksInv, RanksTyped, Attributes
    <3> QED BY <3>1, <3>2
  <2> QED BY <2>1, <2>2
<1> QED BY <1>1, <1>2 DEF RanksInv, StaysAway, Ranks!RolesAreTrue, Ranks!Exists

(* A deleted role stays away and nobody has it, an entry is undone once,   *)
(* and clients know what no handler left unsaid; and of a restriction an   *)
(* answer is never older than the cache allows, and its end is told when   *)
(* it ends, unless two jobs crossed on the record: what roles and denials  *)
(* keep whatever the order of their handlers.                              *)
THEOREM RightsHold == Spec => []RightsAreTrue
<1>1. DenialsInv /\ RanksInv => RightsAreTrue
  BY RolesHold, RestrictionsHold DEF RightsAreTrue
<1> QED BY <1>1, RanksInit, RanksNext, DenialsInit, DenialsNext, PTL DEF Spec

-----------------------------------------------------------------------------
(* The presence of a user. *)

\* What there is to see of him, and what was told as it would read by now.
ToBeSeen == Status!Shown(Status!Real(sessions, custom))
Aged(i)  == [i EXCEPT !.custom = Status!EffectiveCustom(i.custom)]
Bare(i)  == [i EXCEPT !.acts = {}]

\* Who is hidden gives nothing else away.
Discreet(i) == i.status # "invisible" /\ (i.status = "offline" => i = Status!Nothing)

StatusTyped ==
  /\ sessions \in [Sessions -> StatusSession \cup {None}] /\ custom \in {None, "brief"}
  /\ statusTold \in StatusInfo /\ statusJob \in [Two -> StatusJob \cup {None}]
  /\ watcher \in {"self", "other"}

\* Who publishes alone has what there is to see.
AloneKnows ==
  \A q \in Two : statusJob[q] # None /\ statusJob[q].alone =>
    /\ \A p \in Two \ {q} : statusJob[p] = None
    /\ Aged(statusJob[q].shows) = ToBeSeen

SaidRight ==
  (\A q \in Two : statusJob[q] = None) /\ ~ statusCrossed /\ ~ skipped =>
    /\ hid => Bare(Aged(statusTold)) = Bare(Status!Displayed)
    /\ ~ hid => Aged(statusTold) = Status!Displayed

AllDiscreet ==
  watcher = "other" =>
    /\ Discreet(statusTold)
    /\ \A q \in Two : statusJob[q] # None => Discreet(statusJob[q].shows)

StatusInv == StatusTyped /\ AloneKnows /\ SaidRight /\ AllDiscreet

LEMMA StatusTypes ==
  ASSUME NEW ss \in [Sessions -> StatusSession \cup {None}], NEW c \in {None, "brief"}
  PROVE  Status!Real(ss, c) \in StatusInfo
<1> DEFINE wanted == {ss[s].status : s \in Status!Live(ss)}
<1>1. CASE Status!Live(ss) = {}
  BY <1>1 DEF Status!Real, StatusInfo, Status!Nothing
<1>2. CASE Status!Live(ss) # {}
  <2>1. wanted \subseteq Statuses /\ wanted # {}
    BY <1>2 DEF Status!Live, StatusSession
  <2>2. \E w \in wanted : \A x \in wanted : Status!StatusRank[w] >= Status!StatusRank[x]
    <3> HIDE DEF wanted
    <3>1. wanted \subseteq {"dnd", "online", "idle", "invisible"}
      BY <2>1, StatusesAreRanked DEF Status!StatusRank
    <3>2. CASE "dnd" \in wanted
      BY <3>1, <3>2 DEF Status!StatusRank
    <3>3. CASE "dnd" \notin wanted /\ "online" \in wanted
      BY <3>1, <3>3 DEF Status!StatusRank
    <3>4. CASE "dnd" \notin wanted /\ "online" \notin wanted /\ "idle" \in wanted
      BY <3>1, <3>4 DEF Status!StatusRank
    <3>5. CASE wanted = {"invisible"}
      BY <3>5 DEF Status!StatusRank
    <3> QED BY <2>1, <3>1, <3>2, <3>3, <3>4, <3>5
  <2>3. Status!Merged(ss) \in Statuses
    <3>1. Status!Merged(ss) = CHOOSE w \in wanted : \A x \in wanted : Status!StatusRank[w] >= Status!StatusRank[x]
      BY <1>2 DEF Status!Merged
    <3> HIDE DEF wanted
    <3> QED BY <2>1, <2>2, <3>1
  <2>4. Status!MergeActivities(ss) \subseteq Activities
    BY DEF Status!MergeActivities, Status!Live, StatusSession
  <2>5. Status!EffectiveCustom(c) \in {None, "brief"}
    BY DEF Status!EffectiveCustom
  <2> QED BY <1>2, <2>3, <2>4, <2>5 DEF Status!Real, StatusInfo
<1> QED BY <1>1, <1>2

LEMMA StatusViews ==
  ASSUME NEW i \in StatusInfo
  PROVE  /\ Status!Shown(i) \in StatusInfo /\ Status!Stripped(i) \in StatusInfo
         /\ watcher = "other" => Discreet(Status!Shown(i))
         /\ Discreet(i) => Discreet(Status!Stripped(i))
         /\ Aged(i) \in StatusInfo /\ Aged(Aged(i)) = Aged(i)
         /\ Bare(Status!Stripped(i)) = Bare(i)
         /\ Aged(Status!Stripped(i)) = Status!Stripped(Aged(i))
<1>1. Status!Shown(i) \in StatusInfo /\ (watcher = "other" => Discreet(Status!Shown(i)))
  BY DEF Status!Shown, Status!Mask, Status!Nothing, StatusInfo, Discreet
<1>2. Status!Stripped(i) \in StatusInfo /\ (Discreet(i) => Discreet(Status!Stripped(i)))
  BY DEF Status!Stripped, Status!Nothing, StatusInfo, Discreet
<1>3. Aged(i) \in StatusInfo /\ Aged(Aged(i)) = Aged(i)
  BY DEF Aged, Status!EffectiveCustom, StatusInfo
<1>4. Bare(Status!Stripped(i)) = Bare(i)
  BY DEF Bare, Status!Stripped, StatusInfo
<1>5. Aged(Status!Stripped(i)) = Status!Stripped(Aged(i))
  BY DEF Aged, Status!Stripped, StatusInfo
<1> QED BY <1>1, <1>2, <1>3, <1>4, <1>5

LEMMA StatusAges ==
  ASSUME NEW ss \in [Sessions -> StatusSession \cup {None}], NEW c \in {None, "brief"}
  PROVE  Aged(Status!Shown(Status!Real(ss, c))) = Status!Shown(Status!Real(ss, c))
<1>1. Status!Real(ss, c) \in StatusInfo
  BY StatusTypes
<1>2. Aged(Status!Real(ss, c)) = Status!Real(ss, c)
  BY <1>1 DEF Aged, Status!Real, Status!EffectiveCustom, Status!Nothing, StatusInfo
<1>3. Aged(Status!Nothing) = Status!Nothing
  BY DEF Aged, Status!EffectiveCustom, Status!Nothing
<1> QED BY <1>2, <1>3 DEF Status!Shown, Status!Mask

LEMMA StatusInit == Init => StatusInv
<1> SUFFICES ASSUME Init PROVE StatusInv
  OBVIOUS
<1>1. /\ sessions = [s \in Sessions |-> None] /\ custom = None /\ statusTold = Status!Nothing
      /\ statusJob = [q \in Two |-> None] /\ hid = FALSE /\ watcher \in {"self", "other"}
  BY DEF Init, Status!Init
<1>2. StatusTyped
  BY <1>1 DEF StatusTyped, StatusInfo, Status!Nothing
<1>3. AloneKnows /\ AllDiscreet
  BY <1>1 DEF AloneKnows, AllDiscreet, Discreet, Status!Nothing
<1>4. Status!Live(sessions) = {}
  BY <1>1 DEF Status!Live
<1>5. Status!Displayed = Status!Nothing /\ Aged(Status!Nothing) = Status!Nothing
  BY <1>4 DEF Status!Displayed, Status!Real, Status!Shown, Status!Mask, Status!Stripped,
     Status!Nothing, Aged, Status!EffectiveCustom
<1> QED BY <1>1, <1>2, <1>3, <1>5 DEF StatusInv, SaidRight

\* What any call of the registry does under its lock.
LEMMA StatusMutates ==
  ASSUME StatusInv, NEW q \in Two,
         NEW ss \in [Sessions -> StatusSession \cup {None}], NEW c \in {None, "brief"},
         Status!Mutate(q, ss, c)
  PROVE  StatusInv'
<1> USE NoneIsNoValue
<1> DEFINE after == Status!Shown(Status!Real(ss, c))
           k == [shows |-> after, alone |-> Status!Others(q) = {}]
<1>1. StatusTyped /\ AloneKnows /\ SaidRight /\ AllDiscreet
  BY DEF StatusInv
<1>2. after \in StatusInfo /\ Aged(after) = after /\ (watcher = "other" => Discreet(after))
  BY StatusTypes, StatusViews, StatusAges
<1>3. /\ statusJob[q] = None /\ sessions' = ss /\ custom' \in {None, "brief"}
      /\ Status!Live(ss) # {} => custom' = c
      /\ UNCHANGED <<statusLate, showTo, friend, watcher, statusTold, statusCrossed, skipped, hid>>
  BY DEF Status!Mutate
<1>4. ToBeSeen' = after
  <2>1. Status!Live(sessions)' = Status!Live(ss)
    BY <1>3 DEF Status!Live
  <2>2. Status!Merged(sessions)' = Status!Merged(ss)
    BY <1>3 DEF Status!Merged, Status!Live
  <2>3. Status!MergeActivities(sessions)' = Status!MergeActivities(ss)
    BY <1>3 DEF Status!MergeActivities, Status!Live
  <2>4. Status!Real(sessions, custom)' = Status!Real(ss, c)
    BY <1>3, <2>1, <2>2, <2>3 DEF Status!Real, Status!EffectiveCustom, Status!Nothing
  <2> QED BY <1>3, <2>4 DEF ToBeSeen, Status!Shown, Status!Mask, Status!Nothing
<1>5. \/ after = ToBeSeen /\ statusJob' = statusJob
      \/ statusJob' = [p \in Two |-> IF p = q THEN k
                                     ELSE IF statusJob[p] = None THEN None
                                     ELSE [statusJob[p] EXCEPT !.alone = FALSE]]
  BY DEF Status!Mutate, Status!Differs, ToBeSeen
<1>7. k \in StatusJob /\ k # None
  <2>1. \A b \in BOOLEAN : [shows |-> after, alone |-> b] \in StatusJob
    BY <1>2 DEF StatusJob
  <2>2. (Status!Others(q) = {}) \in BOOLEAN
    OBVIOUS
  <2>3. k \in StatusJob
    BY <2>1, <2>2, Zenon
  <2> QED BY <2>3
<1>8. k.shows = after /\ (k.alone <=> Status!Others(q) = {})
  OBVIOUS
<1>9. ASSUME after = ToBeSeen, statusJob' = statusJob PROVE StatusInv'
  <2>1. StatusTyped'
    BY <1>1, <1>3, <1>9 DEF StatusTyped
  <2>2. AloneKnows'
    BY <1>1, <1>3, <1>4, <1>9 DEF AloneKnows, Aged, Status!EffectiveCustom
  <2>3. Status!Displayed' = Status!Displayed
    BY <1>3, <1>4, <1>9 DEF Status!Displayed, ToBeSeen, Status!Stripped, Status!CanViewerSeeActivity
  <2>4. SaidRight'
    BY <1>1, <1>3, <1>9, <2>3 DEF SaidRight, Aged, Bare, Status!EffectiveCustom
  <2>5. AllDiscreet'
    BY <1>1, <1>3, <1>9 DEF AllDiscreet, Discreet, Status!Nothing
  <2> QED BY <2>1, <2>2, <2>4, <2>5 DEF StatusInv
<1>10. ASSUME statusJob' = [p \in Two |-> IF p = q THEN k
                                     ELSE IF statusJob[p] = None THEN None
                                     ELSE [statusJob[p] EXCEPT !.alone = FALSE]]
       PROVE StatusInv'
  <2>1. /\ statusJob'[q] = k
        /\ \A p \in Two \ {q} : /\ statusJob[p] = None => statusJob'[p] = None
                                /\ statusJob[p] # None =>
                                     /\ statusJob'[p] \in StatusJob /\ statusJob'[p] # None
                                     /\ ~ statusJob'[p].alone
                                     /\ statusJob'[p].shows = statusJob[p].shows
    BY <1>1, <1>10 DEF StatusTyped, StatusJob
  <2> HIDE DEF k
  <2>2. StatusTyped'
    <3>1. statusJob' \in [Two -> StatusJob \cup {None}]
      <4>1. \A p \in Two : statusJob'[p] \in StatusJob \cup {None}
        BY <1>7, <2>1
      <4>2. statusJob' = [p \in Two |-> statusJob'[p]]
        BY <1>10
      <4> QED BY <4>1, <4>2
    <3> QED BY <1>1, <1>3, <3>1 DEF StatusTyped
  <2>3. AloneKnows'
    <3> SUFFICES ASSUME NEW p \in Two, statusJob'[p] # None, statusJob'[p].alone
                 PROVE /\ \A o \in Two \ {p} : statusJob'[o] = None
                       /\ (Aged(statusJob[p].shows) = ToBeSeen)'
      BY DEF AloneKnows
    <3>2. p = q
      BY <2>1
    <3>3. \A o \in Two \ {q} : statusJob[o] = None
      BY <1>8, <2>1, <3>2 DEF Status!Others
    <3>4. (Aged(statusJob[p].shows))' = after
      BY <1>2, <1>3, <1>8, <2>1, <3>2 DEF Aged, Status!EffectiveCustom
    <3> QED BY <1>4, <2>1, <3>2, <3>3, <3>4
  <2>4. SaidRight'
    BY <1>7, <2>1 DEF SaidRight
  <2>5. AllDiscreet'
    BY <1>1, <1>2, <1>3, <1>8, <2>1 DEF AllDiscreet, Discreet, Status!Nothing
  <2> QED BY <2>2, <2>3, <2>4, <2>5 DEF StatusInv
<1> QED BY <1>5, <1>9, <1>10

LEMMA StatusNext == StatusInv /\ [Next]_vars => StatusInv'
<1> SUFFICES ASSUME StatusInv, [Next]_vars PROVE StatusInv'
  OBVIOUS
<1> USE NoneIsNoValue
<1>a. StatusTyped /\ AloneKnows /\ SaidRight /\ AllDiscreet
  BY DEF StatusInv
<1>1. ASSUME NEW q \in Two, Status!Publish(q) PROVE StatusInv'
  <2> DEFINE i == statusJob[q].shows
  <2>1. /\ statusJob[q] # None /\ statusJob' = [statusJob EXCEPT ![q] = None]
        /\ statusTold' = Status!Stripped(i) /\ statusCrossed' = ~ statusJob[q].alone /\ hid' = FALSE
        /\ UNCHANGED <<sessions, custom, statusLate, showTo, friend, watcher>>
    BY <1>1 DEF Status!Publish
  <2>2. i \in StatusInfo
    BY <1>a, <2>1 DEF StatusTyped, StatusJob
  <2>3. StatusTyped'
    BY <1>a, <2>1, <2>2, StatusViews DEF StatusTyped
  <2>4. ToBeSeen' = ToBeSeen /\ Status!Displayed' = Status!Displayed
    BY <2>1
       DEF ToBeSeen, Status!Displayed, Status!Shown, Status!Real, Status!Live, Status!Merged,
           Status!MergeActivities,
              Status!EffectiveCustom, Status!Mask, Status!Stripped, Status!CanViewerSeeActivity
  <2>5. \A p \in Two : /\ p # q => statusJob'[p] = statusJob[p]
                       /\ p = q => statusJob'[p] = None
    BY <1>a, <2>1 DEF StatusTyped
  <2>6. AloneKnows'
    BY <1>a, <2>1, <2>4, <2>5 DEF AloneKnows, Aged, Status!EffectiveCustom
  <2>7. SaidRight'
    <3> SUFFICES ASSUME ~ statusCrossed' PROVE (Aged(statusTold) = Status!Displayed)'
      BY <2>1 DEF SaidRight
    <3>1. Aged(i) = ToBeSeen
      BY <1>a, <2>1 DEF AloneKnows
    <3>2. Aged(Status!Stripped(i)) = Status!Displayed
      BY <3>1, <2>2, StatusViews DEF Status!Displayed, ToBeSeen
    <3> QED BY <2>1, <2>4, <3>2 DEF Aged, Status!EffectiveCustom
  <2>8. AllDiscreet'
    <3>1. watcher = "other" => Discreet(Status!Stripped(i))
      BY <1>a, <2>1, <2>2, StatusViews DEF AllDiscreet
    <3> QED BY <1>a, <2>1, <2>5, <3>1 DEF AllDiscreet, Discreet, Status!Nothing
  <2> QED BY <2>3, <2>6, <2>7, <2>8 DEF StatusInv
<1>2. ASSUME NEW q \in Two, Status!SharedMembersFail(q) PROVE StatusInv'
  <2>1. /\ statusJob' = [statusJob EXCEPT ![q] = None] /\ skipped' = TRUE
        /\ UNCHANGED <<sessions, custom, statusLate, showTo, friend, watcher, statusTold, hid>>
    BY <1>2 DEF Status!SharedMembersFail
  <2>2. ToBeSeen' = ToBeSeen
    BY <2>1
       DEF ToBeSeen, Status!Shown, Status!Real, Status!Live, Status!Merged, Status!MergeActivities,

              Status!EffectiveCustom, Status!Mask
  <2>3. \A p \in Two : /\ p # q => statusJob'[p] = statusJob[p]
                       /\ p = q => statusJob'[p] = None
    BY <1>a, <2>1 DEF StatusTyped
  <2>4. StatusTyped' /\ SaidRight'
    BY <1>a, <2>1 DEF StatusTyped, SaidRight
  <2>5. AloneKnows'
    BY <1>a, <2>1, <2>2, <2>3 DEF AloneKnows, Aged, Status!EffectiveCustom
  <2>6. AllDiscreet'
    BY <1>a, <2>1, <2>3 DEF AllDiscreet, Discreet, Status!Nothing
  <2> QED BY <2>4, <2>5, <2>6 DEF StatusInv
<1>3. ASSUME NEW q \in Two, NEW s \in Sessions, Status!Disconnect(q, s) PROVE StatusInv'
  <2> DEFINE ss == [sessions EXCEPT ![s] = None]
  <2>1. ss \in [Sessions -> StatusSession \cup {None}]
    BY <1>a DEF StatusTyped
  <2>2. Status!Mutate(q, ss, custom) /\ custom \in {None, "brief"}
    BY <1>a, <1>3 DEF Status!Disconnect, StatusTyped
  <2> HIDE DEF ss
  <2> QED BY <2>1, <2>2, StatusMutates
<1>4. ASSUME NEW q \in Two, NEW s \in Sessions, NEW w \in Statuses, Status!Connect(q, s, w)
      PROVE  StatusInv'
  <2> DEFINE ss == IF sessions[s] # None THEN sessions
                   ELSE [sessions EXCEPT ![s] = [status |-> w, acts |-> {}]]
  <2>1. ss \in [Sessions -> StatusSession \cup {None}]
    BY <1>a DEF StatusTyped, StatusSession
  <2>2. Status!Mutate(q, ss, custom) /\ custom \in {None, "brief"}
    BY <1>a, <1>4 DEF Status!Connect, StatusTyped
  <2> HIDE DEF ss
  <2> QED BY <2>1, <2>2, StatusMutates
<1>5. ASSUME NEW q \in Two, NEW s \in Sessions, NEW w \in Statuses, NEW c \in {None, "brief"},
             Status!SetStatus(q, s, w, c)
      PROVE  StatusInv'
  <2> DEFINE acts == IF sessions[s] = None THEN {} ELSE sessions[s].acts
             ss == [sessions EXCEPT ![s] = [status |-> w, acts |-> acts]]
  <2>1. acts \subseteq Activities
    BY <1>a DEF StatusTyped, StatusSession
  <2>2. ss \in [Sessions -> StatusSession \cup {None}]
    BY <1>a, <2>1 DEF StatusTyped, StatusSession
  <2>3. Status!Mutate(q, ss, c)
    BY <1>5 DEF Status!SetStatus
  <2> HIDE DEF ss
  <2> QED BY <2>2, <2>3, StatusMutates
<1>6. ASSUME NEW q \in Two, NEW s \in Sessions, NEW w \in Statuses, NEW c \in {None, "brief"},
             NEW a \in Activities \cup {None}, Status!SetStatusFull(q, s, w, c, {a} \ {None})
      PROVE  StatusInv'
  <2> DEFINE ss == [sessions EXCEPT ![s] = [status |-> w, acts |-> {a} \ {None}]]
  <2>1. ss \in [Sessions -> StatusSession \cup {None}]
    BY <1>a DEF StatusTyped, StatusSession
  <2>2. Status!Mutate(q, ss, c)
    BY <1>6 DEF Status!SetStatusFull
  <2> HIDE DEF ss
  <2> QED BY <2>1, <2>2, StatusMutates
<1>7. ASSUME Status!Ready PROVE StatusInv'
  <2>1. /\ statusTold' = Status!Displayed /\ hid' = FALSE
        /\ UNCHANGED <<sessions, custom, statusLate, showTo, friend, statusJob, watcher>>
    BY <1>7 DEF Status!Ready
  <2>2. ToBeSeen' = ToBeSeen /\ Status!Displayed' = Status!Displayed
    BY <2>1
       DEF ToBeSeen, Status!Displayed, Status!Shown, Status!Real, Status!Live, Status!Merged,
           Status!MergeActivities,
              Status!EffectiveCustom, Status!Mask, Status!Stripped, Status!CanViewerSeeActivity
  <2>3. /\ Status!Displayed \in StatusInfo /\ Aged(Status!Displayed) = Status!Displayed
        /\ watcher = "other" => Discreet(Status!Displayed)
    BY <1>a, StatusTypes, StatusViews, StatusAges DEF StatusTyped, Status!Displayed
  <2>4. StatusTyped'
    BY <1>a, <2>1, <2>3 DEF StatusTyped
  <2>5. AloneKnows'
    BY <1>a, <2>1, <2>2 DEF AloneKnows, Aged, Status!EffectiveCustom
  <2>6. SaidRight'
    BY <2>1, <2>2, <2>3 DEF SaidRight, Aged, Status!EffectiveCustom
  <2>7. AllDiscreet'
    BY <1>a, <2>1, <2>3 DEF AllDiscreet, Discreet, Status!Nothing
  <2> QED BY <2>4, <2>5, <2>6, <2>7 DEF StatusInv
<1>8. ASSUME Status!CustomExpires PROVE StatusInv'
  <2>1. /\ ~ statusLate /\ statusLate' = TRUE
        /\ UNCHANGED <<sessions, custom, showTo, friend, statusJob, watcher, statusTold,
                       statusCrossed, skipped, hid>>
    BY <1>8 DEF Status!CustomExpires
  <2>2. StatusTyped' /\ AllDiscreet'
    BY <1>a, <2>1 DEF StatusTyped, AllDiscreet, Discreet, Status!Nothing
  <2>3. ASSUME NEW i \in StatusInfo
        PROVE  /\ Aged(i) = i /\ Aged(i)' = [i EXCEPT !.custom = IF i.custom = "brief" THEN None ELSE i.custom]
    BY <2>1 DEF Aged, Status!EffectiveCustom, StatusInfo
  <2>4. /\ ToBeSeen \in StatusInfo /\ Status!Displayed \in StatusInfo
        /\ Status!Displayed = Status!Stripped(ToBeSeen)
    BY <1>a, StatusTypes, StatusViews DEF StatusTyped, Status!Displayed, ToBeSeen
  <2>5. ToBeSeen' = [ToBeSeen EXCEPT !.custom = IF ToBeSeen.custom = "brief" THEN None ELSE ToBeSeen.custom]
    <3>1. Status!Real(sessions, custom) \in StatusInfo
      BY <1>a, StatusTypes DEF StatusTyped
    <3> DEFINE x == Status!Real(sessions, custom)
    <3>2. Status!Real(sessions, custom)' = [x EXCEPT !.custom = IF x.custom = "brief" THEN None ELSE x.custom]
      <4>1. Status!Live(sessions)' = Status!Live(sessions)
        BY <2>1 DEF Status!Live
      <4>2. Status!Merged(sessions)' = Status!Merged(sessions)
        BY <2>1 DEF Status!Merged, Status!Live
      <4>3. Status!MergeActivities(sessions)' = Status!MergeActivities(sessions)
        BY <2>1 DEF Status!MergeActivities, Status!Live
      <4> QED BY <2>1, <4>1, <4>2, <4>3 DEF Status!Real, Status!EffectiveCustom, Status!Nothing
    <3> HIDE DEF x
    <3> QED BY <2>1, <3>1, <3>2
       DEF x, ToBeSeen, Status!Shown, Status!Mask, StatusInfo, Status!Nothing
  <2>6. Status!Displayed' = [Status!Displayed EXCEPT !.custom =
                               IF Status!Displayed.custom = "brief" THEN None ELSE Status!Displayed.custom]
    <3>1. Status!Displayed' = Status!Stripped(ToBeSeen)'
      BY DEF Status!Displayed, ToBeSeen
    <3>2. \A i \in StatusInfo : Status!Stripped(i)' = Status!Stripped(i)
      BY <2>1 DEF Status!Stripped, Status!CanViewerSeeActivity
    <3> QED BY <2>1, <2>4, <2>5, <3>1 DEF Status!Stripped, Status!CanViewerSeeActivity, StatusInfo
  <2>7. AloneKnows'
    <3> SUFFICES ASSUME NEW q \in Two, statusJob[q] # None, statusJob[q].alone
                 PROVE  /\ \A p \in Two \ {q} : statusJob[p] = None
                        /\ (Aged(statusJob[q].shows) = ToBeSeen)'
      BY <2>1 DEF AloneKnows
    <3>1. statusJob[q].shows \in StatusInfo
      BY <1>a DEF StatusTyped, StatusJob
    <3>2. statusJob[q].shows = ToBeSeen /\ \A p \in Two \ {q} : statusJob[p] = None
      BY <1>a, <2>3, <3>1 DEF AloneKnows
    <3>3. (Aged(statusJob[q].shows))' = [ToBeSeen EXCEPT !.custom = IF ToBeSeen.custom = "brief" THEN None ELSE ToBeSeen.custom]
      BY <2>1, <3>1, <3>2 DEF Aged, Status!EffectiveCustom, StatusInfo
    <3> QED BY <2>5, <3>2, <3>3
  <2>8. SaidRight'
    <3>1. statusTold \in StatusInfo
      BY <1>a DEF StatusTyped
    <3>2. (Aged(statusTold))' = [statusTold EXCEPT !.custom = IF statusTold.custom = "brief" THEN None ELSE statusTold.custom]
      BY <2>1, <3>1 DEF Aged, Status!EffectiveCustom, StatusInfo
    <3>3. Aged(statusTold) = statusTold
      BY <2>3, <3>1
    <3>4. (Bare(statusTold) = Bare(Status!Displayed)) =>
            Bare((Aged(statusTold))') = Bare(Status!Displayed')
      <4> SUFFICES ASSUME Bare(statusTold) = Bare(Status!Displayed)
                   PROVE Bare((Aged(statusTold))') = Bare(Status!Displayed')
        OBVIOUS
      <4>1. statusTold.status = Status!Displayed.status /\ statusTold.custom = Status!Displayed.custom
        BY <3>1, <2>4 DEF Bare, StatusInfo
      <4> QED BY <3>1, <3>2, <2>4, <2>6, <4>1 DEF Bare, StatusInfo
    <3>5. (statusTold = Status!Displayed) => (Aged(statusTold))' = Status!Displayed'
      BY <3>2, <2>6
    <3> QED BY <1>a, <2>1, <3>3, <3>4, <3>5 DEF SaidRight, Bare
  <2> QED BY <2>2, <2>7, <2>8 DEF StatusInv
<1>9. ASSUME Status!FriendshipChanges \/ \E to \in Status!Audiences : Status!PatchPrivacy(to)
      PROVE  StatusInv'
  <2>1. /\ ~ hid /\ hid' = TRUE
        /\ UNCHANGED <<sessions, custom, statusLate, statusJob, watcher, statusTold,
                       statusCrossed, skipped>>
    BY <1>9 DEF Status!FriendshipChanges, Status!PatchPrivacy
  <2>2. StatusTyped' /\ AllDiscreet'
    BY <1>a, <2>1 DEF StatusTyped, AllDiscreet, Discreet, Status!Nothing
  <2>3. ToBeSeen' = ToBeSeen
    BY <2>1
       DEF ToBeSeen, Status!Shown, Status!Real, Status!Live, Status!Merged, Status!MergeActivities,

              Status!EffectiveCustom, Status!Mask
  <2>4. AloneKnows'
    BY <1>a, <2>1, <2>3 DEF AloneKnows, Aged, Status!EffectiveCustom
  <2>5. ToBeSeen \in StatusInfo
    BY <1>a, StatusTypes, StatusViews DEF StatusTyped, ToBeSeen
  <2>6. Bare(Status!Displayed) = Bare(ToBeSeen)
    BY <2>5, StatusViews DEF Status!Displayed, ToBeSeen
  <2>7. Bare(Status!Displayed)' = Bare(ToBeSeen)
    <3>1. Status!Displayed' = Status!Stripped(ToBeSeen)'
      BY DEF Status!Displayed, ToBeSeen
    <3>2. Status!Displayed' = ToBeSeen \/ Status!Displayed' = [ToBeSeen EXCEPT !.acts = {}]
      BY <2>3, <3>1 DEF Status!Stripped
    <3> QED BY <2>5, <3>2 DEF Bare, StatusInfo
  <2>8. SaidRight'
    <3>1. (Aged(statusTold))' = Aged(statusTold)
      BY <2>1 DEF Aged, Status!EffectiveCustom
    <3> QED BY <1>a, <2>1, <2>6, <2>7, <3>1 DEF SaidRight, Bare
  <2> QED BY <2>2, <2>4, <2>8 DEF StatusInv
<1>10. CASE UNCHANGED statusVars
  <2>1. UNCHANGED <<sessions, custom, statusLate, showTo, friend, statusJob, watcher, statusTold,
                    statusCrossed, skipped, hid>>
    BY <1>10 DEF statusVars
  <2>2. ToBeSeen' = ToBeSeen /\ Status!Displayed' = Status!Displayed
    BY <2>1
       DEF ToBeSeen, Status!Displayed, Status!Shown, Status!Real, Status!Live, Status!Merged,
           Status!MergeActivities,
              Status!EffectiveCustom, Status!Mask, Status!Stripped, Status!CanViewerSeeActivity
  <2>3. StatusTyped' /\ AllDiscreet'
    BY <1>a, <2>1 DEF StatusTyped, AllDiscreet, Discreet, Status!Nothing
  <2>4. AloneKnows'
    BY <1>a, <2>1, <2>2 DEF AloneKnows, Aged, Status!EffectiveCustom
  <2>5. SaidRight'
    BY <1>a, <2>1, <2>2 DEF SaidRight, Aged, Bare, Status!EffectiveCustom
  <2> QED BY <2>3, <2>4, <2>5 DEF StatusInv
<1>11. CASE Status!Next
  <2>1. CASE \E q \in Two : Status!Publish(q) \/ Status!SharedMembersFail(q)
    BY <2>1, <1>1, <1>2
  <2>2. CASE \E q \in Two, s \in Sessions : Status!Disconnect(q, s)
    BY <2>2, <1>3
  <2>3. CASE \E q \in Two, s \in Sessions, w \in Statuses : Status!Connect(q, s, w)
    BY <2>3, <1>4
  <2>4. CASE \E q \in Two, s \in Sessions, w \in Statuses, c \in {None, "brief"} :
               Status!SetStatus(q, s, w, c)
    BY <2>4, <1>5
  <2>5. CASE \E q \in Two, s \in Sessions, w \in Statuses, c \in {None, "brief"},
                a \in Activities \cup {None} : Status!SetStatusFull(q, s, w, c, {a} \ {None})
    <3>1. PICK q \in Two, s \in Sessions, w \in Statuses, c \in {None, "brief"},
                a \in Activities \cup {None} : Status!SetStatusFull(q, s, w, c, {a} \ {None})
      BY <2>5
    <3> QED BY <3>1, <1>6
  <2>6. CASE Status!Ready \/ Status!CustomExpires
    BY <2>6, <1>7, <1>8
  <2>7. CASE Status!FriendshipChanges \/ \E to \in Status!Audiences : Status!PatchPrivacy(to)
    BY <2>7, <1>9
  <2>8. ASSUME NEW q \in Two, NEW s \in Sessions, NEW w \in Statuses,
               \/ Status!Connect(q, s, w)
               \/ \E c \in {None, "brief"} :
                    \/ Status!SetStatus(q, s, w, c)
                    \/ \E a \in Activities \cup {None} : Status!SetStatusFull(q, s, w, c, {a} \ {None})
        PROVE  StatusInv'
    <3>1. CASE Status!Connect(q, s, w)
      BY <2>3, <3>1
    <3>2. CASE \E c \in {None, "brief"} : Status!SetStatus(q, s, w, c)
      BY <2>4, <3>2
    <3>3. CASE \E c \in {None, "brief"}, a \in Activities \cup {None} :
                 Status!SetStatusFull(q, s, w, c, {a} \ {None})
      BY <2>5, <3>3
    <3> QED BY <2>8, <3>1, <3>2, <3>3
  <2>9. CASE \E q \in Two :
               \/ Status!Publish(q) \/ Status!SharedMembersFail(q)
               \/ \E s \in Sessions :
                    \/ Status!Disconnect(q, s)
                    \/ \E w \in Statuses :
                         \/ Status!Connect(q, s, w)
                         \/ \E c \in {None, "brief"} :
                              \/ Status!SetStatus(q, s, w, c)
                              \/ \E a \in Activities \cup {None} :
                                   Status!SetStatusFull(q, s, w, c, {a} \ {None})
    BY <2>1, <2>2, <2>8, <2>9
  <2> QED BY <1>11, <2>6, <2>7, <2>9 DEF Status!Next
<1> QED BY <1>10, <1>11 DEF Next, vars

LEMMA StatusHolds == StatusInv => Status!PresenceIsTrue
<1> SUFFICES ASSUME StatusInv PROVE Status!PresenceIsTrue
  OBVIOUS
<1>1. Aged(statusTold) = [statusTold EXCEPT !.custom = Status!EffectiveCustom(@)]
  BY DEF Aged
<1>2. \A i : Bare(i) = [i EXCEPT !.acts = {}]
  BY DEF Bare
<1> QED BY <1>1, <1>2 DEF StatusInv, SaidRight, AllDiscreet, Discreet, Status!PresenceIsTrue

-----------------------------------------------------------------------------
(* A private group. *)

AtOnce == {{"invite", "leave"}, {"invite", "close"}}

\* An invitation that has looked and not written.
Inviting(q) == groupJob[q] # None /\ groupJob[q].does = "invite" /\ groupJob[q].on # None

GroupTyped ==
  /\ channel \in {"none", "live", "gone"} /\ groupRows \subseteq Three /\ name \in Nat
  /\ groupShown \in [Three -> GroupView \cup {None}]
  /\ groupJob \in [Two -> GroupJob \cup {None}]

RunAtOnce ==
  \A p, q \in Two : p # q /\ groupJob[p] # None /\ groupJob[q] # None =>
    /\ overlapped # {}
    /\ groupJob[p].does = "invite" /\ groupJob[q].does = "invite" => {"invite"} \in overlapped

NoGroupYet == channel = "none" => groupRows = {} /\ \A q \in Two : groupJob[q] = None

Room ==
  {"invite"} \notin overlapped =>
    /\ Cardinality(groupRows) <= MaxMembers
    /\ (\E q \in Two : Inviting(q)) => Cardinality(groupRows) < MaxMembers

Emptied ==
  \/ overlapped \cap AtOnce # {}
  \/ /\ channel = "gone" => groupRows = {}
     /\ \A q \in Two : groupJob[q] # None /\ groupJob[q].does = "close" => groupRows = {}
     /\ \A q \in Two : Inviting(q) => groupRows # {} /\ channel = "live"

\* The view of each, when nothing overlapped, by what the one handler has still to do.
Due(u) == IF channel = "live" /\ u \in groupRows THEN Group!View(u) ELSE None

AloneViews ==
  overlapped = {} =>
    /\ (\A q \in Two : groupJob[q] = None) =>
         (channel = "live" => groupRows # {}) /\ \A u \in Three : groupShown[u] = Due(u)
    /\ \A q \in Two : groupJob[q] # None =>
         LET j == groupJob[q] IN
         /\ channel = "live"
         /\ j.does # "invite" => j.on = None
         /\ j.does \in {"leave", "close"} \/ j.on # None => j.to = {} /\ j.built = None
         /\ j.to \subseteq groupRows
         /\ j.does \notin {"leave", "close"} => groupRows # {}
         /\ j.does = "close" => groupRows = {}
         /\ j.built # None => \E u \in groupRows : j.built = <<u, Group!View(u)>>
         /\ \A u \in Three : \/ groupShown[u] = Due(u)
                             \/ j.does = "leave" /\ u \in groupRows
                             \/ u \in j.to
                             \/ j.built # None /\ j.built[1] = u

GroupInv ==
  GroupTyped /\ RunAtOnce /\ NoGroupYet /\ Room /\ Emptied /\ AloneViews

LEMMA GroupInit == Init => GroupInv
<1> SUFFICES ASSUME Init PROVE GroupInv
  OBVIOUS
<1>1. /\ channel = "none" /\ groupRows = {} /\ name = 0 /\ groupShown = [u \in Three |-> None]
      /\ groupJob = [q \in Two |-> None] /\ overlapped = {}
  BY DEF Init, Group!Init
<1>2. Cardinality({}) = 0
  BY FS_EmptySet
<1>3. GroupTyped /\ RunAtOnce /\ NoGroupYet /\ Room /\ Emptied
  BY <1>1, <1>2, BoundsAreNumbers
     DEF GroupTyped, RunAtOnce, NoGroupYet, Room, Emptied, Inviting
<1>4. AloneViews
  BY <1>1 DEF AloneViews, Due
<1> QED BY <1>3, <1>4 DEF GroupInv

LEMMA GroupCounts ==
  ASSUME NEW S \in SUBSET Three
  PROVE  /\ IsFiniteSet(S) /\ Cardinality(S) \in Nat
         /\ \A u \in Three : /\ u \notin S => Cardinality(S \cup {u}) = Cardinality(S) + 1
                              /\ Cardinality(S \ {u}) <= Cardinality(S)
<1>1. IsFiniteSet(S) /\ Cardinality(S) \in Nat
  BY FiniteNames, FS_Subset, FS_CardinalityType
<1>2. ASSUME NEW u \in Three PROVE /\ u \notin S => Cardinality(S \cup {u}) = Cardinality(S) + 1
                                   /\ Cardinality(S \ {u}) <= Cardinality(S)
  <2>1. u \notin S => Cardinality(S \cup {u}) = Cardinality(S) + 1
    BY <1>1, FS_AddElement
  <2>2. Cardinality(S \ {u}) <= Cardinality(S)
    BY <1>1, FS_Subset
  <2> QED BY <2>1, <2>2
<1> QED BY <1>1, <1>2

LEMMA GroupCounting ==
  ASSUME NEW S PROVE Group!Cardinality(S) = Cardinality(S)
  BY DEF Cardinality, Group!Cardinality

\* A handler that begins, with what it has to do.
LEMMA GroupBegins ==
  ASSUME GroupTyped, RunAtOnce, NEW q \in Two, groupJob[q] = None, NEW k \in GroupJob,
         Group!Begins(q, k.does), groupJob' = [groupJob EXCEPT ![q] = k]
  PROVE  /\ RunAtOnce' /\ overlapped \subseteq overlapped' /\ k # None
         /\ groupJob'[q] = k
         /\ \A p \in Two \ {q} : /\ groupJob'[p] = groupJob[p]
                                 /\ groupJob[p] # None => {k.does, groupJob[p].does} \in overlapped'
         /\ groupJob' \in [Two -> GroupJob \cup {None}]
<1>1. groupJob'[q] = k /\ \A p \in Two \ {q} : groupJob'[p] = groupJob[p]
  BY DEF GroupTyped
<1>2. overlapped' = overlapped \cup {{k.does, groupJob[p].does} : p \in Group!Others(q)}
  BY DEF Group!Begins
<1>3. \A p \in Two \ {q} : groupJob[p] # None => {k.does, groupJob[p].does} \in overlapped'
  BY <1>2 DEF Group!Others
<1>4. RunAtOnce'
  <2> SUFFICES ASSUME NEW p \in Two, NEW o \in Two, p # o, groupJob'[p] # None, groupJob'[o] # None
               PROVE  /\ overlapped' # {}
                      /\ groupJob'[p].does = "invite" /\ groupJob'[o].does = "invite" =>
                           {"invite"} \in overlapped'
    BY DEF RunAtOnce
  <2>1. CASE p # q /\ o # q
    BY <1>1, <1>2, <2>1 DEF RunAtOnce
  <2>2. CASE p = q
    <3>1. {k.does, groupJob[o].does} \in overlapped' /\ groupJob'[o] = groupJob[o] /\ groupJob'[p] = k
      BY <1>1, <1>3, <2>2
    <3>2. {"invite", "invite"} = {"invite"}
      OBVIOUS
    <3> QED BY <3>1, <3>2
  <2>3. CASE o = q
    <3>1. {k.does, groupJob[p].does} \in overlapped' /\ groupJob'[p] = groupJob[p] /\ groupJob'[o] = k
      BY <1>1, <1>3, <2>3
    <3>2. {"invite", "invite"} = {"invite"}
      OBVIOUS
    <3> QED BY <3>1, <3>2
  <2> QED BY <2>1, <2>2, <2>3
<1>5. groupJob' \in [Two -> GroupJob \cup {None}]
  BY DEF GroupTyped
<1>6. k # None
  BY NoneIsNoValue
<1> QED BY <1>1, <1>2, <1>3, <1>4, <1>5, <1>6

LEMMA GroupNext == GroupInv /\ [Next]_vars => GroupInv'
<1> SUFFICES ASSUME GroupInv, [Next]_vars PROVE GroupInv'
  OBVIOUS
<1> USE NoneIsNoValue
<1>a. GroupTyped /\ NoGroupYet
  BY DEF GroupInv
<1>b. RunAtOnce
  BY DEF GroupInv
<1>c. Room
  BY DEF GroupInv
<1>d. Emptied
  BY DEF GroupInv
<1>e. AloneViews
  BY DEF GroupInv
<1>f. Cardinality(groupRows) \in Nat /\ MaxMembers \in Nat /\ groupRows \in SUBSET Three
  BY <1>a, GroupCounts, BoundsAreNumbers DEF GroupTyped
<1>1. ASSUME NEW q \in Two, NEW u \in Three, NEW ids \in SUBSET Three, Group!CreateGroupDM(q, u, ids) PROVE GroupInv'
  <2> DEFINE k == [does |-> "create", on |-> None, to |-> ids \cup {u}, built |-> None]
  <2>0. /\ groupJob[q] = None /\ channel = "none" /\ channel' = "live"
        /\ groupRows' = ids \cup {u} /\ u \notin ids /\ Cardinality(ids) + 1 <= MaxMembers
        /\ UNCHANGED <<name, groupShown>>
    BY <1>a, <1>1, GroupCounting DEF Group!CreateGroupDM, Group!Idle, Group!Runs, GroupTyped
  <2>k. k \in GroupJob
    BY <1>a, <2>0 DEF GroupJob, GroupKinds, GroupTyped
  <2>j. groupJob' = [groupJob EXCEPT ![q] = k] /\ Group!Begins(q, k.does)
    BY <1>1 DEF Group!CreateGroupDM, Group!Idle, Group!Runs
  <2>f. k.does = "create" /\ k.built = None
    OBVIOUS
  <2>g. k.on = None /\ k.to = ids \cup {u}
    OBVIOUS
  <2> HIDE DEF k
  <2>b. /\ RunAtOnce' /\ overlapped \subseteq overlapped' /\ k # None
        /\ groupJob'[q] = k
        /\ \A p \in Two \ {q} : /\ groupJob'[p] = groupJob[p]
                                /\ groupJob[p] # None => {k.does, groupJob[p].does} \in overlapped'
        /\ groupJob' \in [Two -> GroupJob \cup {None}]
    BY <1>a, <1>b, <2>0, <2>j, <2>k, GroupBegins
  <2>1. GroupTyped'
    BY <1>a, <2>0, <2>b DEF GroupTyped
  <2>3. NoGroupYet'
    BY <1>a, <2>0 DEF NoGroupYet
  <2>4. Room'
    <3>1. Cardinality(groupRows') = Cardinality(ids) + 1 /\ Cardinality(groupRows') <= MaxMembers
      BY <2>0, GroupCounts
    <3>2. \A p \in Two : ~ Inviting(p)'
      BY <1>a, <2>0, <2>b, <2>f DEF Inviting, NoGroupYet
    <3> QED BY <3>1, <3>2 DEF Room
  <2>5. Emptied'
    BY <1>a, <2>0, <2>b, <2>f DEF Emptied, NoGroupYet, Inviting
  <2>6. AloneViews'
    <3> SUFFICES ASSUME overlapped' = {} PROVE AloneViews'
      BY DEF AloneViews
    <3>1. overlapped = {} /\ \A p \in Two \ {q} : groupJob[p] = None /\ groupJob'[p] = None
      BY <2>b
    <3>2. groupJob[q] = None
      BY <2>0
    <3>3. \A w \in Three : groupShown'[w] = None /\ (w \notin groupRows' => Due(w)' = None)
      BY <1>e, <2>0, <3>1, <3>2 DEF AloneViews, Due
    <3> QED BY <2>0, <2>b, <2>f, <2>g, <3>1, <3>3 DEF AloneViews
  <2> QED BY <2>1, <2>3, <2>4, <2>5, <2>6, <2>b DEF GroupInv
<1>2. ASSUME NEW q \in Two, NEW u \in Three, NEW v \in Three, Group!InviteGroupDM(q, u, v) PROVE GroupInv'
  <2> DEFINE k == [does |-> "invite", on |-> v, to |-> {}, built |-> None]
  <2>0. /\ groupJob[q] = None /\ channel = "live" /\ groupRows # {}
        /\ Cardinality(groupRows) < MaxMembers
        /\ UNCHANGED <<channel, groupRows, name, groupShown>>
    BY <1>a, <1>2, GroupCounting DEF Group!InviteGroupDM, Group!Idle, Group!Runs, GroupTyped
  <2>k. k \in GroupJob
    BY <1>a, <2>0 DEF GroupJob, GroupKinds, GroupTyped
  <2>j. groupJob' = [groupJob EXCEPT ![q] = k] /\ Group!Begins(q, k.does)
    <3>1. k = [Group!Runs(q, "invite", {}) EXCEPT !.on = v]
      BY DEF Group!Runs
    <3>2. k.does = "invite"
      OBVIOUS
    <3> HIDE DEF k
    <3> QED BY <1>2, <3>1, <3>2 DEF Group!InviteGroupDM
  <2>f. k.does = "invite" /\ k.built = None
    OBVIOUS
  <2>g. k.on = v /\ k.to = {}
    OBVIOUS
  <2> HIDE DEF k
  <2>b. /\ RunAtOnce' /\ overlapped \subseteq overlapped' /\ k # None
        /\ groupJob'[q] = k
        /\ \A p \in Two \ {q} : /\ groupJob'[p] = groupJob[p]
                                /\ groupJob[p] # None => {k.does, groupJob[p].does} \in overlapped'
        /\ groupJob' \in [Two -> GroupJob \cup {None}]
    BY <1>a, <1>b, <2>0, <2>j, <2>k, GroupBegins
  <2>1. GroupTyped'
    BY <1>a, <2>0, <2>b DEF GroupTyped
  <2>3. NoGroupYet'
    BY <1>a, <2>0 DEF NoGroupYet
  <2>4. Room'
    BY <1>c, <2>0, <2>b DEF Room
  <2>5. Emptied'
    BY <1>d, <2>0, <2>b, <2>f DEF Emptied, Inviting
  <2>6. AloneViews'
    <3> SUFFICES ASSUME overlapped' = {} PROVE AloneViews'
      BY DEF AloneViews
    <3>1. overlapped = {} /\ \A p \in Two \ {q} : groupJob[p] = None /\ groupJob'[p] = None
      BY <2>b
    <3>2. \A w \in Three : groupShown'[w] = Due(w)'
      BY <1>e, <2>0, <3>1 DEF AloneViews, Due, Group!View
    <3>3. v # None
      OBVIOUS
    <3> QED BY <2>0, <2>b, <2>f, <2>g, <3>1, <3>2, <3>3 DEF AloneViews
  <2> QED BY <2>1, <2>3, <2>4, <2>5, <2>6, <2>b DEF GroupInv
<1>3. ASSUME NEW q \in Two, Group!InviteWrites(q) PROVE GroupInv'
  <2>1. GroupTyped'
    BY <1>a, <1>3
       DEF Group!InviteWrites, Group!Idle, Group!Told, GroupTyped, GroupJob, GroupView, GroupKinds,
           Group!View
  <2>2. RunAtOnce'
    BY <1>a, <1>b, <1>3
       DEF Group!InviteWrites, Group!Idle, Group!Told, GroupTyped, RunAtOnce, GroupJob
  <2>3. NoGroupYet'
    BY <1>a, <1>3 DEF Group!InviteWrites, Group!Idle, Group!Told, GroupTyped, NoGroupYet
  <2>4. Room'
    <3>1. Inviting(q) /\ groupJob[q].on \in Three
      BY <1>3, <1>a DEF Group!InviteWrites, Group!Idle, Inviting, GroupTyped, GroupJob
    <3>2. \A p \in Two : p # q => ~ Inviting(p) \/ {"invite"} \in overlapped
      BY <1>b, <3>1 DEF RunAtOnce, Inviting
    <3>3. overlapped' = overlapped /\ ~ Inviting(q)' /\ \A p \in Two \ {q} : Inviting(p)' <=> Inviting(p)
      <4>1. /\ overlapped' = overlapped /\ \A p \in Two \ {q} : groupJob'[p] = groupJob[p]
            /\ groupJob'[q] = None \/ groupJob'[q].on = None
        BY <1>3, <1>a DEF Group!InviteWrites, Group!Idle, GroupTyped, GroupJob
      <4> QED BY <4>1 DEF Inviting
    <3>4. groupRows' = groupRows \/ (groupJob[q].on \notin groupRows /\ groupRows' = groupRows \cup {groupJob[q].on})
      BY <1>3 DEF Group!InviteWrites
    <3>5. Cardinality(groupRows') = Cardinality(groupRows) \/ Cardinality(groupRows') = Cardinality(groupRows) + 1
      BY <1>f, <3>1, <3>4, GroupCounts
    <3> QED BY <1>c, <1>f, <3>1, <3>2, <3>3, <3>5 DEF Room
  <2>5. Emptied'
    <3>1. Inviting(q)
      BY <1>3, <1>a DEF Group!InviteWrites, Group!Idle, Inviting
    <3>2. /\ overlapped' = overlapped /\ channel' = channel /\ groupRows \subseteq groupRows'
          /\ ~ Inviting(q)' /\ \A p \in Two \ {q} : groupJob'[p] = groupJob[p]
          /\ groupJob'[q] # None => groupJob'[q].does = "invite"
      <4>1. /\ overlapped' = overlapped /\ channel' = channel /\ groupRows \subseteq groupRows'
            /\ \A p \in Two \ {q} : groupJob'[p] = groupJob[p]
            /\ groupJob'[q] # None => groupJob'[q].on = None /\ groupJob'[q].does = "invite"
        BY <1>3, <1>a DEF Group!InviteWrites, Group!Idle, GroupTyped, GroupJob
      <4> QED BY <4>1 DEF Inviting
    <3>3. ASSUME overlapped \cap AtOnce = {}
          PROVE channel = "live" /\ groupRows # {} /\ \A p \in Two : groupJob[p] # None => groupJob[p].does # "close"
      BY <1>d, <3>1, <3>3 DEF Emptied
    <3> QED BY <1>d, <3>2, <3>3 DEF Emptied, Inviting
  <2>6. AloneViews'
    BY <1>a, <1>b, <1>e, <1>3
       DEF Group!InviteWrites, Group!Idle, Group!Told, GroupTyped, RunAtOnce, AloneViews, Due,
           NoGroupYet, GroupJob, Group!View
  <2> QED BY <2>1, <2>2, <2>3, <2>4, <2>5, <2>6 DEF GroupInv
<1>4. ASSUME NEW q \in Two, NEW u \in Three, Group!LeaveGroupDM(q, u) PROVE GroupInv'
  <2> DEFINE k == [does |-> "leave", on |-> None, to |-> {}, built |-> None]
  <2>0. /\ groupJob[q] = None /\ channel = "live" /\ u \in groupRows
        /\ groupRows' = groupRows \ {u} /\ groupShown' = [groupShown EXCEPT ![u] = None]
        /\ UNCHANGED <<channel, name>>
    BY <1>a, <1>4, GroupCounting DEF Group!LeaveGroupDM, Group!Idle, Group!Runs, GroupTyped
  <2>k. k \in GroupJob
    BY <1>a, <2>0 DEF GroupJob, GroupKinds, GroupTyped
  <2>j. groupJob' = [groupJob EXCEPT ![q] = k] /\ Group!Begins(q, k.does)
    BY <1>4 DEF Group!LeaveGroupDM, Group!Idle, Group!Runs
  <2>f. k.does = "leave" /\ k.built = None
    OBVIOUS
  <2>g. k.on = None /\ k.to = {}
    OBVIOUS
  <2> HIDE DEF k
  <2>b. /\ RunAtOnce' /\ overlapped \subseteq overlapped' /\ k # None
        /\ groupJob'[q] = k
        /\ \A p \in Two \ {q} : /\ groupJob'[p] = groupJob[p]
                                /\ groupJob[p] # None => {k.does, groupJob[p].does} \in overlapped'
        /\ groupJob' \in [Two -> GroupJob \cup {None}]
    BY <1>a, <1>b, <2>0, <2>j, <2>k, GroupBegins
  <2>1. GroupTyped'
    BY <1>a, <2>0, <2>b DEF GroupTyped
  <2>3. NoGroupYet'
    BY <1>a, <2>0 DEF NoGroupYet
  <2>4. Room'
    <3>1. Cardinality(groupRows') <= Cardinality(groupRows) /\ Cardinality(groupRows') \in Nat
      BY <1>f, <2>0, GroupCounts
    <3>2. (\E p \in Two : Inviting(p)') => \E p \in Two : Inviting(p)
      BY <2>b, <2>f DEF Inviting
    <3> QED BY <1>c, <1>f, <2>b, <3>1, <3>2 DEF Room
  <2>5. Emptied'
    <3>1. ASSUME NEW p \in Two, Inviting(p)' PROVE overlapped' \cap AtOnce # {}
            <4>1. p # q /\ groupJob[p] # None /\ groupJob[p].does = "invite"
        BY <2>b, <2>f, <3>1 DEF Inviting
      <4>2. {"leave", "invite"} \in overlapped'
        BY <2>b, <2>f, <4>1
      <4>3. {"leave", "invite"} = {"invite", "leave"}
        OBVIOUS
      <4> QED BY <4>2, <4>3 DEF AtOnce
    <3> QED BY <1>d, <2>0, <2>b, <2>f, <3>1 DEF Emptied
  <2>6. AloneViews'
    <3> SUFFICES ASSUME overlapped' = {} PROVE AloneViews'
      BY DEF AloneViews
    <3>1. overlapped = {} /\ \A p \in Two \ {q} : groupJob[p] = None /\ groupJob'[p] = None
      BY <2>b
    <3>2. groupJob[q] = None
      BY <2>0
    <3>3. \A w \in Three : w \notin groupRows' => groupShown'[w] = Due(w)'
      BY <1>a, <1>e, <2>0, <3>1, <3>2 DEF AloneViews, Due, GroupTyped
    <3> QED BY <2>0, <2>b, <2>f, <2>g, <3>1, <3>3 DEF AloneViews
  <2> QED BY <2>1, <2>3, <2>4, <2>5, <2>6, <2>b DEF GroupInv
<1>5. ASSUME NEW q \in Two, Group!LeaveLooks(q) PROVE GroupInv'
  <2>0. /\ groupJob[q] \in GroupJob /\ groupJob[q] # None /\ groupJob[q].does = "leave"
        /\ groupJob'[q] = [groupJob[q] EXCEPT !.does = Group!LastLeft, !.to = groupRows]
        /\ \A p \in Two \ {q} : groupJob'[p] = groupJob[p]
        /\ UNCHANGED <<channel, groupRows, name, groupShown, overlapped>>
    BY <1>a, <1>5 DEF GroupTyped, Group!LeaveLooks, Group!Idle
  <2>h. /\ groupJob'[q].does = Group!LastLeft /\ groupJob'[q].to = groupRows
        /\ groupJob'[q].on = groupJob[q].on /\ groupJob'[q].built = groupJob[q].built
        /\ Group!LastLeft = (IF groupRows = {} THEN "close" ELSE "tell")
    BY <2>0 DEF GroupJob, Group!LastLeft
  <2>1. GroupTyped' 
    <3>1. [groupJob[q] EXCEPT !.does = Group!LastLeft, !.to = groupRows] \in GroupJob
      BY <1>a, <1>5
         DEF GroupTyped, GroupJob, GroupKinds, Group!LastLeft, Group!LeaveLooks, Group!Idle
    <3>2. groupJob' = [groupJob EXCEPT ![q] = [groupJob[q] EXCEPT !.does = Group!LastLeft, !.to = groupRows]]
      BY <1>a, <1>5 DEF Group!LeaveLooks, GroupTyped
    <3> QED BY <1>a, <1>5, <3>1, <3>2 DEF GroupTyped, Group!LeaveLooks
  <2>2. RunAtOnce'
    BY <1>a, <1>b, <1>5
       DEF Group!LeaveLooks, Group!Idle, Group!LastLeft, GroupTyped, RunAtOnce, GroupJob
  <2>3. NoGroupYet'
    BY <1>a, <1>5 DEF Group!LeaveLooks, Group!Idle, Group!LastLeft, GroupTyped, NoGroupYet
  <2>4. Room'
    BY <1>a, <1>b, <1>c, <1>f, <1>5, GroupCounts
       DEF Group!LeaveLooks, Group!Idle, Group!LastLeft, GroupTyped, RunAtOnce, Room, Inviting
  <2>5. Emptied'
    BY <1>d, <2>0, <2>h DEF Emptied, Inviting
  <2>6. AloneViews'
    <3> SUFFICES ASSUME overlapped' = {} PROVE AloneViews'
      BY DEF AloneViews
    <3>1. /\ \A p \in Two \ {q} : groupJob[p] = None
          /\ channel = "live" /\ groupJob[q].on = None /\ groupJob[q].built = None
          /\ \A w \in Three : groupShown[w] = Due(w) \/ w \in groupRows
      BY <1>b, <1>e, <2>0 DEF RunAtOnce, AloneViews
    <3>2. groupJob'[q] # None
      <4>1. groupJob'[q] \in GroupJob
        BY <1>a, <2>0 DEF GroupJob, GroupKinds, Group!LastLeft, GroupTyped
      <4> QED BY <4>1
    <3>3. \A w \in Three : Due(w)' = Due(w) /\ (w \notin groupRows => Due(w) = None)
      BY <2>0 DEF Due, Group!View
    <3> QED BY <2>0, <2>h, <3>1, <3>2, <3>3 DEF AloneViews
  <2> QED BY <2>1, <2>2, <2>3, <2>4, <2>5, <2>6 DEF GroupInv
<1>6. ASSUME NEW q \in Two, Group!CloseChannel(q) PROVE GroupInv'
  <2>1. GroupTyped'
    BY <1>a, <1>6
       DEF Group!CloseChannel, Group!Idle, GroupTyped, GroupJob, GroupView, GroupKinds, Group!View
  <2>2. RunAtOnce'
    BY <1>a, <1>b, <1>6 DEF Group!CloseChannel, Group!Idle, GroupTyped, RunAtOnce, GroupJob
  <2>3. NoGroupYet'
    BY <1>a, <1>6 DEF Group!CloseChannel, Group!Idle, GroupTyped, NoGroupYet
  <2>4. Room'
    BY <1>a, <1>b, <1>c, <1>f, <1>6, GroupCounts
       DEF Group!CloseChannel, Group!Idle, GroupTyped, RunAtOnce, Room, Inviting
  <2>5. Emptied'
    BY <1>a, <1>d, <1>6
       DEF Group!CloseChannel, Group!Idle, GroupTyped, NoGroupYet, Emptied, Inviting, AtOnce
  <2>6. AloneViews'
    BY <1>a, <1>b, <1>e, <1>6
       DEF Group!CloseChannel, Group!Idle, GroupTyped, RunAtOnce, AloneViews, Due, NoGroupYet,
           GroupJob, Group!View
  <2> QED BY <2>1, <2>2, <2>3, <2>4, <2>5, <2>6 DEF GroupInv
<1>7. ASSUME NEW q \in Two, NEW u \in Three, Group!PatchPrivateChannel(q, u) PROVE GroupInv'
  <2> DEFINE k == [does |-> "rename", on |-> None, to |-> groupRows, built |-> None]
  <2>0. /\ groupJob[q] = None /\ channel = "live" /\ groupRows # {} /\ name' \in Nat
        /\ UNCHANGED <<channel, groupRows, groupShown>>
    BY <1>a, <1>7, GroupCounting DEF Group!PatchPrivateChannel, Group!Idle, Group!Runs, GroupTyped
  <2>k. k \in GroupJob
    BY <1>a, <2>0 DEF GroupJob, GroupKinds, GroupTyped
  <2>j. groupJob' = [groupJob EXCEPT ![q] = k] /\ Group!Begins(q, k.does)
    BY <1>7 DEF Group!PatchPrivateChannel, Group!Idle, Group!Runs
  <2>f. k.does = "rename" /\ k.built = None
    OBVIOUS
  <2>g. k.on = None /\ k.to = groupRows
    OBVIOUS
  <2> HIDE DEF k
  <2>b. /\ RunAtOnce' /\ overlapped \subseteq overlapped' /\ k # None
        /\ groupJob'[q] = k
        /\ \A p \in Two \ {q} : /\ groupJob'[p] = groupJob[p]
                                /\ groupJob[p] # None => {k.does, groupJob[p].does} \in overlapped'
        /\ groupJob' \in [Two -> GroupJob \cup {None}]
    BY <1>a, <1>b, <2>0, <2>j, <2>k, GroupBegins
  <2>1. GroupTyped'
    BY <1>a, <2>0, <2>b DEF GroupTyped
  <2>3. NoGroupYet'
    BY <1>a, <2>0 DEF NoGroupYet
  <2>4. Room'
    BY <1>c, <2>0, <2>b, <2>f DEF Room, Inviting
  <2>5. Emptied'
    BY <1>d, <2>0, <2>b, <2>f DEF Emptied, Inviting
  <2>6. AloneViews'
    <3> SUFFICES ASSUME overlapped' = {} PROVE AloneViews'
      BY DEF AloneViews
    <3>1. overlapped = {} /\ \A p \in Two \ {q} : groupJob[p] = None /\ groupJob'[p] = None
      BY <2>b
    <3>2. groupJob[q] = None
      BY <2>0
    <3>3. \A w \in Three : w \notin groupRows' => groupShown'[w] = Due(w)'
      BY <1>e, <2>0, <3>1, <3>2 DEF AloneViews, Due
    <3> QED BY <2>0, <2>b, <2>f, <2>g, <3>1, <3>3 DEF AloneViews
  <2> QED BY <2>1, <2>3, <2>4, <2>5, <2>6, <2>b DEF GroupInv
<1>8. ASSUME NEW q \in Two, NEW u \in Three, Group!BuildPrivateChannelView(q, u) PROVE GroupInv'
  <2> DEFINE k == [groupJob[q] EXCEPT !.to = groupJob[q].to \ {u},
                        !.built = IF channel = "live" THEN <<u, Group!View(u)>> ELSE None]
  <2>0. /\ groupJob[q] \in GroupJob /\ groupJob[q] # None
        /\ u \in groupJob[q].to /\ groupJob[q].built = None /\ groupShown' = groupShown
        /\ groupJob' = [groupJob EXCEPT ![q] = Group!Settled(k)]
        /\ UNCHANGED <<channel, groupRows, name, overlapped>>
    BY <1>a, <1>8 DEF GroupTyped, Group!BuildPrivateChannelView, Group!Idle, Group!Built
  <2>g. Group!View(u) \in GroupView
    BY <1>a DEF GroupTyped, GroupView, Group!View
  <2>k. k \in GroupJob /\ k.does = groupJob[q].does /\ k.on = groupJob[q].on
    BY <1>a, <2>0, <2>g DEF GroupJob
  <2>h. /\ groupJob'[q] = Group!Settled(k)
        /\ \A p \in Two \ {q} : groupJob'[p] = groupJob[p]
    BY <1>a, <2>0 DEF GroupTyped
  <2>1. GroupTyped' 
    <3>1. Group!Settled(k) \in GroupJob \cup {None}
      BY <2>k DEF Group!Settled
    <3> HIDE DEF k
    <3> QED BY <1>a, <2>0, <2>g, <3>1 DEF GroupTyped
  <2>2. RunAtOnce'
    <3>1. groupJob'[q] = k \/ groupJob'[q] = None
      BY <2>h DEF Group!Settled
    <3> HIDE DEF k
    <3> QED BY <1>b, <2>0, <2>h, <2>k, <3>1 DEF RunAtOnce, Room, Emptied, Inviting
  <2>3. NoGroupYet'
    BY <1>a, <1>8
       DEF Group!BuildPrivateChannelView, Group!Idle, Group!Settled, GroupTyped, NoGroupYet
  <2>4. Room'
    <3>1. groupJob'[q] = k \/ groupJob'[q] = None
      BY <2>h DEF Group!Settled
    <3> HIDE DEF k
    <3> QED BY <1>c, <2>0, <2>h, <2>k, <3>1 DEF RunAtOnce, Room, Emptied, Inviting
  <2>5. Emptied'
    <3>1. groupJob'[q] = k \/ groupJob'[q] = None
      BY <2>h DEF Group!Settled
    <3> HIDE DEF k
    <3> QED BY <1>d, <2>0, <2>h, <2>k, <3>1 DEF RunAtOnce, Room, Emptied, Inviting
  <2>6. AloneViews'
    <3> SUFFICES ASSUME overlapped' = {} PROVE AloneViews'
      BY DEF AloneViews
    <3>1. /\ \A p \in Two \ {q} : groupJob[p] = None
          /\ channel = "live" /\ groupRows # {} /\ groupJob[q].to \subseteq groupRows
          /\ groupJob[q].does \notin {"leave", "close"} /\ groupJob[q].on = None
          /\ \A w \in Three : groupShown[w] = Due(w) \/ w \in groupJob[q].to
      BY <1>b, <1>e, <2>0 DEF RunAtOnce, AloneViews
    <3>2. /\ k.built = <<u, Group!View(u)>> /\ k.built # None /\ k.to = groupJob[q].to \ {u}
          /\ k.built[1] = u
      BY <2>0, <2>g, <3>1 DEF GroupJob
    <3>3. groupJob'[q] = k /\ k # None
      BY <2>h, <2>k, <3>2 DEF Group!Settled
    <3>4. \A w \in Three : Due(w)' = Due(w) /\ Group!View(w)' = Group!View(w)
      BY <2>0 DEF Due, Group!View
    <3> HIDE DEF k
    <3>5. u \in groupRows' /\ k.built = <<u, Group!View(u)'>>
      BY <2>0, <3>1, <3>2, <3>4
    <3> QED BY <2>0, <2>h, <2>k, <3>1, <3>2, <3>3, <3>4, <3>5 DEF AloneViews
  <2> QED BY <2>1, <2>2, <2>3, <2>4, <2>5, <2>6 DEF GroupInv
<1>9. ASSUME NEW q \in Two, Group!SendView(q) PROVE GroupInv'
  <2> DEFINE k == [groupJob[q] EXCEPT !.built = None]
  <2>0. /\ groupJob[q] \in GroupJob /\ groupJob[q] # None
        /\ groupJob[q].built # None /\ groupShown' = [groupShown EXCEPT ![groupJob[q].built[1]] = groupJob[q].built[2]]
        /\ groupJob' = [groupJob EXCEPT ![q] = Group!Settled(k)]
        /\ UNCHANGED <<channel, groupRows, name, overlapped>>
    BY <1>a, <1>9 DEF GroupTyped, Group!SendView, Group!Idle, Group!Built
  <2>g. groupJob[q].to \subseteq Three /\ groupJob[q].built[1] \in Three /\ groupJob[q].built[2] \in GroupView
    BY <2>0 DEF GroupJob
  <2>k. k \in GroupJob /\ k.does = groupJob[q].does /\ k.on = groupJob[q].on
    BY <1>a, <2>0, <2>g DEF GroupJob
  <2>h. /\ groupJob'[q] = Group!Settled(k)
        /\ \A p \in Two \ {q} : groupJob'[p] = groupJob[p]
    BY <1>a, <2>0 DEF GroupTyped
  <2>1. GroupTyped' 
    <3>1. Group!Settled(k) \in GroupJob \cup {None}
      BY <2>k DEF Group!Settled
    <3> HIDE DEF k
    <3> QED BY <1>a, <2>0, <2>g, <3>1 DEF GroupTyped
  <2>2. RunAtOnce'
    BY <1>a, <1>b, <1>9
       DEF Group!SendView, Group!Idle, Group!Settled, GroupTyped, RunAtOnce, GroupJob
  <2>3. NoGroupYet'
    BY <1>a, <1>9 DEF Group!SendView, Group!Idle, Group!Settled, GroupTyped, NoGroupYet
  <2>4. Room'
    BY <1>a, <1>b, <1>c, <1>f, <1>9, GroupCounts
       DEF Group!SendView, Group!Idle, Group!Settled, GroupTyped, RunAtOnce, Room, Inviting
  <2>5. Emptied'
    BY <1>a, <1>d, <1>9
       DEF Group!SendView, Group!Idle, Group!Settled, GroupTyped, NoGroupYet, Emptied, Inviting,
           AtOnce
  <2>6. AloneViews'
    <3> SUFFICES ASSUME overlapped' = {} PROVE AloneViews'
      BY DEF AloneViews
    <3>1. /\ \A p \in Two \ {q} : groupJob[p] = None
          /\ channel = "live" /\ groupRows # {} /\ groupJob[q].to \subseteq groupRows
          /\ groupJob[q].does \notin {"leave", "close"} /\ groupJob[q].on = None
          /\ \A w \in Three : groupShown[w] = Due(w) \/ w \in groupJob[q].to \/ groupJob[q].built[1] = w
      BY <1>b, <1>e, <2>0 DEF RunAtOnce, AloneViews
    <3>2. PICK u \in groupRows : groupJob[q].built = <<u, Group!View(u)>>
      BY <1>e, <2>0 DEF AloneViews
    <3>3. k.built = None /\ k.to = groupJob[q].to
      BY <2>0 DEF GroupJob
    <3>4. \A w \in Three : Due(w)' = Due(w)
      BY <2>0 DEF Due, Group!View
    <3>5. Due(u) = Group!View(u) /\ u \in Three
      BY <1>a, <3>1 DEF Due, GroupTyped
    <3>6. \A w \in Three : groupShown'[w] = Due(w)' \/ w \in k.to
      BY <1>a, <2>0, <3>1, <3>2, <3>3, <3>4, <3>5 DEF GroupTyped
    <3>7. groupJob'[q] = k \/ (k.to = {} /\ groupJob'[q] = None)
      BY <2>h DEF Group!Settled
    <3>8. k # None
      BY <2>k
    <3> HIDE DEF k
    <3> QED BY <2>0, <2>h, <2>k, <3>1, <3>3, <3>6, <3>7, <3>8 DEF AloneViews
  <2> QED BY <2>1, <2>2, <2>3, <2>4, <2>5, <2>6 DEF GroupInv
<1>10. CASE UNCHANGED <<groupVars>> \/ \E p \in friends : Group!Unfriend(p)
  <2>1. UNCHANGED <<channel, groupRows, name, groupShown, groupJob, overlapped>>
    BY <1>10 DEF groupVars, Group!Unfriend
  <2> QED BY <2>1, <1>a, <1>b, <1>c, <1>d, <1>e
     DEF GroupInv, GroupTyped, NoGroupYet, RunAtOnce, Room, Emptied, AloneViews,
        Inviting, Due, Group!View
<1>11. CASE Group!Next
  BY <1>11, <1>1, <1>2, <1>3, <1>4, <1>5, <1>6, <1>7, <1>8, <1>9, <1>10 DEF Group!Next
<1> QED BY <1>10, <1>11 DEF Next, vars

LEMMA GroupHolds == GroupInv => Group!GroupIsTrue
<1> SUFFICES ASSUME GroupInv PROVE Group!GroupIsTrue
  OBVIOUS
<1>1. {"invite"} \notin overlapped => Cardinality(groupRows) <= MaxMembers
  BY DEF GroupInv, Room
<1>2. channel = "gone" /\ groupRows # {} => overlapped \cap AtOnce # {}
  BY DEF GroupInv, Emptied
<1>3. ASSUME \A q \in Two : Group!Idle(q), overlapped = {}
      PROVE  /\ channel = "live" => groupRows # {}
             /\ \A u \in Three : groupShown[u] = Due(u)
  BY <1>3 DEF GroupInv, AloneViews, Group!Idle
<1> QED BY <1>1, <1>2, <1>3, GroupCounting DEF AtOnce, Due, Group!Idle, Group!GroupIsTrue

(* His own devices and whoever may see him were last shown the user as he  *)
(* is, and those in a private group see who else is in it, unless two were *)
(* told at a time, or could not be: what the registry and the group        *)
(* channels promise those who watch.                                       *)
THEOREM ViewsHold == Spec => []ShownTruly
<1>1. StatusInv /\ GroupInv => ShownTruly
  BY StatusHolds, GroupHolds DEF ShownTruly
<1> QED BY <1>1, StatusInit, StatusNext, GroupInit, GroupNext, PTL DEF Spec

-----------------------------------------------------------------------------
(* A sticker pack, and who has it. *)

Asks(r, does) == packsRequest[r] # None /\ packsRequest[r].step = does

Creating == {r \in Two : Asks(r, "create")}
\* What would bring back a pack that is purged meanwhile.
Reviving == {r \in Two : \E does \in {"soft", "restore", "ban", "unban"} : Asks(r, does)}

PacksTyped ==
  /\ pack \in PackRow /\ packsRequest \in [Two -> PackSlot \cup {None}]
  /\ library \in [Users -> {"active", "hidden", None}] /\ others \in Nat
  /\ packsCrossed \in BOOLEAN /\ withdrawn \in BOOLEAN /\ over \in BOOLEAN

\* Before it is created nobody has it, or has anything to do with it but create it.
NotCreated ==
  pack.status = "none" =>
    /\ \A u \in Users : library[u] = None
    /\ \A r \in Two : packsRequest[r] # None => packsRequest[r].step = "create"
    /\ ~ withdrawn

SeenBanned == \A r \in Two : Asks(r, "unban") => packsRequest[r].seen.status = "banned"

InstallsForUsers == \A r \in Two : Asks(r, "install") => packsRequest[r].user \in Users

WithdrawnIsMarked == withdrawn /\ ~ packsCrossed => pack.soft

PacksCount ==
  Packs!Owned + Cardinality(Creating)
    + (IF pack.status = "purged" /\ Reviving # {} THEN 1 ELSE 0)
    <= MaxPacks + Cardinality(Two) - 1

PacksInv ==
  /\ PacksTyped /\ NotCreated /\ SeenBanned /\ InstallsForUsers /\ WithdrawnIsMarked
  /\ PacksCount /\ Packs!InstalledWhileInUse

-----------------------------------------------------------------------------
(* The pictures of a sticker pack. *)

Growing  == {r \in Two : Pictured!Doing(r, "add")}
Used(p) == {i \in Pictured!Active : item[i].asset = p}
InCover(p) == IF cover = p THEN 1 ELSE 0

PicturesTyped ==
  /\ item \in [Three -> PictureItem \cup {None}] /\ cover \in Two \cup {None}
  /\ picturesRefs \in [Two -> Nat] /\ picturesRequest \in [Two -> PictureSlot \cup {None}]
  /\ picturesCrossed \in BOOLEAN /\ again \in BOOLEAN

OfItsKind ==
  \A r \in Two :
    /\ Pictured!Doing(r, "add") \/ Pictured!Doing(r, "cover") => picturesRequest[r].of \in Two
    /\ Pictured!Doing(r, "drop") =>
         picturesRequest[r].of \in Three /\ item[picturesRequest[r].of] # None

Counted ==
  ~ picturesCrossed =>
    \A p \in Two : /\ picturesRefs[p] >= Cardinality(Used(p)) + InCover(p)
                   /\ again \/ picturesRefs[p] = Cardinality(Used(p)) + InCover(p)

RoomLeft == Cardinality(Pictured!Active) + Cardinality(Growing) <= MaxItems + Cardinality(Two) - 1

PicturesInv == PicturesTyped /\ OfItsKind /\ Counted /\ RoomLeft

LEMMA PacksInit == Init => PacksInv
<1> SUFFICES ASSUME Init PROVE PacksInv
  OBVIOUS
<1>1. /\ pack = [status |-> "none", soft |-> FALSE] /\ others = 0
      /\ library = [u \in Users |-> None] /\ packsRequest = [r \in Two |-> None]
      /\ withdrawn = FALSE /\ packsCrossed = FALSE /\ over = FALSE
  BY DEF Init, Packs!Init
<1>2. PacksTyped /\ NotCreated /\ SeenBanned /\ InstallsForUsers /\ WithdrawnIsMarked
  BY <1>1 DEF PacksTyped, PackRow, NotCreated, SeenBanned, InstallsForUsers, WithdrawnIsMarked, Asks
<1>3. PacksCount
  <2>1. Creating = {}
    BY <1>1 DEF Creating, Asks
  <2>2. Packs!Owned = 0 /\ pack.status = "none"
    BY <1>1 DEF Packs!Owned
  <2>3. Cardinality(Two) \in Nat
    BY FiniteNames, FS_CardinalityType
  <2> QED BY <2>1, <2>2, <2>3, FS_EmptySet, BoundsAreNumbers DEF PacksCount
<1>4. Packs!InstalledWhileInUse
  BY <1>1, NoneIsNoValue DEF Packs!InstalledWhileInUse, Names
<1> QED BY <1>2, <1>3, <1>4 DEF PacksInv

LEMMA PacksSizes ==
  /\ IsFiniteSet(Creating) /\ Cardinality(Creating) \in Nat /\ Cardinality(Two) \in Nat
  /\ \A r \in Two \ Creating :
       /\ Cardinality(Creating \cup {r}) = Cardinality(Creating) + 1
       /\ Cardinality(Creating \cup {r}) <= Cardinality(Two)
       /\ Reviving # {} => r \in Reviving \/ Cardinality(Creating \cup {r}) + 1 <= Cardinality(Two)
  /\ \A r \in Creating : Cardinality(Creating \ {r}) = Cardinality(Creating) - 1
<1>0. Creating \subseteq Two /\ Reviving \subseteq Two /\ Reviving \cap Creating = {}
  BY DEF Creating, Reviving, Asks
<1>1. IsFiniteSet(Creating) /\ Cardinality(Creating) \in Nat /\ Cardinality(Two) \in Nat
  BY <1>0, FiniteNames, FS_Subset, FS_CardinalityType
<1>2. ASSUME NEW r \in Two \ Creating
      PROVE  /\ Cardinality(Creating \cup {r}) = Cardinality(Creating) + 1
             /\ Cardinality(Creating \cup {r}) <= Cardinality(Two)
             /\ Reviving # {} => r \in Reviving \/ Cardinality(Creating \cup {r}) + 1 <= Cardinality(Two)
  <2>1. Cardinality(Creating \cup {r}) = Cardinality(Creating) + 1 /\ IsFiniteSet(Creating \cup {r})
    BY <1>1, FS_AddElement
  <2>2. Creating \cup {r} \in SUBSET Two
    BY <1>0
  <2>3. Cardinality(Creating \cup {r}) <= Cardinality(Two)
    BY <2>2, FiniteNames, FS_Subset
  <2>4. ASSUME Reviving # {}, r \notin Reviving
        PROVE  Cardinality(Creating \cup {r}) + 1 <= Cardinality(Two)
    <3>1. PICK q \in Reviving : q \notin Creating \cup {r}
      BY <1>0, <2>4
    <3> DEFINE S == Creating \cup {r}
    <3>2. IsFiniteSet(S) /\ q \notin S /\ S \cup {q} \in SUBSET Two
      BY <1>0, <2>1, <2>2, <3>1
    <3> HIDE DEF S
    <3>3. Cardinality(S \cup {q}) = Cardinality(S) + 1
      BY <3>2, FS_AddElement
    <3>4. Cardinality(S \cup {q}) <= Cardinality(Two)
      BY <3>2, FiniteNames, FS_Subset
    <3> QED BY <3>3, <3>4 DEF S
  <2> QED BY <2>1, <2>3, <2>4
<1>3. ASSUME NEW r \in Creating PROVE Cardinality(Creating \ {r}) = Cardinality(Creating) - 1
  BY <1>1, FS_RemoveElement
<1> QED BY <1>1, <1>2, <1>3

LEMMA PacksBegins ==
  ASSUME PacksInv, NEW r \in Two, NEW does \in {"create", "soft", "restore", "ban", "unban", "purge", "install"},
         NEW u \in Users \cup {None}, Packs!Begins(r, does, u),
         does # "create" => pack.status # "none",
         does = "create" => Packs!Owned < MaxPacks,
         does = "unban" => pack.status = "banned",
         does = "install" => u \in Users,
         does \in {"soft", "restore", "ban", "unban"} => pack.status # "purged"
  PROVE  PacksInv'
<1> USE NoneIsNoValue
<1> DEFINE k == [step |-> does, user |-> u, seen |-> pack, over |-> over]
<1>1. PacksTyped /\ NotCreated /\ SeenBanned /\ InstallsForUsers /\ WithdrawnIsMarked /\ PacksCount
      /\ Packs!InstalledWhileInUse
  BY DEF PacksInv
<1>2. /\ packsRequest[r] = None /\ packsRequest' = [packsRequest EXCEPT ![r] = k]
      /\ UNCHANGED <<pack, others, library, withdrawn, packsCrossed, packsLate>>
  BY DEF Packs!Begins
<1>3. k \in PackSlot /\ k # None
  BY <1>1 DEF PackSlot, PacksTyped
<1>4. /\ packsRequest'[r] = k /\ \A q \in Two \ {r} : packsRequest'[q] = packsRequest[q]
  BY <1>1, <1>2 DEF PacksTyped
<1>5. k.step = does /\ k.seen = pack /\ k.user = u
  OBVIOUS
<1> HIDE DEF k
<1>7. PacksTyped'
  BY <1>1, <1>2, <1>3 DEF PacksTyped, Packs!Begins
<1>8. NotCreated'
  BY <1>1, <1>2, <1>4, <1>5 DEF NotCreated
<1>9. SeenBanned' /\ InstallsForUsers'
  BY <1>1, <1>4, <1>5 DEF SeenBanned, InstallsForUsers, Asks
<1>10. WithdrawnIsMarked' /\ Packs!InstalledWhileInUse'
  BY <1>1, <1>2 DEF WithdrawnIsMarked, Packs!InstalledWhileInUse
<1>11. PacksCount'
  <2>1. Packs!Owned' = Packs!Owned /\ Packs!Owned \in Nat
    BY <1>1, <1>2 DEF Packs!Owned, PacksTyped
  <2>2. CASE does = "create"
    <3>1. Creating' = Creating \cup {r} /\ r \notin Creating /\ Reviving' = Reviving /\ r \notin Reviving
      BY <1>2, <1>3, <1>4, <1>5, <2>2 DEF Creating, Reviving, Asks
    <3> QED BY <1>2, <2>1, <2>2, <3>1, PacksSizes, BoundsAreNumbers DEF PacksCount
  <2>3. CASE does # "create"
    <3>1. Creating' = Creating
      BY <1>2, <1>3, <1>4, <1>5, <2>3 DEF Creating, Asks
    <3>2. pack.status = "purged" => Reviving' = Reviving
      BY <1>2, <1>3, <1>4, <1>5 DEF Reviving, Asks
    <3> QED BY <1>1, <1>2, <2>1, <3>1, <3>2 DEF PacksCount
  <2> QED BY <2>2, <2>3
<1> QED BY <1>7, <1>8, <1>9, <1>10, <1>11 DEF PacksInv

\* A handler that has read the row writes its status.
LEMMA PacksEnds ==
  ASSUME PacksInv, NEW r \in Two, NEW does \in {"soft", "restore", "ban", "unban", "purge"},
         NEW status0 \in {"active", "soft", "expired", "banned", "purged"}, NEW soft0 \in BOOLEAN,
         does = "purge" <=> status0 = "purged",
         Packs!Ends(r, does, status0, soft0), over' \in BOOLEAN, withdrawn' \in BOOLEAN,
         library' \in [Users -> {"active", "hidden", None}]
  PROVE  /\ PacksTyped' /\ NotCreated' /\ SeenBanned' /\ InstallsForUsers' /\ PacksCount'
         /\ pack' = [status |-> status0, soft |-> soft0]
         /\ ~ packsCrossed' => ~ packsCrossed /\ pack = packsRequest[r].seen
         /\ packsLate' = packsLate
         /\ Asks(r, does)
<1> USE NoneIsNoValue
<1>1. PacksTyped /\ NotCreated /\ SeenBanned /\ InstallsForUsers /\ PacksCount
  BY DEF PacksInv
<1>2. /\ packsRequest[r] # None /\ packsRequest[r].step = does
      /\ packsRequest' = [packsRequest EXCEPT ![r] = None]
      /\ pack' = [status |-> status0, soft |-> soft0]
      /\ packsCrossed' = (packsCrossed \/ pack # packsRequest[r].seen)
      /\ UNCHANGED <<others, packsLate>>
  BY DEF Packs!Ends
<1>3. packsRequest'[r] = None /\ \A q \in Two \ {r} : packsRequest'[q] = packsRequest[q]
  BY <1>1, <1>2 DEF PacksTyped
<1>4. pack'.status = status0 /\ pack' \in PackRow
  BY <1>2 DEF PackRow
<1>5. PacksTyped'
  <2>1. packsCrossed' \in BOOLEAN
    BY <1>2
  <2> QED BY <1>1, <1>2, <1>4, <2>1 DEF PacksTyped
<1>6. NotCreated'
  BY <1>4 DEF NotCreated
<1>7. SeenBanned' /\ InstallsForUsers'
  BY <1>1, <1>3 DEF SeenBanned, InstallsForUsers, Asks
<1>8. PacksCount'
  <2>1. Creating' = Creating /\ Reviving' = Reviving \ {r} /\ (does # "purge" => r \in Reviving)
    BY <1>2, <1>3 DEF Creating, Reviving, Asks
  <2>2. pack.status # "none"
    BY <1>1, <1>2 DEF NotCreated
  <2>3. /\ Packs!Owned = others + (IF pack.status = "purged" THEN 0 ELSE 1)
        /\ Packs!Owned' = others + (IF status0 = "purged" THEN 0 ELSE 1)
    BY <1>2, <1>4, <2>2 DEF Packs!Owned
  <2>4. others \in Nat
    BY <1>1 DEF PacksTyped
  <2>5. /\ Cardinality(Creating) \in Nat /\ Cardinality(Two) \in Nat /\ MaxPacks \in Nat
    BY PacksSizes, BoundsAreNumbers
  <2>6. CASE status0 = "purged"
    <3>1. pack.status = "purged" /\ Reviving' # {} => Reviving # {}
      BY <2>1
    <3> QED BY <1>1, <1>4, <2>1, <2>3, <2>4, <2>5, <2>6, <3>1 DEF PacksCount
  <2>7. CASE status0 # "purged"
    <3>1. Reviving # {}
      BY <2>1, <2>7
    <3> QED BY <1>1, <1>4, <2>1, <2>3, <2>4, <2>5, <2>7, <3>1 DEF PacksCount
  <2> QED BY <2>6, <2>7
<1> QED BY <1>2, <1>5, <1>6, <1>7, <1>8 DEF Asks

LEMMA PacksNext == PacksInv /\ [Next]_vars => PacksInv'
<1> SUFFICES ASSUME PacksInv, [Next]_vars PROVE PacksInv'
  OBVIOUS
<1> USE NoneIsNoValue
<1>a. PacksTyped /\ NotCreated
  BY DEF PacksInv
<1>b. SeenBanned /\ InstallsForUsers
  BY DEF PacksInv
<1>c. WithdrawnIsMarked /\ Packs!InstalledWhileInUse
  BY DEF PacksInv
<1>d. PacksCount
  BY DEF PacksInv
<1>e. None \in Users \cup {None}
  OBVIOUS
<1>1. ASSUME NEW r \in Two,
             \/ Packs!CreatePack(r) \/ Packs!SoftDeletePack(r) \/ Packs!RestorePack(r)
             \/ Packs!AdminGlobalBan(r) \/ Packs!AdminGlobalUnban(r) \/ Packs!AdminPurgePack(r)
      PROVE  PacksInv'
  <2>1. CASE Packs!CreatePack(r)
    BY <1>e, <2>1, PacksBegins DEF Packs!CreatePack
  <2>2. CASE Packs!SoftDeletePack(r)
    BY <1>e, <2>2, PacksBegins DEF Packs!SoftDeletePack
  <2>3. CASE Packs!RestorePack(r)
    BY <1>e, <2>3, PacksBegins DEF Packs!RestorePack
  <2>4. CASE Packs!AdminGlobalBan(r)
    BY <1>e, <2>4, PacksBegins DEF Packs!AdminGlobalBan
  <2>5. CASE Packs!AdminGlobalUnban(r)
    BY <1>e, <2>5, PacksBegins DEF Packs!AdminGlobalUnban
  <2>6. CASE Packs!AdminPurgePack(r)
    BY <1>e, <2>6, PacksBegins DEF Packs!AdminPurgePack
  <2> QED BY <1>1, <2>1, <2>2, <2>3, <2>4, <2>5, <2>6
<1>2. ASSUME NEW r \in Two, NEW u \in Users, Packs!InstallPack(r, u) PROVE PacksInv'
  <2>1. pack.status = "active" /\ Packs!Begins(r, "install", u) /\ u \in Users \cup {None}
    BY <1>2 DEF Packs!InstallPack, Packs!CanInstall
  <2> QED BY <2>1, PacksBegins
<1>3. ASSUME NEW r \in Two, Packs!CreateWrites(r) PROVE PacksInv'
  <2>1. /\ Asks(r, "create") /\ packsRequest' = [packsRequest EXCEPT ![r] = None]
        /\ UNCHANGED <<over, library, withdrawn, packsCrossed, packsLate>>
    BY <1>3 DEF Packs!CreateWrites, Asks
  <2>2. packsRequest'[r] = None /\ \A q \in Two \ {r} : packsRequest'[q] = packsRequest[q]
    BY <1>a, <2>1 DEF PacksTyped
  <2>3. \/ /\ pack.status = "none" /\ pack'.status = "active" /\ pack' \in PackRow
           /\ pack'.soft = pack.soft /\ others' = others
        \/ pack.status # "none" /\ others' = others + 1 /\ pack' = pack
    BY <1>3, <1>a DEF Packs!CreateWrites, PacksTyped, PackRow
  <2>4. PacksTyped'
    BY <1>a, <2>1, <2>3 DEF PacksTyped
  <2>5. NotCreated'
    BY <2>3 DEF NotCreated
  <2>6. SeenBanned' /\ InstallsForUsers'
    BY <1>b, <2>2 DEF SeenBanned, InstallsForUsers, Asks
  <2>7. WithdrawnIsMarked' /\ Packs!InstalledWhileInUse'
    BY <1>a, <1>c, <2>1, <2>3 DEF WithdrawnIsMarked, NotCreated, Packs!InstalledWhileInUse, Names
  <2>8. PacksCount'
    <3>1. Creating' = Creating \ {r} /\ r \in Creating /\ Reviving' = Reviving
      BY <2>1, <2>2 DEF Creating, Reviving, Asks
    <3>2. Packs!Owned' = Packs!Owned + 1 /\ Packs!Owned \in Nat
      BY <1>a, <2>3 DEF Packs!Owned, PacksTyped
    <3>3. pack'.status = "purged" <=> pack.status = "purged"
      BY <2>3
    <3> QED BY <1>d, <3>1, <3>2, <3>3, PacksSizes, BoundsAreNumbers DEF PacksCount
  <2> QED BY <2>4, <2>5, <2>6, <2>7, <2>8 DEF PacksInv
<1>4. ASSUME NEW r \in Two, Packs!SoftDeleteWrites(r) PROVE PacksInv'
  <2>1. /\ Packs!Ends(r, "soft", "soft", TRUE) /\ over' = FALSE /\ withdrawn' = TRUE
        /\ library' = [u \in Users |-> IF library[u] = "active" THEN "hidden" ELSE library[u]]
    BY <1>4 DEF Packs!SoftDeleteWrites, Packs!Become
  <2>2. library' \in [Users -> {"active", "hidden", None}]
    BY <1>a, <2>1 DEF PacksTyped
  <2>3. /\ PacksTyped' /\ NotCreated' /\ SeenBanned' /\ InstallsForUsers' /\ PacksCount'
        /\ pack' = [status |-> "soft", soft |-> TRUE]
    BY <2>1, <2>2, PacksEnds
  <2>4. \A u \in Users : library'[u] # "active"
    BY <1>a, <2>1 DEF PacksTyped
  <2>5. pack'.status = "soft" /\ pack'.soft
    BY <2>3
  <2>6. WithdrawnIsMarked' /\ Packs!InstalledWhileInUse'
    BY <2>4, <2>5 DEF WithdrawnIsMarked, Packs!InstalledWhileInUse
  <2> QED BY <2>3, <2>6 DEF PacksInv
<1>5. ASSUME NEW r \in Two, Packs!RestoreWrites(r) PROVE PacksInv'
  <2>1. /\ Packs!Ends(r, "restore", "active", FALSE) /\ over' = FALSE /\ withdrawn' = FALSE
        /\ library' = [u \in Users |-> IF library[u] = "hidden" THEN "active" ELSE library[u]]
    BY <1>5 DEF Packs!RestoreWrites, Packs!Unhide, Packs!Become
  <2>2. library' \in [Users -> {"active", "hidden", None}]
    BY <1>a, <2>1 DEF PacksTyped
  <2>3. /\ PacksTyped' /\ NotCreated' /\ SeenBanned' /\ InstallsForUsers' /\ PacksCount'
        /\ pack' = [status |-> "active", soft |-> FALSE]
    BY <2>1, <2>2, PacksEnds
  <2>4. \A u \in Users : library'[u] # "hidden"
    BY <1>a, <2>1 DEF PacksTyped
  <2>5. pack'.status = "active"
    BY <2>3
  <2>6. WithdrawnIsMarked' /\ Packs!InstalledWhileInUse'
    BY <2>1, <2>4, <2>5 DEF WithdrawnIsMarked, Packs!InstalledWhileInUse
  <2> QED BY <2>3, <2>6 DEF PacksInv
<1>6. ASSUME NEW r \in Two, Packs!BanWrites(r) PROVE PacksInv'
  <2>1. /\ Packs!Ends(r, "ban", "banned", pack.soft) /\ UNCHANGED <<over, withdrawn>>
        /\ library' = [u \in Users |-> IF library[u] = None THEN None ELSE "hidden"]
    BY <1>6 DEF Packs!BanWrites
  <2>2. library' \in [Users -> {"active", "hidden", None}] /\ pack.soft \in BOOLEAN
        /\ over' \in BOOLEAN /\ withdrawn' \in BOOLEAN
    BY <1>a, <2>1 DEF PacksTyped, PackRow
  <2>3. /\ PacksTyped' /\ NotCreated' /\ SeenBanned' /\ InstallsForUsers' /\ PacksCount'
        /\ pack' = [status |-> "banned", soft |-> pack.soft]
        /\ ~ packsCrossed' => ~ packsCrossed
    BY <2>1, <2>2, PacksEnds
  <2>4. \A u \in Users : library'[u] # "active"
    BY <2>1 DEF Names
  <2>5. pack'.status = "banned" /\ pack'.soft = pack.soft
    BY <2>3
  <2>6. WithdrawnIsMarked' /\ Packs!InstalledWhileInUse'
    BY <1>c, <2>1, <2>3, <2>4, <2>5 DEF WithdrawnIsMarked, Packs!InstalledWhileInUse
  <2> QED BY <2>3, <2>6 DEF PacksInv
<1>7. ASSUME NEW r \in Two, Packs!PurgeWrites(r) PROVE PacksInv'
  <2>1. /\ Packs!Ends(r, "purge", "purged", pack.soft) /\ UNCHANGED <<over, withdrawn>>
        /\ library' = [u \in Users |-> None]
    BY <1>7 DEF Packs!PurgeWrites
  <2>2. library' \in [Users -> {"active", "hidden", None}] /\ pack.soft \in BOOLEAN
        /\ over' \in BOOLEAN /\ withdrawn' \in BOOLEAN
    BY <1>a, <2>1 DEF PacksTyped, PackRow
  <2>3. /\ PacksTyped' /\ NotCreated' /\ SeenBanned' /\ InstallsForUsers' /\ PacksCount'
        /\ pack' = [status |-> "purged", soft |-> pack.soft]
        /\ ~ packsCrossed' => ~ packsCrossed
    BY <2>1, <2>2, PacksEnds
  <2>4. \A u \in Users : library'[u] # "active"
    BY <2>1 DEF Names
  <2>5. pack'.status = "purged" /\ pack'.soft = pack.soft
    BY <2>3
  <2>6. WithdrawnIsMarked' /\ Packs!InstalledWhileInUse'
    BY <1>c, <2>1, <2>3, <2>4, <2>5 DEF WithdrawnIsMarked, Packs!InstalledWhileInUse
  <2> QED BY <2>3, <2>6 DEF PacksInv
<1>8. ASSUME NEW r \in Two, Packs!UnbanWrites(r) PROVE PacksInv'
  <2> DEFINE next == Packs!StatusAfter(packsRequest[r].seen, packsRequest[r].over)
  <2>1. /\ Packs!Ends(r, "unban", next, pack.soft) /\ UNCHANGED <<over, withdrawn>>
        /\ library' = IF next = "active"
                      THEN [u \in Users |-> IF library[u] = "hidden" THEN "active" ELSE library[u]]
                      ELSE library
    BY <1>8 DEF Packs!UnbanWrites, Packs!Unhide, Packs!Become
  <2>2. library' \in [Users -> {"active", "hidden", None}] /\ pack.soft \in BOOLEAN
        /\ over' \in BOOLEAN /\ withdrawn' \in BOOLEAN
    BY <1>a, <2>1 DEF PacksTyped, PackRow
  <2>3. next \in {"active", "soft", "expired"} /\ (next = "active" <=> ~ packsRequest[r].seen.soft)
    BY DEF Packs!StatusAfter
  <2> HIDE DEF next
  <2>4. /\ PacksTyped' /\ NotCreated' /\ SeenBanned' /\ InstallsForUsers' /\ PacksCount'
        /\ pack' = [status |-> next, soft |-> pack.soft] /\ packsLate' = packsLate
        /\ ~ packsCrossed' => ~ packsCrossed /\ pack = packsRequest[r].seen
        /\ Asks(r, "unban")
    BY <2>1, <2>2, <2>3, PacksEnds
  <2>5. pack'.status = next /\ pack'.soft = pack.soft
    BY <2>4
  <2>6. ~ packsCrossed' => ~ packsCrossed /\ pack.status = "banned" /\ (next = "active" <=> ~ pack.soft)
    BY <1>b, <2>3, <2>4 DEF SeenBanned
  <2>7. next = "active" => \A u \in Users : library'[u] # "hidden"
    BY <1>a, <2>1 DEF PacksTyped
  <2>8. WithdrawnIsMarked'
    BY <1>c, <2>1, <2>5, <2>6 DEF WithdrawnIsMarked
  <2>9. Packs!InstalledWhileInUse'
    <3>1. pack'.status # "active" /\ ~ packsCrossed' =>
            {u \in Users : library'[u] = "active"} \subseteq packsLate'
      BY <1>c, <2>1, <2>4, <2>5, <2>6 DEF Packs!InstalledWhileInUse
    <3>2. withdrawn' /\ ~ packsCrossed' => pack'.status # "active"
      BY <1>c, <2>1, <2>5, <2>6 DEF WithdrawnIsMarked
    <3> QED BY <2>5, <2>7, <3>1, <3>2 DEF Packs!InstalledWhileInUse
  <2> QED BY <2>4, <2>8, <2>9 DEF PacksInv
<1>9. ASSUME NEW r \in Two, Packs!InstallWrites(r) PROVE PacksInv'
  <2> DEFINE u == packsRequest[r].user
  <2>1. /\ Asks(r, "install") /\ packsRequest' = [packsRequest EXCEPT ![r] = None]
        /\ library' = [library EXCEPT ![u] = "active"]
        /\ packsLate' = IF pack.status = "active" THEN packsLate \ {u} ELSE packsLate \cup {u}
        /\ UNCHANGED <<pack, others, over, withdrawn, packsCrossed>>
    BY <1>9 DEF Packs!InstallWrites, Asks
  <2>2. packsRequest'[r] = None /\ \A q \in Two \ {r} : packsRequest'[q] = packsRequest[q]
    BY <1>a, <2>1 DEF PacksTyped
  <2>3. u \in Users /\ pack.status # "none"
    BY <1>a, <1>b, <2>1 DEF InstallsForUsers, NotCreated, Asks
  <2> HIDE DEF u
  <2>4. PacksTyped'
    BY <1>a, <2>1, <2>3 DEF PacksTyped
  <2>5. NotCreated' /\ SeenBanned' /\ InstallsForUsers'
    BY <1>b, <2>1, <2>2, <2>3 DEF NotCreated, SeenBanned, InstallsForUsers, Asks
  <2>6. WithdrawnIsMarked' /\ Packs!InstalledWhileInUse'
    BY <1>a, <1>c, <2>1, <2>3 DEF PacksTyped, WithdrawnIsMarked, Packs!InstalledWhileInUse
  <2>7. PacksCount'
    <3>1. Creating' = Creating /\ Reviving' = Reviving
      BY <2>1, <2>2 DEF Creating, Reviving, Asks
    <3>2. Packs!Owned' = Packs!Owned
      BY <2>1 DEF Packs!Owned
    <3> QED BY <1>d, <2>1, <3>1, <3>2 DEF PacksCount
  <2> QED BY <2>4, <2>5, <2>6, <2>7 DEF PacksInv
<1>10. ASSUME \/ \E u \in Users : Packs!UninstallPack(u)
              \/ Packs!PatchPack \/ Packs!BanGuildPack \/ Packs!DeadlinePasses
              \/ Packs!RefreshSoftDeleteStatus \/ UNCHANGED packsVars
       PROVE  PacksInv'
  <2>1. /\ UNCHANGED <<packsRequest, others, withdrawn, packsCrossed, packsLate>> /\ over' \in BOOLEAN
        /\ pack' = pack \/ (pack.status = "soft" /\ pack'.status = "expired"
                            /\ pack' \in PackRow /\ pack'.soft = pack.soft)
        /\ library' = library \/ \E u \in Users : library' = [library EXCEPT ![u] = None]
    BY <1>10, <1>a
       DEF Packs!UninstallPack, Packs!PatchPack, Packs!BanGuildPack, Packs!DeadlinePasses,
       Packs!RefreshSoftDeleteStatus, packsVars, PacksTyped, PackRow
  <2>2. PacksTyped'
    BY <1>a, <2>1 DEF PacksTyped
  <2>3. NotCreated' /\ SeenBanned' /\ InstallsForUsers'
    BY <1>a, <1>b, <2>1 DEF NotCreated, SeenBanned, InstallsForUsers, Asks, PacksTyped
  <2>4. WithdrawnIsMarked'
    BY <1>c, <2>1 DEF WithdrawnIsMarked
  <2>5. \A u \in Users : library'[u] = library[u] \/ library'[u] = None
    BY <1>a, <2>1 DEF PacksTyped
  <2>6. Packs!InstalledWhileInUse'
    BY <1>c, <2>1, <2>5 DEF Packs!InstalledWhileInUse, Names
  <2>7. PacksCount'
    <3>1. Creating' = Creating /\ Reviving' = Reviving
      BY <2>1 DEF Creating, Reviving, Asks
    <3>2. Packs!Owned' = Packs!Owned
      BY <2>1 DEF Packs!Owned
    <3>3. pack'.status = "purged" <=> pack.status = "purged"
      BY <2>1
    <3> QED BY <1>d, <3>1, <3>2, <3>3 DEF PacksCount
  <2> QED BY <2>2, <2>3, <2>4, <2>6, <2>7 DEF PacksInv
<1>11. CASE Packs!Next
  <2>1. CASE \E r \in Two : \/ Packs!CreatePack(r) \/ Packs!SoftDeletePack(r) \/ Packs!RestorePack(r)
             \/ Packs!AdminGlobalBan(r) \/ Packs!AdminGlobalUnban(r) \/ Packs!AdminPurgePack(r)
    BY <2>1, <1>1
  <2>2. CASE \E r \in Two, u \in Users : Packs!InstallPack(r, u)
    BY <2>2, <1>2
  <2>3. CASE \E r \in Two : \/ Packs!CreateWrites(r) \/ Packs!SoftDeleteWrites(r) \/ Packs!RestoreWrites(r)
             \/ Packs!BanWrites(r) \/ Packs!PurgeWrites(r) \/ Packs!UnbanWrites(r) \/ Packs!InstallWrites(r)
    BY <2>3, <1>3, <1>4, <1>5, <1>6, <1>7, <1>8, <1>9
  <2>4. CASE \/ \E u \in Users : Packs!UninstallPack(u)
             \/ Packs!PatchPack \/ Packs!BanGuildPack \/ Packs!DeadlinePasses
             \/ Packs!RefreshSoftDeleteStatus
    BY <2>4, <1>10
  <2> QED BY <1>11, <2>1, <2>2, <2>3, <2>4 DEF Packs!Next
<1>12. CASE UNCHANGED packsVars
  BY <1>10, <1>12
<1> QED BY <1>11, <1>12 DEF Next, vars

LEMMA PacksHold == PacksInv => Packs!PacksAreTrue
<1> SUFFICES ASSUME PacksInv PROVE Packs!PacksAreTrue
  OBVIOUS
<1>1. Packs!InstalledWhileInUse
  BY DEF PacksInv
<1>2. Packs!ListedIsSent
  <2> SUFFICES ASSUME NEW ctx \in Packs!Contexts
               PROVE  /\ \A u \in Users \cup {None} :
                           Packs!ItemAvailableForSend(u, ctx) <=> Packs!ListAvailablePackIDs(u, ctx) # {}
                      /\ \A u \in Users : Packs!GetPack(u, ctx).install =>
                           Packs!GetPack(u, ctx).items /\ Packs!ItemAvailableForSend(None, Packs!Where(ctx))
    BY DEF Packs!ListedIsSent
  <2>1. ASSUME NEW u \in Users \cup {None}
        PROVE  Packs!ItemAvailableForSend(u, ctx) <=> Packs!ListAvailablePackIDs(u, ctx) # {}
    BY DEF Packs!ItemAvailableForSend, Packs!ListAvailablePackIDs
  <2>2. ASSUME NEW u \in Users, Packs!GetPack(u, ctx).install
        PROVE  Packs!GetPack(u, ctx).items /\ Packs!ItemAvailableForSend(None, Packs!Where(ctx))
    BY <2>2
       DEF Packs!GetPack, Packs!CanInstall, Packs!ItemAvailableForSend, Packs!ScopeAllowsContext,
           Packs!Where
  <2> QED BY <2>1, <2>2
<1>3. Packs!PacksLimited
  <2>1. Packs!Owned \in Nat
    BY DEF PacksInv, PacksTyped, Packs!Owned
  <2>2. Packs!Cardinality(Two) = Cardinality(Two)
    BY DEF Cardinality, Packs!Cardinality
  <2> QED BY <2>1, <2>2, PacksSizes, BoundsAreNumbers DEF PacksInv, PacksCount, Packs!PacksLimited
<1> QED BY <1>1, <1>2, <1>3 DEF Packs!PacksAreTrue

LEMMA PicturesInit == Init => PicturesInv
<1> SUFFICES ASSUME Init PROVE PicturesInv
  OBVIOUS
<1>1. /\ item = [i \in Three |-> None] /\ cover = None /\ picturesRefs = [p \in Two |-> 0]
      /\ picturesRequest = [r \in Two |-> None] /\ picturesCrossed = FALSE /\ again = FALSE
  BY DEF Init, Pictured!Init
<1>2. PicturesTyped /\ OfItsKind
  BY <1>1 DEF PicturesTyped, OfItsKind, Pictured!Doing
<1>3. Pictured!Active = {} /\ Growing = {} /\ \A p \in Two : Used(p) = {} /\ InCover(p) = 0
  BY <1>1, NoneIsNoValue DEF Pictured!Active, Growing, Pictured!Doing, Used, InCover
<1>4. Cardinality(Two) \in Nat /\ Cardinality({}) = 0
  BY FiniteNames, FS_CardinalityType, FS_EmptySet
<1>5. Counted
  BY <1>1, <1>3, <1>4 DEF Counted
<1>6. RoomLeft
  BY <1>3, <1>4, BoundsAreNumbers DEF RoomLeft
<1> QED BY <1>2, <1>5, <1>6 DEF PicturesInv

LEMMA PictureSizes ==
  /\ IsFiniteSet(Growing) /\ Cardinality(Growing) \in Nat /\ Cardinality(Two) \in Nat
  /\ IsFiniteSet(Pictured!Active) /\ Cardinality(Pictured!Active) \in Nat
  /\ \A p : IsFiniteSet(Used(p)) /\ Cardinality(Used(p)) \in Nat
  /\ \A r \in Two \ Growing : /\ Cardinality(Growing \cup {r}) = Cardinality(Growing) + 1
                              /\ Cardinality(Growing \cup {r}) <= Cardinality(Two)
  /\ \A r \in Growing : Cardinality(Growing \ {r}) = Cardinality(Growing) - 1
<1>0. Growing \subseteq Two /\ Pictured!Active \subseteq Three /\ \A p : Used(p) \subseteq Three
  BY DEF Growing, Pictured!Active, Used
<1>1. /\ IsFiniteSet(Growing) /\ Cardinality(Growing) \in Nat /\ Cardinality(Two) \in Nat
      /\ IsFiniteSet(Pictured!Active) /\ Cardinality(Pictured!Active) \in Nat
  BY <1>0, FiniteNames, FS_Subset, FS_CardinalityType
<1>2. ASSUME NEW p PROVE IsFiniteSet(Used(p)) /\ Cardinality(Used(p)) \in Nat
  BY <1>0, FiniteNames, FS_Subset, FS_CardinalityType
<1>3. ASSUME NEW r \in Two \ Growing
      PROVE /\ Cardinality(Growing \cup {r}) = Cardinality(Growing) + 1
            /\ Cardinality(Growing \cup {r}) <= Cardinality(Two)
  <2>1. Growing \cup {r} \in SUBSET Two
    BY <1>0
  <2> QED BY <1>1, <2>1, FiniteNames, FS_AddElement, FS_Subset
<1>4. ASSUME NEW r \in Growing PROVE Cardinality(Growing \ {r}) = Cardinality(Growing) - 1
  BY <1>1, FS_RemoveElement
<1> QED BY <1>1, <1>2, <1>3, <1>4

LEMMA SameSize == ASSUME NEW S PROVE Pictured!Cardinality(S) = Cardinality(S)
  BY DEF Cardinality, Pictured!Cardinality

\* What the release of a picture leaves of its count.
LEMMA Released ==
  ASSUME NEW counts \in [Two -> Nat], NEW p \in Two \cup {None}
  PROVE  /\ Pictured!ReleaseAsset(counts, p) \in [Two -> Nat]
         /\ \A q \in Two : Pictured!ReleaseAsset(counts, p)[q] =
                             IF q = p /\ counts[q] > 0 THEN counts[q] - 1 ELSE counts[q]
  BY NoneIsNoValue DEF Pictured!ReleaseAsset, Pictured!Less

LEMMA PicturesBegin ==
  ASSUME PicturesInv, NEW r \in Two, NEW does \in {"add", "drop", "cover", "clear", "purge"}, NEW of,
         Pictured!Begins(r, does, of),
         does \in {"add", "cover"} => of \in Two,
         does \in {"clear", "purge"} => of = None,
         does = "drop" => of \in Three /\ item[of] # None,
         does = "add" => Cardinality(Pictured!Active) < MaxItems
  PROVE  PicturesInv'
<1> USE NoneIsNoValue
<1> DEFINE k == [step |-> does, of |-> of, was |-> cover]
<1>1. PicturesTyped /\ OfItsKind /\ Counted /\ RoomLeft
  BY DEF PicturesInv
<1>2. /\ picturesRequest[r] = None /\ picturesRequest' = [picturesRequest EXCEPT ![r] = k]
      /\ UNCHANGED <<item, cover, picturesRefs, picturesCrossed, again>>
  BY DEF Pictured!Begins
<1>3. k \in PictureSlot /\ k # None
  BY <1>1 DEF PictureSlot, PicturesTyped
<1>4. picturesRequest'[r] = k /\ \A q \in Two \ {r} : picturesRequest'[q] = picturesRequest[q]
  BY <1>1, <1>2 DEF PicturesTyped
<1>5. k.step = does /\ k.of = of
  OBVIOUS
<1> HIDE DEF k
<1>6. PicturesTyped'
  BY <1>1, <1>2, <1>3 DEF PicturesTyped
<1>7. OfItsKind'
  BY <1>1, <1>2, <1>4, <1>5 DEF OfItsKind, Pictured!Doing
<1>8. Pictured!Active' = Pictured!Active /\ \A p : Used(p)' = Used(p) /\ InCover(p)' = InCover(p)
  BY <1>2 DEF Pictured!Active, Used, InCover
<1>9. Counted'
  BY <1>1, <1>2, <1>8 DEF Counted
<1>10. RoomLeft'
  <2>1. CASE does = "add"
    <3>1. Growing' = Growing \cup {r} /\ r \notin Growing
      BY <1>2, <1>3, <1>4, <1>5, <2>1 DEF Growing, Pictured!Doing
    <3> QED BY <1>8, <2>1, <3>1, PictureSizes, BoundsAreNumbers DEF RoomLeft
  <2>2. CASE does # "add"
    <3>1. Growing' = Growing
      BY <1>2, <1>3, <1>4, <1>5, <2>2 DEF Growing, Pictured!Doing
    <3> QED BY <1>1, <1>8, <3>1 DEF RoomLeft
  <2> QED BY <2>1, <2>2
<1> QED BY <1>6, <1>7, <1>9, <1>10 DEF PicturesInv

LEMMA PicturesNext == PicturesInv /\ [Next]_vars => PicturesInv'
<1> SUFFICES ASSUME PicturesInv, [Next]_vars PROVE PicturesInv'
  OBVIOUS
<1> USE NoneIsNoValue
<1>a. PicturesTyped /\ OfItsKind
  BY DEF PicturesInv
<1>b. Counted
  BY DEF PicturesInv
<1>c. RoomLeft
  BY DEF PicturesInv
<1>1. ASSUME NEW r \in Two, NEW p \in Two, Pictured!UploadItem(r, p) \/ Pictured!UploadPackCover(r, p)
      PROVE  PicturesInv'
  <2>1. CASE Pictured!UploadItem(r, p)
    BY <2>1, PicturesBegin, SameSize DEF Pictured!UploadItem, Pictured!HasRoom
  <2>2. CASE Pictured!UploadPackCover(r, p)
    BY <2>2, PicturesBegin DEF Pictured!UploadPackCover
  <2> QED BY <1>1, <2>1, <2>2
<1>2. ASSUME NEW r \in Two, NEW i \in Three,
             Pictured!CopyItem(r, i) \/ Pictured!DeleteItem(r, i) \/ Pictured!AdminPurgeItem(r, i)
      PROVE  PicturesInv'
  <2>1. i \in Pictured!Active /\ item[i] # None /\ item[i].asset \in Two
    BY <1>a, <1>2
       DEF Pictured!CopyItem, Pictured!DeleteItem, Pictured!AdminPurgeItem, Pictured!Active,
       PicturesTyped, PictureItem
  <2>2. CASE Pictured!CopyItem(r, i)
    <3>1. Pictured!Begins(r, "add", item[i].asset) /\ Cardinality(Pictured!Active) < MaxItems
      BY <2>2, SameSize DEF Pictured!CopyItem, Pictured!HasRoom
    <3> QED BY <2>1, <3>1, PicturesBegin
  <2>3. CASE Pictured!DeleteItem(r, i) \/ Pictured!AdminPurgeItem(r, i)
    <3>1. Pictured!Begins(r, "drop", i)
      BY <2>3 DEF Pictured!DeleteItem, Pictured!AdminPurgeItem
    <3> QED BY <2>1, <3>1, PicturesBegin
  <2> QED BY <1>2, <2>2, <2>3
<1>3. ASSUME NEW r \in Two,
             Pictured!DeletePackCover(r) \/ Pictured!PatchPack(r) \/ Pictured!AdminPurgePack(r)
      PROVE  PicturesInv'
  <2>1. Pictured!Begins(r, "clear", None) \/ Pictured!Begins(r, "purge", None)
    BY <1>3 DEF Pictured!DeletePackCover, Pictured!PatchPack, Pictured!AdminPurgePack
  <2> QED BY <2>1, PicturesBegin
<1>4. ASSUME NEW r \in Two, NEW does \in {"add", "drop", "cover", "clear", "purge"}, Pictured!Doing(r, does),
             picturesRequest' = [picturesRequest EXCEPT ![r] = None],
             \A i \in Three : item[i] # None => item'[i] # None
      PROVE  /\ picturesRequest' \in [Two -> PictureSlot \cup {None}] /\ OfItsKind'
             /\ Growing' = (IF does = "add" THEN Growing \ {r} ELSE Growing)
             /\ does = "add" => r \in Growing
             /\ picturesRequest[r] \in PictureSlot
  <2>1. picturesRequest'[r] = None /\ \A q \in Two \ {r} : picturesRequest'[q] = picturesRequest[q]
    BY <1>a, <1>4 DEF PicturesTyped
  <2>2. picturesRequest' \in [Two -> PictureSlot \cup {None}] /\ picturesRequest[r] \in PictureSlot
    BY <1>a, <1>4 DEF PicturesTyped, Pictured!Doing
  <2>3. OfItsKind'
    BY <1>a, <1>4, <2>1 DEF OfItsKind, Pictured!Doing
  <2>4. Growing' = (IF does = "add" THEN Growing \ {r} ELSE Growing) /\ (does = "add" => r \in Growing)
    BY <1>4, <2>1 DEF Growing, Pictured!Doing
  <2> QED BY <2>2, <2>3, <2>4
<1>5. ASSUME NEW r \in Two, NEW i \in Three, Pictured!AddsItem(r, i) PROVE PicturesInv'
  <2>p. Pictured!Doing(r, "add")
    BY <1>5 DEF Pictured!AddsItem
  <2>2. PICK p \in Two : p = picturesRequest[r].of
    BY <1>a, <2>p DEF OfItsKind
  <2> DEFINE new == [asset |-> p, purged |-> FALSE]
  <2>1. /\ Pictured!Doing(r, "add") /\ item[i] = None
        /\ picturesRequest' = [picturesRequest EXCEPT ![r] = None]
        /\ item' = [item EXCEPT ![i] = new] /\ picturesRefs' = [picturesRefs EXCEPT ![p] = @ + 1]
        /\ UNCHANGED <<cover, picturesCrossed, again>>
    BY <1>5, <2>2 DEF Pictured!AddsItem, Pictured!Done, Pictured!EnsureAsset
  <2>3. new \in PictureItem /\ new # None /\ new.asset = p /\ ~ new.purged
    <3>1. new \in PictureItem
      BY DEF PictureItem
    <3>2. new.asset = p /\ new.purged = FALSE
      OBVIOUS
    <3> QED BY <3>1, <3>2
  <2> HIDE DEF new
  <2>4. item'[i] = new /\ \A k \in Three \ {i} : item'[k] = item[k]
    BY <1>a, <2>1 DEF PicturesTyped
  <2>5. /\ picturesRequest' \in [Two -> PictureSlot \cup {None}] /\ OfItsKind'
        /\ Growing' = Growing \ {r} /\ r \in Growing
    BY <1>4, <2>1, <2>3, <2>4
  <2>6. PicturesTyped'
    BY <1>a, <2>1, <2>2, <2>3, <2>5 DEF PicturesTyped
  <2>7. i \notin Pictured!Active /\ Pictured!Active' = Pictured!Active \cup {i}
    BY <2>1, <2>3, <2>4 DEF Pictured!Active
  <2>8. Used(p)' = Used(p) \cup {i} /\ i \notin Used(p) /\ \A q \in Two \ {p} : Used(q)' = Used(q)
    BY <2>3, <2>4, <2>7 DEF Used, Pictured!Active
  <2>9. Cardinality(Used(p)') = Cardinality(Used(p)) + 1
    BY <2>8, PictureSizes, FS_AddElement
  <2>10. Cardinality(Pictured!Active') = Cardinality(Pictured!Active) + 1
    BY <2>7, PictureSizes, FS_AddElement
  <2>11. \A q \in Two : /\ picturesRefs'[q] = IF q = p THEN picturesRefs[q] + 1 ELSE picturesRefs[q]
                        /\ InCover(q)' = InCover(q) /\ InCover(q) \in Nat /\ picturesRefs[q] \in Nat
    BY <1>a, <2>1 DEF PicturesTyped, InCover
  <2>12. Counted'
    <3> SUFFICES ASSUME ~ picturesCrossed, NEW q \in Two
                 PROVE  /\ picturesRefs'[q] >= Cardinality(Used(q)') + InCover(q)'
                        /\ again \/ picturesRefs'[q] = Cardinality(Used(q)') + InCover(q)'
      BY <2>1 DEF Counted
    <3>1. /\ picturesRefs[q] >= Cardinality(Used(q)) + InCover(q)
          /\ again \/ picturesRefs[q] = Cardinality(Used(q)) + InCover(q)
      BY <1>b DEF Counted
    <3>2. Cardinality(Used(q)) \in Nat
      BY PictureSizes
    <3>3. CASE q = p
      BY <2>9, <2>11, <3>1, <3>2, <3>3
    <3>4. CASE q # p
      <4>1. Used(q)' = Used(q) /\ picturesRefs'[q] = picturesRefs[q] /\ InCover(q)' = InCover(q)
        BY <2>8, <2>11, <3>4
      <4> QED BY <3>1, <4>1
    <3> QED BY <3>3, <3>4
  <2>13. RoomLeft'
    BY <1>c, <2>5, <2>10, PictureSizes, BoundsAreNumbers DEF RoomLeft
  <2> QED BY <2>5, <2>6, <2>12, <2>13 DEF PicturesInv
<1>6. ASSUME NEW r \in Two, Pictured!DropsItem(r) PROVE PicturesInv'
  <2>p. Pictured!Doing(r, "drop")
    BY <1>6 DEF Pictured!DropsItem
  <2>2. PICK i \in Three : i = picturesRequest[r].of /\ item[i] # None
    BY <1>a, <2>p DEF OfItsKind
  <2>3. PICK p \in Two : item[i] \in PictureItem /\ p = item[i].asset
    BY <1>a, <2>2 DEF PicturesTyped, PictureItem
  <2>1. /\ Pictured!Doing(r, "drop") /\ picturesRequest' = [picturesRequest EXCEPT ![r] = None]
        /\ item' = [item EXCEPT ![i].purged = TRUE] /\ picturesRefs' = Pictured!ReleaseAsset(picturesRefs, p)
        /\ picturesCrossed' = (picturesCrossed \/ i \notin Pictured!Active)
        /\ UNCHANGED <<cover, again>>
    BY <1>6, <2>2, <2>3 DEF Pictured!DropsItem, Pictured!Done
  <2>4. /\ item'[i] = [item[i] EXCEPT !.purged = TRUE] /\ item'[i] \in PictureItem
        /\ item'[i].purged /\ item'[i] # None /\ item'[i].asset = p
        /\ \A k \in Three \ {i} : item'[k] = item[k]
        /\ item' \in [Three -> PictureItem \cup {None}]
    BY <1>a, <2>1, <2>2, <2>3 DEF PicturesTyped, PictureItem
  <2>5. /\ picturesRequest' \in [Two -> PictureSlot \cup {None}] /\ OfItsKind' /\ Growing' = Growing
    BY <1>4, <2>1, <2>4
  <2>6. picturesRefs \in [Two -> Nat]
    BY <1>a DEF PicturesTyped
  <2>7. /\ picturesRefs' \in [Two -> Nat]
        /\ \A q \in Two : picturesRefs'[q] = IF q = p /\ picturesRefs[q] > 0 THEN picturesRefs[q] - 1 ELSE picturesRefs[q]
    BY <2>1, <2>3, <2>6, Released
  <2>8. PicturesTyped'
    BY <1>a, <2>1, <2>4, <2>5, <2>7 DEF PicturesTyped
  <2>9. Pictured!Active' = Pictured!Active \ {i}
    BY <2>4 DEF Pictured!Active
  <2>10. /\ Used(p)' = Used(p) \ {i} /\ \A q \in Two \ {p} : Used(q)' = Used(q)
         /\ i \in Pictured!Active => i \in Used(p)
    <3>1. item[i].asset = p
      BY <2>3
    <3>2. \A k \in Pictured!Active' : item'[k].asset = item[k].asset /\ k # i
      BY <2>4, <2>9 DEF Pictured!Active
    <3> QED BY <2>9, <3>1, <3>2 DEF Used
  <2>11. i \in Pictured!Active => Cardinality(Used(p)') = Cardinality(Used(p)) - 1
    BY <2>10, PictureSizes, FS_RemoveElement
  <2>12. /\ Cardinality(Pictured!Active') <= Cardinality(Pictured!Active) /\ Cardinality(Pictured!Active') \in Nat
    <3>1. Pictured!Active' \in SUBSET Pictured!Active
      BY <2>9
    <3> QED BY <3>1, PictureSizes, FS_Subset, FS_CardinalityType
  <2>13. \A q \in Two : InCover(q)' = InCover(q) /\ InCover(q) \in Nat
    BY <2>1 DEF InCover
  <2>14. Counted'
    <3> SUFFICES ASSUME ~ picturesCrossed', NEW q \in Two
                 PROVE  /\ picturesRefs'[q] >= Cardinality(Used(q)') + InCover(q)'
                        /\ again \/ picturesRefs'[q] = Cardinality(Used(q)') + InCover(q)'
      BY <2>1 DEF Counted
    <3>1. i \in Pictured!Active /\ ~ picturesCrossed
      BY <2>1
    <3>2. /\ picturesRefs[q] >= Cardinality(Used(q)) + InCover(q)
          /\ again \/ picturesRefs[q] = Cardinality(Used(q)) + InCover(q)
      BY <1>b, <3>1 DEF Counted
    <3>3. picturesRefs[q] \in Nat /\ Cardinality(Used(q)) \in Nat
      BY <2>6, PictureSizes
    <3>4. CASE q = p
      <4>1. Cardinality(Used(p)) > 0
        <5>1. IsFiniteSet(Used(p)) /\ Used(p) # {}
          BY <2>10, <3>1, PictureSizes
        <5> QED BY <3>3, <3>4, <5>1, FS_EmptySet
      <4> QED BY <2>7, <2>11, <2>13, <3>1, <3>2, <3>3, <3>4, <4>1
    <3>5. CASE q # p
      <4>1. picturesRefs'[q] = picturesRefs[q]
        BY <2>7, <3>5
      <4> QED BY <2>10, <2>13, <3>2, <3>5, <4>1
    <3> QED BY <3>4, <3>5
  <2>15. RoomLeft'
    BY <1>c, <2>5, <2>12, PictureSizes, BoundsAreNumbers DEF RoomLeft
  <2> QED BY <2>5, <2>8, <2>14, <2>15 DEF PicturesInv
<1>7. ASSUME NEW r \in Two, Pictured!CoverWrites(r) \/ Pictured!ClearsCover(r) PROVE PicturesInv'
  <2> DEFINE new == picturesRequest[r].of
             old == picturesRequest[r].was
  <2>1. /\ picturesRequest' = [picturesRequest EXCEPT ![r] = None] /\ item' = item
        /\ picturesCrossed' = (picturesCrossed \/ cover # old)
        /\ \/ /\ Pictured!Doing(r, "cover") /\ cover' = new /\ (IF old = new THEN again' = TRUE ELSE again' = again)
              /\ picturesRefs' = IF old = new THEN Pictured!EnsureAsset(new)
                                 ELSE Pictured!ReleaseAsset(Pictured!EnsureAsset(new), old)
           \/ /\ Pictured!Doing(r, "clear") /\ cover' = None /\ again' = again
              /\ picturesRefs' = Pictured!ReleaseAsset(picturesRefs, old)
    BY <1>7, <1>a DEF Pictured!CoverWrites, Pictured!ClearsCover, Pictured!Done, PicturesTyped
  <2>2. /\ picturesRequest' \in [Two -> PictureSlot \cup {None}] /\ OfItsKind' /\ Growing' = Growing
        /\ picturesRequest[r] \in PictureSlot
    BY <1>4, <2>1
  <2>3. old \in Two \cup {None} /\ (Pictured!Doing(r, "cover") => new \in Two)
    BY <1>a, <2>2 DEF PictureSlot, OfItsKind
  <2> HIDE DEF new, old
  <2>4. picturesRefs \in [Two -> Nat]
    BY <1>a DEF PicturesTyped
  <2>5. Pictured!Active' = Pictured!Active /\ \A p : Used(p)' = Used(p)
    BY <2>1 DEF Pictured!Active, Used
  <2>6. RoomLeft'
    BY <1>c, <2>2, <2>5 DEF RoomLeft
  <2>7. CASE Pictured!Doing(r, "clear") /\ cover' = None /\ again' = again
              /\ picturesRefs' = Pictured!ReleaseAsset(picturesRefs, old)
    <3>1. /\ picturesRefs' \in [Two -> Nat]
          /\ \A q \in Two : picturesRefs'[q] = IF q = old /\ picturesRefs[q] > 0 THEN picturesRefs[q] - 1 ELSE picturesRefs[q]
      BY <2>3, <2>4, <2>7, Released
    <3>2. PicturesTyped'
      BY <1>a, <2>1, <2>2, <2>7, <3>1 DEF PicturesTyped
    <3>3. Counted'
      <4> SUFFICES ASSUME ~ picturesCrossed', NEW q \in Two
                   PROVE  /\ picturesRefs'[q] >= Cardinality(Used(q)) + InCover(q)'
                          /\ again \/ picturesRefs'[q] = Cardinality(Used(q)) + InCover(q)'
        BY <2>5, <2>7 DEF Counted
      <4>1. cover = old /\ ~ picturesCrossed
        BY <2>1
      <4>2. /\ picturesRefs[q] >= Cardinality(Used(q)) + InCover(q)
            /\ again \/ picturesRefs[q] = Cardinality(Used(q)) + InCover(q)
        BY <1>b, <4>1 DEF Counted
      <4>3. picturesRefs[q] \in Nat /\ Cardinality(Used(q)) \in Nat
        BY <2>4, PictureSizes
      <4>4. InCover(q)' = 0 /\ InCover(q) = IF q = old THEN 1 ELSE 0
        BY <2>7, <4>1 DEF InCover
      <4> QED BY <3>1, <4>2, <4>3, <4>4
    <3> QED BY <2>2, <2>6, <3>2, <3>3 DEF PicturesInv
  <2>8. CASE Pictured!Doing(r, "cover") /\ cover' = new /\ (IF old = new THEN again' = TRUE ELSE again' = again)
              /\ picturesRefs' = IF old = new THEN Pictured!EnsureAsset(new)
                                 ELSE Pictured!ReleaseAsset(Pictured!EnsureAsset(new), old)
    <3> DEFINE more == Pictured!EnsureAsset(new)
    <3>1. /\ more \in [Two -> Nat]
          /\ \A q \in Two : more[q] = IF q = new THEN picturesRefs[q] + 1 ELSE picturesRefs[q]
      BY <2>3, <2>4, <2>8 DEF Pictured!EnsureAsset
    <3>2. picturesRefs' = IF old = new THEN more ELSE Pictured!ReleaseAsset(more, old)
      BY <2>8
    <3> HIDE DEF more
    <3>3. /\ picturesRefs' \in [Two -> Nat]
          /\ old = new => \A q \in Two : picturesRefs'[q] = more[q]
          /\ old # new => \A q \in Two : picturesRefs'[q] = IF q = old /\ more[q] > 0 THEN more[q] - 1 ELSE more[q]
      BY <2>3, <3>1, <3>2, Released
    <3>4. PicturesTyped'
      <4>1. again' \in BOOLEAN /\ picturesCrossed' \in BOOLEAN
        BY <1>a, <2>1, <2>8 DEF PicturesTyped
      <4> QED BY <1>a, <2>1, <2>2, <2>3, <2>8, <3>3, <4>1 DEF PicturesTyped
    <3>5. Counted'
      <4> SUFFICES ASSUME ~ picturesCrossed', NEW q \in Two
                   PROVE  /\ picturesRefs'[q] >= Cardinality(Used(q)) + InCover(q)'
                          /\ again' \/ picturesRefs'[q] = Cardinality(Used(q)) + InCover(q)'
        BY <2>5 DEF Counted
      <4>1. cover = old /\ ~ picturesCrossed
        BY <2>1
      <4>2. /\ picturesRefs[q] >= Cardinality(Used(q)) + InCover(q)
            /\ again \/ picturesRefs[q] = Cardinality(Used(q)) + InCover(q)
        BY <1>b, <4>1 DEF Counted
      <4>3. picturesRefs[q] \in Nat /\ Cardinality(Used(q)) \in Nat
        BY <2>4, PictureSizes
      <4>4. InCover(q)' = (IF q = new THEN 1 ELSE 0) /\ InCover(q) = IF q = old THEN 1 ELSE 0
        BY <2>8, <4>1 DEF InCover
      <4>5. CASE old = new
        BY <2>8, <3>1, <3>3, <4>2, <4>3, <4>4, <4>5
      <4>6. CASE old # new
        BY <2>8, <3>1, <3>3, <4>2, <4>3, <4>4, <4>6
      <4> QED BY <4>5, <4>6
    <3> QED BY <2>2, <2>6, <3>4, <3>5 DEF PicturesInv
  <2> QED BY <2>1, <2>7, <2>8
<1>8. ASSUME NEW r \in Two, Pictured!PurgesPack(r) PROVE PicturesInv'
  <2> DEFINE old == picturesRequest[r].was
             rest == [p \in Two |-> IF picturesRefs[p] <= Cardinality(Used(p)) THEN 0
                                    ELSE picturesRefs[p] - Cardinality(Used(p))]
  <2>1. /\ Pictured!Doing(r, "purge") /\ picturesRequest' = [picturesRequest EXCEPT ![r] = None]
        /\ item' = [i \in Three |-> IF i \in Pictured!Active THEN [item[i] EXCEPT !.purged = TRUE] ELSE item[i]]
        /\ cover' = None /\ picturesCrossed' = (picturesCrossed \/ cover # old) /\ again' = again
    BY <1>8 DEF Pictured!PurgesPack, Pictured!Done
  <2>2. picturesRefs' = Pictured!ReleaseAsset(rest, old)
    BY <1>8, SameSize DEF Pictured!PurgesPack, Used
  <2>3. \A i \in Three : /\ item[i] # None => item[i] \in PictureItem
                         /\ i \in Pictured!Active => /\ item'[i] \in PictureItem /\ item'[i] # None
                                                     /\ item'[i].purged
                         /\ i \notin Pictured!Active => item'[i] = item[i]
    BY <1>a, <2>1 DEF PicturesTyped, PictureItem, Pictured!Active
  <2>4. /\ picturesRequest' \in [Two -> PictureSlot \cup {None}] /\ OfItsKind' /\ Growing' = Growing
        /\ picturesRequest[r] \in PictureSlot
    BY <1>4, <2>1, <2>3
  <2>5. old \in Two \cup {None}
    BY <2>4 DEF PictureSlot
  <2>6. picturesRefs \in [Two -> Nat] /\ \A p \in Two : picturesRefs[p] \in Nat /\ Cardinality(Used(p)) \in Nat
    BY <1>a, PictureSizes DEF PicturesTyped
  <2>7. /\ rest \in [Two -> Nat]
        /\ \A p \in Two : rest[p] = IF picturesRefs[p] <= Cardinality(Used(p)) THEN 0
                                    ELSE picturesRefs[p] - Cardinality(Used(p))
    BY <2>6
  <2> HIDE DEF rest, old
  <2>8. /\ picturesRefs' \in [Two -> Nat]
        /\ \A q \in Two : picturesRefs'[q] = IF q = old /\ rest[q] > 0 THEN rest[q] - 1 ELSE rest[q]
    BY <2>2, <2>5, <2>7, Released
  <2>9. item' \in [Three -> PictureItem \cup {None}]
    <3>1. \A i \in Three : item'[i] \in PictureItem \cup {None}
      BY <2>3
    <3>2. item' = [i \in Three |-> item'[i]]
      BY <2>1
    <3> QED BY <3>1, <3>2
  <2>10. PicturesTyped'
    BY <1>a, <2>1, <2>4, <2>8, <2>9 DEF PicturesTyped
  <2>11. Pictured!Active' = {}
    BY <2>3 DEF Pictured!Active
  <2>12. \A q \in Two : Cardinality(Used(q)') = 0 /\ InCover(q)' = 0
    <3>1. \A q : Used(q)' = {}
      BY <2>11 DEF Used
    <3> QED BY <2>1, <3>1, FS_EmptySet DEF InCover
  <2>13. Counted'
    <3> SUFFICES ASSUME ~ picturesCrossed', NEW q \in Two
                 PROVE  /\ picturesRefs'[q] >= Cardinality(Used(q)') + InCover(q)'
                        /\ again \/ picturesRefs'[q] = Cardinality(Used(q)') + InCover(q)'
      BY <2>1 DEF Counted
    <3>1. cover = old /\ ~ picturesCrossed
      BY <2>1
    <3>2. /\ picturesRefs[q] >= Cardinality(Used(q)) + InCover(q)
          /\ again \/ picturesRefs[q] = Cardinality(Used(q)) + InCover(q)
      BY <1>b, <3>1 DEF Counted
    <3>3. InCover(q) = IF q = old THEN 1 ELSE 0
      BY <3>1 DEF InCover
    <3> QED BY <2>6, <2>7, <2>8, <2>12, <3>2, <3>3
  <2>14. RoomLeft'
    <3>1. Cardinality(Pictured!Active') = 0
      BY <2>11, FS_EmptySet
    <3> QED BY <1>c, <2>4, <3>1, PictureSizes, BoundsAreNumbers DEF RoomLeft
  <2> QED BY <2>4, <2>10, <2>13, <2>14 DEF PicturesInv
<1>9. CASE UNCHANGED picturesVars
  <2>1. UNCHANGED <<item, cover, picturesRefs, picturesRequest, picturesCrossed, again>>
    BY <1>9 DEF picturesVars
  <2>2. Pictured!Active' = Pictured!Active /\ Growing' = Growing /\ \A p : Used(p)' = Used(p) /\ InCover(p)' = InCover(p)
    BY <2>1 DEF Pictured!Active, Used, InCover, Growing, Pictured!Doing
  <2> QED BY <1>a, <1>b, <1>c, <2>1, <2>2
          DEF PicturesInv, PicturesTyped, OfItsKind, Counted, RoomLeft, Pictured!Doing
<1>10. CASE Pictured!Next
  BY <1>10, <1>1, <1>2, <1>3, <1>5, <1>6, <1>7, <1>8 DEF Pictured!Next
<1> QED BY <1>9, <1>10 DEF Next, vars

LEMMA PicturesHold == PicturesInv => Pictured!AssetsCounted
<1> SUFFICES ASSUME PicturesInv PROVE Pictured!AssetsCounted
  OBVIOUS
<1>1. ASSUME NEW p \in Two PROVE Pictured!Uses(p) = Cardinality(Used(p)) + InCover(p)
  BY SameSize DEF Pictured!Uses, Used, InCover
<1>2. Cardinality(Pictured!Active) <= MaxItems + Cardinality(Two) - 1
  BY PictureSizes, BoundsAreNumbers DEF PicturesInv, RoomLeft
<1> QED BY <1>1, <1>2, SameSize DEF PicturesInv, Counted, Pictured!AssetsCounted

(* Who has a pack installed found it in use, a pack in the list can be     *)
(* sent from, overlapping creations exceed the limits by one each, and a   *)
(* picture is counted for each item and cover that shows it: what the      *)
(* handlers of sticker packs keep, each in steps that others fall between. *)
THEOREM StickersHold == Spec => []StickersAreTrue
<1>1. PacksInv /\ PicturesInv => StickersAreTrue
  BY PacksHold, PicturesHold DEF StickersAreTrue
<1> QED BY <1>1, PacksInit, PacksNext, PicturesInit, PicturesNext, PTL DEF Spec

-----------------------------------------------------------------------------
(* Cosmetics. *)

Hung(p) == {u \in Two \X Closet!Slots : assets[u[1]][u[2]] = p}

Edits(r) == closetRequest[r] # None /\ closetRequest[r].step \in {"edit", "fill"}
Announces(r) == closetRequest[r] # None /\ closetRequest[r].step \in Closet!Telling

ClosetTyped ==
  /\ category \in [slot : Closet!Places, required : BOOLEAN]
  /\ status \in [Two -> {"draft", "published", "archived", None}]
  /\ assets \in [Two -> [Closet!Slots -> Two \cup {Lost, None}]]
  /\ preview \in [Two -> Two \cup {Lost, None}]
  /\ closetRefs \in [Two -> Nat \cup {None}]
  /\ links \subseteq Two /\ closetActive \subseteq Two
  /\ worn \in [Closet!Places -> Two \cup {None}]

\* What the handlers of each kind carry.
Carried(j) ==
  /\ j.step \in {"create", "patch", "upload", "edit", "fill", "buy", "wear", "wrote", "built"}
  /\ j.step \in {"create", "patch"} => j \in StatusSlot
  /\ j.step = "upload" => j \in UploadSlot
  /\ j.step \in {"edit", "fill"} => j \in EditSlot
  /\ j.step = "buy" => j \in BuySlot
  /\ j.step = "wear" => j \in WearSlot
  /\ j.step = "wrote" => j \in TellSlot
  /\ j.step = "built" => j \in BuiltSlot

SlotsTyped ==
  /\ closetRequest = [r \in Two |-> closetRequest[r]]
  /\ \A r \in Two : closetRequest[r] # None => Carried(closetRequest[r])

PicturesCounted ==
  \A p \in Two :
    IF closetRefs[p] = None THEN Hung(p) = {}
    ELSE /\ closetRefs[p] >= Cardinality(Hung(p))
         /\ twins \/ closetRefs[p] = Cardinality(Hung(p))

PreviewsHang ==
  \A i \in Two : preview[i] # None => \E s \in Closet!Slots : assets[i][s] = preview[i]

\* What is published, or is about to be, has what its category requires.
Required(i) == category.required => assets[i]["primary"] # None
ForSale ==
  ~ tightened =>
    /\ \A i \in Two : status[i] = "published" => Required(i)
    /\ \A r \in Two : closetRequest[r] # None
                      /\ closetRequest[r].step \in {"create", "patch"}
                      /\ closetRequest[r].at = "published" => Required(closetRequest[r].of)

\* One handler edits, and what it has still to insert is what is missing.
OneEditor ==
  ~ mixed =>
    /\ \A r, q \in Two : Edits(r) /\ Edits(q) => r = q
    /\ \A r \in Two : Edits(r) =>
         IF closetRequest[r].step = "edit" THEN closetRequest[r].of = choice
         ELSE /\ links \cup closetRequest[r].of = choice
              /\ links \cap closetRequest[r].of = {}
    /\ (\A r \in Two : ~ Edits(r)) => links \subseteq choice /\ (broken \/ links = choice)

SoldWhole ==
  /\ choice \in offers /\ (torn \/ sold \in offers)
  /\ \A r \in Two : closetRequest[r] # None /\ closetRequest[r].step = "buy" =>
       closetRequest[r].was \/ closetRequest[r].of \in offers

\* One handler announces, and what it has built is what is worn.
OneTeller ==
  ~ overlap =>
    /\ \A r, q \in Two : Announces(r) /\ Announces(q) => r = q
    /\ \A r \in Two : Announces(r) /\ closetRequest[r].step = "built" =>
         closetUnsaid \/ closetRequest[r].of = Closet!ResolveEquipped
    /\ (\A r \in Two : ~ Announces(r)) => closetUnsaid \/ closetSeen = Closet!ResolveEquipped

ClosetInv ==
  /\ ClosetTyped /\ SlotsTyped /\ PicturesCounted /\ PreviewsHang /\ ForSale
  /\ OneEditor /\ SoldWhole /\ OneTeller

LEMMA ClosetInit == Init => ClosetInv
<1> SUFFICES ASSUME Init PROVE ClosetInv
  OBVIOUS
<1>1. Closet!Init
  BY DEF Init
<1>a. /\ category = [slot |-> "avatar_frame", required |-> TRUE]
      /\ status \in [Two -> {None, "draft"}]
      /\ assets = [i \in Two |-> [s \in Closet!Slots |-> None]]
      /\ preview = [i \in Two |-> None] /\ closetRefs = [p \in Two |-> None]
      /\ links = {} /\ offers = {{}} /\ choice = {} /\ sold = {} /\ torn = FALSE
      /\ closetActive \subseteq Two
      /\ worn = [p \in Closet!Places |-> None] /\ closetSeen = worn
      /\ closetRequest = [r \in Two |-> None]
  BY <1>1 DEF Closet!Init
<1>2. ClosetTyped
  BY <1>a DEF ClosetTyped, Closet!Places, Closet!Slots
<1>3. SlotsTyped
  BY <1>a DEF SlotsTyped
<1>4. PicturesCounted /\ PreviewsHang
  <2>1. \A p \in Two : Hung(p) = {}
    BY <1>a, NoneIsNoValue DEF Hung
  <2> QED BY <1>a, <2>1 DEF PicturesCounted, PreviewsHang
<1>5. ForSale
  <2>1. \A i \in Two : status[i] # "published"
    BY <1>a, NoneIsNoValue DEF Names
  <2> QED BY <1>a, <2>1 DEF ForSale
<1>6. OneEditor /\ SoldWhole
  BY <1>a DEF OneEditor, SoldWhole, Edits
<1>7. OneTeller
  <2>1. Closet!ResolveEquipped = [p \in Closet!Places |-> None]
    BY <1>a DEF Closet!ResolveEquipped
  <2> QED BY <1>a, <2>1 DEF OneTeller, Announces
<1> QED BY <1>2, <1>3, <1>4, <1>5, <1>6, <1>7 DEF ClosetInv

\* No handler of one of these kinds.
Out(j, steps) == j = None \/ j.step \notin steps
ForSaleSteps == {"create", "patch"}
BundleSteps  == {"edit", "fill", "buy"}

LEMMA ClosetSlots ==
  ASSUME SlotsTyped, NEW r \in Two, NEW new, new # None => Carried(new),
         closetRequest' = [closetRequest EXCEPT ![r] = new]
  PROVE  /\ SlotsTyped' /\ closetRequest'[r] = new
         /\ \A q \in Two \ {r} : closetRequest'[q] = closetRequest[q]
<1>1. \A q \in Two : closetRequest'[q] = IF q = r THEN new ELSE closetRequest[q]
  BY DEF SlotsTyped
<1>2. closetRequest' = [q \in Two |-> closetRequest'[q]]
  BY DEF SlotsTyped
<1> QED BY <1>1, <1>2 DEF SlotsTyped

\* What a handler starts with, read off its slot.
LEMMA ClosetFields ==
  ASSUME NEW s, NEW of, NEW at, NEW was
  PROVE  /\ Closet!Slot(s, of, at, was).step = s /\ Closet!Slot(s, of, at, was).of = of
         /\ Closet!Slot(s, of, at, was).at = at /\ Closet!Slot(s, of, at, was).was = was
BY DEF Closet!Slot

LEMMA CatalogueStays ==
  ASSUME ForSale, PicturesCounted, PreviewsHang,
         UNCHANGED <<category, status, assets, preview, closetRefs, twins, tightened>>,
         \A q \in Two : \/ closetRequest'[q] = closetRequest[q]
                        \/ Out(closetRequest'[q], ForSaleSteps)
  PROVE  ForSale' /\ PicturesCounted' /\ PreviewsHang'
<1>1. \A p : Hung(p)' = Hung(p)
  BY DEF Hung
<1>2. \A i : Required(i)' <=> Required(i)
  BY DEF Required
<1>3. ForSale'
  BY <1>2 DEF ForSale, Out, ForSaleSteps
<1>4. PicturesCounted' /\ PreviewsHang'
  BY <1>1 DEF PicturesCounted, PreviewsHang
<1> QED BY <1>3, <1>4

LEMMA BundleStays ==
  ASSUME OneEditor, SoldWhole, UNCHANGED <<links, offers, choice, sold, torn, mixed, broken>>,
         \A q \in Two : \/ closetRequest'[q] = closetRequest[q]
                        \/ Out(closetRequest[q], BundleSteps) /\ Out(closetRequest'[q], BundleSteps)
  PROVE  OneEditor' /\ SoldWhole'
<1>1. \A q \in Two : Edits(q)' <=> Edits(q)
  BY DEF Edits, Out, BundleSteps
<1>2. \A q \in Two : Edits(q) => closetRequest'[q] = closetRequest[q]
  BY DEF Edits, Out, BundleSteps
<1>3. OneEditor'
  BY <1>1, <1>2 DEF OneEditor
<1>4. SoldWhole'
  BY DEF SoldWhole, Out, BundleSteps
<1> QED BY <1>3, <1>4

LEMMA TellingStays ==
  ASSUME OneTeller, UNCHANGED <<closetSeen, overlap>>,
         closetUnsaid => closetUnsaid',
         closetUnsaid' \/ Closet!ResolveEquipped' = Closet!ResolveEquipped,
         \A q \in Two : \/ closetRequest'[q] = closetRequest[q]
                        \/ Out(closetRequest[q], Closet!Telling) /\ Out(closetRequest'[q], Closet!Telling)
  PROVE  OneTeller'
<1>1. \A q \in Two : Announces(q)' <=> Announces(q)
  BY DEF Announces, Out
<1>2. \A q \in Two : Announces(q) => closetRequest'[q] = closetRequest[q]
  BY DEF Announces, Out
<1> QED BY <1>1, <1>2 DEF OneTeller

LEMMA WearingStays ==
  ASSUME UNCHANGED <<worn, closetActive>>
  PROVE  Closet!ResolveEquipped' = Closet!ResolveEquipped
BY DEF Closet!ResolveEquipped

LEMMA SameHung == ASSUME NEW S PROVE Closet!Cardinality(S) = Cardinality(S)
BY DEF Cardinality, Closet!Cardinality

LEMMA HungSizes == \A p : IsFiniteSet(Hung(p)) /\ Cardinality(Hung(p)) \in Nat
<1>1. IsFiniteSet(Two \X Closet!Slots)
  <2>1. IsFiniteSet(Closet!Slots)
    <3>1. IsFiniteSet({"primary"}) /\ Closet!Slots = {"primary"} \cup {"compact"}
      BY FS_Singleton DEF Closet!Slots
    <3> QED BY <3>1, FS_AddElement
  <2> QED BY <2>1, FiniteNames, FS_Product
<1>2. \A p : Hung(p) \in SUBSET (Two \X Closet!Slots)
  BY DEF Hung
<1> QED BY <1>1, <1>2, FS_Subset, FS_CardinalityType

\* The use that is released, of a picture that has one.
LEMMA ClosetReleased ==
  ASSUME NEW counts \in [Two -> Nat \cup {None}], NEW old \in Two \cup {Lost, None},
         old \in Two => counts[old] \in Nat
  PROVE  /\ Closet!ReleaseAsset(counts, old) \in [Two -> Nat \cup {None}]
         /\ \A q \in Two : Closet!ReleaseAsset(counts, old)[q] =
              IF q = old THEN (IF counts[q] <= 1 THEN 0 ELSE counts[q] - 1) ELSE counts[q]
<1>1. CASE old \in Two
  BY <1>1 DEF Closet!ReleaseAsset
<1>2. CASE old \notin Two
  BY <1>2 DEF Closet!ReleaseAsset
<1> QED BY <1>1, <1>2

\* What becomes of the number of slots that hold q.
HungMoves(q, new, old) ==
  /\ q = old => Cardinality(Hung(q)) >= 1
  /\ q = new /\ q = old => Cardinality(Hung(q)') = Cardinality(Hung(q))
  /\ q = new /\ q # old => Cardinality(Hung(q)') = Cardinality(Hung(q)) + 1
  /\ q # new /\ q = old => Cardinality(Hung(q)') = Cardinality(Hung(q)) - 1
  /\ q # new /\ q # old => Cardinality(Hung(q)') = Cardinality(Hung(q))

\* One picture takes the place of another in one slot.
LEMMA HungAfter ==
  ASSUME NEW i \in Two, NEW s \in Closet!Slots, NEW got \in Two \cup {Lost},
         assets \in [Two -> [Closet!Slots -> Two \cup {Lost, None}]],
         assets' = [assets EXCEPT ![i] = [assets[i] EXCEPT ![s] = got]]
  PROVE  /\ assets' \in [Two -> [Closet!Slots -> Two \cup {Lost, None}]]
         /\ \A k \in Two, t \in Closet!Slots :
              assets'[k][t] = IF k = i /\ t = s THEN got ELSE assets[k][t]
         /\ \A q \in Two : HungMoves(q, got, assets[i][s])
<1>1. \A k \in Two, t \in Closet!Slots :
        assets'[k][t] = IF k = i /\ t = s THEN got ELSE assets[k][t]
  OBVIOUS
<1>2. assets' \in [Two -> [Closet!Slots -> Two \cup {Lost, None}]]
  <2>1. [assets[i] EXCEPT ![s] = got] \in [Closet!Slots -> Two \cup {Lost, None}]
    OBVIOUS
  <2> QED BY <2>1
<1>3. ASSUME NEW q \in Two
      PROVE  HungMoves(q, got, assets[i][s])
  <2>1. /\ <<i, s>> \in Hung(q) <=> q = assets[i][s]
        /\ <<i, s>> \in Hung(q)' <=> q = got
        /\ \A u : u # <<i, s>> => (u \in Hung(q)' <=> u \in Hung(q))
    <3>1. <<i, s>> \in Hung(q) <=> q = assets[i][s]
      BY DEF Hung
    <3>2. <<i, s>> \in Hung(q)' <=> q = got
      BY <1>1 DEF Hung
    <3>3. ASSUME NEW u \in Two \X Closet!Slots, u # <<i, s>>
          PROVE u \in Hung(q)' <=> u \in Hung(q)
      <4>1. u[1] \in Two /\ u[2] \in Closet!Slots /\ ~ (u[1] = i /\ u[2] = s)
        BY <3>3
      <4>2. assets'[u[1]][u[2]] = assets[u[1]][u[2]]
        BY <1>1, <4>1
      <4> QED BY <4>2 DEF Hung
    <3>4. Hung(q) \subseteq Two \X Closet!Slots /\ Hung(q)' \subseteq Two \X Closet!Slots
      BY DEF Hung
    <3> QED BY <3>1, <3>2, <3>3, <3>4
  <2>2. IsFiniteSet(Hung(q)) /\ Cardinality(Hung(q)) \in Nat
    BY HungSizes
  <2>3. q = assets[i][s] => Cardinality(Hung(q)) >= 1
    <3>1. q = assets[i][s] => Hung(q) # {}
      BY <2>1
    <3> QED BY <2>2, <3>1, FS_EmptySet
  <2>4. (q = got /\ q = assets[i][s]) \/ (q # got /\ q # assets[i][s]) => Hung(q)' = Hung(q)
    <3>1. (q = got /\ q = assets[i][s]) \/ (q # got /\ q # assets[i][s])
          => \A u : u \in Hung(q)' <=> u \in Hung(q)
      BY <2>1
    <3> QED BY <3>1
  <2>6. q = got /\ q # assets[i][s] => Cardinality(Hung(q)') = Cardinality(Hung(q)) + 1
    <3>1. q = got /\ q # assets[i][s] => Hung(q)' = Hung(q) \cup {<<i, s>>} /\ <<i, s>> \notin Hung(q)
      BY <2>1
    <3> QED BY <2>2, <3>1, FS_AddElement
  <2>7. q # got /\ q = assets[i][s] => Cardinality(Hung(q)') = Cardinality(Hung(q)) - 1
    <3>1. q # got /\ q = assets[i][s] => Hung(q)' = Hung(q) \ {<<i, s>>} /\ <<i, s>> \in Hung(q)
      BY <2>1
    <3> QED BY <2>2, <3>1, FS_RemoveElement
  <2> QED BY <2>3, <2>4, <2>6, <2>7 DEF HungMoves
<1> QED BY <1>1, <1>2, <1>3

\* A handler saves its picture.
LEMMA PictureSaved ==
  ASSUME ClosetTyped, SlotsTyped, PicturesCounted, PreviewsHang, ForSale,
         NEW r \in Two, Closet!AssetSaved(r)
  PROVE  /\ assets' \in [Two -> [Closet!Slots -> Two \cup {Lost, None}]]
         /\ preview' \in [Two -> Two \cup {Lost, None}]
         /\ closetRefs' \in [Two -> Nat \cup {None}]
         /\ PicturesCounted' /\ PreviewsHang' /\ ForSale'
<1>1. closetRequest[r] \in UploadSlot /\ closetRequest[r] # None
  BY DEF SlotsTyped, Carried, Closet!AssetSaved, Closet!Doing
<1>2. PICK i \in Two, s \in Closet!Slots, p \in Two :
        i = closetRequest[r].of /\ s = closetRequest[r].at /\ p = closetRequest[r].was.picture
  BY <1>1 DEF UploadSlot
<1>3. PICK got : got = IF ~ closetRequest[r].was.row /\ closetRefs[p] # None THEN Lost ELSE p
  OBVIOUS
<1>4. PICK old : old = assets[i][s]
  OBVIOUS
<1>5. PICK counts : counts = [closetRefs EXCEPT ![p] = IF @ = None THEN 1 ELSE @ + 1]
  OBVIOUS
<1>6. PICK held : held = [assets[i] EXCEPT ![s] = got]
  OBVIOUS
<1>7. /\ closetRefs' = Closet!ReleaseAsset(counts, old)
      /\ assets' = [assets EXCEPT ![i] = held]
      /\ preview' = [preview EXCEPT ![i] = Closet!PreviewAfter(preview[i], old, got, held)]
      /\ twins' = (twins \/ got = Lost)
      /\ closetRequest' = [closetRequest EXCEPT ![r] = None]
      /\ UNCHANGED <<category, status, tightened>>
  <2>1. Closet!StoreAssetBytes(closetRequest[r].was) = [id |-> got, counts |-> counts]
    BY <1>2, <1>3, <1>5 DEF Closet!StoreAssetBytes
  <2> QED BY <1>2, <1>4, <1>6, <2>1 DEF Closet!AssetSaved, Closet!Ends, ClosetTyped
<1>19. (twins => twins') /\ (got = Lost => twins')
  BY <1>7
<1>8. got \in Two \cup {Lost} /\ (got # p => got = Lost /\ closetRefs[p] # None)
  BY <1>3
<1>9. /\ closetRefs \in [Two -> Nat \cup {None}]
      /\ assets \in [Two -> [Closet!Slots -> Two \cup {Lost, None}]]
      /\ preview \in [Two -> Two \cup {Lost, None}]
  BY DEF ClosetTyped
<1>10. /\ assets' \in [Two -> [Closet!Slots -> Two \cup {Lost, None}]]
       /\ \A k \in Two, t \in Closet!Slots : assets'[k][t] = IF k = i /\ t = s THEN got ELSE assets[k][t]
       /\ \A q \in Two :
            /\ q = old => Cardinality(Hung(q)) >= 1
            /\ q = got /\ q = old => Cardinality(Hung(q)') = Cardinality(Hung(q))
            /\ q = got /\ q # old => Cardinality(Hung(q)') = Cardinality(Hung(q)) + 1
            /\ q # got /\ q = old => Cardinality(Hung(q)') = Cardinality(Hung(q)) - 1
            /\ q # got /\ q # old => Cardinality(Hung(q)') = Cardinality(Hung(q))
  <2>1. assets' = [assets EXCEPT ![i] = [assets[i] EXCEPT ![s] = got]]
    BY <1>6, <1>7
  <2>2. /\ assets' \in [Two -> [Closet!Slots -> Two \cup {Lost, None}]]
        /\ \A k \in Two, t \in Closet!Slots : assets'[k][t] = IF k = i /\ t = s THEN got ELSE assets[k][t]
        /\ \A q \in Two : HungMoves(q, got, old)
    BY <1>4, <1>8, <1>9, <2>1, HungAfter
  <2> QED BY <2>2 DEF HungMoves
<1>11. /\ counts \in [Two -> Nat \cup {None}]
       /\ \A q \in Two : counts[q] = IF q = p THEN (IF closetRefs[p] = None THEN 1 ELSE closetRefs[p] + 1)
                                     ELSE closetRefs[q]
  BY <1>5, <1>9
<1>12. \A q \in Two : IF closetRefs[q] = None THEN Cardinality(Hung(q)) = 0
                      ELSE /\ closetRefs[q] \in Nat /\ closetRefs[q] >= Cardinality(Hung(q))
                           /\ twins \/ closetRefs[q] = Cardinality(Hung(q))
  BY <1>9, FS_EmptySet DEF PicturesCounted
<1>13. old \in Two \cup {Lost, None} /\ (old \in Two => counts[old] \in Nat /\ closetRefs[old] \in Nat)
  <2>1. old \in Two => closetRefs[old] # None
    <3>1. old \in Two => Cardinality(Hung(old)) \in Nat /\ Cardinality(Hung(old)) >= 1
      BY <1>10, HungSizes
    <3> QED BY <1>12, <3>1
  <2> QED BY <1>4, <1>9, <1>11, <2>1
<1>14. /\ closetRefs' \in [Two -> Nat \cup {None}]
       /\ \A q \in Two : closetRefs'[q] =
            IF q = old THEN (IF counts[q] <= 1 THEN 0 ELSE counts[q] - 1) ELSE counts[q]
  BY <1>7, <1>11, <1>13, ClosetReleased
<1>15. PicturesCounted'
  <2> SUFFICES ASSUME NEW q \in Two
               PROVE  IF closetRefs'[q] = None THEN Hung(q)' = {}
                      ELSE /\ closetRefs'[q] >= Cardinality(Hung(q)')
                           /\ twins' \/ closetRefs'[q] = Cardinality(Hung(q)')
    BY DEF PicturesCounted
  <2>1. Cardinality(Hung(q)) \in Nat /\ None \notin Nat
    BY HungSizes, NoneIsNoValue
  <2>2. CASE q = old
    <3>1. /\ closetRefs[q] \in Nat /\ closetRefs[q] >= Cardinality(Hung(q)) /\ Cardinality(Hung(q)) >= 1
          /\ twins \/ closetRefs[q] = Cardinality(Hung(q))
      BY <1>10, <1>12, <1>13, <2>1, <2>2
    <3>2. CASE q = p
      <4>1. closetRefs'[q] = closetRefs[q]
        BY <1>11, <1>14, <2>1, <2>2, <3>1, <3>2
      <4>2. CASE got = p
        BY <1>10, <1>19, <2>1, <2>2, <3>1, <3>2, <4>1, <4>2
      <4>3. CASE got # p
        <5>1. twins' /\ q # got
          BY <1>8, <1>19, <4>3, LostIsNoPicture
        <5> QED BY <1>10, <2>1, <2>2, <3>1, <4>1, <5>1
      <4> QED BY <4>2, <4>3
    <3>3. CASE q # p
      <4>1. closetRefs'[q] = closetRefs[q] - 1
        BY <1>11, <1>14, <2>1, <2>2, <3>1, <3>3
      <4>2. q # got
        BY <1>8, <3>3, LostIsNoPicture
      <4> QED BY <1>10, <1>19, <2>1, <2>2, <3>1, <4>1, <4>2
    <3> QED BY <3>2, <3>3
  <2>3. CASE q # old /\ q = p
    <3>1. closetRefs'[q] = (IF closetRefs[q] = None THEN 1 ELSE closetRefs[q] + 1) /\ closetRefs'[q] # None
      BY <1>11, <1>12, <1>14, <2>1, <2>3
    <3>2. CASE closetRefs[q] = None
      BY <1>7, <1>8, <1>10, <1>12, <2>1, <2>3, <3>1, <3>2
    <3>3. CASE closetRefs[q] # None
      <4>1. /\ closetRefs[q] \in Nat /\ closetRefs[q] >= Cardinality(Hung(q))
            /\ twins \/ closetRefs[q] = Cardinality(Hung(q))
            /\ closetRefs'[q] = closetRefs[q] + 1
        BY <1>12, <3>1, <3>3
      <4>2. CASE got = p
        BY <1>10, <1>19, <2>1, <2>3, <4>1, <4>2
      <4>3. CASE got # p
        <5>1. twins' /\ q # got
          BY <1>8, <1>19, <4>3, LostIsNoPicture
        <5> QED BY <1>10, <2>1, <2>3, <4>1, <5>1
      <4> QED BY <4>2, <4>3
    <3> QED BY <3>2, <3>3
  <2>4. CASE q # old /\ q # p
    <3>1. q # got /\ closetRefs'[q] = closetRefs[q]
      BY <1>8, <1>11, <1>14, <2>4, LostIsNoPicture
    <3>2. Cardinality(Hung(q)') = Cardinality(Hung(q))
      BY <1>10, <2>4, <3>1
    <3>3. CASE closetRefs[q] = None
      <4>1. Hung(q) = {}
        BY <3>3 DEF PicturesCounted
      <4>2. \A u : u \in Hung(q)' => u \in Hung(q)
        <5> SUFFICES ASSUME NEW u \in Two \X Closet!Slots, assets'[u[1]][u[2]] = q
                     PROVE  assets[u[1]][u[2]] = q
          BY DEF Hung
        <5>1. u[1] \in Two /\ u[2] \in Closet!Slots
          OBVIOUS
        <5> QED BY <1>10, <3>1, <5>1
      <4> QED BY <3>1, <3>3, <4>1, <4>2
    <3>4. CASE closetRefs[q] # None
      BY <1>12, <1>19, <2>1, <3>1, <3>2, <3>4
    <3> QED BY <3>3, <3>4
  <2> QED BY <2>2, <2>3, <2>4
<1>16. /\ preview' \in [Two -> Two \cup {Lost, None}]
       /\ \A k \in Two \ {i} : preview'[k] = preview[k]
       /\ preview'[i] = Closet!PreviewAfter(preview[i], old, got, held)
  <2>1. Closet!PreviewAfter(preview[i], old, got, held) \in Two \cup {Lost, None}
    BY <1>8, <1>9 DEF Closet!PreviewAfter
  <2> QED BY <1>7, <1>9, <2>1
<1>17. PreviewsHang'
  <2> SUFFICES ASSUME NEW k \in Two, preview'[k] # None
               PROVE  \E t \in Closet!Slots : assets'[k][t] = preview'[k]
    BY DEF PreviewsHang
  <2>1. CASE k # i
    BY <1>10, <1>16, <2>1 DEF PreviewsHang
  <2>2. CASE k = i
    <3>1. CASE preview'[i] = got
      BY <1>10, <2>2, <3>1
    <3>2. CASE preview'[i] # got
      <4>1. /\ preview'[i] = preview[i] /\ preview[i] # None
            /\ preview[i] # old \/ \E t \in Closet!Slots : held[t] = old
        BY <1>16, <3>2 DEF Closet!PreviewAfter
      <4>2. CASE preview[i] # old
        <5>1. PICK t \in Closet!Slots : assets[i][t] = preview[i]
          BY <4>1 DEF PreviewsHang
        <5>2. t # s
          BY <1>4, <4>2, <5>1
        <5> QED BY <1>10, <2>2, <4>1, <5>1, <5>2
      <4>3. CASE preview[i] = old /\ \E t \in Closet!Slots : held[t] = old
        <5>1. assets'[i] = held
          BY <1>7, <1>9
        <5> QED BY <2>2, <4>1, <4>3, <5>1
      <4> QED BY <4>1, <4>2, <4>3
    <3> QED BY <3>1, <3>2
  <2> QED BY <2>1, <2>2
<1>18. ForSale'
  <2>1. \A q \in Two : closetRequest'[q] # None => closetRequest'[q] = closetRequest[q]
    BY <1>7, ClosetSlots
  <2>2. \A k \in Two : Required(k) => Required(k)'
    <3>1. "primary" \in Closet!Slots /\ got # None
      BY <1>8, NoneIsNoValue, LostIsNoPicture DEF Closet!Slots
    <3> QED BY <1>7, <1>10, <3>1 DEF Required
  <2>3. \A q \in Two : closetRequest[q] # None /\ closetRequest[q].step \in {"create", "patch"}
                       => closetRequest[q].of \in Two
    BY DEF SlotsTyped, Carried, StatusSlot
  <2> QED BY <1>7, <2>1, <2>2, <2>3 DEF ForSale
<1> QED BY <1>10, <1>14, <1>15, <1>16, <1>17, <1>18

LEMMA ClosetNext == ClosetInv /\ [Next]_vars => ClosetInv'
<1> SUFFICES ASSUME ClosetInv, [Next]_vars PROVE ClosetInv'
  OBVIOUS
<1>i. /\ ClosetTyped /\ SlotsTyped /\ PicturesCounted /\ PreviewsHang /\ ForSale
      /\ OneEditor /\ SoldWhole /\ OneTeller
  BY DEF ClosetInv
<1>a. ASSUME NEW r \in Two, NEW new, new # None => Carried(new),
             closetRequest' = [closetRequest EXCEPT ![r] = new],
             Out(closetRequest[r], BundleSteps) /\ Out(closetRequest[r], Closet!Telling),
             Out(new, BundleSteps) /\ Out(new, Closet!Telling),
             UNCHANGED <<links, offers, choice, sold, torn, mixed, broken>>,
             UNCHANGED <<closetActive, worn, closetSeen, overlap, closetUnsaid>>
      PROVE  /\ SlotsTyped' /\ OneEditor' /\ SoldWhole' /\ OneTeller'
             /\ closetRequest'[r] = new /\ \A q \in Two \ {r} : closetRequest'[q] = closetRequest[q]
  <2>1. SlotsTyped' /\ closetRequest'[r] = new /\ \A q \in Two \ {r} : closetRequest'[q] = closetRequest[q]
    BY <1>i, <1>a, ClosetSlots
  <2>2. OneEditor' /\ SoldWhole'
    BY <1>i, <1>a, <2>1, BundleStays
  <2>3. OneTeller'
    BY <1>i, <1>a, <2>1, TellingStays, WearingStays
  <2> QED BY <2>1, <2>2, <2>3
<1>b. ASSUME NEW r \in Two, NEW new, new # None => Carried(new),
             closetRequest' = [closetRequest EXCEPT ![r] = new],
             Out(closetRequest[r], Closet!Telling),
             Out(new, ForSaleSteps) /\ Out(new, Closet!Telling),
             UNCHANGED <<category, status, assets, preview, closetRefs, twins, tightened>>,
             UNCHANGED <<worn, closetSeen, overlap>>,
             closetUnsaid => closetUnsaid',
             closetUnsaid' \/ Closet!ResolveEquipped' = Closet!ResolveEquipped
      PROVE  /\ SlotsTyped' /\ ForSale' /\ PicturesCounted' /\ PreviewsHang' /\ OneTeller'
             /\ closetRequest'[r] = new /\ \A q \in Two \ {r} : closetRequest'[q] = closetRequest[q]
  <2>1. SlotsTyped' /\ closetRequest'[r] = new /\ \A q \in Two \ {r} : closetRequest'[q] = closetRequest[q]
    BY <1>i, <1>b, ClosetSlots
  <2>2. ForSale' /\ PicturesCounted' /\ PreviewsHang'
    BY <1>i, <1>b, <2>1, CatalogueStays
  <2>3. OneTeller'
    BY <1>i, <1>b, <2>1, TellingStays
  <2> QED BY <2>1, <2>2, <2>3
<1>c. ASSUME NEW r \in Two, NEW new, new # None => Carried(new),
             closetRequest' = [closetRequest EXCEPT ![r] = new],
             Out(closetRequest[r], BundleSteps),
             Out(new, ForSaleSteps) /\ Out(new, BundleSteps),
             UNCHANGED <<category, status, assets, preview, closetRefs, twins, tightened>>,
             UNCHANGED <<links, offers, choice, sold, torn, mixed, broken>>
      PROVE  /\ SlotsTyped' /\ ForSale' /\ PicturesCounted' /\ PreviewsHang' /\ OneEditor' /\ SoldWhole'
             /\ closetRequest'[r] = new /\ \A q \in Two \ {r} : closetRequest'[q] = closetRequest[q]
  <2>1. SlotsTyped' /\ closetRequest'[r] = new /\ \A q \in Two \ {r} : closetRequest'[q] = closetRequest[q]
    BY <1>i, <1>c, ClosetSlots
  <2>2. ForSale' /\ PicturesCounted' /\ PreviewsHang'
    BY <1>i, <1>c, <2>1, CatalogueStays
  <2>3. OneEditor' /\ SoldWhole'
    BY <1>i, <1>c, <2>1, BundleStays
  <2> QED BY <2>1, <2>2, <2>3
<1>d. UNCHANGED <<category, status, assets, preview, closetRefs, links, closetActive, worn>> => ClosetTyped'
  BY <1>i DEF ClosetTyped
<1>1. CASE Closet!PatchCategory
  <2>1. /\ UNCHANGED <<status, assets, preview, closetRefs, twins, links, offers, choice, sold, torn, mixed, broken,
                       closetActive, worn, closetSeen, overlap, closetUnsaid, closetRequest>>
        /\ \E p \in Closet!Places, q \in BOOLEAN :
             category' = [slot |-> p, required |-> q] /\ tightened' = (tightened \/ (q /\ ~ category.required))
    BY <1>1 DEF Closet!PatchCategory, Closet!bundle, Closet!closet
  <2>2. ClosetTyped' /\ SlotsTyped'
    BY <1>i, <2>1 DEF ClosetTyped, SlotsTyped
  <2>3. PicturesCounted' /\ PreviewsHang'
    <3>1. \A p : Hung(p)' = Hung(p)
      BY <2>1 DEF Hung
    <3> QED BY <1>i, <2>1, <3>1 DEF PicturesCounted, PreviewsHang
  <2>4. ForSale'
    <3>1. ~ tightened' => ~ tightened /\ \A i \in Two : Required(i) => Required(i)'
      <4>1. PICK p \in Closet!Places, q \in BOOLEAN :
              category' = [slot |-> p, required |-> q] /\ tightened' = (tightened \/ (q /\ ~ category.required))
        BY <2>1
      <4>2. (category'.required <=> q) /\ category.required \in BOOLEAN /\ assets' = assets
        BY <1>i, <2>1, <4>1 DEF ClosetTyped
      <4>3. ~ tightened' => ~ tightened /\ (q => category.required)
        BY <4>1
      <4> QED BY <4>2, <4>3 DEF Required
    <3>2. \A q \in Two : closetRequest[q] # None /\ closetRequest[q].step \in {"create", "patch"}
                         => closetRequest[q].of \in Two
      BY <1>i DEF SlotsTyped, Carried, StatusSlot
    <3> QED BY <1>i, <2>1, <3>1, <3>2 DEF ForSale
  <2>5. OneEditor' /\ SoldWhole'
    BY <1>i, <2>1, BundleStays
  <2>6. OneTeller'
    BY <1>i, <2>1, TellingStays, WearingStays
  <2> QED BY <2>2, <2>3, <2>4, <2>5, <2>6 DEF ClosetInv
<1>2. ASSUME NEW i \in Two, Closet!AcquireItem(i) \/ Closet!AdminGrant(i) \/ Closet!Expires(i)
      PROVE  ClosetInv'
  <2>1. /\ UNCHANGED <<category, status, assets, preview, closetRefs, twins, tightened, closetRequest>>
        /\ UNCHANGED <<links, offers, choice, sold, torn, mixed, broken, worn, closetSeen, overlap>>
        /\ closetActive' \in {closetActive \cup {i}, closetActive \ {i}}
        /\ closetUnsaid' = (closetUnsaid \/ \E p \in Closet!Places : worn[p] = i)
    BY <1>2
       DEF Closet!AcquireItem, Closet!AdminGrant, Closet!Owns, Closet!Gains, Closet!Expires,
           Closet!Unsaid,
       Closet!catalog, Closet!bundle
  <2>2. ClosetTyped' /\ SlotsTyped'
    BY <1>i, <2>1 DEF ClosetTyped, SlotsTyped
  <2>3. ForSale' /\ PicturesCounted' /\ PreviewsHang'
    BY <1>i, <2>1, CatalogueStays
  <2>4. OneEditor' /\ SoldWhole'
    BY <1>i, <2>1, BundleStays
  <2>5. OneTeller'
    <3>1. closetUnsaid' \/ Closet!ResolveEquipped' = Closet!ResolveEquipped
      BY <2>1 DEF Closet!ResolveEquipped
    <3> QED BY <1>i, <2>1, <3>1, TellingStays
  <2> QED BY <2>2, <2>3, <2>4, <2>5 DEF ClosetInv
<1>3. ASSUME NEW r \in Two, NEW i \in Two, Closet!CreateItem(r, i) \/ Closet!PatchItem(r, i)
      PROVE  ClosetInv'
  <2>1. PICK does \in {"create", "patch"}, s \in {"draft", "published", "archived"} :
          /\ s = "published" => Required(i)
          /\ Closet!Begins(r, does, i, s, None)
    <3>1. CASE Closet!CreateItem(r, i)
      <4>1. PICK s \in {"draft", "published", "archived"} :
              /\ s = "published" => Closet!ValidateItem([t \in Closet!Slots |-> None])
              /\ Closet!Begins(r, "create", i, s, None)
        BY <3>1 DEF Closet!CreateItem
      <4>2. s = "published" => ~ category.required
        BY <4>1 DEF Closet!ValidateItem, Closet!Slots
      <4> QED BY <4>1, <4>2 DEF Required
    <3>2. CASE Closet!PatchItem(r, i)
      BY <3>2 DEF Closet!PatchItem, Closet!ValidateItem, Required
    <3> QED BY <1>3, <3>1, <3>2
  <2> DEFINE new == Closet!Slot(does, i, s, None)
  <2>2. /\ closetRequest[r] = None /\ closetRequest' = [closetRequest EXCEPT ![r] = new]
        /\ UNCHANGED <<category, status, assets, preview, closetRefs, twins, tightened>>
        /\ UNCHANGED <<links, offers, choice, sold, torn, mixed, broken>>
        /\ UNCHANGED <<closetActive, worn, closetSeen, overlap, closetUnsaid>>
    BY <1>3, <2>1
       DEF Closet!CreateItem, Closet!PatchItem, Closet!Begins, Closet!catalog, Closet!bundle,
           Closet!closet
  <2>3. new.step = does /\ new.of = i /\ new.at = s /\ Carried(new)
    <3>1. new \in StatusSlot
      BY DEF StatusSlot, Closet!Slot
    <3> QED BY <3>1, ClosetFields DEF Carried
  <2> HIDE DEF new
  <2>4. /\ SlotsTyped' /\ OneEditor' /\ SoldWhole' /\ OneTeller'
        /\ closetRequest'[r] = new /\ \A q \in Two \ {r} : closetRequest'[q] = closetRequest[q]
    <3>1. /\ Out(closetRequest[r], BundleSteps) /\ Out(closetRequest[r], Closet!Telling)
          /\ Out(new, BundleSteps) /\ Out(new, Closet!Telling)
      BY <2>2, <2>3 DEF Out, BundleSteps, Closet!Telling
    <3> QED BY <1>a, <2>2, <2>3, <3>1
  <2>5. PicturesCounted' /\ PreviewsHang'
    <3>1. \A p : Hung(p)' = Hung(p)
      BY <2>2 DEF Hung
    <3> QED BY <1>i, <2>2, <3>1 DEF PicturesCounted, PreviewsHang
  <2>6. ForSale'
    <3>1. \A k : Required(k)' <=> Required(k)
      BY <2>2 DEF Required
    <3> QED BY <1>i, <2>1, <2>2, <2>3, <2>4, <3>1 DEF ForSale
  <2> QED BY <1>d, <2>2, <2>4, <2>5, <2>6 DEF ClosetInv
<1>4. ASSUME NEW r \in Two, NEW i \in Two, NEW s \in Closet!Slots, NEW p \in Two,
             Closet!UploadItemAsset(r, i, s, p)
      PROVE  ClosetInv'
  <2> DEFINE new == Closet!Slot("upload", i, s, [picture |-> p, row |-> closetRefs[p] # None])
  <2>2. /\ closetRequest[r] = None /\ closetRequest' = [closetRequest EXCEPT ![r] = new]
        /\ UNCHANGED <<category, status, assets, preview, closetRefs, twins, tightened>>
        /\ UNCHANGED <<links, offers, choice, sold, torn, mixed, broken>>
        /\ UNCHANGED <<closetActive, worn, closetSeen, overlap, closetUnsaid>>
    BY <1>4 DEF Closet!UploadItemAsset, Closet!Begins, Closet!catalog, Closet!bundle, Closet!closet
  <2>3. new.step = "upload" /\ Carried(new)
    <3>1. \A b \in BOOLEAN : Closet!Slot("upload", i, s, [picture |-> p, row |-> b]) \in UploadSlot
      BY DEF UploadSlot, Closet!Slot
    <3>2. (closetRefs[p] # None) \in BOOLEAN
      OBVIOUS
    <3>3. new \in UploadSlot
      BY <3>1, <3>2
    <3>4. new.step = "upload"
      BY ClosetFields
    <3> QED BY <3>3, <3>4 DEF Carried
  <2> HIDE DEF new
  <2>4. /\ SlotsTyped' /\ OneEditor' /\ SoldWhole' /\ OneTeller'
        /\ closetRequest'[r] = new /\ \A q \in Two \ {r} : closetRequest'[q] = closetRequest[q]
    <3>1. /\ Out(closetRequest[r], BundleSteps) /\ Out(closetRequest[r], Closet!Telling)
          /\ Out(new, BundleSteps) /\ Out(new, Closet!Telling)
      BY <2>2, <2>3 DEF Out, BundleSteps, Closet!Telling
    <3> QED BY <1>a, <2>2, <2>3, <3>1
  <2>5. ForSale' /\ PicturesCounted' /\ PreviewsHang'
    <3>1. Out(new, ForSaleSteps)
      BY <2>3 DEF Out, ForSaleSteps
    <3> QED BY <1>i, <2>2, <2>4, <3>1, CatalogueStays
  <2> QED BY <1>d, <2>2, <2>4, <2>5 DEF ClosetInv
<1>5. ASSUME NEW r \in Two, Closet!StatusWritten(r) PROVE ClosetInv'
  <2>1. PICK i \in Two, s \in {"draft", "published", "archived"} :
          i = closetRequest[r].of /\ s = closetRequest[r].at
    BY <1>i, <1>5 DEF SlotsTyped, Carried, StatusSlot, Closet!StatusWritten, Closet!Doing
  <2>2. /\ closetRequest[r] # None /\ closetRequest[r].step \in {"create", "patch"}
        /\ closetRequest' = [closetRequest EXCEPT ![r] = None] /\ status' = [status EXCEPT ![i] = s]
        /\ UNCHANGED <<category, assets, preview, closetRefs, twins, tightened>>
        /\ UNCHANGED <<links, offers, choice, sold, torn, mixed, broken>>
        /\ UNCHANGED <<closetActive, worn, closetSeen, overlap, closetUnsaid>>
    BY <1>5, <2>1 DEF Closet!StatusWritten, Closet!Doing, Closet!Ends, Closet!bundle, Closet!closet
  <2>3. /\ SlotsTyped' /\ OneEditor' /\ SoldWhole' /\ OneTeller'
        /\ closetRequest'[r] = None /\ \A q \in Two \ {r} : closetRequest'[q] = closetRequest[q]
    <3>1. /\ Out(closetRequest[r], BundleSteps) /\ Out(closetRequest[r], Closet!Telling)
          /\ Out(None, BundleSteps) /\ Out(None, Closet!Telling)
      BY <2>2 DEF Out, BundleSteps, Closet!Telling
    <3> QED BY <1>a, <2>2, <3>1
  <2>4. PicturesCounted' /\ PreviewsHang'
    <3>1. \A p : Hung(p)' = Hung(p)
      BY <2>2 DEF Hung
    <3> QED BY <1>i, <2>2, <3>1 DEF PicturesCounted, PreviewsHang
  <2>5. ForSale'
    <3>1. \A k : Required(k)' <=> Required(k)
      BY <2>2 DEF Required
    <3>2. ~ tightened => (s = "published" => Required(i))
      BY <1>i, <2>1, <2>2 DEF ForSale
    <3>3. \A k \in Two : status'[k] = IF k = i THEN s ELSE status[k]
      BY <1>i, <2>2 DEF ClosetTyped
    <3> QED BY <1>i, <2>2, <2>3, <3>1, <3>2, <3>3 DEF ForSale
  <2>6. ClosetTyped'
    BY <1>i, <2>2 DEF ClosetTyped
  <2> QED BY <2>3, <2>4, <2>5, <2>6 DEF ClosetInv
<1>6. ASSUME NEW r \in Two, Closet!AssetSaved(r) PROVE ClosetInv'
  <2>1. /\ closetRequest[r] # None /\ closetRequest[r].step = "upload"
        /\ closetRequest' = [closetRequest EXCEPT ![r] = None]
        /\ UNCHANGED <<category, status>>
        /\ UNCHANGED <<links, offers, choice, sold, torn, mixed, broken>>
        /\ UNCHANGED <<closetActive, worn, closetSeen, overlap, closetUnsaid>>
    BY <1>6 DEF Closet!AssetSaved, Closet!Doing, Closet!Ends, Closet!bundle, Closet!closet
  <2>2. SlotsTyped' /\ OneEditor' /\ SoldWhole' /\ OneTeller'
    <3>1. /\ Out(closetRequest[r], BundleSteps) /\ Out(closetRequest[r], Closet!Telling)
          /\ Out(None, BundleSteps) /\ Out(None, Closet!Telling)
      BY <2>1 DEF Out, BundleSteps, Closet!Telling
    <3> QED BY <1>a, <2>1, <3>1
  <2>3. /\ assets' \in [Two -> [Closet!Slots -> Two \cup {Lost, None}]]
        /\ preview' \in [Two -> Two \cup {Lost, None}] /\ closetRefs' \in [Two -> Nat \cup {None}]
        /\ PicturesCounted' /\ PreviewsHang' /\ ForSale'
    BY <1>i, <1>6, PictureSaved
  <2>4. ClosetTyped'
    BY <1>i, <2>1, <2>3 DEF ClosetTyped
  <2> QED BY <2>2, <2>3, <2>4 DEF ClosetInv
<1>7. ASSUME NEW r \in Two, NEW chosen \in SUBSET Two, Closet!SetBundleItems(r, chosen) PROVE ClosetInv'
  <2> DEFINE new == Closet!Slot("edit", chosen, None, None)
  <2>1. /\ closetRequest[r] = None /\ closetRequest' = [closetRequest EXCEPT ![r] = new]
        /\ offers' = offers \cup {chosen} /\ choice' = chosen /\ mixed' = Closet!Editing
        /\ broken' = FALSE
        /\ UNCHANGED <<category, status, assets, preview, closetRefs, twins, tightened>>
        /\ UNCHANGED <<links, sold, torn, closetActive, worn, closetSeen, overlap, closetUnsaid>>
    BY <1>7 DEF Closet!SetBundleItems, Closet!Begins, Closet!catalog, Closet!closet
  <2>2. new.step = "edit" /\ new.of = chosen /\ Carried(new)
    <3>1. new \in EditSlot
      BY DEF EditSlot, Closet!Slot
    <3> QED BY <3>1, ClosetFields DEF Carried
  <2> HIDE DEF new
  <2>3. new # None
    BY <2>2, NoneIsNoValue DEF Carried
  <2>4. /\ SlotsTyped' /\ ForSale' /\ PicturesCounted' /\ PreviewsHang' /\ OneTeller'
        /\ closetRequest'[r] = new /\ \A q \in Two \ {r} : closetRequest'[q] = closetRequest[q]
    <3>1. /\ Out(closetRequest[r], Closet!Telling) /\ Out(new, ForSaleSteps) /\ Out(new, Closet!Telling)
      BY <2>1, <2>2 DEF Out, ForSaleSteps, Closet!Telling
    <3> QED BY <1>b, <2>1, <2>2, <3>1, WearingStays
  <2>5. OneEditor'
    <3>1. ~ mixed' => \A q \in Two : ~ Edits(q)
      BY <2>1 DEF Edits, Closet!Editing, Closet!Busy, Closet!Doing
    <3>2. ~ mixed' => \A q \in Two \ {r} : ~ Edits(q)'
      BY <2>4, <3>1 DEF Edits
    <3>3. Edits(r)'
      BY <2>2, <2>3, <2>4 DEF Edits
    <3> QED BY <2>1, <2>2, <2>4, <3>2, <3>3 DEF OneEditor
  <2>6. SoldWhole'
    <3>1. \A q \in Two : closetRequest'[q] # None /\ closetRequest'[q].step = "buy"
                         => q # r /\ closetRequest'[q] = closetRequest[q]
      BY <2>2, <2>4
    <3> QED BY <1>i, <2>1, <3>1 DEF SoldWhole
  <2> QED BY <1>d, <2>1, <2>4, <2>5, <2>6 DEF ClosetInv
<1>8. ASSUME NEW r \in Two, Closet!LinksDeleted(r) PROVE ClosetInv'
  <2>1. PICK of \in SUBSET Two : of = closetRequest[r].of
    BY <1>i, <1>8 DEF SlotsTyped, Carried, EditSlot, Closet!LinksDeleted, Closet!Doing
  <2> DEFINE new == Closet!Slot("fill", of, None, None)
  <2>2. /\ closetRequest[r] # None /\ closetRequest[r].step = "edit"
        /\ closetRequest' = [closetRequest EXCEPT ![r] = new] /\ links' = {}
        /\ UNCHANGED <<category, status, assets, preview, closetRefs, twins, tightened>>
        /\ UNCHANGED <<offers, choice, sold, torn, mixed, broken, closetActive, worn, closetSeen, overlap, closetUnsaid>>
    BY <1>8, <2>1 DEF Closet!LinksDeleted, Closet!Doing, Closet!Goes, Closet!catalog, Closet!closet
  <2>3. new.step = "fill" /\ new.of = of /\ Carried(new)
    <3>1. new \in EditSlot
      BY DEF EditSlot, Closet!Slot
    <3> QED BY <3>1, ClosetFields DEF Carried
  <2> HIDE DEF new
  <2>4. new # None
    BY <2>3, NoneIsNoValue DEF Carried
  <2>5. /\ SlotsTyped' /\ ForSale' /\ PicturesCounted' /\ PreviewsHang' /\ OneTeller'
        /\ closetRequest'[r] = new /\ \A q \in Two \ {r} : closetRequest'[q] = closetRequest[q]
    <3>1. /\ Out(closetRequest[r], Closet!Telling) /\ Out(new, ForSaleSteps) /\ Out(new, Closet!Telling)
      BY <2>2, <2>3 DEF Out, ForSaleSteps, Closet!Telling
    <3> QED BY <1>b, <2>2, <2>3, <3>1, WearingStays
  <2>6. OneEditor'
    <3>1. \A q \in Two : Edits(q)' <=> Edits(q)
      BY <2>2, <2>3, <2>4, <2>5 DEF Edits
    <3>2. Edits(r)
      BY <2>2 DEF Edits
    <3>3. ~ mixed => of = choice /\ \A q \in Two : Edits(q) => q = r
      BY <1>i, <2>1, <2>2, <3>2 DEF OneEditor
    <3> QED BY <2>2, <2>3, <2>5, <3>1, <3>2, <3>3 DEF OneEditor
  <2>7. SoldWhole'
    BY <1>i, <2>2, <2>3, <2>5 DEF SoldWhole
  <2>8. ClosetTyped'
    BY <1>i, <2>2 DEF ClosetTyped
  <2> QED BY <2>5, <2>6, <2>7, <2>8 DEF ClosetInv
<1>9. ASSUME NEW r \in Two, Closet!LinkInserted(r) \/ Closet!BundleFilled(r) \/ Closet!LinkFails(r)
      PROVE  ClosetInv'
  <2>1. PICK of \in SUBSET Two : of = closetRequest[r].of
    BY <1>i, <1>9 DEF SlotsTyped, Carried, EditSlot, Closet!LinkInserted, Closet!BundleFilled,
                      Closet!LinkFails, Closet!Doing
  <2>2. /\ closetRequest[r] # None /\ closetRequest[r].step = "fill"
        /\ UNCHANGED <<category, status, assets, preview, closetRefs, twins, tightened>>
        /\ UNCHANGED <<offers, choice, sold, torn, mixed, closetActive, worn, closetSeen, overlap, closetUnsaid>>
    BY <1>9 DEF Closet!LinkInserted, Closet!BundleFilled, Closet!LinkFails, Closet!Doing,
                Closet!catalog, Closet!bundle, Closet!closet
  <2>i. \/ /\ closetRequest' = [closetRequest EXCEPT ![r] = None] /\ links' = links
           /\ \/ of = {} /\ broken' = broken
              \/ broken' = TRUE
        \/ \E i \in of : /\ links' = links \cup {i} /\ broken' = broken
                         /\ closetRequest' = [closetRequest EXCEPT ![r] = Closet!Slot("fill", of \ {i}, None, None)]
    BY <1>9, <2>1
       DEF Closet!LinkInserted, Closet!BundleFilled, Closet!LinkFails, Closet!Goes, Closet!Ends,
           Closet!bundle
  <2>3. Edits(r) /\ (~ mixed => /\ links \cup of = choice /\ links \cap of = {}
                                /\ \A q \in Two : Edits(q) => q = r)
    <3>1. Edits(r)
      BY <2>2 DEF Edits
    <3> QED BY <1>i, <2>1, <2>2, <3>1 DEF OneEditor
  <2>4. CASE /\ closetRequest' = [closetRequest EXCEPT ![r] = None] /\ links' = links
             /\ \/ of = {} /\ broken' = broken
                \/ broken' = TRUE
    <3>1. /\ SlotsTyped' /\ ForSale' /\ PicturesCounted' /\ PreviewsHang' /\ OneTeller'
          /\ closetRequest'[r] = None /\ \A q \in Two \ {r} : closetRequest'[q] = closetRequest[q]
      <4>1. /\ Out(closetRequest[r], Closet!Telling) /\ Out(None, ForSaleSteps) /\ Out(None, Closet!Telling)
        BY <2>2 DEF Out, ForSaleSteps, Closet!Telling
      <4> QED BY <1>b, <2>2, <2>4, <4>1, WearingStays
    <3>2. OneEditor'
      <4>1. ~ mixed => \A q \in Two : ~ Edits(q)'
        BY <2>3, <3>1 DEF Edits
      <4>2. ~ mixed => links' \subseteq choice /\ (broken' \/ links' = choice)
        BY <2>3, <2>4
      <4> QED BY <2>2, <4>1, <4>2 DEF OneEditor
    <3>3. SoldWhole'
      BY <1>i, <2>2, <3>1 DEF SoldWhole
    <3> QED BY <1>d, <2>2, <2>4, <3>1, <3>2, <3>3 DEF ClosetInv
  <2>5. ASSUME NEW i \in of, links' = links \cup {i}, broken' = broken,
               closetRequest' = [closetRequest EXCEPT ![r] = Closet!Slot("fill", of \ {i}, None, None)]
        PROVE  ClosetInv'
    <3> DEFINE new == Closet!Slot("fill", of \ {i}, None, None)
    <3>1. new.step = "fill" /\ new.of = of \ {i} /\ Carried(new) /\ closetRequest' = [closetRequest EXCEPT ![r] = new]
      <4>1. new \in EditSlot
        BY DEF EditSlot, Closet!Slot
      <4> QED BY <2>5, <4>1, ClosetFields DEF Carried
    <3> HIDE DEF new
    <3>2. new # None
      BY <3>1, NoneIsNoValue DEF Carried
    <3>3. /\ SlotsTyped' /\ ForSale' /\ PicturesCounted' /\ PreviewsHang' /\ OneTeller'
          /\ closetRequest'[r] = new /\ \A q \in Two \ {r} : closetRequest'[q] = closetRequest[q]
      <4>1. /\ Out(closetRequest[r], Closet!Telling) /\ Out(new, ForSaleSteps) /\ Out(new, Closet!Telling)
        BY <2>2, <3>1 DEF Out, ForSaleSteps, Closet!Telling
      <4> QED BY <1>b, <2>2, <3>1, <4>1, WearingStays
    <3>4. OneEditor'
      <4>1. \A q \in Two : Edits(q)' <=> Edits(q)
        BY <2>2, <3>1, <3>2, <3>3 DEF Edits
      <4>2. ~ mixed => links' \cup (of \ {i}) = choice /\ links' \cap (of \ {i}) = {}
        BY <2>3, <2>5
      <4> QED BY <2>2, <2>3, <3>1, <3>3, <4>1, <4>2 DEF OneEditor
    <3>5. SoldWhole'
      BY <1>i, <2>2, <3>1, <3>3 DEF SoldWhole
    <3>6. ClosetTyped'
      BY <1>i, <2>2, <2>5 DEF ClosetTyped
    <3> QED BY <3>3, <3>4, <3>5, <3>6 DEF ClosetInv
  <2> QED BY <2>i, <2>4, <2>5
<1>10. ASSUME NEW r \in Two, Closet!AcquireBundle(r) PROVE ClosetInv'
  <2> DEFINE new == Closet!Slot("buy", links, None, Closet!Editing \/ mixed \/ broken)
  <2>1. /\ closetRequest[r] = None /\ closetRequest' = [closetRequest EXCEPT ![r] = new]
        /\ UNCHANGED <<category, status, assets, preview, closetRefs, twins, tightened>>
        /\ UNCHANGED <<links, offers, choice, sold, torn, mixed, broken, closetActive, worn, closetSeen, overlap, closetUnsaid>>
    BY <1>10 DEF Closet!AcquireBundle, Closet!Begins, Closet!catalog, Closet!bundle, Closet!closet
  <2>2. new.step = "buy" /\ new.of = links /\ Carried(new) /\ (new.was <=> Closet!Editing \/ mixed \/ broken)
    <3>1. links \in SUBSET Two
      BY <1>i DEF ClosetTyped
    <3>2. \A b \in BOOLEAN : Closet!Slot("buy", links, None, b) \in BuySlot
      BY <3>1 DEF BuySlot, Closet!Slot
    <3>3. (Closet!Editing \/ mixed \/ broken) \in BOOLEAN
      OBVIOUS
    <3>4. new \in BuySlot
      BY <3>2, <3>3
    <3>5. new.step = "buy" /\ new.of = links
      BY ClosetFields
    <3>6. \A b \in BOOLEAN : Closet!Slot("buy", links, None, b).was <=> b
      BY ClosetFields
    <3>7. new.was <=> Closet!Editing \/ mixed \/ broken
      BY <3>3, <3>6
    <3> QED BY <3>4, <3>5, <3>7 DEF Carried
  <2> HIDE DEF new
  <2>3. new # None
    BY <2>2, NoneIsNoValue DEF Carried
  <2>4. /\ SlotsTyped' /\ ForSale' /\ PicturesCounted' /\ PreviewsHang' /\ OneTeller'
        /\ closetRequest'[r] = new /\ \A q \in Two \ {r} : closetRequest'[q] = closetRequest[q]
    <3>1. /\ Out(closetRequest[r], Closet!Telling) /\ Out(new, ForSaleSteps) /\ Out(new, Closet!Telling)
      BY <2>1, <2>2 DEF Out, ForSaleSteps, Closet!Telling
    <3> QED BY <1>b, <2>1, <2>2, <3>1, WearingStays
  <2>5. \A q \in Two : (Edits(q)' <=> Edits(q)) /\ (Edits(q) => closetRequest'[q] = closetRequest[q])
    BY <2>1, <2>2, <2>4 DEF Edits
  <2>6. OneEditor'
    BY <1>i, <2>1, <2>5 DEF OneEditor
  <2>7. SoldWhole'
    <3>1. ~ Closet!Editing => \A q \in Two : ~ Edits(q)
      BY DEF Edits, Closet!Editing, Closet!Busy, Closet!Doing
    <3>2. new.was \/ new.of \in offers
      BY <1>i, <2>2, <3>1 DEF OneEditor, SoldWhole
    <3> QED BY <1>i, <2>1, <2>4, <3>2 DEF SoldWhole
  <2> QED BY <1>d, <2>1, <2>4, <2>6, <2>7 DEF ClosetInv
<1>11. ASSUME NEW r \in Two, Closet!Granted(r) PROVE ClosetInv'
  <2>1. PICK of \in SUBSET Two : of = closetRequest[r].of
    BY <1>i, <1>11 DEF SlotsTyped, Carried, BuySlot, Closet!Granted, Closet!Doing
  <2>2. /\ closetRequest[r] # None /\ closetRequest[r].step = "buy"
        /\ closetRequest' = [closetRequest EXCEPT ![r] = None]
        /\ closetActive' = closetActive \cup of /\ sold' = of /\ torn' = closetRequest[r].was
        /\ closetUnsaid' = (closetUnsaid \/ \E p \in Closet!Places : worn[p] \in of \ closetActive)
        /\ UNCHANGED <<category, status, assets, preview, closetRefs, twins, tightened>>
        /\ UNCHANGED <<links, offers, choice, mixed, broken, worn, closetSeen, overlap>>
    BY <1>11, <2>1
       DEF Closet!Granted, Closet!Doing, Closet!Ends, Closet!Gains, Closet!Unsaid, Closet!catalog
  <2>3. /\ SlotsTyped' /\ ForSale' /\ PicturesCounted' /\ PreviewsHang' /\ OneTeller'
        /\ closetRequest'[r] = None /\ \A q \in Two \ {r} : closetRequest'[q] = closetRequest[q]
    <3>1. /\ Out(closetRequest[r], Closet!Telling) /\ Out(None, ForSaleSteps) /\ Out(None, Closet!Telling)
      BY <2>2 DEF Out, ForSaleSteps, Closet!Telling
    <3>2. (closetUnsaid => closetUnsaid') /\ (closetUnsaid' \/ Closet!ResolveEquipped' = Closet!ResolveEquipped)
      BY <2>2 DEF Closet!ResolveEquipped
    <3> QED BY <1>b, <2>2, <3>1, <3>2
  <2>4. \A q \in Two : (Edits(q)' <=> Edits(q)) /\ (Edits(q) => closetRequest'[q] = closetRequest[q])
    BY <2>2, <2>3 DEF Edits
  <2>5. OneEditor'
    BY <1>i, <2>2, <2>4 DEF OneEditor
  <2>6. SoldWhole'
    <3>1. torn' \/ sold' \in offers
      BY <1>i, <2>1, <2>2 DEF SoldWhole
    <3> QED BY <1>i, <2>2, <2>3, <3>1 DEF SoldWhole
  <2>7. ClosetTyped'
    BY <1>i, <2>2 DEF ClosetTyped
  <2> QED BY <2>3, <2>5, <2>6, <2>7 DEF ClosetInv
<1>12. ASSUME NEW r \in Two, (\E i \in Two : Closet!EquipSlot(r, i)) \/ \E p \in Closet!Places : Closet!UnequipSlot(r, p)
       PROVE  ClosetInv'
  <2>1. PICK of \in Two \cup {None}, at \in Closet!Places :
          /\ overlap' = Closet!Busy(Closet!Telling) /\ Closet!Begins(r, "wear", of, at, None)
          /\ UNCHANGED <<category, status, assets, preview, closetRefs, twins, tightened>>
          /\ UNCHANGED <<links, offers, choice, sold, torn, mixed, broken, closetActive, worn, closetSeen, closetUnsaid>>
    <3>1. ASSUME NEW i \in Two, Closet!EquipSlot(r, i)
          PROVE  /\ overlap' = Closet!Busy(Closet!Telling) /\ Closet!Begins(r, "wear", i, category.slot, None)
                 /\ UNCHANGED <<category, status, assets, preview, closetRefs, twins, tightened>>
                 /\ UNCHANGED <<links, offers, choice, sold, torn, mixed, broken, closetActive, worn, closetSeen, closetUnsaid>>
      BY <3>1 DEF Closet!EquipSlot, Closet!catalog, Closet!bundle
    <3>2. category.slot \in Closet!Places
      BY <1>i DEF ClosetTyped
    <3>3. ASSUME NEW p \in Closet!Places, Closet!UnequipSlot(r, p)
          PROVE  /\ overlap' = Closet!Busy(Closet!Telling) /\ Closet!Begins(r, "wear", None, p, None)
                 /\ UNCHANGED <<category, status, assets, preview, closetRefs, twins, tightened>>
                 /\ UNCHANGED <<links, offers, choice, sold, torn, mixed, broken, closetActive, worn, closetSeen, closetUnsaid>>
      BY <3>3 DEF Closet!UnequipSlot, Closet!catalog, Closet!bundle
    <3>4. CASE \E i \in Two : Closet!EquipSlot(r, i)
      BY <3>1, <3>2, <3>4
    <3>5. CASE \E p \in Closet!Places : Closet!UnequipSlot(r, p)
      BY <3>3, <3>5
    <3> QED BY <1>12, <3>4, <3>5
  <2> DEFINE new == Closet!Slot("wear", of, at, None)
  <2>2. closetRequest[r] = None /\ closetRequest' = [closetRequest EXCEPT ![r] = new]
    BY <2>1 DEF Closet!Begins
  <2>3. new.step = "wear" /\ Carried(new)
    <3>1. new \in WearSlot
      BY DEF WearSlot, Closet!Slot
    <3> QED BY <3>1, ClosetFields DEF Carried
  <2> HIDE DEF new
  <2>4. new # None
    BY <2>3, NoneIsNoValue DEF Carried
  <2>5. /\ SlotsTyped' /\ ForSale' /\ PicturesCounted' /\ PreviewsHang' /\ OneEditor' /\ SoldWhole'
        /\ closetRequest'[r] = new /\ \A q \in Two \ {r} : closetRequest'[q] = closetRequest[q]
    <3>1. Out(closetRequest[r], BundleSteps) /\ Out(new, ForSaleSteps) /\ Out(new, BundleSteps)
      BY <2>2, <2>3 DEF Out, ForSaleSteps, BundleSteps
    <3> QED BY <1>c, <2>1, <2>2, <2>3, <3>1
  <2>6. OneTeller'
    <3>1. ~ overlap' => \A q \in Two : ~ Announces(q)
      BY <2>1 DEF Announces, Closet!Busy, Closet!Doing
    <3>2. ~ overlap' => \A q \in Two \ {r} : ~ Announces(q)'
      BY <2>5, <3>1 DEF Announces
    <3>3. Announces(r)' /\ closetRequest'[r].step # "built"
      BY <2>3, <2>4, <2>5 DEF Announces, Closet!Telling
    <3> QED BY <3>2, <3>3 DEF OneTeller
  <2> QED BY <1>d, <2>1, <2>5, <2>6 DEF ClosetInv
<1>13. ASSUME NEW r \in Two, Closet!LoadoutWritten(r) PROVE ClosetInv'
  <2>1. PICK of \in Two \cup {None}, at \in Closet!Places : of = closetRequest[r].of /\ at = closetRequest[r].at
    BY <1>i, <1>13 DEF SlotsTyped, Carried, WearSlot, Closet!LoadoutWritten, Closet!Doing
  <2> DEFINE new == Closet!Slot("wrote", None, None, None)
  <2>2. /\ closetRequest[r] # None /\ closetRequest[r].step = "wear"
        /\ closetRequest' = [closetRequest EXCEPT ![r] = new] /\ worn' = [worn EXCEPT ![at] = of]
        /\ UNCHANGED <<category, status, assets, preview, closetRefs, twins, tightened>>
        /\ UNCHANGED <<links, offers, choice, sold, torn, mixed, broken, closetActive, closetSeen, overlap, closetUnsaid>>
    BY <1>13, <2>1
       DEF Closet!LoadoutWritten, Closet!Doing, Closet!Goes, Closet!catalog, Closet!bundle
  <2>3. new.step = "wrote" /\ Carried(new)
    <3>1. new \in TellSlot
      BY DEF TellSlot, Closet!Slot
    <3> QED BY <3>1, ClosetFields DEF Carried
  <2> HIDE DEF new
  <2>4. new # None
    BY <2>3, NoneIsNoValue DEF Carried
  <2>5. /\ SlotsTyped' /\ ForSale' /\ PicturesCounted' /\ PreviewsHang' /\ OneEditor' /\ SoldWhole'
        /\ closetRequest'[r] = new /\ \A q \in Two \ {r} : closetRequest'[q] = closetRequest[q]
    <3>1. Out(closetRequest[r], BundleSteps) /\ Out(new, ForSaleSteps) /\ Out(new, BundleSteps)
      BY <2>2, <2>3 DEF Out, ForSaleSteps, BundleSteps
    <3> QED BY <1>c, <2>2, <2>3, <3>1
  <2>6. OneTeller'
    <3>1. Announces(r) /\ Announces(r)' /\ closetRequest'[r].step # "built"
      BY <2>2, <2>3, <2>4, <2>5 DEF Announces, Closet!Telling
    <3>2. ~ overlap => \A q \in Two \ {r} : ~ Announces(q)
      BY <1>i, <3>1 DEF OneTeller
    <3>3. ~ overlap => \A q \in Two \ {r} : ~ Announces(q)'
      BY <2>5, <3>2 DEF Announces
    <3> QED BY <2>2, <3>1, <3>3 DEF OneTeller
  <2>7. ClosetTyped'
    BY <1>i, <2>2 DEF ClosetTyped
  <2> QED BY <2>5, <2>6, <2>7 DEF ClosetInv
<1>14. ASSUME NEW r \in Two, Closet!BuildLoadoutPayload(r) PROVE ClosetInv'
  <2>1. PICK of \in [Closet!Places -> Two \cup {None}] : of = Closet!ResolveEquipped
    BY <1>i DEF ClosetTyped, Closet!ResolveEquipped
  <2> DEFINE new == Closet!Slot("built", of, None, None)
  <2>2. /\ closetRequest[r] # None /\ closetRequest[r].step = "wrote"
        /\ closetRequest' = [closetRequest EXCEPT ![r] = new] /\ closetUnsaid' = FALSE
        /\ UNCHANGED <<category, status, assets, preview, closetRefs, twins, tightened>>
        /\ UNCHANGED <<links, offers, choice, sold, torn, mixed, broken, closetActive, worn, closetSeen, overlap>>
    BY <1>14, <2>1
       DEF Closet!BuildLoadoutPayload, Closet!Doing, Closet!Goes, Closet!catalog, Closet!bundle
  <2>3. new.step = "built" /\ new.of = of /\ Carried(new)
    <3>1. new \in BuiltSlot
      BY DEF BuiltSlot, Closet!Slot
    <3> QED BY <3>1, ClosetFields DEF Carried
  <2> HIDE DEF new
  <2>4. new # None
    BY <2>3, NoneIsNoValue DEF Carried
  <2>5. /\ SlotsTyped' /\ ForSale' /\ PicturesCounted' /\ PreviewsHang' /\ OneEditor' /\ SoldWhole'
        /\ closetRequest'[r] = new /\ \A q \in Two \ {r} : closetRequest'[q] = closetRequest[q]
    <3>1. Out(closetRequest[r], BundleSteps) /\ Out(new, ForSaleSteps) /\ Out(new, BundleSteps)
      BY <2>2, <2>3 DEF Out, ForSaleSteps, BundleSteps
    <3> QED BY <1>c, <2>2, <2>3, <3>1
  <2>6. OneTeller'
    <3>1. Announces(r) /\ Announces(r)'
      BY <2>2, <2>3, <2>4, <2>5 DEF Announces, Closet!Telling
    <3>2. ~ overlap => \A q \in Two \ {r} : ~ Announces(q)
      BY <1>i, <3>1 DEF OneTeller
    <3>3. ~ overlap => \A q \in Two \ {r} : ~ Announces(q)'
      BY <2>5, <3>2 DEF Announces
    <3>4. closetRequest'[r].of = Closet!ResolveEquipped'
      <4>1. Closet!ResolveEquipped' = Closet!ResolveEquipped
        BY <2>2, WearingStays
      <4> QED BY <2>1, <2>3, <2>5, <4>1
    <3> QED BY <2>2, <3>1, <3>3, <3>4 DEF OneTeller
  <2> QED BY <1>d, <2>2, <2>5, <2>6 DEF ClosetInv
<1>15. ASSUME NEW r \in Two, Closet!PublishLoadout(r) PROVE ClosetInv'
  <2>1. /\ closetRequest[r] # None /\ closetRequest[r].step = "built"
        /\ closetRequest' = [closetRequest EXCEPT ![r] = None] /\ closetSeen' = closetRequest[r].of
        /\ UNCHANGED <<category, status, assets, preview, closetRefs, twins, tightened>>
        /\ UNCHANGED <<links, offers, choice, sold, torn, mixed, broken, closetActive, worn, overlap, closetUnsaid>>
    BY <1>15 DEF Closet!PublishLoadout, Closet!Doing, Closet!Ends, Closet!catalog, Closet!bundle
  <2>2. /\ SlotsTyped' /\ ForSale' /\ PicturesCounted' /\ PreviewsHang' /\ OneEditor' /\ SoldWhole'
        /\ closetRequest'[r] = None /\ \A q \in Two \ {r} : closetRequest'[q] = closetRequest[q]
    <3>1. Out(closetRequest[r], BundleSteps) /\ Out(None, ForSaleSteps) /\ Out(None, BundleSteps)
      BY <2>1 DEF Out, ForSaleSteps, BundleSteps
    <3> QED BY <1>c, <2>1, <3>1
  <2>3. OneTeller'
    <3>1. Announces(r)
      BY <2>1 DEF Announces, Closet!Telling
    <3>2. ~ overlap => \A q \in Two \ {r} : ~ Announces(q)
      BY <1>i, <3>1 DEF OneTeller
    <3>3. ~ overlap => \A q \in Two : ~ Announces(q)'
      BY <2>2, <3>2 DEF Announces
    <3>4. ~ overlap => closetUnsaid' \/ closetSeen' = Closet!ResolveEquipped'
      <4>1. Closet!ResolveEquipped' = Closet!ResolveEquipped
        BY <2>1, WearingStays
      <4>2. ~ overlap => closetUnsaid \/ closetRequest[r].of = Closet!ResolveEquipped
        BY <1>i, <2>1, <3>1 DEF OneTeller
      <4> QED BY <2>1, <4>1, <4>2
    <3> QED BY <2>1, <3>3, <3>4 DEF OneTeller
  <2> QED BY <1>d, <2>1, <2>2, <2>3 DEF ClosetInv
<1>16. CASE UNCHANGED closetVars
  <2>1. /\ UNCHANGED <<category, status, assets, preview, closetRefs, twins, tightened, closetRequest>>
        /\ UNCHANGED <<links, offers, choice, sold, torn, mixed, broken, closetActive, worn, closetSeen, overlap, closetUnsaid>>
    BY <1>16 DEF closetVars
  <2>2. SlotsTyped'
    BY <1>i, <2>1 DEF SlotsTyped
  <2>3. ForSale' /\ PicturesCounted' /\ PreviewsHang'
    BY <1>i, <2>1, CatalogueStays
  <2>4. OneEditor' /\ SoldWhole'
    BY <1>i, <2>1, BundleStays
  <2>5. OneTeller'
    BY <1>i, <2>1, TellingStays, WearingStays
  <2> QED BY <1>d, <2>1, <2>2, <2>3, <2>4, <2>5 DEF ClosetInv
<1>17. CASE Closet!Next
  <2>1. CASE Closet!PatchCategory
    BY <1>1, <2>1
  <2>2. CASE \E i \in Two : Closet!AcquireItem(i) \/ Closet!AdminGrant(i) \/ Closet!Expires(i)
    BY <1>2, <2>2
  <2>3. ASSUME NEW r \in Two, NEW i \in Two, Closet!CreateItem(r, i) \/ Closet!PatchItem(r, i) PROVE ClosetInv'
    BY <1>3, <2>3
  <2>4. ASSUME NEW r \in Two, NEW i \in Two, Closet!EquipSlot(r, i) PROVE ClosetInv'
    BY <1>12, <2>4
  <2>5. ASSUME NEW r \in Two, NEW p \in Closet!Places, Closet!UnequipSlot(r, p) PROVE ClosetInv'
    BY <1>12, <2>5
  <2> QED BY <1>17, <2>1, <2>2, <2>3, <2>4, <2>5, <1>4, <1>5, <1>6, <1>7, <1>8, <1>9, <1>10, <1>11,
             <1>13, <1>14, <1>15 DEF Closet!Next
<1> QED BY <1>16, <1>17 DEF Next, vars

LEMMA ClosetHolds == ClosetInv => Closet!CosmeticsAreTrue
<1> SUFFICES ASSUME ClosetInv PROVE Closet!CosmeticsAreTrue
  OBVIOUS
<1>1. \A p : Closet!Uses(p) = Cardinality(Hung(p))
  BY SameHung DEF Closet!Uses, Hung
<1>2. \A p \in Two : IF closetRefs[p] = None THEN Closet!Uses(p) = 0
                     ELSE /\ closetRefs[p] >= Closet!Uses(p)
                          /\ twins \/ closetRefs[p] = Closet!Uses(p)
  BY <1>1, FS_EmptySet DEF ClosetInv, PicturesCounted
<1>3. ~ tightened => \A i \in Closet!ListShop : Closet!ValidateItem(assets[i])
  BY DEF ClosetInv, ForSale, Required, Closet!ListShop, Closet!ValidateItem
<1>4. Closet!Editing \/ mixed \/ (links \subseteq choice /\ (broken \/ links = choice))
  BY DEF ClosetInv, OneEditor, Edits, Closet!Editing, Closet!Busy, Closet!Doing
<1>5. torn \/ sold \in offers
  BY DEF ClosetInv, SoldWhole
<1>6. Closet!Busy(Closet!Telling) \/ overlap \/ closetUnsaid \/ closetSeen = Closet!ResolveEquipped
  BY DEF ClosetInv, OneTeller, Announces, Closet!Busy, Closet!Doing
<1> QED BY <1>2, <1>3, <1>4, <1>5, <1>6 DEF ClosetInv, PreviewsHang, Closet!CosmeticsAreTrue

(* A cosmetic picture in use has a row that counts its uses, what is for   *)
(* sale has the picture its category requires, a purchase grants a bundle  *)
(* as a whole, and the others see what is worn, with the overlaps that     *)
(* CosmeticsAreTrue excepts.                                               *)
THEOREM CosmeticsHold == Spec => []CosmeticsAreTrue
<1>1. ClosetInv => CosmeticsAreTrue
  BY ClosetHolds DEF CosmeticsAreTrue
<1> QED BY <1>1, ClosetInit, ClosetNext, PTL DEF Spec
=============================================================================
