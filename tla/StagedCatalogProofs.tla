------------------------ MODULE StagedCatalogProofs ------------------------
(***************************************************************************)
(* Proofs about StagedCatalog, for any containers, page size, writes,      *)
(* starts and crashes.                                                     *)
(*                                                                         *)
(* PageIsTheNext says what one page is: the next names after the cursor.   *)
(* OrderedInv and CoverInv say what the pages read so far have shown, and  *)
(* ShortestIsAll what the three cuts of a search leave out.                *)
(***************************************************************************)
EXTENDS StagedCatalog, FiniteSetTheorems, WellFoundedInduction, TLAPS

-----------------------------------------------------------------------------
(* Finite sets whose elements stand in a line, as names and hits do          *)

\* R puts the elements of S in a line.
StrictOrder(S, R) ==
    /\ R \subseteq S \X S
    /\ \A x \in S : <<x, x>> \notin R
    /\ \A x, y, z \in S : <<x, y>> \in R /\ <<y, z>> \in R => <<x, z>> \in R
    /\ \A x, y \in S : x # y => <<x, y>> \in R \/ <<y, x>> \in R

\* A line of finitely many elements has a first one.
LEMMA HasFirst ==
    ASSUME NEW S, IsFiniteSet(S), S # {}, NEW R, StrictOrder(S, R)
    PROVE  \E x \in S : \A y \in S : y # x => <<x, y>> \in R
  <1> DEFINE Earlier(x) == {y \in S : <<y, x>> \in R}
             B == {Earlier(x) : x \in S}
             O == StrictSubsetOrdering(S)
  <1>1. IsWellFoundedOn(O, FiniteSubsetsOf(S))
    BY FS_StrictSubsetOrderingWellFounded
  <1>2. B \subseteq FiniteSubsetsOf(S)
    <2>1. \A x \in S : Earlier(x) \in SUBSET S
      OBVIOUS
    <2> HIDE DEF Earlier
    <2>2. FiniteSubsetsOf(S) = SUBSET S
      BY FS_FiniteSubsetsOfFinite
    <2> QED  BY <2>1, <2>2
  <1>3. B # {}
    OBVIOUS
  <1>4. \E b \in B : \A c \in B : ~ (<<c, b>> \in O)
    <2> HIDE DEF B, O
    <2> QED  BY <1>1, <1>2, <1>3, WFMin
  <1>5. PICK x \in S : \A y \in S : ~ (<<Earlier(y), Earlier(x)>> \in O)
    BY <1>4
  <1>6. \A y \in S : <<y, x>> \notin R
    <2> SUFFICES ASSUME NEW y \in S, <<y, x>> \in R
                 PROVE  FALSE
      OBVIOUS
    <2>1. Earlier(y) \subseteq Earlier(x)
      BY DEF StrictOrder
    <2>2. y \in Earlier(x) /\ y \notin Earlier(y)
      BY DEF StrictOrder
    <2>3. Earlier(x) \in SUBSET S /\ Earlier(y) \in SUBSET S
      OBVIOUS
    <2> HIDE DEF Earlier
    <2>4. <<Earlier(y), Earlier(x)>> \in O
      BY <2>1, <2>2, <2>3 DEF StrictSubsetOrdering
    <2> QED  BY <1>5, <2>4
  <1> QED  BY <1>6 DEF StrictOrder

\* And a last one: the first of the line read backwards.
LEMMA HasLast ==
    ASSUME NEW S, IsFiniteSet(S), S # {}, NEW R, StrictOrder(S, R)
    PROVE  \E x \in S : \A y \in S : y # x => <<y, x>> \in R
  <1> DEFINE Q == {p \in S \X S : <<p[2], p[1]>> \in R}
  <1>1. \A x, y \in S : <<x, y>> \in Q <=> <<y, x>> \in R
    OBVIOUS
  <1>2. Q \subseteq S \X S
    OBVIOUS
  <1> HIDE DEF Q
  <1>3. StrictOrder(S, Q)
    BY <1>1, <1>2 DEF StrictOrder
  <1>4. PICK x \in S : \A y \in S : y # x => <<x, y>> \in Q
    BY <1>3, HasFirst
  <1> QED  BY <1>1, <1>4

-----------------------------------------------------------------------------
(* The first n of a line *)

Preceding(x, S, R) == {y \in S : <<y, x>> \in R}

First(n, S, R) == {x \in S : Cardinality(Preceding(x, S, R)) < n}

\* What is before an element is finite, and no more than what is before a later
\* one.
LEMMA PrecedingGrows ==
    ASSUME NEW S, IsFiniteSet(S), NEW R, StrictOrder(S, R),
           NEW x \in S, NEW y \in S, <<x, y>> \in R
    PROVE  /\ Cardinality(Preceding(x, S, R)) \in Nat
           /\ Cardinality(Preceding(y, S, R)) \in Nat
           /\ Cardinality(Preceding(x, S, R)) <= Cardinality(Preceding(y, S, R))
  <1>1. Preceding(x, S, R) \subseteq Preceding(y, S, R) /\ Preceding(y, S, R) \subseteq S
    BY DEF StrictOrder, Preceding
  <1>2. IsFiniteSet(Preceding(y, S, R))
    BY <1>1, FS_Subset
  <1> QED  BY <1>1, <1>2, FS_Subset, FS_CardinalityType

\* The first n are before all the others.
LEMMA FirstAreFirst ==
    ASSUME NEW S, IsFiniteSet(S), NEW R, StrictOrder(S, R), NEW n \in Nat,
           NEW x \in First(n, S, R), NEW y \in S \ First(n, S, R)
    PROVE  <<x, y>> \in R
  <1>1. x \in S /\ y \in S /\ x # y
    BY DEF First
  <1>2. ASSUME <<y, x>> \in R
        PROVE  FALSE
    BY <1>1, <1>2, PrecedingGrows DEF First
  <1> QED  BY <1>1, <1>2 DEF StrictOrder

\* Fewer than n of them are all there are.
LEMMA FewAreAll ==
    ASSUME NEW S, IsFiniteSet(S), NEW R, StrictOrder(S, R), NEW n \in Nat,
           Cardinality(First(n, S, R)) < n
    PROVE  First(n, S, R) = S
  <1> DEFINE F == First(n, S, R)
             left == S \ F
             Q == {p \in R : p[1] \notin F /\ p[2] \notin F}
  <1>0. F \subseteq S /\ IsFiniteSet(F)
    BY FS_Subset DEF First
  <1> SUFFICES ASSUME left # {}
               PROVE  FALSE
    BY <1>0
  <1>1. StrictOrder(left, Q) /\ IsFiniteSet(left)
    <2> HIDE DEF F
    <2>1. StrictOrder(left, Q)
      BY DEF StrictOrder
    <2>2. left \subseteq S
      OBVIOUS
    <2> QED  BY <2>1, <2>2, FS_Subset
  <1> HIDE DEF Q
  <1>2. PICK x \in left : \A y \in left : y # x => <<x, y>> \in Q
    BY <1>1, HasFirst
  <1>3. Preceding(x, S, R) \subseteq F
    <2> SUFFICES ASSUME NEW y \in S, <<y, x>> \in R, y \notin F
                 PROVE  FALSE
      BY DEF Preceding
    <2>1. y # x /\ <<x, y>> \notin R
      BY DEF StrictOrder
    <2> QED  BY <1>2, <2>1 DEF Q
  <1>4. Cardinality(Preceding(x, S, R)) <= Cardinality(F)
    BY <1>0, <1>3, FS_Subset
  <1>5. Cardinality(F) \in Nat /\ Cardinality(Preceding(x, S, R)) \in Nat
    BY <1>0, <1>3, FS_Subset, FS_CardinalityType
  <1>6. Cardinality(Preceding(x, S, R)) < n
    BY <1>4, <1>5
  <1> QED  BY <1>6 DEF First

\* There is a first one of some.
LEMMA SomeAreFirst ==
    ASSUME NEW S, IsFiniteSet(S), S # {}, NEW R, StrictOrder(S, R), NEW n \in Nat \ {0}
    PROVE  First(n, S, R) # {}
  <1>1. Cardinality({}) < n
    BY FS_EmptySet
  <1>2. CASE Cardinality(First(n, S, R)) < n
    BY <1>2, FewAreAll
  <1>3. CASE ~ (Cardinality(First(n, S, R)) < n)
    BY <1>1, <1>3, Zenon
  <1> QED  BY <1>2, <1>3

\* There are more than n when one is not among the first n.
LEMMA MoreThanFirst ==
    ASSUME NEW S, IsFiniteSet(S), NEW R, StrictOrder(S, R), NEW n \in Nat,
           NEW x \in S \ First(n, S, R)
    PROVE  Cardinality(S) > n
  <1>1. Preceding(x, S, R) \subseteq S \ {x}
    BY DEF StrictOrder, Preceding
  <1>2. IsFiniteSet(S \ {x}) /\ Cardinality(S \ {x}) = Cardinality(S) - 1
    BY FS_RemoveElement
  <1>3. IsFiniteSet(Preceding(x, S, R)) /\ Cardinality(Preceding(x, S, R)) <= Cardinality(S \ {x})
    BY <1>1, <1>2, FS_Subset
  <1>4. Cardinality(Preceding(x, S, R)) \in Nat /\ Cardinality(S) \in Nat
    BY <1>3, FS_CardinalityType
  <1>5. ~ (Cardinality(Preceding(x, S, R)) < n)
    BY DEF First
  <1> QED  BY <1>2, <1>3, <1>4, <1>5
-----------------------------------------------------------------------------
(* The invariants *)

RowType == [columns : Nat, error : BOOLEAN, told : SUBSET Nat]

Walks == [at : {"page", "rows"}, format : Formats, db : Databases, cursor : Nat \cup {None},
          page : SUBSET Keys, next : Nat \cup {None}, shown : Seq(Keys)]

Typed ==
    /\ Recorded \subseteq Keys /\ rows \in [Recorded -> RowType]
    /\ walk = NoWalk \/ walk \in Walks
    /\ stable \subseteq Keys /\ target \in Seq(Keys)

\* How far a start has come, and what its checks have found.
StartInv ==
    /\ store \in {"foreign", "older", "newer"} => server \in {"down", "checked", "refused"}
    /\ server \in {"checked", "claimed", "created", "marked"} /\ start.check = "require"
          => start.reached

-----------------------------------------------------------------------------
(* The start of a server *)

\* Only a start that passed its checks comes to write.
LEMMA NextStart ==
    ASSUME StartInv, [Next]_vars
    PROVE  /\ StartInv'
           /\ store \in {"foreign", "older", "newer"} => UNCHANGED <<store, rows>>
           /\ (store' # store /\ start.check = "require") => start.reached
  <1>1. CASE \E check \in Checks : CheckConnection(check)
    <2>1. PICK check \in Checks : CheckConnection(check)
      BY <1>1
    <2>2. PICK reached : /\ start' = [check |-> check, reached |-> reached]
                         /\ server' = IF check = "require" /\ ~reached THEN "refused" ELSE "checked"
      BY <2>1 DEF CheckConnection
    <2>3. start'.check = check /\ start'.reached = reached
      BY <2>2
    <2>4. UNCHANGED <<store, rows>> /\ server = "down"
      BY <2>1 DEF CheckConnection, unread
    <2> QED  BY <2>2, <2>3, <2>4 DEF StartInv
  <1>2. CASE Claim
    BY <1>2 DEF Claim, Refuses, StartInv, unread
  <1>3. CASE CreateTables
    BY <1>3 DEF CreateTables, StartInv, unread
  <1>4. CASE Mark
    BY <1>4 DEF Mark, StartInv, unread
  <1>5. CASE Serve
    BY <1>5 DEF Serve, StartInv, unread
  <1>6. CASE Crash
    BY <1>6 DEF Crash, StartInv
  <1>7. CASE \E k \in Keys : \/ \E failed \in BOOLEAN : UpsertContainer(k, failed)
                             \/ ForgetContainer(k) \/ Annotate(k)
    BY <1>7 DEF UpsertContainer, ForgetContainer, Annotate, MayWrite, files, StartInv
  <1>8. CASE ReplaceColumns
    BY <1>8 DEF ReplaceColumns, files, StartInv
  <1>9. CASE \E format \in Formats, db \in Databases : BeginWalk(format, db)
    BY <1>9 DEF BeginWalk, files, StartInv
  <1>10. CASE NextPage \/ WriteContainer \/ TurnPage \/ Reported
    BY <1>10 DEF NextPage, WriteContainer, TurnPage, Reported, files, StartInv
  <1>11. CASE UNCHANGED vars
    BY <1>11 DEF vars, StartInv
  <1> QED
    BY <1>1, <1>2, <1>3, <1>4, <1>5, <1>6, <1>7, <1>8, <1>9, <1>10, <1>11 DEF Next

\* No start writes to a file of somebody else's or of another version, wherever
\* it is interrupted, nor to any before it has reached a source it was required
\* to reach (staging.py _claim_or_reject, main.py build).
THEOREM OthersFilesAreSafe == Spec => NobodyElsesFileIsWritten
  <1>1. Init => StartInv
    BY DEF Init, StartInv
  <1>2. StartInv /\ [Next]_vars => StartInv'
    BY NextStart
  <1>3. Spec => []StartInv
    BY <1>1, <1>2, PTL DEF Spec
  <1>4. StartInv /\ [Next]_vars =>
           [/\ (store \in {"foreign", "older", "newer"}) => UNCHANGED <<store, rows>>
            /\ (store' # store /\ start.check = "require") => start.reached]_vars
    BY NextStart
  <1> QED  BY <1>3, <1>4, PTL DEF Spec, NobodyElsesFileIsWritten

-----------------------------------------------------------------------------
(* One page *)

\* The order of names, and of databases among namesakes, on a set of containers.
InOrder(S) == {p \in S \X S : Before(p[1], p[2])}

LEMMA KeysInOrder ==
    ASSUME NEW S \in SUBSET Keys
    PROVE  IsFiniteSet(S) /\ StrictOrder(S, InOrder(S))
  <1>1. IsFiniteSet(S)
    BY CatalogAssumption, FS_Subset
  <1>2. \A k \in S : k \in [db : Nat, name : Nat]
    BY CatalogAssumption
  <1>3. \A j, k \in S : <<j, k>> \in InOrder(S) <=> Before(j, k)
    BY DEF InOrder
  <1>4. InOrder(S) \subseteq S \X S
    BY DEF InOrder
  <1>5. \A j, k \in S : j # k => Before(j, k) \/ Before(k, j)
    BY <1>2 DEF Before
  <1>6. \A i, j, k \in S : Before(i, j) /\ Before(j, k) => Before(i, k)
    BY <1>2 DEF Before
  <1>7. \A k \in S : ~Before(k, k)
    BY <1>2 DEF Before
  <1> QED  BY <1>1, <1>3, <1>4, <1>5, <1>6, <1>7 DEF StrictOrder

\* The first of a page, whose turn it is, and the last, where the next begins.
LEMMA PageEnds ==
    ASSUME NEW S \in SUBSET Keys, S # {}
    PROVE  /\ LET k == CHOOSE k \in S : \A j \in S : ~Before(j, k)
              IN  k \in S /\ \A j \in S : j # k => Before(k, j)
           /\ LastOf(S) \in S /\ \A j \in S : j # LastOf(S) => Before(j, LastOf(S))
  <1>1. IsFiniteSet(S) /\ StrictOrder(S, InOrder(S))
    BY KeysInOrder
  <1>2. \A j, k \in S : <<j, k>> \in InOrder(S) <=> Before(j, k)
    BY DEF InOrder
  <1>3. \A j, k \in S : j # k => Before(j, k) \/ Before(k, j)
    BY <1>1, <1>2 DEF StrictOrder
  <1>4. \A j, k \in S : ~ (Before(j, k) /\ Before(k, j))
    BY <1>1, <1>2 DEF StrictOrder
  <1>5. \E k \in S : \A j \in S : ~Before(j, k)
    <2>1. PICK k \in S : \A j \in S : j # k => <<k, j>> \in InOrder(S)
      BY <1>1, HasFirst
    <2> QED  BY <1>2, <1>4, <2>1
  <1>6. \E k \in S : \A j \in S : ~Before(k, j)
    <2>1. PICK k \in S : \A j \in S : j # k => <<j, k>> \in InOrder(S)
      BY <1>1, HasLast
    <2> QED  BY <1>2, <1>4, <2>1
  <1>7. LastOf(S) \in S /\ \A j \in S : ~Before(LastOf(S), j)
    BY <1>6 DEF LastOf
  <1> DEFINE k == CHOOSE k \in S : \A j \in S : ~Before(j, k)
  <1>8. k \in S /\ \A j \in S : ~Before(j, k)
    BY <1>5
  <1> HIDE DEF k
  <1>9. /\ k \in S /\ \A j \in S : j # k => Before(k, j)
        /\ LastOf(S) \in S /\ \A j \in S : j # LastOf(S) => Before(j, LastOf(S))
    BY <1>3, <1>7, <1>8
  <1> QED  BY <1>9 DEF k

\* A container with a namesake in another database, before it.
Namesake(k) == \E j \in Keys : j # k /\ j.name = k.name /\ Before(j, k)

\* A page is the next names after the cursor; whatever it leaves for the next page
\* comes after the name where that begins, or is a namesake of the last on this.
LEMMA PageIsTheNext ==
    ASSUME Recorded \subseteq Keys, NEW db, NEW cursor \in Nat \cup {None}
    PROVE  LET page == ContainersPage(db, cursor)
           IN /\ page.rows \subseteq OfDatabase(db) /\ page.rows \subseteq Keys
              /\ cursor # None => \A k \in page.rows : k.name > cursor
              /\ page.next \in Nat \cup {None}
              /\ page.next # None => /\ page.rows # {}
                                     /\ \A k \in page.rows : k.name <= page.next
              /\ \A k \in OfDatabase(db) :
                    \/ k \in page.rows \/ Namesake(k)
                    \/ cursor # None /\ k.name <= cursor
                    \/ page.next # None /\ k.name > page.next
  <1> DEFINE left == {k \in OfDatabase(db) : cursor = None \/ k.name > cursor}
             top == TopOf(PageSize, left, Before)
             next == IF Cardinality(left) > PageSize THEN LastOf(top).name ELSE None
  <1>1. /\ left \subseteq OfDatabase(db) /\ left \subseteq Keys /\ OfDatabase(db) \subseteq Keys
        /\ cursor # None => \A k \in left : k.name > cursor
        /\ \A k \in OfDatabase(db) : k \in left \/ (cursor # None /\ ~(k.name > cursor))
    BY DEF OfDatabase
  <1>2. ContainersPage(db, cursor) = [rows |-> top, next |-> next]
    BY DEF ContainersPage
  <1>3. top = First(PageSize, left, InOrder(left))
    <2>1. ASSUME NEW k \in left
          PROVE  {j \in left : Before(j, k)} = Preceding(k, left, InOrder(left))
      BY DEF Preceding, InOrder
    <2> HIDE DEF left
    <2> QED  BY <2>1 DEF TopOf, First
  <1> HIDE DEF left, top
  <1>4. IsFiniteSet(left) /\ StrictOrder(left, InOrder(left)) /\ PageSize \in Nat \ {0}
    BY <1>1, KeysInOrder, CatalogAssumption
  <1>5. top \subseteq left /\ top \subseteq Keys
    BY <1>1, <1>3 DEF First
  <1>6. \A j, k \in Keys : /\ j.name \in Nat /\ k.name \in Nat
                           /\ Before(j, k) => j.name <= k.name
    BY CatalogAssumption DEF Before
  <1>7. ASSUME next # None
        PROVE  /\ LastOf(top) \in top /\ next = LastOf(top).name
               /\ \A k \in top : k.name <= next
    <2>1. Cardinality(left) > PageSize
      BY <1>7
    <2>2. left # {}
      <3>1. Cardinality({}) = 0
        BY FS_EmptySet
      <3>2. ~ (Cardinality({}) > PageSize)
        BY <1>4, <3>1
      <3> QED  BY <2>1, <3>2, Zenon
    <2>3. top # {}
      BY <1>3, <1>4, <2>2, SomeAreFirst
    <2>4. LastOf(top) \in top /\ \A k \in top : k # LastOf(top) => Before(k, LastOf(top))
      BY <1>5, <2>3, PageEnds
    <2>5. next = LastOf(top).name
      BY <2>1
    <2>6. \A k \in top : k.name <= LastOf(top).name
      BY <1>5, <1>6, <2>4
    <2> QED  BY <2>4, <2>5, <2>6
  <1>8. ASSUME NEW k \in left \ top
        PROVE  next # None /\ (Namesake(k) \/ k.name > next)
    <2>1. Cardinality(left) > PageSize
      BY <1>3, <1>4, MoreThanFirst
    <2>2. left # {}
      OBVIOUS
    <2>3. top # {}
      BY <1>3, <1>4, <2>2, SomeAreFirst
    <2>4. LastOf(top) \in top
      BY <1>5, <2>3, PageEnds
    <2>5. next = LastOf(top).name
      BY <2>1
    <2>6. <<LastOf(top), k>> \in InOrder(left)
      BY <1>3, <1>4, <2>4, FirstAreFirst
    <2>7. Before(LastOf(top), k) /\ LastOf(top) # k
      BY <2>4, <2>6 DEF InOrder
    <2>8. LastOf(top) \in Keys /\ k \in Keys
      BY <1>1, <1>5, <2>4
    <2>9. next \in Nat /\ next # None
      BY <1>6, <2>5, <2>8, CatalogAssumption
    <2>10. LastOf(top).name < k.name \/ LastOf(top).name = k.name
      BY <2>7 DEF Before
    <2> QED  BY <1>6, <2>5, <2>7, <2>8, <2>9, <2>10 DEF Namesake
  <1>9. next \in Nat \cup {None}
    BY <1>5, <1>6, <1>7
  <1>10. \A k \in OfDatabase(db) : k.name \in Nat /\ (cursor # None => cursor \in Nat)
    BY <1>1, <1>6
  <1> HIDE DEF next
  <1>11. \A k \in OfDatabase(db) :
            \/ k \in top \/ Namesake(k)
            \/ cursor # None /\ k.name <= cursor
            \/ next # None /\ k.name > next
    BY <1>1, <1>8, <1>10
  <1>12. top \subseteq OfDatabase(db) /\ (cursor # None => \A k \in top : k.name > cursor)
    BY <1>1, <1>5
  <1> QED  BY <1>2, <1>5, <1>7, <1>9, <1>11, <1>12

-----------------------------------------------------------------------------
(* The walk of an export or a listing *)

\* One more on a list, or none.
LEMMA OneMore ==
    ASSUME NEW s \in Seq(Keys), NEW k \in Keys
    PROVE  /\ s \o <<k>> \in Seq(Keys) /\ Len(s \o <<k>>) = Len(s) + 1
           /\ \A i \in 1 .. Len(s) : (s \o <<k>>)[i] = s[i]
           /\ (s \o <<k>>)[Len(s) + 1] = k
           /\ s \o << >> = s
  OBVIOUS

\* What a walk must show stays where it looks, and may be shown.
StableInv ==
    walk # NoWalk => \A k \in stable : k \in OfDatabase(walk.db) /\ Shows(walk.format, k)

\* What was shown is in order, and before the page at hand and all after it.
OrderedInv ==
    walk # NoWalk =>
        /\ \A i, j \in 1 .. Len(walk.shown) : i < j => Before(walk.shown[i], walk.shown[j])
        /\ walk.format # "listing" => target = walk.shown
        /\ walk.at = "page" /\ walk.cursor = None => walk.shown = <<>>
        /\ walk.at = "page" /\ walk.cursor # None => \A k \in Told : k.name <= walk.cursor
        /\ walk.at = "rows" => \A j \in Told, k \in walk.page : Before(j, k)
        /\ walk.at = "rows" /\ walk.next # None =>
              \A k \in Told \cup walk.page : k.name <= walk.next

\* What a walk must show it has shown, has on its page, or has yet to come to,
\* but for namesakes.
CoverInv ==
    walk # NoWalk => \A k \in stable :
        /\ walk.at = "page" /\ walk.cursor # None /\ k.name <= walk.cursor =>
              k \in Told \/ Namesake(k)
        /\ walk.at = "rows" => \/ k \in Told \cup walk.page \/ Namesake(k)
                               \/ walk.next # None /\ k.name > walk.next

WalkInv == Typed /\ StableInv /\ OrderedInv /\ CoverInv

LEMMA ToldTyped == Typed /\ walk # NoWalk => Told \subseteq Keys
  BY DEF Typed, Walks, Told

\* A walk begins with nothing shown, nothing passed.
LEMMA BeginKeepsWalk ==
    ASSUME WalkInv, NEW format \in Formats, NEW db \in Databases, BeginWalk(format, db)
    PROVE  WalkInv'
  <1>1. /\ walk' = [at |-> "page", format |-> format, db |-> db, cursor |-> None,
                    page |-> {}, next |-> None, shown |-> <<>>]
        /\ target' = IF format = "listing" THEN target ELSE <<>>
        /\ stable' = {k \in OfDatabase(db) : Shows(format, k)}
        /\ rows' = rows
    BY DEF BeginWalk
  <1>2. Recorded' = Recorded /\ OfDatabase(db) \subseteq Recorded
    BY <1>1 DEF Recorded, OfDatabase
  <1>3. walk' \in Walks /\ walk'.at = "page" /\ walk'.cursor = None /\ walk'.shown = <<>>
        /\ walk'.format = format /\ walk'.db = db
    BY <1>1 DEF Walks
  <1>4. Typed'
    BY <1>1, <1>2, <1>3 DEF WalkInv, Typed
  <1>5. StableInv'
    BY <1>1, <1>2, <1>3 DEF StableInv, OfDatabase, Shows
  <1>6. OrderedInv'
    <2>1. Len(walk'.shown) = 0
      BY <1>3
    <2> QED  BY <1>1, <1>3, <2>1 DEF OrderedInv
  <1>7. CoverInv'
    BY <1>3 DEF CoverInv
  <1> QED  BY <1>4, <1>5, <1>6, <1>7 DEF WalkInv

\* The next page is after all that was shown.
LEMMA PageKeepsWalk ==
    ASSUME WalkInv, NextPage
    PROVE  WalkInv'
  <1> DEFINE page == ContainersPage(walk.db, walk.cursor)
  <1>1. /\ walk # NoWalk /\ walk.at = "page" /\ walk \in Walks
        /\ walk' = [walk EXCEPT !.at = "rows", !.page = page.rows, !.next = page.next]
        /\ UNCHANGED <<rows, target, stable>>
    BY DEF NextPage, Walking, WalkInv, Typed
  <1>2. /\ page.rows \subseteq OfDatabase(walk.db) /\ page.rows \subseteq Keys
        /\ walk.cursor # None => \A k \in page.rows : k.name > walk.cursor
        /\ page.next \in Nat \cup {None}
        /\ page.next # None => page.rows # {} /\ \A k \in page.rows : k.name <= page.next
        /\ \A k \in OfDatabase(walk.db) :
              \/ k \in page.rows \/ Namesake(k)
              \/ walk.cursor # None /\ k.name <= walk.cursor
              \/ page.next # None /\ k.name > page.next
    <2>1. walk.cursor \in Nat \cup {None} /\ Recorded \subseteq Keys
      BY <1>1 DEF WalkInv, Typed, Walks
    <2> QED  BY <2>1, PageIsTheNext
  <1> HIDE DEF page
  <1>3. /\ walk' \in Walks /\ walk'.at = "rows" /\ walk'.page = page.rows
        /\ walk'.next = page.next /\ walk'.format = walk.format /\ walk'.db = walk.db
        /\ walk'.cursor = walk.cursor /\ walk'.shown = walk.shown
    BY <1>1, <1>2 DEF Walks
  <1>4. Recorded' = Recorded /\ Told' = Told /\ rows' = rows
    BY <1>1, <1>3 DEF Recorded, Told
  <1>5. Typed'
    BY <1>1, <1>3, <1>4 DEF WalkInv, Typed
  <1>6. StableInv'
    BY <1>1, <1>3, <1>4 DEF WalkInv, StableInv, OfDatabase, Shows
  <1>7. Told \subseteq Keys /\ \A k \in Keys : k.name \in Nat
    BY <1>1, ToldTyped, CatalogAssumption DEF WalkInv
  <1>8. walk.cursor = None => Told = {}
    BY <1>1 DEF WalkInv, OrderedInv, Told
  <1>9. walk.cursor # None => walk.cursor \in Nat /\ \A k \in Told : k.name <= walk.cursor
    BY <1>1 DEF WalkInv, OrderedInv, Walks
  <1>10. OrderedInv'
    <2>1. \A j \in Told, k \in page.rows : j.name < k.name
      BY <1>2, <1>7, <1>8, <1>9
    <2>2. \A j \in Told, k \in page.rows : Before(j, k)
      BY <2>1 DEF Before
    <2>3. ASSUME page.next # None
          PROVE  \A k \in Told : k.name <= page.next
      <3>1. PICK j \in page.rows : j.name <= page.next
        BY <1>2, <2>3
      <3> QED  BY <1>2, <1>7, <2>1, <2>3, <3>1
    <2>4. /\ \A i, j \in 1 .. Len(walk'.shown) : i < j => Before(walk'.shown[i], walk'.shown[j])
          /\ walk'.format # "listing" => target' = walk'.shown
      BY <1>1, <1>3 DEF WalkInv, OrderedInv
    <2> QED  BY <1>2, <1>3, <1>4, <2>2, <2>3, <2>4 DEF OrderedInv
  <1>11. CoverInv'
    <2> SUFFICES ASSUME NEW k \in stable
                 PROVE  \/ k \in Told \cup page.rows \/ Namesake(k)
                        \/ page.next # None /\ k.name > page.next
      BY <1>1, <1>3, <1>4 DEF CoverInv
    <2>1. k \in OfDatabase(walk.db)
      BY <1>1 DEF WalkInv, StableInv
    <2>2. walk.cursor # None /\ k.name <= walk.cursor => k \in Told \/ Namesake(k)
      BY <1>1 DEF WalkInv, CoverInv
    <2> QED  BY <1>2, <2>1, <2>2
  <1> QED  BY <1>5, <1>6, <1>10, <1>11 DEF WalkInv

\* The first of the page comes after all that was shown, and before the rest.
LEMMA WriteKeepsWalk ==
    ASSUME WalkInv, WriteContainer
    PROVE  WalkInv'
  <1> DEFINE k == CHOOSE k \in walk.page : \A j \in walk.page : ~Before(j, k)
             more == IF Shows(walk.format, k) THEN <<k>> ELSE <<>>
  <1>1. /\ walk # NoWalk /\ walk.at = "rows" /\ walk \in Walks /\ walk.page # {}
        /\ walk' = [walk EXCEPT !.page = @ \ {k}, !.shown = @ \o more]
        /\ target' = IF walk.format = "listing" THEN target ELSE target \o more
        /\ UNCHANGED <<rows, stable>>
    BY DEF WriteContainer, Walking, WalkInv, Typed
  <1>2. walk.page \subseteq Keys /\ walk.shown \in Seq(Keys) /\ target \in Seq(Keys)
    BY <1>1 DEF Walks, WalkInv, Typed
  <1>3. k \in walk.page /\ \A j \in walk.page : j # k => Before(k, j)
    BY <1>1, <1>2, PageEnds
  <1> HIDE DEF k
  <1>4. k \in Keys /\ (more = <<k>> \/ more = <<>>) /\ (Shows(walk.format, k) => more = <<k>>)
    BY <1>2, <1>3
  <1> HIDE DEF more
  <1>5. /\ walk.shown \o more \in Seq(Keys) /\ target \o more \in Seq(Keys)
        /\ walk.shown \o <<>> = walk.shown
    BY <1>2, <1>4, OneMore
  <1>6. /\ walk' \in Walks /\ walk'.at = "rows" /\ walk'.page = walk.page \ {k}
        /\ walk'.next = walk.next /\ walk'.format = walk.format /\ walk'.db = walk.db
        /\ walk'.cursor = walk.cursor /\ walk'.shown = walk.shown \o more
    BY <1>1, <1>5 DEF Walks
  <1>7. Recorded' = Recorded /\ rows' = rows
    BY <1>1 DEF Recorded
  <1>8. Typed'
    BY <1>1, <1>5, <1>6, <1>7 DEF WalkInv, Typed
  <1>9. StableInv'
    BY <1>1, <1>6, <1>7 DEF WalkInv, StableInv, OfDatabase, Shows
  <1>10. CASE more = <<>>
    <2>1. Told' = Told /\ walk'.shown = walk.shown
      BY <1>5, <1>6, <1>10 DEF Told
    <2>2. target' = target
      BY <1>1, <1>2, <1>10, OneMore, <1>4
    <2>3. OrderedInv'
      BY <1>1, <1>6, <2>1, <2>2 DEF WalkInv, OrderedInv
    <2>4. k \notin stable
      BY <1>1, <1>4, <1>10 DEF WalkInv, StableInv
    <2>5. CoverInv'
      BY <1>1, <1>6, <2>1, <2>4 DEF WalkInv, CoverInv
    <2> QED  BY <1>8, <1>9, <2>3, <2>5 DEF WalkInv
  <1>11. CASE more = <<k>>
    <2> DEFINE n == Len(walk.shown)
    <2>1. /\ Len(walk'.shown) = n + 1 /\ n \in Nat
          /\ \A i \in 1 .. n : walk'.shown[i] = walk.shown[i]
          /\ walk'.shown[n + 1] = k
      BY <1>2, <1>4, <1>6, <1>11, OneMore
    <2>2. Told' = Told \cup {k}
      <3>1. \A i \in 1 .. n + 1 : i \in 1 .. n \/ i = n + 1
        BY <2>1
      <3>2. \A i \in 1 .. n : i \in 1 .. n + 1
        BY <2>1
      <3>3. n + 1 \in 1 .. n + 1
        BY <2>1
      <3> HIDE DEF n
      <3>4. Told = {walk.shown[i] : i \in 1 .. n}
        BY DEF Told, n
      <3>5. Told' = {walk'.shown[i] : i \in 1 .. n + 1}
        BY <2>1 DEF Told
      <3> QED  BY <2>1, <3>1, <3>2, <3>3, <3>4, <3>5
    <2>3. \A j \in Told : Before(j, k)
      BY <1>1, <1>3 DEF WalkInv, OrderedInv
    <2>4. \A i, j \in 1 .. Len(walk'.shown) : i < j => Before(walk'.shown[i], walk'.shown[j])
      <3> SUFFICES ASSUME NEW i \in 1 .. n + 1, NEW j \in 1 .. n + 1, i < j
                   PROVE  Before(walk'.shown[i], walk'.shown[j])
        BY <2>1
      <3>1. i \in 1 .. n /\ (j \in 1 .. n \/ j = n + 1)
        BY <2>1
      <3>2. CASE j \in 1 .. n
        BY <1>1, <2>1, <3>1, <3>2 DEF WalkInv, OrderedInv
      <3>3. CASE j = n + 1
        <4>1. walk.shown[i] \in Told
          BY <3>1 DEF Told
        <4> QED  BY <2>1, <2>3, <3>1, <3>3, <4>1
      <3> QED  BY <3>1, <3>2, <3>3
    <2>5. walk'.format # "listing" => target' = walk'.shown
      BY <1>1, <1>6 DEF WalkInv, OrderedInv
    <2>6. \A j \in Told', i \in walk'.page : Before(j, i)
      BY <1>1, <1>3, <1>6, <2>2 DEF WalkInv, OrderedInv
    <2>7. walk'.next # None => \A j \in Told' \cup walk'.page : j.name <= walk'.next
      BY <1>1, <1>3, <1>6, <2>2 DEF WalkInv, OrderedInv
    <2>8. OrderedInv'
      BY <1>6, <2>4, <2>5, <2>6, <2>7 DEF OrderedInv
    <2>9. CoverInv'
      BY <1>1, <1>6, <2>2 DEF WalkInv, CoverInv
    <2> QED  BY <1>8, <1>9, <2>8, <2>9 DEF WalkInv
  <1> QED  BY <1>4, <1>10, <1>11

\* The next page starts where this one ended.
LEMMA TurnKeepsWalk ==
    ASSUME WalkInv, TurnPage
    PROVE  WalkInv'
  <1>1. /\ walk # NoWalk /\ walk.at = "rows" /\ walk \in Walks
        /\ walk.page = {} /\ walk.next # None
        /\ walk' = [walk EXCEPT !.at = "page", !.cursor = walk.next]
        /\ UNCHANGED <<rows, target, stable>>
    BY DEF TurnPage, Walking, WalkInv, Typed
  <1>2. /\ walk' \in Walks /\ walk'.at = "page" /\ walk'.cursor = walk.next
        /\ walk'.format = walk.format /\ walk'.db = walk.db /\ walk'.shown = walk.shown
        /\ walk.next \in Nat
    BY <1>1 DEF Walks
  <1>3. Recorded' = Recorded /\ Told' = Told /\ rows' = rows
    BY <1>1, <1>2 DEF Recorded, Told
  <1>4. Typed'
    BY <1>1, <1>2, <1>3 DEF WalkInv, Typed
  <1>5. StableInv'
    BY <1>1, <1>2, <1>3 DEF WalkInv, StableInv, OfDatabase, Shows
  <1>6. OrderedInv'
    BY <1>1, <1>2, <1>3 DEF WalkInv, OrderedInv
  <1>7. CoverInv'
    <2> SUFFICES ASSUME NEW k \in stable, k.name <= walk.next
                 PROVE  k \in Told \/ Namesake(k)
      BY <1>1, <1>2, <1>3 DEF CoverInv
    <2>1. k \in Told \/ Namesake(k) \/ k.name > walk.next
      BY <1>1 DEF WalkInv, CoverInv
    <2>2. k.name \in Nat
      BY CatalogAssumption DEF WalkInv, Typed
    <2> QED  BY <1>2, <2>1, <2>2
  <1> QED  BY <1>4, <1>5, <1>6, <1>7 DEF WalkInv

\* What is written meanwhile takes no container that counts from the walk but
\* one that is forgotten.
LEMMA WritingKeepsWalk ==
    ASSUME WalkInv, UNCHANGED <<walk, target>>, stable' \subseteq stable,
           Recorded' \subseteq Keys, rows' \in [Recorded' -> RowType],
           \A k \in stable' : k \in Recorded => k \in Recorded' /\
               (walk.format = "dbt_yaml" /\ rows[k].columns > 0 => rows'[k].columns > 0)
    PROVE  WalkInv'
  <1>1. Told' = Told
    BY DEF Told
  <1>2. Typed'
    BY DEF WalkInv, Typed
  <1>3. OrderedInv' /\ CoverInv'
    BY <1>1 DEF WalkInv, OrderedInv, CoverInv
  <1>4. StableInv'
    BY DEF WalkInv, StableInv, OfDatabase, Shows
  <1> QED  BY <1>2, <1>3, <1>4 DEF WalkInv

LEMMA NextWalk ==
    ASSUME WalkInv, [Next]_vars
    PROVE  WalkInv'
  <1>0. Recorded \subseteq Keys /\ rows \in [Recorded -> RowType]
    BY DEF WalkInv, Typed
  <1>1. CASE UNCHANGED <<rows, walk, target, stable>>
    <2>1. Recorded' = Recorded
      BY <1>1 DEF Recorded
    <2> QED  BY <1>0, <1>1, <2>1, WritingKeepsWalk
  <1>2. CASE \/ \E check \in Checks : CheckConnection(check)
             \/ Claim \/ CreateTables \/ Mark \/ Serve \/ UNCHANGED vars
    BY <1>1, <1>2 DEF CheckConnection, Claim, CreateTables, Mark, Serve, vars, unread
  <1>3. CASE Crash \/ Reported
    <2>1. walk' = NoWalk /\ stable' = {} /\ rows' = rows /\ target' = target
      BY <1>3 DEF Crash, Reported
    <2>2. Recorded' = Recorded
      BY <2>1 DEF Recorded
    <2>3. Typed'
      BY <1>0, <2>1, <2>2 DEF WalkInv, Typed
    <2> QED  BY <2>1, <2>3 DEF WalkInv, StableInv, OrderedInv, CoverInv
  <1>4. ASSUME NEW k \in Keys, NEW failed \in BOOLEAN, UpsertContainer(k, failed)
        PROVE  WalkInv'
    <2>1. /\ rows' = [j \in Recorded \cup {k} |->
                        IF j # k THEN rows[j]
                        ELSE IF k \in Recorded THEN [rows[k] EXCEPT !.error = failed]
                        ELSE [columns |-> 0, error |-> failed, told |-> {}]]
          /\ UNCHANGED <<walk, target, stable>>
      BY <1>4 DEF UpsertContainer
    <2>2. Recorded' = Recorded \cup {k}
      BY <2>1 DEF Recorded
    <2>3. \A j \in Recorded' : /\ rows'[j] \in RowType
                               /\ j \in Recorded => rows'[j].columns = rows[j].columns
      BY <1>0, <2>1, <2>2 DEF RowType
    <2>4. rows' \in [Recorded' -> RowType]
      BY <2>1, <2>2, <2>3
    <2> QED  BY <1>0, <2>1, <2>2, <2>3, <2>4, WritingKeepsWalk
  <1>5. ASSUME ReplaceColumns
        PROVE  WalkInv'
    <2>1. PICK n \in 0 .. Columns :
            /\ rows' = [rows EXCEPT ![scanning].columns = n, ![scanning].told = @ \cap (0 .. n)]
            /\ stable' = {k \in stable : k # scanning \/ n > 0 \/ walk.format # "dbt_yaml"}
      BY <1>5 DEF ReplaceColumns
    <2>2. Recorded' = Recorded /\ n \in Nat
      BY <2>1, CatalogAssumption DEF Recorded
    <2>3. ASSUME NEW j \in Recorded
          PROVE  /\ rows'[j] \in RowType
                 /\ (j # scanning \/ n > 0) /\ rows[j].columns > 0 => rows'[j].columns > 0
      <3>1. CASE j # scanning
        <4>1. rows'[j] = rows[j]
          BY <1>0, <2>1, <3>1
        <4> QED
          BY <1>0, <4>1
      <3>2. CASE j = scanning
        <4>1. rows'[j] = [rows[j] EXCEPT !.columns = n, !.told = rows[j].told \cap (0 .. n)]
          BY <1>0, <2>1, <3>2
        <4>2. rows[j] \in RowType
          BY <1>0
        <4>3. rows'[j] \in RowType /\ rows'[j].columns = n
          BY <2>2, <4>1, <4>2 DEF RowType
        <4> QED
          BY <3>2, <4>3
      <3> QED
        BY <3>1, <3>2
    <2>4. rows' \in [Recorded' -> RowType]
      BY <1>0, <2>1, <2>2, <2>3
    <2>5. stable' \subseteq stable /\ UNCHANGED <<walk, target>>
      BY <1>5, <2>1 DEF ReplaceColumns
    <2>6. \A k \in stable' : k \in Recorded => k \in Recorded' /\
            (walk.format = "dbt_yaml" /\ rows[k].columns > 0 => rows'[k].columns > 0)
      BY <2>1, <2>2, <2>3
    <2> QED  BY <1>0, <2>2, <2>4, <2>5, <2>6, WritingKeepsWalk
  <1>6. ASSUME NEW k \in Keys, ForgetContainer(k)
        PROVE  WalkInv'
    <2>1. /\ rows' = [j \in Recorded \ {k} |-> rows[j]]
          /\ stable' = stable \ {k} /\ UNCHANGED <<walk, target>>
      BY <1>6 DEF ForgetContainer
    <2>2. Recorded' = Recorded \ {k} /\ \A j \in Recorded' : rows'[j] = rows[j]
      BY <2>1 DEF Recorded
    <2>3. rows' \in [Recorded' -> RowType]
      BY <1>0, <2>1, <2>2
    <2> QED  BY <1>0, <2>1, <2>2, <2>3, WritingKeepsWalk
  <1>7. ASSUME NEW k \in Keys, Annotate(k)
        PROVE  WalkInv'
    <2>1. PICK i \in 0 .. rows[k].columns : rows' = [rows EXCEPT ![k].told = @ \cup {i}]
      BY <1>7 DEF Annotate
    <2>2. Recorded' = Recorded /\ UNCHANGED <<walk, target, stable>> /\ i \in Nat
      BY <1>0, <1>7, <2>1 DEF Recorded, Annotate, RowType
    <2>3. \A j \in Recorded : rows'[j] \in RowType /\ rows'[j].columns = rows[j].columns
      BY <1>0, <2>1, <2>2 DEF RowType
    <2>4. rows' \in [Recorded' -> RowType]
      BY <1>0, <2>1, <2>2, <2>3
    <2> QED  BY <1>0, <2>2, <2>3, <2>4, WritingKeepsWalk
  <1> QED
    BY <1>2, <1>3, <1>4, <1>5, <1>6, <1>7, BeginKeepsWalk, PageKeepsWalk,
       WriteKeepsWalk, TurnKeepsWalk DEF Next

LEMMA InitWalk == Init => WalkInv
  <1> SUFFICES ASSUME Init PROVE WalkInv
    OBVIOUS
  <1>1. walk = NoWalk /\ stable = {} /\ target = <<>>
    BY DEF Init
  <1>2. CASE store = "ours"
    <2>1. rows = [k \in Keys |-> [columns |-> 1, error |-> FALSE, told |-> {}]]
      BY <1>2 DEF Init
    <2> QED  BY <1>1, <2>1 DEF WalkInv, Typed, StableInv, OrderedInv, CoverInv, Recorded, RowType
  <1>3. CASE store # "ours"
    <2>1. rows = [k \in {} |-> [columns |-> 0, error |-> FALSE, told |-> {}]]
      BY <1>3 DEF Init
    <2> QED  BY <1>1, <2>1 DEF WalkInv, Typed, StableInv, OrderedInv, CoverInv, Recorded, RowType
  <1> QED  BY <1>2, <1>3

LEMMA SpecWalk == Spec => []WalkInv
  <1>1. WalkInv /\ [Next]_vars => WalkInv'
    BY NextWalk
  <1> QED  BY InitWalk, <1>1, PTL DEF Spec

\* A walk of the pages leaves out no container it could have shown all the time
\* but a namesake of one in another database, for any page size, whatever is
\* written or forgotten between two pages (staging.py containers, export.py _walk).
THEOREM OnlyNamesakesGoMissing == Spec => []OnlyNamesakesAreSkipped
  <1>1. WalkInv => OnlyNamesakesAreSkipped
    BY DEF WalkInv, CoverInv, OnlyNamesakesAreSkipped, LastPageRead, Walking, Namesake
  <1> QED  BY SpecWalk, <1>1, PTL

\* No container is shown twice, and all in order (staging.py containers).
THEOREM NothingIsShownTwice == Spec => []EachIsShownOnce
  <1>1. WalkInv => EachIsShownOnce
    BY DEF WalkInv, OrderedInv, EachIsShownOnce
  <1> QED  BY SpecWalk, <1>1, PTL

-----------------------------------------------------------------------------
(* Searches *)

Hits == [key : Keys, column : Nat]

\* The order of names on a set of hits, and the order of rank.
NameOrder(S) == {p \in S \X S : Sooner(p[1], p[2])}
RankOrder(S) == {p \in S \X S : Outranks(p[1], p[2])}

LEMMA ImageIsFinite ==
    ASSUME NEW X, IsFiniteSet(X), NEW f, f = [x \in X |-> f[x]]
    PROVE  IsFiniteSet({f[x] : x \in X})
  <1>1. f \in Surjection(X, {f[x] : x \in X})
    BY DEF Surjection
  <1> QED  BY <1>1, FS_Surjection

\* Names put hits in a line.
LEMMA SoonerIsALine ==
    /\ \A h \in Hits : ~Sooner(h, h)
    /\ \A f, g, h \in Hits : Sooner(f, g) /\ Sooner(g, h) => Sooner(f, h)
    /\ \A g, h \in Hits : g # h => Sooner(g, h) \/ Sooner(h, g)
  <1>1. \A h \in Hits : h.key \in [db : Nat, name : Nat] /\ h.column \in Nat
    BY CatalogAssumption DEF Hits
  <1>2. \A h \in Hits : ~Sooner(h, h)
    BY <1>1 DEF Sooner, Before
  <1>3. \A f, g, h \in Hits : Sooner(f, g) /\ Sooner(g, h) => Sooner(f, h)
    BY <1>1 DEF Sooner, Before
  <1>4. ASSUME NEW g \in Hits, NEW h \in Hits, g # h
        PROVE  Sooner(g, h) \/ Sooner(h, g)
    <2>1. CASE g.key = h.key
      <3>1. g.column # h.column
        BY <1>4, <2>1 DEF Hits
      <3> QED  BY <1>1, <2>1, <3>1 DEF Sooner
    <2>2. CASE g.key # h.key
      <3>1. g.key.name # h.key.name \/ g.key.db # h.key.db
        BY <1>1, <2>2
      <3> QED  BY <1>1, <3>1 DEF Sooner, Before
    <2> QED  BY <2>1, <2>2
  <1> QED  BY <1>2, <1>3, <1>4

\* And so does rank: by name first, containers before columns, then by name.
LEMMA OutranksIsALine ==
    /\ \A h \in Hits : ~Outranks(h, h)
    /\ \A f, g, h \in Hits : Outranks(f, g) /\ Outranks(g, h) => Outranks(f, h)
    /\ \A g, h \in Hits : g # h => Outranks(g, h) \/ Outranks(h, g)
  <1> DEFINE Kind(h) == h.column = 0
             Rank(g, h) == \/ ByName(g) /\ ~ByName(h)
                           \/ /\ ByName(g) <=> ByName(h)
                              /\ \/ Kind(g) /\ ~Kind(h)
                                 \/ (Kind(g) <=> Kind(h)) /\ Sooner(g, h)
  <1>1. \A g, h : Outranks(g, h) <=> Rank(g, h)
    BY DEF Outranks, ByName
  <1> HIDE DEF Kind
  <1>2. \A h \in Hits : ~Rank(h, h)
    BY SoonerIsALine
  <1>3. \A f, g, h \in Hits : Rank(f, g) /\ Rank(g, h) => Rank(f, h)
    BY SoonerIsALine
  <1>4. \A g, h \in Hits : g # h => Rank(g, h) \/ Rank(h, g)
    BY SoonerIsALine
  <1> QED  BY <1>1, <1>2, <1>3, <1>4

\* The first so many by name, or by rank, of a finite set of hits.
LEMMA TopIsFirst ==
    ASSUME NEW S \in SUBSET Hits, NEW n
    PROVE  /\ StrictOrder(S, NameOrder(S)) /\ TopOf(n, S, Sooner) = First(n, S, NameOrder(S))
           /\ StrictOrder(S, RankOrder(S)) /\ TopOf(n, S, Outranks) = First(n, S, RankOrder(S))
  <1>1. /\ \A g, h \in S : <<g, h>> \in NameOrder(S) <=> Sooner(g, h)
        /\ NameOrder(S) \subseteq S \X S
    BY DEF NameOrder
  <1>2. /\ \A g, h \in S : <<g, h>> \in RankOrder(S) <=> Outranks(g, h)
        /\ RankOrder(S) \subseteq S \X S
    BY DEF RankOrder
  <1>3. StrictOrder(S, NameOrder(S))
    BY <1>1, SoonerIsALine DEF StrictOrder
  <1>4. StrictOrder(S, RankOrder(S))
    BY <1>2, OutranksIsALine DEF StrictOrder
  <1>5. ASSUME NEW h \in S
        PROVE  {g \in S : Sooner(g, h)} = Preceding(h, S, NameOrder(S))
    BY <1>1 DEF Preceding
  <1>6. ASSUME NEW h \in S
        PROVE  {g \in S : Outranks(g, h)} = Preceding(h, S, RankOrder(S))
    BY <1>2 DEF Preceding
  <1>7. TopOf(n, S, Sooner) = First(n, S, NameOrder(S))
    BY <1>5 DEF TopOf, First
  <1>8. TopOf(n, S, Outranks) = First(n, S, RankOrder(S))
    BY <1>6 DEF TopOf, First
  <1> QED  BY <1>3, <1>4, <1>7, <1>8

\* What there is to find is a finite set of hits.
LEMMA MatchesAreFinite ==
    ASSUME Typed, NEW db
    PROVE  /\ ContainerMatches(db) \subseteq Hits /\ IsFiniteSet(ContainerMatches(db))
           /\ ColumnMatches(db) \subseteq Hits /\ IsFiniteSet(ColumnMatches(db))
  <1>1. OfDatabase(db) \subseteq Keys /\ \A k \in OfDatabase(db) : rows[k].columns \in Nat
    BY DEF Typed, OfDatabase, RowType
  <1>2. IsFiniteSet(OfDatabase(db))
    BY <1>1, CatalogAssumption, FS_Subset
  <1>3. IsFiniteSet(ContainerMatches(db))
    <2> DEFINE X == {j \in OfDatabase(db) : j.name \in NameMentions \/ 0 \in rows[j].told}
               f == [k \in X |-> Hit(k, 0)]
    <2>1. IsFiniteSet(X)
      BY <1>2, FS_Subset
    <2>2. ContainerMatches(db) = {f[k] : k \in X}
      BY DEF ContainerMatches
    <2>3. f = [k \in X |-> f[k]]
      OBVIOUS
    <2> HIDE DEF X, f
    <2> QED  BY <2>1, <2>2, <2>3, ImageIsFinite
  <1>4. IsFiniteSet(ColumnMatches(db))
    <2> DEFINE Ordinals(k) == (ColumnMentions \cup rows[k].told) \cap (1 .. rows[k].columns)
               g == [k \in OfDatabase(db) |-> {Hit(k, i) : i \in Ordinals(k)}]
    <2>1. ASSUME NEW k \in OfDatabase(db)
          PROVE  IsFiniteSet(g[k])
      <3> DEFINE f == [i \in Ordinals(k) |-> Hit(k, i)]
      <3>1. IsFiniteSet(1 .. rows[k].columns)
        BY <1>1, FS_Interval
      <3>2. IsFiniteSet(Ordinals(k))
        BY <3>1, FS_Subset
      <3>3. g[k] = {f[i] : i \in Ordinals(k)} /\ f = [i \in Ordinals(k) |-> f[i]]
        OBVIOUS
      <3> HIDE DEF f, g, Ordinals
      <3> QED  BY <3>2, <3>3, ImageIsFinite
    <2>2. ColumnMatches(db) = UNION {g[k] : k \in OfDatabase(db)}
      BY DEF ColumnMatches
    <2>3. g = [k \in OfDatabase(db) |-> g[k]]
      OBVIOUS
    <2> HIDE DEF g
    <2>4. IsFiniteSet({g[k] : k \in OfDatabase(db)})
      BY <1>2, <2>3, ImageIsFinite
    <2>5. \A T \in {g[k] : k \in OfDatabase(db)} : IsFiniteSet(T)
      BY <2>1
    <2> QED  BY <2>2, <2>4, <2>5, FS_UNION
  <1>5. ContainerMatches(db) \subseteq Hits
    BY <1>1 DEF ContainerMatches, Hits, Hit
  <1>6. ColumnMatches(db) \subseteq Hits
    BY <1>1 DEF ColumnMatches, Hits, Hit
  <1> QED  BY <1>3, <1>4, <1>5, <1>6

\* Neither cut has taken anything away from a search that is not full.
LEMMA NotFullIsAll ==
    ASSUME Typed, NEW db, NEW limit \in Nat, Cardinality(Search(db, limit)) < limit
    PROVE  Search(db, limit) = ContainerMatches(db) \cup ColumnMatches(db)
  <1> DEFINE C == ContainerMatches(db)
             D == ColumnMatches(db)
             FirstC == First(limit, C, NameOrder(C))
             FirstD == First(limit, D, NameOrder(D))
             U == FirstC \cup FirstD
  <1>1. C \subseteq Hits /\ IsFiniteSet(C) /\ D \subseteq Hits /\ IsFiniteSet(D)
    BY MatchesAreFinite
  <1>2. TopOf(limit, C, Sooner) = FirstC /\ TopOf(limit, D, Sooner) = FirstD
    <2> HIDE DEF C, D
    <2> QED  BY <1>1, TopIsFirst
  <1>3. Search(db, limit) = TopOf(limit, U, Outranks)
    BY <1>2 DEF Search
  <1> HIDE DEF C, D
  <1>4. FirstC \subseteq C /\ FirstD \subseteq D
    BY DEF First
  <1>5. IsFiniteSet(FirstC) /\ IsFiniteSet(FirstD)
    BY <1>1, <1>4, FS_Subset
  <1>6. U \subseteq Hits /\ IsFiniteSet(U)
    BY <1>1, <1>4, <1>5, FS_Union
  <1> HIDE DEF U
  <1>7. StrictOrder(U, RankOrder(U)) /\ Search(db, limit) = First(limit, U, RankOrder(U))
    BY <1>3, <1>6, TopIsFirst
  <1>8. Search(db, limit) = U
    BY <1>6, <1>7, FewAreAll
  <1>9. Cardinality(U) < limit /\ Cardinality(U) \in Nat
    BY <1>6, <1>8, FS_CardinalityType
  <1>10. FirstC \subseteq U /\ FirstD \subseteq U
    BY DEF U
  <1> HIDE DEF FirstC, FirstD
  <1>11. /\ Cardinality(FirstC) \in Nat /\ Cardinality(FirstC) <= Cardinality(U)
         /\ Cardinality(FirstD) \in Nat /\ Cardinality(FirstD) <= Cardinality(U)
    BY <1>5, <1>6, <1>10, FS_Subset, FS_CardinalityType
  <1>12. Cardinality(FirstC) < limit /\ Cardinality(FirstD) < limit
    BY <1>9, <1>11
  <1>13. StrictOrder(C, NameOrder(C)) /\ StrictOrder(D, NameOrder(D))
    BY <1>1, TopIsFirst
  <1>14. FirstC = C /\ FirstD = D
    BY <1>1, <1>12, <1>13, FewAreAll DEF FirstC, FirstD
  <1> QED  BY <1>8, <1>14 DEF U, C, D

\* A search that is not full has found all there is, for any limit, although the
\* containers and the columns were each cut off by name before the ranking
\* (staging.py search, _container_hits, _column_hits).
THEOREM ShortSearchFindsAll ==
    Spec => [](/\ ShortSearchIsComplete
               /\ \A db \in Databases, limit \in Nat :
                     Cardinality(Search(db, limit)) < limit =>
                        Search(db, limit) = ContainerMatches(db) \cup ColumnMatches(db))
  <1>1. WalkInv => \A db \in Databases, limit \in Nat :
                      Cardinality(Search(db, limit)) < limit =>
                         Search(db, limit) = ContainerMatches(db) \cup ColumnMatches(db)
    BY NotFullIsAll DEF WalkInv
  <1>2. WalkInv => ShortSearchIsComplete
    BY <1>1 DEF ShortSearchIsComplete
  <1> QED  BY SpecWalk, <1>1, <1>2, PTL
=============================================================================
