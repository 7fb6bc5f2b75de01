------------------------- MODULE AdapterPoolProofs -------------------------
(***************************************************************************)
(* Proofs about AdapterPool, for any number of callers, databases and      *)
(* adapters, any max_size and any timeout.                                 *)
(*                                                                         *)
(* Control says who may be where and who is inside the lock; on it rest    *)
(* OrderInv, by which the dictionary is a strict order of its entries that *)
(* agrees with their last use, and OwnInv, by which an adapter that is not *)
(* yet closed has exactly one owner: an entry or a thread that is to close *)
(* it.                                                                     *)
(***************************************************************************)
EXTENDS AdapterPool, FiniteSetTheorems, WellFoundedInduction, TLAPS

-----------------------------------------------------------------------------
(* Finite sets whose elements stand in a line, as the dictionary's do        *)

\* R puts the elements of S in a line.
StrictOrder(S, R) ==
    /\ R \subseteq S \X S
    /\ \A x \in S : <<x, x>> \notin R
    /\ \A x, y, z \in S : <<x, y>> \in R /\ <<y, z>> \in R => <<x, z>> \in R
    /\ \A x, y \in S : x # y => <<x, y>> \in R \/ <<y, x>> \in R

\* A line stays one when elements leave it.
LEMMA Restriction ==
    ASSUME NEW S, NEW R, StrictOrder(S, R), NEW D,
           NEW T, T = S \ D,
           NEW Q, Q = {p \in R : p[1] \notin D /\ p[2] \notin D}
    PROVE  StrictOrder(T, Q)
  BY DEF StrictOrder

\* A line stays one when a new element is put at its end.
LEMMA Extension ==
    ASSUME NEW S, NEW R, StrictOrder(S, R), NEW k, k \notin S
    PROVE  StrictOrder(S \cup {k}, R \cup (S \X {k}))
  <1> DEFINE T == S \cup {k}
             Q == R \cup (S \X {k})
  <1>1. Q \subseteq T \X T
    BY DEF StrictOrder
  <1>2. \A x, y : <<x, y>> \in Q <=> <<x, y>> \in R \/ (x \in S /\ y = k)
    OBVIOUS
  <1>3. \A x, y : <<x, y>> \in R => x \in S /\ y \in S
    BY DEF StrictOrder
  <1> HIDE DEF Q
  <1>4. \A x \in T : <<x, x>> \notin Q
    BY <1>2, <1>3 DEF StrictOrder
  <1>5. \A x, y, z \in T : <<x, y>> \in Q /\ <<y, z>> \in Q => <<x, z>> \in Q
    BY <1>2, <1>3 DEF StrictOrder
  <1>6. \A x, y \in T : x # y => <<x, y>> \in Q \/ <<y, x>> \in Q
    BY <1>2, <1>3 DEF StrictOrder
  <1>7. StrictOrder(T, Q)
    BY <1>1, <1>4, <1>5, <1>6 DEF StrictOrder
  <1> QED  BY <1>7 DEF Q

\* A line of finitely many elements has a first one.
LEMMA HasFirst ==
    ASSUME NEW S, IsFiniteSet(S), S # {}, NEW R, StrictOrder(S, R)
    PROVE  \E x \in S : \A y \in S : y # x => <<x, y>> \in R
  <1> DEFINE Earlier(x) == {y \in S : <<y, x>> \in R}
             B == {Earlier(x) : x \in S}
             O == StrictSubsetOrdering(S)
  <1>1. IsWellFoundedOn(O, FiniteSubsetsOf(S))
    BY FS_StrictSubsetOrderingWellFounded
  <1>2. B \subseteq FiniteSubsetsOf(S)
    <2>1. \A x \in S : Earlier(x) \in SUBSET S
      OBVIOUS
    <2> HIDE DEF Earlier
    <2>2. FiniteSubsetsOf(S) = SUBSET S
      BY FS_FiniteSubsetsOfFinite
    <2> QED  BY <2>1, <2>2
  <1>3. B # {}
    OBVIOUS
  <1>4. \E b \in B : \A c \in B : ~ (<<c, b>> \in O)
    <2> HIDE DEF B, O
    <2> QED  BY <1>1, <1>2, <1>3, WFMin
  <1>5. PICK x \in S : \A y \in S : ~ (<<Earlier(y), Earlier(x)>> \in O)
    BY <1>4
  <1>6. \A y \in S : <<y, x>> \notin R
    <2> SUFFICES ASSUME NEW y \in S, <<y, x>> \in R
                 PROVE  FALSE
      OBVIOUS
    <2>1. Earlier(y) \subseteq Earlier(x)
      BY DEF StrictOrder
    <2>2. y \in Earlier(x) /\ y \notin Earlier(y)
      BY DEF StrictOrder
    <2>3. Earlier(x) \in SUBSET S /\ Earlier(y) \in SUBSET S
      OBVIOUS
    <2> HIDE DEF Earlier
    <2>4. <<Earlier(y), Earlier(x)>> \in O
      BY <2>1, <2>2, <2>3 DEF StrictSubsetOrdering
    <2> QED  BY <1>5, <2>4
  <1> QED  BY <1>6 DEF StrictOrder

-----------------------------------------------------------------------------
(* The invariants *)

\* t is inside the lock.
Inside(t) == pc[t] \in {"lookup", "create", "settle"}

\* Where each thread may be, and what it has with it there.
Control ==
    /\ \A t \in Callers :
          pc[t] \in {"out", "lookup", "create", "settle", "closing", "using"}
    /\ pc[Reaper] \in {"off", "waiting", "closing"}
    /\ pc[Lifespan] \in {"starting", "serving", "stopping", "closing", "closed"}
    /\ pc[Lifespan] = "starting" => pc[Reaper] = "off"
    /\ lock \in Callers \cup {None}
    /\ \A t \in Callers : Inside(t) <=> lock = t
    /\ \A t \in Callers : Inside(t) => want[t] \in Keys
    /\ \A t \in Threads : ~Inside(t) /\ pc[t] # "closing" => discarded[t] = {}

ControlInv == TypeOK /\ Control

\* The dictionary's order is the order of last use, but for the entry that a
\* call inside the lock is about to move to the end.
OrderInv ==
    /\ StrictOrder(Pooled, older)
    /\ \A t \in Callers : pc[t] = "create" => entry[want[t]] = None
    /\ \A t \in Callers : pc[t] = "settle" => entry[want[t]] # None
    /\ \A k \in Keys : used[k] <= clock
    /\ \A x, y \in Keys : <<x, y>> \in older =>
          used[x] <= used[y] \/ \E t \in Callers : pc[t] = "settle" /\ want[t] = y

Live(a) == state[a] \in {"open", "dead"}

\* A live adapter has one owner, and what is owned is live.
OwnInv ==
    /\ \A j, k \in Pooled : entry[j] = entry[k] => j = k
    /\ \A t \in Threads : \A a \in discarded[t] :
          /\ \A k \in Keys : entry[k] # a
          /\ \A s \in Threads \ {t} : a \notin discarded[s]
    /\ \A a \in Adapters : Live(a) <=> Owned(a)

-----------------------------------------------------------------------------
(* Types and control *)

\* Taking keys out of the dictionary keeps its types.
LEMMA WithoutTypes ==
    ASSUME TypeOK, NEW ks, Without(ks)
    PROVE  /\ entry' \in [Keys -> Adapters \cup {None}]
           /\ used' \in [Keys -> Nat]
           /\ older' \subseteq Keys \X Keys
  <1>1. entry' \in [Keys -> Adapters \cup {None}]
    BY DEF TypeOK, Without
  <1>2. used' \in [Keys -> Nat]
    BY DEF TypeOK, Without
  <1>3. older' \subseteq Keys \X Keys
    BY DEF TypeOK, Without
  <1> QED  BY <1>1, <1>2, <1>3

\* What is taken out are adapters.
LEMMA AdaptersOfTypes ==
    ASSUME TypeOK, NEW ks \in SUBSET Pooled
    PROVE  AdaptersOf(ks) \subseteq Adapters
  BY DEF TypeOK, AdaptersOf, Pooled

LEMMA ExpiredPooled == Expired \subseteq Pooled
  BY DEF Expired

LEMMA InitControl == Init => ControlInv
  <1> SUFFICES ASSUME Init PROVE ControlInv
    OBVIOUS
  <1> USE PoolAssumption
  <1>1. TypeOK
    BY DEF Init, TypeOK, Threads
  <1>2. Control
    BY DEF Init, Control, Inside, Threads
  <1> QED  BY <1>1, <1>2 DEF ControlInv

\* The steps of a call of get.
LEMMA GetControl ==
    ASSUME ControlInv, NEW t \in Callers, BeginGet(t) \/ Get(t) \/ Drop(t)
    PROVE  ControlInv'
  <1> USE PoolAssumption DEF ControlInv
  <1>0. t \in Threads /\ t # Reaper /\ t # Lifespan /\ t # None
    BY DEF Threads
  <1>1. CASE BeginGet(t)
    <2>1. TypeOK'
      <3>1. AdaptersOf(Expired) \subseteq Adapters
        BY ExpiredPooled, AdaptersOfTypes
      <3> QED  BY <1>0, <1>1, <3>1, WithoutTypes DEF BeginGet, TypeOK, Threads
    <2>2. Control'
      BY <1>0, <1>1 DEF BeginGet, TypeOK, Control, Inside, Threads
    <2> QED  BY <2>1, <2>2
  <1>2. CASE FindAlive(t)
    <2>0. entry[want[t]] \in Adapters
      BY <1>2 DEF FindAlive, TypeOK, Control, Inside
    <2>1. TypeOK'
      BY <1>0, <1>2, <2>0 DEF FindAlive, TypeOK, kept
    <2>2. Control'
      BY <1>0, <1>2 DEF FindAlive, TypeOK, Control, Inside, Threads, kept
    <2> QED  BY <2>1, <2>2
  <1>3. CASE FindNone(t)
    <2>0. want[t] \in Keys
      BY <1>3 DEF FindNone, Control, Inside
    <2>1. TypeOK'
      <3>1. CASE UNCHANGED <<kept, discarded>>
        BY <1>0, <1>3, <3>1 DEF FindNone, TypeOK, kept
      <3>2. CASE /\ entry[want[t]] # None /\ Without({want[t]})
                 /\ discarded' = [discarded EXCEPT ![t] = @ \cup {entry[want[t]]}]
        <4>1. entry[want[t]] \in Adapters
          BY <2>0, <3>2 DEF TypeOK
        <4> QED  BY <1>0, <1>3, <3>2, <4>1, WithoutTypes DEF FindNone, TypeOK
      <3> QED  BY <1>3, <3>1, <3>2 DEF FindNone
    <2>2. Control'
      BY <1>0, <1>3 DEF FindNone, TypeOK, Control, Inside, Threads
    <2> QED  BY <2>1, <2>2
  <1>4. CASE Create(t)
    <2> DEFINE keys == Pooled \cup {want[t]}
               order == older \cup (Pooled \X {want[t]})
               evicted == OverCapacity(order, keys)
    <2>0. want[t] \in Keys
      BY <1>4 DEF Create, Control, Inside
    <2>1. /\ evicted \ {want[t]} \subseteq Pooled
          /\ order \subseteq Keys \X Keys
      BY <2>0 DEF OverCapacity, TypeOK, Pooled
    <2>2. AdaptersOf(evicted \ {want[t]}) \subseteq Adapters
      BY <2>1, AdaptersOfTypes
    <2>3. TypeOK'
      <3>1. PICK a \in Free :
               /\ entry' = [x \in Keys |-> IF x \in evicted THEN None
                                           ELSE IF x = want[t] THEN a ELSE entry[x]]
               /\ state' = [state EXCEPT ![a] = "open"]
               /\ got' = [got EXCEPT ![t] = a]
        BY <1>4 DEF Create
      <3>2. a \in Adapters
        BY DEF Free
      <3>3. /\ entry' \in [Keys -> Adapters \cup {None}]
            /\ state' \in [Adapters -> {"open", "dead", "closed", "lost"}]
            /\ got' \in [Threads -> Adapters \cup {None}]
        BY <1>0, <3>1, <3>2 DEF TypeOK
      <3>4. used' \in [Keys -> Nat] /\ older' \subseteq Keys \X Keys
        BY <1>4, <2>1 DEF Create, TypeOK
      <3>5. discarded' \in [Threads -> SUBSET Adapters]
        BY <1>0, <1>4, <2>2 DEF Create, TypeOK
      <3> QED  BY <1>0, <1>4, <3>3, <3>4, <3>5 DEF Create, TypeOK
    <2>4. Control'
      BY <1>0, <1>4 DEF Create, TypeOK, Control, Inside, Threads
    <2> QED  BY <2>3, <2>4
  <1>5. CASE CreateFails(t)
    <2>1. TypeOK'
      BY <1>0, <1>5 DEF CreateFails, TypeOK, kept
    <2>2. Control'
      BY <1>0, <1>5 DEF CreateFails, TypeOK, Control, Inside, Threads, kept
    <2> QED  BY <2>1, <2>2
  <1>6. CASE Settle(t)
    <2>0. want[t] \in Keys
      BY <1>6 DEF Settle, Control, Inside
    <2>1. TypeOK'
      BY <1>0, <1>6, <2>0 DEF Settle, TypeOK, MovedToEnd, Pooled
    <2>2. Control'
      BY <1>0, <1>6 DEF Settle, TypeOK, Control, Inside, Threads
    <2> QED  BY <2>1, <2>2
  <1>7. CASE Return(t)
    <2>1. TypeOK'
      BY <1>0, <1>7 DEF Return, TypeOK, kept
    <2>2. Control'
      BY <1>0, <1>7 DEF Return, TypeOK, Control, Inside, Threads, kept
    <2> QED  BY <2>1, <2>2
  <1>8. CASE Drop(t)
    <2>1. TypeOK'
      BY <1>0, <1>8 DEF Drop, TypeOK, kept
    <2>2. Control'
      BY <1>0, <1>8 DEF Drop, TypeOK, Control, Inside, Threads, kept
    <2> QED  BY <2>1, <2>2
  <1> QED  BY <1>1, <1>2, <1>3, <1>4, <1>5, <1>6, <1>7, <1>8 DEF Get

\* The reaper's steps.
LEMMA ReaperControl ==
    ASSUME ControlInv, Reap \/ Reaped \/ ReaperExits
    PROVE  ControlInv'
  <1> USE PoolAssumption DEF ControlInv
  <1>0. Reaper \in Threads
    BY DEF Threads
  <1>1. CASE Reap
    <2>0. AdaptersOf(Expired) \subseteq Adapters
      BY ExpiredPooled, AdaptersOfTypes
    <2>1. TypeOK'
      BY <1>0, <1>1, <2>0, WithoutTypes DEF Reap, TypeOK
    <2>2. Control'
      BY <1>0, <1>1 DEF Reap, TypeOK, Control, Inside, Threads
    <2> QED  BY <2>1, <2>2
  <1>2. CASE Reaped
    <2>1. TypeOK'
      BY <1>0, <1>2 DEF Reaped, TypeOK, kept
    <2>2. Control'
      BY <1>0, <1>2 DEF Reaped, TypeOK, Control, Inside, Threads, kept
    <2> QED  BY <2>1, <2>2
  <1>3. CASE ReaperExits
    <2>1. TypeOK'
      BY <1>0, <1>3 DEF ReaperExits, TypeOK, kept
    <2>2. Control'
      BY <1>0, <1>3 DEF ReaperExits, TypeOK, Control, Inside, Threads, kept
    <2> QED  BY <2>1, <2>2
  <1> QED  BY <1>1, <1>2, <1>3

\* The steps of the thread that starts the server and closes it.
LEMMA LifespanControl ==
    ASSUME ControlInv, StartReaper \/ StopReaper \/ TakeAll \/ Closed
    PROVE  ControlInv'
  <1> USE PoolAssumption DEF ControlInv
  <1>0. Reaper \in Threads /\ Lifespan \in Threads
    BY DEF Threads
  <1>1. CASE StartReaper
    <2>1. TypeOK'
      BY <1>0, <1>1 DEF StartReaper, TypeOK, kept
    <2>2. Control'
      BY <1>0, <1>1 DEF StartReaper, TypeOK, Control, Inside, Threads, kept
    <2> QED  BY <2>1, <2>2
  <1>2. CASE StopReaper
    <2>1. TypeOK'
      BY <1>0, <1>2 DEF StopReaper, TypeOK, kept
    <2>2. Control'
      BY <1>0, <1>2 DEF StopReaper, TypeOK, Control, Inside, Threads, kept
    <2> QED  BY <2>1, <2>2
  <1>3. CASE TakeAll
    <2>0. AdaptersOf(Pooled) \subseteq Adapters
      BY AdaptersOfTypes
    <2>1. TypeOK'
      BY <1>0, <1>3, <2>0, WithoutTypes DEF TakeAll, TypeOK
    <2>2. Control'
      BY <1>0, <1>3 DEF TakeAll, TypeOK, Control, Inside, Threads
    <2> QED  BY <2>1, <2>2
  <1>4. CASE Closed
    <2>1. TypeOK'
      BY <1>0, <1>4 DEF Closed, TypeOK, kept
    <2>2. Control'
      BY <1>0, <1>4 DEF Closed, TypeOK, Control, Inside, Threads, kept
    <2> QED  BY <2>1, <2>2
  <1> QED  BY <1>1, <1>2, <1>3, <1>4

LEMMA NextControl ==
    ASSUME ControlInv, [Next]_vars
    PROVE  ControlInv'
  <1> USE PoolAssumption DEF ControlInv
  <1>1. CASE \E t \in Callers : BeginGet(t) \/ Get(t) \/ Drop(t)
    BY <1>1, GetControl
  <1>2. CASE \E t \in Threads : CloseOne(t)
    <2>1. PICK t \in Threads : CloseOne(t)
      BY <1>2
    <2>2. TypeOK'
      BY <2>1 DEF CloseOne, TypeOK, kept
    <2>3. Control'
      BY <2>1 DEF CloseOne, TypeOK, Control, Inside, Threads, kept
    <2> QED  BY <2>2, <2>3
  <1>3. CASE Reap \/ Reaped \/ ReaperExits
    BY <1>3, ReaperControl
  <1>4. CASE StartReaper \/ StopReaper \/ TakeAll \/ Closed
    BY <1>4, LifespanControl
  <1>5. CASE Tick
    BY <1>5 DEF Tick, TypeOK, Control, Inside, kept
  <1>6. CASE \E a \in Adapters : Die(a)
    BY <1>6 DEF Die, TypeOK, Control, Inside, kept
  <1>7. CASE UNCHANGED vars
    BY <1>7 DEF vars, kept, TypeOK, Control, Inside
  <1> QED  BY <1>1, <1>2, <1>3, <1>4, <1>5, <1>6, <1>7 DEF Next

\* The state keeps its types, and whoever is inside the lock of pool.py is the
\* one caller that took it, with the key it came for.
THEOREM PoolTyped == Spec => [](TypeOK /\ Control)
  <1>1. ControlInv /\ [Next]_vars => ControlInv'
    BY NextControl
  <1>2. Spec => []ControlInv
    BY InitControl, <1>1, PTL DEF Spec
  <1> QED  BY <1>2, PTL DEF ControlInv

-----------------------------------------------------------------------------
(* The order of the dictionary *)

\* A line from which OverCapacity has been taken out keeps max_size at most.
LEMMA CapacityBounds ==
    ASSUME NEW S, IsFiniteSet(S), Cardinality(S) <= MaxSize + 1,
           NEW R, StrictOrder(S, R)
    PROVE  Cardinality(S \ OverCapacity(R, S)) <= MaxSize
  <1> DEFINE E == OverCapacity(R, S)
  <1>0. Cardinality(S) \in Nat /\ MaxSize \in Nat
    BY FS_CardinalityType, PoolAssumption
  <1>1. CASE Cardinality(S) <= MaxSize
    <2>1. Cardinality(S \ E) <= Cardinality(S) /\ IsFiniteSet(S \ E)
      BY FS_Subset
    <2>2. Cardinality(S \ E) \in Nat
      BY <2>1, FS_CardinalityType
    <2> QED  BY <1>0, <1>1, <2>1, <2>2
  <1>2. CASE Cardinality(S) = MaxSize + 1
    <2>1. S # {}
      <3>1. Cardinality(S) # 0
        BY <1>0, <1>2
      <3> QED  BY <3>1, FS_EmptySet
    <2>2. PICK x \in S : \A y \in S : y # x => <<x, y>> \in R
      BY <2>1, HasFirst
    <2>3. {y \in S : <<x, y>> \in R} = S \ {x}
      BY <2>2 DEF StrictOrder
    <2>4. IsFiniteSet(S \ {x}) /\ Cardinality(S \ {x}) = MaxSize
      <3>1. IsFiniteSet(S \ {x}) /\ Cardinality(S \ {x}) = Cardinality(S) - 1
        BY FS_RemoveElement
      <3> QED  BY <1>0, <1>2, <3>1
    <2>5. x \in E
      <3>1. Cardinality({y \in S : <<x, y>> \in R}) >= MaxSize
        <4>1. Cardinality(S \ {x}) >= MaxSize
          BY <1>0, <2>4
        <4> QED  BY <2>3, <4>1, Zenon
      <3> QED  BY <3>1 DEF OverCapacity
    <2>6. S \ E \subseteq S \ {x}
      BY <2>5
    <2>7. Cardinality(S \ E) <= Cardinality(S \ {x})
      BY <2>4, <2>6, FS_Subset
    <2> QED  BY <2>4, <2>7
  <1> QED  BY <1>0, <1>1, <1>2

\* What was put at the end of a line is not what OverCapacity takes out.
LEMMA LastIsKept ==
    ASSUME NEW S, NEW R, StrictOrder(S, R), NEW k, k \notin S
    PROVE  k \notin OverCapacity(R \cup (S \X {k}), S \cup {k})
  <1> DEFINE After == {y \in S \cup {k} : <<k, y>> \in R \cup (S \X {k})}
  <1>1. After = {}
    BY DEF StrictOrder
  <1>2. ~ (Cardinality({}) >= MaxSize)
    BY FS_EmptySet, PoolAssumption
  <1>3. ~ (Cardinality(After) >= MaxSize)
    BY <1>1, <1>2, Zenon
  <1> QED  BY <1>3 DEF OverCapacity

-----------------------------------------------------------------------------
(* The dictionary is in the order of last use *)

LineInv == OrderInv /\ PoolBounded

\* What is kept is finite, and what is left of it no larger.
LEMMA PooledIsFinite ==
    IsFiniteSet(Pooled) /\ Cardinality(Pooled) \in Nat
  BY PoolAssumption, FS_Subset, FS_CardinalityType DEF Pooled

\* Whatever is taken out while no call is about to settle, the rest stays in
\* the order of last use.
LEMMA WithoutKeepsOrder ==
    ASSUME TypeOK, LineInv, \A t \in Callers : pc[t] # "settle",
           NEW ks, Without(ks), clock' = clock
    PROVE  /\ StrictOrder(Pooled', older')
           /\ \A k \in Keys : used'[k] <= clock'
           /\ \A x, y \in Keys : <<x, y>> \in older' => used'[x] <= used'[y]
           /\ PoolBounded'
  <1>1. Pooled' = Pooled \ ks
    BY DEF Pooled, Without
  <1>2. older' = {p \in older : p[1] \notin ks /\ p[2] \notin ks}
    BY DEF Without
  <1>3. StrictOrder(Pooled', older')
    <2>1. StrictOrder(Pooled, older)
      BY DEF LineInv, OrderInv
    <2> DEFINE rest == {p \in older : p[1] \notin ks /\ p[2] \notin ks}
    <2>2. older' = rest /\ rest = {p \in older : p[1] \notin ks /\ p[2] \notin ks}
      BY <1>2
    <2> HIDE DEF rest
    <2>3. StrictOrder(Pooled \ ks, rest)
      BY <2>1, <2>2, Restriction
    <2> QED  BY <1>1, <2>2, <2>3
  <1>4. /\ \A k \in Keys : used'[k] = 0 \/ used'[k] = used[k]
        /\ \A k \in Keys \ ks : used'[k] = used[k]
    BY DEF TypeOK, Without
  <1>5. \A k \in Keys : used'[k] <= clock'
    BY <1>4 DEF LineInv, OrderInv, TypeOK
  <1>6. ASSUME NEW x \in Keys, NEW y \in Keys, <<x, y>> \in older'
        PROVE  used'[x] <= used'[y]
    <2>1. <<x, y>> \in older /\ x \notin ks /\ y \notin ks
      BY <1>2, <1>6
    <2> QED  BY <1>4, <2>1 DEF LineInv, OrderInv
  <1>7. PoolBounded'
    <2>1. Cardinality(Pooled \ ks) <= Cardinality(Pooled) /\ IsFiniteSet(Pooled \ ks)
      BY PooledIsFinite, FS_Subset
    <2>2. Cardinality(Pooled \ ks) \in Nat
      BY <2>1, FS_CardinalityType
    <2>3. Cardinality(Pooled \ ks) <= MaxSize
      BY <2>1, <2>2, PooledIsFinite, PoolAssumption DEF LineInv, PoolBounded
    <2> QED  BY <1>1, <2>3 DEF PoolBounded
  <1> QED  BY <1>3, <1>5, <1>6, <1>7

\* A new entry at the end, and the first out when there are too many.
LEMMA CreateKeepsOrder ==
    ASSUME ControlInv, LineInv, NEW t \in Callers, Create(t)
    PROVE  LineInv'
  <1> DEFINE k == want[t]
             keys == Pooled \cup {k}
             order == older \cup (Pooled \X {k})
             evicted == OverCapacity(order, keys)
  <1>0. /\ t \in Threads /\ k \in Keys /\ k \notin Pooled
        /\ pc[t] = "create" /\ \A s \in Callers \ {t} : ~Inside(s)
    BY DEF Create, ControlInv, Control, Inside, LineInv, OrderInv, Pooled, Threads
  <1>1. StrictOrder(keys, order)
    BY <1>0, Extension DEF LineInv, OrderInv
  <1>2. k \notin evicted /\ evicted \subseteq keys
    BY <1>0, LastIsKept DEF OverCapacity, LineInv, OrderInv
  <1>3. Pooled' = keys \ evicted
    <2>1. PICK a \in Free : entry' = [x \in Keys |-> IF x \in evicted THEN None
                                           ELSE IF x = k THEN a ELSE entry[x]]
      BY DEF Create
    <2>2. a # None
      BY PoolAssumption DEF Free
    <2> HIDE DEF evicted
    <2> QED  BY <1>0, <1>2, <2>1, <2>2 DEF Pooled
  <1>4. older' = {p \in order : p[1] \notin evicted /\ p[2] \notin evicted}
    BY DEF Create
  <1>5. StrictOrder(Pooled', older')
    <2> DEFINE rest == {p \in order : p[1] \notin evicted /\ p[2] \notin evicted}
    <2>1. older' = rest /\ rest = {p \in order : p[1] \notin evicted /\ p[2] \notin evicted}
      BY <1>4
    <2> HIDE DEF keys, order, evicted, rest
    <2>2. StrictOrder(keys \ evicted, rest)
      BY <1>1, <2>1, Restriction
    <2> QED  BY <1>3, <2>1, <2>2
  <1>6. PoolBounded'
    <2>1. IsFiniteSet(keys) /\ Cardinality(keys) = Cardinality(Pooled) + 1
      BY <1>0, PooledIsFinite, FS_AddElement
    <2>2. Cardinality(keys) <= MaxSize + 1
      BY <2>1, PooledIsFinite, PoolAssumption DEF LineInv, PoolBounded
    <2>3. Cardinality(keys \ evicted) <= MaxSize
      BY <1>1, <2>1, <2>2, CapacityBounds
    <2> QED  BY <1>3, <2>3 DEF PoolBounded
  <1>7. /\ pc'[t] = "settle" /\ want' = want /\ clock' = clock
        /\ \A s \in Callers \ {t} : pc'[s] = pc[s]
    BY <1>0 DEF Create, ControlInv, TypeOK, Threads
  <1>8. \A s \in Callers : pc'[s] = "create" => entry'[want'[s]] = None
    BY <1>0, <1>7 DEF Inside
  <1>9. \A s \in Callers : pc'[s] = "settle" => entry'[want'[s]] # None
    <2>1. k \in Pooled'
      BY <1>0, <1>2, <1>3
    <2> QED  BY <1>0, <1>7, <2>1 DEF Inside, Pooled
  <1>10. used' = [x \in Keys |-> IF x \in evicted \cup {k} THEN 0 ELSE used[x]]
    BY DEF Create
  <1>11. \A x \in Keys : used'[x] <= clock'
    <2> HIDE DEF evicted
    <2> QED  BY <1>7, <1>10 DEF LineInv, OrderInv, ControlInv, TypeOK
  <1>12. ASSUME NEW x \in Keys, NEW y \in Keys, <<x, y>> \in older'
         PROVE  used'[x] <= used'[y] \/ \E s \in Callers : pc'[s] = "settle" /\ want'[s] = y
    <2>1. CASE y = k
      BY <1>7, <2>1
    <2>2. CASE y # k
      <3>1. <<x, y>> \in older /\ x \notin evicted /\ y \notin evicted
        BY <1>4, <1>12, <2>2
      <3>2. x \in Pooled
        BY <3>1 DEF LineInv, OrderInv, StrictOrder
      <3>3. used'[x] = used[x] /\ used'[y] = used[y]
        BY <1>0, <1>10, <2>2, <3>1, <3>2
      <3>4. used[x] <= used[y]
        BY <1>0, <3>1 DEF LineInv, OrderInv, Inside
      <3> QED  BY <3>3, <3>4
    <2> QED  BY <2>1, <2>2
  <1> HIDE DEF k, keys, order, evicted
  <1> QED  BY <1>5, <1>6, <1>8, <1>9, <1>11, <1>12 DEF LineInv, OrderInv

\* last_used and move_to_end go together.
LEMMA SettleKeepsOrder ==
    ASSUME ControlInv, LineInv, NEW t \in Callers, Settle(t)
    PROVE  LineInv'
  <1> DEFINE k == want[t]
             rest == {p \in older : p[1] \notin {k} /\ p[2] \notin {k}}
  <1>0. /\ t \in Threads /\ k \in Keys /\ k \in Pooled
        /\ pc[t] = "settle" /\ \A s \in Callers \ {t} : ~Inside(s)
    BY DEF Settle, ControlInv, Control, Inside, LineInv, OrderInv, Pooled, Threads
  <1>1. Pooled' = Pooled
    BY DEF Settle, Pooled
  <1>2. older' = rest \cup ((Pooled \ {k}) \X {k})
    BY DEF Settle, MovedToEnd
  <1>3. StrictOrder(Pooled', older')
    <2>1. StrictOrder(Pooled \ {k}, rest)
      <3>1. StrictOrder(Pooled, older)
        BY DEF LineInv, OrderInv
      <3> DEFINE Q == rest
                 D == {k}
      <3>2. Q = {p \in older : p[1] \notin D /\ p[2] \notin D}
        OBVIOUS
      <3> HIDE DEF Q, D
      <3>3. StrictOrder(Pooled \ D, Q)
        BY <3>1, <3>2, Restriction
      <3> QED  BY <3>3 DEF Q, D
    <2>2. StrictOrder((Pooled \ {k}) \cup {k}, rest \cup ((Pooled \ {k}) \X {k}))
      <3> HIDE DEF rest, k
      <3> QED  BY <2>1, Extension
    <2>3. (Pooled \ {k}) \cup {k} = Pooled
      BY <1>0
    <2> HIDE DEF rest, k
    <2> QED  BY <1>1, <1>2, <2>2, <2>3
  <1>4. PoolBounded'
    BY <1>1 DEF LineInv, PoolBounded
  <1>5. \A s \in Callers : pc'[s] \notin {"create", "settle"}
    BY <1>0 DEF Settle, ControlInv, TypeOK, Inside
  <1>6. /\ used'[k] = clock /\ clock' = clock
        /\ \A x \in Keys \ {k} : used'[x] = used[x]
    BY <1>0 DEF Settle, ControlInv, TypeOK
  <1>7. \A x \in Keys : used'[x] <= clock'
    BY <1>6 DEF LineInv, OrderInv, ControlInv, TypeOK
  <1>8. ASSUME NEW x \in Keys, NEW y \in Keys, <<x, y>> \in older'
        PROVE  used'[x] <= used'[y]
    <2>1. CASE y = k
      BY <1>6, <1>7, <2>1
    <2>2. CASE y # k
      <3>1. <<x, y>> \in older /\ x # k
        BY <1>2, <1>8, <2>2
      <3>2. used[x] <= used[y]
        BY <1>0, <2>2, <3>1 DEF LineInv, OrderInv, Inside
      <3> QED  BY <1>6, <2>2, <3>1, <3>2
    <2> QED  BY <2>1, <2>2
  <1> HIDE DEF k, rest
  <1> QED  BY <1>3, <1>4, <1>5, <1>7, <1>8 DEF LineInv, OrderInv

\* Every step keeps the dictionary in the order of last use, and bounded.
LEMMA NextLine ==
    ASSUME ControlInv, LineInv, [Next]_vars
    PROVE  LineInv'
  <1>1. ASSUME lock = None
        PROVE  \A s \in Callers : ~Inside(s)
    BY <1>1, PoolAssumption DEF ControlInv, Control, Threads
  <1>2. ASSUME \A s \in Callers : ~Inside(s), NEW ks, Without(ks), clock' = clock,
               \A s \in Callers : pc'[s] \notin {"create", "settle"}
        PROVE  LineInv'
    BY <1>2, WithoutKeepsOrder DEF ControlInv, LineInv, OrderInv, Inside
  <1>3. ASSUME UNCHANGED kept, clock' \in Nat, clock <= clock',
               \A s \in Callers : pc'[s] \in {"create", "settle"} =>
                                     pc'[s] = pc[s] /\ want'[s] = want[s],
               \A s \in Callers : pc[s] = "settle" => pc'[s] = "settle"
        PROVE  LineInv'
    <2>1. Pooled' = Pooled /\ entry' = entry /\ used' = used /\ older' = older
      BY <1>3 DEF kept, Pooled
    <2>2. \A k \in Keys : used'[k] <= clock'
      BY <1>3, <2>1 DEF LineInv, OrderInv, ControlInv, TypeOK
    <2>3. PoolBounded' /\ StrictOrder(Pooled', older')
      BY <2>1 DEF LineInv, OrderInv, PoolBounded
    <2>4. \A x, y \in Keys : <<x, y>> \in older' =>
             used'[x] <= used'[y] \/ \E s \in Callers : pc'[s] = "settle" /\ want'[s] = y
      BY <1>3, <2>1 DEF LineInv, OrderInv
    <2>5. \A s \in Callers : /\ pc'[s] = "create" => entry'[want'[s]] = None
                             /\ pc'[s] = "settle" => entry'[want'[s]] # None
      BY <1>3, <2>1 DEF LineInv, OrderInv
    <2> QED  BY <2>2, <2>3, <2>4, <2>5 DEF LineInv, OrderInv
  <1>4. clock \in Nat /\ pc = [s \in Threads |-> pc[s]] /\ Callers \subseteq Threads
    BY DEF ControlInv, TypeOK, Threads
  <1>5. ASSUME NEW t \in Callers, BeginGet(t)
        PROVE  LineInv'
    <2>1. \A s \in Callers : ~Inside(s)
      BY <1>1, <1>5 DEF BeginGet
    <2>2. \A s \in Callers : pc'[s] \notin {"create", "settle"}
      BY <1>4, <1>5, <2>1 DEF BeginGet, Inside
    <2> QED  BY <1>2, <1>5, <2>1, <2>2 DEF BeginGet
  <1>6. ASSUME NEW t \in Callers, FindAlive(t)
        PROVE  LineInv'
    <2>1. Inside(t) /\ \A s \in Callers \ {t} : ~Inside(s)
      BY <1>6 DEF FindAlive, ControlInv, Control, Inside
    <2>2. /\ pc'[t] = "settle" /\ want' = want /\ clock' = clock /\ UNCHANGED kept
          /\ pc[t] = "lookup" /\ \A s \in Callers \ {t} : pc'[s] = pc[s]
      BY <1>4, <1>6 DEF FindAlive
    <2>3. entry'[want[t]] # None /\ entry' = entry /\ used' = used /\ older' = older
      BY <1>6 DEF FindAlive, kept
    <2>4. Pooled' = Pooled
      BY <2>3 DEF Pooled
    <2>5. \A k \in Keys : used'[k] <= clock'
      BY <2>2, <2>3 DEF LineInv, OrderInv
    <2>6. \A x, y \in Keys : <<x, y>> \in older' => used'[x] <= used'[y]
      BY <2>1, <2>2, <2>3 DEF LineInv, OrderInv, Inside
    <2>7. PoolBounded' /\ StrictOrder(Pooled', older')
      BY <2>3, <2>4 DEF LineInv, OrderInv, PoolBounded
    <2>8. \A s \in Callers : /\ pc'[s] # "create"
                             /\ pc'[s] = "settle" => entry'[want'[s]] # None
      BY <2>1, <2>2, <2>3 DEF Inside
    <2> QED  BY <2>5, <2>6, <2>7, <2>8 DEF LineInv, OrderInv
  <1>7. ASSUME NEW t \in Callers, FindNone(t)
        PROVE  LineInv'
    <2>1. Inside(t) /\ (\A s \in Callers \ {t} : ~Inside(s)) /\ want[t] \in Keys
      BY <1>7 DEF FindNone, ControlInv, Control, Inside
    <2>2. /\ pc'[t] = "create" /\ want' = want /\ clock' = clock
          /\ pc[t] = "lookup" /\ \A s \in Callers \ {t} : pc'[s] = pc[s]
      BY <1>4, <1>7 DEF FindNone
    <2>3. \A s \in Callers : pc[s] # "settle" /\ pc'[s] # "settle"
      BY <2>1, <2>2 DEF Inside
    <2>4. \A s \in Callers : pc'[s] = "create" => s = t
      BY <2>1, <2>2 DEF Inside
    <2>5. CASE entry[want[t]] = None /\ UNCHANGED kept
      <3>1. entry' = entry /\ used' = used /\ older' = older /\ Pooled' = Pooled
        BY <2>5 DEF kept, Pooled
      <3>2. \A k \in Keys : used'[k] <= clock'
        BY <2>2, <3>1 DEF LineInv, OrderInv
      <3>3. \A x, y \in Keys : <<x, y>> \in older' => used'[x] <= used'[y]
        BY <2>3, <3>1 DEF LineInv, OrderInv
      <3>4. PoolBounded' /\ StrictOrder(Pooled', older')
        BY <3>1 DEF LineInv, OrderInv, PoolBounded
      <3>5. \A s \in Callers : pc'[s] = "create" => entry'[want'[s]] = None
        BY <2>2, <2>4, <2>5, <3>1
      <3> QED  BY <2>3, <3>2, <3>3, <3>4, <3>5 DEF LineInv, OrderInv
    <2>6. CASE Without({want[t]})
      <3>1. /\ StrictOrder(Pooled', older')
            /\ \A k \in Keys : used'[k] <= clock'
            /\ \A x, y \in Keys : <<x, y>> \in older' => used'[x] <= used'[y]
            /\ PoolBounded'
        BY <2>2, <2>3, <2>6, WithoutKeepsOrder DEF ControlInv
      <3>2. \A s \in Callers : pc'[s] = "create" => entry'[want'[s]] = None
        BY <2>1, <2>2, <2>4, <2>6 DEF Without
      <3> QED  BY <2>3, <3>1, <3>2 DEF LineInv, OrderInv
    <2> QED  BY <1>7, <2>5, <2>6 DEF FindNone
  <1>8. ASSUME NEW t \in Callers, CreateFails(t)
        PROVE  LineInv'
    <2>1. pc[t] = "create" /\ \A s \in Callers \ {t} : ~Inside(s)
      BY <1>8 DEF CreateFails, ControlInv, Control, Inside
    <2>2. \A s \in Callers : pc'[s] \notin {"create", "settle"}
      BY <1>4, <1>8, <2>1 DEF CreateFails, Inside
    <2>3. UNCHANGED kept /\ clock' = clock
      BY <1>8 DEF CreateFails
    <2> QED  BY <1>3, <1>4, <2>1, <2>2, <2>3 DEF Inside
  <1>9. ASSUME NEW t \in Callers, Return(t) \/ Drop(t)
        PROVE  LineInv'
    <2>1. UNCHANGED <<kept, want, clock>> /\ pc[t] \in {"closing", "using"}
      BY <1>9 DEF Return, Drop
    <2>2. /\ pc'[t] \in {"using", "out"}
          /\ \A s \in Callers \ {t} : pc'[s] = pc[s]
      BY <1>4, <1>9 DEF Return, Drop
    <2> QED  BY <1>3, <1>4, <2>1, <2>2
  <1>10. ASSUME Reap \/ TakeAll
         PROVE  LineInv'
    <2>1. \A s \in Callers : ~Inside(s)
      BY <1>1, <1>10 DEF Reap, TakeAll
    <2>2. \A s \in Callers : pc'[s] = pc[s]
      BY <1>4, <1>10, PoolAssumption DEF Reap, TakeAll
    <2>3. \A s \in Callers : pc'[s] \notin {"create", "settle"}
      BY <2>1, <2>2 DEF Inside
    <2>4. CASE Reap
      BY <1>2, <2>1, <2>3, <2>4 DEF Reap
    <2>5. CASE TakeAll
      BY <1>2, <2>1, <2>3, <2>5 DEF TakeAll
    <2> QED  BY <1>10, <2>4, <2>5
  <1>11. ASSUME \/ Reaped \/ ReaperExits \/ StartReaper \/ StopReaper \/ Closed
                \/ \E t \in Threads : CloseOne(t)
                \/ \E a \in Adapters : Die(a)
                \/ UNCHANGED vars
         PROVE  LineInv'
    <2>1. UNCHANGED <<kept, want, clock>>
      BY <1>11 DEF Reaped, ReaperExits, StartReaper, StopReaper, Closed, CloseOne, Die, vars
    <2>2. \A s \in Callers : pc'[s] = pc[s]
      BY <1>4, <1>11, PoolAssumption
         DEF Reaped, ReaperExits, StartReaper, StopReaper, Closed, CloseOne, Die, vars
    <2> QED  BY <1>3, <1>4, <2>1, <2>2
  <1>12. ASSUME Tick
         PROVE  LineInv'
    BY <1>3, <1>4, <1>12 DEF Tick
  <1> QED
    BY <1>5, <1>6, <1>7, <1>8, <1>9, <1>10, <1>11, <1>12,
       CreateKeepsOrder, SettleKeepsOrder DEF Next, Get

LEMMA InitLine == Init => LineInv
  <1> SUFFICES ASSUME Init PROVE LineInv
    OBVIOUS
  <1>1. Pooled = {} /\ older = {}
    BY DEF Init, Pooled
  <1>2. StrictOrder(Pooled, older)
    BY <1>1 DEF StrictOrder
  <1>3. PoolBounded
    BY <1>1, FS_EmptySet, PoolAssumption DEF PoolBounded
  <1>4. \A t \in Callers : pc[t] = "out"
    BY PoolAssumption DEF Init, Threads
  <1>5. \A k \in Keys : used[k] <= clock
    BY DEF Init
  <1> QED  BY <1>1, <1>2, <1>3, <1>4, <1>5 DEF LineInv, OrderInv

\* Nobody being inside the lock, the order of the dictionary is that of last
\* use: an entry before an idle one is idle.
LEMMA SweepIsWhole == ControlInv /\ LineInv => SweepTakesEveryIdle
  <1> SUFFICES ASSUME ControlInv, LineInv, lock = None,
                      NEW k \in Pooled, Idle(k),
                      NEW x \in Pooled, <<x, k>> \in older
               PROVE  Idle(x)
    BY DEF SweepTakesEveryIdle, Expired
  <1>1. \A s \in Callers : pc[s] # "settle"
    BY PoolAssumption DEF ControlInv, Control, Inside, Threads
  <1>2. x \in Keys /\ k \in Keys
    BY DEF Pooled
  <1>3. used[x] <= used[k]
    BY <1>1, <1>2 DEF LineInv, OrderInv
  <1>4. used[x] \in Nat /\ used[k] \in Nat /\ clock \in Nat /\ IdleTimeout \in Nat
    BY <1>2, PoolAssumption DEF ControlInv, TypeOK
  <1> QED  BY <1>3, <1>4 DEF Idle

LEMMA SpecLine == Spec => [](ControlInv /\ LineInv)
  <1>1. Init => ControlInv /\ LineInv
    BY InitControl, InitLine
  <1>2. ControlInv /\ LineInv /\ [Next]_vars => (ControlInv /\ LineInv)'
    BY NextControl, NextLine
  <1> QED  BY <1>1, <1>2, PTL DEF Spec

\* However gets, sweeps and evictions interleave, the pool of pool.py never
\* keeps more than max_size adapters, for any max_size.
THEOREM PoolNeverOverflows == Spec => []PoolBounded
  BY SpecLine, PTL DEF LineInv

\* At any sweep the prefix that _take_expired takes is every idle entry: the
\* dictionary's order never lets an idle one hide behind a used one.
THEOREM SweepsMissNothing == Spec => []SweepTakesEveryIdle
  BY SpecLine, SweepIsWhole, PTL

-----------------------------------------------------------------------------
(* Every live adapter has one owner *)

\* What leaves the dictionary and is put on one thread's list has changed
\* owner, and has one still.
LEMMA TakenOutHasOwner ==
    ASSUME TypeOK, OwnInv, NEW t \in Threads, NEW ks \in SUBSET Pooled, Without(ks),
           discarded' = [discarded EXCEPT ![t] = @ \cup AdaptersOf(ks)], state' = state
    PROVE  OwnInv'
  <1>1. /\ \A k \in ks : entry'[k] = None
        /\ \A k \in Keys \ ks : entry'[k] = entry[k]
        /\ ks \subseteq Keys
    BY DEF Without, Pooled
  <1>2. Pooled' = Pooled \ ks
    BY <1>1 DEF Pooled
  <1>3. /\ \A s \in Threads \ {t} : discarded'[s] = discarded[s]
        /\ \A a : a \in discarded'[t] <=> a \in discarded[t] \/ \E j \in ks : entry[j] = a
    BY DEF TypeOK, AdaptersOf
  <1>4. None \notin Adapters /\ \A k \in ks : entry[k] \in Adapters /\ entry[k] # None
    BY PoolAssumption DEF TypeOK, Pooled
  <1>5. \A s \in Threads : discarded[s] \subseteq Adapters
    BY DEF TypeOK
  <1>6. \A j, k \in Pooled' : entry'[j] = entry'[k] => j = k
    BY <1>1, <1>2 DEF OwnInv, Pooled
  <1>7. ASSUME NEW s \in Threads, NEW a \in discarded'[s]
        PROVE  /\ \A k \in Keys : entry'[k] # a
               /\ \A r \in Threads \ {s} : a \notin discarded'[r]
    <2>1. CASE a \in discarded[s]
      <3>1. a # None
        BY <1>4, <1>5, <2>1
      <3>2. \A k \in Keys : entry[k] # a
        BY <2>1 DEF OwnInv
      <3>3. \A r \in Threads \ {s} : a \notin discarded[r]
        BY <2>1 DEF OwnInv
      <3> QED  BY <1>1, <1>3, <3>1, <3>2, <3>3
    <2>2. CASE a \notin discarded[s]
      <3>1. s = t /\ \E j \in ks : entry[j] = a
        BY <1>3, <1>7, <2>2
      <3>2. PICK j \in ks : entry[j] = a
        BY <3>1
      <3>3. \A k \in Keys : entry[k] = a => k = j
        BY <1>1, <1>4, <3>2 DEF OwnInv, Pooled
      <3>4. \A k \in Keys : entry'[k] # a
        BY <1>1, <1>4, <3>2, <3>3
      <3>5. \A r \in Threads : a \notin discarded[r]
        BY <1>1, <3>2 DEF OwnInv
      <3> QED  BY <1>3, <3>1, <3>4, <3>5
    <2> QED  BY <2>1, <2>2
  <1>8. \A a \in Adapters : Live(a)' <=> Live(a)
    BY DEF Live
  <1>9. ASSUME NEW a \in Adapters
        PROVE  Owned(a)' <=> Owned(a)
    <2>1. (\E k \in Keys : entry'[k] = a) <=> (\E k \in Keys \ ks : entry[k] = a)
      BY <1>1, <1>4
    <2>2. (\E s \in Threads : a \in discarded'[s]) <=>
              (\E s \in Threads : a \in discarded[s]) \/ (\E j \in ks : entry[j] = a)
      BY <1>3
    <2> QED  BY <1>1, <2>1, <2>2 DEF Owned
  <1> QED  BY <1>6, <1>7, <1>8, <1>9 DEF OwnInv

\* A new adapter has a name nobody owns, and whom it pushes out is taken out.
LEMMA CreatedHasOwner ==
    ASSUME ControlInv, LineInv, OwnInv, NEW t \in Callers, Create(t)
    PROVE  OwnInv'
  <1> DEFINE k == want[t]
             keys == Pooled \cup {k}
             order == older \cup (Pooled \X {k})
             evicted == OverCapacity(order, keys)
  <1>0. t \in Threads /\ k \in Keys /\ k \notin Pooled
    BY DEF Create, ControlInv, Control, Inside, LineInv, OrderInv, Pooled, Threads
  <1>1. PICK a \in Free :
           /\ entry' = [x \in Keys |-> IF x \in evicted THEN None
                                       ELSE IF x = k THEN a ELSE entry[x]]
           /\ state' = [state EXCEPT ![a] = "open"]
    BY DEF Create
  <1>2. discarded' = [discarded EXCEPT ![t] = @ \cup AdaptersOf(evicted \ {k})]
    BY DEF Create
  <1>3. evicted \ {k} \subseteq Pooled
    BY DEF OverCapacity
  <1> DEFINE out == evicted \ {k}
  <1>4. k \notin evicted
    BY <1>0, LastIsKept DEF LineInv, OrderInv
  <1> HIDE DEF evicted
  <1>5. out = evicted /\ out \subseteq Pooled /\ out \subseteq Keys
    BY <1>3, <1>4 DEF Pooled
  <1>6. /\ \A x \in out : entry'[x] = None
        /\ entry'[k] = a
        /\ \A x \in Keys \ (out \cup {k}) : entry'[x] = entry[x]
    BY <1>0, <1>1, <1>4, <1>5
  <1>7. /\ \A s \in Threads \ {t} : discarded'[s] = discarded[s]
        /\ \A b : b \in discarded'[t] <=> b \in discarded[t] \/ \E j \in out : entry[j] = b
    BY <1>0, <1>2 DEF ControlInv, TypeOK, AdaptersOf
  <1>8. a \in Adapters /\ a # None /\ None \notin Adapters /\ ~Live(a)
    BY PoolAssumption DEF Free, Live
  <1>9. ~Owned(a)
    BY <1>8 DEF OwnInv
  <1>10. (\A x \in Keys : entry[x] # a) /\ (\A s \in Threads : a \notin discarded[s])
    BY <1>9 DEF Owned
  <1>11. /\ \A s \in Threads : discarded[s] \subseteq Adapters
         /\ \A x \in out : entry[x] \in Adapters
         /\ entry[k] = None
    BY <1>0, <1>5, PoolAssumption DEF ControlInv, TypeOK, Pooled
  <1> HIDE DEF out, k, keys, order
  <1>12. \A i, j \in Pooled' : entry'[i] = entry'[j] => i = j
    <2>1. \A i \in Pooled' : i = k \/ (i \in Pooled /\ i # k /\ entry'[i] = entry[i])
      BY <1>6 DEF Pooled
    <2>2. \A i \in Pooled' : i \in Keys
      BY DEF Pooled
    <2> QED  BY <1>6, <1>10, <2>1, <2>2 DEF OwnInv
  <1>13. ASSUME NEW s \in Threads, NEW b \in discarded'[s]
         PROVE  /\ \A x \in Keys : entry'[x] # b
                /\ \A r \in Threads \ {s} : b \notin discarded'[r]
    <2>1. CASE b \in discarded[s]
      <3>1. b # None /\ b # a
        BY <1>8, <1>10, <1>11, <2>1
      <3>2. (\A x \in Keys : entry[x] # b) /\ \A r \in Threads \ {s} : b \notin discarded[r]
        BY <2>1 DEF OwnInv
      <3>3. \A x \in Keys : entry'[x] # b
        BY <1>6, <3>1, <3>2
      <3>4. \A r \in Threads \ {s} : b \notin discarded'[r]
        BY <1>5, <1>7, <3>2
      <3> QED  BY <3>3, <3>4
    <2>2. CASE b \notin discarded[s]
      <3>1. s = t /\ \E j \in out : entry[j] = b
        BY <1>7, <1>13, <2>2
      <3>2. PICK j \in out : entry[j] = b
        BY <3>1
      <3>3. b # None /\ b # a /\ j \in Keys
        BY <1>5, <1>8, <1>10, <1>11, <3>2
      <3>4. \A x \in Keys : entry[x] = b => x = j
        BY <1>5, <3>2, <3>3 DEF OwnInv, Pooled
      <3>5. \A x \in Keys : entry'[x] # b
        BY <1>6, <3>2, <3>3, <3>4
      <3>6. \A r \in Threads : b \notin discarded[r]
        BY <3>2, <3>3 DEF OwnInv
      <3> QED  BY <1>7, <3>1, <3>5, <3>6
    <2> QED  BY <2>1, <2>2
  <1>14. ASSUME NEW b \in Adapters
         PROVE  Live(b)' <=> Owned(b)'
    <2>1. CASE b = a
      <3>1. Live(b)'
        BY <1>1, <1>8, <2>1 DEF Live, ControlInv, TypeOK
      <3>2. Owned(b)'
        BY <1>0, <1>6, <2>1 DEF Owned, k
      <3> QED  BY <3>1, <3>2
    <2>2. CASE b # a
      <3>1. Live(b)' <=> Live(b)
        BY <1>1, <1>8, <2>2 DEF Live, ControlInv, TypeOK
      <3>2. (\E x \in Keys : entry'[x] = b) <=> (\E x \in Keys \ out : entry[x] = b)
        BY <1>6, <1>8, <1>11, <2>2
      <3>3. (\E s \in Threads : b \in discarded'[s]) <=>
                (\E s \in Threads : b \in discarded[s]) \/ (\E j \in out : entry[j] = b)
        BY <1>0, <1>7
      <3>4. Owned(b)' <=> Owned(b)
        BY <1>5, <3>2, <3>3 DEF Owned
      <3> QED  BY <3>1, <3>4 DEF OwnInv
    <2> QED  BY <2>1, <2>2
  <1> QED  BY <1>12, <1>13, <1>14 DEF OwnInv

\* Every step leaves each live adapter with one owner.
LEMMA NextOwn ==
    ASSUME ControlInv, LineInv, OwnInv, [Next]_vars
    PROVE  OwnInv'
  <1>1. TypeOK /\ Callers \subseteq Threads /\ Reaper \in Threads /\ Lifespan \in Threads
    BY DEF ControlInv, Threads
  <1>2. ASSUME NEW t \in Threads, discarded[t] = {},
               NEW ks \in SUBSET Pooled, Without(ks),
               discarded' = [discarded EXCEPT ![t] = AdaptersOf(ks)], state' = state
        PROVE  OwnInv'
    <2>1. discarded' = [discarded EXCEPT ![t] = @ \cup AdaptersOf(ks)]
      BY <1>1, <1>2 DEF TypeOK
    <2> QED  BY <1>1, <1>2, <2>1, TakenOutHasOwner
  <1>3. ASSUME entry' = entry, discarded' = discarded, state' = state
        PROVE  OwnInv'
    <2>1. Pooled' = Pooled
      BY <1>3 DEF Pooled
    <2> QED  BY <1>3, <2>1 DEF OwnInv, Live, Owned
  <1>4. ASSUME NEW t \in Callers, BeginGet(t)
        PROVE  OwnInv'
    <2>1. discarded[t] = {}
      BY <1>1, <1>4 DEF BeginGet, ControlInv, Control, Inside
    <2> QED  BY <1>1, <1>2, <1>4, <2>1, ExpiredPooled DEF BeginGet
  <1>5. ASSUME NEW t \in Callers, FindNone(t)
        PROVE  OwnInv'
    <2>1. CASE UNCHANGED <<kept, discarded>>
      BY <1>3, <1>5, <2>1 DEF FindNone, kept
    <2>2. CASE /\ entry[want[t]] # None /\ Without({want[t]})
               /\ discarded' = [discarded EXCEPT ![t] = @ \cup {entry[want[t]]}]
      <3> DEFINE ks == {want[t]}
      <3>1. want[t] \in Keys
        BY <1>5 DEF FindNone, ControlInv, Control, Inside
      <3>2. ks \subseteq Pooled /\ AdaptersOf(ks) = {entry[want[t]]}
        BY <2>2, <3>1 DEF Pooled, AdaptersOf
      <3>3. Without(ks) /\ discarded' = [discarded EXCEPT ![t] = @ \cup AdaptersOf(ks)]
        BY <2>2, <3>2
      <3> HIDE DEF ks
      <3> QED  BY <1>1, <1>5, <3>2, <3>3, TakenOutHasOwner DEF FindNone
    <2> QED  BY <1>5, <2>1, <2>2 DEF FindNone
  <1>6. ASSUME NEW t \in Callers, CreateFails(t)
        PROVE  OwnInv'
    <2>1. /\ entry' = entry /\ discarded' = [discarded EXCEPT ![t] = {}]
          /\ state' = [a \in Adapters |-> IF a \in discarded[t] THEN "lost" ELSE state[a]]
      BY <1>6 DEF CreateFails, kept
    <2>2. Pooled' = Pooled
      BY <2>1 DEF Pooled
    <2>3. discarded'[t] = {} /\ \A s \in Threads \ {t} : discarded'[s] = discarded[s]
      BY <1>1, <2>1 DEF TypeOK
    <2>4. \A a \in Adapters : Live(a)' <=> Live(a) /\ a \notin discarded[t]
      BY <2>1 DEF Live
    <2>5. \A a \in Adapters : Owned(a)' <=> Owned(a) /\ a \notin discarded[t]
      BY <1>1, <2>1, <2>3 DEF Owned, OwnInv
    <2> QED  BY <2>1, <2>2, <2>3, <2>4, <2>5 DEF OwnInv
  <1>7. ASSUME NEW t \in Threads, CloseOne(t)
        PROVE  OwnInv'
    <2>1. PICK a \in discarded[t] : /\ state' = [state EXCEPT ![a] = "closed"]
                                    /\ discarded' = [discarded EXCEPT ![t] = @ \ {a}]
      BY <1>7 DEF CloseOne
    <2>2. entry' = entry /\ Pooled' = Pooled
      BY <1>7 DEF CloseOne, kept, Pooled
    <2>3. /\ discarded'[t] = discarded[t] \ {a}
          /\ \A s \in Threads \ {t} : discarded'[s] = discarded[s]
      BY <1>1, <2>1 DEF TypeOK
    <2>4. \A b \in Adapters : Live(b)' <=> Live(b) /\ b # a
      BY <1>1, <2>1 DEF Live, TypeOK
    <2>5. \A b \in Adapters : Owned(b)' <=> Owned(b) /\ b # a
      BY <2>2, <2>3 DEF Owned, OwnInv
    <2> QED  BY <2>2, <2>3, <2>4, <2>5 DEF OwnInv
  <1>8. ASSUME Reap
        PROVE  OwnInv'
    <2>1. discarded[Reaper] = {}
      BY <1>1, <1>8 DEF Reap, ControlInv, Control, Inside
    <2> QED  BY <1>1, <1>2, <1>8, <2>1, ExpiredPooled DEF Reap
  <1>9. ASSUME TakeAll
        PROVE  OwnInv'
    <2>1. discarded[Lifespan] = {}
      BY <1>1, <1>9 DEF TakeAll, ControlInv, Control, Inside
    <2> QED  BY <1>1, <1>2, <1>9, <2>1 DEF TakeAll
  <1>10. ASSUME NEW a \in Adapters, Die(a)
         PROVE  OwnInv'
    <2>1. /\ entry' = entry /\ discarded' = discarded /\ state[a] = "open"
          /\ state' = [state EXCEPT ![a] = "dead"]
      BY <1>10 DEF Die, kept
    <2>2. Pooled' = Pooled
      BY <2>1 DEF Pooled
    <2>3. \A b \in Adapters : Live(b)' <=> Live(b)
      BY <1>1, <2>1 DEF Live, TypeOK
    <2> QED  BY <2>1, <2>2, <2>3 DEF OwnInv, Owned
  <1>11. ASSUME NEW t \in Callers, FindAlive(t) \/ Settle(t) \/ Return(t) \/ Drop(t)
         PROVE  OwnInv'
    BY <1>3, <1>11 DEF FindAlive, Settle, Return, Drop, kept
  <1>12. ASSUME \/ Reaped \/ ReaperExits \/ StartReaper \/ StopReaper \/ Closed
                \/ Tick \/ UNCHANGED vars
         PROVE  OwnInv'
    BY <1>3, <1>12 DEF Reaped, ReaperExits, StartReaper, StopReaper, Closed, Tick, vars, kept
  <1> QED
    BY <1>4, <1>5, <1>6, <1>7, <1>8, <1>9, <1>10, <1>11, <1>12, CreatedHasOwner DEF Next, Get

LEMMA SpecOwn == Spec => []OwnInv
  <1>1. Init => OwnInv
    <2> SUFFICES ASSUME Init PROVE OwnInv
      OBVIOUS
    <2>1. Pooled = {} /\ \A t \in Threads : discarded[t] = {}
      BY DEF Init, Pooled
    <2>2. \A a \in Adapters : ~Live(a) /\ ~Owned(a)
      BY <2>1, PoolAssumption DEF Init, Live, Owned
    <2> QED  BY <2>1, <2>2 DEF OwnInv
  <1>2. ControlInv /\ LineInv /\ OwnInv /\ [Next]_vars => OwnInv'
    BY NextOwn
  <1> QED  BY SpecLine, <1>1, <1>2, PTL DEF Spec

\* An adapter is kept for one database, or is on one thread's list to be closed
\* once, however many threads of pool.py take adapters out at a time.
THEOREM OneOwner == Spec => []TakenOutOnce
  <1>1. OwnInv => TakenOutOnce
    BY DEF OwnInv, TakenOutOnce
  <1> QED  BY SpecOwn, <1>1, PTL

\* Sweeps, evictions, replacements and shutting down leak no adapter: what is
\* not closed is kept or about to be closed, unless a call of get dropped its
\* list when connecting raised.
THEOREM NothingElseLeaks == Spec => []OnlyFailureLeaks
  <1>1. ControlInv /\ OwnInv => OnlyFailureLeaks
    BY DEF ControlInv, TypeOK, OwnInv, OnlyFailureLeaks, Live
  <1> QED  BY SpecOwn, SpecLine, <1>1, PTL
=============================================================================
