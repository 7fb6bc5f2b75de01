-------------------------- MODULE ToolCallsProofs --------------------------
(***************************************************************************)
(* Proofs about ToolCalls, for any callers, tools, names, columns and      *)
(* times.                                                                  *)
(*                                                                         *)
(* Follows says which step of a call may come after which, and Shaped that *)
(* every thread's steps keep to it: what a thread is at then says where it *)
(* came from and what it still has to do.  On that rest OfLate, by which   *)
(* what is read or cached was upstream when it was read, and Recorded, by  *)
(* which the statements of a lone call are all on the list, and once it    *)
(* has taken them for its record, all among those it took.                 *)
(***************************************************************************)
EXTENDS ToolCalls, FiniteSetTheorems, TLAPS

\* The steps of a call, and those that make its record.
RecordSteps == {"join", "clear", "verdicts", "emit"}
ReadSteps == {"qualify", "member", "databases", "page", "columns", "rows", "schema", "stat",
              "walk", "fill", "store"}
Steps == ReadSteps \cup RecordSteps

\* What may come after a step.
Follows(a, b) ==
    \/ a = "walk" /\ b = "fill"
    \/ a = "fill" /\ b \in {"qualify", "member"}
    \/ a = "qualify" /\ b = "member"
    \/ a = "member" /\ b \in {"columns", "rows", "schema"}
    \/ a = "columns" /\ b \in {"store", "join", "end"}
    \/ a = "store" /\ b = "schema"
    \/ a = "schema" /\ b = "stat"
    \/ a \in {"page", "rows", "stat"} /\ b \in {"join", "end"}
    \/ a = "databases" /\ b \in {"emit", "end"}
    \/ a = "join" /\ b = "clear"
    \/ a = "clear" /\ b \in {"verdicts", "emit"}
    \/ a = "verdicts" /\ b = "emit"
    \/ a = "emit" /\ b = "end"

\* Each step is followed by one that may come after it, and the last may be the last.
Linked(s) ==
    /\ \A i \in 1..Len(s) : i + 1 <= Len(s) => Follows(s[i], s[i + 1])
    /\ s # <<>> => Follows(s[Len(s)], "end")

\* Steps of S, one after another, from x to y.
Chain(s, S, x, y) ==
    /\ s \in Seq(S) /\ s # <<>> /\ s[1] = x /\ s[Len(s)] = y
    /\ \A i \in 1..Len(s) : i + 1 <= Len(s) => Follows(s[i], s[i + 1])

-----------------------------------------------------------------------------
(* The lists of steps *)

\* What is left of a list once its first step is done.
LEMMA LinkedTail ==
    ASSUME NEW S, NEW s \in Seq(S), Linked(s), s # <<>>
    PROVE  /\ Tail(s) \in Seq(S) /\ Linked(Tail(s)) /\ Head(s) \in S
           /\ Tail(s) = <<>> => Follows(Head(s), "end")
           /\ Tail(s) # <<>> => Follows(Head(s), Head(Tail(s)))
           /\ Len(Tail(s)) = Len(s) - 1
  <1>1. Len(s) \in Nat /\ Len(s) # 0
    OBVIOUS
  <1>2. /\ Tail(s) \in Seq(S) /\ Len(Tail(s)) = Len(s) - 1
        /\ \A i \in 1..Len(Tail(s)) : Tail(s)[i] = s[i + 1]
        /\ Head(s) = s[1] /\ Head(s) \in S
    BY <1>1
  <1>3. Tail(s) = <<>> => Len(s) = 1
    BY <1>1, <1>2
  <1>4. Tail(s) # <<>> => Len(s) >= 2 /\ Head(Tail(s)) = s[2] /\ Tail(s)[Len(Tail(s))] = s[Len(s)]
    BY <1>1, <1>2
  <1>5. Linked(Tail(s))
    BY <1>1, <1>2, <1>4 DEF Linked
  <1> QED  BY <1>1, <1>2, <1>3, <1>4, <1>5 DEF Linked

LEMMA ChainOne ==
    ASSUME NEW S, NEW e \in S
    PROVE  Chain(<<e>>, S, e, e)
  <1> DEFINE s == <<e>>
  <1>1. s \in Seq(S) /\ s # <<>> /\ Len(s) = 1 /\ s[1] = e
    OBVIOUS
  <1> HIDE DEF s
  <1>2. Chain(s, S, e, e)
    BY <1>1 DEF Chain
  <1> QED  BY <1>2 DEF s

LEMMA ChainTwo ==
    ASSUME NEW S, NEW e \in S, NEW f \in S, Follows(e, f)
    PROVE  Chain(<<e, f>>, S, e, f)
  <1> DEFINE s == <<e, f>>
  <1>1. s \in Seq(S) /\ s # <<>> /\ Len(s) = 2 /\ s[1] = e /\ s[2] = f
    OBVIOUS
  <1> HIDE DEF s
  <1>2. Chain(s, S, e, f)
    BY <1>1 DEF Chain
  <1> QED  BY <1>2 DEF s

LEMMA ChainConcat ==
    ASSUME NEW S, NEW a, NEW b, NEW x, NEW y, NEW z, NEW w,
           Chain(a, S, x, y), Chain(b, S, z, w), Follows(y, z)
    PROVE  Chain(a \o b, S, x, w) /\ Len(a \o b) = Len(a) + Len(b)
  <1> DEFINE r == a \o b
  <1>1. a \in Seq(S) /\ b \in Seq(S) /\ Len(a) \in Nat \ {0} /\ Len(b) \in Nat \ {0}
    BY DEF Chain
  <1>2. /\ r \in Seq(S) /\ Len(r) = Len(a) + Len(b)
        /\ \A i \in 1..Len(a) : r[i] = a[i]
        /\ \A i \in 1..Len(b) : r[Len(a) + i] = b[i]
    BY <1>1
  <1> HIDE DEF r
  <1>3. r # <<>> /\ r[1] = x /\ r[Len(r)] = w
    BY <1>1, <1>2 DEF Chain
  <1>4. ASSUME NEW i \in 1..Len(r), i + 1 <= Len(r) PROVE Follows(r[i], r[i + 1])
    <2>1. CASE i < Len(a)
      <3>1. i \in 1..Len(a) /\ i + 1 \in 1..Len(a) /\ i + 1 <= Len(a)
        BY <2>1, <1>1, <1>2
      <3>2. r[i] = a[i] /\ r[i + 1] = a[i + 1]
        BY <3>1, <1>2
      <3> QED  BY <3>1, <3>2 DEF Chain
    <2>2. CASE i = Len(a)
      <3>1. i \in 1..Len(a) /\ 1 \in 1..Len(b) /\ i + 1 = Len(a) + 1
        BY <2>2, <1>1
      <3>2. r[i] = a[i] /\ r[i + 1] = b[1]
        BY <3>1, <1>2
      <3> QED  BY <2>2, <3>2 DEF Chain
    <2>3. CASE i > Len(a)
      <3>1. i - Len(a) \in 1..Len(b) /\ i - Len(a) + 1 \in 1..Len(b)
        BY <2>3, <1>1, <1>2, <1>4
      <3>2. i = Len(a) + (i - Len(a)) /\ i + 1 = Len(a) + (i - Len(a) + 1)
        BY <1>1
      <3> DEFINE k == i - Len(a)
      <3>3. r[Len(a) + k] = b[k] /\ r[Len(a) + (k + 1)] = b[k + 1]
        BY <3>1, <1>2
      <3>4. Follows(b[k], b[k + 1])
        BY <3>1 DEF Chain
      <3>5. Len(a) + k = i /\ Len(a) + (k + 1) = i + 1
        BY <1>1
      <3> QED  BY <3>3, <3>4, <3>5
    <2> QED  BY <2>1, <2>2, <2>3, <1>1
  <1>5. Chain(r, S, x, w)
    BY <1>2, <1>3, <1>4 DEF Chain
  <1> QED  BY <1>2, <1>5 DEF r

\* A chain that may stop where it does is a list of steps.
LEMMA ChainLinked ==
    ASSUME NEW S, NEW s, NEW x, NEW y, Chain(s, S, x, y), Follows(y, "end")
    PROVE  s \in Seq(S) /\ s # <<>> /\ Linked(s) /\ Head(s) = x
  BY DEF Chain, Linked

LEMMA LinkedChain ==
    ASSUME NEW S, NEW s \in Seq(S), Linked(s), s # <<>>
    PROVE  Chain(s, S, Head(s), s[Len(s)]) /\ Follows(s[Len(s)], "end")
  BY DEF Chain, Linked

\* A walk goes before what needs it.
LEMMA LinkedWalk ==
    ASSUME NEW S, {"walk", "fill"} \subseteq S, NEW s \in Seq(S), Linked(s), s # <<>>,
           Head(s) \in {"qualify", "member"}
    PROVE  LET r == <<"walk", "fill">> \o s
           IN  r \in Seq(S) /\ r # <<>> /\ Linked(r) /\ Head(r) = "walk" /\ Len(r) = Len(s) + 2
  <1> DEFINE w == <<"walk", "fill">>
  <1>1. Chain(w, S, "walk", "fill") /\ Len(w) = 2
    BY ChainTwo DEF Follows
  <1>2. Chain(s, S, Head(s), s[Len(s)]) /\ Follows(s[Len(s)], "end") /\ Follows("fill", Head(s))
    BY LinkedChain DEF Follows
  <1> HIDE DEF w
  <1>3. Chain(w \o s, S, "walk", s[Len(s)]) /\ Len(w \o s) = Len(w) + Len(s)
    BY <1>1, <1>2, ChainConcat
  <1>4. LET r == w \o s IN r \in Seq(S) /\ r # <<>> /\ Linked(r) /\ Head(r) = "walk"
    BY <1>2, <1>3, ChainLinked
  <1>5. Len(w \o s) = Len(s) + 2
    BY <1>1, <1>3
  <1> QED  BY <1>4, <1>5 DEF w

LEMMA RequireChain ==
    ASSUME NEW S, {"qualify", "member"} \subseteq S
    PROVE  Chain(RequireContainer, S, "qualify", "member") /\ Len(RequireContainer) = 2
  BY ChainTwo DEF RequireContainer, Follows

\* The steps the adapter takes for a tool.
LEMMA ReadsChain ==
    ASSUME NEW S, ReadSteps \subseteq S,
           NEW tool \in {"list_databases", "list_containers", "get_schema", "get_sample",
                         "profile_column"}
    PROVE  \E x \in {"databases", "page", "qualify"},
              y \in {"databases", "page", "columns", "rows", "stat"} :
              /\ Chain(Reads[tool], S, x, y)
              /\ x = "databases" <=> tool = "list_databases"
              /\ y = "databases" <=> tool = "list_databases"
  <1> DEFINE r == Reads[tool]
             q == RequireContainer
  <1>0. Chain(q, S, "qualify", "member")
    BY RequireChain DEF ReadSteps
  <1>1. CASE tool = "list_databases"
    <2>1. r = <<"databases">> /\ Chain(<<"databases">>, S, "databases", "databases")
      BY <1>1, ChainOne DEF Reads, ReadSteps
    <2> QED  BY <1>1, <2>1
  <1>2. CASE tool = "list_containers"
    <2>1. r = <<"page">> /\ Chain(<<"page">>, S, "page", "page")
      BY <1>2, ChainOne DEF Reads, ReadSteps
    <2> QED  BY <1>2, <2>1
  <1>3. CASE tool = "get_schema"
    <2>1. r = q \o <<"columns">> /\ Chain(<<"columns">>, S, "columns", "columns")
      BY <1>3, ChainOne DEF Reads, ReadSteps
    <2> HIDE DEF q
    <2>2. Chain(q \o <<"columns">>, S, "qualify", "columns")
      BY <1>0, <2>1, ChainConcat DEF Follows
    <2> HIDE DEF r
    <2>3. Chain(r, S, "qualify", "columns")
      BY <2>1, <2>2
    <2> QED  BY <1>3, <2>3 DEF r
  <1>4. CASE tool = "get_sample"
    <2>1. r = q \o <<"rows">> /\ Chain(<<"rows">>, S, "rows", "rows")
      BY <1>4, ChainOne DEF Reads, ReadSteps
    <2> HIDE DEF q
    <2>2. Chain(q \o <<"rows">>, S, "qualify", "rows")
      BY <1>0, <2>1, ChainConcat DEF Follows
    <2> HIDE DEF r
    <2>3. Chain(r, S, "qualify", "rows")
      BY <2>1, <2>2
    <2> QED  BY <1>4, <2>3 DEF r
  <1>5. CASE tool = "profile_column"
    <2>1. r = q \o <<"schema", "stat">> /\ Chain(<<"schema", "stat">>, S, "schema", "stat")
      BY <1>5, ChainTwo DEF Reads, ReadSteps, Follows
    <2> HIDE DEF q
    <2>2. Chain(q \o <<"schema", "stat">>, S, "qualify", "stat")
      BY <1>0, <2>1, ChainConcat DEF Follows
    <2> HIDE DEF r
    <2>3. Chain(r, S, "qualify", "stat")
      BY <2>1, <2>2
    <2> QED  BY <1>5, <2>3 DEF r
  <1> QED  BY <1>1, <1>2, <1>3, <1>4, <1>5

LEMMA ReadsLinked ==
    ASSUME NEW S, ReadSteps \subseteq S,
           NEW tool \in {"list_databases", "list_containers", "get_schema", "get_sample",
                         "profile_column"}
    PROVE  /\ Reads[tool] \in Seq(S) /\ Reads[tool] # <<>> /\ Linked(Reads[tool])
           /\ Head(Reads[tool]) \in {"databases", "page", "qualify"}
           /\ Head(Reads[tool]) = "databases" => tool = "list_databases"
  <1>1. PICK x \in {"databases", "page", "qualify"},
             y \in {"databases", "page", "columns", "rows", "stat"} :
             /\ Chain(Reads[tool], S, x, y)
             /\ x = "databases" <=> tool = "list_databases"
    BY ReadsChain
  <1>2. Follows(y, "end")
    BY DEF Follows
  <1> QED  BY <1>1, <1>2, ChainLinked

\* A reading of the schema goes before what needs it.
LEMMA LinkedSchema ==
    ASSUME NEW S, ReadSteps \subseteq S, NEW s \in Seq(S), Linked(s), s # <<>>, Head(s) = "schema"
    PROVE  LET r == Reads.get_schema \o <<"store">> \o s
           IN  r \in Seq(S) /\ r # <<>> /\ Linked(r) /\ Head(r) = "qualify" /\ Len(r) = Len(s) + 4
  <1> DEFINE q == RequireContainer
             c == <<"columns">>
             t == <<"store">>
  <1>1. Reads.get_schema \o <<"store">> \o s = ((q \o c) \o t) \o s
    BY DEF Reads
  <1>2. Chain(q, S, "qualify", "member") /\ Len(q) = 2
    BY RequireChain DEF ReadSteps
  <1>3. Chain(c, S, "columns", "columns") /\ Len(c) = 1
    BY ChainOne DEF ReadSteps
  <1>4. Chain(t, S, "store", "store") /\ Len(t) = 1
    BY ChainOne DEF ReadSteps
  <1>5. Chain(s, S, "schema", s[Len(s)]) /\ Follows(s[Len(s)], "end")
    BY LinkedChain
  <1> HIDE DEF q, c, t
  <1> DEFINE d == q \o c
             e == d \o t
             r == e \o s
  <1>6. Chain(d, S, "qualify", "columns") /\ Len(d) = Len(q) + Len(c)
    BY <1>2, <1>3, ChainConcat DEF Follows
  <1> HIDE DEF d
  <1>7. Chain(e, S, "qualify", "store") /\ Len(e) = Len(d) + Len(t)
    <2>1. Follows("columns", "store")
      BY DEF Follows
    <2>2. ASSUME NEW a, NEW b, Chain(a, S, "qualify", "columns"), Chain(b, S, "store", "store")
          PROVE  Chain(a \o b, S, "qualify", "store") /\ Len(a \o b) = Len(a) + Len(b)
      BY <2>1, <2>2, ChainConcat
    <2> QED  BY <1>4, <1>6, <2>2 DEF e
  <1> HIDE DEF e
  <1>8. Chain(r, S, "qualify", s[Len(s)]) /\ Len(r) = Len(e) + Len(s)
    BY <1>5, <1>7, ChainConcat DEF Follows
  <1> HIDE DEF r
  <1>9. r \in Seq(S) /\ r # <<>> /\ Linked(r) /\ Head(r) = "qualify"
    BY <1>5, <1>8, ChainLinked
  <1>10. Len(r) = Len(s) + 4
    BY <1>2, <1>3, <1>4, <1>6, <1>7, <1>8
  <1> QED  BY <1>1, <1>9, <1>10 DEF r, e, d

\* The steps of a tool call.
LEMMA ToolStepsLinked ==
    ASSUME NEW tool \in {"list_databases", "list_containers", "get_schema", "get_sample",
                         "profile_column"}
    PROVE  /\ ToolSteps(tool) \in Seq(Steps) /\ ToolSteps(tool) # <<>>
           /\ Linked(ToolSteps(tool))
           /\ Head(ToolSteps(tool)) \in {"databases", "page", "qualify"}
           /\ Head(ToolSteps(tool)) = "databases" => tool = "list_databases"
  <1> DEFINE r == Reads[tool]
             m == <<"emit">>
             v == <<"verdicts">>
             j == <<"join", "clear">>
  <1>1. PICK x \in {"databases", "page", "qualify"},
             y \in {"databases", "page", "columns", "rows", "stat"} :
             /\ Chain(r, Steps, x, y)
             /\ x = "databases" <=> tool = "list_databases"
             /\ y = "databases" <=> tool = "list_databases"
    BY ReadsChain DEF Steps
  <1>2. Chain(m, Steps, "emit", "emit") /\ Chain(v, Steps, "verdicts", "verdicts")
    BY ChainOne DEF Steps, RecordSteps
  <1>3. Chain(j, Steps, "join", "clear")
    BY ChainTwo DEF Steps, RecordSteps, Follows
  <1>4. Follows("emit", "end")
    BY DEF Follows
  <1>5. CASE tool = "list_databases"
    <2>1. r \in Seq(Steps)
      BY <1>1 DEF Chain
    <2>2. ToolSteps(tool) = (r \o <<>> \o <<>>) \o m
      BY <1>5 DEF ToolSteps
    <2> HIDE DEF r, m
    <2>3. r \o <<>> \o <<>> = r
      BY <2>1
    <2> DEFINE s == r \o m
    <2>4. Chain(s, Steps, x, "emit")
      BY <1>1, <1>2, <1>5, ChainConcat DEF Follows
    <2> HIDE DEF s
    <2>5. s \in Seq(Steps) /\ s # <<>> /\ Linked(s) /\ Head(s) = x
      BY <2>4, <1>4, ChainLinked
    <2>6. ToolSteps(tool) = s
      BY <2>2, <2>3 DEF s
    <2> QED  BY <2>5, <2>6, <1>1
  <1>6. CASE tool # "list_databases"
    <2>0. Follows(y, "join")
      BY <1>1, <1>6 DEF Follows
    <2> DEFINE a == r \o j
    <2> HIDE DEF r, m, j, v
    <2>1. Chain(a, Steps, x, "clear")
      BY <1>1, <1>3, <2>0, ChainConcat
    <2> HIDE DEF a
    <2>2. CASE tool = "get_sample"
      <3> DEFINE b == a \o v
                 s == b \o m
      <3>1. Chain(b, Steps, x, "verdicts")
        BY <2>1, <1>2, ChainConcat DEF Follows
      <3> HIDE DEF b
      <3>2. Chain(s, Steps, x, "emit")
        BY <3>1, <1>2, ChainConcat DEF Follows
      <3>3. ToolSteps(tool) = s
        BY <1>6, <2>2 DEF ToolSteps, b, a, r, m, j, v
      <3> HIDE DEF s
      <3>5. s \in Seq(Steps) /\ s # <<>> /\ Linked(s) /\ Head(s) = x
        BY <3>2, <1>4, ChainLinked
      <3> QED  BY <3>3, <3>5, <1>1
    <2>3. CASE tool # "get_sample"
      <3> DEFINE s == a \o m
      <3>2. Chain(s, Steps, x, "emit")
        BY <2>1, <1>2, ChainConcat DEF Follows
      <3>3. ToolSteps(tool) = (a \o <<>>) \o m
        BY <1>6, <2>3 DEF ToolSteps, a, r, m, j
      <3>4. a \o <<>> = a
        BY <2>1 DEF Chain
      <3>6. ToolSteps(tool) = s
        BY <3>3, <3>4
      <3> HIDE DEF s
      <3>5. s \in Seq(Steps) /\ s # <<>> /\ Linked(s) /\ Head(s) = x
        BY <3>2, <1>4, ChainLinked
      <3> QED  BY <3>6, <3>5, <1>1
    <2> QED  BY <2>2, <2>3
  <1> QED  BY <1>5, <1>6

\* What is left when a step is done together with the one after it.
LEMMA LinkedTwo ==
    ASSUME NEW S, NEW s \in Seq(S), Linked(s), s # <<>>, Head(s) \in {"fill", "store", "join"}
    PROVE  /\ Tail(s) # <<>> /\ Follows(Head(s), Head(Tail(s)))
           /\ Tail(Tail(s)) \in Seq(S) /\ Linked(Tail(Tail(s)))
           /\ Tail(Tail(s)) = <<>> => Follows(Head(Tail(s)), "end")
           /\ Tail(Tail(s)) # <<>> => Follows(Head(Tail(s)), Head(Tail(Tail(s))))
           /\ Len(Tail(Tail(s))) = Len(s) - 2
  <1>1. ~Follows(Head(s), "end")
    BY DEF Follows
  <1> DEFINE r == Tail(s)
  <1>2. r # <<>> /\ r \in Seq(S) /\ Linked(r) /\ Follows(Head(s), Head(r)) /\ Len(r) = Len(s) - 1
    BY <1>1, LinkedTail
  <1> HIDE DEF r
  <1>3. /\ Tail(r) \in Seq(S) /\ Linked(Tail(r))
        /\ Tail(r) = <<>> => Follows(Head(r), "end")
        /\ Tail(r) # <<>> => Follows(Head(r), Head(Tail(r)))
        /\ Len(Tail(r)) = Len(r) - 1
    BY <1>2, LinkedTail
  <1>4. Len(s) - 1 - 1 = Len(s) - 2
    OBVIOUS
  <1> QED  BY <1>2, <1>3, <1>4 DEF r

-----------------------------------------------------------------------------
(* What each thread is at *)

ThreadType ==
    [todo : Seq(Steps), call : Nat, tool : Tools \cup {"none"}, name : Asked \cup Names \cup {Nothing},
     column : Columns \cup {Nothing}, known : SUBSET Names, cols : SUBSET Columns,
     readAt : Nat, rendered : Seq(Nat), outcome : {"ok", "error"}, sent : Nat,
     alone : BOOLEAN]

\* The steps t has left come in their order, the scan's make no record, and a
\* schema is read of a container that was there.
Tidy(t) ==
    /\ thread[t] \in ThreadType
    /\ Linked(thread[t].todo)
    /\ t \notin Callers => thread[t].todo \in Seq(ReadSteps)
    /\ At(t, "schema") \/ At(t, "store") => thread[t].name \in Names
    /\ t \in Callers /\ At(t, "databases") => thread[t].tool = "list_databases"

Shaped ==
    /\ now \in 0..MaxTime /\ upstream \in Catalogs
    /\ catalog # Nothing => catalog \in [names : SUBSET Names, stamp : 0..now]
    /\ schemas \in [Names -> {Nothing} \cup [cols : SUBSET Columns, stamp : 0..now]]
    /\ calls \in Nat
    /\ thread \in [Threads -> ThreadType]
    /\ \A t \in Threads : Tidy(t)

\* Only t moves.
OnlyMoves(t) ==
    /\ thread' \in [Threads -> ThreadType]
    /\ \A u \in Threads \ {t} : thread'[u] = thread[u]

LEMMA IdleType == Idle \in ThreadType /\ Linked(Idle.todo) /\ Idle.todo = <<>>
  <1>1. Idle \in ThreadType
    BY DEF Idle, ThreadType
  <1>2. Idle.todo = <<>>
    BY DEF Idle
  <1>3. Len(<<>>) = 0
    OBVIOUS
  <1> QED  BY <1>1, <1>2, <1>3 DEF Linked

LEMMA OneMoves ==
    ASSUME thread \in [Threads -> ThreadType], NEW t \in Threads,
           NEW r \in ThreadType, thread' = [thread EXCEPT ![t] = r]
    PROVE  OnlyMoves(t) /\ thread'[t] = r
  BY DEF OnlyMoves

LEMMA InitShaped == Init => Shaped
  <1> SUFFICES ASSUME Init PROVE Shaped
    OBVIOUS
  <1>1. \A t \in Threads : Tidy(t)
    <2> SUFFICES ASSUME NEW t \in Threads PROVE Tidy(t)
      OBVIOUS
    <2>1. thread[t] = Idle
      BY DEF Init
    <2>2. thread[t].todo = <<>> /\ <<>> \in Seq(ReadSteps)
      BY <2>1, IdleType
    <2> QED  BY <2>1, <2>2, IdleType DEF Tidy, At, Busy
  <1>2. thread \in [Threads -> ThreadType]
    BY IdleType DEF Init
  <1>3. now \in 0..MaxTime /\ calls \in Nat
    BY ToolCallsAssumption DEF Init
  <1>4. upstream \in Catalogs
    BY ToolCallsAssumption DEF Init, Catalogs
  <1> QED  BY <1>1, <1>2, <1>3, <1>4 DEF Init, Shaped

\* A call begins.
LEMMA BeginShaped ==
    ASSUME Shaped, NEW t \in Threads, CallTool(t) \/ ScanReads(t)
    PROVE  Shaped'
  <1>1. PICK steps \in Seq(Steps), tool \in Tools, name \in Asked \cup Names, column \in Columns :
             /\ Begin(t, steps, tool, name, column)
             /\ Linked(steps)
             /\ t \notin Callers => steps \in Seq(ReadSteps)
             /\ steps # <<>> /\ Head(steps) \in {"databases", "page", "qualify"}
             /\ Head(steps) = "databases" => tool = "list_databases"
    <2>1. CASE CallTool(t)
      <3>1. PICK tool \in Tools, name \in Asked, column \in Columns :
                 t \in Callers /\ Begin(t, ToolSteps(tool), tool, name, column)
        BY <2>1 DEF CallTool
      <3> DEFINE r == ToolSteps(tool)
      <3>2. /\ r \in Seq(Steps) /\ Linked(r) /\ r # <<>>
            /\ Head(r) \in {"databases", "page", "qualify"}
            /\ Head(r) = "databases" => tool = "list_databases"
        BY ToolCallsAssumption, ToolStepsLinked
      <3>3. t \in Callers /\ Begin(t, r, tool, name, column) /\ name \in Asked \cup Names
        BY <3>1
      <3> HIDE DEF r
      <3> QED  BY <3>2, <3>3
    <2>2. CASE ScanReads(t)
      <3>1. PICK tool \in Tools, name \in Names, column \in Columns :
                 Begin(t, Reads[tool], tool, name, column)
        BY <2>2 DEF ScanReads
      <3>2. ReadSteps \subseteq ReadSteps /\ ReadSteps \subseteq Steps
        BY DEF Steps
      <3> DEFINE r == Reads[tool]
      <3>3. /\ r \in Seq(ReadSteps) /\ r \in Seq(Steps) /\ r # <<>> /\ Linked(r)
            /\ Head(r) \in {"databases", "page", "qualify"}
            /\ Head(r) = "databases" => tool = "list_databases"
        BY <3>2, ToolCallsAssumption, ReadsLinked
      <3>4. Begin(t, r, tool, name, column) /\ name \in Asked \cup Names
        BY <3>1
      <3> HIDE DEF r
      <3> QED  BY <3>3, <3>4
    <2> QED  BY <2>1, <2>2
  <1> DEFINE new == [Idle EXCEPT !.todo = steps, !.call = calls + 1, !.tool = tool,
                         !.name = name, !.column = column,
                         !.alone = \A v \in Callers : ~Busy(v)]
             both(u) == t \in Callers /\ u \in Callers /\ Busy(u)
             other(u) == [thread[u] EXCEPT !.alone = @ /\ ~both(u)]
  <1>2. thread' = [u \in Threads |-> IF u = t THEN new ELSE other(u)]
    BY <1>1 DEF Begin
  <1>3. new \in ThreadType /\ new.todo = steps /\ new.tool = tool
    <2> DEFINE b == \A v \in Callers : ~Busy(v)
    <2>1. b \in BOOLEAN
      OBVIOUS
    <2> HIDE DEF b
    <2>2. new = [Idle EXCEPT !.todo = steps, !.call = calls + 1, !.tool = tool,
                         !.name = name, !.column = column, !.alone = b]
      BY DEF b
    <2>3. Idle \in ThreadType /\ calls + 1 \in Nat
      BY IdleType DEF Shaped
    <2> HIDE DEF new
    <2> QED  BY <1>1, <2>1, <2>2, <2>3 DEF ThreadType
  <1>4. ASSUME NEW u \in Threads
        PROVE  other(u) \in ThreadType /\ other(u).todo = thread[u].todo
               /\ other(u).tool = thread[u].tool /\ other(u).name = thread[u].name
    <2> DEFINE b == thread[u].alone /\ ~both(u)
    <2>1. b \in BOOLEAN
      OBVIOUS
    <2>2. other(u) = [thread[u] EXCEPT !.alone = b]
      OBVIOUS
    <2>3. thread[u] \in ThreadType
      BY DEF Shaped
    <2> HIDE DEF other, b
    <2> QED  BY <2>1, <2>2, <2>3 DEF ThreadType
  <1> HIDE DEF new, other
  <1>5. thread' \in [Threads -> ThreadType]
    BY <1>2, <1>3, <1>4
  <1>6. ASSUME NEW u \in Threads PROVE Tidy(u)'
    <2>1. CASE u = t
      <3>1. thread'[u] = new
        BY <1>2, <2>1
      <3> QED  BY <3>1, <1>1, <1>3, <2>1 DEF Tidy, At, Busy
    <2>2. CASE u # t
      <3>1. thread'[u] = other(u)
        BY <1>2, <2>2
      <3> QED  BY <3>1, <1>4 DEF Shaped, Tidy, At, Busy
    <2> QED  BY <2>1, <2>2
  <1>7. /\ now' = now /\ upstream' = upstream /\ catalog' = catalog /\ schemas' = schemas
        /\ calls' = calls + 1
    BY <1>1 DEF Begin
  <1> QED  BY <1>5, <1>6, <1>7 DEF Shaped

\* A step of t that keeps t tidy.
LEMMA TidyShaped ==
    ASSUME Shaped, NEW t \in Threads, OnlyMoves(t), Tidy(t)',
           now' \in 0..MaxTime /\ upstream' \in Catalogs,
           catalog' # Nothing => catalog' \in [names : SUBSET Names, stamp : 0..now'],
           schemas' \in [Names -> {Nothing} \cup [cols : SUBSET Columns, stamp : 0..now']],
           calls' \in Nat
    PROVE  Shaped'
  <1>1. ASSUME NEW u \in Threads PROVE Tidy(u)'
    <2>1. CASE u # t
      <3>1. thread'[u] = thread[u]
        BY <2>1 DEF OnlyMoves
      <3> QED  BY <3>1 DEF Shaped, Tidy, At, Busy
    <2> QED  BY <2>1
  <1> QED  BY <1>1 DEF Shaped, OnlyMoves

\* What the record of t's call will say, but for its outcome, is as it was.
SameRecord(t) ==
    /\ thread'[t].call = thread[t].call /\ thread'[t].tool = thread[t].tool
    /\ thread'[t].sent = thread[t].sent /\ thread'[t].alone = thread[t].alone
    /\ thread'[t].rendered = thread[t].rendered

\* t's call fails, or the scan's.
Fails(t) ==
    /\ t \in Callers => /\ thread'[t].todo = <<"emit">> /\ thread'[t].outcome = "error"
                         /\ SameRecord(t)
    /\ t \notin Callers => thread'[t] = Idle

\* t's call goes on, with the steps s left.
GoesOn(t, s) ==
    /\ thread'[t].todo = s /\ SameRecord(t)
    /\ thread'[t].outcome = thread[t].outcome

LEMMA EmitLinked == Linked(<<"emit">>) /\ <<"emit">> \in Seq(Steps) /\ <<"emit">> # <<>> /\ Head(<<"emit">>) = "emit"
  <1>1. Chain(<<"emit">>, Steps, "emit", "emit") /\ Follows("emit", "end")
    BY ChainOne DEF Steps, RecordSteps, Follows
  <1> QED  BY <1>1, ChainLinked

LEMMA GiveUpMoves ==
    ASSUME Shaped, NEW t \in Threads, GiveUp(t)
    PROVE  OnlyMoves(t) /\ Tidy(t)' /\ Fails(t)
  <1>0. thread \in [Threads -> ThreadType] /\ thread[t] \in ThreadType
    BY DEF Shaped
  <1>1. CASE t \in Callers
    <2> DEFINE r == [thread[t] EXCEPT !.todo = <<"emit">>, !.outcome = "error"]
    <2>1. thread' = [thread EXCEPT ![t] = r]
      BY <1>1 DEF GiveUp
    <2>2. /\ r \in ThreadType /\ r.todo = <<"emit">> /\ r.outcome = "error"
          /\ r.call = thread[t].call /\ r.tool = thread[t].tool /\ r.sent = thread[t].sent
          /\ r.alone = thread[t].alone /\ r.rendered = thread[t].rendered
      BY <1>0, EmitLinked DEF ThreadType
    <2> HIDE DEF r
    <2>3. OnlyMoves(t) /\ thread'[t] = r
      BY <1>0, <2>1, <2>2, OneMoves
    <2>4. Tidy(t)'
      BY <2>2, <2>3, <1>1, EmitLinked DEF Tidy, At, Busy
    <2> QED  BY <2>2, <2>3, <2>4, <1>1 DEF Fails, SameRecord
  <1>2. CASE t \notin Callers
    <2>1. thread' = [thread EXCEPT ![t] = Idle]
      BY <1>2 DEF GiveUp
    <2>2. OnlyMoves(t) /\ thread'[t] = Idle
      BY <1>0, <2>1, IdleType, OneMoves
    <2>3. <<>> \in Seq(ReadSteps)
      OBVIOUS
    <2>4. Tidy(t)'
      BY <2>2, <2>3, <1>2, IdleType DEF Tidy, At, Busy
    <2> QED  BY <2>2, <2>4, <1>2 DEF Fails
  <1> QED  BY <1>1, <1>2

\* A list of steps t may go on with: its own but for the first, or one put
\* before it.
Proper(t, s) ==
    /\ s \in Seq(Steps) /\ Linked(s)
    /\ t \notin Callers => s \in Seq(ReadSteps)

LEMMA RestProper ==
    ASSUME Shaped, NEW t \in Threads, Busy(t)
    PROVE  /\ Proper(t, Rest(t))
           /\ Rest(t) = <<>> => Follows(Head(thread[t].todo), "end")
           /\ Rest(t) # <<>> => Follows(Head(thread[t].todo), Head(Rest(t)))
           /\ Len(Rest(t)) = Len(thread[t].todo) - 1
  <1> DEFINE s == thread[t].todo
  <1>1. s \in Seq(Steps) /\ Linked(s) /\ s # <<>> /\ (t \notin Callers => s \in Seq(ReadSteps))
    BY DEF Shaped, Tidy, ThreadType, Busy
  <1> HIDE DEF s
  <1>2. /\ Tail(s) \in Seq(Steps) /\ Linked(Tail(s))
        /\ Tail(s) = <<>> => Follows(Head(s), "end")
        /\ Tail(s) # <<>> => Follows(Head(s), Head(Tail(s)))
        /\ Len(Tail(s)) = Len(s) - 1
    BY <1>1, LinkedTail
  <1>3. t \notin Callers => Tail(s) \in Seq(ReadSteps)
    BY <1>1, LinkedTail
  <1> QED  BY <1>2, <1>3 DEF s, Proper, Rest

LEMMA RestTwoProper ==
    ASSUME Shaped, NEW t \in Threads, Busy(t), Head(thread[t].todo) \in {"fill", "store", "join"}
    PROVE  /\ Rest(t) # <<>> /\ Follows(Head(thread[t].todo), Head(Rest(t)))
           /\ Proper(t, Tail(Rest(t)))
           /\ Tail(Rest(t)) = <<>> => Follows(Head(Rest(t)), "end")
           /\ Tail(Rest(t)) # <<>> => Follows(Head(Rest(t)), Head(Tail(Rest(t))))
           /\ Len(Tail(Rest(t))) = Len(thread[t].todo) - 2
  <1> DEFINE s == thread[t].todo
  <1>1. s \in Seq(Steps) /\ Linked(s) /\ s # <<>> /\ (t \notin Callers => s \in Seq(ReadSteps))
    BY DEF Shaped, Tidy, ThreadType, Busy
  <1>0. Head(s) \in {"fill", "store", "join"}
    OBVIOUS
  <1> HIDE DEF s
  <1>2. /\ Tail(s) # <<>> /\ Follows(Head(s), Head(Tail(s)))
        /\ Tail(Tail(s)) \in Seq(Steps) /\ Linked(Tail(Tail(s)))
        /\ Tail(Tail(s)) = <<>> => Follows(Head(Tail(s)), "end")
        /\ Tail(Tail(s)) # <<>> => Follows(Head(Tail(s)), Head(Tail(Tail(s))))
        /\ Len(Tail(Tail(s))) = Len(s) - 2
    BY <1>0, <1>1, LinkedTwo
  <1>3. t \notin Callers => Tail(Tail(s)) \in Seq(ReadSteps)
    BY <1>0, <1>1, LinkedTwo
  <1> QED  BY <1>2, <1>3 DEF s, Proper, Rest

\* The steps left after one of the allowlist's: at least one, and never a schema
\* to read unless its container has just been found.
LEMMA AfterProper ==
    ASSUME Shaped, NEW t \in Threads, NEW step \in {"qualify", "member", "schema"},
           At(t, step) \/ ((At(t, "fill") \/ At(t, "store")) /\ Head(Rest(t)) = step)
    PROVE  /\ Proper(t, After(t)) /\ After(t) # <<>> /\ Follows(step, Head(After(t)))
           /\ After(t) # thread[t].todo /\ Len(After(t)) < Len(thread[t].todo)
           /\ At(t, step) => After(t) = Rest(t)
           /\ ~At(t, step) => After(t) = Tail(Rest(t)) /\ Follows(Head(thread[t].todo), step)
  <1>0. ~Follows(step, "end") /\ Busy(t) /\ Len(thread[t].todo) \in Nat
    BY DEF Follows, At, Shaped, ThreadType
  <1>1. CASE At(t, step)
    <2>1. After(t) = Rest(t)
      BY <1>1 DEF After, At
    <2>2. Head(thread[t].todo) = step
      BY <1>1 DEF At
    <2> QED  BY <1>0, <1>1, <2>1, <2>2, RestProper
  <1>2. CASE ~At(t, step)
    <2>1. After(t) = Tail(Rest(t))
      BY <1>2 DEF After
    <2>2. Head(thread[t].todo) \in {"fill", "store", "join"} /\ Head(Rest(t)) = step
      BY <1>2 DEF At
    <2> QED  BY <1>0, <1>2, <2>1, <2>2, RestTwoProper
  <1> QED  BY <1>1, <1>2

\* t is at a step of the allowlist, or at the end of the read it needs.
AtStep(t, step) == At(t, step) \/ ((At(t, "fill") \/ At(t, "store")) /\ Head(Rest(t)) = step)

\* A set of at most one element.
LEMMA AtMostOne ==
    ASSUME NEW S, IsFiniteSet(S), ~(Cardinality(S) > 1), NEW x \in S
    PROVE  S = {x}
  <1>1. SUFFICES ASSUME NEW y \in S, y # x PROVE FALSE
    OBVIOUS
  <1>2. IsFiniteSet(S \ {x}) /\ Cardinality(S \ {x}) = Cardinality(S) - 1
    BY FS_RemoveElement
  <1>3. Cardinality(S) \in Nat /\ Cardinality(S \ {x}) \in Nat
    BY <1>2, FS_CardinalityType
  <1>4. Cardinality(S \ {x}) = 0
    BY <1>2, <1>3
  <1>5. S \ {x} = {}
    BY <1>2, <1>4, FS_EmptySet
  <1> QED  BY <1>1, <1>5

\* What matches a name is it, or is known.
LEMMA MatchesFinite ==
    ASSUME NEW name, NEW known \in SUBSET Names
    PROVE  IsFiniteSet(Matches(name, known)) /\ Matches(name, known) \subseteq {name} \cup known
  <1>1. IsFiniteSet({name}) /\ IsFiniteSet(known)
    BY ToolCallsAssumption, FS_Singleton, FS_Subset
  <1>2. CASE name \in known \cup Names
    BY <1>1, <1>2 DEF Matches
  <1>3. CASE name \notin known \cup Names
    <2> DEFINE M == {n \in known : n[2] = name}
    <2>1. IsFiniteSet(M) /\ M \subseteq known
      BY <1>1, FS_Subset
    <2>2. Matches(name, known) = M
      BY <1>3 DEF Matches
    <2> QED  BY <2>1, <2>2
  <1> QED  BY <1>2, <1>3

\* A step of the allowlist fails, or goes on under the name it found.
LEMMA JudgeMoves ==
    ASSUME Shaped, NEW t \in Threads, NEW step \in {"qualify", "member"},
           NEW known \in SUBSET Names, AtStep(t, step), Judge(t, step, known)
    PROVE  /\ OnlyMoves(t) /\ Tidy(t)'
           /\ \/ Fails(t)
              \/ /\ GoesOn(t, After(t))
                 /\ step = "qualify" => Matches(thread[t].name, known) \subseteq {thread'[t].name}
                 /\ step = "member" => thread[t].name \in known
  <1>0. thread \in [Threads -> ThreadType] /\ thread[t] \in ThreadType
    BY DEF Shaped
  <1> DEFINE a == After(t)
  <1>1. Proper(t, a) /\ a # <<>> /\ Follows(step, Head(a))
    BY AfterProper DEF AtStep
  <1> HIDE DEF a
  <1>2. a \in Seq(Steps) /\ Head(a) # "store" /\ Head(a) # "databases"
    BY <1>1 DEF Proper, Follows
  <1>3. CASE GiveUp(t)
    BY <1>3, GiveUpMoves
  <1>4. CASE step = "qualify" /\ ~GiveUp(t)
    <2> DEFINE M == Matches(thread[t].name, known)
               name == IF M = {} THEN thread[t].name ELSE CHOOSE n \in M : TRUE
               r == [thread[t] EXCEPT !.todo = a, !.known = {}, !.readAt = 0, !.name = name]
    <2>1. ~(Cardinality(M) > 1) /\ thread' = [thread EXCEPT ![t] = r]
      BY <1>4 DEF Judge, Qualify, a
    <2>2. IsFiniteSet(M) /\ M \subseteq {thread[t].name} \cup known
      BY MatchesFinite
    <2>3. M \subseteq {name} /\ name \in Asked \cup Names \cup {Nothing}
      <3>1. CASE M = {}
        BY <1>0, <3>1 DEF ThreadType
      <3>2. CASE M # {}
        <4>1. name \in M
          BY <3>2
        <4> HIDE DEF M, name
        <4>2. M = {name}
          BY <4>1, <2>1, <2>2, AtMostOne
        <4> QED  BY <4>1, <4>2, <2>2, <1>0 DEF ThreadType
      <3> QED  BY <3>1, <3>2
    <2> HIDE DEF M, name
    <2>4. /\ r \in ThreadType /\ r.todo = a /\ r.name = name /\ r.outcome = thread[t].outcome
          /\ r.call = thread[t].call /\ r.tool = thread[t].tool /\ r.sent = thread[t].sent
          /\ r.alone = thread[t].alone /\ r.rendered = thread[t].rendered
      BY <1>0, <1>2, <2>3 DEF ThreadType
    <2> HIDE DEF r
    <2>5. OnlyMoves(t) /\ thread'[t] = r
      BY <1>0, <2>1, <2>4, OneMoves
    <2>6. Head(a) # "schema"
      BY <1>1, <1>4 DEF Follows
    <2>7. Tidy(t)'
      BY <2>4, <2>5, <2>6, <1>1, <1>2 DEF Tidy, At, Busy, Proper
    <2> QED  BY <2>3, <2>4, <2>5, <2>7, <1>4 DEF GoesOn, SameRecord, a, M
  <1>5. CASE step = "member" /\ ~GiveUp(t)
    <2> DEFINE r == [thread[t] EXCEPT !.todo = a, !.known = {}, !.readAt = 0]
    <2>1. thread[t].name \in known /\ thread' = [thread EXCEPT ![t] = r]
      BY <1>5 DEF Judge, Member, a
    <2>4. /\ r \in ThreadType /\ r.todo = a /\ r.name = thread[t].name
          /\ r.outcome = thread[t].outcome
          /\ r.call = thread[t].call /\ r.tool = thread[t].tool /\ r.sent = thread[t].sent
          /\ r.alone = thread[t].alone /\ r.rendered = thread[t].rendered
      BY <1>0, <1>2 DEF ThreadType
    <2> HIDE DEF r
    <2>5. OnlyMoves(t) /\ thread'[t] = r
      BY <1>0, <2>1, <2>4, OneMoves
    <2>7. Tidy(t)'
      BY <2>1, <2>4, <2>5, <1>1, <1>2 DEF Tidy, At, Busy, Proper
    <2> QED  BY <2>1, <2>4, <2>5, <2>7, <1>5 DEF GoesOn, SameRecord, a
  <1> QED  BY <1>3, <1>4, <1>5

\* A column is asked for that the container does not have, or the call goes on.
LEMMA RequireColumnMoves ==
    ASSUME Shaped, NEW t \in Threads, NEW cols, AtStep(t, "schema"), RequireColumn(t, cols)
    PROVE  /\ OnlyMoves(t) /\ Tidy(t)'
           /\ \/ Fails(t)
              \/ GoesOn(t, After(t)) /\ thread[t].column \in cols
  <1>0. thread \in [Threads -> ThreadType] /\ thread[t] \in ThreadType
    BY DEF Shaped
  <1> DEFINE a == After(t)
  <1>1. Proper(t, a) /\ a # <<>> /\ Follows("schema", Head(a))
    BY AfterProper DEF AtStep
  <1> HIDE DEF a
  <1>2. a \in Seq(Steps) /\ Head(a) = "stat"
    BY <1>1 DEF Proper, Follows
  <1>3. CASE GiveUp(t)
    BY <1>3, GiveUpMoves
  <1>4. CASE ~GiveUp(t)
    <2> DEFINE r == [thread[t] EXCEPT !.todo = a, !.cols = {}, !.readAt = 0]
    <2>1. thread[t].column \in cols /\ thread' = [thread EXCEPT ![t] = r]
      BY <1>4 DEF RequireColumn, a
    <2>4. /\ r \in ThreadType /\ r.todo = a /\ r.outcome = thread[t].outcome
          /\ r.call = thread[t].call /\ r.tool = thread[t].tool /\ r.sent = thread[t].sent
          /\ r.alone = thread[t].alone /\ r.rendered = thread[t].rendered
      BY <1>0, <1>2 DEF ThreadType
    <2> HIDE DEF r
    <2>5. OnlyMoves(t) /\ thread'[t] = r
      BY <1>0, <2>1, <2>4, OneMoves
    <2>7. Tidy(t)'
      BY <2>4, <2>5, <1>1, <1>2 DEF Tidy, At, Busy, Proper
    <2> QED  BY <2>1, <2>4, <2>5, <2>7, <1>4 DEF GoesOn, SameRecord, a
  <1> QED  BY <1>3, <1>4

-----------------------------------------------------------------------------
(* What each step does to its thread *)

LEMMA SendMoves ==
    ASSUME Shaped, NEW t \in Threads, Send(t)
    PROVE  /\ OnlyMoves(t) /\ Tidy(t)'
           /\ thread'[t].todo = Rest(t) /\ thread'[t].sent = thread[t].sent + 1
           /\ thread'[t].call = thread[t].call /\ thread'[t].tool = thread[t].tool
           /\ thread'[t].alone = thread[t].alone /\ thread'[t].rendered = thread[t].rendered
           /\ thread'[t].outcome = thread[t].outcome /\ thread'[t].name = thread[t].name
           /\ At(t, "walk") => thread'[t].known = There(upstream)
           /\ At(t, "columns") => /\ thread[t].name \in There(upstream)
                                  /\ thread'[t].cols = upstream[thread[t].name]
           /\ At(t, "walk") \/ At(t, "columns") => thread'[t].readAt = now
  <1>0. thread \in [Threads -> ThreadType] /\ thread[t] \in ThreadType /\ now \in Nat
    BY ToolCallsAssumption DEF Shaped
  <1> DEFINE a == Rest(t)
             w == At(t, "walk")
             c == At(t, "columns")
             known == IF w THEN There(upstream) ELSE thread[t].known
             cols == IF c THEN upstream[thread[t].name] ELSE thread[t].cols
             readAt == IF w \/ c THEN now ELSE thread[t].readAt
             n == thread[t].sent + 1
             r == [thread[t] EXCEPT !.todo = a, !.sent = n, !.known = known,
                       !.cols = cols, !.readAt = readAt]
  <1>1. Proper(t, a) /\ (a # <<>> => Follows(Head(thread[t].todo), Head(a)))
    BY RestProper DEF Send
  <1>2. thread' = [thread EXCEPT ![t] = r]
    BY DEF Send
  <1>3. c => thread[t].name \in There(upstream)
    BY DEF Send, Answerable, At
  <1>4. There(upstream) \subseteq Names /\ \A m \in There(upstream) : upstream[m] \in SUBSET Columns
    BY DEF There, Shaped, Catalogs
  <1>5. known \in SUBSET Names
    BY <1>0, <1>4 DEF ThreadType
  <1>6. cols \in SUBSET Columns
    BY <1>0, <1>3, <1>4 DEF ThreadType
  <1>7. readAt \in Nat
    BY <1>0 DEF ThreadType
  <1>13. n \in Nat
    BY <1>0 DEF ThreadType
  <1>8. a # <<>> => Head(a) # "schema" /\ Head(a) # "databases" /\ (Head(a) = "store" => c)
    BY <1>1 DEF Follows, At, Send, ForAnswer
  <1>9. (w => known = There(upstream)) /\ (c => cols = upstream[thread[t].name])
        /\ (w \/ c => readAt = now)
    OBVIOUS
  <1> HIDE DEF a, w, c, n, known, cols, readAt
  <1>10. /\ r \in ThreadType /\ r.todo = a /\ r.outcome = thread[t].outcome
         /\ r.sent = n /\ r.known = known /\ r.cols = cols
         /\ r.readAt = readAt /\ r.name = thread[t].name
         /\ r.call = thread[t].call /\ r.tool = thread[t].tool
         /\ r.alone = thread[t].alone /\ r.rendered = thread[t].rendered
    BY <1>0, <1>1, <1>5, <1>6, <1>7, <1>13 DEF ThreadType, Proper
  <1> HIDE DEF r
  <1>11. OnlyMoves(t) /\ thread'[t] = r
    BY <1>0, <1>2, <1>10, OneMoves
  <1>12. Tidy(t)'
    BY <1>1, <1>3, <1>4, <1>8, <1>10, <1>11 DEF Tidy, At, Busy, Proper
  <1> QED  BY <1>3, <1>9, <1>10, <1>11, <1>12 DEF a, w, c, n

\* A thread at a step of the record is a caller's.
LEMMA RecordersCall ==
    ASSUME Shaped, NEW t \in Threads, NEW step \in RecordSteps, At(t, step)
    PROVE  t \in Callers
  <1>1. SUFFICES ASSUME t \notin Callers PROVE FALSE
    OBVIOUS
  <1>2. thread[t].todo \in Seq(ReadSteps) /\ thread[t].todo # <<>>
    BY <1>1 DEF Shaped, Tidy, At, Busy
  <1>3. Head(thread[t].todo) \in ReadSteps
    BY <1>2, LinkedTail DEF Shaped, Tidy
  <1> QED  BY <1>3 DEF At, ReadSteps, RecordSteps

LEMMA RecordMoves ==
    ASSUME Shaped, NEW t \in Threads
    PROVE  /\ AskVerdicts(t) =>
                 /\ OnlyMoves(t) /\ Tidy(t)' /\ GoesOn(t, Rest(t)) /\ Head(Rest(t)) = "emit"
                 /\ Rest(t) # <<>>
           /\ Clear(t) =>
                 /\ OnlyMoves(t) /\ Tidy(t)' /\ GoesOn(t, Rest(t))
                 /\ Rest(t) # <<>> /\ Head(Rest(t)) \in {"verdicts", "emit"}
  <1>1. SUFFICES ASSUME AskVerdicts(t) \/ Clear(t)
                 PROVE  /\ OnlyMoves(t) /\ Tidy(t)' /\ GoesOn(t, Rest(t)) /\ Rest(t) # <<>>
                        /\ AskVerdicts(t) => Head(Rest(t)) = "emit"
                        /\ Clear(t) => Head(Rest(t)) \in {"verdicts", "emit"}
    OBVIOUS
  <1>0. thread \in [Threads -> ThreadType] /\ thread[t] \in ThreadType
    BY DEF Shaped
  <1> DEFINE a == Rest(t)
             r == [thread[t] EXCEPT !.todo = a]
  <1>2. At(t, "verdicts") \/ At(t, "clear")
    BY <1>1 DEF AskVerdicts, Clear
  <1>3. thread' = [thread EXCEPT ![t] = r]
    BY <1>1 DEF AskVerdicts, Clear
  <1>4. /\ Proper(t, a) /\ a # <<>>
        /\ At(t, "verdicts") => Head(a) = "emit"
        /\ At(t, "clear") => Head(a) \in {"verdicts", "emit"}
    BY <1>2, RestProper DEF Follows, At
  <1> HIDE DEF a
  <1>5. Head(a) \in {"verdicts", "emit"}
    BY <1>2, <1>4
  <1>6. /\ r \in ThreadType /\ r.todo = a /\ r.outcome = thread[t].outcome
        /\ r.call = thread[t].call /\ r.tool = thread[t].tool /\ r.sent = thread[t].sent
        /\ r.alone = thread[t].alone /\ r.rendered = thread[t].rendered
    BY <1>0, <1>4 DEF ThreadType, Proper
  <1> HIDE DEF r
  <1>7. OnlyMoves(t) /\ thread'[t] = r
    BY <1>0, <1>3, <1>6, OneMoves
  <1>8. Tidy(t)'
    BY <1>4, <1>5, <1>6, <1>7 DEF Tidy, At, Busy, Proper
  <1>9. (AskVerdicts(t) => At(t, "verdicts")) /\ (Clear(t) => At(t, "clear"))
    BY DEF AskVerdicts, Clear
  <1> QED  BY <1>4, <1>6, <1>7, <1>8, <1>9 DEF GoesOn, SameRecord, a

LEMMA JoinMoves ==
    ASSUME Shaped, log \in Seq(Nat), NEW t \in Threads, Join(t)
    PROVE  /\ OnlyMoves(t) /\ Tidy(t)' /\ thread'[t].rendered = log
           /\ thread'[t].todo # <<>> /\ Head(thread'[t].todo) \in {"clear", "verdicts", "emit"}
           /\ thread'[t].call = thread[t].call /\ thread'[t].tool = thread[t].tool
           /\ thread'[t].sent = thread[t].sent /\ thread'[t].alone = thread[t].alone
           /\ thread'[t].outcome = thread[t].outcome
           /\ thread'[t].todo # thread[t].todo
  <1>0. /\ thread \in [Threads -> ThreadType] /\ thread[t] \in ThreadType
        /\ Len(thread[t].todo) \in Nat
    BY DEF Shaped, ThreadType
  <1> DEFINE a == IF log = <<>> THEN Tail(Rest(t)) ELSE Rest(t)
             r == [thread[t] EXCEPT !.todo = a, !.rendered = log]
  <1>1. thread' = [thread EXCEPT ![t] = r]
    BY DEF Join
  <1>2. Busy(t) /\ Head(thread[t].todo) = "join"
    BY DEF Join, At
  <1>3. /\ Rest(t) # <<>> /\ Head(Rest(t)) = "clear" /\ Proper(t, Rest(t))
        /\ Proper(t, Tail(Rest(t))) /\ Tail(Rest(t)) # <<>>
        /\ Head(Tail(Rest(t))) \in {"verdicts", "emit"}
        /\ Len(Rest(t)) = Len(thread[t].todo) - 1
        /\ Len(Tail(Rest(t))) = Len(thread[t].todo) - 2
    BY <1>2, RestProper, RestTwoProper DEF Follows
  <1>4. Proper(t, a) /\ a # <<>> /\ Head(a) \in {"clear", "verdicts", "emit"}
        /\ a # thread[t].todo
    <2>1. Rest(t) # thread[t].todo /\ Tail(Rest(t)) # thread[t].todo
      BY <1>0, <1>3
    <2>2. CASE log = <<>>
      BY <2>1, <2>2, <1>3
    <2>3. CASE log # <<>>
      BY <2>1, <2>3, <1>3
    <2> QED  BY <2>2, <2>3
  <1> HIDE DEF a
  <1>6. /\ r \in ThreadType /\ r.todo = a /\ r.outcome = thread[t].outcome
        /\ r.call = thread[t].call /\ r.tool = thread[t].tool /\ r.sent = thread[t].sent
        /\ r.alone = thread[t].alone /\ r.rendered = log
    BY <1>0, <1>4 DEF ThreadType, Proper
  <1> HIDE DEF r
  <1>7. OnlyMoves(t) /\ thread'[t] = r
    BY <1>0, <1>1, <1>6, OneMoves
  <1>8. Tidy(t)'
    BY <1>4, <1>6, <1>7 DEF Tidy, At, Busy, Proper
  <1> QED  BY <1>4, <1>6, <1>7, <1>8

LEMMA EmitMoves ==
    ASSUME Shaped, NEW t \in Threads, Emit(t)
    PROVE  OnlyMoves(t) /\ Tidy(t)' /\ thread'[t] = Idle
  <1>1. thread' = [thread EXCEPT ![t] = Idle] /\ thread \in [Threads -> ThreadType]
    BY DEF Emit, Shaped
  <1>2. OnlyMoves(t) /\ thread'[t] = Idle
    BY <1>1, IdleType, OneMoves
  <1>3. <<>> \in Seq(ReadSteps)
    OBVIOUS
  <1>4. Tidy(t)'
    BY <1>2, <1>3, IdleType DEF Tidy, At, Busy
  <1> QED  BY <1>2, <1>4

\* What t puts before the steps it has left.
LEMMA ReadFirst ==
    ASSUME Shaped, NEW t \in Threads, NEW s, Proper(t, s), s # <<>>, Head(s) \in {"walk", "qualify"},
           thread' = [thread EXCEPT ![t].todo = s]
    PROVE  OnlyMoves(t) /\ Tidy(t)' /\ GoesOn(t, s)
  <1>0. thread \in [Threads -> ThreadType] /\ thread[t] \in ThreadType
    BY DEF Shaped
  <1> DEFINE r == [thread[t] EXCEPT !.todo = s]
  <1>1. thread' = [thread EXCEPT ![t] = r]
    OBVIOUS
  <1>6. /\ r \in ThreadType /\ r.todo = s /\ r.outcome = thread[t].outcome
        /\ r.call = thread[t].call /\ r.tool = thread[t].tool /\ r.sent = thread[t].sent
        /\ r.alone = thread[t].alone /\ r.rendered = thread[t].rendered
    BY <1>0 DEF ThreadType, Proper
  <1> HIDE DEF r
  <1>7. OnlyMoves(t) /\ thread'[t] = r
    BY <1>0, <1>1, <1>6, OneMoves
  <1>8. Tidy(t)'
    BY <1>6, <1>7 DEF Tidy, At, Busy, Proper
  <1> QED  BY <1>6, <1>7, <1>8 DEF GoesOn, SameRecord

\* What a step of the allowlist has found, in the names it was given.
Judged(t, step, known) ==
    /\ GoesOn(t, After(t)) /\ AtStep(t, step)
    /\ step = "qualify" => Matches(thread[t].name, known) \subseteq {thread'[t].name}
    /\ step = "member" => thread[t].name \in known

\* t has put a read before the steps it has left.
Reading(t) ==
    \E s : /\ GoesOn(t, s) /\ s # <<>> /\ Head(s) \in {"walk", "qualify"}
          /\ Len(s) > Len(thread[t].todo)

LEMMA LookMoves ==
    ASSUME Shaped, NEW t \in Threads, Look(t)
    PROVE  /\ OnlyMoves(t) /\ Tidy(t)'
           /\ \/ Fails(t)
              \/ Reading(t)
              \/ /\ catalog # Nothing /\ Fresh(catalog.stamp)
                 /\ \E step \in {"qualify", "member"} : At(t, step) /\ Judged(t, step, catalog.names)
  <1>1. PICK step \in {"qualify", "member"} : At(t, step)
    BY DEF Look
  <1>2. Head(thread[t].todo) = step /\ Busy(t) /\ AtStep(t, step)
    BY <1>1 DEF At, AtStep
  <1>3. CASE catalog # Nothing /\ Fresh(catalog.stamp)
    <2>1. Judge(t, step, catalog.names)
      BY <1>2, <1>3 DEF Look
    <2>2. catalog.names \in SUBSET Names
      BY <1>3 DEF Shaped
    <2>3. /\ OnlyMoves(t) /\ Tidy(t)'
          /\ Fails(t) \/ Judged(t, step, catalog.names)
      BY <1>2, <2>1, <2>2, JudgeMoves DEF Judged
    <2> QED  BY <1>1, <1>3, <2>3
  <1>4. CASE ~(catalog # Nothing /\ Fresh(catalog.stamp))
    <2> DEFINE s == thread[t].todo
               r == <<"walk", "fill">> \o s
    <2>1. thread' = [thread EXCEPT ![t].todo = r]
      BY <1>4 DEF Look
    <2>2. /\ s \in Seq(Steps) /\ Linked(s) /\ s # <<>> /\ Len(s) \in Nat
          /\ t \notin Callers => s \in Seq(ReadSteps)
          /\ Head(s) \in {"qualify", "member"}
      BY <1>2 DEF Shaped, Tidy, ThreadType, Busy
    <2>0. {"walk", "fill"} \subseteq ReadSteps /\ {"walk", "fill"} \subseteq Steps
      BY DEF Steps, ReadSteps
    <2> HIDE DEF s
    <2>3. r \in Seq(Steps) /\ r # <<>> /\ Linked(r) /\ Head(r) = "walk" /\ Len(r) = Len(s) + 2
      BY <2>0, <2>2, LinkedWalk
    <2>4. t \notin Callers => r \in Seq(ReadSteps)
      BY <2>0, <2>2, LinkedWalk
    <2> HIDE DEF r
    <2>5. OnlyMoves(t) /\ Tidy(t)' /\ GoesOn(t, r)
      BY <2>1, <2>3, <2>4, ReadFirst DEF Proper
    <2>6. Len(r) > Len(s)
      BY <2>2, <2>3
    <2>7. Reading(t)
      BY <2>3, <2>5, <2>6 DEF Reading, s
    <2> QED  BY <2>5, <2>7
  <1> QED  BY <1>3, <1>4

LEMMA FillMoves ==
    ASSUME Shaped, NEW t \in Threads, Fill(t)
    PROVE  /\ OnlyMoves(t) /\ Tidy(t)'
           /\ \/ Fails(t)
              \/ \E step \in {"qualify", "member"} :
                    Head(Rest(t)) = step /\ Judged(t, step, thread[t].known)
  <1> DEFINE step == Head(Rest(t))
  <1>1. At(t, "fill") /\ Busy(t) /\ Judge(t, step, thread[t].known)
    BY DEF Fill, At
  <1>2. step \in {"qualify", "member"}
    <2>1. Head(thread[t].todo) = "fill"
      BY <1>1 DEF At
    <2> QED  BY <1>1, <2>1, RestTwoProper DEF Follows
  <1>3. AtStep(t, step)
    BY <1>1 DEF AtStep
  <1>4. thread[t].known \in SUBSET Names
    BY DEF Shaped, ThreadType
  <1>5. step = Head(Rest(t))
    OBVIOUS
  <1> HIDE DEF step
  <1>6. /\ OnlyMoves(t) /\ Tidy(t)'
        /\ Fails(t) \/ Judged(t, step, thread[t].known)
    BY <1>1, <1>2, <1>3, <1>4, JudgeMoves DEF Judged
  <1> QED  BY <1>2, <1>5, <1>6

LEMMA LookUpMoves ==
    ASSUME Shaped, NEW t \in Threads, LookUpSchema(t)
    PROVE  /\ OnlyMoves(t) /\ Tidy(t)' /\ At(t, "schema")
           /\ \/ Fails(t)
              \/ Reading(t)
              \/ /\ schemas[thread[t].name] # Nothing /\ Fresh(schemas[thread[t].name].stamp)
                 /\ GoesOn(t, After(t)) /\ thread[t].column \in schemas[thread[t].name].cols
  <1> DEFINE cached == schemas[thread[t].name]
  <1>1. At(t, "schema") /\ Busy(t) /\ AtStep(t, "schema") /\ Head(thread[t].todo) = "schema"
    BY DEF LookUpSchema, At, AtStep
  <1>3. CASE cached # Nothing /\ Fresh(cached.stamp)
    <2>1. RequireColumn(t, cached.cols)
      BY <1>3 DEF LookUpSchema
    <2> HIDE DEF cached
    <2>2. /\ OnlyMoves(t) /\ Tidy(t)'
          /\ Fails(t) \/ (GoesOn(t, After(t)) /\ thread[t].column \in cached.cols)
      BY <1>1, <2>1, RequireColumnMoves
    <2> QED  BY <1>1, <1>3, <2>2 DEF cached
  <1>4. CASE ~(cached # Nothing /\ Fresh(cached.stamp))
    <2> DEFINE s == thread[t].todo
               r == Reads.get_schema \o <<"store">> \o s
    <2>1. thread' = [thread EXCEPT ![t].todo = r]
      BY <1>4 DEF LookUpSchema
    <2>2. /\ s \in Seq(Steps) /\ Linked(s) /\ s # <<>> /\ Len(s) \in Nat
          /\ t \notin Callers => s \in Seq(ReadSteps)
          /\ Head(s) = "schema"
      BY <1>1 DEF Shaped, Tidy, ThreadType, Busy
    <2>0. ReadSteps \subseteq ReadSteps /\ ReadSteps \subseteq Steps
      BY DEF Steps
    <2> HIDE DEF s
    <2>3. r \in Seq(Steps) /\ r # <<>> /\ Linked(r) /\ Head(r) = "qualify" /\ Len(r) = Len(s) + 4
      BY <2>0, <2>2, LinkedSchema
    <2>4. t \notin Callers => r \in Seq(ReadSteps)
      BY <2>0, <2>2, LinkedSchema
    <2> HIDE DEF r
    <2>5. OnlyMoves(t) /\ Tidy(t)' /\ GoesOn(t, r)
      BY <2>1, <2>3, <2>4, ReadFirst DEF Proper
    <2>6. Len(r) > Len(s)
      BY <2>2, <2>3
    <2>7. Reading(t)
      BY <2>3, <2>5, <2>6 DEF Reading, s
    <2> QED  BY <1>1, <2>5, <2>7
  <1> QED  BY <1>3, <1>4

LEMMA StoreMoves ==
    ASSUME Shaped, NEW t \in Threads, StoreSchema(t)
    PROVE  /\ OnlyMoves(t) /\ Tidy(t)' /\ At(t, "store") /\ Head(Rest(t)) = "schema"
           /\ \/ Fails(t)
              \/ GoesOn(t, After(t)) /\ thread[t].column \in thread[t].cols
  <1>1. /\ At(t, "store") /\ Busy(t) /\ Head(thread[t].todo) = "store"
        /\ RequireColumn(t, thread[t].cols)
    BY DEF StoreSchema, At
  <1>2. Head(Rest(t)) = "schema"
    BY <1>1, RestTwoProper DEF Follows
  <1>3. AtStep(t, "schema")
    BY <1>1, <1>2 DEF AtStep
  <1> QED  BY <1>1, <1>2, <1>3, RequireColumnMoves

\* Every step of a thread is its own, and keeps it tidy.
LEMMA StepMoves ==
    ASSUME Shaped, log \in Seq(Nat), NEW t \in Threads, Step(t)
    PROVE  OnlyMoves(t) /\ Tidy(t)'
  <1>1. CASE Send(t)
    BY <1>1, SendMoves
  <1>2. CASE SendFails(t)
    BY <1>2, GiveUpMoves DEF SendFails
  <1>3. CASE AskVerdicts(t) \/ Clear(t)
    BY <1>3, RecordMoves
  <1>4. CASE Look(t)
    BY <1>4, LookMoves
  <1>5. CASE Fill(t)
    BY <1>5, FillMoves
  <1>6. CASE LookUpSchema(t)
    BY <1>6, LookUpMoves
  <1>7. CASE StoreSchema(t)
    BY <1>7, StoreMoves
  <1>8. CASE Join(t)
    BY <1>8, JoinMoves
  <1>9. CASE Emit(t)
    BY <1>9, EmitMoves
  <1> QED  BY <1>1, <1>2, <1>3, <1>4, <1>5, <1>6, <1>7, <1>8, <1>9 DEF Step

-----------------------------------------------------------------------------
(* Types *)

\* Statements and records name calls begun, and a thread in a call has one.
Numbered ==
    /\ log \in Seq(1..calls)
    /\ \A t \in Threads : /\ thread[t].call \in 0..calls
                          /\ thread[t].rendered \in Seq(1..calls)
                          /\ Busy(t) => thread[t].call # 0
    /\ \A r \in trail : r.call \in 1..calls /\ r.sql \in Seq(1..calls)

\* A step that moves nothing but its thread, and caches what it has.
LEMMA StepShaped ==
    ASSUME Shaped, log \in Seq(Nat), NEW t \in Threads, Step(t)
    PROVE  Shaped' /\ now' = now /\ upstream' = upstream /\ calls' = calls /\ during' = during
  <1>1. OnlyMoves(t) /\ Tidy(t)'
    BY StepMoves
  <1>2. now' = now /\ upstream' = upstream /\ calls' = calls /\ during' = during
    BY DEF Step, Send, SendFails, AskVerdicts, Look, Fill, LookUpSchema, StoreSchema, Join,
           Clear, Emit, world
  <1>0. now \in Nat /\ thread[t] \in ThreadType
    BY ToolCallsAssumption DEF Shaped
  <1>3. catalog' # Nothing => catalog' \in [names : SUBSET Names, stamp : 0..now]
    <2>1. CASE Fill(t)
      <3>1. catalog' = [names |-> thread[t].known, stamp |-> now]
        BY <2>1 DEF Fill
      <3> QED  BY <1>0, <3>1 DEF ThreadType
    <2>2. CASE ~Fill(t)
      <3>1. catalog' = catalog
        BY <2>2 DEF Step, Send, SendFails, AskVerdicts, Look, LookUpSchema, StoreSchema, Join,
                    Clear, Emit, caches
      <3> QED  BY <3>1 DEF Shaped
    <2> QED  BY <2>1, <2>2
  <1>4. schemas' \in [Names -> {Nothing} \cup [cols : SUBSET Columns, stamp : 0..now]]
    <2>1. CASE StoreSchema(t)
      <3>1. schemas' = [schemas EXCEPT ![thread[t].name] = [cols |-> thread[t].cols, stamp |-> now]]
        BY <2>1 DEF StoreSchema
      <3>2. [cols |-> thread[t].cols, stamp |-> now] \in [cols : SUBSET Columns, stamp : 0..now]
        BY <1>0 DEF ThreadType
      <3> QED  BY <3>1, <3>2 DEF Shaped
    <2>2. CASE ~StoreSchema(t)
      <3>1. schemas' = schemas
        BY <2>2 DEF Step, Send, SendFails, AskVerdicts, Look, LookUpSchema, Fill, Join,
                    Clear, Emit, caches
      <3> QED  BY <3>1 DEF Shaped
    <2> QED  BY <2>1, <2>2
  <1> QED  BY <1>1, <1>2, <1>3, <1>4, TidyShaped DEF Shaped

\* The world changes, and no thread.
LEMMA WorldShaped ==
    ASSUME Shaped, ChangeUpstream \/ Tick
    PROVE  Shaped'
  <1>0. now \in Nat /\ MaxTime \in Nat
    BY ToolCallsAssumption DEF Shaped
  <1>1. /\ catalog' = catalog /\ schemas' = schemas /\ thread' = thread /\ calls' = calls
    BY DEF ChangeUpstream, Tick, caches
  <1>2. now' \in 0..MaxTime /\ now' >= now /\ now' \in Nat
    <2>1. CASE ChangeUpstream
      BY <2>1, <1>0 DEF ChangeUpstream, Shaped
    <2>2. CASE Tick
      BY <2>2, <1>0 DEF Tick, Shaped
    <2> QED  BY <2>1, <2>2
  <1>3. upstream' \in Catalogs
    <2>1. CASE ChangeUpstream
      BY <2>1 DEF ChangeUpstream, Shaped, Catalogs
    <2>2. CASE Tick
      BY <2>2 DEF Tick, Shaped
    <2> QED  BY <2>1, <2>2
  <1>4. 0..now \subseteq 0..now'
    BY <1>0, <1>2
  <1>5. catalog' # Nothing => catalog' \in [names : SUBSET Names, stamp : 0..now']
    BY <1>1, <1>4 DEF Shaped
  <1>6. schemas' \in [Names -> {Nothing} \cup [cols : SUBSET Columns, stamp : 0..now']]
    <2>1. [cols : SUBSET Columns, stamp : 0..now] \subseteq [cols : SUBSET Columns, stamp : 0..now']
      BY <1>4
    <2> QED  BY <1>1, <2>1 DEF Shaped
  <1>7. \A t \in Threads : Tidy(t)'
    BY <1>1 DEF Shaped, Tidy, At, Busy
  <1> QED  BY <1>1, <1>2, <1>3, <1>5, <1>6, <1>7 DEF Shaped

\* What lists of numbers up to m are, they are up to n.
LEMMA MoreNumbers ==
    ASSUME NEW m \in Nat, NEW n \in Nat, m <= n, NEW s \in Seq(1..m)
    PROVE  s \in Seq(1..n)
  <1>1. 1..m \subseteq 1..n
    OBVIOUS
  <1> QED  BY <1>1

\* The list is of numbers.
LEMMA LogOfNumbers ==
    ASSUME Shaped, Numbered
    PROVE  calls \in Nat /\ log \in Seq(1..calls) /\ log \in Seq(Nat)
  <1>1. log \in Seq(1..calls) /\ calls \in Nat
    BY DEF Numbered, Shaped
  <1>2. 1..calls \subseteq Nat
    BY <1>1
  <1> QED  BY <1>1, <1>2

LEMMA InitNumbered == Init => Numbered
  <1> SUFFICES ASSUME Init PROVE Numbered
    OBVIOUS
  <1>1. \A t \in Threads : /\ thread[t].call = 0 /\ thread[t].rendered = <<>>
                           /\ thread[t].todo = <<>>
    BY DEF Init, Idle
  <1>2. <<>> \in Seq(1..calls)
    OBVIOUS
  <1>3. calls = 0 /\ log = <<>> /\ trail = {} /\ 0 \in 0..0
    BY DEF Init
  <1> QED  BY <1>1, <1>2, <1>3 DEF Numbered, Busy

LEMMA BeginNumbered ==
    ASSUME Shaped, Numbered, NEW t \in Threads, CallTool(t) \/ ScanReads(t)
    PROVE  Numbered'
  <1>1. PICK steps, tool, name, column : Begin(t, steps, tool, name, column)
    BY DEF CallTool, ScanReads
  <1>2. /\ calls' = calls + 1 /\ calls \in Nat /\ calls' \in Nat /\ calls <= calls'
        /\ log' = log /\ trail' = trail
    <2>1. calls' = calls + 1 /\ log' = log /\ trail' = trail
      BY <1>1 DEF Begin
    <2> QED  BY <2>1 DEF Shaped
  <1>3. thread'[t].call = calls' /\ thread'[t].rendered = <<>>
    BY <1>1 DEF Begin, Idle
  <1>4. ASSUME NEW u \in Threads, u # t
        PROVE  /\ thread'[u].call = thread[u].call /\ thread'[u].rendered = thread[u].rendered
               /\ thread'[u].todo = thread[u].todo
    <2>1. thread'[u] = [thread[u] EXCEPT !.alone = @ /\ ~(t \in Callers /\ u \in Callers /\ Busy(u))]
      BY <1>1, <1>4 DEF Begin
    <2>2. thread[u] \in ThreadType
      BY DEF Shaped
    <2> QED  BY <2>1, <2>2 DEF ThreadType
  <1>5. log' \in Seq(1..calls')
    BY <1>2, MoreNumbers DEF Numbered
  <1>6. ASSUME NEW r \in trail' PROVE r.call \in 1..calls' /\ r.sql \in Seq(1..calls')
    BY <1>2, MoreNumbers DEF Numbered
  <1>7. ASSUME NEW u \in Threads
        PROVE  /\ thread'[u].call \in 0..calls' /\ thread'[u].rendered \in Seq(1..calls')
               /\ thread'[u].todo # <<>> => thread'[u].call # 0
    <2>1. CASE u = t
      BY <2>1, <1>2, <1>3
    <2>2. CASE u # t
      <3>1. thread[u].call \in 0..calls /\ thread[u].rendered \in Seq(1..calls)
            /\ (thread[u].todo # <<>> => thread[u].call # 0)
        BY DEF Numbered, Busy
      <3> QED  BY <3>1, <2>2, <1>2, <1>4, MoreNumbers
    <2> QED  BY <2>1, <2>2
  <1> QED  BY <1>5, <1>6, <1>7 DEF Numbered, Busy

\* How a step leaves its thread's number, what it took for its record, and the list.
LEMMA StepFields ==
    ASSUME Shaped, log \in Seq(Nat), NEW t \in Threads, Step(t)
    PROVE  /\ \/ thread'[t].call = thread[t].call
              \/ thread'[t] = Idle
           /\ thread'[t].rendered \in {<<>>, thread[t].rendered, log}
           /\ log' \in {log, <<>>, Append(log, thread[t].call)}
  <1>0. Idle.rendered = <<>>
    BY DEF Idle
  <1>1. CASE Send(t)
    BY <1>1, SendMoves DEF Send, Sent
  <1>2. CASE SendFails(t)
    <2>1. Fails(t) /\ log' = Append(log, thread[t].call)
      BY <1>2, GiveUpMoves DEF SendFails, Sent
    <2> QED  BY <1>0, <2>1 DEF Fails, SameRecord
  <1>3. CASE AskVerdicts(t)
    <2>1. GoesOn(t, Rest(t)) /\ log' \in {log, Append(log, thread[t].call)}
      BY <1>3, RecordMoves DEF AskVerdicts, Sent
    <2> QED  BY <2>1 DEF GoesOn, SameRecord
  <1>4. CASE Clear(t)
    <2>1. GoesOn(t, Rest(t)) /\ log' = <<>>
      BY <1>4, RecordMoves DEF Clear
    <2> QED  BY <2>1 DEF GoesOn, SameRecord
  <1>5. CASE Look(t)
    <2>1. log' = log
      BY <1>5 DEF Look
    <2> QED  BY <1>0, <1>5, <2>1, LookMoves DEF Fails, Reading, Judged, GoesOn, SameRecord
  <1>6. CASE Fill(t)
    <2>1. log' = log
      BY <1>6 DEF Fill
    <2> QED  BY <1>0, <1>6, <2>1, FillMoves DEF Fails, Judged, GoesOn, SameRecord
  <1>7. CASE LookUpSchema(t)
    <2>1. log' = log
      BY <1>7 DEF LookUpSchema
    <2> QED  BY <1>0, <1>7, <2>1, LookUpMoves DEF Fails, Reading, GoesOn, SameRecord
  <1>8. CASE StoreSchema(t)
    <2>1. log' = log
      BY <1>8 DEF StoreSchema
    <2> QED  BY <1>0, <1>8, <2>1, StoreMoves DEF Fails, GoesOn, SameRecord
  <1>9. CASE Join(t)
    BY <1>9, JoinMoves DEF Join
  <1>10. CASE Emit(t)
    BY <1>0, <1>10, EmitMoves DEF Emit
  <1> QED  BY <1>1, <1>2, <1>3, <1>4, <1>5, <1>6, <1>7, <1>8, <1>9, <1>10 DEF Step

LEMMA StepNumbered ==
    ASSUME Shaped, Numbered, NEW t \in Threads, Step(t)
    PROVE  Numbered'
  <1>0. /\ calls \in Nat /\ log \in Seq(Nat) /\ log \in Seq(1..calls) /\ Busy(t)
        /\ thread[t].call \in 1..calls /\ thread[t].rendered \in Seq(1..calls)
        /\ <<>> \in Seq(1..calls)
    <2>1. calls \in Nat /\ log \in Seq(1..calls) /\ log \in Seq(Nat)
      BY LogOfNumbers
    <2>3. Busy(t)
      BY DEF Step, Send, SendFails, AskVerdicts, Look, Fill, LookUpSchema, StoreSchema, Join,
             Clear, Emit, At
    <2>4. thread[t].call \in 1..calls /\ thread[t].rendered \in Seq(1..calls)
      BY <2>1, <2>3 DEF Numbered
    <2> QED  BY <2>1, <2>3, <2>4
  <1>1. calls' = calls /\ OnlyMoves(t)
    BY <1>0, StepShaped, StepMoves
  <1>2. /\ thread'[t].call = thread[t].call \/ thread'[t] = Idle
        /\ thread'[t].rendered \in {<<>>, thread[t].rendered, log}
        /\ log' \in {log, <<>>, Append(log, thread[t].call)}
    BY <1>0, StepFields
  <1>3. log' \in Seq(1..calls)
    <2>1. Append(log, thread[t].call) \in Seq(1..calls)
      BY <1>0
    <2> QED  BY <1>0, <1>2, <2>1
  <1>4. thread'[t].rendered \in Seq(1..calls)
    BY <1>0, <1>2
  <1>5. /\ thread'[t].call \in 0..calls
        /\ thread'[t].todo # <<>> => thread'[t].call # 0
    <2>1. Idle.call = 0 /\ Idle.todo = <<>>
      BY DEF Idle
    <2> QED  BY <1>0, <1>2, <2>1
  <1>6. ASSUME NEW r \in trail' PROVE r.call \in 1..calls /\ r.sql \in Seq(1..calls)
    <2>1. CASE r \in trail
      BY <2>1 DEF Numbered
    <2>2. CASE r \notin trail
      <3>1. Emit(t)
        BY <1>6, <2>2 DEF Step, Send, SendFails, AskVerdicts, Look, Fill, LookUpSchema,
                          StoreSchema, Join, Clear
      <3>2. r = [call |-> thread[t].call, tool |-> thread[t].tool, outcome |-> thread[t].outcome,
                 sql |-> thread[t].rendered, sent |-> thread[t].sent, alone |-> thread[t].alone]
        BY <1>6, <2>2, <3>1 DEF Emit
      <3> QED  BY <1>0, <3>2
    <2> QED  BY <2>1, <2>2
  <1>7. ASSUME NEW u \in Threads
        PROVE  /\ thread'[u].call \in 0..calls /\ thread'[u].rendered \in Seq(1..calls)
               /\ thread'[u].todo # <<>> => thread'[u].call # 0
    <2>1. CASE u = t
      BY <2>1, <1>4, <1>5
    <2>2. CASE u # t
      BY <2>2, <1>1 DEF OnlyMoves, Numbered, Busy
    <2> QED  BY <2>1, <2>2
  <1> QED  BY <1>1, <1>3, <1>6, <1>7 DEF Numbered, Busy

\* Shaped and Numbered together are inductive.
LEMMA NextNumbered ==
    ASSUME Shaped, Numbered, [Next]_vars
    PROVE  Shaped' /\ Numbered'
  <1>0. log \in Seq(Nat)
    BY LogOfNumbers
  <1>1. CASE \E t \in Threads : CallTool(t) \/ ScanReads(t)
    BY <1>1, BeginShaped, BeginNumbered
  <1>2. CASE \E t \in Threads : Step(t)
    BY <1>0, <1>2, StepShaped, StepNumbered
  <1>3. CASE ChangeUpstream \/ Tick
    <2>1. Shaped'
      BY <1>3, WorldShaped
    <2>2. log' = log /\ thread' = thread /\ trail' = trail /\ calls' = calls
      BY <1>3 DEF ChangeUpstream, Tick
    <2>3. Numbered'
      BY <2>2 DEF Numbered, Busy
    <2> QED  BY <2>1, <2>3
  <1>4. CASE UNCHANGED vars
    <2>1. /\ log' = log /\ thread' = thread /\ trail' = trail /\ calls' = calls
          /\ now' = now /\ upstream' = upstream /\ catalog' = catalog /\ schemas' = schemas
      BY <1>4 DEF vars
    <2>2. Numbered'
      BY <2>1 DEF Numbered, Busy
    <2>3. Shaped'
      BY <2>1 DEF Shaped, Tidy, At, Busy
    <2> QED  BY <2>2, <2>3
  <1> QED  BY <1>1, <1>2, <1>3, <1>4 DEF Next

LEMMA AlwaysNumbered == Spec => [](Shaped /\ Numbered)
  <1>1. Init => Shaped /\ Numbered
    BY InitShaped, InitNumbered
  <1>2. Shaped /\ Numbered /\ [Next]_vars => (Shaped /\ Numbered)'
    BY NextNumbered
  <1> QED  BY <1>1, <1>2, PTL DEF Spec

\* The types: what is cached is of the source's names and columns and stamped
\* no later than now, and every statement and record is of a call begun.
THEOREM CallsTyped == Spec => []TypeOK
  <1>1. Shaped /\ Numbered => TypeOK
    <2> SUFFICES ASSUME Shaped, Numbered PROVE TypeOK
      OBVIOUS
    <2>1. \A t \in Threads : /\ thread[t].call \in 0..calls
                             /\ thread[t].known \subseteq Names
                             /\ thread[t].cols \subseteq Columns
      <3> SUFFICES ASSUME NEW t \in Threads
                   PROVE  /\ thread[t].call \in 0..calls
                          /\ thread[t].known \subseteq Names
                          /\ thread[t].cols \subseteq Columns
        OBVIOUS
      <3>1. thread[t] \in ThreadType /\ thread[t].call \in 0..calls
        BY DEF Shaped, Numbered
      <3> QED  BY <3>1 DEF ThreadType
    <2> QED  BY <2>1 DEF TypeOK, Shaped, Numbered
  <1> QED  BY <1>1, AlwaysNumbered, PTL

-----------------------------------------------------------------------------
(* What is read, and when *)

\* What t has read of the catalog, or of a container's columns, was there when it
\* was read, no more than ReadTime ago.
ReadOfLate(t) ==
    /\ At(t, "fill") =>
          /\ thread[t].readAt <= now /\ now - thread[t].readAt <= ReadTime
          /\ \E u \in during[thread[t].readAt] : thread[t].known = There(u)
    /\ At(t, "store") =>
          /\ thread[t].readAt <= now /\ now - thread[t].readAt <= ReadTime
          /\ \E u \in during[thread[t].readAt] :
                thread[t].name \in There(u) /\ thread[t].cols = u[thread[t].name]

\* What is cached was there no more than ReadTime before it was stamped, as far as
\* that is still of interest.
CatalogOfLate ==
    catalog # Nothing =>
        \E x \in 0..catalog.stamp :
           /\ catalog.stamp - x <= ReadTime
           /\ now - x < Window => \E u \in during[x] : catalog.names = There(u)

SchemaOfLate(n) ==
    schemas[n] # Nothing =>
        \E x \in 0..schemas[n].stamp :
           /\ schemas[n].stamp - x <= ReadTime
           /\ now - x < Window =>
                 \E u \in during[x] : n \in There(u) /\ schemas[n].cols = u[n]

OfLate ==
    /\ during \in [0..MaxTime -> SUBSET Catalogs] /\ upstream \in during[now]
    /\ \A t \in Threads : ReadOfLate(t)
    /\ CatalogOfLate
    /\ \A n \in Names : SchemaOfLate(n)

LEMMA Times ==
    ASSUME Shaped
    PROVE  /\ now \in Nat /\ MaxTime \in Nat /\ now \in 0..MaxTime /\ Ttl \in Nat \ {0}
           /\ ReadTime \in Nat /\ Window \in Nat /\ Window = Ttl + ReadTime
  BY ToolCallsAssumption DEF Shaped, Window

\* What was fresh a moment ago was read in the window.
LEMMA FreshIsRecent ==
    ASSUME Shaped, NEW stamp \in 0..now, NEW x \in 0..stamp, stamp - x <= ReadTime, Fresh(stamp)
    PROVE  now - x < Window /\ x \in 0..now /\ \A u \in during[x] : u \in Recent
  <1>1. now - x < Window /\ x \in 0..now
    BY Times DEF Fresh
  <1> QED  BY <1>1 DEF Recent

LEMMA ReadIsRecent ==
    ASSUME Shaped, NEW x \in Nat, x <= now, now - x <= ReadTime
    PROVE  now - x < Window /\ x \in 0..now /\ \A u \in during[x] : u \in Recent
  <1>1. now - x < Window /\ x \in 0..now
    BY Times
  <1> QED  BY <1>1 DEF Recent

\* A step that fails passes nothing.
LEMMA FailsPassesNot ==
    ASSUME Shaped, NEW t \in Threads, NEW step \in {"qualify", "member", "schema"},
           Fails(t), AtStep(t, step)
    PROVE  thread'[t].todo # After(t)
  <1>1. After(t) # <<>> /\ Follows(step, Head(After(t)))
    BY AfterProper DEF AtStep
  <1>2. CASE t \in Callers
    <2>1. Head(thread'[t].todo) = "emit"
      BY <1>2, EmitLinked DEF Fails
    <2> QED  BY <1>1, <2>1 DEF Follows
  <1>3. CASE t \notin Callers
    BY <1>1, <1>3 DEF Fails, Idle
  <1> QED  BY <1>2, <1>3

\* A thread that does not move passes nothing.
LEMMA RestsPassesNot ==
    ASSUME Shaped, NEW t \in Threads, NEW step \in {"qualify", "member", "schema"},
           thread'[t].todo = thread[t].todo
    PROVE  ~Passes(t, step)
  <1>1. SUFFICES ASSUME Passes(t, step) PROVE FALSE
    OBVIOUS
  <1>2. After(t) # thread[t].todo /\ thread'[t].todo = After(t)
    BY <1>1, AfterProper DEF Passes
  <1> QED  BY <1>2

\* Which step of the allowlist a thread passes.
LEMMA OneStep ==
    ASSUME Shaped, NEW t \in Threads, NEW step \in {"qualify", "member", "schema"}, AtStep(t, step)
    PROVE  /\ \A other \in {"qualify", "member", "schema"} : At(t, other) => step = other
           /\ At(t, "fill") => Head(Rest(t)) = step /\ step # "schema"
           /\ At(t, "store") => step = "schema"
           /\ Head(thread[t].todo) \in {"qualify", "member", "schema", "fill", "store"}
  <1>1. CASE At(t, step)
    BY <1>1 DEF At
  <1>2. CASE ~At(t, step)
    <2>1. Head(thread[t].todo) \in {"fill", "store"} /\ Busy(t) /\ Head(Rest(t)) = step
      BY <1>2 DEF AtStep, At
    <2>2. Follows(Head(thread[t].todo), step)
      BY <2>1, RestTwoProper
    <2> QED  BY <2>1, <2>2 DEF At, Follows
  <1> QED  BY <1>1, <1>2

\* What each step of the allowlist rests on, if t passes it.
Timely(t) ==
    /\ Passes(t, "qualify") =>
          \E u \in Recent : Matches(thread[t].name, There(u)) \subseteq {thread'[t].name}
    /\ Passes(t, "member") => \E u \in Recent : thread[t].name \in There(u)
    /\ Passes(t, "schema") =>
          \E u \in Recent : /\ thread[t].name \in There(u)
                            /\ thread[t].column \in u[thread[t].name]

\* What t was let pass, it was let pass by what was there of late.
LEMMA JudgedTimely ==
    ASSUME Shaped, NEW t \in Threads, NEW step \in {"qualify", "member"}, NEW u \in Recent,
           Judged(t, step, There(u))
    PROVE  Timely(t)
  <1>1. ASSUME NEW other \in {"qualify", "member", "schema"}, Passes(t, other)
        PROVE  other = step
    <2>1. AtStep(t, other) /\ AtStep(t, step)
      BY <1>1 DEF Passes, AtStep, Judged
    <2>2. Head(thread[t].todo) \in {"qualify", "member", "schema", "fill", "store"}
      BY <2>1, OneStep
    <2>3. Busy(t)
      BY <2>1 DEF AtStep, At
    <2> QED  BY <2>1, <2>2, <2>3, OneStep DEF At
  <1> QED  BY <1>1 DEF Timely, Judged

LEMMA FailsTimely ==
    ASSUME Shaped, NEW t \in Threads, Fails(t)
    PROVE  Timely(t)
  <1>1. ASSUME NEW step \in {"qualify", "member", "schema"} PROVE ~Passes(t, step)
    BY FailsPassesNot DEF Passes, AtStep
  <1> QED  BY <1>1 DEF Timely

LEMMA ReadingTimely ==
    ASSUME Shaped, NEW t \in Threads, Reading(t)
    PROVE  Timely(t)
  <1>1. ASSUME NEW step \in {"qualify", "member", "schema"}, Passes(t, step) PROVE FALSE
    <2>1. PICK s : thread'[t].todo = s /\ Len(s) > Len(thread[t].todo)
      BY DEF Reading, GoesOn
    <2>2. thread'[t].todo = After(t) /\ Len(After(t)) < Len(thread[t].todo)
      BY <1>1, AfterProper DEF Passes
    <2>3. Len(thread[t].todo) \in Nat /\ Len(After(t)) \in Nat
      <3>1. After(t) \in Seq(Steps) /\ thread[t].todo \in Seq(Steps)
        BY <1>1, AfterProper DEF Passes, Proper, Shaped, ThreadType
      <3> QED  BY <3>1
    <2> QED  BY <2>1, <2>2, <2>3
  <1> QED  BY <1>1 DEF Timely

LEMMA LookTimely ==
    ASSUME Shaped, OfLate, NEW t \in Threads, Look(t)
    PROVE  Timely(t)
  <1>1. CASE Fails(t) \/ Reading(t)
    BY <1>1, FailsTimely, ReadingTimely
  <1>2. CASE ~(Fails(t) \/ Reading(t))
    <2>1. PICK step \in {"qualify", "member"} :
               /\ catalog # Nothing /\ Fresh(catalog.stamp)
               /\ Judged(t, step, catalog.names)
      BY <1>2, LookMoves
    <2>2. catalog.stamp \in 0..now
      BY <2>1 DEF Shaped
    <2>3. PICK x \in 0..catalog.stamp :
               /\ catalog.stamp - x <= ReadTime
               /\ now - x < Window => \E u \in during[x] : catalog.names = There(u)
      BY <2>1 DEF OfLate, CatalogOfLate
    <2>4. now - x < Window /\ \A u \in during[x] : u \in Recent
      BY <2>1, <2>2, <2>3, FreshIsRecent
    <2>5. PICK u \in Recent : catalog.names = There(u)
      BY <2>3, <2>4
    <2>6. Judged(t, step, There(u))
      BY <2>1, <2>5
    <2> QED  BY <2>6, JudgedTimely
  <1> QED  BY <1>1, <1>2

LEMMA FillTimely ==
    ASSUME Shaped, OfLate, NEW t \in Threads, Fill(t)
    PROVE  Timely(t)
  <1>1. CASE Fails(t)
    BY <1>1, FailsTimely
  <1>2. CASE ~Fails(t)
    <2>1. PICK step \in {"qualify", "member"} : Judged(t, step, thread[t].known)
      BY <1>2, FillMoves
    <2>2. /\ thread[t].readAt <= now /\ now - thread[t].readAt <= ReadTime
          /\ \E u \in during[thread[t].readAt] : thread[t].known = There(u)
      BY DEF Fill, OfLate, ReadOfLate
    <2>3. thread[t].readAt \in Nat
      BY DEF Shaped, ThreadType
    <2>4. \A u \in during[thread[t].readAt] : u \in Recent
      BY <2>2, <2>3, ReadIsRecent
    <2>5. PICK u \in Recent : thread[t].known = There(u)
      BY <2>2, <2>4
    <2>6. Judged(t, step, There(u))
      BY <2>1, <2>5
    <2> QED  BY <2>6, JudgedTimely
  <1> QED  BY <1>1, <1>2

\* What rests on a schema read or cached of late.
LEMMA SchemaTimely ==
    ASSUME Shaped, NEW t \in Threads, AtStep(t, "schema"), NEW u \in Recent,
           thread[t].name \in There(u), thread[t].column \in u[thread[t].name]
    PROVE  Timely(t)
  <1>1. ASSUME NEW other \in {"qualify", "member", "schema"}, Passes(t, other)
        PROVE  other = "schema"
    <2>1. AtStep(t, other) /\ Busy(t)
      BY <1>1 DEF Passes, AtStep, At
    <2>2. Head(thread[t].todo) \in {"qualify", "member", "schema", "fill", "store"}
      BY <2>1, OneStep
    <2> QED  BY <2>1, <2>2, OneStep DEF At
  <1> QED  BY <1>1 DEF Timely

LEMMA LookUpTimely ==
    ASSUME Shaped, OfLate, NEW t \in Threads, LookUpSchema(t)
    PROVE  Timely(t)
  <1> DEFINE n == thread[t].name
  <1>1. CASE Fails(t) \/ Reading(t)
    BY <1>1, FailsTimely, ReadingTimely
  <1>2. CASE ~(Fails(t) \/ Reading(t))
    <2>1. /\ At(t, "schema") /\ AtStep(t, "schema")
          /\ schemas[n] # Nothing /\ Fresh(schemas[n].stamp)
          /\ thread[t].column \in schemas[n].cols
      BY <1>2, LookUpMoves DEF AtStep
    <2>2. n \in Names
      BY <2>1 DEF Shaped, Tidy
    <2>3. schemas[n].stamp \in 0..now
      BY <2>1, <2>2 DEF Shaped
    <2>4. PICK x \in 0..schemas[n].stamp :
               /\ schemas[n].stamp - x <= ReadTime
               /\ now - x < Window =>
                     \E u \in during[x] : n \in There(u) /\ schemas[n].cols = u[n]
      BY <2>1, <2>2 DEF OfLate, SchemaOfLate
    <2>5. now - x < Window /\ \A u \in during[x] : u \in Recent
      BY <2>1, <2>3, <2>4, FreshIsRecent
    <2>6. PICK u \in Recent : n \in There(u) /\ schemas[n].cols = u[n]
      BY <2>4, <2>5
    <2> QED  BY <2>1, <2>6, SchemaTimely
  <1> QED  BY <1>1, <1>2

LEMMA StoreTimely ==
    ASSUME Shaped, OfLate, NEW t \in Threads, StoreSchema(t)
    PROVE  Timely(t)
  <1> DEFINE n == thread[t].name
  <1>1. CASE Fails(t)
    BY <1>1, FailsTimely
  <1>2. CASE ~Fails(t)
    <2>1. At(t, "store") /\ AtStep(t, "schema") /\ thread[t].column \in thread[t].cols
      BY <1>2, StoreMoves DEF AtStep
    <2>2. /\ thread[t].readAt <= now /\ now - thread[t].readAt <= ReadTime
          /\ \E u \in during[thread[t].readAt] : n \in There(u) /\ thread[t].cols = u[n]
      BY <2>1 DEF OfLate, ReadOfLate
    <2>3. thread[t].readAt \in Nat
      BY DEF Shaped, ThreadType
    <2>4. \A u \in during[thread[t].readAt] : u \in Recent
      BY <2>2, <2>3, ReadIsRecent
    <2>5. PICK u \in Recent : n \in There(u) /\ thread[t].cols = u[n]
      BY <2>2, <2>4
    <2> QED  BY <2>1, <2>5, SchemaTimely
  <1> QED  BY <1>1, <1>2

LEMMA StepTimely ==
    ASSUME Shaped, log \in Seq(Nat), OfLate, NEW t \in Threads, Step(t)
    PROVE  \A u \in Threads : Timely(u)
  <1>1. ASSUME NEW u \in Threads, u # t PROVE Timely(u)
    <2>1. thread'[u] = thread[u]
      BY <1>1, StepMoves DEF OnlyMoves
    <2> QED  BY <2>1, RestsPassesNot DEF Timely
  <1>2. CASE Send(t) \/ SendFails(t) \/ AskVerdicts(t) \/ Join(t) \/ Clear(t) \/ Emit(t)
    <2>1. Head(thread[t].todo) \notin {"qualify", "member", "schema", "fill", "store"}
      BY <1>2 DEF Send, SendFails, ForAnswer, AskVerdicts, Join, Clear, Emit, At
    <2>2. ASSUME NEW step \in {"qualify", "member", "schema"} PROVE ~Passes(t, step)
      BY <2>1, OneStep DEF Passes, AtStep
    <2>3. Timely(t)
      BY <2>2 DEF Timely
    <2> QED  BY <1>1, <2>3
  <1> QED  BY <1>1, <1>2, LookTimely, FillTimely, LookUpTimely, StoreTimely DEF Step

\* A thread comes to the end of a read by sending its statement.
LEMMA ReadsBySending ==
    ASSUME Shaped, log \in Seq(Nat), NEW t \in Threads, Step(t)
    PROVE  /\ At(t, "fill")' => Send(t) /\ At(t, "walk")
           /\ At(t, "store")' => Send(t) /\ At(t, "columns")
  <1> DEFINE head == Head(thread'[t].todo)
  <1>0. (At(t, "fill")' => thread'[t].todo # <<>> /\ head = "fill")
        /\ (At(t, "store")' => thread'[t].todo # <<>> /\ head = "store")
    BY DEF At, Busy
  <1>1. CASE Send(t)
    <2>1. thread'[t].todo = Rest(t) /\ Busy(t)
      BY <1>1, SendMoves DEF Send
    <2>2. thread'[t].todo # <<>> => Follows(Head(thread[t].todo), head)
      BY <2>1, RestProper
    <2>3. thread'[t].todo # <<>> => (head = "fill" => Head(thread[t].todo) = "walk")
                                    /\ (head = "store" => Head(thread[t].todo) = "columns")
      BY <2>2 DEF Follows
    <2> QED  BY <1>0, <1>1, <2>1, <2>3 DEF At
  <1>2. CASE Fails(t)
    <2>1. thread'[t].todo # <<>> => head = "emit"
      BY <1>2, EmitLinked, IdleType DEF Fails
    <2> QED  BY <1>0, <2>1
  <1>3. CASE Reading(t)
    <2>1. head \in {"walk", "qualify"}
      BY <1>3 DEF Reading, GoesOn
    <2> QED  BY <1>0, <2>1
  <1>4. ASSUME NEW step \in {"qualify", "member", "schema"}, GoesOn(t, After(t)), AtStep(t, step)
        PROVE  head # "fill" /\ head # "store"
    <2>1. Follows(step, head)
      BY <1>4, AfterProper DEF AtStep, GoesOn
    <2> QED  BY <2>1 DEF Follows
  <1>5. CASE Look(t) \/ Fill(t)
    <2>1. CASE Fails(t) \/ Reading(t)
      BY <2>1, <1>2, <1>3
    <2>2. CASE ~(Fails(t) \/ Reading(t))
      <3>1. PICK step \in {"qualify", "member"} : \E known : Judged(t, step, known)
        BY <1>5, <2>2, LookMoves, FillMoves
      <3>2. PICK known : Judged(t, step, known)
        BY <3>1
      <3> QED  BY <1>0, <1>4, <3>2 DEF Judged
    <2> QED  BY <2>1, <2>2
  <1>6. CASE LookUpSchema(t) \/ StoreSchema(t)
    <2>1. CASE Fails(t) \/ Reading(t)
      BY <2>1, <1>2, <1>3
    <2>2. CASE ~(Fails(t) \/ Reading(t))
      <3>1. GoesOn(t, After(t)) /\ AtStep(t, "schema")
        BY <1>6, <2>2, LookUpMoves, StoreMoves DEF AtStep
      <3> QED  BY <1>0, <1>4, <3>1
    <2> QED  BY <2>1, <2>2
  <1>7. CASE SendFails(t)
    BY <1>2, <1>7, GiveUpMoves DEF SendFails
  <1>8. CASE AskVerdicts(t) \/ Clear(t)
    BY <1>0, <1>8, RecordMoves DEF GoesOn
  <1>9. CASE Join(t)
    BY <1>0, <1>9, JoinMoves
  <1>10. CASE Emit(t)
    BY <1>0, <1>10, EmitMoves, IdleType
  <1> QED  BY <1>1, <1>5, <1>6, <1>7, <1>8, <1>9, <1>10 DEF Step

LEMMA InitOfLate == Init => OfLate
  <1> SUFFICES ASSUME Init PROVE OfLate
    OBVIOUS
  <1>0. Shaped /\ upstream \in Catalogs /\ now = 0 /\ MaxTime \in Nat
    BY InitShaped, ToolCallsAssumption DEF Shaped, Init
  <1>1. during = [x \in 0..MaxTime |-> IF x = 0 THEN {upstream} ELSE {}]
    BY DEF Init
  <1>2. during \in [0..MaxTime -> SUBSET Catalogs] /\ upstream \in during[now]
    BY <1>0, <1>1
  <1>3. \A t \in Threads : ~Busy(t)
    BY IdleType DEF Init, Busy
  <1> QED  BY <1>2, <1>3 DEF Init, OfLate, ReadOfLate, At, CatalogOfLate, SchemaOfLate

\* What upstream was in the last Window stays known.
Remembered ==
    /\ now' \in Nat /\ now <= now'
    /\ \A x \in 0..now : now' - x < Window => \A u \in during[x] : u \in during'[x]

LEMMA CatalogKept ==
    ASSUME Shaped, OfLate, Remembered, catalog' = catalog
    PROVE  CatalogOfLate'
  <1>1. SUFFICES ASSUME catalog # Nothing
                 PROVE  \E x \in 0..catalog.stamp :
                           /\ catalog.stamp - x <= ReadTime
                           /\ now' - x < Window => \E u \in during'[x] : catalog.names = There(u)
    BY DEF CatalogOfLate
  <1>2. catalog.stamp \in 0..now
    BY <1>1 DEF Shaped
  <1>3. PICK x \in 0..catalog.stamp :
             /\ catalog.stamp - x <= ReadTime
             /\ now - x < Window => \E u \in during[x] : catalog.names = There(u)
    BY <1>1 DEF OfLate, CatalogOfLate
  <1>4. x \in 0..now /\ (now' - x < Window => now - x < Window)
    BY <1>2, Times DEF Remembered
  <1>5. now' - x < Window => \E u \in during'[x] : catalog.names = There(u)
    BY <1>3, <1>4 DEF Remembered
  <1> QED  BY <1>3, <1>5

LEMMA SchemaKept ==
    ASSUME Shaped, OfLate, Remembered, NEW n \in Names, schemas'[n] = schemas[n]
    PROVE  SchemaOfLate(n)'
  <1> DEFINE s == schemas[n]
  <1>1. SUFFICES ASSUME s # Nothing
                 PROVE  \E x \in 0..s.stamp :
                           /\ s.stamp - x <= ReadTime
                           /\ now' - x < Window =>
                                 \E u \in during'[x] : n \in There(u) /\ s.cols = u[n]
    BY DEF SchemaOfLate
  <1>2. s.stamp \in 0..now
    BY <1>1 DEF Shaped
  <1>3. PICK x \in 0..s.stamp :
             /\ s.stamp - x <= ReadTime
             /\ now - x < Window => \E u \in during[x] : n \in There(u) /\ s.cols = u[n]
    BY <1>1 DEF OfLate, SchemaOfLate
  <1> HIDE DEF s
  <1>4. x \in 0..now /\ (now' - x < Window => now - x < Window)
    BY <1>2, Times DEF Remembered
  <1>5. now' - x < Window => \E u \in during'[x] : n \in There(u) /\ s.cols = u[n]
    BY <1>3, <1>4 DEF Remembered
  <1> QED  BY <1>3, <1>5

\* Nothing of late is lost by a step of a thread.
LEMMA StepOfLate ==
    ASSUME Shaped, log \in Seq(Nat), OfLate, NEW t \in Threads, Step(t)
    PROVE  OfLate'
  <1>0. /\ Shaped' /\ now' = now /\ upstream' = upstream /\ during' = during /\ OnlyMoves(t)
        /\ thread[t] \in ThreadType /\ thread[t].readAt \in Nat /\ now \in Nat
    BY StepShaped, StepMoves, Times DEF Shaped, ThreadType
  <1>1. Remembered
    BY <1>0 DEF Remembered
  <1>2. ASSUME NEW u \in Threads PROVE ReadOfLate(u)'
    <2>1. CASE u # t
      <3>1. thread'[u] = thread[u]
        BY <1>0, <2>1 DEF OnlyMoves
      <3> QED  BY <1>0, <3>1 DEF OfLate, ReadOfLate, At, Busy
    <2>2. CASE u = t
      <3>0. now - now = 0 /\ 0 <= ReadTime /\ now <= now
        BY Times
      <3>1. ASSUME At(t, "fill")'
            PROVE  /\ thread'[t].readAt <= now' /\ now' - thread'[t].readAt <= ReadTime
                   /\ \E w \in during'[thread'[t].readAt] : thread'[t].known = There(w)
        <4>1. thread'[t].readAt = now /\ thread'[t].known = There(upstream)
          BY <3>1, ReadsBySending, SendMoves
        <4>2. upstream \in during[now]
          BY DEF OfLate
        <4> QED  BY <1>0, <3>0, <4>1, <4>2
      <3>2. ASSUME At(t, "store")'
            PROVE  /\ thread'[t].readAt <= now' /\ now' - thread'[t].readAt <= ReadTime
                   /\ \E w \in during'[thread'[t].readAt] :
                         thread'[t].name \in There(w) /\ thread'[t].cols = w[thread'[t].name]
        <4>1. /\ thread'[t].readAt = now /\ thread'[t].name \in There(upstream)
              /\ thread'[t].cols = upstream[thread'[t].name]
          BY <3>2, ReadsBySending, SendMoves
        <4>2. upstream \in during[now]
          BY DEF OfLate
        <4> QED  BY <1>0, <3>0, <4>1, <4>2
      <3> QED  BY <2>2, <3>1, <3>2 DEF ReadOfLate
    <2> QED  BY <2>1, <2>2
  <1>3. CatalogOfLate'
    <2>1. CASE Fill(t)
      <3> DEFINE x == thread[t].readAt
      <3>1. catalog' = [names |-> thread[t].known, stamp |-> now]
        BY <2>1 DEF Fill
      <3>2. /\ x <= now /\ now - x <= ReadTime
            /\ \E u \in during[x] : thread[t].known = There(u)
        BY <2>1 DEF Fill, OfLate, ReadOfLate
      <3>3. x \in 0..now
        BY <1>0, <3>2
      <3>4. catalog'.names = thread[t].known /\ catalog'.stamp = now
        BY <3>1
      <3> HIDE DEF x
      <3> QED  BY <1>0, <3>2, <3>3, <3>4 DEF CatalogOfLate
    <2>2. CASE ~Fill(t)
      <3>1. catalog' = catalog
        BY <2>2 DEF Step, Send, SendFails, AskVerdicts, Look, LookUpSchema, StoreSchema, Join,
                    Clear, Emit, caches
      <3> QED  BY <1>1, <3>1, CatalogKept
    <2> QED  BY <2>1, <2>2
  <1>4. ASSUME NEW n \in Names PROVE SchemaOfLate(n)'
    <2>1. CASE StoreSchema(t) /\ n = thread[t].name
      <3> DEFINE x == thread[t].readAt
      <3>1. schemas'[n] = [cols |-> thread[t].cols, stamp |-> now]
        BY <2>1 DEF StoreSchema, Shaped
      <3>2. /\ x <= now /\ now - x <= ReadTime
            /\ \E u \in during[x] : n \in There(u) /\ thread[t].cols = u[n]
        BY <2>1 DEF StoreSchema, OfLate, ReadOfLate
      <3>3. x \in 0..now
        BY <1>0, <3>2
      <3>4. schemas'[n].cols = thread[t].cols /\ schemas'[n].stamp = now
        BY <3>1
      <3> HIDE DEF x
      <3> QED  BY <1>0, <3>2, <3>3, <3>4 DEF SchemaOfLate
    <2>2. CASE StoreSchema(t) /\ n # thread[t].name
      <3>1. schemas'[n] = schemas[n]
        BY <2>2 DEF StoreSchema, Shaped
      <3> QED  BY <1>1, <3>1, SchemaKept
    <2>3. CASE ~StoreSchema(t)
      <3>1. schemas' = schemas
        BY <2>3 DEF Step, Send, SendFails, AskVerdicts, Look, LookUpSchema, Fill, Join,
                    Clear, Emit, caches
      <3> QED  BY <1>1, <3>1, SchemaKept
    <2> QED  BY <2>1, <2>2, <2>3
  <1> QED  BY <1>0, <1>2, <1>3, <1>4 DEF OfLate

LEMMA BeginOfLate ==
    ASSUME Shaped, OfLate, NEW t \in Threads, CallTool(t) \/ ScanReads(t)
    PROVE  OfLate' /\ \A u \in Threads : Timely(u)
  <1>1. PICK steps, tool, name, column :
             /\ Begin(t, steps, tool, name, column)
             /\ steps # <<>> /\ Head(steps) \in {"databases", "page", "qualify"}
    <2>1. CASE CallTool(t)
      <3>1. PICK tool \in Tools : \E name, column : Begin(t, ToolSteps(tool), tool, name, column)
        BY <2>1 DEF CallTool
      <3> QED  BY <3>1, ToolCallsAssumption, ToolStepsLinked
    <2>2. CASE ScanReads(t)
      <3>1. PICK tool \in Tools : \E name, column : Begin(t, Reads[tool], tool, name, column)
        BY <2>2 DEF ScanReads
      <3>2. ReadSteps \subseteq ReadSteps
        OBVIOUS
      <3> QED  BY <3>1, <3>2, ToolCallsAssumption, ReadsLinked
    <2> QED  BY <2>1, <2>2
  <1>2. /\ now' = now /\ upstream' = upstream /\ during' = during
        /\ catalog' = catalog /\ schemas' = schemas /\ ~Busy(t)
    BY <1>1 DEF Begin
  <1>3. thread'[t].todo = steps
    BY <1>1 DEF Begin, Idle
  <1>4. ASSUME NEW u \in Threads, u # t
        PROVE  /\ thread'[u].todo = thread[u].todo /\ thread'[u].readAt = thread[u].readAt
               /\ thread'[u].known = thread[u].known /\ thread'[u].cols = thread[u].cols
               /\ thread'[u].name = thread[u].name
    <2>1. thread'[u] = [thread[u] EXCEPT !.alone = @ /\ ~(t \in Callers /\ u \in Callers /\ Busy(u))]
      BY <1>1, <1>4 DEF Begin
    <2>2. thread[u] \in ThreadType
      BY DEF Shaped
    <2> QED  BY <2>1, <2>2 DEF ThreadType
  <1>5. Remembered
    BY <1>2, Times DEF Remembered
  <1>6. ASSUME NEW u \in Threads PROVE ReadOfLate(u)'
    <2>1. CASE u = t
      BY <2>1, <1>1, <1>3 DEF ReadOfLate, At, Busy
    <2>2. CASE u # t
      BY <2>2, <1>2, <1>4 DEF OfLate, ReadOfLate, At, Busy
    <2> QED  BY <2>1, <2>2
  <1>7. CatalogOfLate' /\ \A n \in Names : SchemaOfLate(n)'
    BY <1>2, <1>5, CatalogKept, SchemaKept
  <1>8. OfLate'
    BY <1>2, <1>6, <1>7 DEF OfLate
  <1>9. ASSUME NEW u \in Threads PROVE Timely(u)
    <2>1. CASE u = t
      <3>1. ~Passes(t, "qualify") /\ ~Passes(t, "member") /\ ~Passes(t, "schema")
        BY <1>2 DEF Passes, At
      <3> QED  BY <2>1, <3>1 DEF Timely
    <2>2. CASE u # t
      BY <2>2, <1>4, RestsPassesNot DEF Timely
    <2> QED  BY <2>1, <2>2
  <1> QED  BY <1>8, <1>9

LEMMA ChangeOfLate ==
    ASSUME Shaped, OfLate, ChangeUpstream
    PROVE  OfLate'
  <1>1. /\ now' = now /\ catalog' = catalog /\ schemas' = schemas /\ thread' = thread
        /\ during' = [during EXCEPT ![now] = @ \cup {upstream'}]
    BY DEF ChangeUpstream, caches
  <1>2. Shaped' /\ upstream' \in Catalogs
    <2>1. Shaped'
      BY WorldShaped
    <2> QED  BY <2>1 DEF Shaped
  <1>3. /\ during' \in [0..MaxTime -> SUBSET Catalogs] /\ upstream' \in during'[now]
        /\ \A x \in 0..MaxTime : \A u \in during[x] : u \in during'[x]
    BY <1>1, <1>2, Times DEF OfLate
  <1>4. 0..now \subseteq 0..MaxTime
    BY Times
  <1>5. Remembered
    BY <1>1, <1>3, <1>4, Times DEF Remembered
  <1>6. ASSUME NEW t \in Threads PROVE ReadOfLate(t)'
    <2>1. thread[t].readAt \in Nat
      BY DEF Shaped, ThreadType
    <2>2. thread[t].readAt <= now => thread[t].readAt \in 0..MaxTime
      BY <2>1, Times
    <2> QED  BY <1>1, <1>3, <2>2 DEF OfLate, ReadOfLate, At, Busy
  <1>7. CatalogOfLate' /\ \A n \in Names : SchemaOfLate(n)'
    BY <1>1, <1>5, CatalogKept, SchemaKept
  <1> QED  BY <1>1, <1>3, <1>6, <1>7 DEF OfLate

LEMMA TickOfLate ==
    ASSUME Shaped, OfLate, Tick
    PROVE  OfLate'
  <1>1. /\ now < MaxTime /\ now' = now + 1 /\ upstream' = upstream
        /\ catalog' = catalog /\ schemas' = schemas /\ thread' = thread
    BY DEF Tick, caches
  <1>2. during' = [x \in 0..MaxTime |->
            IF x = now + 1 THEN {upstream} ELSE IF x + Window > now + 1 THEN during[x] ELSE {}]
    BY DEF Tick
  <1>3. now + 1 \in 0..MaxTime /\ upstream \in Catalogs
    BY <1>1, Times DEF Shaped
  <1>4. during' \in [0..MaxTime -> SUBSET Catalogs] /\ upstream' \in during'[now']
    BY <1>1, <1>2, <1>3 DEF OfLate
  <1>5. ASSUME NEW x \in 0..now, now' - x < Window PROVE during'[x] = during[x]
    <2>1. x \in 0..MaxTime /\ x # now + 1 /\ x + Window > now + 1
      BY <1>1, <1>5, Times
    <2> QED  BY <1>2, <2>1
  <1>6. Remembered
    <2>1. now' \in Nat /\ now <= now'
      BY <1>1, Times
    <2> QED  BY <1>5, <2>1 DEF Remembered
  <1>7. ASSUME NEW t \in Threads PROVE ReadOfLate(t)'
    <2> DEFINE x == thread[t].readAt
    <2>1. x \in Nat
      BY DEF Shaped, ThreadType
    <2>2. At(t, "fill") \/ At(t, "store") => now - x < ReadTime /\ x <= now
      BY DEF Tick, OfLate, ReadOfLate
    <2>3. now - x < ReadTime /\ x <= now =>
              x \in 0..now /\ now' - x < Window /\ x <= now' /\ now' - x <= ReadTime
      BY <1>1, <2>1, Times
    <2>4. At(t, "fill") \/ At(t, "store") =>
              during'[x] = during[x] /\ x <= now' /\ now' - x <= ReadTime
      BY <1>5, <2>2, <2>3
    <2> QED  BY <1>1, <2>4 DEF OfLate, ReadOfLate, At, Busy
  <1>8. CatalogOfLate' /\ \A n \in Names : SchemaOfLate(n)'
    BY <1>1, <1>6, CatalogKept, SchemaKept
  <1> QED  BY <1>4, <1>7, <1>8 DEF OfLate

\* A step that no thread takes lets none pass.
LEMMA RestTimely ==
    ASSUME Shaped, thread' = thread
    PROVE  \A t \in Threads : Timely(t)
  BY RestsPassesNot DEF Timely

LEMMA NextOfLate ==
    ASSUME Shaped, Numbered, OfLate, [Next]_vars
    PROVE  OfLate' /\ \A t \in Threads : Timely(t)
  <1>0. log \in Seq(Nat)
    BY LogOfNumbers
  <1>1. CASE \E t \in Threads : CallTool(t) \/ ScanReads(t)
    BY <1>1, BeginOfLate
  <1>2. CASE \E t \in Threads : Step(t)
    BY <1>0, <1>2, StepOfLate, StepTimely
  <1>3. CASE ChangeUpstream
    BY <1>3, ChangeOfLate, RestTimely DEF ChangeUpstream
  <1>4. CASE Tick
    BY <1>4, TickOfLate, RestTimely DEF Tick
  <1>5. CASE UNCHANGED vars
    <2>1. /\ thread' = thread /\ now' = now /\ upstream' = upstream /\ during' = during
          /\ catalog' = catalog /\ schemas' = schemas
      BY <1>5 DEF vars
    <2>2. OfLate'
      BY <2>1 DEF OfLate, ReadOfLate, CatalogOfLate, SchemaOfLate, At, Busy
    <2> QED  BY <2>1, <2>2, RestTimely
  <1> QED  BY <1>1, <1>2, <1>3, <1>4, <1>5 DEF Next

\* Every step of the allowlist that a call or the scan passes, it passes by what
\* the source held no longer ago than a cached answer may be used and a read may
\* take; whatever comes between the look-up in a cache, the read, its stamping and
\* the use.
THEOREM AllowedOfLate == Spec => NamesAreTimely
  <1>1. Init => OfLate
    BY InitOfLate
  <1>2. Shaped /\ Numbered /\ OfLate /\ [Next]_vars => OfLate'
    BY NextOfLate
  <1>3. Spec => []OfLate
    BY <1>1, <1>2, AlwaysNumbered, PTL DEF Spec
  <1>4. Shaped /\ Numbered /\ OfLate /\ [Next]_vars => \A t \in Threads : Timely(t)
    BY NextOfLate
  <1>5. Spec => [][\A t \in Threads : Timely(t)]_vars
    BY <1>3, <1>4, AlwaysNumbered, PTL DEF Spec
  <1>6. [][\A t \in Threads : Timely(t)]_vars => NamesAreTimely
    BY DEF Timely, NamesAreTimely
  <1> QED  BY <1>5, <1>6

-----------------------------------------------------------------------------
(* What the records say *)

LEMMA CountAppend ==
    ASSUME NEW s \in Seq(Nat), NEW e \in Nat, NEW c \in Nat
    PROVE  /\ e # c => Count(Append(s, e), c) = Count(s, c)
           /\ e = c => Count(Append(s, e), c) = Count(s, c) + 1
           /\ Count(s, c) \in Nat
  <1> DEFINE r == Append(s, e)
             n == Len(s)
             S == {i \in DOMAIN s : s[i] = c}
             R == {i \in DOMAIN r : r[i] = c}
  <1>1. /\ n \in Nat /\ DOMAIN s = 1..n /\ DOMAIN r = 1..(n + 1)
        /\ r[n + 1] = e /\ \A i \in 1..n : r[i] = s[i]
    OBVIOUS
  <1>2. 1..(n + 1) = 1..n \cup {n + 1} /\ n + 1 \notin 1..n
    BY <1>1
  <1> HIDE DEF r, n
  <1>3. IsFiniteSet(S) /\ n + 1 \notin S
    <2>1. IsFiniteSet(1..n)
      BY <1>1, FS_Interval
    <2>2. S \subseteq 1..n
      BY <1>1
    <2> QED  BY <1>2, <2>1, <2>2, FS_Subset
  <1>4. Cardinality(S) \in Nat
    BY <1>3, FS_CardinalityType
  <1>5. CASE e # c
    <2>1. R = S
      BY <1>1, <1>2, <1>5
    <2> QED  BY <1>4, <1>5, <2>1 DEF Count, r
  <1>6. CASE e = c
    <2>1. R = S \cup {n + 1}
      BY <1>1, <1>2, <1>6
    <2> HIDE DEF S, R
    <2>2. Cardinality(R) = Cardinality(S) + 1
      BY <1>3, <2>1, FS_AddElement
    <2> QED  BY <1>4, <1>6, <2>2 DEF Count, r, R, S
  <1> QED  BY <1>5, <1>6

LEMMA CountNone ==
    ASSUME NEW S, NEW s \in Seq(S), NEW c, c \notin S
    PROVE  Count(s, c) = 0
  <1>1. {i \in DOMAIN s : s[i] = c} = {}
    OBVIOUS
  <1> QED  BY <1>1, FS_EmptySet DEF Count

\* t has taken its statements for its record.
Late(t) == Head(thread[t].todo) \in {"clear", "verdicts", "emit"}

\* The statements of a call with no other beside it are all on the list, and then
\* all in what it took from it.
Counted(t) ==
    Busy(t) /\ thread[t].alone /\ thread[t].outcome = "ok" /\ thread[t].tool # "list_databases" =>
        /\ ~Late(t) => Count(log, thread[t].call) = thread[t].sent
        /\ Late(t) => Count(thread[t].rendered, thread[t].call) = thread[t].sent

Recorded ==
    /\ \A t, u \in Threads : t # u /\ Busy(t) /\ Busy(u) => thread[t].call # thread[u].call
    /\ \A t, u \in Callers : t # u /\ Busy(t) /\ Busy(u) => ~thread[t].alone
    /\ \A t \in Callers : Counted(t)
    /\ RecordIsComplete

LEMMA InitRecorded == Init => Recorded
  <1> SUFFICES ASSUME Init PROVE Recorded
    OBVIOUS
  <1>1. \A t \in Threads : ~Busy(t)
    BY IdleType DEF Init, Busy
  <1>2. trail = {}
    BY DEF Init
  <1> QED  BY <1>1, <1>2 DEF Recorded, Counted, RecordIsComplete, Threads

LEMMA BeginRecorded ==
    ASSUME Shaped, Numbered, Recorded, NEW t \in Threads, CallTool(t) \/ ScanReads(t)
    PROVE  Recorded'
  <1>1. PICK steps, tool, name, column :
             /\ Begin(t, steps, tool, name, column)
             /\ steps # <<>> /\ Head(steps) \in {"databases", "page", "qualify"}
    <2>1. CASE CallTool(t)
      <3>1. PICK tool \in Tools : \E name, column : Begin(t, ToolSteps(tool), tool, name, column)
        BY <2>1 DEF CallTool
      <3> QED  BY <3>1, ToolCallsAssumption, ToolStepsLinked
    <2>2. CASE ScanReads(t)
      <3>1. PICK tool \in Tools : \E name, column : Begin(t, Reads[tool], tool, name, column)
        BY <2>2 DEF ScanReads
      <3>2. ReadSteps \subseteq ReadSteps
        OBVIOUS
      <3> QED  BY <3>1, <3>2, ToolCallsAssumption, ReadsLinked
    <2> QED  BY <2>1, <2>2
  <1>2. log' = log /\ trail' = trail /\ ~Busy(t) /\ calls \in Nat /\ log \in Seq(1..calls)
    <2>1. log' = log /\ trail' = trail /\ ~Busy(t)
      BY <1>1 DEF Begin
    <2> QED  BY <2>1 DEF Shaped, Numbered
  <1>3. /\ thread'[t].todo = steps /\ thread'[t].call = calls + 1 /\ thread'[t].sent = 0
        /\ thread'[t].alone => \A v \in Callers : ~Busy(v)
    <2> DEFINE b == \A v \in Callers : ~Busy(v)
    <2>1. thread'[t] = [Idle EXCEPT !.todo = steps, !.call = calls + 1, !.tool = tool,
                            !.name = name, !.column = column, !.alone = b]
      BY <1>1 DEF Begin
    <2>2. b \in BOOLEAN /\ (b => \A v \in Callers : ~Busy(v))
      OBVIOUS
    <2> HIDE DEF b
    <2> QED  BY <2>1, <2>2 DEF Idle
  <1>4. ASSUME NEW u \in Threads, u # t
        PROVE  /\ thread'[u].todo = thread[u].todo /\ thread'[u].call = thread[u].call
               /\ thread'[u].sent = thread[u].sent /\ thread'[u].rendered = thread[u].rendered
               /\ thread'[u].outcome = thread[u].outcome /\ thread'[u].tool = thread[u].tool
               /\ thread'[u].alone => thread[u].alone
               /\ thread'[u].alone => ~(t \in Callers /\ u \in Callers /\ Busy(u))
    <2> DEFINE both == t \in Callers /\ u \in Callers /\ Busy(u)
               b == thread[u].alone /\ ~both
    <2>1. thread'[u] = [thread[u] EXCEPT !.alone = b]
      BY <1>1, <1>4 DEF Begin
    <2>2. (b => thread[u].alone) /\ (b => ~both)
      OBVIOUS
    <2>3. thread[u] \in ThreadType
      BY DEF Shaped
    <2> HIDE DEF b
    <2> QED  BY <2>1, <2>2, <2>3 DEF ThreadType
  <1>5. ASSUME NEW u \in Threads PROVE thread[u].call # calls + 1
    <2>1. thread[u].call \in 0..calls
      BY DEF Numbered
    <2> QED  BY <1>2, <2>1
  <1>6. ASSUME NEW u \in Threads, NEW v \in Threads, u # v,
               thread'[u].todo # <<>>, thread'[v].todo # <<>>
        PROVE  thread'[u].call # thread'[v].call
    <2>1. CASE u = t
      BY <2>1, <1>6, <1>3, <1>4, <1>5
    <2>2. CASE v = t
      BY <2>2, <1>6, <1>3, <1>4, <1>5
    <2>3. CASE u # t /\ v # t
      BY <2>3, <1>6, <1>4 DEF Recorded, Busy
    <2> QED  BY <2>1, <2>2, <2>3
  <1>7. ASSUME NEW u \in Callers, NEW v \in Callers, u # v,
               thread'[u].todo # <<>>, thread'[v].todo # <<>>
        PROVE  ~thread'[u].alone
    <2>0. u \in Threads /\ v \in Threads
      BY DEF Threads
    <2>1. CASE u = t
      <3>1. Busy(v)
        BY <2>0, <2>1, <1>4, <1>7 DEF Busy
      <3> QED  BY <2>1, <3>1, <1>3
    <2>2. CASE u # t /\ v = t
      <3>1. Busy(u)
        BY <2>0, <2>2, <1>4, <1>7 DEF Busy
      <3> QED  BY <2>0, <2>2, <3>1, <1>4
    <2>3. CASE u # t /\ v # t
      BY <2>0, <2>3, <1>7, <1>4 DEF Recorded, Busy
    <2> QED  BY <2>1, <2>2, <2>3
  <1>8. ASSUME NEW u \in Callers PROVE Counted(u)'
    <2>0. u \in Threads
      BY DEF Threads
    <2>1. CASE u = t
      <3>1. Count(log, calls + 1) = 0
        <4>1. calls + 1 \notin 1..calls
          BY <1>2
        <4> QED  BY <1>2, <4>1, CountNone
      <3> QED  BY <2>1, <3>1, <1>1, <1>2, <1>3 DEF Counted, Late, Busy
    <2>2. CASE u # t
      <3>1. Counted(u)
        BY DEF Recorded
      <3> QED  BY <2>0, <2>2, <3>1, <1>2, <1>4 DEF Counted, Late, Busy
    <2> QED  BY <2>1, <2>2
  <1>9. RecordIsComplete'
    BY <1>2 DEF Recorded, RecordIsComplete
  <1> QED  BY <1>6, <1>7, <1>8, <1>9 DEF Recorded, Busy

\* What a step does to the list and to the record its own call will make.
LEMMA StepCounted ==
    ASSUME Shaped, Numbered, Recorded, NEW t \in Callers, t \in Threads, Step(t)
    PROVE  Counted(t)'
  <1>0. /\ calls \in Nat /\ log \in Seq(Nat) /\ thread[t].call \in Nat /\ thread[t].sent \in Nat
        /\ Counted(t)
    <2>1. thread[t].call \in Nat /\ thread[t].sent \in Nat
      BY DEF Shaped, ThreadType
    <2> QED  BY <2>1, LogOfNumbers DEF Recorded
  <1> DEFINE head == Head(thread'[t].todo)
  <1>1. CASE Fails(t)
    BY <1>1 DEF Fails, Counted
  <1>2. ASSUME log' = log, thread'[t].outcome = thread[t].outcome, SameRecord(t), Busy(t),
               ~Late(t), head \notin {"clear", "verdicts", "emit"}
        PROVE  Counted(t)'
    BY <1>0, <1>2 DEF Counted, SameRecord, Late
  <1>3. CASE Reading(t) /\ log' = log /\ Busy(t) /\ ~Late(t)
    <2>1. head \notin {"clear", "verdicts", "emit"} /\ SameRecord(t)
          /\ thread'[t].outcome = thread[t].outcome
      BY <1>3 DEF Reading, GoesOn
    <2> QED  BY <1>2, <1>3, <2>1
  <1>4. ASSUME NEW step \in {"qualify", "member", "schema"}, GoesOn(t, After(t)), AtStep(t, step),
               log' = log
        PROVE  Counted(t)'
    <2>1. Follows(step, head)
      BY <1>4, AfterProper DEF AtStep, GoesOn
    <2>2. head \notin {"clear", "verdicts", "emit"}
      BY <2>1 DEF Follows
    <2>3. ~Late(t) /\ Busy(t)
      <3>1. Head(thread[t].todo) \in {"qualify", "member", "schema", "fill", "store"}
        BY <1>4, OneStep
      <3> QED  BY <1>4, <3>1 DEF Late, AtStep, At
    <2> QED  BY <1>2, <1>4, <2>2, <2>3 DEF GoesOn
  <1>5. CASE Send(t)
    <2>0. /\ Busy(t) /\ Head(thread[t].todo) \in ForAnswer
          /\ log' = Append(log, thread[t].call)
      BY <1>5 DEF Send, Sent
    <2>1. /\ thread'[t].todo = Rest(t) /\ thread'[t].sent = thread[t].sent + 1
          /\ thread'[t].call = thread[t].call /\ thread'[t].tool = thread[t].tool
          /\ thread'[t].alone = thread[t].alone /\ thread'[t].outcome = thread[t].outcome
      BY <1>5, SendMoves
    <2>2. ~Late(t)
      BY <2>0 DEF ForAnswer, Late
    <2>3. thread[t].tool # "list_databases" => Head(thread[t].todo) # "databases"
      BY <2>0 DEF Shaped, Tidy, At
    <2>4. thread'[t].todo # <<>> => Follows(Head(thread[t].todo), head)
      BY <2>0, <2>1, RestProper
    <2>5. thread'[t].todo # <<>> /\ thread[t].tool # "list_databases" =>
              head \notin {"clear", "verdicts", "emit"}
      BY <2>0, <2>3, <2>4 DEF Follows, ForAnswer
    <2>6. Count(log', thread[t].call) = Count(log, thread[t].call) + 1
      BY <1>0, <2>0, CountAppend
    <2> QED  BY <1>0, <2>0, <2>1, <2>2, <2>5, <2>6 DEF Counted, Late, Busy
  <1>6. CASE SendFails(t)
    BY <1>1, <1>6, GiveUpMoves DEF SendFails
  <1>7. CASE AskVerdicts(t) \/ Clear(t)
    <2>1. Late(t) /\ Busy(t)
      BY <1>7 DEF AskVerdicts, Clear, At, Late
    <2>2. GoesOn(t, Rest(t)) /\ Head(Rest(t)) \in {"verdicts", "emit"}
      BY <1>7, <1>0, RecordMoves
    <2> QED  BY <1>0, <2>1, <2>2 DEF GoesOn, SameRecord, Counted, Late
  <1>8. CASE Join(t)
    <2>1. ~Late(t) /\ Busy(t) /\ log' = log
      BY <1>8 DEF Join, At, Late
    <2>2. /\ thread'[t].rendered = log /\ head \in {"clear", "verdicts", "emit"}
          /\ thread'[t].call = thread[t].call /\ thread'[t].tool = thread[t].tool
          /\ thread'[t].sent = thread[t].sent /\ thread'[t].alone = thread[t].alone
          /\ thread'[t].outcome = thread[t].outcome
      BY <1>0, <1>8, JoinMoves
    <2> QED  BY <1>0, <2>1, <2>2 DEF Counted, Late
  <1>9. CASE Emit(t)
    BY <1>9, EmitMoves, IdleType DEF Counted, Busy
  <1>10. CASE Look(t) \/ Fill(t)
    <2>1. log' = log /\ Busy(t) /\ ~Late(t)
      BY <1>10 DEF Look, Fill, At, Late
    <2>2. CASE Fails(t) \/ Reading(t)
      BY <2>1, <2>2, <1>1, <1>3
    <2>3. CASE ~(Fails(t) \/ Reading(t))
      <3>1. PICK step \in {"qualify", "member"} : \E known : Judged(t, step, known)
        BY <1>10, <2>3, LookMoves, FillMoves
      <3>2. PICK known : Judged(t, step, known)
        BY <3>1
      <3> QED  BY <1>4, <2>1, <3>2 DEF Judged
    <2> QED  BY <2>2, <2>3
  <1>11. CASE LookUpSchema(t) \/ StoreSchema(t)
    <2>1. log' = log /\ Busy(t) /\ ~Late(t)
      BY <1>11 DEF LookUpSchema, StoreSchema, At, Late
    <2>2. CASE Fails(t) \/ Reading(t)
      BY <2>1, <2>2, <1>1, <1>3
    <2>3. CASE ~(Fails(t) \/ Reading(t))
      <3>1. GoesOn(t, After(t)) /\ AtStep(t, "schema")
        BY <1>11, <2>3, LookUpMoves, StoreMoves DEF AtStep
      <3> QED  BY <1>4, <2>1, <3>1
    <2> QED  BY <2>2, <2>3
  <1> QED  BY <1>5, <1>6, <1>7, <1>8, <1>9, <1>10, <1>11 DEF Step

\* A thread that makes no record, or another's, takes nothing of a lone call's
\* off the list, and puts nothing on it under that call's number.
LEMMA OthersCounted ==
    ASSUME Shaped, Numbered, Recorded, NEW t \in Threads, Step(t), Busy(t),
           NEW u \in Callers, u \in Threads, u # t
    PROVE  Counted(u)'
  <1>1. thread'[u] = thread[u]
    BY LogOfNumbers, StepMoves DEF OnlyMoves
  <1>2. SUFFICES ASSUME Busy(u), thread[u].alone
                 PROVE  Count(log', thread[u].call) = Count(log, thread[u].call)
    BY <1>1 DEF Recorded, Counted, Late, Busy
  <1>3. t \notin Callers
    BY <1>2 DEF Recorded
  <1>4. ~At(t, "clear") /\ ~At(t, "verdicts") /\ ~At(t, "join") /\ ~At(t, "emit")
    BY <1>3, RecordersCall DEF RecordSteps
  <1>5. log' \in {log, Append(log, thread[t].call)}
    BY <1>4 DEF Step, Send, SendFails, Sent, AskVerdicts, Look, Fill, LookUpSchema,
                StoreSchema, Join, Clear, Emit
  <1>6. thread[t].call # thread[u].call
    BY <1>2 DEF Recorded
  <1>7. thread[t].call \in Nat /\ thread[u].call \in Nat
    BY DEF Shaped, ThreadType
  <1>8. log \in Seq(Nat)
    BY LogOfNumbers
  <1>9. Count(Append(log, thread[t].call), thread[u].call) = Count(log, thread[u].call)
    BY <1>6, <1>7, <1>8, CountAppend
  <1> QED  BY <1>5, <1>9

LEMMA StepRecorded ==
    ASSUME Shaped, Numbered, Recorded, NEW t \in Threads, Step(t)
    PROVE  Recorded'
  <1>0. Busy(t) /\ log \in Seq(Nat)
    <2>1. Busy(t)
      BY DEF Step, Send, SendFails, AskVerdicts, Look, Fill, LookUpSchema, StoreSchema, Join,
             Clear, Emit, At
    <2> QED  BY <2>1, LogOfNumbers
  <1>1. OnlyMoves(t) /\ (thread'[t].call = thread[t].call \/ thread'[t] = Idle)
    BY <1>0, StepMoves, StepFields
  <1>2. \A u \in Threads : thread'[u].todo # <<>> =>
            Busy(u) /\ thread'[u].call = thread[u].call
    <2>1. Idle.todo = <<>>
      BY IdleType
    <2> QED  BY <1>0, <1>1, <2>1 DEF OnlyMoves, Busy
  <1>3. \A u, v \in Threads : u # v /\ thread'[u].todo # <<>> /\ thread'[v].todo # <<>> =>
            thread'[u].call # thread'[v].call
    BY <1>2 DEF Recorded
  <1>4. ASSUME NEW u \in Callers, NEW v \in Callers, u # v,
               thread'[u].todo # <<>>, thread'[v].todo # <<>>
        PROVE  ~thread'[u].alone
    <2>0. u \in Threads /\ v \in Threads
      BY DEF Threads
    <2>1. ~thread[u].alone
      BY <2>0, <1>2, <1>4 DEF Recorded
    <2>2. CASE u # t
      BY <2>0, <2>1, <2>2, <1>1 DEF OnlyMoves
    <2>3. CASE u = t
      <3>1. thread'[t].alone = thread[t].alone \/ thread'[t] = Idle
        BY <1>0, <2>3, SendMoves, GiveUpMoves, RecordMoves, LookMoves, FillMoves, LookUpMoves,
           StoreMoves, JoinMoves, EmitMoves
           DEF Step, SendFails, Fails, Reading, Judged, GoesOn, SameRecord
      <3> QED  BY <2>1, <2>3, <3>1, <1>4, IdleType
    <2> QED  BY <2>2, <2>3
  <1>5. \A u \in Callers : Counted(u)'
    <2>1. \A u \in Callers : u \in Threads
      BY DEF Threads
    <2> QED  BY <1>0, <2>1, StepCounted, OthersCounted
  <1>6. ASSUME NEW r \in trail', r.outcome = "ok", r.alone, r.tool # "list_databases"
        PROVE  Count(r.sql, r.call) = r.sent
    <2>1. CASE r \in trail
      BY <1>6, <2>1 DEF Recorded, RecordIsComplete
    <2>2. CASE r \notin trail
      <3>1. Emit(t)
        BY <1>6, <2>2 DEF Step, Send, SendFails, AskVerdicts, Look, Fill, LookUpSchema,
                          StoreSchema, Join, Clear
      <3>2. r = [call |-> thread[t].call, tool |-> thread[t].tool, outcome |-> thread[t].outcome,
                 sql |-> thread[t].rendered, sent |-> thread[t].sent, alone |-> thread[t].alone]
        BY <1>6, <2>2, <3>1 DEF Emit
      <3>3. At(t, "emit") /\ t \in Callers
        BY <3>1, RecordersCall DEF Emit, RecordSteps
      <3>4. Late(t) /\ Counted(t)
        BY <3>3 DEF At, Late, Recorded
      <3> QED  BY <1>0, <1>6, <3>2, <3>4 DEF Counted
    <2> QED  BY <2>1, <2>2
  <1> QED  BY <1>3, <1>4, <1>5, <1>6 DEF Recorded, RecordIsComplete, Busy

LEMMA NextRecorded ==
    ASSUME Shaped, Numbered, Recorded, [Next]_vars
    PROVE  Recorded'
  <1>1. CASE \E t \in Threads : CallTool(t) \/ ScanReads(t)
    BY <1>1, BeginRecorded
  <1>2. CASE \E t \in Threads : Step(t)
    BY <1>2, StepRecorded
  <1>3. CASE ChangeUpstream \/ Tick \/ UNCHANGED vars
    <2>1. log' = log /\ thread' = thread /\ trail' = trail
      BY <1>3 DEF ChangeUpstream, Tick, vars
    <2> QED  BY <2>1 DEF Recorded, Counted, Late, Busy, RecordIsComplete
  <1> QED  BY <1>1, <1>2, <1>3 DEF Next

\* A tool call with no other tool call beside it has on its record every statement
\* it sent for its answer, each once, although the scan puts its own on the same
\* list at any time between.
THEOREM RecordsHoldAll == Spec => []RecordIsComplete
  <1>1. Init => Recorded
    BY InitRecorded
  <1>2. Shaped /\ Numbered /\ Recorded /\ [Next]_vars => Recorded'
    BY NextRecorded
  <1>3. Recorded => RecordIsComplete
    BY DEF Recorded
  <1> QED  BY <1>1, <1>2, <1>3, AlwaysNumbered, PTL DEF Spec

=============================================================================
