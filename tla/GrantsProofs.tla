---------------------------- MODULE GrantsProofs ----------------------------
(***************************************************************************)
(* Proofs about Grants, for any roles file, flags, deployments, edits and  *)
(* crashes: what a token's document says is what its holder is answered,   *)
(* and what flags may do to a role.                                        *)
(***************************************************************************)
EXTENDS Grants, FiniteSetTheorems, WellFoundedInduction, TLAPS

-----------------------------------------------------------------------------
(* A provisioning *)

\* What the container holds at each step of a run, and what it has written.
BundleInv ==
    /\ file \in Files /\ settings \in Settings /\ serving \in Settings
    /\ cut \in BOOLEAN
    /\ pc # "rest" => job.settings \in Settings
    /\ pc = "skill" => mcp = job.claims
    /\ skill # None => skill.for \in Settings
    /\ skill # None /\ ~cut => skill = Skill(mcp, skill.for)

LEMMA SkillIsFor == \A c, s : Skill(c, s).for = s
  BY DEF Skill

LEMMA BundleInit == Init => BundleInv
  BY DEF Init, BundleInv

LEMMA BundleKept == BundleInv /\ [Next]_vars => BundleInv'
<1> SUFFICES ASSUME BundleInv, [Next]_vars
             PROVE  BundleInv'
  OBVIOUS
<1>1. CASE EditRoles \/ EditSettings \/ StartServer
  BY <1>1 DEF EditRoles, EditSettings, StartServer, Bundle, BundleInv
<1>2. ASSUME NEW role \in Roles, NEW flags \in Flags, NEW force \in BOOLEAN,
             Provision(role, flags, force)
      PROVE  BundleInv'
  <2>1. /\ UNCHANGED <<file, settings, serving, mcp, skill, cut>> /\ pc' = "token"
        /\ job'.settings = settings
    BY <1>2 DEF Provision, Bundle
  <2> QED
    BY <2>1 DEF BundleInv
<1>3. CASE KeepToken
  BY <1>3 DEF KeepToken, Bundle, BundleInv
<1>4. CASE SignToken
  BY <1>4 DEF SignToken, BundleInv
<1>5. CASE IssueFails \/ Crash
  BY <1>5 DEF IssueFails, Crash, Bundle, BundleInv
<1>6. CASE ReadToken
  <2>1. /\ UNCHANGED <<file, settings, serving, mcp, skill, cut>> /\ pc = "read" /\ pc' = "mcp"
        /\ job' = [job EXCEPT !.claims = token]
    BY <1>6 DEF ReadToken, Bundle
  <2>2. job'.settings = job.settings
    BY <2>1
  <2> QED
    BY <2>1, <2>2 DEF BundleInv
<1>7. CASE WriteMcp
  BY <1>7 DEF WriteMcp, BundleInv
<1>8. CASE WriteSkill
  <2>1. /\ UNCHANGED <<file, settings, serving, mcp>> /\ pc = "skill" /\ pc' = "rest"
        /\ cut' = FALSE /\ skill' = Skill(job.claims, job.settings)
    BY <1>8 DEF WriteSkill
  <2>2. skill'.for = job.settings /\ job.settings \in Settings /\ mcp' = job.claims
    BY <2>1, SkillIsFor DEF BundleInv
  <2> QED
    BY <2>1, <2>2 DEF BundleInv
<1>9. CASE UNCHANGED vars
  BY <1>9 DEF vars, Bundle, BundleInv
<1> QED
  BY <1>1, <1>2, <1>3, <1>4, <1>5, <1>6, <1>7, <1>8, <1>9 DEF Next

-----------------------------------------------------------------------------
(* What a document says *)

\* A deployment registers what the table says that it serves.
LEMMA ServedIsRegistered ==
    ASSUME NEW s \in Settings
    PROVE  Served(s) = Registered(s)
<1>1. s.staging \in BOOLEAN /\ s.export \in BOOLEAN
  BY GrantsAssumption
<1>2. CatalogTools \cap InventoryTools = {} /\ NeedsExportDir \subseteq InventoryTools
  BY DEF CatalogTools, InventoryTools, NeedsExportDir
<1> QED
  BY <1>1, <1>2 DEF Served, Registered, ToolNames

LEMMA LimitsAreTheToken ==
    ASSUME NEW c, NEW s \in Settings, s.auth, skill = Skill(c, s)
    PROVE  /\ skill.tools = c.scopes \cap Served(s)
           /\ skill.databases = Caller(c, s).databases
           /\ skill.allow = Caller(c, s).allow
           /\ skill.deny = Caller(c, s).deny
           /\ skill.raw = Caller(c, s).raw
           /\ skill.human = (c.human = TRUE)
           /\ Caller(c, s).tools = c.scopes
           /\ Caller(c, s).human = (c.human = TRUE \/ LegacyHumanScope \in c.scopes)
           /\ Caller(c, s).unrestricted = FALSE
           /\ Caller(c, s).raw \in BOOLEAN /\ Caller(c, s).human \in BOOLEAN
  BY DEF Skill, CallableNames, Caller, FromClaims

\* The document and the server answer a call alike, but for an export.
LEMMA ToldIsAnswered ==
    ASSUME NEW c, NEW s \in Settings, s.auth, skill = Skill(c, s), NEW call \in Calls
    PROVE  /\ Told(call) => Answers(c, s, call)
           /\ Answers(c, s, call) =>
                \/ Told(call)
                \/ call.tool = "inventory_export" /\ call.tool \in skill.tools
<1> DEFINE rights == Caller(c, s)
           db == MayUseDatabase(rights, call.database)
           rd == Permits(rights, call.container)
<1>1. /\ call.tool \in ToolNames /\ call.container \in Containers
      /\ call.mask \in BOOLEAN /\ call.tool # "get_sample" => call.mask
      /\ call.container # None
      /\ NoContainer(call).database = call.database
      /\ NoContainer(call).container = None
  BY GrantsAssumption DEF Calls, NoContainer
<1>2. Served(s) = Registered(s)
  BY ServedIsRegistered
<1>3. /\ HasAccess(rights, call) <=> db /\ rd
      /\ HasAccess(rights, NoContainer(call)) <=> db
  <2>1. rights.unrestricted = FALSE
    BY LimitsAreTheToken
  <2> QED
    BY <1>1, <2>1 DEF HasAccess, MayRead, MayUseDatabase
<1>4. db <=> (skill.databases # {} => call.database \in skill.databases)
  BY LimitsAreTheToken DEF MayUseDatabase
<1>5. rd <=> ToldReadable(call.container)
  BY LimitsAreTheToken DEF Permits, ToldReadable
<1>6. /\ call.tool \in skill.tools <=> call.tool \in c.scopes /\ call.tool \in Registered(s)
      /\ MayCall(rights, call.tool) <=> call.tool \in c.scopes
      /\ skill.raw = rights.raw /\ rights.raw \in BOOLEAN
  <2>1. /\ skill.tools = c.scopes \cap Served(s) /\ rights.tools = c.scopes
        /\ rights.unrestricted = FALSE
        /\ skill.raw = rights.raw /\ rights.raw \in BOOLEAN
    BY LimitsAreTheToken, Zenon
  <2> HIDE DEF rights
  <2> QED
    BY <1>2, <2>1 DEF MayCall
<1> HIDE DEF db, rd, rights
<1>7. Answers(c, s, call) <=>
        /\ call.tool \in skill.tools
        /\ \/ CatalogAnswers(rights, call) \/ ScanAnswers(rights, call)
           \/ RecordAnswers(rights, call) \/ AnnotateAnswers(rights, call)
           \/ ExportAnswers(rights, call)
  BY <1>6 DEF Answers, rights
<1>8. Told(call) <=>
        /\ call.tool \in skill.tools
        /\ call.tool \in OfDatabase => db
        /\ call.tool \in OfContainer => rd
        /\ call.tool = "get_sample" /\ ~call.mask => rights.raw
  BY <1>4, <1>5, <1>6 DEF Told
<1>9. CASE call.tool \in CatalogTools
  BY <1>1, <1>3, <1>6, <1>7, <1>8, <1>9
     DEF CatalogTools, CatalogAnswers, ScanAnswers, RecordAnswers, AnnotateAnswers,
         ExportAnswers, OfDatabase, OfContainer, ToolNames, InventoryTools
<1>10. CASE call.tool \in InventoryTools
  BY <1>1, <1>3, <1>6, <1>7, <1>8, <1>10
     DEF InventoryTools, CatalogAnswers, ScanAnswers, RecordAnswers, AnnotateAnswers,
         ExportAnswers, OfDatabase, OfContainer, ToolNames, CatalogTools
<1> QED
  BY <1>1, <1>9, <1>10 DEF ToolNames

LEMMA TheTruth == BundleInv => SkillTellsTheTruth
<1> SUFFICES ASSUME BundleInv, InForce
             PROVE  SkillTellsTheTruth
  BY DEF SkillTellsTheTruth
<1>1. serving \in Settings /\ skill = Skill(mcp, serving) /\ serving.auth
  BY DEF BundleInv, InForce
<1>2. \A call \in Calls :
        /\ Told(call) => Answers(mcp, serving, call)
        /\ Answers(mcp, serving, call) =>
             \/ Told(call)
             \/ call.tool = "inventory_export" /\ call.tool \in skill.tools
  BY <1>1, ToldIsAnswered
<1>3. \A c \in Containers : ToldReadable(c) <=> MayRead(Caller(mcp, serving), c)
  BY <1>1, LimitsAreTheToken DEF ToldReadable, MayRead, Permits
<1>4. \A tool \in ListingTools, c \in Containers :
        /\ ToldReadable(c) => Lists(mcp, serving, tool, c)
        /\ Lists(mcp, serving, tool, c) => ToldReadable(c) \/ tool \in Unfiltered
  BY <1>3 DEF Lists
<1>5. \A d \in Databases : skill.databases = {} \/ d \in skill.databases
                             <=> Offers(mcp, serving, d)
  BY <1>1, LimitsAreTheToken DEF Offers, MayUseDatabase
<1>6. WritesAsHuman(mcp, serving) <=> skill.human \/ LegacyHumanScope \in mcp.scopes
  BY <1>1, LimitsAreTheToken DEF WritesAsHuman
<1> QED
  BY <1>2, <1>4, <1>5, <1>6 DEF SkillTellsTheTruth

\* An agent that does what its SKILL.md says is answered, and what the document
\* does not say is refused, but for the exceptions that SkillTellsTheTruth names
\* (the database of an export, and two listings): for any token, roles file,
\* flags and deployment, whatever was edited or cut short since, but between
\* the two files (provision.py main; server.py, permissions.py).
THEOREM DocumentsAreTrue == Spec => []SkillTellsTheTruth
<1>1. Init => BundleInv
  BY BundleInit
<1>2. BundleInv /\ [Next]_vars => BundleInv'
  BY BundleKept
<1>3. BundleInv => SkillTellsTheTruth
  BY TheTruth
<1> QED
  BY <1>1, <1>2, <1>3, PTL DEF Spec

-----------------------------------------------------------------------------
(* The table of roles that a file comes to *)

\* What is made of a name met after those of the trail, when g says what is made
\* of every other.
Given(f, g, trail, n) ==
    IF n \in trail THEN Bad
    ELSE IF "extends" \notin DOMAIN f[n] THEN Build(f[n], NoParent)
    ELSE IF f[n].extends \notin DOMAIN f THEN Bad
    ELSE LET parent == g[trail \cup {n}][f[n].extends]
         IN IF parent = Bad THEN Bad ELSE Build(f[n], parent)

Table(f, g) == [trail \in SUBSET DOMAIN f |-> [n \in DOMAIN f |-> Given(f, g, trail, n)]]

RoleTable(f) == CHOOSE g : g = Table(f, g)

LEMMA ResolveReads == ASSUME NEW f PROVE Resolve(f) = RoleTable(f)[{}]
  BY Zenon DEF Resolve, RoleTable, Table, Given

LEMMA TableAt ==
    ASSUME NEW f, NEW g, NEW trail \in SUBSET DOMAIN f, NEW n \in DOMAIN f
    PROVE  Table(f, g)[trail][n] = Given(f, g, trail, n)
  BY DEF Table

\* Where at most k names are left, g says of each what it says of the others.
Settles(f, g, k) ==
    \A trail \in SUBSET DOMAIN f, n \in DOMAIN f :
        Cardinality(DOMAIN f \ trail) <= k => g[trail][n] = Given(f, g, trail, n)

LEMMA OneNameLess ==
    ASSUME NEW D, IsFiniteSet(D), NEW trail \in SUBSET D, NEW n \in D \ trail
    PROVE  /\ trail \cup {n} \in SUBSET D
           /\ Cardinality(D \ trail) \in Nat
           /\ Cardinality(D \ (trail \cup {n})) = Cardinality(D \ trail) - 1
<1>1. D \ (trail \cup {n}) = (D \ trail) \ {n}
  OBVIOUS
<1>2. IsFiniteSet(D \ trail)
  BY FS_Difference
<1>3. Cardinality((D \ trail) \ {n}) = Cardinality(D \ trail) - 1
  BY <1>2, FS_RemoveElement
<1> QED
  BY <1>1, <1>2, <1>3, FS_CardinalityType

LEMMA OneMoreSettles ==
    ASSUME NEW f, IsFiniteSet(DOMAIN f), NEW k \in Nat, NEW g, Settles(f, g, k)
    PROVE  Settles(f, Table(f, g), k + 1)
<1> DEFINE h == Table(f, g)
<1> SUFFICES ASSUME NEW trail \in SUBSET DOMAIN f, NEW n \in DOMAIN f,
                    Cardinality(DOMAIN f \ trail) <= k + 1
             PROVE  h[trail][n] = Given(f, h, trail, n)
  BY DEF Settles
<1>1. h[trail][n] = Given(f, g, trail, n)
  BY TableAt
<1> HIDE DEF h
<1>2. CASE n \in trail \/ "extends" \notin DOMAIN f[n] \/ f[n].extends \notin DOMAIN f
  BY <1>1, <1>2 DEF Given
<1>3. CASE n \notin trail /\ f[n].extends \in DOMAIN f
  <2> DEFINE p == f[n].extends
             further == trail \cup {n}
  <2>1. /\ p \in DOMAIN f /\ further \in SUBSET DOMAIN f
        /\ Cardinality(DOMAIN f \ further) <= k
    BY <1>3, OneNameLess
  <2>2. g[further][p] = Given(f, g, further, p)
    BY <2>1 DEF Settles
  <2>3. h[further][p] = Given(f, g, further, p)
    BY <2>1, TableAt DEF h
  <2> QED
    BY <1>1, <2>2, <2>3 DEF Given
<1> QED
  BY <1>2, <1>3

\* Every file comes to a table, since a trail takes up its names.
LEMMA TableIsThere ==
    ASSUME NEW f, IsFiniteSet(DOMAIN f)
    PROVE  RoleTable(f) = Table(f, RoleTable(f))
<1> DEFINE D == DOMAIN f
           Settled(U) == \E g : Settles(f, g, Cardinality(U))
           left == {U \in SUBSET D : ~Settled(U)}
           O == StrictSubsetOrdering(D)
<1>1. IsWellFoundedOn(O, FiniteSubsetsOf(D)) /\ FiniteSubsetsOf(D) = SUBSET D
  BY FS_StrictSubsetOrderingWellFounded, FS_FiniteSubsetsOfFinite
<1>2. ASSUME left # {} PROVE FALSE
  <2>1. PICK U \in left : \A V \in left : ~ (<<V, U>> \in O)
    <3>1. left \subseteq SUBSET D
      OBVIOUS
    <3> HIDE DEF left, O, D
    <3> QED
      BY <1>1, <1>2, <3>1, WFMin
  <2>2. U \in SUBSET D /\ ~Settled(U)
    OBVIOUS
  <2>3. CASE U = {}
    <3> DEFINE g == Table(f, 0)
    <3>1. Cardinality(U) = 0
      BY <2>3, FS_EmptySet
    <3>2. Settles(f, g, 0)
      <4> SUFFICES ASSUME NEW trail \in SUBSET DOMAIN f, NEW n \in DOMAIN f,
                          Cardinality(DOMAIN f \ trail) <= 0
                   PROVE  g[trail][n] = Given(f, g, trail, n)
        BY DEF Settles
      <4>1. n \in trail
        <5> SUFFICES ASSUME n \notin trail PROVE FALSE
          OBVIOUS
        <5>1. IsFiniteSet(DOMAIN f \ trail) /\ DOMAIN f \ trail # {}
          BY FS_Difference
        <5>2. Cardinality(DOMAIN f \ trail) # 0 /\ Cardinality(DOMAIN f \ trail) \in Nat
          BY <5>1, FS_EmptySet, FS_CardinalityType
        <5> QED
          BY <5>2
      <4>2. g[trail][n] = Given(f, 0, trail, n)
        BY TableAt
      <4> HIDE DEF g
      <4> QED
        BY <4>1, <4>2 DEF Given
    <3> HIDE DEF g
    <3> QED
      BY <2>2, <3>1, <3>2
  <2>4. CASE U # {}
    <3>1. PICK x \in U : TRUE
      BY <2>4
    <3> DEFINE V == U \ {x}
    <3>2. V \in SUBSET D /\ <<V, U>> \in O
      BY <2>2, <3>1 DEF StrictSubsetOrdering
    <3>3. IsFiniteSet(U) /\ IsFiniteSet(V)
          /\ Cardinality(V) \in Nat /\ Cardinality(U) = Cardinality(V) + 1
      <4>1. IsFiniteSet(U)
        BY <2>2, FS_Subset
      <4>2. IsFiniteSet(V) /\ Cardinality(V) = Cardinality(U) - 1
        BY <3>1, <4>1, FS_RemoveElement
      <4> QED
        BY <4>1, <4>2, FS_CardinalityType
    <3>4. Settled(V)
      <4> HIDE DEF V, Settled, O
      <4>1. V \notin left
        BY <2>1, <3>2
      <4> QED
        BY <3>2, <4>1
    <3>5. PICK g : Settles(f, g, Cardinality(V))
      BY <3>4
    <3>6. Settles(f, Table(f, g), Cardinality(U))
      <4> HIDE DEF V
      <4> QED
        BY <3>3, <3>5, OneMoreSettles
    <3> QED
      BY <2>2, <3>6
  <2> QED
    BY <2>3, <2>4
<1>3. PICK g : Settles(f, g, Cardinality(D))
  <2>1. D \in SUBSET D /\ Settled(D)
    BY <1>2
  <2> QED
    BY <2>1
<1>4. ASSUME NEW trail \in SUBSET DOMAIN f, NEW n \in DOMAIN f
      PROVE  g[trail][n] = Given(f, g, trail, n)
  <2>1. Cardinality(DOMAIN f \ trail) <= Cardinality(DOMAIN f)
    BY FS_Subset
  <2> QED
    BY <1>3, <2>1 DEF Settles
<1> DEFINE w == Table(f, g)
<1>5. ASSUME NEW trail \in SUBSET DOMAIN f, NEW n \in DOMAIN f
      PROVE  Given(f, w, trail, n) = Given(f, g, trail, n)
  <2>1. \A t \in SUBSET DOMAIN f, m \in DOMAIN f : w[t][m] = g[t][m]
    BY <1>4, TableAt
  <2> HIDE DEF w
  <2>2. trail \cup {n} \in SUBSET DOMAIN f
    OBVIOUS
  <2> QED
    BY <2>1, <2>2 DEF Given
<1>6. w = Table(f, w)
  <2> HIDE DEF w
  <2>1. Table(f, w) = Table(f, g)
    BY <1>5 DEF Table
  <2> QED
    BY <2>1 DEF w
<1> HIDE DEF w
<1> QED
  BY <1>6, Zenon DEF RoleTable

\* What the table says of a name.
LEMMA RoleTableAt ==
    ASSUME NEW f, IsFiniteSet(DOMAIN f), NEW trail \in SUBSET DOMAIN f, NEW n \in DOMAIN f
    PROVE  RoleTable(f)[trail][n] = Given(f, RoleTable(f), trail, n)
<1>1. RoleTable(f) = Table(f, RoleTable(f))
  BY TableIsThere
<1>2. Table(f, RoleTable(f))[trail][n] = Given(f, RoleTable(f), trail, n)
  BY TableAt
<1> QED
  BY <1>1, <1>2, Zenon

-----------------------------------------------------------------------------
(* A section and what it extends *)

LEMMA AboveItself == ASSUME NEW f, NEW n \in DOMAIN f PROVE n \in Above(f, n)
  BY DEF Above

LEMMA AboveTop ==
    ASSUME NEW f, NEW n \in DOMAIN f, "extends" \notin DOMAIN f[n]
    PROVE  Above(f, n) = {n}
<1>1. {n} \in SUBSET DOMAIN f
  OBVIOUS
<1>2. ASSUME NEW a \in Above(f, n) PROVE a \in {n}
  <2>1. \A m \in {n} : "extends" \in DOMAIN f[m] => f[m].extends \in {n}
    OBVIOUS
  <2> QED
    BY <1>1, <2>1 DEF Above
<1> QED
  BY <1>2, AboveItself

LEMMA AboveChild ==
    ASSUME NEW f, NEW n \in DOMAIN f, "extends" \in DOMAIN f[n], f[n].extends \in DOMAIN f
    PROVE  Above(f, n) = {n} \cup Above(f, f[n].extends)
<1> DEFINE p == f[n].extends
<1>1. ASSUME NEW a \in Above(f, p) PROVE a \in Above(f, n)
  BY <1>1 DEF Above
<1>2. ASSUME NEW a \in Above(f, n), a # n PROVE a \in Above(f, p)
  <2> SUFFICES ASSUME NEW S \in SUBSET DOMAIN f, p \in S,
                      \A m \in S : "extends" \in DOMAIN f[m] => f[m].extends \in S
               PROVE  a \in S
    BY DEF Above
  <2>1. S \cup {n} \in SUBSET DOMAIN f
    OBVIOUS
  <2>2. \A m \in S \cup {n} : "extends" \in DOMAIN f[m] => f[m].extends \in S \cup {n}
    OBVIOUS
  <2> QED
    BY <1>2, <2>1, <2>2 DEF Above
<1> QED
  BY <1>1, <1>2, AboveItself

LEMMA AboveAbove ==
    ASSUME NEW f, NEW n, NEW a \in Above(f, n)
    PROVE  Above(f, a) \subseteq Above(f, n)
  BY DEF Above

\* The section that decides on a key.
Decides(f, n, key) ==
    CHOOSE a \in {c \in Above(f, n) : key \in DOMAIN f[c]} :
        \A b \in {c \in Above(f, n) : key \in DOMAIN f[c]} : ~Nearer(f, b, a)

LEMMA NearestIs ==
    ASSUME NEW f, NEW n, NEW key, NEW default
    PROVE  Nearest(f, n, key, default)
             = IF {a \in Above(f, n) : key \in DOMAIN f[a]} = {} THEN default
               ELSE f[Decides(f, n, key)][key]
  BY Zenon DEF Nearest, Decides

\* n extends nothing; n extends p, and is not met again above it.
IsTop(f, n) == Above(f, n) = {n}

IsUnder(f, n, p) == Above(f, n) = {n} \cup Above(f, p) /\ n \notin Above(f, p)

LEMMA NearestOfTop ==
    ASSUME NEW f, NEW n, IsTop(f, n), NEW key, NEW default
    PROVE  Nearest(f, n, key, default) = Field(f[n], key, default)
<1> USE DEF IsTop
<1> DEFINE set == {a \in Above(f, n) : key \in DOMAIN f[a]}
<1>1. CASE key \in DOMAIN f[n]
  <2>1. set = {n}
    BY <1>1
  <2>2. Decides(f, n, key) = n
    <3>1. \A b \in set : ~Nearer(f, b, n)
      BY <2>1 DEF Nearer
    <3> QED
      BY <2>1, <3>1 DEF Decides
  <2> QED
    BY <1>1, <2>1, <2>2, NearestIs DEF Field
<1>2. CASE key \notin DOMAIN f[n]
  <2>1. set = {}
    BY <1>2
  <2> QED
    BY <1>2, <2>1, NearestIs DEF Field
<1> QED
  BY <1>1, <1>2

LEMMA NearestOfChild ==
    ASSUME NEW f, NEW n, NEW p, IsUnder(f, n, p), NEW key, NEW default
    PROVE  Nearest(f, n, key, default) = Field(f[n], key, Nearest(f, p, key, default))
<1> USE DEF IsUnder
<1> DEFINE set == {a \in Above(f, n) : key \in DOMAIN f[a]}
<1>1. CASE key \in DOMAIN f[n]
  <2>1. n \in set
    BY <1>1
  <2>2. \A b \in set : ~Nearer(f, b, n)
    BY AboveAbove DEF Nearer
  <2>3. \A a \in set : a # n => Nearer(f, n, a)
    BY DEF Nearer
  <2>4. Decides(f, n, key) = n
    BY <2>1, <2>2, <2>3 DEF Decides
  <2>5. Nearest(f, n, key, default) = f[n][key]
    BY <2>1, <2>4, NearestIs
  <2> QED
    BY <1>1, <2>5 DEF Field
<1>2. CASE key \notin DOMAIN f[n]
  <2>1. set = {a \in Above(f, p) : key \in DOMAIN f[a]}
    BY <1>2
  <2>2. Decides(f, n, key) = Decides(f, p, key)
    BY <2>1, Zenon DEF Decides
  <2>3. Nearest(f, n, key, default) = Nearest(f, p, key, default)
    BY <2>1, <2>2, NearestIs
  <2> QED
    BY <1>2, <2>3 DEF Field
<1> QED
  BY <1>1, <1>2

\* The lists of a section's containers, read as keys of their own.
LEMMA ContainersAreKeys ==
    ASSUME NEW f, NEW n \in DOMAIN f, NEW key \in ContainerKeys, NEW default
    PROVE  Field(ContainerSets(f, key)[n], key, default)
             = Field(Field(f[n], "containers", <<>>), key, default)
<1> DEFINE g == ContainerSets(f, key)
           c == Field(f[n], "containers", <<>>)
<1>1. key # "extends"
  BY DEF ContainerKeys
<1>2. DOMAIN g[n] = (DOMAIN f[n] \cap {"extends"}) \cup ({key} \cap DOMAIN c)
  BY DEF ContainerSets
<1>3. key \in DOMAIN g[n] <=> key \in DOMAIN c
  BY <1>1, <1>2
<1>4. key \in DOMAIN c => g[n][key] = f[n].containers[key]
  BY <1>1 DEF ContainerSets
<1>5. key \in DOMAIN c => c = f[n].containers
  <2>1. key \notin DOMAIN <<>>
    OBVIOUS
  <2> QED
    BY <2>1 DEF Field
<1> HIDE DEF g, c
<1>6. Field(g[n], key, default) = Field(c, key, default)
  BY <1>3, <1>4, <1>5 DEF Field
<1> QED
  BY <1>6 DEF g, c

LEMMA ContainersExtendAlike ==
    ASSUME NEW f, NEW n, NEW key \in ContainerKeys
    PROVE  Above(ContainerSets(f, key), n) = Above(f, n)
<1> DEFINE g == ContainerSets(f, key)
<1>1. DOMAIN g = DOMAIN f
  BY DEF ContainerSets
<1>2. ASSUME NEW m \in DOMAIN f
      PROVE  /\ "extends" \in DOMAIN g[m] <=> "extends" \in DOMAIN f[m]
             /\ "extends" \in DOMAIN f[m] => g[m].extends = f[m].extends
  BY DEF ContainerSets, ContainerKeys
<1> HIDE DEF g
<1>3. Above(g, n) = Above(f, n)
  BY <1>1, <1>2 DEF Above
<1> QED
  BY <1>3 DEF g

-----------------------------------------------------------------------------
(* The last word *)

\* The nearest section to mention a tool decides on it.
ToolsDecided(f, n, tools) ==
    \A t \in ToolNames :
        t \in tools <=>
          \E a \in Above(f, n) : /\ Gives(f[a], t)
                                 /\ \A b \in Above(f, n) : Takes(f[b], t) => Nearer(f, a, b)

LastWord(f, n, role) ==
    /\ ToolsDecided(f, n, role.tools)
    /\ role.databases = Nearest(f, n, "databases", {})
    /\ role.raw = Nearest(f, n, "allow_raw_sample", FALSE)
    /\ role.human = Nearest(f, n, "annotate_as_human", FALSE)
    /\ role.allow = Nearest(ContainerSets(f, "allow"), n, "allow", {})
    /\ role.deny = Nearest(ContainerSets(f, "deny"), n, "deny", {})

LEMMA BuildIs ==
    ASSUME NEW section, NEW base, Build(section, base) # Bad
    PROVE  LET containers == Field(section, "containers", <<>>)
               role == Build(section, base)
           IN  /\ ~Refusable(section, base)
               /\ role.tools = ToolsOf(section, base)
               /\ role.databases = Field(section, "databases", base.databases)
               /\ role.raw = Field(section, "allow_raw_sample", base.raw)
               /\ role.human = Field(section, "annotate_as_human", base.human)
               /\ role.allow = Field(containers, "allow", base.allow)
               /\ role.deny = Field(containers, "deny", base.deny)
  BY DEF Build

\* What a section that is not refused has to say of a tool.
LEMMA SectionSays ==
    ASSUME NEW section, NEW base, ~Refusable(section, base), NEW t
    PROVE  t \in ToolsOf(section, base) <=>
             Gives(section, t) \/ (~Takes(section, t) /\ t \in base.tools)
<1>1. CASE "tools" \in DOMAIN section
  <2>1. "add_tools" \notin DOMAIN section /\ "drop_tools" \notin DOMAIN section
    BY <1>1 DEF Refusable
  <2> QED
    BY <1>1, <2>1 DEF ToolsOf, Gives, Takes, Field
<1>2. CASE "tools" \notin DOMAIN section
  BY <1>2 DEF ToolsOf, Gives, Takes, Field
<1> QED
  BY <1>1, <1>2

\* Whoever gives a tool does not take it.
LEMMA GivesOrTakes ==
    ASSUME NEW section, NEW base, ~Refusable(section, base), NEW t, Gives(section, t)
    PROVE  ~Takes(section, t)
<1>1. CASE "tools" \in DOMAIN section
  <2>1. "add_tools" \notin DOMAIN section /\ "drop_tools" \notin DOMAIN section
    BY <1>1 DEF Refusable
  <2> QED
    BY <1>1, <2>1 DEF Gives, Takes, Field
<1>2. CASE "tools" \notin DOMAIN section
  BY <1>2 DEF Gives, Takes, Field
<1> QED
  BY <1>1, <1>2

LEMMA TopHasTheWord ==
    ASSUME NEW f, NEW n \in DOMAIN f, "extends" \notin DOMAIN f[n],
           Build(f[n], NoParent) # Bad
    PROVE  LastWord(f, n, Build(f[n], NoParent))
<1> DEFINE role == Build(f[n], NoParent)
           lists == Field(f[n], "containers", <<>>)
<1>1. Above(f, n) = {n}
  BY AboveTop
<1>2. IsTop(f, n) /\ \A key \in ContainerKeys : IsTop(ContainerSets(f, key), n)
  BY <1>1, ContainersExtendAlike DEF IsTop
<1>3. "allow" \in ContainerKeys /\ "deny" \in ContainerKeys
  BY DEF ContainerKeys
<1>4. /\ role.databases = Field(f[n], "databases", NoParent.databases)
      /\ role.raw = Field(f[n], "allow_raw_sample", NoParent.raw)
      /\ role.human = Field(f[n], "annotate_as_human", NoParent.human)
      /\ role.allow = Field(lists, "allow", NoParent.allow)
      /\ role.deny = Field(lists, "deny", NoParent.deny)
  BY BuildIs, Zenon
<1> HIDE DEF lists
<1>5. /\ role.databases = Field(f[n], "databases", {})
      /\ role.raw = Field(f[n], "allow_raw_sample", FALSE)
      /\ role.human = Field(f[n], "annotate_as_human", FALSE)
      /\ role.allow = Field(lists, "allow", {})
      /\ role.deny = Field(lists, "deny", {})
  <2> HIDE DEF role
  <2> QED
    BY <1>4 DEF NoParent
<1>6. /\ Nearest(f, n, "databases", {}) = Field(f[n], "databases", {})
      /\ Nearest(f, n, "allow_raw_sample", FALSE) = Field(f[n], "allow_raw_sample", FALSE)
      /\ Nearest(f, n, "annotate_as_human", FALSE) = Field(f[n], "annotate_as_human", FALSE)
  BY <1>2, NearestOfTop, Zenon
<1>7. Nearest(ContainerSets(f, "allow"), n, "allow", {}) = Field(lists, "allow", {})
  <2>1. Nearest(ContainerSets(f, "allow"), n, "allow", {})
          = Field(ContainerSets(f, "allow")[n], "allow", {})
    BY <1>2, <1>3, NearestOfTop, Zenon
  <2>2. Field(ContainerSets(f, "allow")[n], "allow", {}) = Field(lists, "allow", {})
    BY <1>3, ContainersAreKeys DEF lists
  <2> QED
    BY <2>1, <2>2, Zenon
<1>8. Nearest(ContainerSets(f, "deny"), n, "deny", {}) = Field(lists, "deny", {})
  <2>1. Nearest(ContainerSets(f, "deny"), n, "deny", {})
          = Field(ContainerSets(f, "deny")[n], "deny", {})
    BY <1>2, <1>3, NearestOfTop, Zenon
  <2>2. Field(ContainerSets(f, "deny")[n], "deny", {}) = Field(lists, "deny", {})
    BY <1>3, ContainersAreKeys DEF lists
  <2> QED
    BY <2>1, <2>2, Zenon
<1>9. ToolsDecided(f, n, role.tools)
  <2> SUFFICES ASSUME NEW t \in ToolNames
               PROVE  t \in role.tools <=>
                        \E a \in Above(f, n) :
                            /\ Gives(f[a], t)
                            /\ \A b \in Above(f, n) : Takes(f[b], t) => Nearer(f, a, b)
    BY DEF ToolsDecided
  <2>1. t \in role.tools <=> Gives(f[n], t)
    <3>1. role.tools = ToolsOf(f[n], NoParent) /\ ~Refusable(f[n], NoParent)
      BY BuildIs, Zenon
    <3>2. t \in ToolsOf(f[n], NoParent) <=>
            Gives(f[n], t) \/ (~Takes(f[n], t) /\ t \in NoParent.tools)
      BY <3>1, SectionSays, Zenon
    <3> HIDE DEF role
    <3> QED
      BY <3>1, <3>2 DEF NoParent
  <2>2. Gives(f[n], t) => ~Takes(f[n], t)
    BY BuildIs, GivesOrTakes
  <2> HIDE DEF role
  <2> QED
    BY <1>1, <2>1, <2>2
<1> HIDE DEF role
<1>10. LastWord(f, n, role)
  BY <1>5, <1>6, <1>7, <1>8, <1>9, Zenon DEF LastWord
<1> QED
  BY <1>10 DEF role

LEMMA ChildHasTheWord ==
    ASSUME NEW f, NEW n \in DOMAIN f, "extends" \in DOMAIN f[n], f[n].extends \in DOMAIN f,
           n \notin Above(f, f[n].extends),
           NEW parent, LastWord(f, f[n].extends, parent), Build(f[n], parent) # Bad
    PROVE  LastWord(f, n, Build(f[n], parent))
<1> DEFINE role == Build(f[n], parent)
           p == f[n].extends
           lists == Field(f[n], "containers", <<>>)
<1>1. Above(f, n) = {n} \cup Above(f, p)
  BY AboveChild
<1>2. IsUnder(f, n, p) /\ \A key \in ContainerKeys : IsUnder(ContainerSets(f, key), n, p)
  BY <1>1, ContainersExtendAlike DEF IsUnder
<1>3. "allow" \in ContainerKeys /\ "deny" \in ContainerKeys
  BY DEF ContainerKeys
<1>4. /\ role.databases = Field(f[n], "databases", parent.databases)
      /\ role.raw = Field(f[n], "allow_raw_sample", parent.raw)
      /\ role.human = Field(f[n], "annotate_as_human", parent.human)
      /\ role.allow = Field(lists, "allow", parent.allow)
      /\ role.deny = Field(lists, "deny", parent.deny)
  BY BuildIs, Zenon
<1> HIDE DEF lists, p
<1>5. /\ parent.databases = Nearest(f, p, "databases", {})
      /\ parent.raw = Nearest(f, p, "allow_raw_sample", FALSE)
      /\ parent.human = Nearest(f, p, "annotate_as_human", FALSE)
      /\ parent.allow = Nearest(ContainerSets(f, "allow"), p, "allow", {})
      /\ parent.deny = Nearest(ContainerSets(f, "deny"), p, "deny", {})
  BY Zenon DEF LastWord, p
<1>6. /\ Nearest(f, n, "databases", {})
           = Field(f[n], "databases", Nearest(f, p, "databases", {}))
      /\ Nearest(f, n, "allow_raw_sample", FALSE)
           = Field(f[n], "allow_raw_sample", Nearest(f, p, "allow_raw_sample", FALSE))
      /\ Nearest(f, n, "annotate_as_human", FALSE)
           = Field(f[n], "annotate_as_human", Nearest(f, p, "annotate_as_human", FALSE))
  <2>1. \A key, default :
          Nearest(f, n, key, default) = Field(f[n], key, Nearest(f, p, key, default))
    BY <1>2, NearestOfChild
  <2> QED
    BY <2>1, Zenon
<1>7. Nearest(ContainerSets(f, "allow"), n, "allow", {}) = Field(lists, "allow", parent.allow)
  <2>1. Nearest(ContainerSets(f, "allow"), n, "allow", {})
          = Field(ContainerSets(f, "allow")[n], "allow",
                  Nearest(ContainerSets(f, "allow"), p, "allow", {}))
    BY <1>2, <1>3, NearestOfChild
  <2>2. Field(ContainerSets(f, "allow")[n], "allow", parent.allow)
          = Field(lists, "allow", parent.allow)
    BY <1>3, ContainersAreKeys DEF lists
  <2> QED
    BY <1>5, <2>1, <2>2, Zenon
<1>8. Nearest(ContainerSets(f, "deny"), n, "deny", {}) = Field(lists, "deny", parent.deny)
  <2>1. Nearest(ContainerSets(f, "deny"), n, "deny", {})
          = Field(ContainerSets(f, "deny")[n], "deny",
                  Nearest(ContainerSets(f, "deny"), p, "deny", {}))
    BY <1>2, <1>3, NearestOfChild
  <2>2. Field(ContainerSets(f, "deny")[n], "deny", parent.deny)
          = Field(lists, "deny", parent.deny)
    BY <1>3, ContainersAreKeys DEF lists
  <2> QED
    BY <1>5, <2>1, <2>2, Zenon
<1>9. ToolsDecided(f, n, role.tools)
  <2> SUFFICES ASSUME NEW t \in ToolNames
               PROVE  t \in role.tools <=>
                        \E a \in Above(f, n) :
                            /\ Gives(f[a], t)
                            /\ \A b \in Above(f, n) : Takes(f[b], t) => Nearer(f, a, b)
    BY DEF ToolsDecided
  <2>1. t \in role.tools <=> Gives(f[n], t) \/ (~Takes(f[n], t) /\ t \in parent.tools)
    BY BuildIs, SectionSays
  <2>2. Gives(f[n], t) => ~Takes(f[n], t)
    BY BuildIs, GivesOrTakes
  <2>3. t \in parent.tools <=>
          \E a \in Above(f, p) : /\ Gives(f[a], t)
                                 /\ \A b \in Above(f, p) : Takes(f[b], t) => Nearer(f, a, b)
    BY DEF LastWord, ToolsDecided, p
  <2>4. \A b \in Above(f, p) : Nearer(f, n, b)
    BY <1>2 DEF Nearer, IsUnder
  <2>5. \A a \in Above(f, p) : ~Nearer(f, a, n)
    BY <1>2, AboveAbove DEF Nearer, IsUnder
  <2> HIDE DEF role, p
  <2> QED
    BY <1>1, <2>1, <2>2, <2>3, <2>4, <2>5
<1> HIDE DEF role
<1>10. LastWord(f, n, role)
  BY <1>4, <1>5, <1>6, <1>7, <1>8, <1>9, Zenon DEF LastWord
<1> QED
  BY <1>10 DEF role

\* The lists of a role, or of flags, are of what there is.
Listed(role) ==
    /\ role.databases \subseteq Databases
    /\ role.allow \subseteq SUBSET Containers
    /\ role.deny \subseteq SUBSET Containers

LEMMA BuildLists ==
    ASSUME NEW f \in Files, NEW n \in DOMAIN f, NEW base, Listed(base), Build(f[n], base) # Bad
    PROVE  Listed(Build(f[n], base))
<1> DEFINE role == Build(f[n], base)
           containers == Field(f[n], "containers", <<>>)
<1>1. /\ role.databases = Field(f[n], "databases", base.databases)
      /\ role.allow = Field(containers, "allow", base.allow)
      /\ role.deny = Field(containers, "deny", base.deny)
  BY BuildIs, Zenon
<1>2. /\ Field(f[n], "databases", {}) \subseteq Databases
      /\ Field(containers, "allow", {}) \subseteq SUBSET Containers
      /\ Field(containers, "deny", {}) \subseteq SUBSET Containers
  BY ListsAssumption
<1> HIDE DEF role, containers
<1>3. Listed(role)
  BY <1>1, <1>2 DEF Listed, Field
<1> QED
  BY <1>3 DEF role

\* What the table says of a name met after those of a trail: above it is none of
\* the trail, and its last word is what it says.
Worded(f, trail) ==
    \A n \in DOMAIN f :
        LET role == RoleTable(f)[trail][n]
        IN  role # Bad => /\ Above(f, n) \cap trail = {}
                          /\ LastWord(f, n, role) /\ Listed(role)

LEMMA WordedStep ==
    ASSUME NEW f \in Files, NEW trail \in SUBSET DOMAIN f,
           \A n \in DOMAIN f \ trail : Worded(f, trail \cup {n})
    PROVE  Worded(f, trail)
<1> DEFINE w == RoleTable(f)
<1> SUFFICES ASSUME NEW n \in DOMAIN f, w[trail][n] # Bad
             PROVE  /\ Above(f, n) \cap trail = {}
                    /\ LastWord(f, n, w[trail][n]) /\ Listed(w[trail][n])
  BY DEF Worded
<1>0. IsFiniteSet(DOMAIN f)
  BY GrantsAssumption
<1>1. w[trail][n] = Given(f, w, trail, n)
  BY <1>0, RoleTableAt
<1> HIDE DEF w
<1>2. n \notin trail
  BY <1>1 DEF Given
<1>3. CASE "extends" \notin DOMAIN f[n]
  <2>1. w[trail][n] = Build(f[n], NoParent)
    BY <1>1, <1>2, <1>3 DEF Given
  <2>2. LastWord(f, n, w[trail][n])
    BY <1>3, <2>1, TopHasTheWord
  <2>3. Above(f, n) = {n}
    BY <1>3, AboveTop
  <2>4. Listed(w[trail][n])
    <3>1. Listed(NoParent)
      BY DEF Listed, NoParent
    <3> QED
      BY <2>1, <3>1, BuildLists
  <2> QED
    BY <1>2, <2>2, <2>3, <2>4
<1>4. CASE "extends" \in DOMAIN f[n]
  <2> DEFINE p == f[n].extends
             parent == w[trail \cup {n}][p]
  <2>1. p \in DOMAIN f /\ parent # Bad /\ w[trail][n] = Build(f[n], parent)
    BY <1>1, <1>2, <1>4 DEF Given
  <2>2. /\ Above(f, p) \cap (trail \cup {n}) = {}
        /\ LastWord(f, p, parent) /\ Listed(parent)
    <3>1. Worded(f, trail \cup {n})
      BY <1>2
    <3> HIDE DEF p
    <3> QED
      BY <2>1, <3>1 DEF Worded, w
  <2>3. n \notin Above(f, p)
    BY <2>2
  <2>4. LastWord(f, n, w[trail][n]) /\ Listed(w[trail][n])
    <3>1. LastWord(f, n, Build(f[n], parent)) /\ Listed(Build(f[n], parent))
      <4> HIDE DEF parent
      <4> QED
        BY <1>4, <2>1, <2>2, <2>3, ChildHasTheWord, BuildLists
    <3> QED
      BY <2>1, <3>1
  <2>5. Above(f, n) = {n} \cup Above(f, p)
    BY <1>4, <2>1, AboveChild
  <2> HIDE DEF p
  <2>6. Above(f, n) \cap trail = {}
    BY <1>2, <2>2, <2>5
  <2> QED
    BY <2>4, <2>6
<1> QED
  BY <1>3, <1>4

\* By induction on the names that are not on the trail.
LEMMA RolesHaveTheWord ==
    ASSUME NEW f \in Files, NEW n \in DOMAIN f, Resolve(f)[n] # Bad
    PROVE  LastWord(f, n, Resolve(f)[n]) /\ Listed(Resolve(f)[n])
<1> DEFINE D == DOMAIN f
           left == {U \in SUBSET D : ~Worded(f, D \ U)}
           O == StrictSubsetOrdering(D)
<1>0. IsFiniteSet(D)
  BY GrantsAssumption
<1>1. IsWellFoundedOn(O, FiniteSubsetsOf(D)) /\ FiniteSubsetsOf(D) = SUBSET D
  BY <1>0, FS_StrictSubsetOrderingWellFounded, FS_FiniteSubsetsOfFinite
<1>2. ASSUME left # {} PROVE FALSE
  <2>1. PICK U \in left : \A V \in left : ~ (<<V, U>> \in O)
    <3>1. left \subseteq SUBSET D
      OBVIOUS
    <3> HIDE DEF left, O, D
    <3> QED
      BY <1>1, <1>2, <3>1, WFMin
  <2> DEFINE trail == D \ U
  <2>2. U \in SUBSET D /\ ~Worded(f, trail) /\ trail \in SUBSET D
    OBVIOUS
  <2>3. ASSUME NEW m \in D \ trail PROVE Worded(f, trail \cup {m})
    <3> DEFINE V == U \ {m}
    <3>1. m \in U /\ V \in SUBSET D /\ trail \cup {m} = D \ V
      BY <2>2
    <3>2. <<V, U>> \in O
      BY <2>2, <3>1 DEF StrictSubsetOrdering
    <3>3. V \notin left
      <4> HIDE DEF V, left, O
      <4> QED
        BY <2>1, <3>2
    <3>4. Worded(f, D \ V)
      <4> HIDE DEF V, D
      <4> QED
        BY <3>1, <3>3
    <3> QED
      BY <3>1, <3>4
  <2> HIDE DEF trail
  <2>4. Worded(f, trail)
    BY <2>2, <2>3, WordedStep
  <2> QED
    BY <2>2, <2>4
<1>3. Worded(f, {})
  <2>1. D \in SUBSET D /\ D \ D = {}
    OBVIOUS
  <2>2. Worded(f, D \ D)
    <3> HIDE DEF D
    <3> QED
      BY <1>2, <2>1
  <2> QED
    BY <2>1, <2>2
<1>4. Resolve(f)[n] = RoleTable(f)[{}][n]
  BY ResolveReads
<1> QED
  BY <1>3, <1>4 DEF Worded

LEMMA StartHasTheWord ==
    ASSUME NEW f \in Files, NEW n, n # None, Start(f, n) # Bad
    PROVE  LastWord(f, n, Start(f, n)) /\ Listed(Start(f, n))
<1>1. n \in DOMAIN f /\ LoadRoles(f) # Bad /\ Start(f, n) = LoadRoles(f)[n]
  BY DEF Start
<1>2. LoadRoles(f) = Resolve(f) /\ Resolve(f)[n] # Bad
  BY <1>1 DEF LoadRoles
<1> QED
  BY <1>1, <1>2, RolesHaveTheWord

\* What is about to be signed for a role is what the nearest section to speak of
\* it says, on every tool, list and flag: for any roles file, with any sections,
\* however they extend one another (roles.py _resolve, _build).
THEOREM NearestSectionDecides == Spec => []LastWordDecides
<1>1. Init => BundleInv
  BY BundleInit
<1>2. BundleInv /\ [Next]_vars => BundleInv'
  BY BundleKept
<1>3. BundleInv => LastWordDecides
  <2> SUFFICES ASSUME file \in Files, job.role # None, Start(file, job.role) # Bad
               PROVE  LastWord(file, job.role, Start(file, job.role))
    BY Zenon DEF BundleInv, LastWordDecides, LastWord, ToolsDecided
  <2> QED
    BY StartHasTheWord
<1> QED
  BY <1>1, <1>2, <1>3, PTL DEF Spec

-----------------------------------------------------------------------------
(* Flags *)

\* What a token says is what was granted.
LEMMA ClaimsSay ==
    ASSUME NEW grants, Listed(grants)
    PROVE  LET rights == FromClaims(Claims(grants))
           IN  /\ rights.tools = grants.tools
               /\ rights.databases = grants.databases
               /\ rights.allow = grants.allow /\ rights.deny = grants.deny
               /\ grants.raw => rights.raw
               /\ rights.raw => grants.raw \/ None = TRUE
               /\ rights.unrestricted = FALSE
<1> DEFINE claims == Claims(grants)
           globs == [allow |-> grants.allow, deny |-> grants.deny]
           nothing == [allow |-> {}, deny |-> {}]
<1>1. Read(claims.databases, {}) = grants.databases
  BY ListsAssumption DEF Claims, Read, Listed
<1>2. Read(claims.containers, nothing) = globs
  <2>1. claims.containers = IF grants.allow = {} /\ grants.deny = {} THEN None ELSE globs
    BY DEF Claims
  <2>2. None # globs
    BY ListsAssumption DEF Listed
  <2> HIDE DEF claims
  <2>3. CASE grants.allow = {} /\ grants.deny = {}
    BY <2>1, <2>3 DEF Read
  <2>4. CASE ~(grants.allow = {} /\ grants.deny = {})
    BY <2>1, <2>2, <2>4 DEF Read
  <2> QED
    BY <2>3, <2>4
<1>3. claims.scopes = grants.tools /\ claims.raw = IF grants.raw THEN TRUE ELSE None
  BY DEF Claims
<1> HIDE DEF claims
<1>4. FromClaims(claims).allow = globs.allow /\ FromClaims(claims).deny = globs.deny
  BY <1>2, Zenon DEF FromClaims
<1>5. /\ FromClaims(claims).tools = grants.tools
      /\ FromClaims(claims).databases = grants.databases
      /\ FromClaims(claims).unrestricted = FALSE
  BY <1>1, <1>3 DEF FromClaims
<1>6. FromClaims(claims).raw = (claims.raw = TRUE)
  BY DEF FromClaims
<1> QED
  BY <1>3, <1>4, <1>5, <1>6 DEF claims

\* The container limit of a grant: what it allows, and what it denies.
Readable(grants, container) ==
    /\ ~\E glob \in grants.deny : container \in glob
    /\ grants.allow = {} \/ \E glob \in grants.allow : container \in glob

Reachable(grants, db) == grants.databases = {} \/ db \in grants.databases

\* What a token of a grant is answered.
LEMMA GrantAnswers ==
    ASSUME NEW grants, Listed(grants), NEW call \in Calls
    PROVE  LET rights == FromClaims(Claims(grants))
           IN  Answers(Claims(grants), Everything, call) <=>
                 /\ call.tool \in grants.tools
                 /\ call.tool \in OfDatabase \ {"inventory_export"}
                      => Reachable(grants, call.database)
                 /\ call.tool \in OfContainer => Readable(grants, call.container)
                 /\ call.tool = "get_sample" => call.mask \/ rights.raw
<1> DEFINE rights == FromClaims(Claims(grants))
           db == Reachable(grants, call.database)
           rd == Readable(grants, call.container)
<1>1. /\ call.tool \in ToolNames /\ call.container # None
      /\ NoContainer(call).database = call.database
      /\ NoContainer(call).container = None
  BY GrantsAssumption DEF Calls, NoContainer
<1>2. /\ rights.tools = grants.tools /\ rights.databases = grants.databases
      /\ rights.allow = grants.allow /\ rights.deny = grants.deny
      /\ rights.unrestricted = FALSE
  BY ClaimsSay, Zenon
<1>3. /\ Caller(Claims(grants), Everything) = rights
      /\ call.tool \in Registered(Everything)
  <2>1. Registered(Everything) = ToolNames
    BY DEF Registered, Everything, ToolNames
  <2>2. Everything.auth = TRUE
    BY DEF Everything
  <2> QED
    BY <1>1, <2>1, <2>2 DEF Caller
<1> HIDE DEF rights
<1>4. /\ HasAccess(rights, call) <=> db /\ rd
      /\ HasAccess(rights, NoContainer(call)) <=> db
  BY <1>1, <1>2 DEF HasAccess, MayRead, MayUseDatabase, Permits, Readable, Reachable
<1>5. Answers(Claims(grants), Everything, call) <=>
        /\ call.tool \in grants.tools
        /\ \/ CatalogAnswers(rights, call) \/ ScanAnswers(rights, call)
           \/ RecordAnswers(rights, call) \/ AnnotateAnswers(rights, call)
           \/ ExportAnswers(rights, call)
  BY <1>2, <1>3 DEF Answers, MayCall
<1> HIDE DEF db, rd
<1>6. CASE call.tool \in CatalogTools
  BY <1>4, <1>5, <1>6
     DEF CatalogTools, CatalogAnswers, ScanAnswers, RecordAnswers, AnnotateAnswers,
         ExportAnswers, OfDatabase, OfContainer, ToolNames, InventoryTools, rights, db, rd
<1>7. CASE call.tool \in InventoryTools
  BY <1>4, <1>5, <1>7
     DEF InventoryTools, CatalogAnswers, ScanAnswers, RecordAnswers, AnnotateAnswers,
         ExportAnswers, OfDatabase, OfContainer, ToolNames, CatalogTools, rights, db, rd
<1> QED
  BY <1>1, <1>6, <1>7 DEF ToolNames

\* What flags leave of a database limit and of a container limit.
LEMMA LimitsMerged ==
    ASSUME NEW start, Listed(start), NEW flags \in Flags, NEW db, NEW container
    PROVE  LET merged == Merged(start, flags)
           IN  /\ Reachable(start, db) =>
                    (Reachable(merged, db) <=>
                       ~(/\ start.databases = {} /\ flags.databases # {}
                         /\ db \notin flags.databases))
               /\ Readable(start, container) =>
                    (Readable(merged, container) <=>
                       /\ ~(/\ start.allow = {} /\ flags.allow # {}
                            /\ ~\E glob \in flags.allow : container \in glob)
                       /\ ~\E glob \in flags.deny : container \in glob)
<1> DEFINE merged == Merged(start, flags)
<1>1. /\ merged.databases = start.databases \cup flags.databases
      /\ merged.allow = start.allow \cup flags.allow
      /\ merged.deny = start.deny \cup flags.deny
  BY DEF Merged
<1> HIDE DEF merged
<1>2. Reachable(start, db) =>
        (Reachable(merged, db) <=> ~(/\ start.databases = {} /\ flags.databases # {}
                                     /\ db \notin flags.databases))
  BY <1>1 DEF Reachable
<1>3. Readable(start, container) =>
        (Readable(merged, container) <=>
           /\ ~(/\ start.allow = {} /\ flags.allow # {}
                /\ ~\E glob \in flags.allow : container \in glob)
           /\ ~\E glob \in flags.deny : container \in glob)
  BY <1>1 DEF Readable
<1> QED
  BY <1>2, <1>3 DEF merged

LEMMA MergedIsAnswered ==
    ASSUME NEW start, Listed(start), NEW flags \in Flags,
           NEW call \in Calls, Answers(Claims(start), Everything, call)
    PROVE  Answers(Claims(Merged(start, flags)), Everything, call)
             <=> ~TakenAway(start, flags, call)
<1> DEFINE merged == Merged(start, flags)
           before == FromClaims(Claims(start)).raw
           after == FromClaims(Claims(merged)).raw
<1>1. Listed(merged)
  <2>1. Listed(flags)
    BY ListsAssumption DEF Listed
  <2> QED
    BY <2>1 DEF Listed, Merged
<1>2. before => after
  <2>1. before => start.raw \/ None = TRUE
    BY ClaimsSay, Zenon
  <2>2. merged.raw => after
    BY <1>1, ClaimsSay, Zenon
  <2>3. None = TRUE => after
    BY DEF FromClaims, Claims
  <2>4. start.raw => merged.raw
    BY DEF Merged
  <2> HIDE DEF before, after, merged
  <2> QED
    BY <2>1, <2>2, <2>3, <2>4
<1>3. start.tools \subseteq merged.tools
  BY DEF Merged
<1>4. Answers(Claims(start), Everything, call) <=>
        /\ call.tool \in start.tools
        /\ call.tool \in OfDatabase \ {"inventory_export"} => Reachable(start, call.database)
        /\ call.tool \in OfContainer => Readable(start, call.container)
        /\ call.tool = "get_sample" => call.mask \/ before
  BY GrantAnswers, Zenon
<1>5. Answers(Claims(merged), Everything, call) <=>
        /\ call.tool \in merged.tools
        /\ call.tool \in OfDatabase \ {"inventory_export"} => Reachable(merged, call.database)
        /\ call.tool \in OfContainer => Readable(merged, call.container)
        /\ call.tool = "get_sample" => call.mask \/ after
  BY <1>1, GrantAnswers, Zenon
<1>6. /\ Reachable(start, call.database) =>
           (Reachable(merged, call.database) <=>
              ~(/\ start.databases = {} /\ flags.databases # {}
                /\ call.database \notin flags.databases))
      /\ Readable(start, call.container) =>
           (Readable(merged, call.container) <=>
              /\ ~(/\ start.allow = {} /\ flags.allow # {}
                   /\ ~\E glob \in flags.allow : call.container \in glob)
              /\ ~\E glob \in flags.deny : call.container \in glob)
  BY LimitsMerged
<1> HIDE DEF merged, before, after
<1>7. Answers(Claims(merged), Everything, call) <=> ~TakenAway(start, flags, call)
  BY <1>2, <1>3, <1>4, <1>5, <1>6 DEF TakenAway
<1> QED
  BY <1>7 DEF merged

\* The container's environment is one of those flags can be passed in.
Asked == pc = "token" => job.flags \in Flags

LEMMA AskedKept == Asked /\ [Next]_vars => Asked'
<1> SUFFICES ASSUME Asked, [Next]_vars
             PROVE  Asked'
  OBVIOUS
<1>1. ASSUME NEW role \in Roles, NEW flags \in Flags, NEW force \in BOOLEAN,
             Provision(role, flags, force)
      PROVE  Asked'
  BY <1>1 DEF Provision, Asked
<1>2. CASE EditRoles \/ EditSettings \/ StartServer
  BY <1>2 DEF EditRoles, EditSettings, StartServer, Asked
<1>3. CASE KeepToken \/ SignToken \/ IssueFails \/ ReadToken \/ WriteMcp \/ WriteSkill \/ Crash
  <2>1. pc' # "token"
    BY <1>3 DEF KeepToken, SignToken, IssueFails, ReadToken, WriteMcp, WriteSkill, Crash
  <2> QED
    BY <2>1 DEF Asked
<1>4. CASE UNCHANGED vars
  BY <1>4 DEF vars, Asked
<1> QED
  BY <1>1, <1>2, <1>3, <1>4 DEF Next

LEMMA StepTakes == BundleInv /\ Asked /\ [Next]_vars => FlagsStep
<1> DEFINE start == Start(file, job.role)
<1> SUFFICES ASSUME BundleInv, Asked, [Next]_vars, token' # token,
                    NEW call \in Calls, Answers(Claims(start), Everything, call)
             PROVE  Answers(token', Everything, call) <=> ~TakenAway(start, job.flags, call)
  BY DEF FlagsStep
<1>1. SignToken
  BY DEF Next, vars, Bundle, EditRoles, EditSettings, StartServer, Provision, KeepToken,
         IssueFails, ReadToken, WriteMcp, WriteSkill, Crash
<1>2. pc = "token" /\ start # Bad /\ token' = Claims(Merged(start, job.flags))
  BY <1>1 DEF SignToken
<1>3. Listed(start)
  <2>1. CASE job.role = None
    BY <2>1 DEF Start, NoParent, Listed
  <2>2. CASE job.role # None
    <3>1. file \in Files
      BY DEF BundleInv
    <3> QED
      BY <1>2, <2>2, <3>1, StartHasTheWord
  <2> QED
    BY <2>1, <2>2
<1>4. job.flags \in Flags
  BY <1>2 DEF Asked
<1> HIDE DEF start
<1> QED
  BY <1>2, <1>3, <1>4, MergedIsAnswered

\* Of what a token of the role alone is answered, one signed for the role and
\* flags is refused what a list that the flags start leaves out and what they
\* deny, and nothing else: for any roles file, and any flags (commands.py _grants,
\* permissions.py from_claims, server.py _require_access).
THEOREM FlagsTakeNothingElse == Spec => FlagsTakeWhatTheyList
<1>1. Init => BundleInv /\ Asked
  BY BundleInit DEF Init, Asked
<1>2. BundleInv /\ Asked /\ [Next]_vars => (BundleInv /\ Asked)'
  BY BundleKept, AskedKept
<1>3. BundleInv /\ Asked /\ [Next]_vars => [FlagsStep]_vars
  BY StepTakes
<1> QED
  BY <1>1, <1>2, <1>3, PTL DEF Spec, FlagsTakeWhatTheyList
=============================================================================
