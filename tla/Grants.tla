------------------------------- MODULE Grants -------------------------------
(***************************************************************************)
(* From a roles file to what a tool call is told: roles.toml is loaded     *)
(* (core/roles.py), a role and flags become the claims of a token          *)
(* (auth/commands.py, auth/issue.py), the provisioning container writes    *)
(* the token and then, file by file, the bundle that describes it          *)
(* (entrypoint.sh, provision.py), and the server reads the same claims     *)
(* again on every call (auth/verifier.py, auth/permissions.py, server.py). *)
(* A glob is the set of container names it matches. Wording is left out.   *)
(***************************************************************************)
EXTENDS Naturals, FiniteSets

CONSTANTS
    Databases,      \* databases that roles, flags and calls may name
    Containers,     \* names of containers
    Files,          \* roles files an operator may write: name -> section
    Roles,          \* what PROVISION_ROLE may name
    Flags,          \* what may be passed to `token issue` beside the role
    Settings,       \* deployments: [staging, export, auth: BOOLEAN]
    MaxEdits,       \* bound on edits of the roles file and of the settings
    MaxProvisions,  \* bound on provisionings
    None,           \* absent: no role, no claim, no file, no database named
    Bad             \* a roles file, or a role, that is refused

ASSUME GrantsAssumption ==
    /\ MaxEdits \in Nat /\ MaxProvisions \in Nat
    /\ None \notin Databases \cup Containers \cup UNION {DOMAIN f : f \in Files}
    /\ Settings \subseteq [staging : BOOLEAN, export : BOOLEAN, auth : BOOLEAN]
    /\ \A f \in Files : IsFiniteSet(DOMAIN f)

----------------------------------------------------------------------------
(* The table of tools.                                                      *)

CatalogTools == {"list_databases", "list_containers", "get_schema",
                 "get_sample", "profile_column"}
InventoryTools == {"inventory_start", "inventory_status", "inventory_cancel",
                   "inventory_summary", "inventory_containers",
                   "inventory_columns", "inventory_relationships",
                   "inventory_changes", "inventory_search",
                   "inventory_annotate", "inventory_export"}
ToolNames == CatalogTools \cup InventoryTools
NeedsExportDir == {"inventory_export"}

\* What the table says a deployment serves.
Served(settings) == {t \in ToolNames : /\ t \in InventoryTools => settings.staging
                                       /\ t \in NeedsExportDir => settings.export}

\* What the server of a deployment registers.
Registered(settings) ==
    CatalogTools \cup
    IF ~settings.staging THEN {}
    ELSE IF settings.export THEN InventoryTools ELSE InventoryTools \ NeedsExportDir

----------------------------------------------------------------------------
(* The roles file.  A section is a record of the keys that it sets.         *)

KnownKeys == {"extends", "tools", "add_tools", "drop_tools", "databases",
              "containers", "allow_raw_sample", "annotate_as_human"}
ContainerKeys == {"allow", "deny"}

Field(section, key, inherited) == IF key \in DOMAIN section THEN section[key] ELSE inherited

\* What a file and the flags may list, and None is no list.
ASSUME ListsAssumption ==
    /\ \A f \in Files : \A n \in DOMAIN f :
          LET containers == Field(f[n], "containers", <<>>)
          IN /\ Field(f[n], "databases", {}) \subseteq Databases
             /\ Field(containers, "allow", {}) \subseteq SUBSET Containers
             /\ Field(containers, "deny", {}) \subseteq SUBSET Containers
    /\ \A flags \in Flags : /\ flags.databases \subseteq Databases
                            /\ flags.allow \subseteq SUBSET Containers
                            /\ flags.deny \subseteq SUBSET Containers
    /\ \A listed \in SUBSET Databases : None # listed
    /\ \A globs, denied \in SUBSET SUBSET Containers : None # [allow |-> globs, deny |-> denied]

NoParent == [tools |-> {}, databases |-> {}, allow |-> {}, deny |-> {},
             raw |-> FALSE, human |-> FALSE]

ToolsOf(section, base) ==
    Field(section, "tools",
          (base.tools \cup Field(section, "add_tools", {}))
             \ Field(section, "drop_tools", {}))

Refusable(section, base) ==
    \/ "tools" \in DOMAIN section /\ {"add_tools", "drop_tools"} \cap DOMAIN section # {}
    \/ ~(Field(section, "drop_tools", {})
           \subseteq base.tools \cup Field(section, "add_tools", {}))
    \/ ~(ToolsOf(section, base) \subseteq ToolNames)
    \/ ToolsOf(section, base) = {}
    \/ ~(DOMAIN Field(section, "containers", <<>>) \subseteq ContainerKeys)

\* A child that adds to the lists of its parent where it should replace them.
MutBuild(section, base) ==
    LET containers == Field(section, "containers", <<>>)
    IN IF Refusable(section, base) THEN Bad
       ELSE [tools     |-> ToolsOf(section, base),
             databases |-> base.databases \cup Field(section, "databases", {}),
             allow     |-> base.allow \cup Field(containers, "allow", {}),
             deny      |-> base.deny \cup Field(containers, "deny", {}),
             raw       |-> Field(section, "allow_raw_sample", base.raw),
             human     |-> Field(section, "annotate_as_human", base.human)]

Build(section, base) ==
    LET containers == Field(section, "containers", <<>>)
    IN IF Refusable(section, base) THEN Bad
       ELSE [tools     |-> ToolsOf(section, base),
             databases |-> Field(section, "databases", base.databases),
             allow     |-> Field(containers, "allow", base.allow),
             deny      |-> Field(containers, "deny", base.deny),
             raw       |-> Field(section, "allow_raw_sample", base.raw),
             human     |-> Field(section, "annotate_as_human", base.human)]

\* `trail` is the names on the way here: meeting one of them is a circle.  An
\* empty `extends` is none to the code, and a section that has one is written
\* here without the key.
Resolve(f) ==
    LET after[trail \in SUBSET DOMAIN f] ==
          [n \in DOMAIN f |->
              IF n \in trail THEN Bad
              ELSE IF "extends" \notin DOMAIN f[n] THEN Build(f[n], NoParent)
              ELSE IF f[n].extends \notin DOMAIN f THEN Bad
              ELSE LET parent == after[trail \cup {n}][f[n].extends]
                   IN IF parent = Bad THEN Bad ELSE Build(f[n], parent)]
    IN after[{}]

\* One section that cannot be used refuses the whole file.
LoadRoles(f) ==
    IF \E n \in DOMAIN f : ~(DOMAIN f[n] \subseteq KnownKeys) THEN Bad
    ELSE LET roles == Resolve(f)
         IN IF \E n \in DOMAIN f : roles[n] = Bad THEN Bad ELSE roles

----------------------------------------------------------------------------
(* A token: what is asked for, what is written down, what is read back.     *)

\* The role asked for, or what no role grants; Bad when there is no such role.
Start(f, role) ==
    IF role = None THEN NoParent
    ELSE LET roles == LoadRoles(f)
         IN IF roles = Bad \/ role \notin DOMAIN f THEN Bad ELSE roles[role]

\* The flags replace what the role has where they should be added to it.
MutMerged(start, flags) ==
    [start EXCEPT !.tools = IF flags.tools = {} THEN @ ELSE flags.tools]

Merged(start, flags) ==
    [tools     |-> start.tools \cup flags.tools,
     databases |-> start.databases \cup flags.databases,
     allow     |-> start.allow \cup flags.allow,
     deny      |-> start.deny \cup flags.deny,
     raw       |-> start.raw \/ flags.raw,
     human     |-> start.human \/ flags.human]

\* Past the scopes, a claim is written only when there is something to say.
Claims(grants) ==
    [scopes     |-> grants.tools,
     databases  |-> IF grants.databases = {} THEN None ELSE grants.databases,
     containers |-> IF grants.allow = {} /\ grants.deny = {} THEN None
                    ELSE [allow |-> grants.allow, deny |-> grants.deny],
     raw        |-> IF grants.raw THEN TRUE ELSE None,
     human      |-> IF grants.human THEN TRUE ELSE None]

Read(claim, absent) == IF claim = None THEN absent ELSE claim

\* What said the same before there was a claim for it.
LegacyHumanScope == "annotate:human"

FromClaims(claims) ==
    LET containers == Read(claims.containers, [allow |-> {}, deny |-> {}])
    IN [tools        |-> claims.scopes,
        databases    |-> Read(claims.databases, {}),
        allow        |-> containers.allow,
        deny         |-> containers.deny,
        raw          |-> claims.raw = TRUE,
        human        |-> claims.human = TRUE \/ LegacyHumanScope \in claims.scopes,
        unrestricted |-> FALSE]

Local == [tools |-> {}, databases |-> {}, allow |-> {}, deny |-> {},
          raw |-> TRUE, human |-> FALSE, unrestricted |-> TRUE]

----------------------------------------------------------------------------
(* The questions the tools ask.                                             *)

MayCall(rights, tool) == rights.unrestricted \/ tool \in rights.tools

MayUseDatabase(rights, db) ==
    rights.unrestricted \/ rights.databases = {} \/ db \in rights.databases

\* Deny wins, and nothing allowed by name is everything.
Permits(rights, container) ==
    /\ ~\E glob \in rights.deny : container \in glob
    /\ rights.allow = {} \/ \E glob \in rights.allow : container \in glob

MayRead(rights, container) == rights.unrestricted \/ Permits(rights, container)

\* Who is calling: nobody, where no token is asked for.
Caller(credential, settings) == IF settings.auth THEN FromClaims(credential) ELSE Local

HasAccess(rights, call) ==
    /\ MayUseDatabase(rights, call.database)
    /\ call.container # None => MayRead(rights, call.container)

NoContainer(call) == [call EXCEPT !.container = None]

CatalogAnswers(rights, call) ==
    \/ call.tool = "list_databases"
    \/ call.tool = "list_containers" /\ HasAccess(rights, NoContainer(call))
    \/ call.tool \in {"get_schema", "profile_column"} /\ HasAccess(rights, call)
    \/ call.tool = "get_sample" /\ HasAccess(rights, call) /\ (call.mask \/ rights.raw)

ScanAnswers(rights, call) ==
    \/ call.tool = "inventory_start" /\ HasAccess(rights, NoContainer(call))
    \/ call.tool \in {"inventory_status", "inventory_cancel"}

RecordAnswers(rights, call) ==
    \/ /\ call.tool \in {"inventory_summary", "inventory_containers",
                         "inventory_relationships", "inventory_changes",
                         "inventory_search"}
       /\ HasAccess(rights, NoContainer(call))
    \/ call.tool = "inventory_columns" /\ HasAccess(rights, call)

AnnotateAnswers(rights, call) == call.tool = "inventory_annotate" /\ HasAccess(rights, call)

ExportAnswers(rights, call) == call.tool = "inventory_export"

\* Whether a server answers a call that carries this credential.
Answers(credential, settings, call) ==
    LET rights == Caller(credential, settings)
    IN /\ call.tool \in Registered(settings)
       /\ MayCall(rights, call.tool)
       /\ \/ CatalogAnswers(rights, call)
          \/ ScanAnswers(rights, call)
          \/ RecordAnswers(rights, call)
          \/ AnnotateAnswers(rights, call)
          \/ ExportAnswers(rights, call)

\* Tools that answer with names of containers; two of them never ask which of
\* the names the caller may read.
ListingTools == {"list_containers", "inventory_containers", "inventory_search",
                 "inventory_export", "inventory_relationships", "inventory_changes"}
Unfiltered == {"inventory_relationships", "inventory_changes"}

\* Whether an answer of this tool may name this container.
Lists(credential, settings, tool, container) ==
    tool \notin Unfiltered => MayRead(Caller(credential, settings), container)

\* Whether list_databases names this one.
Offers(credential, settings, db) == MayUseDatabase(Caller(credential, settings), db)

\* Whether what a caller describes counts as a person's.
WritesAsHuman(credential, settings) == Caller(credential, settings).human

----------------------------------------------------------------------------
(* The document beside the token.                                           *)

\* A document that lists what the token names, served or not.
MutSkill(claims, settings) ==
    LET containers == Read(claims.containers, [allow |-> {}, deny |-> {}])
    IN [for       |-> settings,
        tools     |-> claims.scopes,
        databases |-> Read(claims.databases, {}),
        allow     |-> containers.allow,
        deny      |-> containers.deny,
        raw       |-> claims.raw = TRUE,
        human     |-> claims.human = TRUE]

CallableNames(claims, settings) == claims.scopes \cap Served(settings)

\* The tools in scope that this deployment serves, and the limits the claims
\* set; `for` is the deployment that it was written for.
Skill(claims, settings) ==
    LET containers == Read(claims.containers, [allow |-> {}, deny |-> {}])
    IN [for       |-> settings,
        tools     |-> CallableNames(claims, settings),
        databases |-> Read(claims.databases, {}),
        allow     |-> containers.allow,
        deny      |-> containers.deny,
        raw       |-> claims.raw = TRUE,
        human     |-> claims.human = TRUE]

----------------------------------------------------------------------------
VARIABLES
    file,       \* the roles file
    settings,   \* the deployment's environment
    serving,    \* the environment the running server was started with
    token,      \* the token file of the bundle
    mcp,        \* the token .mcp.json carries
    skill,      \* SKILL.md
    pc,         \* where the provisioning container is
    job,        \* what it was asked, and what it read
    cut,        \* .mcp.json is ahead of SKILL.md
    edits,      \* edits so far
    provisions  \* provisionings so far

vars == <<file, settings, serving, token, mcp, skill, pc, job, cut, edits, provisions>>

Bundle == <<token, mcp, skill>>

NoJob == [role |-> None, flags |-> None, force |-> FALSE, settings |-> None, claims |-> None]

Init ==
    /\ file \in Files
    /\ settings \in Settings
    /\ serving = settings
    /\ token = None /\ mcp = None /\ skill = None
    /\ pc = "rest" /\ job = NoJob
    /\ cut = FALSE
    /\ edits = 0 /\ provisions = 0

EditRoles ==
    /\ edits < MaxEdits
    /\ \E f \in Files \ {file} : file' = f
    /\ edits' = edits + 1
    /\ UNCHANGED <<settings, serving, Bundle, pc, job, cut, provisions>>

EditSettings ==
    /\ edits < MaxEdits
    /\ \E s \in Settings \ {settings} : settings' = s
    /\ edits' = edits + 1
    /\ UNCHANGED <<file, serving, Bundle, pc, job, cut, provisions>>

StartServer ==
    /\ serving # settings
    /\ serving' = settings
    /\ UNCHANGED <<file, settings, Bundle, pc, job, cut, edits, provisions>>

\* An identity needs a role or a scope; the container keeps its environment.
Provision(role, flags, force) ==
    /\ pc = "rest"
    /\ provisions < MaxProvisions
    /\ role # None \/ flags.tools # {}
    /\ provisions' = provisions + 1
    /\ pc' = "token"
    /\ job' = [role |-> role, flags |-> flags, force |-> force,
               settings |-> settings, claims |-> None]
    /\ UNCHANGED <<file, settings, serving, Bundle, cut, edits>>

\* The token on file is still accepted, and a new one was not asked for.
KeepToken ==
    /\ pc = "token"
    /\ token # None /\ ~job.force
    /\ pc' = "read"
    /\ UNCHANGED <<file, settings, serving, Bundle, job, cut, edits, provisions>>

\* Sign: forced, or no token, or one the server would refuse by now.
SignToken ==
    /\ pc = "token"
    /\ LET start == Start(file, job.role)
       IN /\ start # Bad
          /\ token' = Claims(Merged(start, job.flags))
    /\ pc' = "read"
    /\ UNCHANGED <<file, settings, serving, mcp, skill, job, cut, edits, provisions>>

\* `token issue` says what is wrong with the roles file, and nothing is written.
IssueFails ==
    /\ pc = "token"
    /\ Start(file, job.role) = Bad
    /\ pc' = "rest"
    /\ job' = NoJob
    /\ UNCHANGED <<file, settings, serving, Bundle, cut, edits, provisions>>

\* Everything that is written is worked out before anything is written.
ReadToken ==
    /\ pc = "read"
    /\ job' = [job EXCEPT !.claims = token]
    /\ pc' = "mcp"
    /\ UNCHANGED <<file, settings, serving, Bundle, cut, edits, provisions>>

\* A bundle for a server on the network, with the token written in it, which is
\* the default; the others leave it to the agent's environment.
WriteMcp ==
    /\ pc = "mcp"
    /\ mcp' = job.claims
    /\ cut' = TRUE
    /\ pc' = "skill"
    /\ UNCHANGED <<file, settings, serving, token, skill, job, edits, provisions>>

WriteSkill ==
    /\ pc = "skill"
    /\ skill' = Skill(job.claims, job.settings)
    /\ cut' = FALSE
    /\ pc' = "rest"
    /\ job' = NoJob
    /\ UNCHANGED <<file, settings, serving, token, mcp, edits, provisions>>

\* The container is stopped; what it wrote so far stays.
Crash ==
    /\ pc # "rest"
    /\ pc' = "rest"
    /\ job' = NoJob
    /\ UNCHANGED <<file, settings, serving, Bundle, cut, edits, provisions>>

Next ==
    \/ EditRoles \/ EditSettings \/ StartServer
    \/ \E role \in Roles, flags \in Flags, force \in BOOLEAN : Provision(role, flags, force)
    \/ KeepToken \/ SignToken \/ IssueFails
    \/ ReadToken \/ WriteMcp \/ WriteSkill
    \/ Crash

Spec == Init /\ [][Next]_vars

----------------------------------------------------------------------------
(* Properties.                                                              *)

Claim(S) == SUBSET S \cup {None}

\* The shapes of what is kept between the steps: a provisioning writes no file
\* before it has read a token, and a document is never there without a token
\* beside it (provision.py main).
TypeOK ==
    /\ file \in Files
    /\ settings \in Settings /\ serving \in Settings
    /\ pc \in {"rest", "token", "read", "mcp", "skill"}
    /\ cut \in BOOLEAN
    /\ edits \in 0..MaxEdits /\ provisions \in 0..MaxProvisions
    /\ pc \in {"read", "mcp", "skill"} => token # None
    /\ pc \in {"mcp", "skill"} => job.claims # None
    /\ pc # "rest" => job.settings \in Settings
    /\ mcp # None => token # None
    /\ skill # None => mcp # None /\ skill.for \in Settings

\* `n` and what it extends, up to the top.
Above(f, n) ==
    {a \in DOMAIN f :
        \A S \in SUBSET DOMAIN f :
            (/\ n \in S
             /\ \A m \in S : "extends" \in DOMAIN f[m] => f[m].extends \in S) => a \in S}

Nearer(f, b, a) == a # b /\ a \in Above(f, b)

Gives(section, tool) ==
    tool \in Field(section, "tools", {}) \cup
               (Field(section, "add_tools", {}) \ Field(section, "drop_tools", {}))

Takes(section, tool) ==
    \/ tool \in Field(section, "drop_tools", {})
    \/ "tools" \in DOMAIN section /\ tool \notin section.tools

\* The nearest of `n` and what it extends that sets `key` decides.
Nearest(f, n, key, default) ==
    LET set == {a \in Above(f, n) : key \in DOMAIN f[a]}
    IN IF set = {} THEN default
       ELSE f[CHOOSE a \in set : \A b \in set : ~Nearer(f, b, a)][key]

ContainerSets(f, key) ==
    [n \in DOMAIN f |->
        [k \in (DOMAIN f[n] \cap {"extends"})
               \cup ({key} \cap DOMAIN Field(f[n], "containers", <<>>)) |->
            IF k = "extends" THEN f[n].extends ELSE f[n].containers[k]]]

\* What is about to be signed is what the role's own section says, then the
\* one it extends, and so on up: on a tool the nearest section to mention it
\* has the last word, and a list or a flag is the nearest section's as a whole
\* (roles.py _resolve, _build; the conventions at the head of roles.toml).
LastWordDecides ==
    LET n == job.role
        granted == Start(file, n)
        above == Above(file, n)
    IN pc = "token" /\ n # None /\ granted # Bad =>
         /\ \A t \in ToolNames :
              t \in granted.tools <=>
                \E a \in above : /\ Gives(file[a], t)
                                 /\ \A b \in above : Takes(file[b], t) => Nearer(file, a, b)
         /\ granted.databases = Nearest(file, n, "databases", {})
         /\ granted.raw = Nearest(file, n, "allow_raw_sample", FALSE)
         /\ granted.human = Nearest(file, n, "annotate_as_human", FALSE)
         /\ granted.allow = Nearest(ContainerSets(file, "allow"), n, "allow", {})
         /\ granted.deny = Nearest(ContainerSets(file, "deny"), n, "deny", {})

Calls == {call \in [tool : ToolNames, database : Databases \cup {None},
                    container : Containers, mask : BOOLEAN] :
             call.tool = "get_sample" \/ call.mask}

\* Tools that are about one database, or about one container.
OfDatabase == ToolNames \ {"list_databases", "inventory_status", "inventory_cancel"}
OfContainer == {"get_schema", "get_sample", "profile_column", "inventory_columns",
                "inventory_annotate"}

ToldReadable(container) ==
    /\ ~\E glob \in skill.deny : container \in glob
    /\ skill.allow # {} => \E glob \in skill.allow : container \in glob

\* What a reader of SKILL.md expects of a call.
Told(call) ==
    /\ call.tool \in skill.tools
    /\ call.tool \in OfDatabase /\ skill.databases # {} => call.database \in skill.databases
    /\ call.tool \in OfContainer => ToldReadable(call.container)
    /\ call.tool = "get_sample" /\ ~call.mask => skill.raw

\* The document is of the token beside it and of the server that is running.
InForce == skill # None /\ ~cut /\ skill.for = serving /\ serving.auth

\* An agent that does what its SKILL.md says is not refused, and is refused
\* what the document says it is: of the token in the .mcp.json beside it, and
\* of a server with the settings it was written for, whatever became of the
\* roles file, of later provisionings, and of ones that were cut short
\* anywhere but between the two files (provision.py: "so the skill and the
\* credential can never disagree").  With three exceptions, each named here:
\* an export is not refused for its database, two listings name what the
\* document says is filtered out, and of the scope that came before the claim
\* the document does not know that it makes a person of the caller.
SkillTellsTheTruth ==
    InForce =>
        /\ \A call \in Calls :
             /\ Told(call) => Answers(mcp, serving, call)
             /\ Answers(mcp, serving, call) =>
                  \/ Told(call)
                  \/ call.tool = "inventory_export" /\ call.tool \in skill.tools
        /\ \A tool \in ListingTools, c \in Containers :
             /\ ToldReadable(c) => Lists(mcp, serving, tool, c)
             /\ Lists(mcp, serving, tool, c) => ToldReadable(c) \/ tool \in Unfiltered
        /\ \A d \in Databases :
             skill.databases = {} \/ d \in skill.databases <=> Offers(mcp, serving, d)
        /\ skill.human => WritesAsHuman(mcp, serving)
        /\ WritesAsHuman(mcp, serving) => skill.human \/ LegacyHumanScope \in mcp.scopes

\* "Databases: {names} only." (phrases.toml): nothing is answered of another
\* database.  It does not hold: inventory_export asks for no database
\* (server.py), and without one it writes down the inventory of them all.
DatabaseLimitHolds ==
    InForce => \A call \in Calls : Answers(mcp, serving, call) => Told(call)

\* "These are filtered out of listings too" (phrases.toml): no answer names a
\* container that the document says is never readable.  It does not hold: the
\* edges of inventory_relationships and the rows of inventory_changes are
\* returned as they are recorded (server.py).
DeniedAreNotListed ==
    InForce => \A tool \in ListingTools, c \in Containers :
                 tool \in skill.tools /\ Lists(mcp, serving, tool, c) => ToldReadable(c)

Everything == [staging |-> TRUE, export |-> TRUE, auth |-> TRUE]

\* A list that the flags start where the role has none leaves this call out, or
\* the flags deny its container.
TakenAway(start, flags, call) ==
    \/ /\ call.tool \in OfDatabase \ {"inventory_export"}
       /\ start.databases = {} /\ flags.databases # {}
       /\ call.database \notin flags.databases
    \/ /\ call.tool \in OfContainer
       /\ start.allow = {} /\ flags.allow # {}
       /\ ~\E glob \in flags.allow : call.container \in glob
    \/ /\ call.tool \in OfContainer
       /\ \E glob \in flags.deny : call.container \in glob

\* What a step that signs a token makes of what its role alone is answered.
FlagsStep ==
    token' # token =>
        LET start == Start(file, job.role)
        IN \A call \in Calls :
             Answers(Claims(start), Everything, call) =>
                 (Answers(token', Everything, call) <=> ~TakenAway(start, job.flags, call))

\* Of what a token of the role alone is answered, a token signed for the role
\* and flags is refused what a list that the flags start leaves out and what
\* they deny, and nothing else: flags that only add never cost the holder a
\* call, and --database on a role without databases narrows it to what it names
\* (commands.py _grants; server.py _require_access).
FlagsTakeWhatTheyList == [][FlagsStep]_vars

\* A token signed for a role and flags is answered every call that a token
\* of the role alone is answered (commands.py _grants: "Only adding, never
\* removing"; its --help: flags "never take anything away").  It does not
\* hold: a list is a limit, and to start one, or to deny, is to take away.
FlagsOnlyWiden ==
    [][token' # token =>
         LET ofRole == Claims(Start(file, job.role))
         IN \A call \in Calls : Answers(ofRole, Everything, call)
                                 => Answers(token', Everything, call)]_vars
=============================================================================
