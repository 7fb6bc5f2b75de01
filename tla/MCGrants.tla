------------------------------ MODULE MCGrants ------------------------------
(* Small roles files, flags and deployments for Grants.                     *)
EXTENDS Grants

CONSTANTS d1, d2, secret, plain

MCDatabases == {d1, d2}
MCContainers == {secret, plain}

Clerk == [tools |-> {"get_schema", "inventory_search", "inventory_changes",
                    "inventory_export"},
          containers |-> [deny |-> {{secret}}]]
Sampler == [tools |-> {"get_schema", "get_sample"}, databases |-> {d1},
            allow_raw_sample |-> TRUE]

Writes == [extends |-> "reader", add_tools |-> {"inventory_annotate", "get_sample"},
           annotate_as_human |-> TRUE]
Drops == [extends |-> "reader", drop_tools |-> {"get_schema"},
          containers |-> [allow |-> {{secret}}, deny |-> {}]]
Starts == [extends |-> "reader", add_tools |-> {"inventory_start"}, databases |-> {d2},
           allow_raw_sample |-> FALSE, containers |-> [allow |-> {{plain}}]]
Circles == [extends |-> "lead", tools |-> {"get_schema"}]

Restores == [extends |-> "engineer", add_tools |-> {"get_schema"},
             drop_tools |-> {"get_sample"}]
Hides == [extends |-> "engineer", containers |-> [deny |-> {{plain}}]]
Replaces == [extends |-> "engineer", tools |-> {"list_databases", "inventory_status"}]
Confused == [tools |-> {"list_databases"}, drop_tools |-> {}]

File(r, e, l) == [reader |-> r, engineer |-> e, lead |-> l]

MCFiles == {File(Clerk, Writes, Restores), File(Sampler, Writes, Restores),
            File(Sampler, Drops, Restores), File(Clerk, Drops, Hides),
            File(Sampler, Starts, Hides), File(Clerk, Starts, Replaces),
            File(Clerk, Circles, Hides), File(Clerk, Writes, Confused),
            [reader |-> Sampler]}
MCRoles == {None, "engineer", "lead"}

NoFlags == [tools |-> {}, databases |-> {}, allow |-> {}, deny |-> {},
            raw |-> FALSE, human |-> FALSE]
\* Flags that only add; that name a database; that allow one glob and deny another.
MCFlags == {NoFlags,
            [NoFlags EXCEPT !.tools = {"get_sample", LegacyHumanScope}, !.raw = TRUE],
            [NoFlags EXCEPT !.databases = {d2}],
            [NoFlags EXCEPT !.allow = {{plain}}, !.deny = {{secret}}]}

MCSettings ==
    {[staging |-> TRUE, export |-> TRUE, auth |-> TRUE],
     [staging |-> FALSE, export |-> TRUE, auth |-> TRUE],
     [staging |-> FALSE, export |-> FALSE, auth |-> FALSE]}
=============================================================================
