---------------------------- MODULE Credentials ----------------------------
(***************************************************************************)
(* Keys and tokens of the agents: the command line that makes and signs    *)
(* them (src/auth/commands.py, src/auth/issue.py), the provisioning        *)
(* container that runs it on every start (docker/entrypoint.sh), and the   *)
(* server's directory of public keys with its cache (src/auth/keys.py).    *)
(*                                                                         *)
(* The three files of an identity are on three volumes, which can be lost  *)
(* apart.  A file is written by opening it, which empties it, and then     *)
(* filling it, and the container may be killed between any two steps.  The *)
(* server holds its lock while it reads a key, and stamps the cached copy  *)
(* after the read.                                                         *)
(***************************************************************************)
EXTENDS Integers, FiniteSets

CONSTANTS
    Kids,           \* the identities provisioned on every start
    MaxKeys,        \* bound: key pairs ever made
    Lifetime,       \* of a token
    Ttl,            \* DEFAULT_TTL of the key directory
    ReadTime,       \* the longest a read of a public key takes
    MaxTime,        \* bound on the clock
    MaxCrashes,     \* bound: containers killed
    MaxLosses,      \* bound: volumes lost and keys revoked
    Losses,         \* what can be lost: sets of "private", "public", "out"
    Missing,        \* no such file
    Torn,           \* a file opened for writing and not yet written
    Nobody          \* no identity

Keys == 1 .. MaxKeys            \* key pairs, in the order they are made

ASSUME CredentialsAssumption ==
    /\ IsFiniteSet(Kids) /\ Nobody \notin Kids
    /\ MaxKeys \in Nat /\ MaxCrashes \in Nat /\ MaxLosses \in Nat /\ MaxTime \in Nat
    /\ Lifetime \in Nat \ {0} /\ Ttl \in Nat \ {0}
    /\ ReadTime \in Nat
    /\ Losses \subseteq SUBSET {"private", "public", "out"}
    /\ Missing # Torn /\ Missing \notin Nat /\ Torn \notin Nat

VARIABLES
    signing,     \* <private>/<kid>.pem: a key, Missing or Torn
    public,      \* <keys>/<kid>.pub
    token,       \* <out>/<kid>/<kid>.jwt: [key, exp], Missing or Torn
    handed,      \* <<kid, key>> of the tokens agents hold
    made,        \* key pairs made so far
    run,         \* the container or command at work
    serving,     \* the server: not created, up, or stopped
    cache,       \* _cache: what is remembered of each kid's file, and since when
    reading,     \* the read of a public key in progress
    clock, crashes, losses,
    lost,        \* auxiliary: keys whose signing half was lost
    revoked,     \* auxiliary: kids whose public key an operator removed
    lastOnFile   \* auxiliary: when a kid's file last held each key

files  == <<signing, public, token>>
bounds == <<made, crashes, losses>>
server == <<serving, cache, reading>>
aux    == <<lost, revoked, lastOnFile>>
vars == <<files, handed, bounds, run, server, clock, aux>>

Pem   == Keys \cup {Missing, Torn}
Token == [key : Keys, exp : Nat]
Run   == [job  : {"provision", "keygen"},
          pc   : {"off", "next", "keygen", "create", "save", "file", "filed", "check",
                  "sign", "deliver", "done", "failed"},
          kid  : Kids \cup {Nobody},
          left : SUBSET Kids,           \* identities still to provision
          key  : Keys \cup {Missing},   \* the key it holds in memory
          exp  : Nat]                   \* when the token it has signed ends
Never == -1                             \* no time

NoRun  == [job |-> "provision", pc |-> "off", kid |-> Nobody, left |-> {}, key |-> Missing,
           exp |-> 0]
NoRead == [kid |-> Nobody, pem |-> Missing, since |-> 0]
Empty  == [pem |-> Missing, stamp |-> 0]

At(pc) == run.pc = pc
Busy   == run.pc \notin {"off", "done", "failed"}

\* jwt.decode with this file as the key: an empty one fails like a wrong one.
Verifies(t, pem) ==
    t \notin {Missing, Torn} /\ pem = t.key /\ clock < t.exp

Init ==
    /\ signing = [k \in Kids |-> Missing]
    /\ public = [k \in Kids |-> Missing]
    /\ token = [k \in Kids |-> Missing]
    /\ handed = {}
    /\ made = 0 /\ crashes = 0 /\ losses = 0 /\ clock = 0
    /\ run = NoRun
    /\ serving = "new"
    /\ cache = [k \in Kids |-> Empty]
    /\ reading = NoRead
    /\ lost = {} /\ revoked = {}
    /\ lastOnFile = [k \in Kids |-> [key \in Keys |-> Never]]

-----------------------------------------------------------------------------
(* Provisioning.  A step of the script changes at most one file.            *)

KeepsFiles == UNCHANGED <<files, handed, bounds, server, clock, aux>>
Keeps(v)   == v /\ UNCHANGED <<handed, crashes, losses, server, clock, lost, revoked>>

\* What the time a key was last on file becomes when the file is written.
OnFile(k, pem) ==
    lastOnFile' = [lastOnFile EXCEPT ![k] = [key \in Keys |->
                      IF public[k] = key \/ pem = key THEN clock ELSE @[key]]]

\* `up` provisions every identity; `token keygen` makes one pair.
StartProvision ==
    /\ ~Busy
    /\ run' = [NoRun EXCEPT !.pc = "next", !.left = Kids]
    /\ KeepsFiles

StartKeygen(k) ==
    /\ ~Busy
    /\ run' = [NoRun EXCEPT !.job = "keygen", !.pc = "keygen", !.kid = k]
    /\ KeepsFiles

NextIdentity ==
    /\ At("next")
    /\ \/ \E k \in run.left :
            run' = [run EXCEPT !.pc = "keygen", !.kid = k, !.left = @ \ {k}, !.key = Missing]
       \/ /\ run.left = {}
          /\ run' = [run EXCEPT !.pc = "done", !.kid = Nobody, !.key = Missing]
    /\ KeepsFiles

\* mutant: --if-missing looks at the public half
MutKeygen ==
    /\ At("keygen")
    /\ run' = [run EXCEPT !.pc = IF public[run.kid] = Missing THEN "create" ELSE "check"]
    /\ KeepsFiles

\* _keygen: with --if-missing a signing key on file is kept, and the public
\* half derived from it if that is missing; otherwise one on file is an error.
Keygen ==
    LET sk == signing[run.kid] IN
    /\ At("keygen")
    /\ \/ /\ sk = Missing
          /\ run' = [run EXCEPT !.pc = "create"]
       \/ /\ sk # Missing /\ run.job = "provision" /\ public[run.kid] # Missing
          /\ run' = [run EXCEPT !.pc = "check"]
       \/ /\ sk \in Keys /\ run.job = "provision" /\ public[run.kid] = Missing
          /\ run' = [run EXCEPT !.pc = "file", !.key = sk]
       \/ /\ \/ sk # Missing /\ run.job = "keygen"
             \/ sk = Torn /\ public[run.kid] = Missing
          /\ run' = [run EXCEPT !.pc = "failed"]
    /\ KeepsFiles

\* mutant: the public half is filed before the signing half is saved
MutCreateSigningKey ==
    /\ At("create")
    /\ made < MaxKeys
    /\ made' = made + 1
    /\ run' = [run EXCEPT !.pc = "file", !.key = made + 1]
    /\ Keeps(UNCHANGED <<files, lastOnFile>>)

\* generate_keypair, and save_private_key opens its file
CreateSigningKey ==
    /\ At("create")
    /\ made < MaxKeys
    /\ made' = made + 1
    /\ signing' = [signing EXCEPT ![run.kid] = Torn]
    /\ run' = [run EXCEPT !.pc = "save", !.key = made + 1]
    /\ Keeps(UNCHANGED <<public, token, lastOnFile>>)

SaveSigningKey ==
    /\ At("save")
    /\ signing' = [signing EXCEPT ![run.kid] = run.key]
    /\ run' = [run EXCEPT !.pc = "file"]
    /\ Keeps(UNCHANGED <<public, token, made, lastOnFile>>)

\* install_public_key, or the restoring of a missing public half
OpenPublicKey ==
    /\ At("file")
    /\ public' = [public EXCEPT ![run.kid] = Torn]
    /\ OnFile(run.kid, Torn)
    /\ run' = [run EXCEPT !.pc = "filed"]
    /\ Keeps(UNCHANGED <<signing, token, made>>)

FilePublicKey ==
    /\ At("filed")
    /\ public' = [public EXCEPT ![run.kid] = run.key]
    /\ OnFile(run.kid, run.key)
    /\ run' = [run EXCEPT !.pc = IF run.job = "keygen" THEN "done" ELSE "check"]
    /\ Keeps(UNCHANGED <<signing, token, made>>)

\* _token_rejected_because, or PROVISION_FORCE: is the token on file one the
\* public key on file verifies?
CheckToken ==
    /\ At("check")
    /\ \/ run' = [run EXCEPT !.pc = "sign"]
       \/ /\ Verifies(token[run.kid], public[run.kid])
          /\ run' = [run EXCEPT !.pc = "next"]
    /\ KeepsFiles

\* mutant: signing does not look at what it signs with
MutSignToken ==
    /\ At("sign")
    /\ token' = [token EXCEPT ![run.kid] = Torn]
    /\ run' = [run EXCEPT !.pc = "deliver", !.key = signing[run.kid],
                                  !.exp = clock + Lifetime]
    /\ Keeps(UNCHANGED <<signing, public, made, lastOnFile>>)

\* token issue reads the signing key, signs, and opens its output
SignToken ==
    /\ At("sign")
    /\ \/ /\ signing[run.kid] \in Keys
          /\ token' = [token EXCEPT ![run.kid] = Torn]
          /\ run' = [run EXCEPT !.pc = "deliver", !.key = signing[run.kid],
                                  !.exp = clock + Lifetime]
       \/ /\ signing[run.kid] \notin Keys
          /\ run' = [run EXCEPT !.pc = "failed"]
          /\ UNCHANGED token
    /\ Keeps(UNCHANGED <<signing, public, made, lastOnFile>>)

DeliverToken ==
    /\ At("deliver")
    /\ token' = [token EXCEPT ![run.kid] = [key |-> run.key, exp |-> run.exp]]
    /\ run' = [run EXCEPT !.pc = "next", !.exp = 0]
    /\ Keeps(UNCHANGED <<signing, public, made, lastOnFile>>)

Provision ==
    \/ NextIdentity \/ Keygen \/ CreateSigningKey \/ SaveSigningKey \/ OpenPublicKey
    \/ FilePublicKey \/ CheckToken \/ SignToken \/ DeliverToken

-----------------------------------------------------------------------------
(* The server *)

\* cmd_serve refuses an empty allowlist; compose starts it after a provision
\* that succeeded, and restarts it without one.
StartServer ==
    /\ serving = "down" \/ (serving = "new" /\ At("done") /\ run.job = "provision")
    /\ \E k \in Kids : public[k] # Missing
    /\ serving' = "up"
    /\ UNCHANGED <<files, handed, bounds, run, cache, reading, clock, aux>>

StopServer ==
    /\ serving = "up"
    /\ serving' = "down"
    /\ cache' = [k \in Kids |-> Empty]
    /\ reading' = NoRead
    /\ UNCHANGED <<files, handed, bounds, run, clock, aux>>

\* mutant: the cached copy does not age
MutFresh(k) == cache[k].pem # Missing

\* The cached copy is used while it is younger than the TTL.
Fresh(k) == cache[k].pem # Missing /\ clock - cache[k].stamp < Ttl

\* PublicKeyDirectory.get, when there is no fresh copy: the file is read, or
\* the copy dropped if there is none ...
ReadKey(k) ==
    /\ serving = "up" /\ reading.kid = Nobody /\ ~Fresh(k)
    /\ IF public[k] = Missing
       THEN cache' = [cache EXCEPT ![k] = Empty] /\ UNCHANGED reading
       ELSE reading' = [kid |-> k, pem |-> public[k], since |-> clock] /\ UNCHANGED cache
    /\ UNCHANGED <<files, handed, bounds, run, serving, clock, aux>>

\* ... and then stamped and kept.
CacheKey ==
    /\ reading.kid # Nobody
    /\ cache' = [cache EXCEPT ![reading.kid] = [pem |-> reading.pem, stamp |-> clock]]
    /\ reading' = NoRead
    /\ UNCHANGED <<files, handed, bounds, run, serving, clock, aux>>

-----------------------------------------------------------------------------
(* Operators, agents and accidents *)

Collect(k) ==
    /\ token[k] \notin {Missing, Torn}
    /\ <<k, token[k].key>> \notin handed
    /\ handed' = handed \cup {<<k, token[k].key>>}
    /\ UNCHANGED <<files, bounds, run, server, clock, aux>>

\* rm <kid>.pub, of a file nobody has open
Revoke(k) ==
    /\ losses < MaxLosses /\ losses' = losses + 1
    /\ public[k] # Missing /\ ~At("filed")
    /\ public' = [public EXCEPT ![k] = Missing]
    /\ OnFile(k, Missing)
    /\ revoked' = revoked \cup {k}
    /\ UNCHANGED <<signing, token, handed, made, crashes, run, server, clock, lost>>

\* Volumes removed, and the containers with them.
LoseVolumes(vs) ==
    /\ losses < MaxLosses /\ losses' = losses + 1
    /\ ~Busy /\ serving # "up"
    /\ run' = NoRun
    /\ serving' = "new"
    /\ signing' = IF "private" \in vs THEN [k \in Kids |-> Missing] ELSE signing
    /\ public' = IF "public" \in vs THEN [k \in Kids |-> Missing] ELSE public
    /\ token' = IF "out" \in vs THEN [k \in Kids |-> Missing] ELSE token
    /\ lost' = IF "private" \in vs THEN lost \cup {signing[k] : k \in Kids} ELSE lost
    /\ lastOnFile' = [k \in Kids |-> [key \in Keys |->
                         IF public[k] = key THEN clock ELSE lastOnFile[k][key]]]
    /\ UNCHANGED <<handed, made, crashes, cache, reading, clock, revoked>>

\* The container is killed; what it wrote stays.
Crash ==
    /\ crashes < MaxCrashes /\ crashes' = crashes + 1
    /\ Busy
    /\ run' = [NoRun EXCEPT !.pc = "failed"]
    /\ UNCHANGED <<files, handed, made, losses, server, clock, aux>>

Tick ==
    /\ clock < MaxTime
    /\ reading.kid # Nobody => clock < reading.since + ReadTime
    /\ clock' = clock + 1
    /\ UNCHANGED <<files, handed, bounds, run, server, aux>>

-----------------------------------------------------------------------------
Next ==
    \/ StartProvision \/ Provision \/ Crash
    \/ StartServer \/ StopServer \/ CacheKey
    \/ \E k \in Kids : StartKeygen(k) \/ ReadKey(k) \/ Collect(k) \/ Revoke(k)
    \/ \E vs \in Losses : LoseVolumes(vs)
    \/ Tick

Spec == Init /\ [][Next]_vars

-----------------------------------------------------------------------------
(* Properties *)

TypeOK ==
    /\ signing \in [Kids -> Pem]
    /\ public \in [Kids -> Pem]
    /\ token \in [Kids -> Token \cup {Missing, Torn}]
    /\ handed \subseteq Kids \X Keys
    /\ made \in 0 .. MaxKeys
    /\ run \in Run
    /\ serving \in {"new", "up", "down"}
    /\ cache \in [Kids -> [pem : Pem, stamp : Nat]]
    /\ reading \in [kid : Kids \cup {Nobody}, pem : Pem, since : Nat]
    /\ clock \in Nat /\ crashes \in Nat /\ losses \in Nat
    /\ lost \subseteq Pem
    /\ revoked \subseteq Kids
    /\ lastOnFile \in [Kids -> [Keys -> Nat \cup {Never}]]

\* A key taken off the file is honoured for at most the TTL and the time one
\* read of the file took, whatever removes or replaces it and whenever the
\* server is restarted.
RevokedWithinTtl ==
    \A k \in Kids : serving = "up" /\ Fresh(k) /\ cache[k].pem \in Keys =>
        \/ public[k] = cache[k].pem
        \/ clock < lastOnFile[k][cache[k].pem] + Ttl + ReadTime

\* No restart, crash or repeated command replaces the pair a token in an
\* agent's hands was signed with, as long as its signing half is not lost.
TokensOutliveRestarts ==
    \A t \in handed : signing[t[1]] = t[2] \/ t[2] \in lost

\* Every key on file for the server has its signing half on file too: no entry
\* of the allowlist is one that nobody can use.
AllowedCanSign ==
    \A k \in Kids : public[k] \in Keys => signing[k] = public[k] \/ public[k] \in lost

\* A key an operator has removed stays removed.
RevokedStaysRevoked ==
    \A k \in revoked : public[k] = Missing
=============================================================================
