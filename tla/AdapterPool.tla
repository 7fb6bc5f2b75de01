---------------------------- MODULE AdapterPool ----------------------------
(***************************************************************************)
(* AdapterPool (src/service/pool.py): one adapter per database, made on    *)
(* demand, shared by every thread that asks for it, closed when it was the *)
(* least recently used of too many, when it sat idle, or when it no longer *)
(* answers.                                                                *)
(*                                                                         *)
(* The pool's lock is held over `get`, pings and connecting included, but  *)
(* not over closing: what is to be closed is taken out under the lock and  *)
(* closed after it.  A borrowed adapter is never given back, so the pool   *)
(* does not know whether one is in use.                                    *)
(***************************************************************************)
EXTENDS Integers, FiniteSets

CONSTANTS
    Callers,       \* threads of the tool pool and of scans
    Reaper,        \* the reaper's thread
    Lifespan,      \* the thread that starts the server and closes it
    Keys,          \* databases, as _resolve_database leaves them
    Adapters,      \* names of the adapters that can exist at a time (a bound)
    MaxSize,       \* max_size
    IdleTimeout,   \* idle_timeout
    MaxTime,       \* bound on the clock
    Faults,        \* "create": connecting may raise; "die": the server may
                   \* drop a connection
    None           \* no adapter, no thread

Threads == Callers \cup {Reaper, Lifespan}

ASSUME PoolAssumption ==
    /\ None \notin Adapters /\ None \notin Threads
    /\ Reaper \notin Callers /\ Lifespan \notin Callers /\ Reaper # Lifespan
    /\ IsFiniteSet(Keys) /\ None \notin Keys
    /\ Adapters \subseteq Nat
    /\ MaxSize \in Nat \ {0}
    /\ IdleTimeout \in Nat \ {0}
    /\ MaxTime \in Nat
    /\ Faults \subseteq {"create", "die"}

VARIABLES
    entry,       \* _adapters: the adapter kept for a key
    used,        \* an entry's last_used
    older,       \* the order of the OrderedDict: <<x, y>> when x is before y
    lock,        \* the thread inside _lock
    pc,          \* where each thread is
    want,        \* the key a call of get asks for, while it needs it
    got,         \* the adapter a caller holds, or is about to
    discarded,   \* what a thread has taken out and has yet to close
    state,       \* what became of each adapter
    clock,       \* the monotonic clock
    stop         \* _stop_reaping

kept == <<entry, used, older>>
vars == <<kept, lock, pc, want, got, discarded, state, clock, stop>>

-----------------------------------------------------------------------------
Pooled == {k \in Keys : entry[k] # None}

\* Names for a new adapter: those nobody refers to any more.
Free == {a \in Adapters : state[a] \in {"closed", "lost"} /\ \A t \in Threads : got[t] # a}

Idle(k) == used[k] + IdleTimeout <= clock

\* _take_expired: the scan runs in the dictionary's order and stops at the
\* first entry that is not idle.
Expired ==
    {k \in Pooled : Idle(k) /\ \A x \in Pooled : <<x, k>> \in older => Idle(x)}

\* mutant: the dictionary forgets the order but keeps the entries
MutWithout(ks) ==
    /\ UNCHANGED <<entry, used>>
    /\ older' = {p \in older : p[1] \notin ks /\ p[2] \notin ks}

\* The dictionary without the keys of ks.
Without(ks) ==
    /\ entry' = [k \in Keys |-> IF k \in ks THEN None ELSE entry[k]]
    /\ used' = [k \in Keys |-> IF k \in ks THEN 0 ELSE used[k]]
    /\ older' = {p \in older : p[1] \notin ks /\ p[2] \notin ks}

AdaptersOf(ks) == {entry[k] : k \in ks}

Init ==
    /\ entry = [k \in Keys |-> None]
    /\ used = [k \in Keys |-> 0]
    /\ older = {}
    /\ lock = None
    /\ pc = [t \in Threads |-> IF t = Reaper THEN "off"
                               ELSE IF t = Lifespan THEN "starting" ELSE "out"]
    /\ want = [t \in Callers |-> None]
    /\ got = [t \in Threads |-> None]
    /\ discarded = [t \in Threads |-> {}]
    /\ state = [a \in Adapters |-> "closed"]
    /\ clock = 0
    /\ stop = FALSE

-----------------------------------------------------------------------------
(* get *)

\* The lock is taken and the expired entries are taken out.
BeginGet(t) ==
    /\ pc[t] = "out"
    /\ lock = None
    /\ lock' = t
    /\ \E k \in Keys : want' = [want EXCEPT ![t] = k]
    /\ Without(Expired)
    /\ discarded' = [discarded EXCEPT ![t] = AdaptersOf(Expired)]
    /\ pc' = [pc EXCEPT ![t] = "lookup"]
    /\ UNCHANGED <<got, state, clock, stop>>

\* The adapter on record answers a ping and is the one to hand out.
FindAlive(t) ==
    /\ pc[t] = "lookup"
    /\ entry[want[t]] # None
    /\ state[entry[want[t]]] = "open"
    /\ got' = [got EXCEPT ![t] = entry[want[t]]]
    /\ pc' = [pc EXCEPT ![t] = "settle"]
    /\ UNCHANGED <<kept, lock, want, discarded, state, clock, stop>>

\* mutant: an adapter that does not answer is replaced and not closed
MutFindNone(t) ==
    /\ pc[t] = "lookup"
    /\ \/ entry[want[t]] = None /\ UNCHANGED kept
       \/ /\ entry[want[t]] # None
          /\ state[entry[want[t]]] # "open"
          /\ Without({want[t]})
    /\ pc' = [pc EXCEPT ![t] = "create"]
    /\ UNCHANGED <<lock, want, got, discarded, state, clock, stop>>

\* It does not, and is taken out; or there is none.
FindNone(t) ==
    /\ pc[t] = "lookup"
    /\ \/ /\ entry[want[t]] = None
          /\ UNCHANGED <<kept, discarded>>
       \/ /\ entry[want[t]] # None
          /\ state[entry[want[t]]] # "open"
          /\ Without({want[t]})
          /\ discarded' = [discarded EXCEPT ![t] = @ \cup {entry[want[t]]}]
    /\ pc' = [pc EXCEPT ![t] = "create"]
    /\ UNCHANGED <<lock, want, got, state, clock, stop>>

\* mutant: nothing is taken out at capacity
MutOverCapacity(order, ks) == {}

\* _take_over_capacity: all but the max_size latest
OverCapacity(order, ks) ==
    {x \in ks : Cardinality({y \in ks : <<x, y>> \in order}) >= MaxSize}

\* create_adapter, and the entry made for it at the end of the dictionary
Create(t) ==
    LET k == want[t]
        keys == Pooled \cup {k}
        order == older \cup (Pooled \X {k})
        evicted == OverCapacity(order, keys)
    IN
    /\ pc[t] = "create"
    /\ \E a \in Free :
          /\ \A b \in Free : a <= b
          /\ entry' = [x \in Keys |-> IF x \in evicted THEN None
                                      ELSE IF x = k THEN a ELSE entry[x]]
          /\ state' = [state EXCEPT ![a] = "open"]
          /\ got' = [got EXCEPT ![t] = a]
    /\ used' = [x \in Keys |-> IF x \in evicted \cup {k} THEN 0 ELSE used[x]]
    /\ older' = {p \in order : p[1] \notin evicted /\ p[2] \notin evicted}
    /\ discarded' = [discarded EXCEPT ![t] = @ \cup AdaptersOf(evicted \ {k})]
    /\ pc' = [pc EXCEPT ![t] = "settle"]
    /\ UNCHANGED <<lock, want, clock, stop>>

\* It raises: the lock is released, and the list of what was taken out goes
\* with the call's frame: nobody will close them.
CreateFails(t) ==
    /\ "create" \in Faults
    /\ pc[t] = "create"
    /\ discarded' = [discarded EXCEPT ![t] = {}]
    /\ pc' = [pc EXCEPT ![t] = "out"]
    /\ want' = [want EXCEPT ![t] = None]
    /\ lock' = None
    /\ state' = [a \in Adapters |-> IF a \in discarded[t] THEN "lost" ELSE state[a]]
    /\ UNCHANGED <<kept, got, clock, stop>>

\* mutant: move_to_end left out
MutMovedToEnd(k) == older

\* move_to_end
MovedToEnd(k) ==
    {p \in older : p[1] # k /\ p[2] # k} \cup ((Pooled \ {k}) \X {k})

\* last_used and move_to_end; the lock is released
Settle(t) ==
    /\ pc[t] = "settle"
    /\ used' = [used EXCEPT ![want[t]] = clock]
    /\ older' = MovedToEnd(want[t])
    /\ lock' = None
    /\ pc' = [pc EXCEPT ![t] = "closing"]
    /\ want' = [want EXCEPT ![t] = None]
    /\ UNCHANGED <<entry, got, discarded, state, clock, stop>>

\* _close_quietly, for each adapter taken out, by whichever thread took it; a close
\* that raises is logged and not tried again, and counts as closed here.
CloseOne(t) ==
    /\ pc[t] = "closing"
    /\ \E a \in discarded[t] :
          /\ state' = [state EXCEPT ![a] = "closed"]
          /\ discarded' = [discarded EXCEPT ![t] = @ \ {a}]
    /\ UNCHANGED <<kept, lock, pc, want, got, clock, stop>>

Return(t) ==
    /\ pc[t] = "closing"
    /\ discarded[t] = {}
    /\ pc' = [pc EXCEPT ![t] = "using"]
    /\ UNCHANGED <<kept, lock, want, got, discarded, state, clock, stop>>

\* The caller is done with the adapter, and tells nobody.
Drop(t) ==
    /\ pc[t] = "using"
    /\ got' = [got EXCEPT ![t] = None]
    /\ pc' = [pc EXCEPT ![t] = "out"]
    /\ UNCHANGED <<kept, lock, want, discarded, state, clock, stop>>

-----------------------------------------------------------------------------
(* The reaper *)

\* mutant: the expired are dropped from the dictionary and not returned
MutReap ==
    /\ pc[Reaper] = "waiting" /\ ~stop /\ lock = None
    /\ Without(Expired)
    /\ pc' = [pc EXCEPT ![Reaper] = "closing"]
    /\ UNCHANGED <<lock, want, got, discarded, state, clock, stop>>

\* reap: take the expired under the lock, close them after it
Reap ==
    /\ pc[Reaper] = "waiting"
    /\ ~stop
    /\ lock = None
    /\ Without(Expired)
    /\ discarded' = [discarded EXCEPT ![Reaper] = AdaptersOf(Expired)]
    /\ pc' = [pc EXCEPT ![Reaper] = "closing"]
    /\ UNCHANGED <<lock, want, got, state, clock, stop>>

Reaped ==
    /\ pc[Reaper] = "closing"
    /\ discarded[Reaper] = {}
    /\ pc' = [pc EXCEPT ![Reaper] = "waiting"]
    /\ UNCHANGED <<kept, lock, want, got, discarded, state, clock, stop>>

ReaperExits ==
    /\ pc[Reaper] = "waiting"
    /\ stop
    /\ pc' = [pc EXCEPT ![Reaper] = "off"]
    /\ UNCHANGED <<kept, lock, want, got, discarded, state, clock, stop>>

-----------------------------------------------------------------------------
(* The server's lifespan *)

\* start_reaper
StartReaper ==
    /\ pc[Lifespan] = "starting"
    /\ stop' = FALSE
    /\ pc' = [pc EXCEPT ![Lifespan] = "serving", ![Reaper] = "waiting"]
    /\ UNCHANGED <<kept, lock, want, got, discarded, state, clock>>

\* close, first part: stop_reaper
StopReaper ==
    /\ pc[Lifespan] = "serving"
    /\ stop' = TRUE
    /\ pc' = [pc EXCEPT ![Lifespan] = "stopping"]
    /\ UNCHANGED <<kept, lock, want, got, discarded, state, clock>>

\* close, second part, when the reaper has ended or the join has timed out:
\* every entry is taken out
TakeAll ==
    /\ pc[Lifespan] = "stopping"
    /\ lock = None
    /\ Without(Pooled)
    /\ discarded' = [discarded EXCEPT ![Lifespan] = AdaptersOf(Pooled)]
    /\ pc' = [pc EXCEPT ![Lifespan] = "closing"]
    /\ UNCHANGED <<lock, want, got, state, clock, stop>>

Closed ==
    /\ pc[Lifespan] = "closing"
    /\ discarded[Lifespan] = {}
    /\ pc' = [pc EXCEPT ![Lifespan] = "closed"]
    /\ UNCHANGED <<kept, lock, want, got, discarded, state, clock, stop>>

-----------------------------------------------------------------------------
(* The environment *)

Tick ==
    /\ clock < MaxTime
    /\ clock' = clock + 1
    /\ UNCHANGED <<kept, lock, pc, want, got, discarded, state, stop>>

\* The server drops a connection; it matters for one that is kept.
Die(a) ==
    /\ "die" \in Faults
    /\ state[a] = "open" /\ a \in AdaptersOf(Pooled)
    /\ state' = [state EXCEPT ![a] = "dead"]
    /\ UNCHANGED <<kept, lock, pc, want, got, discarded, clock, stop>>

-----------------------------------------------------------------------------
Get(t) == \/ FindAlive(t) \/ FindNone(t) \/ Create(t) \/ CreateFails(t)
          \/ Settle(t) \/ Return(t)

Next ==
    \/ \E t \in Callers : BeginGet(t) \/ Get(t) \/ Drop(t)
    \/ \E t \in Threads : CloseOne(t)
    \/ Reap \/ Reaped \/ ReaperExits
    \/ StartReaper \/ StopReaper \/ TakeAll \/ Closed
    \/ Tick
    \/ \E a \in Adapters : Die(a)

Spec == Init /\ [][Next]_vars

\* A call that was begun goes on, and the reaper's wait ends.
FairSpec ==
    /\ Spec
    /\ \A t \in Callers : WF_vars(Get(t))
    /\ \A t \in Threads : WF_vars(CloseOne(t))
    /\ WF_vars(Reap) /\ WF_vars(Reaped)

-----------------------------------------------------------------------------
(* Properties *)

TypeOK ==
    /\ entry \in [Keys -> Adapters \cup {None}]
    /\ used \in [Keys -> Nat]
    /\ older \subseteq Keys \X Keys
    /\ lock \in Threads \cup {None}
    /\ pc \in [Threads -> {"out", "lookup", "create", "settle", "closing", "using",
                           "off", "waiting", "starting", "serving", "stopping", "closed"}]
    /\ want \in [Callers -> Keys \cup {None}]
    /\ got \in [Threads -> Adapters \cup {None}]
    /\ discarded \in [Threads -> SUBSET Adapters]
    /\ state \in [Adapters -> {"open", "dead", "closed", "lost"}]
    /\ clock \in Nat
    /\ stop \in BOOLEAN

\* However gets, sweeps and evictions interleave, the pool never keeps more
\* than max_size adapters.
PoolBounded == Cardinality(Pooled) <= MaxSize

\* The dictionary is in the order of last use, which is what lets a sweep
\* stop at the first entry that is not idle: at a sweep, the prefix it takes
\* is every idle entry.
SweepTakesEveryIdle ==
    lock = None => Expired = {k \in Pooled : Idle(k)}

\* An adapter is kept for one key, or is taken out by one thread to be closed
\* once: never both, and never twice.
TakenOutOnce ==
    /\ \A j, k \in Pooled : entry[j] = entry[k] => j = k
    /\ \A t \in Threads : \A a \in discarded[t] :
          /\ \A k \in Keys : entry[k] # a
          /\ \A s \in Threads \ {t} : a \notin discarded[s]

Owned(a) == (\E k \in Keys : entry[k] = a) \/ (\E t \in Threads : a \in discarded[t])

\* Every adapter not yet closed is kept, or some thread is about to close it,
\* but for those a call of get had taken out when its own connecting raised:
\* sweeps, evictions, replacements and shutting down leak nothing.
OnlyFailureLeaks == \A a \in Adapters : state[a] \notin {"closed", "lost"} => Owned(a)

\* With the reaper running, an adapter that sat idle is closed in the end, by
\* the reaper or by a get that comes first, unless it is asked for again or lost
\* by that get.
IdleIsClosed ==
    \A a \in Adapters :
        (pc[Reaper] # "off" /\ \E k \in Pooled : entry[k] = a /\ Idle(k))
            ~> (state[a] \in {"closed", "lost"} \/ stop \/ \E k \in Pooled : entry[k] = a /\ ~Idle(k))
=============================================================================
