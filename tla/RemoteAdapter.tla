---------------------------- MODULE RemoteAdapter ----------------------------
(***************************************************************************)
(* Another MCP server behind the adapter interface (adapter/remote_mcp.py):*)
(* threads that call or ping it, a lazy connection made under a lock, the  *)
(* event loop on a thread of its own that everything is submitted to, and  *)
(* its closing by the pool.  Giving up on what was submitted leaves it on  *)
(* the loop, where it may still happen.  What is asked and answered, and   *)
(* the paging that is passed on, are left out.                             *)
(***************************************************************************)
EXTENDS Naturals

CONSTANTS
    Threads,    \* threads that were given the adapter
    Closer,     \* the thread that takes it out of the pool
    Faults,     \* what happens: "timeout", "refuse"
    MaxCalls,   \* bound on calls and pings
    Unlocked      \* no thread holds the lock

ASSUME RemoteAssumption ==
    /\ MaxCalls \in Nat
    /\ Faults \subseteq {"timeout", "refuse"}
    /\ Closer \notin Threads /\ Unlocked \notin Threads \cup {Closer}

VARIABLES
    pc,         \* what each thread is doing
    use,        \* what each thread wants: "call" or "ping"
    result,     \* what came of it
    closed, connected,      \* the adapter's flags
    lock,       \* the thread that holds the adapter's lock
    loop,       \* the event loop: running, stopped, closed
    sessions,   \* how often the client was entered and not left
    adrift,     \* connection attempts given up, and still on the loop
    late,       \* entries after the adapter was closed or the attempt given up
    calls       \* calls and pings so far

adapterVars == <<pc, use, result, closed, connected, lock, loop, sessions, adrift, late, calls>>
connection == <<closed, connected, lock, loop, sessions, adrift, late>>

Users == Threads \cup {Closer}

AdapterInit ==
    /\ pc = [t \in Users |-> "idle"]
    /\ use = [t \in Threads |-> "call"]
    /\ result = [t \in Threads |-> "none"]
    /\ closed = FALSE /\ connected = FALSE
    /\ lock = Unlocked /\ loop = "running"
    /\ sessions = 0 /\ adrift = 0 /\ late = 0
    /\ calls = 0

Go(t, place) == pc' = [pc EXCEPT ![t] = place]

End(t, outcome) ==
    /\ pc' = [pc EXCEPT ![t] = "ended"]
    /\ result' = [result EXCEPT ![t] = outcome]

\* A ping of a closed adapter, or a call, is refused before anything is tried.
Begin(t) ==
    /\ pc[t] = "idle" /\ calls < MaxCalls
    /\ calls' = calls + 1
    /\ \E u \in {"call", "ping"} : use' = [use EXCEPT ![t] = u]
    /\ Go(t, "ensure")
    /\ UNCHANGED <<result, connection>>

Ensure(t) ==
    /\ pc[t] = "ensure"
    /\ IF closed THEN End(t, "error")
       ELSE /\ Go(t, IF connected THEN "submit" ELSE "wait")
            /\ UNCHANGED result
    /\ UNCHANGED <<use, connection, calls>>

\* Whether the adapter was closed meanwhile is not asked again.
Lock(t) ==
    /\ pc[t] = "wait" /\ lock = Unlocked
    /\ \/ /\ connected
          /\ Go(t, "submit")
          /\ UNCHANGED <<result, lock>>
       \/ /\ ~connected /\ loop # "closed"
          /\ lock' = t
          /\ Go(t, "connect")
          /\ UNCHANGED result
       \/ /\ ~connected /\ loop = "closed"
          /\ End(t, "error")
          /\ UNCHANGED lock
    /\ UNCHANGED <<use, closed, connected, loop, sessions, adrift, late, calls>>

Entered == /\ sessions' = sessions + 1
           /\ late' = IF closed THEN late + 1 ELSE late

\* The lock is let go without having kept that there is a connection.
MutConnected(t) ==
    /\ pc[t] = "connect" /\ loop = "running"
    /\ Entered
    /\ lock' = Unlocked
    /\ Go(t, "submit")
    /\ UNCHANGED <<use, result, closed, connected, loop, adrift, calls>>

Connected(t) ==
    /\ pc[t] = "connect" /\ loop = "running"
    /\ Entered
    /\ connected' = TRUE
    /\ lock' = Unlocked
    /\ Go(t, "submit")
    /\ UNCHANGED <<use, result, closed, loop, adrift, calls>>

ConnectFails(t) ==
    /\ pc[t] = "connect" /\ loop = "running" /\ "refuse" \in Faults
    /\ lock' = Unlocked
    /\ End(t, "error")
    /\ UNCHANGED <<use, closed, connected, loop, sessions, adrift, late, calls>>

\* The lock is kept by a thread that no longer waits.
MutConnectTimesOut(t) ==
    /\ pc[t] = "connect"
    /\ loop # "running" \/ "timeout" \in Faults
    /\ adrift' = adrift + 1
    /\ End(t, "error")
    /\ UNCHANGED <<use, closed, connected, lock, loop, sessions, late, calls>>

\* The wait ends after `timeout` seconds; the attempt stays on the loop.
ConnectTimesOut(t) ==
    /\ pc[t] = "connect"
    /\ loop # "running" \/ "timeout" \in Faults
    /\ adrift' = adrift + 1
    /\ lock' = Unlocked
    /\ End(t, "error")
    /\ UNCHANGED <<use, closed, connected, loop, sessions, late, calls>>

\* An attempt nobody waits for any longer.
EnterLate ==
    /\ adrift > 0 /\ loop = "running"
    /\ adrift' = adrift - 1
    /\ \/ sessions' = sessions + 1 /\ late' = late + 1
       \/ UNCHANGED <<sessions, late>>
    /\ UNCHANGED <<pc, use, result, closed, connected, lock, loop, calls>>

\* On a loop that was closed, submitting raises.
Submit(t) ==
    /\ pc[t] = "submit"
    /\ IF loop = "closed" THEN End(t, "error") ELSE Go(t, "answer") /\ UNCHANGED result
    /\ UNCHANGED <<use, connection, calls>>

\* The loop runs it: on a client that was left, it raises.
Answer(t) ==
    /\ pc[t] = "answer" /\ loop = "running"
    /\ \/ sessions > 0 /\ End(t, "answered")
       \/ (sessions = 0 \/ "refuse" \in Faults) /\ End(t, "error")
    /\ UNCHANGED <<use, connection, calls>>

TimesOut(t) ==
    /\ pc[t] = "answer"
    /\ loop # "running" \/ "timeout" \in Faults
    /\ End(t, "error")
    /\ UNCHANGED <<use, connection, calls>>

Return(t) ==
    /\ pc' = [pc EXCEPT ![t] = "idle"]
    /\ result' = [result EXCEPT ![t] = "none"]
    /\ UNCHANGED <<use, connection, calls>>

----------------------------------------------------------------------------
(* Closing.                                                                 *)

BeginClose ==
    /\ pc[Closer] = "idle" /\ ~closed
    /\ lock = Unlocked
    /\ closed' = TRUE
    /\ IF connected THEN lock' = Closer /\ Go(Closer, "leave")
       ELSE UNCHANGED lock /\ Go(Closer, "stop")
    /\ UNCHANGED <<use, result, connected, loop, sessions, adrift, late, calls>>

Leave ==
    /\ pc[Closer] = "leave"
    /\ sessions' = sessions - 1
    /\ connected' = FALSE
    /\ lock' = Unlocked
    /\ Go(Closer, "stop")
    /\ UNCHANGED <<use, result, closed, loop, adrift, late, calls>>

\* Leaving raises or takes too long: the loop is never stopped.
LeaveFails ==
    /\ pc[Closer] = "leave" /\ Faults # {}
    /\ lock' = Unlocked
    /\ Go(Closer, "failed")
    /\ UNCHANGED <<use, result, closed, connected, loop, sessions, adrift, late, calls>>

StopLoop ==
    /\ pc[Closer] = "stop"
    /\ loop' = "stopped"
    /\ Go(Closer, "join")
    /\ UNCHANGED <<use, result, closed, connected, lock, sessions, adrift, late, calls>>

CloseLoop ==
    /\ pc[Closer] = "join"
    /\ loop' = "closed"
    /\ Go(Closer, "done")
    /\ UNCHANGED <<use, result, closed, connected, lock, sessions, adrift, late, calls>>

Close == BeginClose \/ Leave \/ LeaveFails \/ StopLoop \/ CloseLoop

Step(t) == \/ Ensure(t) \/ Lock(t) \/ Connected(t) \/ ConnectFails(t) \/ ConnectTimesOut(t)
           \/ Submit(t) \/ Answer(t) \/ TimesOut(t)

----------------------------------------------------------------------------
\* When the adapter is closed no session is left open but those entered after
\* it was marked closed, or by an attempt that had been given up: two callers
\* never enter twice (remote_mcp.py _ensure, close).
OnlyLateEntriesStay == pc[Closer] = "done" => sessions <= late
=============================================================================
