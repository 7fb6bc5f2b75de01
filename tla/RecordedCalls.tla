---------------------------- MODULE RecordedCalls ----------------------------
(***************************************************************************)
(* Tool calls through a remote adapter, each put on the audit trail when   *)
(* it has ended, well or not, while the server may be killed or its disk   *)
(* refuse a write: RemoteAdapter and AuditLog, with the same threads.      *)
(***************************************************************************)
EXTENDS RemoteAdapter, AuditLog

\* Whoever calls a tool records the call.
ASSUME SameThreads == Writers = Threads

vars == <<adapterVars, auditVars>>

Init == AdapterInit /\ AuditInit

\* The pool pings an adapter before it lends it, which is on no record.
PingEnds(t) ==
    /\ pc[t] = "ended" /\ use[t] = "ping"
    /\ Return(t)
    /\ UNCHANGED auditVars

BeginRecord(t) ==
    /\ pc[t] = "ended" /\ use[t] = "call"
    /\ BeginEmit(t)
    /\ UNCHANGED adapterVars

RecordStep(t) == Rotate(t) /\ UNCHANGED adapterVars

\* The result leaves the server once the call is on record.
CallEnds(t) == Append(t) /\ Return(t)

\* The caller is told of the disk instead of what was read.
DiskRefuses == Interrupt /\ Return(writer)

\* The process dies with its threads, its loop and its locks, and is started
\* again; the calls under way are never answered.
Kill ==
    /\ IF writer # Nobody THEN Interrupt
       ELSE /\ interrupts < MaxInterrupts
            /\ interrupts' = interrupts + 1
            /\ UNCHANGED <<file, writer, stage, index, written>>
    /\ pc' = [t \in Users |-> "idle"]
    /\ result' = [t \in Threads |-> "none"]
    /\ closed' = FALSE /\ connected' = FALSE
    /\ lock' = Unlocked /\ loop' = "running"
    /\ sessions' = 0 /\ adrift' = 0 /\ late' = 0
    /\ UNCHANGED <<use, calls>>

Work(t) ==
    \/ Step(t) /\ UNCHANGED auditVars
    \/ PingEnds(t) \/ BeginRecord(t) \/ RecordStep(t) \/ CallEnds(t)

Next ==
    \/ \E t \in Threads : Begin(t) /\ UNCHANGED auditVars
    \/ \E t \in Threads : Work(t)
    \/ (EnterLate \/ Close) /\ UNCHANGED auditVars
    \/ DiskRefuses
    \/ Kill

Spec == Init /\ [][Next]_vars

\* Threads run on, what the loop is asked is waited for `timeout` seconds at
\* most, and a closing that was begun goes on.
FairSpec ==
    /\ Spec
    /\ \A t \in Threads : WF_vars(Work(t))
    /\ WF_vars(Close /\ pc[Closer] # "idle" /\ UNCHANGED auditVars)

----------------------------------------------------------------------------
\* A call through a remote ends, however the remote, the connection, the
\* closing of the adapter and the disk behave: no thread is left waiting for a
\* loop that was stopped or for one of the two locks (remote_mcp.py _ensure,
\* _call, close; audit.py _emit).
EveryCallReturns == \A t \in Threads : pc[t] # "idle" ~> pc[t] = "idle"
=============================================================================
