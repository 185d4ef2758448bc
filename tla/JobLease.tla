------------------------------ MODULE JobLease ------------------------------
(***************************************************************************)
(* What a table of jobs promises to whoever runs them, with no queue, no   *)
(* clock and no error code: a task is handed out under numbered leases,    *)
(* never to two holders at once; it is put back only while it has tries    *)
(* left; only the newest lease can settle it, and a stored result names    *)
(* the lease that stored it.  AiJobs implements this with three guarded    *)
(* columns of a row.                                                       *)
(***************************************************************************)
EXTENDS Naturals

CONSTANTS Tasks, MaxTries

VARIABLE task   \* [Tasks -> [phase, lease, tries, result]]

State(phase, lease, tries, result) ==
    [phase |-> phase, lease |-> lease, tries |-> tries, result |-> result]

Init == task = [t \in Tasks |-> State("absent", 0, 0, 0)]

\* Someone asks for the task, or asks again, whatever became of it.
Open(t) == task'[t] = State("open", task[t].lease, 0, task[t].result)

Hold(t) ==
    /\ task[t].phase = "open"
    /\ task[t].tries < MaxTries
    /\ task'[t] = State("held", task[t].lease + 1, task[t].tries + 1, task[t].result)

\* The holder failed, or is presumed dead.
PutBack(t) ==
    /\ task[t].phase = "held"
    /\ task[t].tries < MaxTries
    /\ task'[t] = State("open", task[t].lease, task[t].tries, task[t].result)

\* Settled with a result, which the current lease stores in the same step.
Deliver(t) ==
    /\ task[t].phase = "held"
    /\ task'[t] = State("settled", task[t].lease, task[t].tries, task[t].lease)

\* Settled without one.
GiveUp(t) ==
    /\ task[t].phase \in {"open", "held"}
    /\ task'[t] = State("settled", task[t].lease, task[t].tries, task[t].result)

Remove(t) == task'[t] = State("absent", task[t].lease, 0, 0)

TaskStep(t) ==
    Open(t) \/ Hold(t) \/ PutBack(t) \/ Deliver(t) \/ GiveUp(t) \/ Remove(t)

\* One step may move several tasks, as one UPDATE moves several rows.
Next ==
    /\ task' = [t \in Tasks |-> task'[t]]
    /\ \A t \in Tasks : task'[t] = task[t] \/ TaskStep(t)

Spec == Init /\ [][Next]_task
=============================================================================
