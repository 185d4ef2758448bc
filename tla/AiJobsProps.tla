----------------------------- MODULE AiJobsProps -----------------------------
(* What the AI job pipeline promises.  Checked by the MC modules; the safety  *)
(* part is proved in AiJobsProofs.                                            *)
EXTENDS AiJobs

RowType == [status : Statuses, attempts : 0..MaxAttempts, claimedAt : Nat,
            elapsed : BOOLEAN, err : Codes, stamp : Nat]

OutputType == [kind : {"none", "advice", "shown", "rejected"},
               claim : Nat, attempt : 0..MaxAttempts]

WorkerType == [pc : {"idle", "load", "skip", "guard", "call", "commit", "fail", "notice"},
               job : Jobs \cup {NoJob}, claim : Nat, attempt : 0..MaxAttempts,
               model : Nat, code : Codes, retry : BOOLEAN]

\* The types of the variables; an invocation that is running has a job.
TypeOK ==
    /\ comment \in [Comments -> CommentStates]
    /\ expired \subseteq Comments
    /\ settings \in Settings
    /\ job \in [Jobs -> RowType]
    /\ output \in [Jobs -> OutputType]
    /\ usage \in [Jobs -> Nat]
    /\ queue \subseteq Jobs
    /\ worker \in [Workers -> WorkerType]
    /\ \A w \in Workers : worker[w].pc # "idle" => worker[w].job \in Jobs
    /\ admin \in {"idle", "requeue", "backfill"}
    /\ unscheduled \subseteq Comments
    /\ screen \in [Comments -> BOOLEAN]
    /\ edits \in Nat
    /\ crashes \in Nat

\* A row that waits to run can still be claimed: neither a retry, nor the stale
\* recovery, nor a requeue leaves it waiting with its attempts used up, where no
\* claim and no recovery query would ever select it again.
WaitingCanRun ==
    \A j \in Jobs : job[j].status \in Waiting => job[j].attempts < MaxAttempts

\* A moderation job that says it succeeded has its advice, and it is the advice
\* of the claim and the attempt that finished the row, whatever was requeued,
\* recovered, moderated or deleted while the model ran.
SucceededModerationHasAdvice ==
    \A j \in Jobs : (j.type = "moderation" /\ job[j].status = "succeeded") =>
        output[j] = [kind |-> "advice", claim |-> job[j].claimedAt,
                     attempt |-> job[j].attempts]

\* A result or a translation is stored only in the step that finishes its job,
\* under the claim the row still has; one whose claim was taken away stores nothing.
OutputsAreFenced ==
    [][\A j \in Jobs : output'[j] # output[j] =>
          \/ output'[j] = NoOutput
          \/ /\ job[j].status = "processing"
             /\ output'[j].claim = job[j].claimedAt
             /\ output'[j].attempt = job[j].attempts
             /\ job'[j].status = "succeeded"]_vars

\* Once a job has ended, only a teacher's requeue or retry changes its row, and
\* those start it over; no late consumer and no recovery run does.
EndedRowsStay ==
    [][\A j \in Jobs : (job[j].status \in Terminal /\ job'[j] # job[j]) =>
          job'[j] \in {Fresh(job[j].stamp), Absent(job[j].stamp)}]_vars

\* Between two requests of a teacher that start a job over, at most MaxAttempts
\* attempts call at most Models models each: repeated messages, crashes and the
\* recovery of stale rows never buy another external call.
CallsAreBounded ==
    \A j \in Jobs : usage[j] <= MaxAttempts * Models * (1 + edits)

\* Every job that waits or runs ends (or goes with its comment), through crashes,
\* lost and repeated messages and failing models.
EveryJobEnds ==
    \A j \in Jobs : (job[j].status \in Waiting \cup {"processing"})
                       ~> (job[j].status \in Terminal \cup {"none"})

-----------------------------------------------------------------------------
(* The rows of ai_jobs implement leases *)

Phase(status) ==
    CASE status = "none" -> "absent"
      [] status \in Waiting -> "open"
      [] status = "processing" -> "held"
      [] status \in Terminal -> "settled"

LeaseOf(j) == [phase |-> Phase(job[j].status), lease |-> job[j].stamp,
               tries |-> job[j].attempts, result |-> output[j].claim]

Lease == INSTANCE JobLease WITH
    Tasks <- Jobs, MaxTries <- MaxAttempts, task <- [j \in Jobs |-> LeaseOf(j)]

\* The guarded UPDATEs and INSERTs on a row, under any interleaving of consumers,
\* recovery and teachers, hand the job out under leases as JobLease says.
ImplementsJobLease == Lease!Spec

-----------------------------------------------------------------------------
(* Statements of the documentation the code does not keep *)

\* Hiding or deleting withdraws the comment from the viewers, and it stays so.
WithdrawnStaysWithdrawn ==
    \A c \in Comments : comment[c] \in {"hidden", "deleted"} => ~ screen[c]

\* Translation, job completion and event are one batch: a finished job has its row.
SucceededTranslationIsStored ==
    \A j \in Jobs : (j.type = "translation" /\ job[j].status = "succeeded") =>
        /\ output[j].kind # "none"
        /\ output[j].claim = job[j].claimedAt

\* A consumer whose claim was taken away cannot write: at most one passes the
\* guard of its job.
OneOwner ==
    \A v, w \in Workers :
        (v # w /\ worker[v].pc # "idle" /\ worker[w].pc # "idle"
         /\ worker[v].job = worker[w].job) => ~ (Owns(v) /\ Owns(w))
=============================================================================
