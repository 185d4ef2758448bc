---------------------------- MODULE AiJobsProofs ----------------------------
(***************************************************************************)
(* Proofs about the AI job pipeline, for any number of comments, languages *)
(* and consumers.  The argument has one centre: however a step of the      *)
(* pipeline is made, it changes a row of ai_jobs and its output in one of  *)
(* the eight ways of RowStep.  Everything about rows follows from that;    *)
(* what a model may be asked follows from who claims a row, who starts it  *)
(* over, and in which order an invocation tries its models.                *)
(***************************************************************************)
EXTENDS AiJobsProps, FiniteSetTheorems, TLAPS

\* What the action properties need of a step that Next allows.
LEMMA NextCases ==
    ASSUME [Next]_vars
    PROVE  \/ \E c \in Comments, s \in {"pending", "visible"} : Post(c, s)
           \/ \E c \in Comments : Schedule(c) \/ ScheduleLost(c) \/ Expire(c) \/ Purge(c)
           \/ \E j \in Jobs : IgnoreMessage(j) \/ Elapse(j)
           \/ \E w \in Workers, j \in Jobs : Claim(w, j)
           \/ \E w \in Workers : \/ Load(w) \/ Skip(w) \/ CallModel(w) \/ CompleteModeration(w)
                                 \/ \E shown \in BOOLEAN : CompleteTranslation(w, shown)
                                 \/ PersistenceFails(w) \/ FailOrRetry(w)
                                 \/ Notify(w) \/ NotifyFails(w) \/ Crash(w)
           \/ Recover
           \/ TeacherStep
           \/ Requeue \/ Backfill \/ AdminDies
           \/ UNCHANGED vars
  BY DEF Next, WorkerStep

-----------------------------------------------------------------------------
(* Types *)

LEMMA RowTypes ==
    /\ \A s \in Nat : Fresh(s) \in RowType /\ Absent(s) \in RowType
    /\ \A r \in RowType, st \in Terminal, e \in Codes : Ended(r, st, e) \in RowType
    /\ \A st \in {"processing", "retry"}, n \in 0..MaxAttempts, c \in Nat, el \in BOOLEAN,
         e \in Codes, s \in Nat : Row(st, n, c, el, e, s) \in RowType
<1>1. \A st \in Statuses, n \in 0..MaxAttempts, c \in Nat, el \in BOOLEAN, e \in Codes, s \in Nat :
         Row(st, n, c, el, e, s) \in RowType
  BY DEF Row, RowType
<1>2. /\ {"none", "queued", "processing", "retry"} \subseteq Statuses
      /\ Terminal \subseteq Statuses
      /\ "none" \in Codes
      /\ 0 \in 0..MaxAttempts
  BY AiConstants DEF Statuses, Waiting, Terminal, Codes
<1>3. \A s \in Nat : Fresh(s) \in RowType /\ Absent(s) \in RowType
  BY <1>1, <1>2 DEF Fresh, Absent
<1>4. ASSUME NEW r \in RowType, NEW st \in Terminal, NEW e \in Codes
      PROVE  Ended(r, st, e) \in RowType
  BY <1>2 DEF Ended, RowType
<1>5. QED
  BY <1>1, <1>2, <1>3, <1>4

LEMMA Dispatching ==
    ASSUME queue \subseteq Jobs, NEW js \in SUBSET Jobs, Dispatch(js)
    PROVE  queue' \subseteq Jobs
  BY DEF Dispatch

LEMMA CreatedAreJobs == \A cs : Created(cs) \subseteq Jobs
  BY DEF Created, Planned

LEMMA CodeTypes ==
    /\ {"none", "COMMENT_EXPIRED", "AI_STALE", DelayCode, PersistCode, FatalCode,
        "AI_DAILY_LIMIT_REACHED"} \subseteq Codes
    /\ \A j \in Jobs : SkipReason(j) \in Codes
  BY DEF Codes, SkipCodes, FailCodes, DelayCode, PersistCode, FatalCode, SkipReason

LEMMA IdleType == Idle \in WorkerType /\ Idle.pc = "idle"
  BY AiConstants, CodeTypes DEF Idle, WorkerType

LEMMA Becoming ==
    ASSUME TypeOK, NEW w \in Workers, NEW x \in WorkerType,
           x.pc # "idle" => x.job \in Jobs, Become(w, x)
    PROVE  /\ worker' \in [Workers -> WorkerType]
           /\ \A v \in Workers : worker'[v].pc # "idle" => worker'[v].job \in Jobs
  BY DEF TypeOK, Become

LEMMA Finishing ==
    ASSUME TypeOK, NEW w \in Workers, Finish(w)
    PROVE  /\ worker' \in [Workers -> WorkerType]
           /\ \A v \in Workers : worker'[v].pc # "idle" => worker'[v].job \in Jobs
  BY IdleType, Becoming DEF Finish

\* Every variable stays in its type, for any constants the assumptions allow.
THEOREM Typing == Spec => []TypeOK
<1>1. Init => TypeOK
  BY AiConstants, RowTypes, IdleType, CodeTypes
  DEF Init, TypeOK, NoOutput, OutputType, CommentStates, RowType, Absent, Row, Statuses
<1>2. TypeOK /\ [Next]_vars => TypeOK'
  <2> SUFFICES ASSUME TypeOK, [Next]_vars
               PROVE  TypeOK'
    OBVIOUS
  <2>1. ASSUME NEW c \in Comments, NEW s \in {"pending", "visible"}, Post(c, s)
        PROVE  TypeOK'
    BY <2>1 DEF TypeOK, Post, CommentStates
  <2>2. ASSUME NEW c \in Comments, Schedule(c)
        PROVE  TypeOK'
    <3>1. job' \in [Jobs -> RowType]
      BY <2>2, RowTypes, CodeTypes DEF TypeOK, Schedule, CreateJobs, RowType
    <3>2. queue' \subseteq Jobs
      BY <2>2, CreatedAreJobs, Dispatching DEF TypeOK, Schedule
    <3>3. QED
      BY <2>2, <3>1, <3>2 DEF TypeOK, Schedule
  <2>3. ASSUME NEW c \in Comments, ScheduleLost(c)
        PROVE  TypeOK'
    BY <2>3 DEF TypeOK, ScheduleLost
  <2>4. ASSUME NEW c \in Comments, Expire(c)
        PROVE  TypeOK'
    BY <2>4 DEF TypeOK, Expire
  <2>5. ASSUME NEW c \in Comments, Purge(c)
        PROVE  TypeOK'
    <3>1. job' \in [Jobs -> RowType]
      BY <2>5, RowTypes, CodeTypes DEF TypeOK, Purge, RowType
    <3>2. output' \in [Jobs -> OutputType]
      BY <2>5, AiConstants DEF TypeOK, Purge, NoOutput, OutputType
    <3>3. QED
      BY <2>5, <3>1, <3>2 DEF TypeOK, Purge, CommentStates
  <2>6. ASSUME NEW j \in Jobs, IgnoreMessage(j)
        PROVE  TypeOK'
    BY <2>6 DEF TypeOK, IgnoreMessage
  <2>7. ASSUME NEW j \in Jobs, Elapse(j)
        PROVE  TypeOK'
    BY <2>7 DEF TypeOK, Elapse, RowType
  <2>8. ASSUME NEW w \in Workers, NEW j \in Jobs, Claim(w, j)
        PROVE  TypeOK'
    <3>1. job' \in [Jobs -> RowType]
      <4> DEFINE r == job[j]
      <4>1. r \in RowType /\ r.attempts < MaxAttempts
        BY <2>8 DEF TypeOK, Claim, Claimable
      <4>2. Row("processing", r.attempts + 1, r.stamp + 1, FALSE, "none", r.stamp + 1) \in RowType
        <5>1. r.attempts + 1 \in 0..MaxAttempts /\ r.stamp + 1 \in Nat
          BY <4>1, AiConstants DEF RowType
        <5>2. QED
          BY <5>1, RowTypes, CodeTypes
      <4>3. QED
        BY <2>8, <4>2 DEF TypeOK, Claim
    <3>2. [Idle EXCEPT !.pc = "load", !.job = j] \in WorkerType
      BY <2>8, IdleType DEF WorkerType
    <3>3. QED
      BY <2>8, <3>1, <3>2, Becoming, IdleType DEF TypeOK, Claim, WorkerType
  <2>9. ASSUME NEW w \in Workers, Load(w)
        PROVE  TypeOK'
    <3> DEFINE j == worker[w].job
               x == [Idle EXCEPT !.pc = IF SkipReason(j) # "none" THEN "skip"
                                        ELSE IF j.comment \in Sensitive THEN "guard"
                                        ELSE "call",
                                 !.job = j,
                                 !.claim = job[j].claimedAt,
                                 !.attempt = job[j].attempts,
                                 !.code = SkipReason(j)]
    <3>1. j \in Jobs
      BY <2>9 DEF TypeOK, Load
    <3>2. x \in WorkerType /\ x.job = j
      BY <3>1, IdleType, CodeTypes DEF TypeOK, WorkerType, RowType
    <3>3. Finish(w) \/ Become(w, x)
      BY <2>9 DEF Load, Finish
    <3>4. QED
      BY <2>9, <3>1, <3>2, <3>3, Becoming, Finishing DEF TypeOK, Load
  <2>10. ASSUME NEW w \in Workers, Skip(w)
         PROVE  TypeOK'
    <3> DEFINE j == worker[w].job
    <3>1. j \in Jobs /\ worker[w].code \in Codes
      BY <2>10 DEF TypeOK, Skip, WorkerType
    <3>2. job' \in [Jobs -> RowType]
      BY <2>10, <3>1, RowTypes DEF TypeOK, Skip, Terminal
    <3>3. [worker[w] EXCEPT !.pc = "notice"] \in WorkerType
      BY DEF TypeOK, WorkerType
    <3>4. /\ worker' \in [Workers -> WorkerType]
          /\ \A v \in Workers : worker'[v].pc # "idle" => worker'[v].job \in Jobs
      BY <2>10, <3>1, <3>3, Becoming, Finishing DEF Skip, TypeOK, WorkerType
    <3>5. QED
      BY <2>10, <3>1, <3>2, <3>4 DEF TypeOK, Skip, Ack, PutBack
  <2>11. ASSUME NEW w \in Workers, CallModel(w)
         PROVE  TypeOK'
    <3>1. worker[w].job \in Jobs /\ worker[w] \in WorkerType
      BY <2>11 DEF TypeOK, CallModel
    <3>2. usage' \in [Jobs -> Nat]
      BY <2>11, <3>1 DEF TypeOK, CallModel
    <3>3. \A pc \in {"commit", "fail", "skip"}, code \in Codes :
             [worker[w] EXCEPT !.pc = pc, !.code = code] \in WorkerType
      BY <3>1 DEF WorkerType
    <3>4. [worker[w] EXCEPT !.model = @ + 1] \in WorkerType
      BY <3>1 DEF WorkerType
    <3>5. /\ worker' \in [Workers -> WorkerType]
          /\ \A v \in Workers : worker'[v].pc # "idle" => worker'[v].job \in Jobs
      <4>1. CASE \E pc \in {"commit", "fail", "skip"}, code \in Codes :
                   Become(w, [worker[w] EXCEPT !.pc = pc, !.code = code])
        BY <4>1, <3>1, <3>3, Becoming DEF WorkerType
      <4>2. CASE Become(w, [worker[w] EXCEPT !.model = @ + 1])
        BY <4>2, <3>1, <3>4, Becoming DEF WorkerType
      <4>3. QED
        BY <2>11, <4>1, <4>2, CodeTypes DEF CallModel
    <3>6. QED
      BY <2>11, <3>2, <3>5 DEF TypeOK, CallModel
  <2>12. ASSUME NEW w \in Workers, CompleteModeration(w)
         PROVE  TypeOK'
    <3>1. worker[w].job \in Jobs /\ worker[w] \in WorkerType
      BY <2>12 DEF TypeOK, CompleteModeration
    <3>2. output' \in [Jobs -> OutputType]
      <4>1. [kind |-> "advice", claim |-> worker[w].claim, attempt |-> worker[w].attempt]
               \in OutputType
        BY <3>1 DEF OutputType, WorkerType
      <4>2. QED
        BY <2>12, <3>1, <4>1 DEF TypeOK, CompleteModeration, WriteOutput
    <3>3. job' \in [Jobs -> RowType]
      <4>1. Ended(job[worker[w].job], "succeeded", "none") \in RowType
        BY <3>1, RowTypes, CodeTypes DEF TypeOK, Terminal
      <4>2. QED
        BY <2>12, <3>1, <4>1 DEF TypeOK, CompleteModeration, Succeed
    <3>4. QED
      BY <2>12, <3>1, <3>2, <3>3, Finishing DEF TypeOK, CompleteModeration, Ack, PutBack
  <2>13. ASSUME NEW w \in Workers, NEW shown \in BOOLEAN, CompleteTranslation(w, shown)
         PROVE  TypeOK'
    <3>1. worker[w].job \in Jobs /\ worker[w] \in WorkerType /\ worker[w].job.comment \in Comments
      BY <2>13 DEF TypeOK, CompleteTranslation, Jobs
    <3>2. output' \in [Jobs -> OutputType]
      <4>1. \A kind \in {"shown", "rejected"} :
               [kind |-> kind, claim |-> worker[w].claim, attempt |-> worker[w].attempt]
                  \in OutputType
        BY <3>1 DEF OutputType, WorkerType
      <4>2. QED
        BY <2>13, <3>1, <4>1 DEF TypeOK, CompleteTranslation, WriteOutput
    <3>3. job' \in [Jobs -> RowType]
      <4>1. Ended(job[worker[w].job], "succeeded", "none") \in RowType
        BY <3>1, RowTypes, CodeTypes DEF TypeOK, Terminal
      <4>2. QED
        BY <2>13, <3>1, <4>1 DEF TypeOK, CompleteTranslation, Succeed
    <3>4. [worker[w] EXCEPT !.pc = "notice", !.code = "none"] \in WorkerType
      BY <3>1, CodeTypes DEF WorkerType
    <3>5. /\ worker' \in [Workers -> WorkerType]
          /\ \A v \in Workers : worker'[v].pc # "idle" => worker'[v].job \in Jobs
      BY <2>13, <3>1, <3>4, Becoming, Finishing DEF CompleteTranslation, WorkerType
    <3>6. queue' \subseteq Jobs
      BY <2>13, <3>1 DEF TypeOK, CompleteTranslation, Ack, PutBack
    <3>7. screen' \in [Comments -> BOOLEAN]
      BY <2>13, <3>1 DEF TypeOK, CompleteTranslation
    <3>8. QED
      BY <2>13, <3>2, <3>3, <3>5, <3>6, <3>7 DEF TypeOK, CompleteTranslation
  <2>14. ASSUME NEW w \in Workers, PersistenceFails(w)
         PROVE  TypeOK'
    <3>1. worker[w].job \in Jobs /\ worker[w] \in WorkerType
      BY <2>14 DEF TypeOK, PersistenceFails
    <3>2. [worker[w] EXCEPT !.pc = "fail", !.code = PersistCode] \in WorkerType
      BY <3>1, CodeTypes DEF WorkerType
    <3>3. QED
      BY <2>14, <3>1, <3>2, Becoming DEF TypeOK, PersistenceFails, WorkerType
  <2>15. ASSUME NEW w \in Workers, FailOrRetry(w)
         PROVE  TypeOK'
    <3>1. worker[w].job \in Jobs /\ worker[w] \in WorkerType /\ worker[w].code \in Codes
      BY <2>15 DEF TypeOK, FailOrRetry, WorkerType
    <3>2. job' \in [Jobs -> RowType]
      <4> DEFINE r == job[worker[w].job]
      <4>1. r \in RowType
        BY <3>1 DEF TypeOK
      <4>2. /\ Ended(r, "failed", worker[w].code) \in RowType
            /\ Row("retry", r.attempts, 0, FALSE, worker[w].code, r.stamp) \in RowType
        BY <3>1, <4>1, RowTypes DEF Terminal, RowType
      <4>3. QED
        BY <2>15, <3>1, <4>2 DEF TypeOK, FailOrRetry
    <3>3. \A b \in BOOLEAN : [worker[w] EXCEPT !.pc = "notice", !.retry = b] \in WorkerType
      BY <3>1 DEF WorkerType
    <3>4. FinalFailure(w) \in BOOLEAN
      BY DEF FinalFailure
    <3>5. /\ worker' \in [Workers -> WorkerType]
          /\ \A v \in Workers : worker'[v].pc # "idle" => worker'[v].job \in Jobs
      BY <2>15, <3>1, <3>3, <3>4, Becoming, Finishing DEF FailOrRetry, WorkerType
    <3>6. QED
      BY <2>15, <3>1, <3>2, <3>5 DEF TypeOK, FailOrRetry, Ack, PutBack
  <2>16. ASSUME NEW w \in Workers, Notify(w) \/ NotifyFails(w) \/ Crash(w)
         PROVE  TypeOK'
    <3>1. worker[w].job \in Jobs /\ Finish(w)
      BY <2>16 DEF TypeOK, Notify, NotifyFails, Crash
    <3>2. queue' \subseteq Jobs
      BY <2>16, <3>1 DEF TypeOK, Notify, NotifyFails, Crash, Ack, PutBack
    <3>3. screen' \in [Comments -> BOOLEAN]
      BY <2>16 DEF TypeOK, Notify, NotifyFails, Crash
    <3>4. QED
      BY <2>16, <3>1, <3>2, <3>3, Finishing DEF TypeOK, Notify, NotifyFails, Crash
  <2>17. CASE Recover
    <3>1. ASSUME NEW j \in Jobs
          PROVE  Recovered(j) \in RowType
      BY RowTypes, CodeTypes DEF TypeOK, Recovered, RowType, Terminal
    <3>2. job' \in [Jobs -> RowType]
      BY <2>17, <3>1 DEF Recover
    <3>3. QED
      BY <2>17, <3>2 DEF TypeOK, Recover, Dispatch
  <2>18. CASE TeacherStep
    <3>1. ASSUME NEW c \in Comments, NEW t \in Transitions, Moderate(c, t)
          PROVE  TypeOK'
      <4>1. t[3] \in CommentStates
        BY DEF Transitions, CommentStates
      <4>2. comment' \in [Comments -> CommentStates]
        BY <3>1, <4>1 DEF TypeOK, Moderate
      <4>3. screen' \in [Comments -> BOOLEAN]
        BY <3>1 DEF TypeOK, Moderate
      <4>4. unscheduled' \subseteq Comments /\ edits' \in Nat
        BY <3>1 DEF TypeOK, Moderate, Edit
      <4>5. QED
        BY <3>1, <4>2, <4>3, <4>4 DEF TypeOK, Moderate
    <3>2. CASE UpdateOrganization
      <4>1. settings' \in Settings
        BY <3>2 DEF TypeOK, UpdateOrganization, Settings
      <4>2. QED
        BY <3>2, <4>1 DEF TypeOK, UpdateOrganization, Edit
    <3>3. ASSUME NEW new \in Choices, NEW q \in BOOLEAN, UpdateSession(new, q)
          PROVE  TypeOK'
      BY <3>3, AiConstants DEF TypeOK, UpdateSession, Edit
    <3>4. ASSUME NEW c \in Comments, NEW types \in (SUBSET Types) \ {{}}, RetryComment(c, types)
          PROVE  TypeOK'
      <4>1. job' \in [Jobs -> RowType]
        BY <3>4, RowTypes, CodeTypes DEF TypeOK, RetryComment, RowType
      <4>2. queue' \subseteq Jobs
        <5>1. Dispatch({j \in Jobs : j.comment = c /\ job'[j].status \in Waiting})
          BY <3>4 DEF RetryComment
        <5>2. QED
          BY <5>1, Dispatching DEF TypeOK
      <4>3. QED
        BY <3>4, <4>1, <4>2 DEF TypeOK, RetryComment, Edit
    <3>5. QED
      BY <2>18, <3>1, <3>2, <3>3, <3>4 DEF TeacherStep
  <2>19. CASE Requeue
    <3>1. job' \in [Jobs -> RowType]
      BY <2>19, RowTypes, CodeTypes DEF TypeOK, Requeue, RowType
    <3>2. QED
      BY <2>19, <3>1 DEF TypeOK, Requeue, Requeued, Dispatch
  <2>20. CASE Backfill
    <3>1. job' \in [Jobs -> RowType]
      BY <2>20, RowTypes, CodeTypes DEF TypeOK, Backfill, CreateJobs, RowType
    <3>2. QED
      BY <2>20, <3>1, CreatedAreJobs, Dispatching DEF TypeOK, Backfill
  <2>21. CASE AdminDies
    BY <2>21 DEF TypeOK, AdminDies
  <2>22. CASE UNCHANGED vars
    BY <2>22 DEF TypeOK, vars
  <2>23. QED
    BY NextCases, <2>1, <2>2, <2>3, <2>4, <2>5, <2>6, <2>7, <2>8, <2>9, <2>10, <2>11, <2>12,
       <2>13, <2>14, <2>15, <2>16, <2>17, <2>18, <2>19, <2>20, <2>21, <2>22
<1>3. QED
  BY <1>1, <1>2, PTL DEF Spec

-----------------------------------------------------------------------------
(* The ways a row and its output change *)

Kept(j) == output'[j] = output[j]

Untouched(j) == job'[j] = job[j] /\ Kept(j)

\* Inserted, requeued or retried.
Started(j) == job'[j] = Fresh(job[j].stamp) /\ Kept(j)

Taken(j) ==
    /\ job[j].status \in Waiting
    /\ job[j].attempts < MaxAttempts
    /\ job'[j] = Row("processing", job[j].attempts + 1, job[j].stamp + 1, FALSE, "none",
                     job[j].stamp + 1)
    /\ Kept(j)

Waited(j) ==
    /\ job[j].status \in Waiting \cup {"processing"}
    /\ job'[j] = [job[j] EXCEPT !.elapsed = TRUE]
    /\ Kept(j)

Stopped(j) ==
    /\ job[j].status \in Waiting \cup {"processing"}
    /\ \E status \in {"failed", "skipped"}, err \in Codes : job'[j] = Ended(job[j], status, err)
    /\ Kept(j)

Returned(j) ==
    /\ job[j].status = "processing"
    /\ job[j].attempts < MaxAttempts
    /\ \E elapsed \in BOOLEAN, err \in Codes :
           job'[j] = Row("retry", job[j].attempts, 0, elapsed, err, job[j].stamp)
    /\ Kept(j)

\* A translation may succeed without storing anything; advice is always stored.
Settled(j) ==
    /\ job[j].status = "processing"
    /\ job'[j] = Ended(job[j], "succeeded", "none")
    /\ \/ j.type = "translation" /\ Kept(j)
       \/ \E kind \in {"advice", "shown", "rejected"} :
             /\ output'[j] = [kind |-> kind, claim |-> job[j].claimedAt,
                              attempt |-> job[j].attempts]
             /\ j.type = "moderation" => kind = "advice"

Removed(j) == job'[j] = Absent(job[j].stamp) /\ output'[j] = NoOutput

RowStep(j) ==
    \/ Untouched(j) \/ Started(j) \/ Taken(j) \/ Waited(j)
    \/ Stopped(j) \/ Returned(j) \/ Settled(j) \/ Removed(j)

\* Every step of the pipeline makes such a step of every row.
LEMMA RowSteps ==
    ASSUME TypeOK, [Next]_vars
    PROVE  \A j \in Jobs : RowStep(j)
<1> SUFFICES ASSUME NEW j \in Jobs
             PROVE  RowStep(j)
  OBVIOUS
<1> USE DEF RowStep
<1>1. CASE UNCHANGED <<job, output>>
  BY <1>1 DEF Untouched, Kept
<1>2. ASSUME NEW new, new \subseteq Jobs, CreateJobs(new), UNCHANGED output
      PROVE  RowStep(j)
  BY <1>2 DEF CreateJobs, Started, Untouched, Kept
<1>3. ASSUME NEW c \in Comments, Purge(c)
      PROVE  RowStep(j)
  BY <1>3 DEF Purge, Removed, Untouched, Kept
<1>4. ASSUME NEW i \in Jobs, Elapse(i)
      PROVE  RowStep(j)
  <2>1. CASE i = j
    BY <1>4, <2>1 DEF TypeOK, Elapse, Waited, Kept
  <2>2. CASE i # j
    BY <1>4, <2>2 DEF TypeOK, Elapse, Untouched, Kept
  <2>3. QED
    BY <2>1, <2>2
<1>5. ASSUME NEW w \in Workers, NEW i \in Jobs, Claim(w, i)
      PROVE  RowStep(j)
  <2>1. CASE i = j
    BY <1>5, <2>1 DEF TypeOK, Claim, Claimable, Taken, Kept
  <2>2. CASE i # j
    BY <1>5, <2>2 DEF TypeOK, Claim, Untouched, Kept
  <2>3. QED
    BY <2>1, <2>2
<1>6. ASSUME NEW w \in Workers, Skip(w)
      PROVE  RowStep(j)
  <2>1. CASE worker[w].job = j /\ Owns(w)
    <3>1. job'[j] = Ended(job[j], "skipped", worker[w].code)
      BY <1>6, <2>1 DEF TypeOK, Skip
    <3>2. worker[w].code \in Codes /\ job[j].status = "processing"
      BY <2>1 DEF TypeOK, WorkerType, Owns
    <3>3. QED
      BY <1>6, <3>1, <3>2 DEF Skip, Stopped, Kept
  <2>2. CASE worker[w].job # j \/ ~ Owns(w)
    BY <1>6, <2>2 DEF TypeOK, Skip, Untouched, Kept
  <2>3. QED
    BY <2>1, <2>2
<1>7. ASSUME NEW w \in Workers, CompleteModeration(w)
      PROVE  RowStep(j)
  <2> DEFINE done == Owns(w) /\ NotDeleted(worker[w].job.comment)
  <2>1. CASE worker[w].job = j /\ done
    <3>1. /\ job'[j] = Ended(job[j], "succeeded", "none")
          /\ output'[j] = [kind |-> "advice", claim |-> worker[w].claim,
                           attempt |-> worker[w].attempt]
      BY <1>7, <2>1 DEF TypeOK, CompleteModeration, ModerationReadable, FinishReadable,
                        WriteOutput, Succeed
    <3>2. /\ job[j].status = "processing"
          /\ worker[w].claim = job[j].claimedAt
          /\ worker[w].attempt = job[j].attempts
      BY <2>1 DEF Owns
    <3>3. QED
      BY <3>1, <3>2 DEF Settled
  <2>2. CASE worker[w].job # j \/ ~ done
    BY <1>7, <2>2 DEF TypeOK, CompleteModeration, ModerationReadable, FinishReadable,
                      WriteOutput, Succeed, Untouched, Kept
  <2>3. QED
    BY <2>1, <2>2
<1>8. ASSUME NEW w \in Workers, NEW shown \in BOOLEAN, CompleteTranslation(w, shown)
      PROVE  RowStep(j)
  <2> DEFINE c == worker[w].job.comment
             kind == IF shown THEN "shown" ELSE "rejected"
  <2>1. TranslationReadable(c) => FinishReadable(c)
    BY DEF TranslationReadable, FinishReadable, NotDeleted
  <2>2. CASE worker[w].job = j /\ Owns(w) /\ FinishReadable(c)
    <3>1. job'[j] = Ended(job[j], "succeeded", "none") /\ j.type = "translation"
      BY <1>8, <2>2 DEF TypeOK, CompleteTranslation, Succeed
    <3>2. \/ Kept(j)
          \/ output'[j] = [kind |-> kind, claim |-> worker[w].claim, attempt |-> worker[w].attempt]
      BY <1>8, <2>2 DEF TypeOK, CompleteTranslation, WriteOutput, Kept
    <3>3. /\ job[j].status = "processing"
          /\ worker[w].claim = job[j].claimedAt
          /\ worker[w].attempt = job[j].attempts
      BY <2>2 DEF Owns
    <3>4. kind \in {"advice", "shown", "rejected"}
      OBVIOUS
    <3>5. QED
      BY <3>1, <3>2, <3>3, <3>4 DEF Settled
  <2>3. CASE worker[w].job # j \/ ~ (Owns(w) /\ FinishReadable(c))
    BY <1>8, <2>1, <2>3 DEF TypeOK, CompleteTranslation, WriteOutput, Succeed, Untouched, Kept
  <2>4. QED
    BY <2>2, <2>3
<1>9. ASSUME NEW w \in Workers, FailOrRetry(w)
      PROVE  RowStep(j)
  <2>1. CASE worker[w].job = j /\ Owns(w)
    <3>1. /\ worker[w].code \in Codes
          /\ job[j].status = "processing"
          /\ worker[w].attempt = job[j].attempts
          /\ job[j].attempts \in 0..MaxAttempts
      BY <2>1 DEF TypeOK, WorkerType, RowType, Owns
    <3>2. CASE FinalFailure(w)
      <4>1. job'[j] = Ended(job[j], "failed", worker[w].code)
        BY <1>9, <2>1, <3>2 DEF TypeOK, FailOrRetry
      <4>2. QED
        BY <1>9, <3>1, <4>1 DEF FailOrRetry, Stopped, Kept
    <3>3. CASE ~ FinalFailure(w)
      <4>1. job'[j] = Row("retry", job[j].attempts, 0, FALSE, worker[w].code, job[j].stamp)
        BY <1>9, <2>1, <3>3 DEF TypeOK, FailOrRetry
      <4>2. job[j].attempts < MaxAttempts
        BY <3>1, <3>3, AiConstants DEF FinalFailure
      <4>3. QED
        BY <1>9, <3>1, <4>1, <4>2 DEF FailOrRetry, Returned, Kept
    <3>4. QED
      BY <3>2, <3>3
  <2>2. CASE worker[w].job # j \/ ~ Owns(w)
    BY <1>9, <2>2 DEF TypeOK, FailOrRetry, Untouched, Kept
  <2>3. QED
    BY <2>1, <2>2
<1>10. CASE Recover
  <2>1. job'[j] = Recovered(j) /\ Kept(j)
    BY <1>10 DEF Recover, Kept
  <2>2. job[j].attempts \in 0..MaxAttempts
    BY DEF TypeOK, RowType
  <2>3. CASE Recovered(j) = Ended(job[j], "skipped", "COMMENT_EXPIRED")
             /\ job[j].status \in Waiting \cup {"processing"}
    BY <2>1, <2>3, CodeTypes DEF Stopped
  <2>4. CASE Recovered(j) = Ended(job[j], "failed", "AI_STALE") /\ job[j].status = "processing"
    BY <2>1, <2>4, CodeTypes DEF Stopped
  <2>5. CASE /\ Recovered(j) = Row("retry", job[j].attempts, 0, TRUE, "AI_STALE", job[j].stamp)
             /\ job[j].status = "processing"
             /\ job[j].attempts < MaxAttempts
    BY <2>1, <2>5, CodeTypes DEF Returned
  <2>6. CASE Recovered(j) = job[j]
    BY <2>1, <2>6 DEF Untouched
  <2>7. QED
    <3>1. job[j].attempts >= MaxAttempts \/ job[j].attempts < MaxAttempts
      BY <2>2, AiConstants
    <3>2. QED
      BY <3>1, <2>3, <2>4, <2>5, <2>6, Zenon DEF Recovered
<1>11. CASE Requeue
  BY <1>11 DEF Requeue, Started, Untouched, Kept
<1>12. ASSUME NEW c \in Comments, NEW types \in SUBSET Types, RetryComment(c, types)
       PROVE  RowStep(j)
  BY <1>12 DEF RetryComment, Started, Untouched, Kept
<1>13. CASE Next
  <2>1. ASSUME NEW c \in Comments, NEW s \in {"pending", "visible"}, Post(c, s)
        PROVE  RowStep(j)
    BY <1>1, <2>1 DEF Post
  <2>2. ASSUME NEW c \in Comments, Schedule(c) \/ ScheduleLost(c) \/ Expire(c) \/ Purge(c)
        PROVE  RowStep(j)
    BY <1>1, <1>2, <1>3, <2>2, CreatedAreJobs DEF Schedule, ScheduleLost, Expire
  <2>3. ASSUME NEW i \in Jobs, IgnoreMessage(i) \/ Elapse(i)
        PROVE  RowStep(j)
    BY <1>1, <1>4, <2>3 DEF IgnoreMessage
  <2>4. ASSUME NEW w \in Workers, WorkerStep(w) \/ Crash(w)
        PROVE  RowStep(j)
    BY <1>1, <1>6, <1>7, <1>8, <1>9, <2>4
    DEF WorkerStep, Load, CallModel, PersistenceFails, Notify, NotifyFails, Crash
  <2>5. CASE TeacherStep
    <3>1. ASSUME NEW c \in Comments, NEW t \in Transitions, Moderate(c, t)
          PROVE  RowStep(j)
      BY <1>1, <3>1 DEF Moderate
    <3>2. CASE UpdateOrganization
      BY <1>1, <3>2 DEF UpdateOrganization
    <3>3. ASSUME NEW new \in Choices, NEW q \in BOOLEAN, UpdateSession(new, q)
          PROVE  RowStep(j)
      BY <1>1, <3>3 DEF UpdateSession
    <3>4. QED
      BY <1>12, <2>5, <3>1, <3>2, <3>3 DEF TeacherStep
  <2>6. CASE Requeue \/ Backfill \/ AdminDies
    BY <1>1, <1>2, <1>11, <2>6, CreatedAreJobs DEF Backfill, AdminDies
  <2>7. QED
    BY <1>5, <1>10, <1>13, <2>1, <2>2, <2>3, <2>4, <2>5, <2>6 DEF Next
<1>14. QED
  BY <1>1, <1>13 DEF vars

-----------------------------------------------------------------------------
(* The inductive invariant *)

\* WaitingCanRun and SucceededModerationHasAdvice, row by row, and what makes
\* the lease number of a running job readable from its row.
RowInv(j) ==
    /\ job[j].status \in Waiting => job[j].attempts < MaxAttempts
    /\ job[j].status = "processing" => job[j].claimedAt = job[j].stamp
    /\ (j.type = "moderation" /\ job[j].status = "succeeded") =>
          output[j] = [kind |-> "advice", claim |-> job[j].claimedAt, attempt |-> job[j].attempts]

RowsInv == \A j \in Jobs : RowInv(j)

LEMMA RowsInvHolds == Spec => []RowsInv
<1>1. Init => RowsInv
  BY DEF Init, RowsInv, RowInv, Absent, Row, Waiting
<1>2. TypeOK /\ RowsInv /\ [Next]_vars => RowsInv'
  <2> SUFFICES ASSUME TypeOK, RowsInv, [Next]_vars, NEW j \in Jobs
               PROVE  RowInv(j)'
    BY DEF RowsInv
  <2>1. RowInv(j) /\ RowStep(j) /\ job[j] \in RowType
    BY RowSteps DEF RowsInv, TypeOK
  <2>2. CASE Untouched(j)
    BY <2>1, <2>2 DEF Untouched, Kept, RowInv
  <2>3. CASE Started(j)
    BY <2>3, AiConstants DEF Started, Fresh, Row, RowInv
  <2>4. CASE Taken(j)
    BY <2>4 DEF Taken, Row, RowInv, Waiting
  <2>5. CASE Waited(j)
    BY <2>1, <2>5 DEF Waited, Kept, RowInv, RowType, Waiting
  <2>6. CASE Stopped(j)
    BY <2>1, <2>6 DEF Stopped, Ended, RowInv, RowType, Waiting
  <2>7. CASE Returned(j)
    BY <2>7 DEF Returned, Row, RowInv
  <2>8. CASE Settled(j)
    BY <2>1, <2>8 DEF Settled, Ended, RowInv, RowType, Waiting, Jobs
  <2>9. CASE Removed(j)
    BY <2>9 DEF Removed, Absent, Row, RowInv, Waiting
  <2>10. QED
    BY <2>1, <2>2, <2>3, <2>4, <2>5, <2>6, <2>7, <2>8, <2>9 DEF RowStep
<1>3. QED
  BY <1>1, <1>2, Typing, PTL DEF Spec

\* No row waits where nothing would ever run it again.
THEOREM WaitingRowsCanRun == Spec => []WaitingCanRun
<1>1. RowsInv => WaitingCanRun
  BY DEF RowsInv, RowInv, WaitingCanRun
<1>2. QED
  BY <1>1, RowsInvHolds, PTL

\* Success of a moderation job means its own advice is stored.
THEOREM SuccessMeansAdvice == Spec => []SucceededModerationHasAdvice
<1>1. RowsInv => SucceededModerationHasAdvice
  BY DEF RowsInv, RowInv, SucceededModerationHasAdvice
<1>2. QED
  BY <1>1, RowsInvHolds, PTL

-----------------------------------------------------------------------------
(* What a step may never do *)

\* Whatever interleaving, an output is stored only by the claim the row has.
THEOREM OutputsStayFenced == Spec => OutputsAreFenced
<1> DEFINE Fenced == \A j \in Jobs : output'[j] # output[j] =>
          \/ output'[j] = NoOutput
          \/ /\ job[j].status = "processing"
             /\ output'[j].claim = job[j].claimedAt
             /\ output'[j].attempt = job[j].attempts
             /\ job'[j].status = "succeeded"
<1>1. TypeOK /\ [Next]_vars => [Fenced]_vars
  <2> SUFFICES ASSUME TypeOK, [Next]_vars, NEW j \in Jobs, output'[j] # output[j]
               PROVE  \/ output'[j] = NoOutput
                      \/ /\ job[j].status = "processing"
                         /\ output'[j].claim = job[j].claimedAt
                         /\ output'[j].attempt = job[j].attempts
                         /\ job'[j].status = "succeeded"
    OBVIOUS
  <2>1. Settled(j) \/ Removed(j)
    BY RowSteps DEF RowStep, Untouched, Started, Taken, Waited, Stopped, Returned, Kept
  <2>2. job[j] \in RowType
    BY DEF TypeOK
  <2>3. CASE Settled(j)
    <3>1. PICK kind \in {"advice", "shown", "rejected"} :
             output'[j] = [kind |-> kind, claim |-> job[j].claimedAt, attempt |-> job[j].attempts]
      BY <2>3 DEF Settled, Kept
    <3>2. job[j].status = "processing" /\ job'[j].status = "succeeded"
      BY <2>2, <2>3 DEF Settled, Ended, RowType
    <3>3. QED
      BY <3>1, <3>2
  <2>4. QED
    BY <2>1, <2>3 DEF Removed
<1>2. QED
  BY <1>1, Typing, PTL DEF Spec, OutputsAreFenced

\* A row that has ended is only ever started over or removed.
THEOREM EndedRowsStayEnded == Spec => EndedRowsStay
<1> DEFINE Stays == \A j \in Jobs : (job[j].status \in Terminal /\ job'[j] # job[j]) =>
                       job'[j] \in {Fresh(job[j].stamp), Absent(job[j].stamp)}
<1>1. TypeOK /\ [Next]_vars => [Stays]_vars
  <2> SUFFICES ASSUME TypeOK, [Next]_vars, NEW j \in Jobs,
                      job[j].status \in Terminal, job'[j] # job[j]
               PROVE  job'[j] \in {Fresh(job[j].stamp), Absent(job[j].stamp)}
    OBVIOUS
  <2>1. Started(j) \/ Removed(j)
    BY RowSteps DEF RowStep, Untouched, Taken, Waited, Stopped, Returned, Settled,
                    Waiting, Terminal
  <2>2. QED
    BY <2>1 DEF Started, Removed
<1>2. QED
  BY <1>1, Typing, PTL DEF Spec, EndedRowsStay

-----------------------------------------------------------------------------
(* The rows implement leases *)

LEMMA Phases ==
    /\ Phase("none") = "absent"
    /\ Phase("queued") = "open" /\ Phase("retry") = "open"
    /\ Phase("processing") = "held"
    /\ Phase("succeeded") = "settled" /\ Phase("failed") = "settled"
    /\ Phase("skipped") = "settled"
  BY DEF Phase, Waiting, Terminal

\* Rows, claims and fenced outputs are leases, for every interleaving.
THEOREM RowsAreLeases == Spec => ImplementsJobLease
<1> DEFINE task == [j \in Jobs |-> LeaseOf(j)]
<1>1. Init => Lease!Init
  BY Phases DEF Init, Lease!Init, Lease!State, LeaseOf, Absent, Row, NoOutput
<1>2. TypeOK /\ RowsInv /\ [Next]_vars => [Lease!Next]_task
  <2> SUFFICES ASSUME TypeOK, RowsInv, [Next]_vars
               PROVE  Lease!Next
    OBVIOUS
  <2>1. ASSUME NEW j \in Jobs
        PROVE  LeaseOf(j)' = LeaseOf(j) \/ Lease!TaskStep(j)
    <3>1. RowInv(j) /\ RowStep(j) /\ job[j] \in RowType /\ output[j] \in OutputType
      BY RowSteps DEF RowsInv, TypeOK
    <3>2. /\ task[j] = LeaseOf(j) /\ task'[j] = LeaseOf(j)'
          /\ LeaseOf(j).phase = Phase(job[j].status)
          /\ LeaseOf(j).lease = job[j].stamp
          /\ LeaseOf(j).tries = job[j].attempts
          /\ LeaseOf(j).result = output[j].claim
      BY DEF LeaseOf
    <3>3. CASE Untouched(j)
      BY <3>3 DEF LeaseOf, Untouched, Kept
    <3>4. CASE Started(j)
      <4>1. LeaseOf(j)' = Lease!State("open", job[j].stamp, 0, output[j].claim)
        BY <3>4, Phases DEF LeaseOf, Lease!State, Started, Kept, Fresh, Row
      <4>2. QED
        BY <3>2, <4>1 DEF Lease!TaskStep, Lease!Open
    <3>5. CASE Taken(j)
      <4>1. LeaseOf(j)' = Lease!State("held", job[j].stamp + 1, job[j].attempts + 1,
                                      output[j].claim)
        BY <3>5, Phases DEF LeaseOf, Lease!State, Taken, Kept, Row
      <4>2. LeaseOf(j).phase = "open" /\ LeaseOf(j).tries < MaxAttempts
        BY <3>2, <3>5, Phases DEF Taken, Waiting
      <4>3. QED
        BY <3>2, <4>1, <4>2 DEF Lease!TaskStep, Lease!Hold
    <3>6. CASE Waited(j)
      BY <3>1, <3>6 DEF LeaseOf, Waited, Kept, RowType
    <3>7. CASE Stopped(j)
      <4>1. LeaseOf(j)' = Lease!State("settled", job[j].stamp, job[j].attempts, output[j].claim)
        BY <3>1, <3>7, Phases DEF LeaseOf, Lease!State, Stopped, Kept, Ended, RowType
      <4>2. LeaseOf(j).phase \in {"open", "held"}
        BY <3>2, <3>7, Phases DEF Stopped, Waiting
      <4>3. QED
        BY <3>2, <4>1, <4>2 DEF Lease!TaskStep, Lease!GiveUp
    <3>8. CASE Returned(j)
      <4>1. LeaseOf(j)' = Lease!State("open", job[j].stamp, job[j].attempts, output[j].claim)
        BY <3>8, Phases DEF LeaseOf, Lease!State, Returned, Kept, Row
      <4>2. LeaseOf(j).phase = "held" /\ LeaseOf(j).tries < MaxAttempts
        BY <3>2, <3>8, Phases DEF Returned
      <4>3. QED
        BY <3>2, <4>1, <4>2 DEF Lease!TaskStep, Lease!PutBack
    <3>9. CASE Settled(j)
      <4>1. LeaseOf(j).phase = "held" /\ job[j].claimedAt = job[j].stamp
        BY <3>2, <3>1, <3>9, Phases DEF Settled, RowInv
      <4>2. CASE Kept(j)
        <5>1. LeaseOf(j)' = Lease!State("settled", job[j].stamp, job[j].attempts, output[j].claim)
          BY <3>1, <3>9, <4>2, Phases DEF LeaseOf, Lease!State, Settled, Kept, Ended, RowType
        <5>2. QED
          BY <3>2, <4>1, <5>1 DEF Lease!TaskStep, Lease!GiveUp
      <4>3. CASE ~ Kept(j)
        <5>1. LeaseOf(j)' = Lease!State("settled", job[j].stamp, job[j].attempts, job[j].stamp)
          BY <3>1, <3>9, <4>1, <4>3, Phases DEF LeaseOf, Lease!State, Settled, Ended, RowType
        <5>2. QED
          BY <3>2, <4>1, <5>1 DEF Lease!TaskStep, Lease!Deliver
      <4>4. QED
        BY <4>2, <4>3
    <3>10. CASE Removed(j)
      <4>1. LeaseOf(j)' = Lease!State("absent", job[j].stamp, 0, 0)
        BY <3>10, Phases DEF LeaseOf, Lease!State, Removed, Absent, Row, NoOutput
      <4>2. QED
        BY <3>2, <4>1 DEF Lease!TaskStep, Lease!Remove
    <3>11. QED
      BY <3>1, <3>3, <3>4, <3>5, <3>6, <3>7, <3>8, <3>9, <3>10 DEF RowStep
  <2>2. QED
    BY <2>1 DEF Lease!Next
<1>3. QED
  BY <1>1, <1>2, Typing, RowsInvHolds, PTL DEF Spec, ImplementsJobLease, Lease!Spec

-----------------------------------------------------------------------------
(* External calls are bounded.  A claim of a row pays for one call of each    *)
(* candidate model, by an invocation that tries them in order; the claims of  *)
(* a row since it was last started over are its attempts; and only a request  *)
(* of a teacher starts it over.                                               *)

\* Requests of a teacher that may have started the job over: a change of the
\* translation settings does so only in its second statement.
StartOvers == IF admin = "requeue" THEN edits - 1 ELSE edits

\* Nothing is created for a comment that is gone, and its usage rows went with it.
StampInv(j) ==
    /\ admin = "requeue" => edits > 0
    /\ IF comment[j.comment] = "purged"
       THEN job[j].status = "none" /\ usage[j] = 0
       ELSE /\ job[j].stamp <= MaxAttempts * StartOvers + job[j].attempts
            /\ job[j].status = "none" => job[j].attempts = 0

\* The calls that invocations which claimed j may still make: consumer and model.
CallsLeft(j) ==
    {p \in Workers \X (1..Models) : /\ worker[p[1]].pc \in {"load", "call"}
                                    /\ worker[p[1]].job = j
                                    /\ worker[p[1]].model < p[2]}

\* The claims of a row pay for the calls that were made and for those that may follow.
BudgetInv(j) ==
    /\ IsFiniteSet(CallsLeft(j))
    /\ usage[j] + Cardinality(CallsLeft(j)) <= Models * job[j].stamp

\* Candidates are tried in order, from the first.
CandidateInv ==
    \A w \in Workers : /\ worker[w].pc = "load" => worker[w].model = 0
                       /\ worker[w].pc = "call" => worker[w].model < Models

CallsInv == CandidateInv /\ \A j \in Jobs : StampInv(j) /\ BudgetInv(j)

LEMMA Multiples ==
    ASSUME NEW m \in Nat, NEW a \in Nat, NEW b \in Nat
    PROVE  /\ m * a \in Nat
           /\ a <= b => m * a <= m * b
           /\ m * (a + 1) = m * a + m
  OBVIOUS

\* A comment is purged by Purge only, and stays so.
LEMMA Purging ==
    ASSUME TypeOK, [Next]_vars, NEW c \in Comments
    PROVE  \/ comment'[c] = comment[c]
           \/ Purge(c)
           \/ comment[c] # "purged" /\ comment'[c] # "purged"
<1>1. CASE UNCHANGED comment
  BY <1>1
<1>2. ASSUME NEW d \in Comments, Purge(d)
      PROVE  comment'[c] = comment[c] \/ Purge(c)
  BY <1>2 DEF TypeOK, Purge
<1>3. ASSUME NEW d \in Comments, NEW s \in {"pending", "visible"}, Post(d, s)
      PROVE  comment'[c] = comment[c] \/ (comment[c] # "purged" /\ comment'[c] # "purged")
  BY <1>3 DEF TypeOK, Post
<1>4. ASSUME NEW d \in Comments, NEW t \in Transitions, Moderate(d, t)
      PROVE  comment'[c] = comment[c] \/ (comment[c] # "purged" /\ comment'[c] # "purged")
  <2>1. t[1] # "purged" /\ t[3] # "purged"
    BY DEF Transitions
  <2>2. QED
    BY <1>4, <2>1 DEF TypeOK, Moderate
<1>5. QED
  BY NextCases, <1>1, <1>2, <1>3, <1>4
  DEF Schedule, ScheduleLost, Expire, IgnoreMessage, Elapse, Claim, Load, Skip, CallModel,
      CompleteModeration, CompleteTranslation, PersistenceFails, FailOrRetry, Notify,
      NotifyFails, Crash, Recover, TeacherStep, UpdateOrganization, UpdateSession,
      RetryComment, Requeue, Backfill, AdminDies, vars

\* The count of start-overs never goes down.
LEMMA Restarts ==
    ASSUME TypeOK, [Next]_vars, admin = "requeue" => edits > 0
    PROVE  /\ StartOvers \in Nat
           /\ StartOvers' \in Nat
           /\ StartOvers <= StartOvers'
           /\ admin' = "requeue" => edits' > 0
<1>1. edits \in Nat /\ StartOvers \in Nat
  BY DEF TypeOK, StartOvers
<1>2. CASE UNCHANGED <<admin, edits>>
  BY <1>1, <1>2 DEF StartOvers
<1>3. CASE Edit /\ UNCHANGED admin
  BY <1>1, <1>3 DEF Edit, StartOvers
<1>4. ASSUME NEW new \in Choices, NEW q \in BOOLEAN, UpdateSession(new, q)
      PROVE  /\ StartOvers' \in Nat /\ StartOvers <= StartOvers'
             /\ admin' = "requeue" => edits' > 0
  BY <1>1, <1>4 DEF UpdateSession, Edit, StartOvers
<1>5. CASE Requeue \/ Backfill \/ AdminDies
  BY <1>1, <1>5 DEF Requeue, Backfill, AdminDies, StartOvers
<1>6. QED
  BY NextCases, <1>1, <1>2, <1>3, <1>4, <1>5
  DEF Post, Schedule, ScheduleLost, Expire, Purge, IgnoreMessage, Elapse, Claim, Load, Skip,
      CallModel, CompleteModeration, CompleteTranslation, PersistenceFails, FailOrRetry,
      Notify, NotifyFails, Crash, Recover, TeacherStep, Moderate, UpdateOrganization,
      RetryComment, vars

\* Who inserts a row or starts it over, and who removes it: nobody else does.
LEMMA RowsAfter ==
    ASSUME TypeOK, [Next]_vars, NEW j \in Jobs
    PROVE  \/ job'[j] = job[j]
           \/ \E cs : CreateJobs(Created(cs))
           \/ Requeue
           \/ \E c \in Comments, types \in SUBSET Types : RetryComment(c, types)
           \/ Purge(j.comment)
           \/ Waited(j)
           \/ job'[j].status \notin {"none", "queued"}
<1>1. job[j] \in RowType /\ j.comment \in Comments
  BY DEF TypeOK, Jobs
<1>2. /\ \A st \in Terminal, e \in Codes : Ended(job[j], st, e).status = st
      /\ {"failed", "skipped", "succeeded"} \subseteq Terminal
  BY <1>1 DEF Ended, RowType, Terminal
<1>3. ASSUME NEW c \in Comments, Purge(c)
      PROVE  job'[j] = job[j] \/ Purge(j.comment)
  BY <1>3 DEF Purge
<1>4. ASSUME NEW i \in Jobs, Elapse(i)
      PROVE  job'[j] = job[j] \/ Waited(j)
  <2>1. CASE i = j
    BY <1>4, <2>1 DEF TypeOK, Elapse, Waited, Kept
  <2>2. CASE i # j
    BY <1>4, <2>2 DEF TypeOK, Elapse
  <2>3. QED
    BY <2>1, <2>2
<1>5. ASSUME NEW w \in Workers, NEW i \in Jobs, Claim(w, i)
      PROVE  job'[j] = job[j] \/ job'[j].status = "processing"
  <2>1. CASE i = j
    BY <1>5, <2>1 DEF TypeOK, Claim, Row
  <2>2. CASE i # j
    BY <1>5, <2>2 DEF TypeOK, Claim
  <2>3. QED
    BY <2>1, <2>2
<1>6. ASSUME NEW w \in Workers, Skip(w)
      PROVE  job'[j] = job[j] \/ job'[j].status = "skipped"
  BY <1>2, <1>6 DEF TypeOK, Skip, WorkerType
<1>7. ASSUME NEW w \in Workers,
             CompleteModeration(w) \/ \E shown \in BOOLEAN : CompleteTranslation(w, shown)
      PROVE  job'[j] = job[j] \/ job'[j].status = "succeeded"
  <2>1. UNCHANGED job \/ Succeed(w)
    BY <1>7 DEF CompleteModeration, CompleteTranslation
  <2>2. QED
    BY <1>2, <2>1, CodeTypes DEF TypeOK, Succeed
<1>8. ASSUME NEW w \in Workers, FailOrRetry(w)
      PROVE  job'[j] = job[j] \/ job'[j].status \in {"failed", "retry"}
  <2>1. CASE worker[w].job = j /\ Owns(w)
    <3>1. worker[w].code \in Codes
      BY DEF TypeOK, WorkerType
    <3>2. \/ job'[j] = Ended(job[j], "failed", worker[w].code)
          \/ job'[j] = Row("retry", job[j].attempts, 0, FALSE, worker[w].code, job[j].stamp)
      BY <1>8, <2>1 DEF TypeOK, FailOrRetry
    <3>3. QED
      BY <1>2, <3>1, <3>2 DEF Row
  <2>2. CASE worker[w].job # j \/ ~ Owns(w)
    BY <1>8, <2>2 DEF TypeOK, FailOrRetry
  <2>3. QED
    BY <2>1, <2>2
<1>9. ASSUME Recover
      PROVE  job'[j] = job[j] \/ job'[j].status \in {"skipped", "failed", "retry"}
  <2>1. job'[j] = Recovered(j)
    BY <1>9 DEF Recover
  <2>2. QED
    BY <1>2, <2>1, CodeTypes DEF Recovered, Row
<1>10. CASE UNCHANGED job
  BY <1>10
<1>11. CASE TeacherStep
  BY <1>10, <1>11 DEF TeacherStep, Moderate, UpdateOrganization, UpdateSession
<1>12. QED
  BY NextCases, <1>3, <1>4, <1>5, <1>6, <1>7, <1>8, <1>9, <1>10, <1>11
  DEF Post, Schedule, ScheduleLost, Expire, IgnoreMessage, Load, CallModel, PersistenceFails,
      Notify, NotifyFails, Crash, Backfill, AdminDies, vars

\* A row that is as good as new was so already, or was created for a comment that
\* is there, or was started over by a request of a teacher, which is used up.
LEMMA StartingOver ==
    ASSUME TypeOK, [Next]_vars, NEW j \in Jobs, job'[j] = Fresh(job[j].stamp)
    PROVE  \/ job[j].status # "none" /\ job[j].attempts = 0
           \/ job[j].status = "none" /\ comment[j.comment] # "purged"
           \/ job[j].status # "none" /\ StartOvers' = StartOvers + 1
<1>1. job[j] \in RowType /\ job'[j].status = "queued" /\ job'[j].attempts = 0
  BY DEF TypeOK, Fresh, Row
<1>2. CASE job'[j] = job[j]
  BY <1>1, <1>2
<1>3. ASSUME NEW cs, CreateJobs(Created(cs)), job'[j] # job[j]
      PROVE  job[j].status = "none" /\ comment[j.comment] # "purged"
  <2>1. j \in Created(cs)
    BY <1>3 DEF CreateJobs
  <2>2. QED
    BY <2>1 DEF Created, Planned, Alive, NotDeleted
<1>4. CASE Requeue /\ job'[j] # job[j]
  <2>1. StartOvers' = StartOvers + 1
    BY <1>4 DEF Requeue, StartOvers, TypeOK
  <2>2. QED
    BY <1>4, <2>1 DEF Requeue, Requeued
<1>5. ASSUME NEW c \in Comments, NEW types \in SUBSET Types, RetryComment(c, types),
             job'[j] # job[j]
      PROVE  job[j].status # "none" /\ StartOvers' = StartOvers + 1
  <2>1. StartOvers' = StartOvers + 1
    BY <1>5 DEF RetryComment, Edit, StartOvers, TypeOK
  <2>2. QED
    BY <1>5, <2>1 DEF RetryComment, Retried
<1>6. CASE Waited(j)
  BY <1>1, <1>6 DEF Waited, RowType, Waiting
<1>7. CASE Purge(j.comment)
  BY <1>1, <1>2, <1>7 DEF Purge, Absent, Row
<1>8. QED
  BY RowsAfter, <1>1, <1>2, <1>3, <1>4, <1>5, <1>6, <1>7

\* A row goes with its comment only.
LEMMA Vanishing ==
    ASSUME TypeOK, [Next]_vars, NEW j \in Jobs, job'[j].status = "none"
    PROVE  job'[j] = job[j] \/ Purge(j.comment)
<1>1. \A s : Fresh(s).status = "queued"
  BY DEF Fresh, Row
<1>2. ASSUME NEW cs, CreateJobs(Created(cs))
      PROVE  job'[j] = job[j]
  BY <1>1, <1>2 DEF CreateJobs
<1>3. CASE Requeue \/ \E c \in Comments, types \in SUBSET Types : RetryComment(c, types)
  BY <1>1, <1>3 DEF Requeue, RetryComment
<1>4. ~ Waited(j)
  BY DEF Waited, TypeOK, RowType, Waiting
<1>5. QED
  BY RowsAfter, <1>2, <1>3, <1>4


\* The claims of a row, its attempts and the requests used up stay in step.
LEMMA StampStep ==
    ASSUME TypeOK, [Next]_vars, NEW j \in Jobs, StampInv(j)
    PROVE  /\ admin' = "requeue" => edits' > 0
           /\ IF comment'[j.comment] = "purged"
              THEN job'[j].status = "none"
              ELSE /\ job'[j].stamp <= MaxAttempts * StartOvers' + job'[j].attempts
                   /\ job'[j].status = "none" => job'[j].attempts = 0
<1> DEFINE c == j.comment
<1> DEFINE before == MaxAttempts * StartOvers
           after == MaxAttempts * StartOvers'
<1>1. /\ c \in Comments
      /\ job[j] \in RowType
      /\ job[j].stamp \in Nat
      /\ job[j].attempts \in Nat /\ job[j].attempts <= MaxAttempts
      /\ MaxAttempts \in Nat
  <2>1. c \in Comments /\ job[j] \in RowType
    BY DEF TypeOK, Jobs
  <2>2. job[j].stamp \in Nat /\ job[j].attempts \in 0..MaxAttempts
    BY <2>1 DEF RowType
  <2>3. QED
    BY <2>1, <2>2, AiConstants
<1>2. /\ StartOvers \in Nat /\ StartOvers' \in Nat /\ StartOvers <= StartOvers'
      /\ admin' = "requeue" => edits' > 0
  BY Restarts DEF StampInv
<1>3. /\ before \in Nat
      /\ after \in Nat
      /\ before <= after
      /\ StartOvers' = StartOvers + 1 =>
            after = before + MaxAttempts
  BY <1>2, AiConstants, Multiples
<1> HIDE DEF before, after
<1>4. CASE Purge(c)
  BY <1>2, <1>4 DEF Purge, TypeOK, Absent, Row
<1>5. CASE comment[c] = "purged" /\ comment'[c] = "purged"
  <2>1. job[j].status = "none"
    BY <1>5 DEF StampInv
  <2>2. Untouched(j) \/ Started(j) \/ Removed(j)
    BY <2>1, RowSteps DEF RowStep, Taken, Waited, Stopped, Returned, Settled, Waiting
  <2>3. ~ Started(j)
    BY <1>5, <2>1, StartingOver DEF Started
  <2>4. QED
    BY <1>2, <1>5, <2>1, <2>2, <2>3 DEF Untouched, Removed, Absent, Row
<1>6. CASE comment[c] # "purged" /\ comment'[c] # "purged"
  <2>1. /\ job[j].stamp <= before + job[j].attempts
        /\ job[j].status = "none" => job[j].attempts = 0
    BY <1>6 DEF StampInv, before
  <2> SUFFICES /\ job'[j].stamp <= after + job'[j].attempts
               /\ job'[j].status = "none" => job'[j].attempts = 0
    BY <1>2, <1>6 DEF after
  <2>2. CASE Untouched(j)
    BY <1>1, <1>3, <2>1, <2>2 DEF Untouched
  <2>3. CASE Started(j)
    <3>1. job'[j].status = "queued" /\ job'[j].attempts = 0 /\ job'[j].stamp = job[j].stamp
      BY <2>3 DEF Started, Fresh, Row
    <3>2. job[j].attempts = 0 \/ StartOvers' = StartOvers + 1
      BY <2>1, <2>3, StartingOver DEF Started
    <3>3. QED
      BY <1>1, <1>3, <2>1, <3>1, <3>2
  <2>4. CASE Taken(j)
    <3>1. /\ job'[j].status = "processing" /\ job'[j].attempts = job[j].attempts + 1
          /\ job'[j].stamp = job[j].stamp + 1
      BY <2>4 DEF Taken, Row
    <3>2. QED
      BY <1>1, <1>3, <2>1, <3>1
  <2>5. CASE Waited(j) \/ Stopped(j) \/ Returned(j) \/ Settled(j)
    <3>1. /\ job'[j].status # "none" /\ job'[j].attempts = job[j].attempts
          /\ job'[j].stamp = job[j].stamp
      <4>1. CASE Waited(j)
        BY <1>1, <4>1 DEF Waited, RowType, Waiting
      <4>2. CASE Stopped(j)
        BY <1>1, <4>2 DEF Stopped, Ended, RowType
      <4>3. CASE Returned(j)
        BY <4>3 DEF Returned, Row
      <4>4. CASE Settled(j)
        BY <1>1, <4>4 DEF Settled, Ended, RowType
      <4>5. QED
        BY <2>5, <4>1, <4>2, <4>3, <4>4
    <3>2. QED
      BY <1>1, <1>3, <2>1, <3>1
  <2>6. CASE Removed(j)
    <3>1. job'[j].status = "none"
      BY <2>6 DEF Removed, Absent, Row
    <3>2. job'[j] = job[j]
      BY <1>6, <3>1, Vanishing DEF Purge, TypeOK
    <3>3. QED
      BY <1>1, <1>3, <2>1, <3>2
  <2>7. QED
    BY <2>2, <2>3, <2>4, <2>5, <2>6, RowSteps DEF RowStep
<1>7. QED
  BY <1>1, <1>4, <1>5, <1>6, Purging


\* What a step does to an invocation that may still call models.
LEMMA Calling ==
    ASSUME TypeOK, CandidateInv, [Next]_vars, NEW w \in Workers,
           worker'[w].pc \in {"load", "call"}
    PROVE  \/ worker'[w] = worker[w]
           \/ /\ worker[w].pc \in {"load", "call"}
              /\ worker'[w].pc = "call" /\ worker'[w].job = worker[w].job
              /\ worker'[w].model \in Nat
              /\ worker[w].model <= worker'[w].model /\ worker'[w].model < Models
           \/ \E j \in Jobs : /\ Claim(w, j)
                              /\ worker'[w].pc = "load" /\ worker'[w].job = j
                              /\ worker'[w].model = 0
<1> DEFINE Goes == /\ worker[w].pc \in {"load", "call"}
                   /\ worker'[w].pc = "call" /\ worker'[w].job = worker[w].job
                   /\ worker'[w].model \in Nat
                   /\ worker[w].model <= worker'[w].model /\ worker'[w].model < Models
           Claims(j) == /\ Claim(w, j)
                        /\ worker'[w].pc = "load" /\ worker'[w].job = j
                        /\ worker'[w].model = 0
<1>1. /\ worker \in [Workers -> WorkerType] /\ worker[w].model \in Nat
      /\ worker[w].pc = "load" => worker[w].model = 0
      /\ worker[w].pc = "call" => worker[w].model < Models
      /\ 0 < Models
  BY AiConstants DEF TypeOK, WorkerType, CandidateInv
<1>2. ASSUME NEW v \in Workers, NEW x, Become(v, x)
      PROVE  worker'[v] = x /\ (w # v => worker'[w] = worker[w])
  BY <1>1, <1>2 DEF Become
<1>3. Idle.pc = "idle" /\ Idle.model = 0
  BY DEF Idle
<1>4. ASSUME NEW v \in Workers, Finish(v)
      PROVE  worker'[w] = worker[w]
  BY <1>2, <1>3, <1>4 DEF Finish
<1>5. ASSUME NEW v \in Workers, NEW x \in WorkerType,
             NEW pc \in {"skip", "commit", "fail", "notice", "guard"}, x.pc = pc, Become(v, x)
      PROVE  worker'[w] = worker[w]
  BY <1>2, <1>5
<1>6. \A v \in Workers : worker[v] \in WorkerType /\ worker[v].code \in Codes
  BY <1>1 DEF WorkerType
<1>7. ASSUME NEW v \in Workers, NEW j \in Jobs, Claim(v, j)
      PROVE  worker'[w] = worker[w] \/ Claims(j)
  <2> DEFINE x == [Idle EXCEPT !.pc = "load", !.job = j]
  <2>1. x.pc = "load" /\ x.job = j /\ x.model = 0
    BY DEF Idle
  <2>2. Become(v, x)
    BY <1>7 DEF Claim
  <2>3. QED
    BY <1>2, <1>7, <2>1, <2>2
<1>8. ASSUME NEW v \in Workers, Load(v)
      PROVE  worker'[w] = worker[w] \/ Goes
  <2>1. CASE Become(v, Idle)
    BY <1>4, <2>1 DEF Finish
  <2>2. CASE ~ Become(v, Idle)
    <3> DEFINE x == [Idle EXCEPT !.pc = IF SkipReason(worker[v].job) # "none" THEN "skip"
                                        ELSE IF worker[v].job.comment \in Sensitive THEN "guard"
                                        ELSE "call",
                                 !.job = worker[v].job,
                                 !.claim = job[worker[v].job].claimedAt,
                                 !.attempt = job[worker[v].job].attempts,
                                 !.code = SkipReason(worker[v].job)]
    <3>1. x.job = worker[v].job /\ x.model = 0 /\ x.pc \in {"skip", "guard", "call"}
      BY DEF Idle
    <3>2. worker[v].pc = "load" /\ Become(v, x)
      BY <1>8, <2>2 DEF Load
    <3> HIDE DEF x
    <3>3. CASE w = v
      BY <1>1, <1>2, <3>1, <3>2, <3>3
    <3>4. QED
      BY <1>2, <3>2, <3>3
  <2>3. QED
    BY <2>1, <2>2
<1>9. ASSUME NEW v \in Workers, CallModel(v)
      PROVE  worker'[w] = worker[w] \/ Goes
  <2>1. ASSUME NEW pc \in {"commit", "fail", "skip"}, NEW code,
               Become(v, [worker[v] EXCEPT !.pc = pc, !.code = code])
        PROVE  worker'[w] = worker[w]
    <3>1. [worker[v] EXCEPT !.pc = pc, !.code = code].pc = pc
      BY <1>6 DEF WorkerType
    <3>2. QED
      BY <1>2, <2>1, <3>1
  <2>2. CASE worker[v].model + 1 < Models /\ Become(v, [worker[v] EXCEPT !.model = @ + 1])
    <3> DEFINE x == [worker[v] EXCEPT !.model = @ + 1]
    <3>1. x.pc = "call" /\ x.job = worker[v].job /\ x.model = worker[v].model + 1
      BY <1>6, <1>9 DEF WorkerType, CallModel
    <3>2. worker[v].pc = "call" /\ worker[v].model + 1 < Models /\ Become(v, x)
      BY <1>9, <2>2 DEF CallModel
    <3> HIDE DEF x
    <3>3. CASE w = v
      BY <1>1, <1>2, <3>1, <3>2, <3>3
    <3>4. QED
      BY <1>2, <3>2, <3>3
  <2>3. QED
    BY <1>9, <2>1, <2>2 DEF CallModel
<1>10. ASSUME NEW v \in Workers, Skip(v) \/ CompleteModeration(v)
      PROVE  worker'[w] = worker[w]
  BY <1>2, <1>4, <1>6, <1>10 DEF Skip, CompleteModeration, WorkerType
<1>11. ASSUME NEW v \in Workers, NEW shown \in BOOLEAN, CompleteTranslation(v, shown)
      PROVE  worker'[w] = worker[w]
  <2>1. [worker[v] EXCEPT !.pc = "notice", !.code = "none"].pc = "notice"
    BY <1>6 DEF WorkerType
  <2>2. Finish(v) \/ Become(v, [worker[v] EXCEPT !.pc = "notice", !.code = "none"])
    BY <1>11 DEF CompleteTranslation
  <2>3. QED
    BY <1>2, <1>4, <2>1, <2>2
<1>12. ASSUME NEW v \in Workers, PersistenceFails(v) \/ FailOrRetry(v)
      PROVE  worker'[w] = worker[w]
  <2>1. /\ [worker[v] EXCEPT !.pc = "fail", !.code = PersistCode].pc = "fail"
        /\ [worker[v] EXCEPT !.pc = "notice", !.retry = ~ FinalFailure(v)].pc = "notice"
    BY <1>6 DEF WorkerType
  <2>2. \/ Finish(v)
        \/ Become(v, [worker[v] EXCEPT !.pc = "fail", !.code = PersistCode])
        \/ Become(v, [worker[v] EXCEPT !.pc = "notice", !.retry = ~ FinalFailure(v)])
    BY <1>12 DEF PersistenceFails, FailOrRetry
  <2>3. QED
    BY <1>2, <1>4, <2>1, <2>2
<1>13. ASSUME NEW v \in Workers, Notify(v) \/ NotifyFails(v) \/ Crash(v)
      PROVE  worker'[w] = worker[w]
  BY <1>4, <1>13 DEF Notify, NotifyFails, Crash
<1>14. ASSUME NEW v \in Workers,
              ~ \E j \in Jobs : Claim(v, j), ~ Load(v), ~ CallModel(v),
              WorkerStep(v) \/ Crash(v)
       PROVE  worker'[w] = worker[w]
  BY <1>10, <1>11, <1>12, <1>13, <1>14 DEF WorkerStep
<1>15. TeacherStep => UNCHANGED worker
  BY DEF TeacherStep, Moderate, UpdateOrganization, UpdateSession, RetryComment
<1>16. ASSUME \A v \in Workers, j \in Jobs : ~ Claim(v, j),
              \A v \in Workers : ~ WorkerStep(v) /\ ~ Crash(v)
       PROVE  UNCHANGED worker
  <2>1. ASSUME NEW c \in Comments,
               \/ \E st \in {"pending", "visible"} : Post(c, st)
               \/ Schedule(c) \/ ScheduleLost(c) \/ Expire(c) \/ Purge(c)
        PROVE  UNCHANGED worker
    BY <2>1 DEF Post, Schedule, ScheduleLost, Expire, Purge
  <2>2. ASSUME NEW j \in Jobs, IgnoreMessage(j) \/ Elapse(j)
        PROVE  UNCHANGED worker
    BY <2>2 DEF IgnoreMessage, Elapse
  <2>3. CASE Recover \/ Requeue \/ Backfill \/ AdminDies \/ UNCHANGED vars
    BY <2>3 DEF Recover, Requeue, Backfill, AdminDies, vars
  <2>4. QED
    BY <1>15, <1>16, <2>1, <2>2, <2>3 DEF Next
<1>17. QED
  BY <1>7, <1>8, <1>9, <1>14, <1>16

LEMMA CandidateStep ==
    ASSUME TypeOK, CandidateInv, [Next]_vars
    PROVE  CandidateInv'
<1> SUFFICES ASSUME NEW w \in Workers, worker'[w].pc \in {"load", "call"}
             PROVE  /\ worker'[w].pc = "load" => worker'[w].model = 0
                    /\ worker'[w].pc = "call" => worker'[w].model < Models
  BY DEF CandidateInv
<1>1. QED
  BY Calling DEF CandidateInv

\* No step but a claim adds a call that may follow.
LEMMA CallsShrink ==
    ASSUME TypeOK, CandidateInv, [Next]_vars, NEW j \in Jobs,
           ~ \E w \in Workers : Claim(w, j)
    PROVE  CallsLeft(j)' \subseteq CallsLeft(j)
<1> SUFFICES ASSUME NEW w \in Workers, NEW k \in 1..Models,
                    worker'[w].pc \in {"load", "call"}, worker'[w].job = j,
                    worker'[w].model < k
             PROVE  <<w, k>> \in CallsLeft(j)
  BY DEF CallsLeft
<1>1. worker[w].model \in Nat
  BY DEF TypeOK, WorkerType
<1>2. worker[w].pc \in {"load", "call"} /\ worker[w].job = j /\ worker[w].model < k
  BY <1>1, Calling
<1>3. QED
  BY <1>2 DEF CallsLeft

\* A call is recorded for the candidate that is tried.
LEMMA Spending ==
    ASSUME TypeOK, [Next]_vars, NEW j \in Jobs
    PROVE  \/ usage'[j] = usage[j]
           \/ Purge(j.comment) /\ usage'[j] = 0
           \/ \E w \in Workers : /\ CallModel(w) /\ worker[w].job = j
                                 /\ job[j].status # "none"
                                 /\ usage'[j] = usage[j] + 1
<1>1. CASE UNCHANGED usage
  BY <1>1
<1>2. ASSUME NEW c \in Comments, Purge(c)
      PROVE  usage'[j] = usage[j] \/ (Purge(j.comment) /\ usage'[j] = 0)
  BY <1>2 DEF Purge
<1>3. ASSUME NEW w \in Workers, CallModel(w)
      PROVE  \/ usage'[j] = usage[j]
             \/ /\ worker[w].job = j /\ job[j].status # "none"
                /\ usage'[j] = usage[j] + 1
  BY <1>3 DEF CallModel, TypeOK
<1>4. CASE TeacherStep
  BY <1>1, <1>4 DEF TeacherStep, Moderate, UpdateOrganization, UpdateSession, RetryComment
<1>5. QED
  BY NextCases, <1>1, <1>2, <1>3, <1>4
  DEF Post, Schedule, ScheduleLost, Expire, IgnoreMessage, Elapse, Claim, Load, Skip,
      CompleteModeration, CompleteTranslation, PersistenceFails, FailOrRetry, Notify,
      NotifyFails, Crash, Recover, Requeue, Backfill, AdminDies, vars

\* A claim is for one job, by one invocation: it may lead to one call of each model.
LEMMA Claiming ==
    ASSUME TypeOK, CandidateInv, [Next]_vars, NEW w \in Workers, NEW j \in Jobs, Claim(w, j)
    PROVE  /\ usage'[j] = usage[j] /\ job'[j].stamp = job[j].stamp + 1
           /\ CallsLeft(j)' \subseteq CallsLeft(j) \cup ({w} \X (1..Models))
<1>1. usage'[j] = usage[j] /\ job'[j].stamp = job[j].stamp + 1
  BY DEF Claim, Row, TypeOK
<1>2. \A v \in Workers : v # w => worker'[v] = worker[v]
  BY DEF Claim, Become, TypeOK
<1>3. QED
  BY <1>1, <1>2 DEF CallsLeft

LEMMA BudgetStep ==
    ASSUME TypeOK, CandidateInv, [Next]_vars, NEW j \in Jobs, BudgetInv(j)
    PROVE  BudgetInv(j)'
<1> DEFINE left == CallsLeft(j)
           bound == Models * job[j].stamp
<1>1. /\ IsFiniteSet(left) /\ Cardinality(left) \in Nat
      /\ usage[j] \in Nat /\ usage'[j] \in Nat
      /\ Models \in Nat /\ job[j].stamp \in Nat /\ bound \in Nat
      /\ usage[j] + Cardinality(left) <= bound
  <2>1. /\ IsFiniteSet(left) /\ usage[j] + Cardinality(left) <= bound
        /\ usage[j] \in Nat /\ job[j].stamp \in Nat /\ Models \in Nat
    BY AiConstants DEF BudgetInv, TypeOK, RowType
  <2>2. Cardinality(left) \in Nat
    BY <2>1, FS_CardinalityType
  <2>3. usage'[j] \in Nat
    BY <2>1, Spending
  <2>4. QED
    BY <2>1, <2>2, <2>3, Multiples
<1> HIDE DEF left
<1>2. CASE \E w \in Workers : Claim(w, j)
  <2>1. PICK w \in Workers : Claim(w, j)
    BY <1>2
  <2> DEFINE new == {w} \X (1..Models)
  <2>2. IsFiniteSet(new) /\ Cardinality(new) = Models
    <3>1. /\ IsFiniteSet({w}) /\ Cardinality({w}) = 1
          /\ IsFiniteSet(1..Models) /\ Cardinality(1..Models) = Models
      <4>1. IsFiniteSet(1..Models) /\ Cardinality(1..Models) = Models
        BY <1>1, AiConstants, FS_Interval
      <4>2. QED
        BY <4>1, FS_Singleton
    <3>2. IsFiniteSet(new) /\ Cardinality(new) = 1 * Models
      BY <3>1, FS_Product
    <3>3. QED
      BY <1>1, <3>2
  <2> HIDE DEF new
  <2>3. /\ IsFiniteSet(left \cup new)
        /\ Cardinality(left \cup new) <= Cardinality(left) + Models
    <3>1. Cardinality(left \cap new) \in Nat
      BY <1>1, FS_Intersection, FS_CardinalityType
    <3>2. /\ IsFiniteSet(left \cup new)
          /\ Cardinality(left \cup new)
                = Cardinality(left) + Cardinality(new) - Cardinality(left \cap new)
      BY <1>1, <2>2, FS_Union
    <3>3. QED
      BY <1>1, <2>2, <3>1, <3>2
  <2>4. /\ usage'[j] = usage[j] /\ job'[j].stamp = job[j].stamp + 1
        /\ left' \subseteq left \cup new
    BY <2>1, Claiming DEF left, new
  <2>5. /\ IsFiniteSet(left')
        /\ Cardinality(left') <= Cardinality(left \cup new)
    BY <2>3, <2>4, FS_Subset
  <2>6. Models * job'[j].stamp = bound + Models
    BY <1>1, <2>4, Multiples
  <2>7. Cardinality(left') \in Nat /\ Cardinality(left \cup new) \in Nat
    BY <2>3, <2>5, FS_CardinalityType
  <2>8. usage'[j] + Cardinality(left') <= bound + Models
    BY <1>1, <2>3, <2>4, <2>5, <2>7
  <2>9. QED
    BY <2>5, <2>6, <2>8 DEF BudgetInv, left
<1>3. CASE ~ \E w \in Workers : Claim(w, j)
  <2>1. left' \subseteq left
    BY <1>3, CallsShrink DEF left
  <2>2. /\ IsFiniteSet(left') /\ Cardinality(left') <= Cardinality(left)
        /\ Cardinality(left') \in Nat
    BY <1>1, <2>1, FS_Subset, FS_CardinalityType
  <2>3. bound <= Models * job'[j].stamp /\ Models * job'[j].stamp \in Nat
    <3>1. job'[j].stamp \in Nat /\ job[j].stamp <= job'[j].stamp
      <4>1. job[j] \in RowType
        BY DEF TypeOK
      <4>2. CASE Untouched(j) \/ Waited(j) \/ Stopped(j) \/ Settled(j)
        <5>1. job'[j].stamp = job[j].stamp
          BY <4>1, <4>2 DEF Untouched, Waited, Stopped, Settled, Ended, RowType
        <5>2. QED
          BY <1>1, <5>1
      <4>3. CASE Started(j) \/ Taken(j) \/ Returned(j) \/ Removed(j)
        <5>1. job'[j].stamp \in {job[j].stamp, job[j].stamp + 1}
          <6>1. CASE Started(j) \/ Removed(j)
            BY <6>1 DEF Started, Removed, Fresh, Absent, Row
          <6>2. CASE Taken(j)
            BY <6>2 DEF Taken, Row
          <6>3. CASE Returned(j)
            BY <6>3 DEF Returned, Row
          <6>4. QED
            BY <4>3, <6>1, <6>2, <6>3
        <5>2. QED
          BY <1>1, <5>1
      <4>4. QED
        BY <4>2, <4>3, RowSteps DEF RowStep
    <3>2. QED
      BY <1>1, <3>1, Multiples
  <2>4. usage'[j] + Cardinality(left') <= usage[j] + Cardinality(left)
    <3>1. CASE usage'[j] = usage[j] \/ usage'[j] = 0
      BY <1>1, <2>2, <3>1
    <3>2. ASSUME NEW w \in Workers, CallModel(w), worker[w].job = j,
                 usage'[j] = usage[j] + 1
          PROVE  Cardinality(left') <= Cardinality(left) - 1
      <4> DEFINE p == <<w, worker[w].model + 1>>
      <4>1. p \in left
        <5>1. /\ worker[w].pc = "call" /\ worker[w].model \in Nat
              /\ worker[w].model < Models
          BY <3>2 DEF CallModel, CandidateInv, TypeOK, WorkerType
        <5>2. worker[w].model + 1 \in 1..Models
          BY <1>1, <5>1
        <5>3. QED
          BY <3>2, <5>1, <5>2 DEF CallsLeft, left
      <4>2. p \notin left'
        <5>1. worker'[w].pc \in {"load", "call"} => worker'[w].model = worker[w].model + 1
          <6>1. worker[w].pc = "call" /\ worker[w] \in WorkerType
            BY <3>2 DEF CallModel, TypeOK
          <6>2. ASSUME NEW pc \in {"commit", "fail", "skip"}, NEW code,
                       Become(w, [worker[w] EXCEPT !.pc = pc, !.code = code])
                PROVE  worker'[w].pc = pc
            BY <6>1, <6>2 DEF Become, TypeOK, WorkerType
          <6>3. CASE Become(w, [worker[w] EXCEPT !.model = @ + 1])
            BY <6>1, <6>3 DEF Become, TypeOK, WorkerType
          <6>4. QED
            BY <3>2, <6>2, <6>3 DEF CallModel
        <5>2. worker[w].model + 1 \in Nat
          BY DEF TypeOK, WorkerType
        <5>3. QED
          BY <5>1, <5>2 DEF CallsLeft, left
      <4>3. left' \subseteq left \ {p}
        BY <2>1, <4>2
      <4> HIDE DEF p
      <4>4. IsFiniteSet(left \ {p}) /\ Cardinality(left \ {p}) = Cardinality(left) - 1
        BY <1>1, <4>1, FS_RemoveElement
      <4>5. QED
        BY <4>3, <4>4, FS_Subset
    <3>3. QED
      BY <1>1, <2>2, <3>1, <3>2, Spending
  <2>5. QED
    BY <1>1, <2>2, <2>3, <2>4 DEF BudgetInv, left
<1>4. QED
  BY <1>2, <1>3

\* However often messages are repeated, consumers die and stale rows are recovered,
\* a job is sent to a model at most MaxAttempts * Models times per start-over.
THEOREM CallsStayBounded == Spec => []CallsAreBounded
<1>1. Init => CallsInv
  <2> SUFFICES ASSUME Init
               PROVE  CallsInv
    OBVIOUS
  <2>1. CandidateInv
    BY DEF Init, CandidateInv, Idle
  <2>2. ASSUME NEW j \in Jobs
        PROVE  StampInv(j)
    <3>1. /\ job[j].stamp = 0 /\ job[j].attempts = 0 /\ job[j].status = "none"
          /\ usage[j] = 0 /\ StartOvers = 0 /\ admin = "idle"
      BY DEF Init, Absent, Row, StartOvers
    <3>2. MaxAttempts * 0 = 0
      BY AiConstants
    <3>3. QED
      BY <3>1, <3>2 DEF StampInv
  <2>3. ASSUME NEW j \in Jobs
        PROVE  BudgetInv(j)
    <3>1. CallsLeft(j) = {}
      BY DEF Init, CallsLeft, Idle
    <3>2. job[j].stamp = 0 /\ usage[j] = 0 /\ Models * 0 = 0
      BY AiConstants DEF Init, Absent, Row
    <3>3. QED
      BY <3>1, <3>2, FS_EmptySet DEF BudgetInv
  <2>4. QED
    BY <2>1, <2>2, <2>3 DEF CallsInv
<1>2. TypeOK /\ CallsInv /\ [Next]_vars => CallsInv'
  <2> SUFFICES ASSUME TypeOK, CallsInv, [Next]_vars
               PROVE  CallsInv'
    OBVIOUS
  <2>1. CandidateInv'
    BY CandidateStep DEF CallsInv
  <2>2. ASSUME NEW j \in Jobs
        PROVE  StampInv(j)'
    <3>1. StampInv(j) /\ j.comment \in Comments /\ usage[j] \in Nat
      BY DEF CallsInv, Jobs, TypeOK
    <3>2. comment'[j.comment] = "purged" => usage'[j] = 0
      <4>1. CASE Purge(j.comment)
        BY <4>1 DEF Purge
      <4>2. CASE comment[j.comment] = "purged"
        BY <3>1, <4>2, Spending DEF StampInv
      <4>3. QED
        BY <3>1, <4>1, <4>2, Purging
    <3>3. QED
      BY <3>1, <3>2, StampStep DEF StampInv
  <2>3. ASSUME NEW j \in Jobs
        PROVE  BudgetInv(j)'
    BY BudgetStep DEF CallsInv
  <2>4. QED
    BY <2>1, <2>2, <2>3 DEF CallsInv
<1>3. TypeOK /\ CallsInv => CallsAreBounded
  <2> SUFFICES ASSUME TypeOK, CallsInv, NEW j \in Jobs
               PROVE  usage[j] <= MaxAttempts * Models * (1 + edits)
    BY DEF CallsAreBounded
  <2> DEFINE stamp == job[j].stamp
  <2>1. /\ usage[j] \in Nat /\ edits \in Nat /\ stamp \in Nat
        /\ job[j].attempts \in Nat /\ job[j].attempts <= MaxAttempts
        /\ MaxAttempts \in Nat /\ Models \in Nat
    <3>1. job[j] \in RowType
      BY DEF TypeOK
    <3>2. stamp \in Nat /\ job[j].attempts \in 0..MaxAttempts
      BY <3>1 DEF RowType
    <3>3. QED
      BY <3>2, AiConstants DEF TypeOK
  <2>2. MaxAttempts * Models * (1 + edits) = Models * (MaxAttempts * (edits + 1))
    BY <2>1
  <2>3. MaxAttempts * (edits + 1) \in Nat
    BY <2>1, Multiples
  <2>4. CASE usage[j] = 0
    BY <2>1, <2>2, <2>3, <2>4, Multiples
  <2>5. CASE stamp <= MaxAttempts * StartOvers + job[j].attempts
    <3>1. StartOvers \in Nat /\ StartOvers <= edits
      BY <2>1 DEF CallsInv, StampInv, StartOvers
    <3>2. /\ MaxAttempts * StartOvers \in Nat /\ MaxAttempts * edits \in Nat
          /\ MaxAttempts * StartOvers <= MaxAttempts * edits
          /\ MaxAttempts * (edits + 1) = MaxAttempts * edits + MaxAttempts
      BY <2>1, <3>1, Multiples
    <3> DEFINE most == MaxAttempts * (edits + 1)
    <3>3. stamp <= most
      BY <2>1, <2>5, <3>2
    <3>4. most \in Nat
      BY <2>3
    <3> HIDE DEF most
    <3>5. Models * stamp <= Models * most /\ Models * stamp \in Nat /\ Models * most \in Nat
      BY <2>1, <3>3, <3>4, Multiples
    <3>6. usage[j] <= Models * stamp
      <4>1. /\ Cardinality(CallsLeft(j)) \in Nat
            /\ usage[j] + Cardinality(CallsLeft(j)) <= Models * stamp
        BY FS_CardinalityType DEF CallsInv, BudgetInv
      <4>2. QED
        BY <2>1, <3>5, <4>1
    <3>7. usage[j] <= Models * most
      BY <2>1, <3>5, <3>6
    <3>8. QED
      BY <2>2, <3>7 DEF most
  <2>6. QED
    BY <2>4, <2>5 DEF CallsInv, StampInv
<1>4. QED
  BY <1>1, <1>2, <1>3, Typing, PTL DEF Spec
=============================================================================
