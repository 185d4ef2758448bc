------------------------------- MODULE AiJobs -------------------------------
(***************************************************************************)
(* The AI job pipeline: rows of the D1 table ai_jobs, the Cloudflare       *)
(* queues that carry their identifiers, the queue consumers that run them  *)
(* (src/ai/processor.js, src/ai/repository.js), the scheduled recovery,    *)
(* and the teachers who moderate comments and change the AI settings while *)
(* jobs are running.                                                       *)
(*                                                                         *)
(* One action is one D1 statement or batch, so two handlers interleave     *)
(* exactly where the code awaits.  A consumer may die between any two of   *)
(* its steps.  What is abstracted:                                         *)
(*   - time.  A job row waits either for run_after or, while processing,   *)
(*     for the 15 minutes after which it counts as stale; "elapsed" says   *)
(*     whether that wait is over.  claimed_at is the number of the claim   *)
(*     among the claims of its row: two claims of one row are assumed      *)
(*     never to share a millisecond.  0 stands for NULL.                   *)
(*   - the queues.  Delivery is at least once, in any order and after any  *)
(*     delay, and a message may be dead-lettered, so a queue is the set of *)
(*     the jobs some message names.                                        *)
(*   - the realtime log, reduced to what it makes a viewer show: screen[c] *)
(*     is TRUE while the last event that matters for comment c displays it *)
(*     (public/assets/viewer.js).  Module Realtime has the log itself.     *)
(***************************************************************************)
EXTENDS Naturals, FiniteSets, Functions

CONSTANTS
    Comments,       \* the comments of one class session
    Targets,        \* target languages the teacher may select
    Workers,        \* concurrent queue consumer invocations
    Language,       \* [Comments -> detected language, or "und"]
    Routed,         \* comments the filter settings route to AI moderation
    Reviewed,       \* comments in an unsupported language that needs AI review
    Sensitive,      \* comments in which the local privacy guard finds PII
    StartSettings,  \* AI settings the session may start with
    Choices,        \* AI settings a teacher of the session may save
    DailyLimit,     \* [{"moderation", "translation"} -> calls allowed per day]
    Models,         \* number of candidate models of one attempt
    MaxAttempts,    \* repository.js MAX_ATTEMPTS, 3 in production
    MaxPosts,       \* bound: comments posted, of those in Comments
    MaxEdits,       \* bound: teacher requests
    MaxCrashes,     \* bound: deaths of a consumer or of a teacher's request
    NoJob           \* "the consumer has no job"

Types == {"moderation", "translation"}
Settings == [org : BOOLEAN, moderation : BOOLEAN, translation : BOOLEAN, target : Targets]

ASSUME AiConstants ==
    /\ MaxAttempts \in Nat \ {0}
    /\ Models \in Nat \ {0}
    /\ MaxPosts \in Nat
    /\ MaxEdits \in Nat
    /\ MaxCrashes \in Nat
    /\ DailyLimit \in [Types -> Nat]
    /\ StartSettings \subseteq Settings
    /\ Choices \subseteq Settings
    /\ Reviewed \subseteq Routed
    /\ Routed \subseteq Comments
    /\ Sensitive \subseteq Comments

\* UNIQUE (comment_id, job_type, target_language): a job is its key.
Jobs == [comment : Comments, type : {"moderation"}, target : {""}]
        \cup [comment : Comments, type : {"translation"}, target : Targets]

ASSUME NoJobAssumption == NoJob \notin Jobs

VARIABLES
    comment,     \* [Comments -> moderation state; before and after the row]
    expired,     \* comments whose retained_until has passed
    settings,    \* organization_ai_settings and session_ai_settings
    job,         \* [Jobs -> row of ai_jobs]
    output,      \* [Jobs -> row of ai_results or translations]
    usage,       \* [Jobs -> number of its rows in ai_usage_events today]
    queue,       \* jobs named by a message in some queue
    worker,      \* [Workers -> state of the consumer invocation]
    admin,       \* the settings request still running, if any
    unscheduled, \* comments whose scheduleAiForComment call has not run yet
    screen,      \* [Comments -> whether the log displays the comment]
    edits, crashes

vars == <<comment, expired, settings, job, output, usage, queue, worker, admin,
          unscheduled, screen, edits, crashes>>

-----------------------------------------------------------------------------
(* States and rows *)

CommentStates == {"none", "pending", "visible", "hidden", "deleted", "purged"}

\* A consumer reads the clock once, when it claims: for the rest of that
\* invocation a comment that was retained then still is.
NotDeleted(c) == comment[c] \in {"pending", "visible", "hidden"}
Alive(c) == NotDeleted(c) /\ c \notin expired

Waiting == {"queued", "retry"}
Terminal == {"succeeded", "failed", "skipped"}
Statuses == {"none"} \cup Waiting \cup {"processing"} \cup Terminal

SkipCodes == {"AI_DISABLED", "COMMENT_NOT_VISIBLE", "AI_SETTING_CHANGED",
              "PII_DETECTED", "AI_DAILY_LIMIT_REACHED"}
\* Provider errors by what the processor does with them: backpressure and
\* outages, a failed D1 batch, and errors that are not retried.
DelayCode == "AI_PROVIDER_UNAVAILABLE"
PersistCode == "AI_PERSISTENCE_FAILED"
FatalCode == "AI_RESPONSE_INVALID"
FailCodes == {DelayCode, PersistCode, FatalCode}
Codes == {"none", "COMMENT_EXPIRED", "AI_STALE"} \cup SkipCodes \cup FailCodes

\* attempts, claimed_at and last_error_code of a row; stamp counts its claims.
Row(status, attempts, claimed, elapsed, err, stamp) ==
    [status |-> status, attempts |-> attempts, claimedAt |-> claimed,
     elapsed |-> elapsed, err |-> err, stamp |-> stamp]

Absent(stamp) == Row("none", 0, 0, FALSE, "none", stamp)
Fresh(stamp) == Row("queued", 0, 0, TRUE, "none", stamp)
Ended(row, status, err) == [row EXCEPT !.status = status, !.err = err, !.elapsed = FALSE]

NoOutput == [kind |-> "none", claim |-> 0, attempt |-> 0]

Idle == [pc |-> "idle", job |-> NoJob, claim |-> 0, attempt |-> 0, model |-> 0,
         code |-> "none", retry |-> FALSE]

\* The invocation w goes on to this state.
Become(w, state) == worker' = [worker EXCEPT ![w] = state]

Init ==
    /\ comment = [c \in Comments |-> "none"]
    /\ expired = {}
    /\ settings \in StartSettings
    /\ job = [j \in Jobs |-> Absent(0)]
    /\ output = [j \in Jobs |-> NoOutput]
    /\ usage = [j \in Jobs |-> 0]
    /\ queue = {}
    /\ worker = [w \in Workers |-> Idle]
    /\ admin = "idle"
    /\ unscheduled = {}
    /\ screen = [c \in Comments |-> FALSE]
    /\ edits = 0
    /\ crashes = 0

-----------------------------------------------------------------------------
(* Mistakes: variants of definitions below, each with one plausible bug, that *)
(* the properties are shown to catch.                                         *)

\* The message is acknowledged but the handler runs on.
FinishRunsOn(w) == Become(w, [worker[w] EXCEPT !.job = NoJob])

\* Compares with the wrong end of the bound.
FinalFailureOffByOne(w) == worker[w].code = FatalCode \/ worker[w].attempt > MaxAttempts

\* The result is written for visible comments only, the job finishes for all.
ModerationReadableVisible(c) == comment[c] = "visible"

\* A stale row is put back as if it had never been tried.
RecoveredAfresh(j) ==
    IF job[j].status = "processing" /\ job[j].elapsed THEN Fresh(job[j].stamp) ELSE job[j]

\* The write guard forgets claimed_at, or the status.
OwnsByAttempt(w) ==
    /\ job[worker[w].job].status = "processing"
    /\ job[worker[w].job].attempts = worker[w].attempt
OwnsByClaim(w) ==
    /\ worker[w].claim # 0
    /\ job[worker[w].job].claimedAt = worker[w].claim
    /\ job[worker[w].job].attempts = worker[w].attempt

\* A second consumer may claim a row that is processing.
ClaimableTwice(j) ==
    /\ job[j].status \in Waiting \cup {"processing"}
    /\ job[j].attempts < MaxAttempts
    /\ Alive(j.comment)

\* Recovery takes care of stale rows with attempts left only.
RecoveredWithAttemptsLeft(j) ==
    IF job[j].status = "processing" /\ job[j].elapsed /\ job[j].attempts < MaxAttempts
    THEN Row("retry", job[j].attempts, 0, TRUE, "AI_STALE", job[j].stamp)
    ELSE job[j]

-----------------------------------------------------------------------------
(* Creating jobs *)

\* createAiJobsForComment: the jobs planned for c under the current settings.
Planned(c) ==
    {j \in Jobs :
        /\ j.comment = c
        /\ settings.org
        /\ Alive(c)
        /\ IF j.type = "moderation"
           THEN (settings.moderation \/ c \in Reviewed) /\ c \in Routed
           ELSE /\ settings.translation
                /\ j.target = settings.target
                /\ comment[c] = "visible"
                /\ Language[c] \notin {"und", settings.target}}

\* INSERT OR IGNORE: only rows that did not exist are created and returned.
Created(cs) == {j \in UNION {Planned(c) : c \in cs} : job[j].status = "none"}

CreateJobs(new) ==
    job' = [j \in Jobs |-> IF j \in new THEN Fresh(job[j].stamp) ELSE job[j]]

\* dispatchAiJobs: each send may fail, and a failure is only logged.
Dispatch(js) == \E sent \in SUBSET js : queue' = queue \cup sent

\* persistComment inserted the row; the trigger appends message:new for a
\* visible one.  The room then calls scheduleAiForComment.
Post(c, state) ==
    /\ comment[c] = "none"
    /\ Cardinality({d \in Comments : comment[d] # "none"}) < MaxPosts
    /\ state \in {"pending", "visible"}
    /\ comment' = [comment EXCEPT ![c] = state]
    /\ screen' = [screen EXCEPT ![c] = (state = "visible")]
    /\ unscheduled' = unscheduled \cup {c}
    /\ UNCHANGED <<expired, settings, job, output, usage, queue, worker, admin, edits, crashes>>

Schedule(c) ==
    /\ c \in unscheduled
    /\ unscheduled' = unscheduled \ {c}
    /\ CreateJobs(Created({c}))
    /\ Dispatch(Created({c}))
    /\ UNCHANGED <<comment, expired, settings, output, usage, worker, admin, screen,
                   edits, crashes>>

\* Every immediate and background retry of the call failed, or its request
\* died first: nothing else will create the jobs of this comment.
ScheduleLost(c) ==
    /\ c \in unscheduled
    /\ unscheduled' = unscheduled \ {c}
    /\ UNCHANGED <<comment, expired, settings, job, output, usage, queue, worker, admin,
                   screen, edits, crashes>>

-----------------------------------------------------------------------------
(* A queue consumer *)

\* claimAiJob's WHERE clause.
Claimable(j) ==
    /\ job[j].status \in Waiting
    /\ job[j].elapsed
    /\ job[j].attempts < MaxAttempts
    /\ Alive(j.comment)

\* The message of a job that cannot be claimed is acknowledged (a completed
\* translation is first delivered to the room again; the message stays if the
\* room cannot be reached, which leaves everything as it is).
IgnoreMessage(j) ==
    /\ j \in queue
    /\ ~ Claimable(j)
    /\ queue' = queue \ {j}
    /\ UNCHANGED <<comment, expired, settings, job, output, usage, worker, admin,
                   unscheduled, screen, edits, crashes>>

\* The UPDATE of claimAiJob.  Delivery is at least once: the message may stay.
Claim(w, j) ==
    /\ worker[w].pc = "idle"
    /\ j \in queue
    /\ Claimable(j)
    /\ queue' \in {queue, queue \ {j}}
    /\ job' = [job EXCEPT ![j] = Row("processing", @.attempts + 1, @.stamp + 1,
                                     FALSE, "none", @.stamp + 1)]
    /\ Become(w, [Idle EXCEPT !.pc = "load", !.job = j])
    /\ UNCHANGED <<comment, expired, settings, output, usage, admin, unscheduled, screen,
                   edits, crashes>>

\* processAiJob's checks of the loaded context, in their order; "none": go on.
SkipReason(j) ==
    IF \/ ~ settings.org
       \/ j.type = "moderation" /\ ~ settings.moderation /\ j.comment \notin Reviewed
       \/ j.type = "translation" /\ ~ settings.translation
    THEN "AI_DISABLED"
    ELSE IF j.type = "translation" /\ comment[j.comment] # "visible"
    THEN "COMMENT_NOT_VISIBLE"
    ELSE IF j.type = "translation" /\ j.target # settings.target
    THEN "AI_SETTING_CHANGED"
    ELSE IF j.type = "translation" /\ j.comment \in Sensitive
    THEN "PII_DETECTED"
    ELSE "none"

\* loadAiJobContext, a second statement after the claim: claimed_at and
\* attempt_count are read here.  No row: the message is acknowledged and the
\* row stays processing.
Load(w) ==
    LET j == worker[w].job
        reason == SkipReason(j)
    IN /\ worker[w].pc = "load"
       /\ IF job[j].status = "none" \/ ~ NotDeleted(j.comment)
          THEN Become(w, Idle)
          ELSE Become(w, [Idle EXCEPT !.pc = IF reason # "none" THEN "skip"
                                             ELSE IF j.comment \in Sensitive THEN "guard"
                                             ELSE "call",
                                      !.job = j,
                                      !.claim = job[j].claimedAt,
                                      !.attempt = job[j].attempts,
                                      !.code = reason])
       /\ UNCHANGED <<comment, expired, settings, job, output, usage, queue, admin,
                      unscheduled, screen, edits, crashes>>

\* The guard of every write a consumer makes to its job: status, claimed_at and
\* attempt_count.  A NULL claimed_at equals nothing.
Owns(w) ==
    LET j == worker[w].job
    IN /\ job[j].status = "processing"
       /\ worker[w].claim # 0
       /\ job[j].claimedAt = worker[w].claim
       /\ job[j].attempts = worker[w].attempt

\* How an invocation ends: its message is acknowledged or put back.
Finish(w) == Become(w, Idle)
Ack == UNCHANGED queue
PutBack(w) == queue' = queue \cup {worker[w].job}

\* Skips that tell the viewers to stop waiting for a translation.
SkipNotifies(w) ==
    worker[w].job.type = "translation" /\ worker[w].code # "COMMENT_NOT_VISIBLE"

\* skipAiJob; a lost claim throws, and the message is retried in 30 s.
Skip(w) ==
    LET j == worker[w].job
    IN /\ worker[w].pc = "skip"
       /\ \/ /\ Owns(w)
             /\ job' = [job EXCEPT ![j] = Ended(@, "skipped", worker[w].code)]
             /\ IF SkipNotifies(w)
                THEN Become(w, [worker[w] EXCEPT !.pc = "notice"])
                ELSE Finish(w)
             /\ Ack
          \/ /\ ~ Owns(w)
             /\ UNCHANGED job
             /\ Finish(w)
             /\ PutBack(w)
       /\ UNCHANGED <<comment, expired, settings, output, usage, admin, unscheduled, screen,
                      edits, crashes>>

\* The trigger that aborts the INSERT INTO ai_usage_events.
CallsToday(t) == SumFunctionOnSet(usage, {j \in Jobs : j.type = t})
LimitReached(t) == CallsToday(t) >= DailyLimit[t]

\* One candidate model: reserveAiUsage, then the external call.  A failure of
\* any but the last candidate, other than a rate limit, falls through to the next.
CallModel(w) ==
    LET j == worker[w].job
        Ends(pc, code) == Become(w, [worker[w] EXCEPT !.pc = pc, !.code = code])
        reserved == /\ ~ LimitReached(j.type)
                    /\ job[j].status # "none"        \* the row refers to the job,
                    /\ worker[w].attempt <= job[j].attempts  \* and to an attempt it made
                    /\ usage' = [usage EXCEPT ![j] = @ + 1]
    IN /\ worker[w].pc = "call"
       /\ \/ LimitReached(j.type) /\ Ends("skip", "AI_DAILY_LIMIT_REACHED") /\ UNCHANGED usage
          \/ reserved /\ Ends("commit", "none")
          \/ /\ reserved \/ UNCHANGED usage        \* refused before or after reserving
             /\ \/ \E code \in {DelayCode, FatalCode} : Ends("fail", code)
                \/ /\ worker[w].model + 1 < Models
                   /\ Become(w, [worker[w] EXCEPT !.model = @ + 1])
       /\ UNCHANGED <<comment, expired, settings, job, output, queue, admin,
                      unscheduled, screen, edits, crashes>>

\* The rows a completing batch writes.  The INSERT ... SELECT of the output and
\* the UPDATE of the job have separate guards.
ModerationReadable(c) == NotDeleted(c)
TranslationReadable(c) == comment[c] = "visible"
FinishReadable(c) == NotDeleted(c)

WriteOutput(w, kind) ==
    output' = [output EXCEPT ![worker[w].job] =
                  [kind |-> kind, claim |-> worker[w].claim, attempt |-> worker[w].attempt]]

Succeed(w) == job' = [job EXCEPT ![worker[w].job] = Ended(@, "succeeded", "none")]

\* completeModerationJob, from the provider or from the privacy guard.  When
\* either statement changes no row the call throws; the guard's call is outside
\* the try block, so its message is retried.
CompleteModeration(w) ==
    LET j == worker[w].job
    IN /\ worker[w].pc \in {"commit", "guard"}
       /\ j.type = "moderation"
       /\ IF Owns(w) /\ ModerationReadable(j.comment)
          THEN WriteOutput(w, "advice") ELSE UNCHANGED output
       /\ IF Owns(w) /\ FinishReadable(j.comment) THEN Succeed(w) ELSE UNCHANGED job
       /\ IF worker[w].pc = "guard" /\ ~ (Owns(w) /\ ModerationReadable(j.comment))
          THEN PutBack(w) ELSE Ack
       /\ Finish(w)
       /\ UNCHANGED <<comment, expired, settings, usage, admin, unscheduled, screen,
                      edits, crashes>>

\* completeTranslationJob.  "shown": the translation filter left a display text.
\* The translation:ready event is fenced by the job this very batch finishes.
\* Reaching the room may fail, and then the message comes back for delivery only.
CompleteTranslation(w, shown) ==
    LET j == worker[w].job
        written == Owns(w) /\ TranslationReadable(j.comment)
        finished == Owns(w) /\ FinishReadable(j.comment)
    IN /\ worker[w].pc = "commit"
       /\ j.type = "translation"
       /\ IF written
          THEN WriteOutput(w, IF shown THEN "shown" ELSE "rejected")
          ELSE UNCHANGED output
       /\ IF finished THEN Succeed(w) ELSE UNCHANGED job
       /\ screen' = [screen EXCEPT ![j.comment] = @ \/ (finished /\ shown)]
       /\ IF written /\ ~ shown
          THEN /\ Become(w, [worker[w] EXCEPT !.pc = "notice", !.code = "none"])
               /\ Ack
          ELSE /\ Finish(w)
               /\ Ack \/ (written /\ PutBack(w))
       /\ UNCHANGED <<comment, expired, settings, usage, admin, unscheduled, edits, crashes>>

\* The completing batch failed as a whole: nothing is saved.
PersistenceFails(w) ==
    /\ worker[w].pc = "commit"
    /\ Become(w, [worker[w] EXCEPT !.pc = "fail", !.code = PersistCode])
    /\ UNCHANGED <<comment, expired, settings, job, output, usage, queue, admin, unscheduled,
                   screen, edits, crashes>>

\* failOrRetryAiJob: last attempt, or an error shouldRetryAiJob rejects.
FinalFailure(w) == worker[w].code = FatalCode \/ worker[w].attempt >= MaxAttempts

FailNotifies(w) ==
    /\ worker[w].job.type = "translation"
    /\ FinalFailure(w) \/ (worker[w].attempt = 1 /\ worker[w].code = DelayCode)

FailOrRetry(w) ==
    LET j == worker[w].job
        final == FinalFailure(w)
    IN /\ worker[w].pc = "fail"
       /\ \/ /\ Owns(w)
             /\ job' = [job EXCEPT ![j] =
                   IF final THEN Ended(@, "failed", worker[w].code)
                   ELSE Row("retry", @.attempts, 0, FALSE, worker[w].code, @.stamp)]
             /\ IF FailNotifies(w)
                THEN /\ Become(w, [worker[w] EXCEPT !.pc = "notice", !.retry = ~ final])
                     /\ Ack
                ELSE /\ Finish(w)
                     /\ IF final THEN Ack ELSE PutBack(w)
          \/ /\ ~ Owns(w)
             /\ UNCHANGED job
             /\ Finish(w)
             /\ PutBack(w)
       /\ UNCHANGED <<comment, expired, settings, output, usage, admin, unscheduled, screen,
                      edits, crashes>>

\* dispatchTranslationUnavailable: appended whatever has happened to the job or
\* the comment since; the payload carries the comment the job was loaded with.
Notify(w) ==
    LET c == worker[w].job.comment
    IN /\ worker[w].pc = "notice"
       /\ screen' = [screen EXCEPT ![c] = @ \/ comment[c] # "purged"]
       /\ Finish(w)
       /\ IF worker[w].retry THEN PutBack(w) ELSE Ack
       /\ UNCHANGED <<comment, expired, settings, job, output, usage, admin, unscheduled,
                      edits, crashes>>

\* The append failed; the error is logged and swallowed.
NotifyFails(w) ==
    /\ worker[w].pc = "notice"
    /\ Finish(w)
    /\ IF worker[w].retry THEN PutBack(w) ELSE Ack
    /\ UNCHANGED <<comment, expired, settings, job, output, usage, admin, unscheduled, screen,
                   edits, crashes>>

\* The invocation dies; its message is delivered again or dead-lettered.
Crash(w) ==
    /\ worker[w].pc # "idle"
    /\ crashes < MaxCrashes
    /\ crashes' = crashes + 1
    /\ Finish(w)
    /\ Ack \/ PutBack(w)
    /\ UNCHANGED <<comment, expired, settings, job, output, usage, admin, unscheduled, screen, edits>>

-----------------------------------------------------------------------------
(* Time and scheduled recovery *)

\* run_after passes, or a processing row gets STALE_PROCESSING_MS old.
Elapse(j) ==
    /\ job[j].status \in Waiting \cup {"processing"}
    /\ ~ job[j].elapsed
    /\ job' = [job EXCEPT ![j].elapsed = TRUE]
    /\ UNCHANGED <<comment, expired, settings, output, usage, queue, worker, admin, unscheduled,
                   screen, edits, crashes>>

\* The three UPDATEs of listDueAiJobs, in their order.
Recovered(j) ==
    LET r == job[j]
    IN IF /\ r.status \in Waiting \cup {"processing"}
          /\ ~ Alive(j.comment)
       THEN Ended(r, "skipped", "COMMENT_EXPIRED")
       ELSE IF r.status = "processing" /\ r.elapsed /\ r.attempts >= MaxAttempts
       THEN Ended(r, "failed", "AI_STALE")
       ELSE IF r.status = "processing" /\ r.elapsed
       THEN Row("retry", r.attempts, 0, TRUE, "AI_STALE", r.stamp)
       ELSE r

\* recoverAndDispatchAiJobs, every five minutes.
Recover ==
    LET due == {j \in Jobs : /\ Recovered(j).status \in Waiting
                             /\ Recovered(j).elapsed
                             /\ Recovered(j).attempts < MaxAttempts}
    IN /\ job' = [j \in Jobs |-> Recovered(j)]
       /\ Dispatch(due)
       /\ UNCHANGED <<comment, expired, settings, output, usage, worker, admin, unscheduled,
                      screen, edits, crashes>>

\* retained_until passes.
Expire(c) ==
    /\ comment[c] \notin {"none", "purged"}
    /\ c \notin expired
    /\ expired' = expired \cup {c}
    /\ UNCHANGED <<comment, settings, job, output, usage, queue, worker, admin, unscheduled,
                   screen, edits, crashes>>

\* runCommentRetention deletes the comment; jobs, outputs and usage rows go by
\* ON DELETE CASCADE.
Purge(c) ==
    /\ c \in expired
    /\ comment' = [comment EXCEPT ![c] = "purged"]
    /\ expired' = expired \ {c}
    /\ job' = [j \in Jobs |-> IF j.comment = c THEN Absent(job[j].stamp) ELSE job[j]]
    /\ output' = [j \in Jobs |-> IF j.comment = c THEN NoOutput ELSE output[j]]
    /\ usage' = [j \in Jobs |-> IF j.comment = c THEN 0 ELSE usage[j]]
    /\ UNCHANGED <<settings, queue, worker, admin, unscheduled, screen, edits, crashes>>

-----------------------------------------------------------------------------
(* Teachers *)

Edit == edits < MaxEdits /\ edits' = edits + 1

\* nextModerationState: <<from, action, to>>.
Transitions == {<<"pending", "approve", "visible">>, <<"pending", "hide", "hidden">>,
                <<"pending", "delete", "deleted">>, <<"visible", "hide", "hidden">>,
                <<"visible", "delete", "deleted">>, <<"hidden", "restore", "visible">>,
                <<"hidden", "delete", "deleted">>, <<"deleted", "restore", "hidden">>}

\* moderateComment and its trigger: message:restore, message:remove or no event.
\* A comment made visible is then scheduled for AI again.
Moderate(c, t) ==
    /\ Edit
    /\ comment[c] = t[1]
    /\ c \notin expired
    /\ comment' = [comment EXCEPT ![c] = t[3]]
    /\ screen' = [screen EXCEPT ![c] = IF t[3] = "visible" THEN TRUE
                                       ELSE IF t[1] = "visible" THEN FALSE ELSE @]
    /\ unscheduled' = IF t[3] = "visible" THEN unscheduled \cup {c} ELSE unscheduled
    /\ UNCHANGED <<expired, settings, job, output, usage, queue, worker, admin, crashes>>

\* PATCH /api/org/ai-settings.
UpdateOrganization ==
    /\ Edit
    /\ settings' = [settings EXCEPT !.org = ~ @]
    /\ UNCHANGED <<comment, expired, job, output, usage, queue, worker, admin, unscheduled,
                   screen, crashes>>

\* PATCH of the session's AI settings: the write, and what is left to do.
UpdateSession(new, qualityChanged) ==
    /\ Edit
    /\ admin = "idle"
    /\ new.org = settings.org
    /\ settings' = new
    /\ admin' = IF new.org /\ new.translation /\ qualityChanged THEN "requeue"
                ELSE IF new.org /\ (new.moderation \/ new.translation) THEN "backfill"
                ELSE "idle"
    /\ UNCHANGED <<comment, expired, job, output, usage, queue, worker, unscheduled, screen, crashes>>

Requeued == {j \in Jobs : /\ j.type = "translation"
                          /\ job[j].status # "none"
                          /\ comment[j.comment] = "visible"
                          /\ j.comment \notin expired}

\* requeueSessionTranslationJobs, whatever the status of the job.
Requeue ==
    /\ admin = "requeue"
    /\ admin' = "backfill"
    /\ job' = [j \in Jobs |-> IF j \in Requeued THEN Fresh(job[j].stamp) ELSE job[j]]
    /\ Dispatch(Requeued)
    /\ UNCHANGED <<comment, expired, settings, output, usage, worker, unscheduled,
                   screen, edits, crashes>>

\* backfillAiJobsForSession, then dispatch.
Backfill ==
    /\ admin = "backfill"
    /\ admin' = "idle"
    /\ CreateJobs(Created(Comments))
    /\ Dispatch(Created(Comments))
    /\ UNCHANGED <<comment, expired, settings, output, usage, worker, unscheduled,
                   screen, edits, crashes>>

\* The settings request dies on its way.
AdminDies ==
    /\ admin # "idle"
    /\ admin' = "idle"
    /\ crashes < MaxCrashes
    /\ crashes' = crashes + 1
    /\ UNCHANGED <<comment, expired, settings, job, output, usage, queue, worker, unscheduled,
                   screen, edits>>

\* retryAiJobsForComment.
Retried(c, types) ==
    {j \in Jobs : /\ j.comment = c
                  /\ j.type \in types
                  /\ job[j].status \in {"failed", "skipped"}
                  /\ job[j].err \notin {"PII_DETECTED", "AI_DISABLED"}}

RetryComment(c, types) ==
    /\ Edit
    /\ comment[c] \notin {"none", "purged"}
    /\ job' = [j \in Jobs |-> IF j \in Retried(c, types) THEN Fresh(job[j].stamp) ELSE job[j]]
    /\ Dispatch({j \in Jobs : j.comment = c /\ job'[j].status \in Waiting})
    /\ UNCHANGED <<comment, expired, settings, output, usage, worker, admin, unscheduled,
                   screen, crashes>>

-----------------------------------------------------------------------------
WorkerStep(w) ==
    \/ Load(w) \/ Skip(w) \/ CallModel(w) \/ CompleteModeration(w)
    \/ \E shown \in BOOLEAN : CompleteTranslation(w, shown)
    \/ PersistenceFails(w) \/ FailOrRetry(w) \/ Notify(w) \/ NotifyFails(w)

TeacherStep ==
    \/ \E c \in Comments, t \in Transitions : Moderate(c, t)
    \/ UpdateOrganization
    \/ \E new \in Choices, q \in BOOLEAN : UpdateSession(new, q)
    \/ \E c \in Comments, types \in (SUBSET Types) \ {{}} : RetryComment(c, types)

Next ==
    \/ \E c \in Comments, s \in {"pending", "visible"} : Post(c, s)
    \/ \E c \in Comments : Schedule(c) \/ ScheduleLost(c) \/ Expire(c) \/ Purge(c)
    \/ \E j \in Jobs : IgnoreMessage(j) \/ Elapse(j)
    \/ \E w \in Workers, j \in Jobs : Claim(w, j)
    \/ \E w \in Workers : WorkerStep(w) \/ Crash(w)
    \/ Recover
    \/ TeacherStep
    \/ Requeue \/ Backfill \/ AdminDies

Spec == Init /\ [][Next]_vars

\* An invocation that is running goes on, waits end, the cron runs and one of
\* its sends gets through, and a message in a queue is delivered to a consumer.
Fairness ==
    /\ \A w \in Workers : WF_vars(WorkerStep(w))
    /\ \A j \in Jobs : /\ WF_vars(Elapse(j))
                       /\ WF_vars(Recover /\ (j \in queue' \/ job'[j] # job[j]))
                       /\ WF_vars(\E w \in Workers : Claim(w, j))

FairSpec == Spec /\ Fairness
=============================================================================
