# CPCV in TLA+

CPCV lets the students of a class post comments from a web page; the teacher's
viewer page shows them over the slides. It runs on Cloudflare: a Worker (`src/src`)
with D1 databases, one Durable Object per class session for WebSockets, Queues for
AI work, a cron, and static pages (`src/public`). Everything of interest happens
between processes that share only the database: requests, queue consumers, the
cron, the Durable Object and the pages interleave at every `await`, and any of them
may stop there. These modules model that, one action per D1 statement or batch.

Paths below are relative to the repository.

## 1. Inventory

| Component | State | Operations | Status |
|---|---|---|---|
| AI job pipeline (`src/ai`, `routes/ai-settings.js`, migration 0010) | rows of `ai_jobs`, `ai_results`, `translations`, `ai_usage_events`; two queues and their dead-letter queues; AI settings | create, claim, load, guard, call a model, complete, skip, fail or retry, notify; cron recovery; requeue, backfill, retry by a teacher | modelled: `AiJobs` |
| Realtime (`src/realtime`, `public/assets/viewer.js`, migrations 0007, 0011) | `realtime_events`, `realtime_session_state`; sockets and their attachments; the page's applied sequence, queue, shown comments, local log | append an event, dispatch, broadcast, connect with a ticket, sync, apply, reconnect, reload | partly: `Realtime` |
| Session projection (`db/live-session-projection.js`, `routes/private-v2.js`) | a session's row in the legacy database and in V2 | create, change, end, delete: both writes, their compensations | modelled: `SessionProjection` |
| Comments (`src/comments`, `routes/public-v2.js`) | `participants` with their posting slots, `comments` | post with an idempotency key, retention | partly: `Comments` |
| Moderation (`src/moderation`) | a comment's state and version, its action history | transition from an expected version, in bulk | modelled: `Comments`, `AiJobs` |
| PDF (`src/pdf-analysis`, `routes/pdf-analysis.js`) | bindings, the current page and its version, page events, understanding signals, snapshots | bind, turn a page, signal, snapshot, roll back, retention | partly: `PdfPages` |
| Account lifecycle (`routes/account-lifecycle.js`, `email-auth.js`, `organization.js`; migrations 0009, 0017) | users, organizations, members; the rows behind mailed links | register, verify, change an address, invite, accept, manage members, delete an account | partly: `Accounts` |
| Content filter (`src/content-filter`) | terms, installed packs, policies, a session's settings | decide allow / review / mask / reject; create, edit, delete a term; install a pack | partly: `ContentFilter`, `Dictionary` |
| Legacy v1 API, routing, cron (`src/index.js`) | - | routing; scheduled recovery and retention | partly, inside `AiJobs`, `Comments`, `PdfPages` |
| Authentication sessions (`src/auth`) | sessions, CSRF tokens, failures and locks | log in, rotate, revoke, lock, change a password | not modelled |
| Rate limits, dictionary packs, form pages, desktop overlay | - | external counters, data, single requests | not modelled |

How they interact. A student's post goes to the session's Durable Object
(`acceptMessage`), which asks the content filter and inserts the comment, linked to
the PDF page shown. A trigger on `comments` appends
`message:new` to the session's event log in the same statement. The object then
creates AI jobs and broadcasts the event. A consumer that finishes a job writes its
result, the end of the job and an event in one batch. Moderation, settings, clear
and the end of a session append events as well, and then ask the object to
broadcast them (`dispatchRealtimeEvent`). The viewer page applies the events of its
session in sequence and asks for what it missed when it connects.

What is hard:

- **Leases without locks.** A consumer holds a job by a pair of columns
  (`claimed_at`, `attempt_count`). The cron takes it back after 15 minutes, a
  teacher may requeue it at any time, and the old consumer is still running. Every
  write it makes must be refused.
- **State read before a slow call.** The comment is read, a model runs for up to
  tens of seconds, and the result is written; the teacher may have hidden or deleted
  the comment meanwhile.
- **At-least-once messages.** Queue messages are lost by failing sends, repeated and
  late; requests for a broadcast likewise.
- **A log followed over a lossy channel** by a page whose message handlers overlap.
- **Two databases without a common transaction** in the session projection.
- **Guards read first and repeated in a batch**, or not repeated: nearly every handler
  reads, decides, and writes a batch whose statements carry (some of) the conditions
  again. What holds is decided by the conditions that are carried, the unique
  indexes and the triggers, and by the clock a handler read at its start.
- **Uniqueness across tables** that have an index each: an e-mail address is a user's,
  asked for by another, or waiting in a registration.

What makes each component correct:

- *AI jobs*: only the current claim writes; an ended job is ended; a succeeded job
  has its result; every job ends; work repeated is bounded; a withdrawn comment is
  not brought back.
- *Realtime*: sequences on a connection only go up; the page shows what the events it
  committed leave; withdrawn comments do not reappear; a page catches up.
- *Session projection*: the two rows agree, or the disagreement is recorded or
  reported; an accepted change overwrites no other unseen; a refused one publishes
  nothing.
- *Comments*: one comment per idempotency key; posts of a participant are spaced; a
  comment held for review is shown only after a teacher has let it through; none is
  stored after posting is closed.
- *Moderation*: of two transitions from one version one wins; the history is a chain
  that ends in the comment as stored, and holds what teachers were told.
- *PDF*: until the retention, the page shown is that of the latest page event; a PDF is
  replaced only once its analytics are on record, and the record stays; a failed bind
  leaves nothing behind.
- *Accounts*: an address is held once; limits hold; a link works once; nobody joins
  without an invitation; managers never leave an organization without an owner.
- *Content filter*: a stricter term or one more hit never weakens the decision; the
  dictionary stays within its limit, with one term per word; an upgrade misses no
  term of the pack and changes none of the organization's own.

`PROJECT.json` lists the hazards at the lines where they bite, with the properties
that would catch them.

## 2. Plan

Done, in order of importance:

1. `AiJobs` with `JobLease` (abstract); theorems.
2. `Realtime` with `LogReader` (abstract); theorems.
3. `SessionProjection`; theorems.
4. `Comments` and `PdfPages` over `Lesson`, composed in `Classroom`, with `CommentBoard`
   (abstract); theorems.
5. `Registration` and `Membership` over `People`, composed in `Accounts`; theorems.
6. `ContentFilter` as a function and `Dictionary`; theorems.

Left: sessions, tickets and their revocation; password resets; abstract specifications
of `Accounts` (an address passing from holder to holder) and of `SessionProjection`.

One run per component, and one for each statement of the documentation that the
code of `AiJobs` and `Realtime` does not keep.

## 3. Modules

| Module | Contents |
|---|---|
| `AiJobs`, `AiJobsProps`, `AiJobsProofs`, `MCAiJobs` | the AI job pipeline, its properties and the refinement mapping, theorems, instances for TLC |
| `JobLease` | what a table of jobs promises: numbered leases, no queue, clock or error code |
| `Realtime`, `RealtimeProps`, `RealtimeProofs`, `MCRealtime` | event log, Durable Object, viewer page; properties and the refinement mapping, theorems |
| `LogReader` | what a page that follows a log promises: no connection, message, handler or storage |
| `SessionProjection`, `...Props`, `...Proofs`, `MC...` | one session in two databases |
| `Lesson` | what the requests of one session share: its row, the clock, requests in flight |
| `Comments`, `PdfPages` | posting, moderation, retention; the PDF and its analytics |
| `Classroom`, `ClassroomProps`, `PdfPagesProofs`, `CommentsProofs`, `MCClassroom` | their composition, its properties, theorems |
| `CommentBoard` | what the comments promise: posting, moderating, answering and forgetting each happen at once |
| `People` | the tables the account handlers share |
| `Registration`, `Membership` | the handlers of addresses; of invitations, members and account deletion |
| `Accounts`, `AccountsProps`, `AccountsProofs`, `MCAccounts` | their composition |
| `ContentFilter`, `ContentFilterProofs` | the filter's decision as a function, and theorems about it |
| `Dictionary`, `DictionaryProps`, `DictionaryProofs`, `MCDictionary` | the terms of an organization and the installation of packs |

A definition preceded by a comment "Mistake: ..." is a variant of the definition that
follows it with one plausible bug (`AiJobs` and `Realtime` collect theirs in a section
at the end). The specifications do not use them. Substituting one makes a run report
the property `PROJECT.json` names beside it ("mutants"), which shows that the property
depends on that line of the code.

### 3.1 AiJobs

| TLA+ | Code |
|---|---|
| `job` | row of `ai_jobs`: status, `attempt_count`, `claimed_at`, whether `run_after` or the stale limit has passed, error code |
| `output`, `usage` | row of `ai_results` or `translations`; today's `ai_usage_events` of the job |
| `queue` | jobs named by a message in a queue |
| `worker` | one invocation of `processAiJob`: where it awaits, and the claim it carries |
| `admin` | a settings request between its requeue and its backfill |
| `screen` | does a viewer that applied the whole log show the comment? |
| `Claim`, `Load` | `claimAiJob`: the guarded UPDATE, then `loadAiJobContext` |
| `Skip`, `CallModel` | `processAiJob`: skip reasons, guard and daily limit, a candidate model |
| `CompleteModeration`, `CompleteTranslation` | the completing batches |
| `PersistenceFails`, `FailOrRetry` | `aiPersistenceError`, `failOrRetryAiJob` |
| `Notify`, `NotifyFails` | `translation:unavailable` after a skip or a failure |
| `Crash`, `Recover`, `Elapse` | death of an invocation; the cron; time |
| `Post`, `Schedule`, `ScheduleLost` | a comment and its jobs |
| `Moderate`, `RetryComment`, `UpdateSession`, `Requeue`, `Backfill`, ... | a teacher's requests |
| `Expire`, `Purge` | retention |

A step is one statement or one batch; two consumers, the cron and a teacher
interleave between them. Identity of a claim is the number of the claim among the
claims of its row. That assumes two claims of one row never share a millisecond,
the case in which `claimed_at` plus `attempt_count` cannot tell them apart.

Abstractions. Time is the flag `elapsed`. Queues are sets, which gives loss,
repetition and any order; a send refused by a full queue changes nothing. Answers
of the models, the PII guard and the language of a comment are constants or choices.
One settings request runs at a time. The daily limit is a constant, and the day does
not change. A failure of the load after a claim is the death of the consumer.
Recovery's batch and the following select are one step. The limits of 100 rows in
requeue and backfill are not modelled, and neither are the branches of `processAiJob`
(lines 203-216) for expired or deleted comments, which the claim already excludes.

### 3.2 Realtime

| TLA+ | Code |
|---|---|
| `log` | `realtime_events` in sequence; `last_sequence` is its length |
| `rounds` | broadcasts that listed the page's socket and await `authorizedAuthSessions` |
| `link` | the page's connection: phase, what the sync has read, `lastSentSequence`, messages under way |
| `handlers` | calls of `handleRealtimeMessage` that have not ended |
| `applied` | `lastAppliedSequence`, in memory and LocalStorage |
| `shown`, `remembered` | queued, displayed or displayed before; `shownCommentIds` of cleared comments |
| `PostComment`, `RemoveComment`, `RestoreComment` | the two triggers on `comments` |
| `ClearComments`, `UpdateSettings`, `EndSession` | `private-v2.js` |
| `Broadcast`, `Deliver`, `CloseAllSockets` | `broadcastEvent` before and after its await; `/close` |
| `Connect`, `ReadEvents`, `Accept` | ticket and first read of `getRealtimeSync`; second read; acceptance |
| `Receive`, `PassOver`, `Begin`, `Resume`, `Replace`, `ReplaceFails` | a handler of the page, from one await to the next |
| `Drop`, `Reload` | lost connection; reloaded page |

The page is one thread: a handler that is `"running"` excludes every other step until
it awaits the local log. Writes of the local log end in any order, and go on after
their connection is gone. Any event may be broadcast at any time, since the
request may be lost, late or repeated. `base`, `jumped` and `overlapped` are history:
where the page was loaded, whether it took a snapshot, whether two handlers were
under way at once.

Abstractions. One viewer, because viewers do not influence each other. An event is
its type and its comment. A session lasts 6 hours and its events 24, so no event
expires while a viewer may connect, and the branch for expired events is never
taken. Not modelled: tickets' single use and revoked authorization (with the
authentication module), acknowledgements (stored, and no decision reads them),
comments held until their translation arrives, hidden comment panels, the snapshot
limit of 500, pruning.

`AiJobs` and `Realtime` meet in the log: `screen` in `AiJobs` is what a page shows
that has applied all of it, which `ViewIsPrefix` and `CaughtUpShowsNoWithdrawn` are
about in `Realtime`.

### 3.3 SessionProjection

| TLA+ | Code |
|---|---|
| `v2`, `legacy` | row of `live_sessions`; of the legacy `sessions` |
| `published` | what the last guarded side statements (moderation mode, audit row, event) said |
| `requests` | one call of a handler: where it awaits, the row it loaded, the snapshot, its stamp |
| `CreateV2`, `CreateLegacy`, `Compensate` | `createSession`, `createLegacyProjection`, `compensateFailedCreate` |
| `Start`, `Snapshot`, `WriteLegacy`, `WriteV2`, `Restore` | `updateSettings`, `endSession`, `deleteSession`; `tryRestoreLegacy` |
| `Crash` | the Worker dies between two calls |
| `AccountDeleted` | what `handleAccountDelete` does to the sessions of a personal workspace |

Every call may fail without effect (`error`), take effect and lose its answer
(`lost`), or be the last one (`crash`). The clock gives a stamp later than the version
a request has loaded, for database calls lie between; two requests may read the same
millisecond. `suspect` is history: something happened that the compensation cannot
reach (a dead Worker, a lost answer, an account deletion, a snapshot written back
while another request was in flight, two requests with the same stamp). The expiry of
a session after 12 hours and the text of the settings are left out.

### 3.4 Classroom

| TLA+ | Code |
|---|---|
| `participants`, `comments`, `history` | their tables; `at` and `next` are the slot of `POST_INTERVAL_MS` |
| `posts`, `moderations`, `binds`, `pages`, `marks` | requests in flight, by number |
| `answers` | what callers were told with 200 or 201 |
| `StartPost`, `CheckKey`, `FreeKey`, `Persist`, `AnswerStored`, `LosePost` | `persistComment`; `FreeKey` deletes the expired comment that holds the key |
| `StartModeration`, `LoadComment`, `Moderate`, `AnswerModerated` | `moderateComment` |
| `Expire`, `Retention` | days without a request; `runCommentRetention` |
| `GrowOld`, `PdfRetention` | half a year after the session; `runPdfAnalyticsRetention` |
| `bindings`, `state`, `events`, `signals`, `snapshots` | `session_pdf_bindings`, `session_pdf_state`, `pdf_page_events`, `understanding_signals`, `analytics_snapshots` |
| `StartBind`, `ReadPrevious`, `TakeSnapshot` | `bindPrivatePdf` up to the snapshot of the PDF it replaces |
| `ReadCurrent`, `Touch`, `Replace`, `Confirm` | `bindPdfToSession`: the current document, the batch, the state read after it |
| `Rollback`, `LoseBind` | the catch of `bindPrivatePdf`; a dead Worker |
| `StartPage`, `ReadPage`, `StayOnPage`, `TurnPage` | `updatePdfPageState` |
| `StartMark`, `ReadMark`, `StoreMark` | `persistUnderstandingSignal` |
| `MarkWithParticipant`, `RunRetention` | where comments and PDF share the participants' rows |

A request has a number, and what it creates has the same number, as identifiers are
random. A post that is made again is another request with the same key. A clock unit
is half of the posting interval; a handler reads the clock once. `alone` is history: no
other bind was in flight. So is the `auto` of a snapshot: the bind that took it may still
roll it back, or has succeeded. Left out: texts, nicknames and matches, the numbers inside
the analytics, conflicts of document metadata, the pages a viewer has seen.

Every call of a bind may fail. A failing batch may have been applied, its answer being
lost: so `TakeSnapshot` may end the request with a snapshot in the table (the call stands
outside the `try`), and `Replace` may replace the PDF and go to the roll-back, as does
`Confirm` when the read after the batch fails or finds another bind's document.

Time passes in two strides. `Expire` lets a comment pass its `retained_until`, `GrowOld`
lets the session reach the age of 180 days at which its analytics are removed. No request
runs that long, so both wait until none is in flight, and both take the clock to its
bound. `PdfRetention` then removes, as the code does, page events by their age alone,
and bindings to which no link, signal or snapshot refers, with their events and the state.
In `AnswerStored` the second lookup of the key and the removal of an expired comment are
one step: a comment that took the key from a post in flight is no older than that post,
and has not expired.

Page versions of requests start at 2 (`pdf-analysis/validation.js:25`); a bind writes 1.
For `CommentBoard`, the `told` of the board is `answers`, the people it remembers are the
tokens whose participant's row is there, and it is open when the session takes posts.

### 3.5 Accounts

| TLA+ | Code |
|---|---|
| `users`, `orgs`, `members` | their tables; `version` of a member is `updated_at` |
| `rows` | `pending_registrations`, `email_change_requests`, `email_enrollment_requests`, `organization_invitations`, by the request that made them |
| `calls` | requests in flight, with the time each has read |
| `Registration` | `handleRegistrationRequest`, `-Resend`, `-Verify`; `handleEmailChangeRequest`, `-Confirm` |
| `Membership` | `handleInvitationCreate`, `-Resend`, `-Revoke`, `-Accept`; `handleMemberUpdate`, `-Delete`; `handleAccountDelete` |
| `GiveUp` | a refusal by a limit or by a read that the batch repeats, a failure, a lost connection |
| `Prune` | `pruneAuthSecurityRecords` |

A batch is one step. A read whose conditions the batch repeats is one step with the
start of its handler; a read the batch does not repeat is a step of its own. The
handler compares with the time it read at its start. A link lives for one unit of the
clock. `Prune` may remove a settled row at any time, which is more than the code's seven
days. No code stores an address that is not verified, so a user has a verified address
or none, and the branch of `handleEmailChangeRequest` that releases an unverified one
is never taken. Left out: `handleMemberCreate` (answered with 410 while
`EMAIL_AUTH_REQUIRED` is 1), sessions, password resets, mail delivery, and the limits
that only refuse (`GiveUp`).

### 3.6 ContentFilter

`MessageDecision` is `evaluateFilterMessage`, `CommentDecision` is
`evaluateCommentFilter`, `TranslationDecision` is `evaluateTranslationFilter`;
`ActionFor` is `actionForSeverity`, `Weight` the table `ACTION_WEIGHT`. A hit (category,
severity, language, exact or near) is an input: normalisation and matching are left
out, as are the limits of 2000 terms, 64 fuzzy candidates and 100 matches. There is no
state and no run; the theorems quantify over all settings, policies and sets of hits.
A held comment is the `review` of `Comments`.

### 3.7 Dictionary

| TLA+ | Code |
|---|---|
| `terms` | `content_filter_terms`, deleted rows included; `word` is what the unique index compares |
| `installed` | `content_filter_pack_installs.pack_version` |
| `StartCreate`, `CountTerms`, `CreateTerm` | `createFilterTerm` and the trigger on the limit |
| `StartEdit`, `EditTerm`; `StartDelete`, `DeleteTerm` | `updateFilterTerm`, `deleteFilterTerm` |
| `StartInstall`, `ReadExisting`, `CountRoom`, `InstallPack` | `installFilterPack` |

One pack in two versions, the earlier one installed by an earlier deployment. Words
of a pack differ (`scripts/audit-filter-packs.mjs:41`). Audit rows are left out, and so is
a term's `active`: an installation does not write it on a row it upgrades, and a row it
upgrades is active, because an edit, which alone could switch it off, clears its key.

## 4. Runs

| Run | Shows |
|---|---|
| `ai_safety` | lease discipline, fenced outputs, ended rows, bounded calls, refinement of `JobLease` |
| `ai_liveness` | every job ends |
| `ai_withdrawn` | counterexample to a documented statement, see below |
| `ai_stored` | counterexample to a documented statement |
| `ai_one_owner` | counterexample to a documented statement |
| `realtime` | order on a connection, view = prefix of the log, nothing withdrawn shown, refinement of `LogReader`, catching up |
| `realtime_back` | counterexample to a documented statement |
| `realtime_gaps` | counterexample to a documented statement |
| `session_projection` | both rows agree or the disagreement is known; no change is lost; refused requests publish nothing |
| `classroom` | keys, slots, review, histories, page events, snapshots and their loss; refinement of `CommentBoard`, both retentions included |
| `accounts` | addresses held once, limits, links, invitations, owners |
| `dictionary` | limit, one term per word, whole upgrades, own terms |

Bounds.

- `ai_safety`: two consumers (symmetric), two attempts instead of three, one model,
  one request of a teacher, one crash; four comments of which one is posted, one of
  each kind the routing tells apart, so one job exists at a time. Jobs meet only in
  the daily limit and in statements over many rows, which treat rows alike; two
  consumers are what a takeover needs. About 700,000 states.
- `ai_liveness`: one consumer, two target languages, two models, a daily limit of one
  call, one crash, one change of settings. Without symmetry, which is unsound for
  liveness. About 313,000 states.
- `ai_one_owner`, `ai_withdrawn`, `ai_stored`: the smallest instance with the race.
- `realtime`: one comment, three events, catch-up of at most two events (500 in
  production), one lost connection or failed replacement, one reload. A comment's
  fate on a page depends on its own events and on clears only. Three events with a
  catch-up of two give catching up, syncs newer than their `currentSequence`,
  snapshots and gaps. About 518,000 states. Two comments with three events
  (1.4 million states) and one comment with four (11.7 million) were also checked for
  the invariants, and for `ImplementsLogReader` (the latter with a catch-up of one, 3.3
  million), without error.
- `session_projection`: two requests (symmetric) at a time, any number one after the
  other, two settings, all three faults at every call, `MaxStamp` 3, so that three
  writes of the row are stamped. Two requests are what an overlap needs; the third
  stamp is the repair after them. About 2.0 million states; the theorems need none of
  these bounds.
- `classroom`: two participants, two keys, two documents, two pages, three requests of
  which two overlap, an interval of two clock units and `MaxNow` 2, so that a slot is
  refused and given again; a comment has up to four versions and three moderations.
  The clock stands when no request is left to come and read it. About 2.3 million states.
- `accounts`: three founders, two organizations, two addresses (symmetric), three
  requests of which two overlap, `MaxNow` 1, so that a link expires between a read and
  its batch; two members and one invitation fill an organization. Three beginnings give
  a second owner, a suspended admin, and a removed member who may come back while a
  suspended one is activated. About 1.2 million states.
- `dictionary`: a pack of two keys, one word of the organization's own, two grades, a
  limit of two terms, three requests that may all overlap. About 223,000 states.

Deadlock is not an error in any run: with its bounds used up, or with nobody posting,
the system may be quiet.

Three configurations show statements that the code does not keep and that are stated as
theorems or hazards instead of runs: `AccountsAccept.cfg` (`AcceptedInvitationMakesMember`),
`DictionaryDeletions.cfg` (`DeletionsStand`) and `ClassroomRecords.cfg` (`RecordsStand`).
TLC reports all three properties violated.

Five hazards of `PROJECT.json` name no property: two claims of a job in one millisecond
(claims are numbers in `AiJobs`), a comment whose AI jobs are never created (nothing is
promised of it), an acceptance that the trigger always refuses (a theorem states it), two
settings requests stamped with one millisecond (`PublishedIsStored` excepts them), and two
owners who delete their accounts at once (`ManagersKeepAnOwner` excepts them). The deleted
terms that an installation brings back, and the bind that fails behind its batch, go wrong
as section 5 says; the properties beside them cover the rest of those hazards.

Fairness.

- AI jobs: an invocation that is running goes on unless it dies; a wait ends
  (`Elapse`); the five-minute cron runs and one of its sends gets through in the end
  (`Recover` with an effect); a queue delivers to some consumer (`Claim`). No
  fairness for models, batches or sends to succeed, nor for any request of a teacher.
  Crashes are bounded by `MaxCrashes`; each uses up one attempt of its job, and recovery
  fails a job without attempts left.
- Realtime: handlers that have the thread or whose write ends go on; the page
  reconnects while it is not stopped (`scheduleReconnect`); the room answers; a
  message on an open connection arrives. No broadcast is assumed to happen: a
  page that stays connected and missed the broadcast of the last event waits for the
  next one, so `CatchesUp` speaks of events the page was sent or can ask for.
- The other modules have safety properties only: their handlers are requests, which may
  stop at any call.

## 5. What the code does otherwise than the documentation says

- `ai_withdrawn`: a comment hidden while its translation is made comes back on the
  viewers. The translation events carry the comment and are tied to the job, not to
  the comment's being visible. (stage-05-review-checklist.md:7, stage-05-spec.md:26)
- `ai_stored`: the same race leaves a translation job `succeeded` with no translation
  stored; the INSERT and the UPDATE of the batch have different guards.
  (stage-07-db-spec.md:44-45)
- `ai_one_owner`: `claimAiJob` reads the identity of its claim in a second statement.
  After a requeue and another claim in between, two consumers carry the same
  identity. (current-system.md:64-65)
- `realtime_back`: a handler commits its sequence after an await without looking
  again, so the applied sequence can go back. (stage-06-spec.md:44)
- `realtime_gaps`: an event that arrives during the write of its predecessor is taken
  for a gap, and the connection is closed though nothing is missing.
  (stage-06-spec.md:45)

`ViewIsPrefix`, `CaughtUpShowsNoWithdrawn` and `CatchesUp` therefore speak of pages
whose handlers did not overlap (`~ overlapped`); `realtime_back` shows what overlap
does. The exception in `CatchesUp` is needed: without it TLC finds a page that a late
handler set back to an old sequence on a connection that was already sent everything,
which stays there until the next event or reconnection.

The remaining ones are not runs of their own:

- An invitation is never accepted by somebody without a row in the organization. The
  batch of `acceptInvitationForNewUser` (`account-lifecycle.js:729`) names the acceptor
  before it inserts the membership, and the trigger of migration 0017 (line 180) aborts
  it. `scripts/test-account-lifecycle-v2.mjs:653` says otherwise; the database of that
  test does not have the migration. Theorem `NewcomersAreRefused`, `AccountsAccept.cfg`.
- No setting holds a comment for its language: `evaluateCommentFilter` compares the mode
  with `"review"`, which is not a value the table or the validator admits
  (stage-07-7-spec.md:29-32). Theorem `LanguageNeverHolds`.
- A near match does not hold a comment in which another term is masked
  (stage-07-5-spec.md:84). Theorem `MaskReleasesReview`.
- A term deleted between an installation's read and its batch comes back, with a new
  row (comment at `content-filter/repository.js:198`). `DictionaryDeletions.cfg`.
- A bind that fails behind its committed batch removes the record of a PDF that is
  replaced. The state is read again after the batch (`pdf-analysis/repository.js:215`); a
  failure there, or the lost answer of the batch, reaches the catch
  (`routes/pdf-analysis.js:54`), which deletes the snapshot. stage-08-precision-spec.md:18
  and stage-08-precision-debug-report.md:31 have the snapshot kept. `ClassroomRecords.cfg`;
  `ReplacedIsOnRecord` says that no other failure loses a record.
- `handleAccountDelete` looks for organizations left without an owner before its batch
  and does not repeat the condition (`account-lifecycle.js:144`): two owners who delete
  their accounts at once leave the organization without one (stage-02-spec.md:172).
  `ManagersKeepAnOwner` therefore excepts the deletion of an account.

Seen while modelling, and within what the code promises: a post that is made again is
filtered again, and may be answered 422 although it is stored (`comment-room.js:102`); a
post refused for a key in use has consumed the participant's slot; a moderation whose
comment another one has changed before the reload is answered 500 although it is
recorded; a removed member whose account was deleted between the read and the batch of
an acceptance is a member again; an exact word whose severity its policy permits is
published while a near match of it asks for review; an exact match that asks for review
counts as ambiguous for the AI routing; the levels of a policy are compared in
neighbouring pairs, and only when both are set; an installation counts an edited term's
key as new and may be refused at the limit although it would fit; `PATCH` of a term and of
a session's filter settings writes back what it has read.

`PageOfLatestEvent` ends with the retention: the events go by their age, the state stays
while a comment is linked to the binding. `NoStraySnapshot` excepts a snapshot whose own
answer was lost, whose roll-back failed, or whose Worker died: nothing in the code looks
for it.

`AgreeOrKnown` excepts what `suspect` names, and the properties of a bind except binds
that overlapped: there the compensation writes back, or the snapshot records, what
another request has replaced.

## 6. Proofs

### 6.1 AiJobs

`AiJobsProofs` proves, for any comments, consumers, languages, limits and bounds that
satisfy `AiConstants` and `NoJobAssumption`:

| Theorem | Statement |
|---|---|
| `Typing` | `Spec => []TypeOK` |
| `WaitingRowsCanRun` | no row waits with its attempts used up |
| `SuccessMeansAdvice` | a succeeded moderation job has the advice of its own claim |
| `OutputsStayFenced` | an output is stored only in the step that finishes its row, under the row's claim |
| `EndedRowsStayEnded` | an ended row changes only by being started over or removed |
| `RowsAreLeases` | `AiJobs` implements `JobLease` |
| `CallsStayBounded` | the calls for a job are at most attempts times models, for each time a teacher has it started over |

The argument. Many actions and requests touch rows, but a row has only eight ways to
change.
`LEMMA RowSteps` says so: in every step each row is untouched, started over, taken,
has waited long enough, is stopped without a result, returned to waiting, settled
with a result, or removed. This lemma has the case analysis over the actions; all
else is proved from the eight cases. `WaitingCanRun` and the advice property are not
inductive by themselves: completing a job says its output carries the claim of the
*invocation*, and what is needed is the claim of the *row*. The invariant `RowsInv`
adds that a row in `processing` has `claimedAt` equal to the number of its last
claim; with the fence (`Owns`) this identifies the two. `RowsInv` also gives the
refinement, since the lease number of `JobLease` is the number of the last claim.

`CallsAreBounded` compares the calls ever made for a job with the requests of teachers,
and neither is tied to the other by a step. `CallsInv` ties them by way of the claims.
`BudgetInv`: the claims of a row pay for the calls made and for those that may follow,
`Models` calls each. "May follow" is counted as a set, `CallsLeft`, of pairs of a consumer
that claimed the row and a model it has not tried; a claim adds at most `Models` pairs, a
call takes one pair away and adds one to the usage, and a dead, skipping or fenced consumer
only takes pairs away. `StampInv`: the claims of a row are at most `MaxAttempts` for each
time it was started over, and its attempts since. A change of the translation settings
counts as starting over only with its second statement (`StartOvers`), and the row and
the usage of a purged comment are gone together, so the bound survives a number that
starts from zero again.

### 6.2 SessionProjection

For any sets of requests and settings, any bound of the clock and any set of faults:
`Typing`, `CompensationIsComplete` (`AgreeOrKnown`), `NoUpdateIsLost` (`NoLostUpdate`),
`PublishedMatches` (`PublishedIsStored`).

`AgreeOrKnown` speaks of quiet states only, and says nothing of what a request in flight
is about to write back. The invariant therefore follows the requests: `Aims` (what each
program counter has read and will write), `Loaded` (a loaded version is not later than
the clock, and the same version means the same row), `NotYet` (an absent session has no
request past its creation), `Overlaps` (of two requests in flight none is alone),
`LoneWrites` (what a lone request knows about both rows at each step), and `Sound`, which
says at every moment what `AgreeOrKnown` says at a quiet one. `Sound` is proved in four
parts, one for each kind of action.

### 6.3 Accounts

For any founders, addresses, beginnings, limits and bounds: `Typing`, `Limited`
(`MembersWithinLimit`), `HoldersAreOne` (`EmailHeldOnce`), `LinksAreSpent`
(`LinksWorkOnce`), `MembersAreInvited` (`JoinsByInvitation`), `OwnersRemain`
(`ManagersKeepAnOwner`), `NewcomersAreRefused`.

`EmailHeldOnce` compares with the present time, the handlers with an older one. The
invariant adds to `HeldOnce`: `Clocks` (no handler's time is later than now, so that
what is free at the older time is free now), `OneWaits` (at most one registration waits
for an address, expired or not), `Released` and `Confirmable` (a confirmation that may
still succeed is not overtaken: whoever reserves its address validly is the same user,
and whoever has released the expired requests for that address since has met this one),
`Shape` (`TypeOK`, and that numbers not yet issued own nothing, that pointers lead to
rows of their kind, and where users and members stand) and
`MembersWithinLimit`. Actions that only weaken rows (revoke, prune, give up) share the
lemma `Weakening`; the others have one lemma each. Each lemma also proves the action
part `Lasting` (what is settled stays so).

### 6.4 Dictionary

For any words, pack, grades, limit and number of requests: `Typing`, `WithinLimit`,
`WordsAreApart`, `UpgradesMissNothing`, `OwnTermsAreKept`. `OneTermPerWord` needs that a
term with a key has the key's word (`Keyed`), so that the index on words keeps the keys
apart too. `UpgradeIsWhole` depends on an installation that decides what to write from
what it read two calls earlier. `Alone` (a live row of the pack's earlier version is the
only one with its key) and `SeenLive` (an installation under way has seen every such row
as live, so it writes that key) say why this misses nothing: a key that was deleted when
it was read has no live row of an earlier version at the batch.

### 6.5 ContentFilter

The theorems are about the functions themselves, for every category set:
`StricterIsStronger`, `MoreHitsNeverWeaken`, `NearMatchesOnlyReview`,
`PublishedIsPermitted`, `LanguageNeverHolds`, `MaskReleasesReview`.

### 6.6 Classroom

For any participants, keys, documents, interval and bounds, and for the composition of
comments, PDF and retention as `Classroom` has it. `PdfPagesProofs`: `PageFollowsEvents`
(`PageOfLatestEvent`), `ReplacementsAreRecorded` (`ReplacedIsOnRecord`),
`FailedBindsLeaveNothing` (`NoStraySnapshot`). `CommentsProofs`: `Typing`,
`OneCommentOfAKey`, `PostsKeepTheInterval`, `NoPostWhenClosed`, `ReviewComesFirst`,
`ModerationsChain` (`HistoryIsChain`), `ToldIsRecorded`, `RequestsActAtOnce`
(`ImplementsCommentBoard`) and `NoRowIsOrphaned` (`ParticipantsOutliveTheirRows`, which no
run checks by itself, as `Forget` of the board includes it).

The two invariants divide the state. `PdfInv` speaks of the PDF only; the comments'
steps keep it because they leave its variables alone. What it adds to the properties is
what a bind knows at each await while no other overlaps it (`Recording`, `Taking`):
which snapshot it has taken and that the current binding is still the one it was taken
of. That is so up to the batch (`BeforeBatch`); behind it a bind is known to have replaced
the PDF itself, which is the second half of `ReplacedIsOnRecord`: a lone bind that rolls
back the record of a replaced PDF is one whose batch was applied. `PageOfLatestEvent`
needs that before its batch a request has no binding and no event (`NotYetBound`). `Inv` of `CommentsProofs` has `PdfInv`, `Control` and `Data`. `Control` says what a
request knows between its calls: a number not yet issued has left nothing (`Unissued`),
a comment appears with the batch of its own request and is named by no answer, row or
link before (`NotYet`), the comment of a moderation in flight is not purged
(`ModerationsFly`), and the result of a transition is later than what it expects
(`ResultsLater`). `Data` relates the tables: one comment per key, the participant's next
slot is an interval after each of its comments (`Slots`, from which the spacing of two
comments follows), and `Chain`, the history row by row. `Chain` is what decides the batch
of `moderateComment`: were the history row written without the update having taken
effect, the comment would have the version of the result, and then by `Chain` a row with
that result is already there, so the unique index refuses the batch.

The refinement. `CommentBoard` has the comments, their history, what was answered, the
students who are remembered or have marked a page, and whether posting is open: no clock,
no slot, no request in flight, no key lookup. A post is one step, with a fresh name and key
and an interval after the student's comments so far, while posting is open; a moderation
is one step of the table from the state and version the comment has; an answer tells what
is so at that moment; what goes are expired comments with their history, and students
without a comment or a mark. Each batch of the code is one step of the board or none. That a post takes its step
only after the interval is `Slots`; that nothing has named the comment is `NotYet`; that
`moderateComment` takes a move of the table, although it looked at the table calls before,
is one more invariant (`OnMove`) with the guard of the UPDATE; that it takes no half of a
step is `Chain`, as above. The step with which a student is remembered is separate: the
participant's row may be created by a batch whose comment is then refused, or with a mark.

### 6.7 Realtime

For any comments, limit of the catch-up, length of the log and numbers of lost
connections and reloads: `Typing` (`TypeOK`), `SequencesGoUp` (`SentInOrder`),
`ShowsWhatIsApplied` (`ViewIsPrefix`), `ShowsNothingWithdrawn`
(`CaughtUpShowsNoWithdrawn`) and `FollowsTheLog` (`ImplementsLogReader`).

`Order` adds to `SentInOrder` that nothing was sent that is later than `lastSent`, the
sync included. The two statements about the page speak of a page at rest; `PageInv`
follows it between its awaits. `Exact` is `ViewIsPrefix` while handlers wait: the page
lacks what a handler at a `message:remove` has taken off before it commits the sequence,
and remembers no comment that no applied event names, so that a `message:new` is always
drawn (with `News`: a comment is new once). `Calm` says that on a page that works on one
message at a time the waiting handler is at the next event and that nothing is shown
that the applied events have withdrawn. "Withdrawn" has to be said of the log as it is,
and not of its prefix: a snapshot is read later than the sequence it will be committed
with, and shows comments whose event the page has not met. `Due` (shown by any event,
withdrawn by none between it and the applied sequence) is what a snapshot has and an
applied event keeps; with everything applied it is the view. `Carried` and `Held` say it
of the snapshots on their way and waiting: a comment that the second read of
`getRealtimeSync` finds visible has no removal up to the sequence of the first, and the
clears up to that sequence are the ones the first read saw; later ones the page applies.

The refinement. `LogReader` has the log, the place up to which it is applied, the view,
and a mode. It reads one event after the other, each once; it may withdraw a comment before
it commits the event that says so (`WithdrawEarly`: the page takes a removed comment off
before it awaits its local log); a snapshot that has arrived empties the view, and is then
taken, with comments that still stand at its place, or lost; a restart goes on from the
place. `mode` is computed from `overlapped`, `jumped` and the handlers. Two handlers at
work at once lead to `"loose"`, of which nothing is promised before the next restart:
`realtime_back` shows that nothing can be. The proof has a lemma for each kind of step.
Broadcasts, connections, syncs, lost messages and given-up handlers are stutters. A step of
a handler is a step of the reader because of `Calm` (the one that waits is at the event
after `applied`), `Held` (what a snapshot has is not withdrawn at its sequence) and `Exact`.
The mode decides one alternative: after a snapshot the event of a new comment may show
nothing, for the comment may be in the snapshot already, drawn, and cleared since
(`remembered`). Without the alternative TLC finds that history with four events and a
catch-up of one; that it needs a snapshot is what `NewIsNotKnown` proves.

### 6.8 Only model-checked

`EveryJobEnds` and `CatchesUp`: liveness under fairness is out of the prover's reach.
Every other property of a passing run is stated by a theorem.

## 7. Not modelled

- *Authentication sessions, CSRF tokens, passwords, locks*: the session is read again by
  every request, and a password change or reset is one batch whose statements depend on
  its first; how it meets a login in flight is left to the plan. What the account handlers need of a session is in
  `People` (`SignedIn`). A ticket's single use is one UPDATE; the revocation of an open
  socket happens at the next broadcast, when `Realtime`'s round asks for the authorized
  sessions.
- *Rate limits*: counters of a Cloudflare service; they only refuse.
- *Normalisation and matching* of the filter: functions over strings, where the interest is
  in the data; the dictionary packs are data.
- *The teacher, student and account pages* (forms over the API), *the desktop overlay* (a
  window around the viewer page), *the frozen v1 API and the master console* (single
  reads and writes), cryptography, mail delivery, and everything that only formats.
- *Test and build scripts* (`scripts/`), about two fifths of the implementation's lines:
  they are references for what the code promises, not parts of it.
