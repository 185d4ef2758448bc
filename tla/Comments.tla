----------------------------- MODULE Comments -----------------------------
(***************************************************************************)
(* The comments of a live session: persistComment, moderateComment and     *)
(* runCommentRetention.  Every database call a handler awaits is a step of *)
(* its own; one batch is one step.  A post that was not answered is made   *)
(* again with the same idempotency key, by the comment room's caller or by *)
(* the student's page: here a second request with that key.                *)
(*                                                                         *)
(* Abstracted: the text, the nickname, the matches and the language; the   *)
(* filter's decision is whether the comment needs review (a rejected one   *)
(* reaches no handler).  updated_at is a counter per comment.              *)
(***************************************************************************)
EXTENDS Lesson

CONSTANTS
    Tokens,     \* participant tokens
    Keys,       \* idempotency keys
    Interval,   \* POST_INTERVAL_MS, in units of the clock
    MaxVersion, \* bound on a comment's versions
    Links       \* what a comment can be linked to; see module PdfPages

ASSUME CommentsAssumption ==
    Tokens # {} /\ Keys # {} /\ Interval \in Nat \ {0} /\ MaxVersion \in Nat \ {0} /\ Links # {}

VARIABLES
    participants,   \* the row of each token, or NoParticipant
    comments,       \* the row of each comment, or NoComment
    history,        \* comment_moderation_actions
    posts,          \* per request, where persistComment stands
    moderations,    \* per request, where moderateComment stands
    answers         \* the answers 200 and 201 to posts, and to moderations

commentVars == <<participants, comments, history, posts, moderations, answers>>

-----------------------------------------------------------------------------
(* Rows *)

States == {"pending", "visible", "hidden", "deleted"}
Actions == {"approve", "hide", "delete", "restore"}

(* Mistake: restoring gives the comment the name of the event. *)
TransitionsRestored ==
    {<<"pending", "approve", "visible">>, <<"visible", "hide", "hidden">>,
     <<"hidden", "restore", "restored">>}

(* TRANSITIONS of moderation/validation.js.                                *)
Transitions ==
    {<<"pending", "approve", "visible">>, <<"pending", "hide", "hidden">>,
     <<"pending", "delete", "deleted">>, <<"visible", "hide", "hidden">>,
     <<"visible", "delete", "deleted">>, <<"hidden", "restore", "visible">>,
     <<"hidden", "delete", "deleted">>, <<"deleted", "restore", "hidden">>}

(* claim is post_claim_id, next is next_post_at.                           *)
Participants == [here: BOOLEAN, claim: 0..MaxRequests, next: 0..MaxNow + Interval]
NoParticipant == [here |-> FALSE, claim |-> 0, next |-> 0]

(* expired: retained_until has passed.  reviewed: the comment was stored   *)
(* as pending.                                                             *)
CommentRows ==
    [state: States, version: 1..MaxVersion, token: Tokens, key: Keys,
     at: 0..MaxNow, reviewed: BOOLEAN, expired: BOOLEAN, link: Links]
NoComment == [state |-> "none"]

Stored == {c \in Ids : comments[c].state # "none"}
Retained == {c \in Stored : ~comments[c].expired}
WithKey(key) == {c \in Stored : comments[c].key = key}

HistoryRows ==
    [id: Ids, comment: Ids, action: Actions, from: States, to: States,
     expected: 1..MaxVersion, result: 1..MaxVersion]

NoCall == [pc |-> "none"]
PostRecords ==
    [pc: {"check", "free", "batch", "answer"}, token: Tokens, key: Keys,
     review: BOOLEAN, at: 0..MaxNow]
ModerationRecords ==
    [pc: {"load", "batch", "reload"}, comment: Ids, action: Actions,
     from: States, to: States, expected: 1..MaxVersion, result: 0..MaxVersion]

(* What the answers tell: which comment a post has become, and which       *)
(* transition of a comment a teacher was told has happened.                *)
PostAnswers == [token: Tokens, key: Keys, comment: Ids]
ModerationAnswers == [comment: Ids, to: States, result: 1..MaxVersion]

CommentsInit ==
    /\ participants = [token \in Tokens |-> NoParticipant]
    /\ comments = [c \in Ids |-> NoComment]
    /\ history = {}
    /\ posts = [i \in Ids |-> NoCall]
    /\ moderations = [i \in Ids |-> NoCall]
    /\ answers = [posts |-> {}, moderations |-> {}]

-----------------------------------------------------------------------------
(* Posting *)

(* The handler reads the clock once, before its first database call.       *)
StartPost(i) ==
    /\ Begin(i)
    /\ \E token \in Tokens, key \in Keys, review \in BOOLEAN :
        posts' = [posts EXCEPT ![i] = [pc |-> "check", token |-> token, key |-> key,
                                       review |-> review, at |-> now]]
    /\ UNCHANGED <<participants, comments, history, moderations, answers>>

EndPost(i) == posts' = [posts EXCEPT ![i] = NoCall] /\ Finish(i)

AnswerPost(i, c) ==
    /\ answers' = [answers EXCEPT !.posts =
                     @ \cup {[token |-> posts[i].token, key |-> posts[i].key, comment |-> c]}]
    /\ EndPost(i)

(* Deleting a comment cascades to its moderation actions (and to the rows  *)
(* of module AiJobs).                                                      *)
Purge(gone) ==
    /\ comments' = [c \in Ids |-> IF c \in gone THEN NoComment ELSE comments[c]]
    /\ history' = {row \in history : row.comment \notin gone}

(* inspectIdempotencyKey and what follows it: an expired comment must give *)
(* the key free first, another participant's comment refuses it, and the   *)
(* participant's own is the answer.  findCommentById, which reads the      *)
(* answer, finds what has not expired: nothing else removes a comment.     *)
CheckKey(i) ==
    /\ posts[i].pc = "check"
    /\ \/ /\ WithKey(posts[i].key) \cap Retained = {}
          /\ posts' = [posts EXCEPT ![i].pc =
                          IF WithKey(posts[i].key) = {} THEN "batch" ELSE "free"]
          /\ UNCHANGED <<lessonVars, answers>>
       \/ \E c \in WithKey(posts[i].key) \cap Retained :
            IF comments[c].token = posts[i].token
            THEN AnswerPost(i, c)
            ELSE EndPost(i) /\ UNCHANGED answers
    /\ UNCHANGED <<participants, comments, history, moderations>>

(* deleteExpiredIdempotencyKey.  Another request may have done it since,   *)
(* and stored its own comment with the key.                                *)
FreeKey(i) ==
    /\ posts[i].pc = "free"
    /\ Purge(WithKey(posts[i].key) \ Retained)
    /\ posts' = [posts EXCEPT ![i].pc = "batch"]
    /\ UNCHANGED <<lessonVars, participants, moderations, answers>>

(* Mistake: the slot is claimed whether or not the session is open. *)
ClaimsWhenClosed(row, at) == row.here /\ row.next <= at

(* Mistake: the ten-second slot is not checked. *)
ClaimsAlways(row, at) == row.here /\ Open

(* The guard of the UPDATE that takes the participant's slot.              *)
Claims(row, at) == row.here /\ row.next <= at /\ Open

(* Mistake: the filter's demand for review counts only under pre-moderation. *)
NeedsReviewOnlyPre(post) == pre

(* The CASE that chooses the state of a new comment.                       *)
NeedsReview(post) == post.review \/ pre

NewComment(post, link) ==
    [state |-> IF NeedsReview(post) THEN "pending" ELSE "visible", version |-> 1,
     token |-> post.token, key |-> post.key, at |-> post.at,
     reviewed |-> post.review \/ pre, expired |-> FALSE, link |-> link]

(* Mistake: comments has no unique index on the key. *)
NeverTaken(key) == FALSE

(* UNIQUE (live_session_id, idempotency_key), by ON CONFLICT DO NOTHING.   *)
Taken(key) == WithKey(key) # {}

(* The batch of persistComment: the participant's row, its slot, and the   *)
(* comment of the participant whose claim is this request's.  A key that   *)
(* is taken loses the comment and keeps the slot claimed.  link is what    *)
(* commentPageLinkStatement inserts.                                       *)
Persist(i, link) ==
    LET post == posts[i]
        row == IF participants[post.token].here \/ ~Open
               THEN participants[post.token]
               ELSE [here |-> TRUE, claim |-> 0, next |-> post.at]
    IN  /\ post.pc = "batch"
        /\ participants' = [participants EXCEPT ![post.token] =
                IF Claims(row, post.at)
                THEN [here |-> TRUE, claim |-> i, next |-> post.at + Interval]
                ELSE row]
        /\ comments' = IF Claims(row, post.at) /\ ~Taken(post.key)
                       THEN [comments EXCEPT ![i] = NewComment(post, link)]
                       ELSE comments
        /\ posts' = [posts EXCEPT ![i].pc = "answer"]
        /\ UNCHANGED <<lessonVars, history, moderations, answers>>

(* The request's own comment, or that of a request that was faster with    *)
(* the same key; else 403 POSTING_CLOSED or 429 RATE_LIMITED.              *)
AnswerStored(i) ==
    /\ posts[i].pc = "answer"
    /\ IF i \in Stored THEN AnswerPost(i, i) /\ UNCHANGED <<comments, history>>
       ELSE \/ /\ WithKey(posts[i].key) \cap Retained = {}
               /\ Purge(WithKey(posts[i].key))
               /\ EndPost(i)
               /\ UNCHANGED answers
            \/ \E c \in WithKey(posts[i].key) \cap Retained :
                /\ IF comments[c].token = posts[i].token
                   THEN AnswerPost(i, c)
                   ELSE EndPost(i) /\ UNCHANGED answers
                /\ UNCHANGED <<comments, history>>
    /\ UNCHANGED <<participants, moderations>>

(* The post's caller is gone: a lost answer, or a worker that dies before  *)
(* its next database call.                                                 *)
LosePost(i) ==
    /\ posts[i].pc # "none"
    /\ EndPost(i)
    /\ UNCHANGED <<participants, comments, history, moderations, answers>>

-----------------------------------------------------------------------------
(* Moderating *)

(* moderateSingleComment, and each item of moderateCommentsBulk: the page  *)
(* sends the version it shows.                                             *)
StartModeration(i) ==
    /\ Begin(i)
    /\ \E c \in Retained, action \in Actions :
        moderations' = [moderations EXCEPT ![i] =
            [pc |-> "load", comment |-> c, action |-> action, from |-> "pending",
             to |-> "pending", expected |-> comments[c].version, result |-> 0]]
    /\ UNCHANGED <<participants, comments, history, posts, answers>>

EndModeration(i) ==
    moderations' = [moderations EXCEPT ![i] = NoCall] /\ Finish(i)

(* The clock, and never less than the version read plus one.               *)
ResultVersions(version) == {v \in {version + 1, version + 2} : v <= MaxVersion}

(* loadCommentForModeration, the version check, nextModerationState and    *)
(* nextTimestamp; 404 and 409 end the request.                             *)
LoadComment(i) ==
    LET m == moderations[i]
        row == comments[m.comment]
    IN  /\ m.pc = "load"
        /\ \/ /\ m.comment \in Retained
              /\ row.version = m.expected
              /\ \E move \in Transitions, v \in ResultVersions(row.version) :
                    /\ move[1] = row.state /\ move[2] = m.action
                    /\ moderations' = [moderations EXCEPT ![i] =
                            [m EXCEPT !.pc = "batch", !.from = row.state, !.to = move[3], !.result = v]]
              /\ UNCHANGED lessonVars
           \/ /\ \/ m.comment \notin Retained
                 \/ row.version # m.expected
                 \/ \A move \in Transitions : move[1] # row.state \/ move[2] # m.action
              /\ EndModeration(i)
        /\ UNCHANGED <<participants, comments, history, posts, answers>>

(* The guard of the UPDATE.                                                *)
Updates(m) ==
    /\ m.comment \in Retained
    /\ comments[m.comment].state = m.from
    /\ comments[m.comment].version = m.expected

ActionRow(i, m) ==
    [id |-> i, comment |-> m.comment, action |-> m.action, from |-> m.from, to |-> m.to,
     expected |-> m.expected, result |-> m.result]

(* Mistake: comment_moderation_actions has no unique index. *)
AlreadyRecordedNever(m) == FALSE

(* UNIQUE (comment_id, result_updated_at): aborts the batch.               *)
AlreadyRecorded(m) ==
    \E row \in history : row.comment = m.comment /\ row.result = m.result

(* Mistake: the history's guard asks for the state that is left. *)
RecordsFrom(m, row) == m.comment \in Retained /\ row.state = m.from /\ row.version = m.result

Records(m, row) == m.comment \in Retained /\ row.state = m.to /\ row.version = m.result

(* The batch of moderateComment.  The row of the history, the event and    *)
(* the audit row are guarded by the state and version that this request    *)
(* has written, or that another has written with the same result.          *)
Moderate(i) ==
    LET m == moderations[i]
        row == IF Updates(m)
               THEN [comments[m.comment] EXCEPT !.state = m.to, !.version = m.result]
               ELSE comments[m.comment]
        records == Records(m, row)
    IN  /\ m.pc = "batch"
        /\ IF records /\ AlreadyRecorded(m)
           THEN EndModeration(i) /\ UNCHANGED <<comments, history>>
           ELSE /\ comments' = [comments EXCEPT ![m.comment] = row]
                /\ history' = IF records THEN history \cup {ActionRow(i, m)} ELSE history
                /\ IF Updates(m)
                   THEN moderations' = [moderations EXCEPT ![i].pc = "reload"] /\ UNCHANGED lessonVars
                   ELSE EndModeration(i)
        /\ UNCHANGED <<participants, posts, answers>>

(* The row is read again; when another request has changed it since, the   *)
(* answer is 500 although the transition is recorded.                      *)
AnswerModerated(i) ==
    LET m == moderations[i]
        row == comments[m.comment]
    IN  /\ m.pc = "reload"
        /\ IF row.version = m.result /\ row.state = m.to
           THEN answers' = [answers EXCEPT !.moderations =
                    @ \cup {[comment |-> m.comment, to |-> m.to, result |-> m.result]}]
           ELSE UNCHANGED answers
        /\ EndModeration(i)
        /\ UNCHANGED <<participants, comments, history, posts>>

-----------------------------------------------------------------------------
(* Retention *)

(* Days pass, with no request in flight, and take the clock to its bound.  *)
Expire(c) ==
    /\ flying = {}
    /\ c \in Retained
    /\ comments' = [comments EXCEPT ![c].expired = TRUE]
    /\ now' = MaxNow
    /\ UNCHANGED <<session, pre, issued, flying, participants, history, posts, moderations, answers>>

(* runCommentRetention: the expired comments, then the participants who    *)
(* have no comment left and are not kept (by understanding signals).  The  *)
(* batch takes at most 500 rows of each, which no instance here reaches.   *)
Gone == Stored \ Retained

(* Mistake: every participant seen before now is removed. *)
LeftAll(kept) == {token \in Tokens \ kept : participants[token].here}

Left(kept) ==
    {token \in Tokens \ kept :
        participants[token].here /\ \A c \in Retained : comments[c].token # token}

Retention(kept) ==
    /\ Gone \cup Left(kept) # {}
    /\ Purge(Gone)
    /\ participants' = [token \in Tokens |->
                            IF token \in Left(kept) THEN NoParticipant ELSE participants[token]]
    /\ UNCHANGED <<lessonVars, posts, moderations, answers>>
=============================================================================
