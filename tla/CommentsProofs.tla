-------------------------- MODULE CommentsProofs --------------------------
(***************************************************************************)
(* What the comments of a live session promise, for any participants,      *)
(* keys, bounds and documents; and the types of the classroom together.    *)
(* PdfPagesProofs has the invariant of the PDF's handlers beside them.     *)
(***************************************************************************)
EXTENDS PdfPagesProofs

-----------------------------------------------------------------------------
(* The inductive invariant *)

CommentsTypeOK ==
    /\ LessonTypeOK
    /\ participants \in [Tokens -> Participants]
    /\ comments \in [Ids -> CommentRows \cup {NoComment}]
    /\ history \subseteq HistoryRows
    /\ posts \in [Ids -> PostRecords \cup {NoCall}]
    /\ moderations \in [Ids -> ModerationRecords \cup {NoCall}]
    /\ answers \in [posts: SUBSET PostAnswers, moderations: SUBSET ModerationAnswers]

(* No other handler than that of a moderation runs under number i.         *)
OthersIdle(i) ==
    posts[i].pc = "none" /\ binds[i].pc = "none" /\ pages[i].pc = "none" /\ marks[i].pc = "none"

(* A request that has not begun has left nothing.                          *)
Unissued ==
    /\ flying \subseteq 1..issued
    /\ \A i \in Ids : i > issued => OthersIdle(i) /\ moderations[i].pc = "none"

(* A moderation is in flight for as long as it runs, so that no days pass, *)
(* and its comment is not removed.                                         *)
ModerationsFly ==
    \A i \in Ids : moderations[i].pc # "none" =>
        i \in flying /\ OthersIdle(i) /\ moderations[i].comment \in Retained

(* A comment appears with the batch of its request, and is named by no     *)
(* answer before.                                                          *)
Nameless(i) ==
    /\ i \notin Stored
    /\ \A a \in answers.posts : a.comment # i
    /\ \A a \in answers.moderations : a.comment # i
    /\ \A row \in history : row.comment # i
NotYet ==
    \A i \in Ids : i > issued \/ posts[i].pc \in {"check", "free", "batch"} => Nameless(i)

KeysApart ==
    \A c, d \in Stored : comments[c].key = comments[d].key => c = d

(* An answer names a comment of the same participant and key.              *)
AnswersMatch ==
    \A a \in answers.posts :
        a.comment \in Stored =>
            comments[a.comment].key = a.key /\ comments[a.comment].token = a.token

(* A request that is about to be answered has stored its own comment, or   *)
(* none.                                                                   *)
Own ==
    \A i \in Ids :
        posts[i].pc = "answer" /\ i \in Stored =>
            comments[i].key = posts[i].key /\ comments[i].token = posts[i].token

(* A participant's next slot is an interval after the latest comment.      *)
Slots ==
    \A c \in Stored :
        LET row == participants[comments[c].token]
        IN  row.here /\ comments[c].at + Interval <= row.next

(* The result of a transition is later than what it was expected to leave. *)
ResultsLater ==
    \A i \in Ids :
        moderations[i].pc \in {"batch", "reload"} => moderations[i].expected < moderations[i].result

(* HistoryIsChain, row by row.                                             *)
Follows(row) ==
    \/ row.expected = 1
    \/ \E q \in history : q.comment = row.comment /\ q.result = row.expected /\ q.to = row.from
Chain ==
    /\ \A row \in history :
        /\ row.comment \in Stored
        /\ row.expected < row.result /\ row.result <= comments[row.comment].version
        /\ Follows(row)
    /\ \A q, row \in history :
        q.comment = row.comment /\ q.expected = row.expected => q = row
    /\ \A c \in Stored :
        \/ comments[c].version = 1
        \/ \E row \in history : row.comment = c /\ row.result = comments[c].version
                                   /\ row.to = comments[c].state

Control == Unissued /\ ModerationsFly /\ NotYet /\ Own /\ ResultsLater
Data ==
    /\ KeysApart /\ AnswersMatch /\ Slots /\ PostsAreSpaced
    /\ Chain /\ AnswersAreRecorded /\ ReviewedBeforeShown

Inv == PdfInv /\ CommentsTypeOK /\ Control /\ Data

-----------------------------------------------------------------------------
(* Rows and records *)

LEMMA StoredFields ==
    ASSUME CommentsTypeOK, NEW c \in Stored
    PROVE  /\ c \in Ids /\ comments[c] \in CommentRows
           /\ comments[c].state \in States /\ comments[c].version \in 1..MaxVersion
           /\ comments[c].token \in Tokens /\ comments[c].key \in Keys
           /\ comments[c].at \in 0..MaxNow /\ comments[c].reviewed \in BOOLEAN
           /\ comments[c].expired \in BOOLEAN /\ comments[c].link \in Links
BY DEF CommentsTypeOK, Stored, CommentRows, NoComment

LEMMA PostFields ==
    ASSUME CommentsTypeOK, NEW i \in Ids, posts[i].pc # "none"
    PROVE  /\ posts[i] \in PostRecords
           /\ posts[i].pc \in {"check", "free", "batch", "answer"}
           /\ posts[i].token \in Tokens /\ posts[i].key \in Keys
           /\ posts[i].review \in BOOLEAN /\ posts[i].at \in 0..MaxNow
BY DEF CommentsTypeOK, PostRecords, NoCall

LEMMA ModerationFields ==
    ASSUME CommentsTypeOK, NEW i \in Ids, moderations[i].pc # "none"
    PROVE  /\ moderations[i] \in ModerationRecords
           /\ moderations[i].pc \in {"load", "batch", "reload"}
           /\ moderations[i].comment \in Ids /\ moderations[i].action \in Actions
           /\ moderations[i].from \in States /\ moderations[i].to \in States
           /\ moderations[i].expected \in 1..MaxVersion
           /\ moderations[i].result \in 0..MaxVersion
BY DEF CommentsTypeOK, ModerationRecords, NoCall

LEMMA ParticipantFields ==
    ASSUME CommentsTypeOK, NEW token \in Tokens
    PROVE  /\ participants[token] \in Participants
           /\ participants[token].here \in BOOLEAN
           /\ participants[token].claim \in 0..MaxRequests
           /\ participants[token].next \in 0..MaxNow + Interval
BY DEF CommentsTypeOK, Participants

LEMMA HistoryFields ==
    ASSUME CommentsTypeOK, NEW row \in history
    PROVE  /\ row.id \in Ids /\ row.comment \in Ids /\ row.action \in Actions
           /\ row.from \in States /\ row.to \in States
           /\ row.expected \in 1..MaxVersion /\ row.result \in 1..MaxVersion
BY DEF CommentsTypeOK, HistoryRows

-----------------------------------------------------------------------------
(* Steps that leave the comments alone *)

LEMMA DataStays ==
    ASSUME Data, UNCHANGED <<participants, comments, history, answers>>
    PROVE  Data'
<1>1. Stored' = Stored
  BY DEF Stored
<1>2. KeysApart' /\ AnswersMatch' /\ Slots' /\ PostsAreSpaced'
  BY <1>1 DEF Data, KeysApart, AnswersMatch, Slots, PostsAreSpaced
<1>3. Chain'
  BY <1>1 DEF Data, Chain, Follows
<1>4. AnswersAreRecorded' /\ ReviewedBeforeShown'
  BY <1>1 DEF Data, AnswersAreRecorded, ReviewedBeforeShown
<1> QED BY <1>2, <1>3, <1>4 DEF Data

(* A request that begins without a handler: TeacherSnapshot.               *)
Pass(i) == i = issued + 1 /\ issued' = i /\ UNCHANGED <<session, pre, now, flying>>

(* The numbers of the requests in flight, after a step of number i.        *)
LEMMA Numbers ==
    ASSUME issued \in Nat, flying \subseteq 1..issued, NEW i \in Ids,
           Begin(i) \/ Pass(i) \/ (i <= issued /\ (Finish(i) \/ UNCHANGED lessonVars))
    PROVE  /\ issued' \in Nat /\ issued' >= issued /\ i <= issued'
           /\ flying' \subseteq 1..issued' /\ \A j \in flying : j # i => j \in flying'
<1>1. CASE Begin(i)
  BY <1>1 DEF Begin
<1>2. CASE Pass(i)
  BY <1>2 DEF Pass
<1>3. CASE i <= issued /\ Finish(i)
  <2>1. issued' = issued /\ flying' = flying \ {i}
    BY <1>3 DEF Finish
  <2>2. flying' \subseteq 1..issued' /\ \A j \in flying : j # i => j \in flying'
    BY <2>1
  <2>3. i <= issued
    BY <1>3
  <2> QED BY <2>1, <2>2, <2>3
<1>4. CASE i <= issued /\ UNCHANGED lessonVars
  BY <1>4 DEF lessonVars
<1> QED BY <1>1, <1>2, <1>3, <1>4

(* Only the handler with number i moves.                                   *)
LEMMA Moving ==
    ASSUME Inv, NEW i \in Ids,
           \A j \in Ids : j # i =>
              /\ posts'[j] = posts[j] /\ moderations'[j] = moderations[j]
              /\ binds'[j].pc = binds[j].pc /\ pages'[j].pc = pages[j].pc
              /\ marks'[j].pc = marks[j].pc
              /\ Nameless(j) => Nameless(j)',
           \/ Begin(i) \/ Pass(i)
           \/ i <= issued /\ (Finish(i) \/ UNCHANGED lessonVars),
           Retained \subseteq Retained',
           moderations'[i].pc # "none" =>
              OthersIdle(i)' /\ i \in flying' /\ moderations'[i].comment \in Retained',
           posts'[i].pc \in {"check", "free", "batch"} => Nameless(i)',
           \A j \in Stored' : j # i =>
              /\ j \in Stored
              /\ comments'[j].key = comments[j].key /\ comments'[j].token = comments[j].token,
           posts'[i].pc = "answer" /\ i \in Stored' =>
              comments'[i].key = posts'[i].key /\ comments'[i].token = posts'[i].token,
           moderations'[i].pc \in {"batch", "reload"} =>
              moderations'[i].expected < moderations'[i].result
    PROVE  Control'
<1>1. LessonTypeOK /\ issued \in Nat /\ flying \subseteq 1..issued
  BY DEF Inv, CommentsTypeOK, LessonTypeOK, Control, Unissued
<1>2. /\ issued' \in Nat /\ issued' >= issued /\ i <= issued'
      /\ flying' \subseteq 1..issued' /\ \A j \in flying : j # i => j \in flying'
  BY <1>1, Numbers
<1>3. \A j \in Ids : j > issued' => j # i /\ j > issued
  BY <1>1, <1>2 DEF Ids
<1>4. \A j \in Ids : j # i => (OthersIdle(j)' <=> OthersIdle(j))
  BY DEF OthersIdle
<1>5. Unissued'
  BY <1>2, <1>3, <1>4 DEF Inv, Control, Unissued
<1>6. ModerationsFly'
  BY <1>2, <1>4 DEF Inv, Control, ModerationsFly
<1>7. NotYet'
  BY <1>3 DEF Inv, Control, NotYet
<1>8. ResultsLater'
  BY DEF Inv, Control, ResultsLater
<1>9. Own'
  BY DEF Inv, Control, Own
<1> QED BY <1>5, <1>6, <1>7, <1>8, <1>9 DEF Control

LEMMA InvMeans ==
    ASSUME Inv
    PROVE  PdfInv /\ PdfTypeOK /\ CommentsTypeOK /\ LessonTypeOK /\ issued \in Nat /\ Control /\ Data
BY DEF Inv, PdfInv, CommentsTypeOK, LessonTypeOK


(* The handlers of the PDF.                                                *)
Runs(i) == binds[i].pc # "none" \/ pages[i].pc # "none" \/ marks[i].pc # "none"

LEMMA PdfMoves ==
    ASSUME PdfTypeOK, NEW i \in Ids, PdfStep(i) \/ StoreMark(i)
    PROVE  /\ \A j \in Ids : j # i =>
                /\ binds'[j].pc = binds[j].pc /\ pages'[j].pc = pages[j].pc
                /\ marks'[j].pc = marks[j].pc
           /\ Begin(i) \/ Pass(i) \/ (Runs(i) /\ (Finish(i) \/ UNCHANGED lessonVars))
<1>1. ASSUME StartBind(i), NEW j \in Ids, j # i
      PROVE  binds'[j].pc = binds[j].pc
  <2>1. binds'[j] = [binds[j] EXCEPT !.alone = FALSE]
    BY <1>1 DEF StartBind
  <2> QED BY <2>1, BindFields DEF BindRecords, Idle
<1>2. CASE StartBind(i)
  BY <1>1, <1>2 DEF StartBind
<1>3. CASE TeacherSnapshot(i)
  BY <1>3 DEF TeacherSnapshot, Pass
<1>4. CASE ReadPrevious(i) \/ TakeSnapshot(i) \/ ReadCurrent(i) \/ Touch(i) \/ Replace(i)
             \/ Confirm(i) \/ Rollback(i) \/ LoseBind(i)
  <2>1. UNCHANGED <<pages, marks>> /\ Runs(i)
    BY <1>4 DEF ReadPrevious, TakeSnapshot, ReadCurrent, Touch, Replace, Confirm, Rollback,
                LoseBind, Binding, Runs
  <2>2. \E record : binds' = [binds EXCEPT ![i] = record]
    BY <1>4 DEF ReadPrevious, TakeSnapshot, ReadCurrent, Touch, Replace, Confirm, Rollback,
                LoseBind, BindGoto, EndBind
  <2>3. Finish(i) \/ UNCHANGED lessonVars
    BY <1>4 DEF ReadPrevious, TakeSnapshot, ReadCurrent, Touch, Replace, Confirm, Rollback,
                LoseBind, EndBind
  <2> QED BY <2>1, <2>2, <2>3 DEF PdfTypeOK
<1>5. CASE StartPage(i) \/ ReadPage(i) \/ StayOnPage(i) \/ TurnPage(i)
  <2>1. UNCHANGED <<binds, marks>>
    BY <1>5 DEF StartPage, ReadPage, StayOnPage, TurnPage
  <2>2. \E record : pages' = [pages EXCEPT ![i] = record]
    BY <1>5 DEF StartPage, ReadPage, StayOnPage, TurnPage, EndPage
  <2>3. Begin(i) \/ (Runs(i) /\ (Finish(i) \/ UNCHANGED lessonVars))
    BY <1>5 DEF StartPage, ReadPage, StayOnPage, TurnPage, EndPage, Runs
  <2> QED BY <2>1, <2>2, <2>3 DEF PdfTypeOK
<1>6. CASE StartMark(i) \/ ReadMark(i) \/ StoreMark(i)
  <2>1. UNCHANGED <<binds, pages>>
    BY <1>6 DEF StartMark, ReadMark, StoreMark
  <2>2. \E record : marks' = [marks EXCEPT ![i] = record]
    BY <1>6 DEF StartMark, ReadMark, StoreMark, EndMark
  <2>3. Begin(i) \/ (Runs(i) /\ (Finish(i) \/ UNCHANGED lessonVars))
    BY <1>6 DEF StartMark, ReadMark, StoreMark, EndMark, Runs
  <2> QED BY <2>1, <2>2, <2>3 DEF PdfTypeOK
<1> QED BY <1>2, <1>3, <1>4, <1>5, <1>6 DEF PdfStep

LEMMA LessonStays ==
    ASSUME LessonTypeOK, NEW i,
           Begin(i) \/ Finish(i) \/ UNCHANGED lessonVars \/ (Pass(i) /\ issued' \in 0..MaxRequests)
    PROVE  LessonTypeOK'
<1>1. CASE Pass(i) /\ issued' \in 0..MaxRequests
  BY <1>1 DEF LessonTypeOK, Pass
<1> QED BY <1>1, LessonMoves

(* A step of a PDF's handler, which leaves the comments alone.             *)
LEMMA PdfControl ==
    ASSUME Inv, NEW i \in Ids, PdfStep(i) \/ StoreMark(i),
           UNCHANGED <<comments, history, posts, moderations, answers>>
    PROVE  Control' /\ LessonTypeOK'
<1>1. PdfTypeOK /\ LessonTypeOK /\ issued \in Nat
  BY InvMeans
<1>2. /\ \A j \in Ids : j # i =>
           /\ binds'[j].pc = binds[j].pc /\ pages'[j].pc = pages[j].pc
           /\ marks'[j].pc = marks[j].pc
      /\ Begin(i) \/ Pass(i) \/ (Runs(i) /\ (Finish(i) \/ UNCHANGED lessonVars))
  BY <1>1, PdfMoves
<1>3. Stored' = Stored /\ Retained' = Retained
  BY DEF Stored, Retained
<1>4. \A j \in Ids : Nameless(j)' <=> Nameless(j)
  BY <1>3 DEF Nameless
<1>5. Runs(i) => i <= issued /\ ~OthersIdle(i)
  BY <1>1 DEF Runs, Inv, Control, Unissued, OthersIdle, Ids
<1>6. Begin(i) \/ Pass(i) => i > issued
  BY <1>1 DEF Begin, Pass
<1>7. moderations[i].pc = "none"
  BY <1>2, <1>5, <1>6 DEF Inv, Control, Unissued, ModerationsFly
<1>8. Begin(i) \/ Pass(i) \/ (i <= issued /\ (Finish(i) \/ UNCHANGED lessonVars))
  BY <1>2, <1>5
<1>9. posts'[i].pc \in {"check", "free", "batch"} => Nameless(i)'
  BY <1>4 DEF Inv, Control, NotYet
<1>10. posts'[i].pc = "answer" /\ i \in Stored' =>
          comments'[i].key = posts'[i].key /\ comments'[i].token = posts'[i].token
  BY <1>3 DEF Inv, Control, Own
<1>11. Control'
  BY <1>2, <1>3, <1>4, <1>7, <1>8, <1>9, <1>10, Moving
<1>12. LessonTypeOK'
  BY <1>1, <1>8, LessonStays DEF Pass, Ids
<1> QED BY <1>11, <1>12

LEMMA PdfStepsKeep == ASSUME Inv, NEW i \in Ids, PdfStep(i), UNCHANGED commentVars
                      PROVE  CommentsTypeOK' /\ Control' /\ Data'
BY InvMeans, PdfControl, DataStays DEF commentVars, CommentsTypeOK

LEMMA MarksKeep == ASSUME Inv, NEW i \in Ids, MarkWithParticipant(i)
                   PROVE  CommentsTypeOK' /\ Control' /\ Data'
<1> DEFINE s == marks[i].student
<1>1. CommentsTypeOK /\ Data
  BY InvMeans
<1>2. StoreMark(i) /\ UNCHANGED <<comments, history, posts, moderations, answers>>
  BY DEF MarkWithParticipant
<1>3. Control' /\ LessonTypeOK'
  BY <1>2, PdfControl
<1>4. participants' = [participants EXCEPT ![s] =
            IF @.here \/ ~Active THEN @ ELSE [here |-> TRUE, claim |-> 0, next |-> now]]
  BY DEF MarkWithParticipant
<1>5. [here |-> TRUE, claim |-> 0, next |-> now] \in Participants
  BY <1>1, BoundsAssumption, CommentsAssumption DEF CommentsTypeOK, LessonTypeOK, Participants
<1>6. participants' \in [Tokens -> Participants]
  BY <1>1, <1>4, <1>5 DEF CommentsTypeOK
<1>7. CommentsTypeOK'
  BY <1>1, <1>2, <1>3, <1>6 DEF CommentsTypeOK
<1>8. \A token \in Tokens : participants[token].here => participants'[token] = participants[token]
  BY <1>1, <1>4 DEF CommentsTypeOK
<1>9. Stored' = Stored
  BY <1>2 DEF Stored
<1>10. Slots'
  BY <1>1, <1>2, <1>8, <1>9, StoredFields DEF Data, Slots
<1>11. KeysApart' /\ AnswersMatch' /\ PostsAreSpaced'
  BY <1>1, <1>2, <1>9 DEF Data, KeysApart, AnswersMatch, PostsAreSpaced
<1>12. Chain'
  BY <1>1, <1>2, <1>9 DEF Data, Chain, Follows
<1>13. AnswersAreRecorded' /\ ReviewedBeforeShown'
  BY <1>1, <1>2, <1>9 DEF Data, AnswersAreRecorded, ReviewedBeforeShown
<1> QED BY <1>3, <1>7, <1>10, <1>11, <1>12, <1>13 DEF Data

-----------------------------------------------------------------------------
(* Posting *)

(* The handler of one post moves.                                          *)
LEMMA PostMoves ==
    ASSUME Inv, NEW i \in Ids, NEW record,
           posts' = [posts EXCEPT ![i] = record], moderations' = moderations, UNCHANGED pdfVars,
           Begin(i) \/ (posts[i].pc # "none" /\ (Finish(i) \/ UNCHANGED lessonVars)),
           Retained \subseteq Retained',
           \A j \in Ids : j # i /\ Nameless(j) => Nameless(j)',
           record.pc \in {"check", "free", "batch"} => Nameless(i)',
           \A j \in Stored' : j # i =>
              /\ j \in Stored
              /\ comments'[j].key = comments[j].key /\ comments'[j].token = comments[j].token,
           record.pc = "answer" /\ i \in Stored' =>
              comments'[i].key = record.key /\ comments'[i].token = record.token
    PROVE  Control' /\ LessonTypeOK'
<1>1. LessonTypeOK /\ CommentsTypeOK /\ issued \in Nat
  BY InvMeans
<1>2. posts'[i] = record /\ \A j \in Ids : j # i => posts'[j] = posts[j]
  BY <1>1 DEF CommentsTypeOK
<1>3. posts[i].pc # "none" => i <= issued /\ ~OthersIdle(i)
  BY <1>1 DEF Inv, Control, Unissued, OthersIdle, Ids
<1>4. Begin(i) => i > issued
  BY <1>1 DEF Begin
<1>5. moderations[i].pc = "none"
  BY <1>3, <1>4 DEF Inv, Control, Unissued, ModerationsFly
<1>6. Begin(i) \/ Pass(i) \/ (i <= issued /\ (Finish(i) \/ UNCHANGED lessonVars))
  BY <1>3
<1>7. UNCHANGED <<binds, pages, marks>>
  BY DEF pdfVars
<1>8. Control'
  BY <1>2, <1>5, <1>6, <1>7, Moving
<1>9. LessonTypeOK'
  BY <1>1, LessonStays
<1> QED BY <1>8, <1>9

(* Expired comments are deleted, and their history with them.              *)
LEMMA Purged ==
    ASSUME CommentsTypeOK, NEW gone, Purge(gone), gone \cap Retained = {}
    PROVE  /\ Stored' = Stored \ gone /\ Retained' = Retained
           /\ \A c \in Stored' : comments'[c] = comments[c]
           /\ comments' \in [Ids -> CommentRows \cup {NoComment}]
           /\ history' \subseteq HistoryRows
           /\ answers' = answers => \A j \in Ids : Nameless(j) => Nameless(j)'
<1>1. \A c \in Ids : comments'[c] = IF c \in gone THEN NoComment ELSE comments[c]
  BY DEF Purge
<1>2. NoComment.state = "none"
  BY DEF NoComment
<1>3. Stored' = Stored \ gone
  BY <1>1, <1>2 DEF Stored
<1>4. \A c \in Stored' : comments'[c] = comments[c]
  BY <1>1, <1>3 DEF Stored
<1>5. Retained' = Retained
  BY <1>3, <1>4 DEF Retained
<1>6. comments' \in [Ids -> CommentRows \cup {NoComment}]
  BY DEF Purge, CommentsTypeOK
<1>7. history' \subseteq history
  BY DEF Purge
<1>8. answers' = answers => \A j \in Ids : Nameless(j) => Nameless(j)'
  BY <1>3, <1>7 DEF Nameless
<1> QED BY <1>3, <1>4, <1>5, <1>6, <1>7, <1>8 DEF CommentsTypeOK

LEMMA PurgedData ==
    ASSUME CommentsTypeOK, Data, NEW gone, Purge(gone), gone \cap Retained = {},
           answers' = answers,
           \A c \in Stored' : participants'[comments[c].token] = participants[comments[c].token]
    PROVE  Data'
<1>1. /\ Stored' = Stored \ gone
      /\ \A c \in Stored' : comments'[c] = comments[c]
  BY Purged
<1>2. history' = {row \in history : row.comment \notin gone}
  BY DEF Purge
<1>3. KeysApart' /\ AnswersMatch' /\ PostsAreSpaced'
  BY <1>1 DEF Data, KeysApart, AnswersMatch, PostsAreSpaced
<1>4. Slots'
  BY <1>1 DEF Data, Slots
<1>5. Chain'
  <2>1. ASSUME NEW row \in history'
        PROVE  /\ row.comment \in Stored'
               /\ row.expected < row.result /\ row.result <= comments'[row.comment].version
               /\ Follows(row)'
    <3>1. row \in history /\ row.comment \notin gone
      BY <1>2, <2>1
    <3>2. row.comment \in Stored'
      BY <1>1, <3>1 DEF Data, Chain
    <3>3. Follows(row)'
      BY <1>2, <3>1 DEF Data, Chain, Follows
    <3> QED BY <1>1, <3>1, <3>2, <3>3 DEF Data, Chain
  <2>2. \A q, row \in history' :
            q.comment = row.comment /\ q.expected = row.expected => q = row
    BY <1>2 DEF Data, Chain
  <2>3. ASSUME NEW c \in Stored'
        PROVE  \/ comments'[c].version = 1
               \/ \E row \in history' : row.comment = c /\ row.result = comments'[c].version
                                           /\ row.to = comments'[c].state
    BY <1>1, <1>2 DEF Data, Chain
  <2> QED BY <2>1, <2>2, <2>3 DEF Chain
<1>6. AnswersAreRecorded'
  BY <1>1, <1>2 DEF Data, AnswersAreRecorded
<1>7. ReviewedBeforeShown'
  BY <1>1, <1>2 DEF Data, ReviewedBeforeShown
<1> QED BY <1>3, <1>4, <1>5, <1>6, <1>7 DEF Data

(* A post is answered with a comment of its participant and key.           *)
LEMMA Answered ==
    ASSUME CommentsTypeOK, Data, NEW i \in Ids, posts[i].pc # "none", NEW c \in Stored,
           comments[c].key = posts[i].key, comments[c].token = posts[i].token,
           AnswerPost(i, c), UNCHANGED <<participants, comments, history>>
    PROVE  /\ Data' /\ answers' \in [posts: SUBSET PostAnswers, moderations: SUBSET ModerationAnswers]
           /\ \A j \in Ids : Nameless(j) => Nameless(j)'
<1> DEFINE answer == [token |-> posts[i].token, key |-> posts[i].key, comment |-> c]
<1>1. answers' = [answers EXCEPT !.posts = @ \cup {answer}]
  BY DEF AnswerPost
<1>2. answer \in PostAnswers
  BY PostFields DEF PostAnswers, Stored
<1>3. /\ answers' \in [posts: SUBSET PostAnswers, moderations: SUBSET ModerationAnswers]
      /\ answers'.posts = answers.posts \cup {answer}
      /\ answers'.moderations = answers.moderations
  BY <1>1, <1>2 DEF CommentsTypeOK
<1>4. Stored' = Stored
  BY DEF Stored
<1>5. \A j \in Ids : Nameless(j) => Nameless(j)'
  <2>1. answer.comment = c
    OBVIOUS
  <2> QED BY <1>3, <1>4, <2>1 DEF Nameless
<1>6. AnswersMatch'
  <2>1. answer.comment = c /\ answer.key = posts[i].key /\ answer.token = posts[i].token
    OBVIOUS
  <2> QED BY <1>3, <1>4, <2>1 DEF Data, AnswersMatch
<1>7. KeysApart' /\ Slots' /\ PostsAreSpaced'
  BY <1>4 DEF Data, KeysApart, Slots, PostsAreSpaced
<1>8. Chain' /\ ReviewedBeforeShown'
  BY <1>4 DEF Data, Chain, Follows, ReviewedBeforeShown
<1>9. AnswersAreRecorded'
  BY <1>3, <1>4 DEF Data, AnswersAreRecorded
<1> QED BY <1>3, <1>5, <1>6, <1>7, <1>8, <1>9 DEF Data

(* A step that stores no comment leaves keys and tokens alone.              *)
KeysStay ==
    \A j \in Stored' :
        /\ j \in Stored
        /\ comments'[j].key = comments[j].key /\ comments'[j].token = comments[j].token

LEMMA SameComments ==
    ASSUME UNCHANGED comments
    PROVE  Stored' = Stored /\ Retained' = Retained /\ KeysStay
BY DEF Stored, Retained, KeysStay

LEMMA StartsPost == ASSUME Inv, NEW i \in Ids, StartPost(i), UNCHANGED pdfVars
                    PROVE  CommentsTypeOK' /\ Control' /\ Data'
<1>1. CommentsTypeOK /\ Data /\ LessonTypeOK /\ issued \in Nat
  BY InvMeans
<1>2. PICK token \in Tokens, key \in Keys, review \in BOOLEAN :
        posts' = [posts EXCEPT ![i] = [pc |-> "check", token |-> token, key |-> key,
                                       review |-> review, at |-> now]]
  BY DEF StartPost
<1> DEFINE record == [pc |-> "check", token |-> token, key |-> key, review |-> review, at |-> now]
<1>3. UNCHANGED <<participants, comments, history, moderations, answers>> /\ Begin(i)
  BY DEF StartPost
<1>4. record \in PostRecords
  BY <1>1 DEF PostRecords, LessonTypeOK
<1>5. Stored' = Stored /\ Retained' = Retained /\ KeysStay
  BY <1>3, SameComments
<1>6. \A j \in Ids : Nameless(j)' <=> Nameless(j)
  BY <1>3, <1>5 DEF Nameless
<1>7. Nameless(i)'
  BY <1>1, <1>3, <1>6 DEF Begin, Inv, Control, NotYet
<1>8. Control' /\ LessonTypeOK'
  <2>1. record.pc # "answer"
    OBVIOUS
  <2>2. posts' = [posts EXCEPT ![i] = record]
    BY <1>2
  <2> HIDE DEF record
  <2> QED BY <1>3, <1>5, <1>6, <1>7, <2>1, <2>2, PostMoves DEF KeysStay
<1>9. CommentsTypeOK'
  BY <1>1, <1>2, <1>3, <1>4, <1>8 DEF CommentsTypeOK
<1> QED BY <1>1, <1>3, <1>8, <1>9, DataStays

(* A post ends, with no answer or without a comment of its own.            *)
LEMMA EndsPost ==
    ASSUME Inv, NEW i \in Ids, posts[i].pc # "none", EndPost(i), moderations' = moderations,
           UNCHANGED pdfVars, Retained \subseteq Retained',
           \A j \in Ids : Nameless(j) => Nameless(j)',
           KeysStay
    PROVE  /\ Control' /\ LessonTypeOK'
           /\ posts' \in [Ids -> PostRecords \cup {NoCall}]
<1>1. posts' = [posts EXCEPT ![i] = NoCall] /\ Finish(i)
  BY DEF EndPost
<1>2. posts' \in [Ids -> PostRecords \cup {NoCall}]
  BY <1>1, InvMeans DEF CommentsTypeOK
<1>3. NoCall.pc = "none"
  BY DEF NoCall
<1>4. Control' /\ LessonTypeOK'
  BY <1>1, <1>3, PostMoves DEF KeysStay
<1> QED BY <1>2, <1>4

LEMMA LosesPost == ASSUME Inv, NEW i \in Ids, LosePost(i), UNCHANGED pdfVars
                   PROVE  CommentsTypeOK' /\ Control' /\ Data'
<1>1. /\ posts[i].pc # "none" /\ EndPost(i)
      /\ UNCHANGED <<participants, comments, history, moderations, answers>>
  BY DEF LosePost
<1>2. Stored' = Stored /\ Retained' = Retained /\ KeysStay
  BY <1>1, SameComments
<1>3. \A j \in Ids : Nameless(j) => Nameless(j)'
  BY <1>1, <1>2 DEF Nameless
<1>4. Control' /\ LessonTypeOK' /\ posts' \in [Ids -> PostRecords \cup {NoCall}]
  BY <1>1, <1>2, <1>3, EndsPost
<1>5. CommentsTypeOK' /\ Data'
  BY <1>1, <1>4, InvMeans, DataStays DEF CommentsTypeOK
<1> QED BY <1>4, <1>5

(* The two answers of a post that did not store a comment: what            *)
(* CheckKey and AnswerStored share.                                        *)
LEMMA Settled ==
    ASSUME Inv, NEW i \in Ids, posts[i].pc # "none", UNCHANGED pdfVars,
           UNCHANGED <<participants, comments, history, moderations>>,
           NEW c \in WithKey(posts[i].key) \cap Retained,
           IF comments[c].token = posts[i].token THEN AnswerPost(i, c)
           ELSE EndPost(i) /\ UNCHANGED answers
    PROVE  CommentsTypeOK' /\ Control' /\ Data'
<1>1. CommentsTypeOK /\ Data
  BY InvMeans
<1>2. c \in Stored /\ comments[c].key = posts[i].key
  BY DEF WithKey, Retained
<1>3. Stored' = Stored /\ Retained' = Retained /\ KeysStay
  BY SameComments
<1>4. EndPost(i)
  BY DEF AnswerPost
<1>5. /\ Data' /\ answers' \in [posts: SUBSET PostAnswers, moderations: SUBSET ModerationAnswers]
      /\ \A j \in Ids : Nameless(j) => Nameless(j)'
  <2>1. CASE comments[c].token = posts[i].token
    BY <1>1, <1>2, <2>1, Answered
  <2>2. CASE comments[c].token # posts[i].token
    <3>1. UNCHANGED answers
      BY <2>2
    <3> QED BY <1>1, <1>3, <3>1, DataStays DEF Nameless, CommentsTypeOK
  <2> QED BY <2>1, <2>2
<1>6. Control' /\ LessonTypeOK' /\ posts' \in [Ids -> PostRecords \cup {NoCall}]
  BY <1>3, <1>4, <1>5, EndsPost
<1>7. CommentsTypeOK'
  BY <1>1, <1>5, <1>6 DEF CommentsTypeOK
<1> QED BY <1>5, <1>6, <1>7

(* A key is not taken by a retained comment, or by none that has expired   *)
(* any more: the post goes on, with what has expired of the key removed.   *)
LEMMA GoesOnWithKey ==
    ASSUME Inv, NEW i \in Ids, NEW pc \in {"free", "batch"},
           posts[i].pc \in {"check", "free"},
           \E gone : gone \cap Retained = {} /\ Purge(gone),
           posts' = [posts EXCEPT ![i].pc = pc],
           UNCHANGED <<lessonVars, participants, moderations, answers>>, UNCHANGED pdfVars
    PROVE  CommentsTypeOK' /\ Control' /\ Data'
<1>0. PICK gone : gone \cap Retained = {} /\ Purge(gone)
  OBVIOUS
<1>1. CommentsTypeOK /\ Data
  BY InvMeans
<1>2. /\ Stored' = Stored \ gone /\ Retained' = Retained
      /\ \A c \in Stored' : comments'[c] = comments[c]
      /\ comments' \in [Ids -> CommentRows \cup {NoComment}]
      /\ history' \subseteq HistoryRows
      /\ \A j \in Ids : Nameless(j) => Nameless(j)'
  BY <1>0, <1>1, Purged
<1>3. Data'
  BY <1>0, <1>1, PurgedData
<1> DEFINE record == [posts[i] EXCEPT !.pc = pc]
<1>4. record \in PostRecords /\ record.pc = pc
  BY <1>1, PostFields DEF PostRecords
<1>5. Nameless(i)'
  BY <1>1, <1>2 DEF Inv, Control, NotYet
<1>6. posts' = [posts EXCEPT ![i] = record]
  OBVIOUS
<1>7. Control' /\ LessonTypeOK'
  <2> HIDE DEF record
  <2> QED BY <1>1, <1>2, <1>4, <1>5, <1>6, PostMoves
<1>8. CommentsTypeOK'
  BY <1>1, <1>2, <1>4, <1>6, <1>7 DEF CommentsTypeOK
<1> QED BY <1>3, <1>7, <1>8

LEMMA ChecksKey == ASSUME Inv, NEW i \in Ids, CheckKey(i), UNCHANGED pdfVars
                   PROVE  CommentsTypeOK' /\ Control' /\ Data'
<1> DEFINE taken == WithKey(posts[i].key)
<1>1. /\ CommentsTypeOK /\ posts[i].pc = "check"
      /\ UNCHANGED <<participants, comments, history, moderations>>
  BY InvMeans DEF CheckKey
<1>2. ASSUME posts' = [posts EXCEPT ![i].pc = IF taken = {} THEN "batch" ELSE "free"],
             UNCHANGED <<lessonVars, answers>>
      PROVE  CommentsTypeOK' /\ Control' /\ Data'
  <2>1. Purge({})
    <3>1. comments = [c \in Ids |-> comments[c]] /\ history = {row \in history : TRUE}
      BY <1>1 DEF CommentsTypeOK
    <3> QED BY <1>1, <3>1 DEF Purge
  <2>2. \E gone : gone \cap Retained = {} /\ Purge(gone)
    <3>1. {} \cap Retained = {}
      OBVIOUS
    <3> QED BY <2>1, <3>1
  <2>3. CASE taken = {}
    BY <1>1, <1>2, <2>2, <2>3, GoesOnWithKey
  <2>4. CASE taken # {}
    BY <1>1, <1>2, <2>2, <2>4, GoesOnWithKey
  <2> QED BY <2>3, <2>4
<1>3. ASSUME NEW c \in taken \cap Retained,
             IF comments[c].token = posts[i].token THEN AnswerPost(i, c)
             ELSE EndPost(i) /\ UNCHANGED answers
      PROVE  CommentsTypeOK' /\ Control' /\ Data'
  BY <1>1, <1>3, Settled
<1> QED BY <1>2, <1>3 DEF CheckKey

LEMMA FreesKeyOf == ASSUME Inv, NEW i \in Ids, FreeKey(i), UNCHANGED pdfVars
                    PROVE  CommentsTypeOK' /\ Control' /\ Data'
<1> DEFINE gone == WithKey(posts[i].key) \ Retained
<1>1. gone \cap Retained = {}
  OBVIOUS
<1>2. /\ posts[i].pc = "free" /\ Purge(gone) /\ posts' = [posts EXCEPT ![i].pc = "batch"]
      /\ UNCHANGED <<lessonVars, participants, moderations, answers>>
  BY DEF FreeKey
<1> HIDE DEF gone
<1> QED BY <1>1, <1>2, GoesOnWithKey

LEMMA AnswersStored == ASSUME Inv, NEW i \in Ids, AnswerStored(i), UNCHANGED pdfVars
                       PROVE  CommentsTypeOK' /\ Control' /\ Data'
<1> DEFINE gone == WithKey(posts[i].key)
<1>1. CommentsTypeOK /\ Data /\ posts[i].pc = "answer" /\ UNCHANGED <<participants, moderations>>
  BY InvMeans DEF AnswerStored
<1>2. CASE i \in Stored /\ AnswerPost(i, i) /\ UNCHANGED <<comments, history>>
  <2>1. comments[i].key = posts[i].key /\ comments[i].token = posts[i].token
    BY <1>1, <1>2 DEF Inv, Control, Own
  <2>2. /\ Data' /\ answers' \in [posts: SUBSET PostAnswers, moderations: SUBSET ModerationAnswers]
        /\ \A j \in Ids : Nameless(j) => Nameless(j)'
    BY <1>1, <1>2, <2>1, Answered
  <2>3. Stored' = Stored /\ Retained' = Retained /\ KeysStay /\ EndPost(i)
    BY <1>2, SameComments DEF AnswerPost
  <2>4. Control' /\ LessonTypeOK' /\ posts' \in [Ids -> PostRecords \cup {NoCall}]
    BY <1>1, <2>2, <2>3, EndsPost
  <2>5. CommentsTypeOK'
    BY <1>1, <1>2, <2>2, <2>4 DEF CommentsTypeOK
  <2> QED BY <2>2, <2>4, <2>5
<1>3. CASE gone \cap Retained = {} /\ Purge(gone) /\ EndPost(i) /\ UNCHANGED answers
  <2>1. /\ Stored' = Stored \ gone /\ Retained' = Retained
        /\ \A c \in Stored' : comments'[c] = comments[c]
        /\ comments' \in [Ids -> CommentRows \cup {NoComment}]
        /\ history' \subseteq HistoryRows
        /\ \A j \in Ids : Nameless(j) => Nameless(j)'
    BY <1>1, <1>3, Purged
  <2>2. Data'
    BY <1>1, <1>3, PurgedData
  <2>3. Control' /\ LessonTypeOK' /\ posts' \in [Ids -> PostRecords \cup {NoCall}]
    BY <1>1, <1>3, <2>1, EndsPost DEF KeysStay
  <2>4. CommentsTypeOK'
    BY <1>1, <1>3, <2>1, <2>3 DEF CommentsTypeOK
  <2> QED BY <2>2, <2>3, <2>4
<1>4. ASSUME NEW c \in gone \cap Retained,
             IF comments[c].token = posts[i].token THEN AnswerPost(i, c)
             ELSE EndPost(i) /\ UNCHANGED answers,
             UNCHANGED <<comments, history>>
      PROVE  CommentsTypeOK' /\ Control' /\ Data'
  BY <1>1, <1>4, Settled
<1> QED BY <1>2, <1>3, <1>4 DEF AnswerStored

(* The batch of persistComment: one slot, one comment, one key.            *)
LEMMA Persists == ASSUME Inv, NEW i \in Ids, Persist(i, PageLink), UNCHANGED pdfVars
                  PROVE  CommentsTypeOK' /\ Control' /\ Data'
<1> DEFINE post == posts[i]
           token == post.token
           row == IF participants[token].here \/ ~Open
                  THEN participants[token]
                  ELSE [here |-> TRUE, claim |-> 0, next |-> post.at]
           claimed == [here |-> TRUE, claim |-> i, next |-> post.at + Interval]
           taken == IF Claims(row, post.at) THEN claimed ELSE row
           new == NewComment(post, PageLink)
           record == [post EXCEPT !.pc = "answer"]
<1>1. /\ CommentsTypeOK /\ Data /\ post.pc = "batch" /\ LessonTypeOK /\ PdfTypeOK
      /\ UNCHANGED <<lessonVars, history, moderations, answers>>
  BY InvMeans DEF Persist
<1>2. /\ participants' = [participants EXCEPT ![token] = taken]
      /\ comments' = IF Claims(row, post.at) /\ ~Taken(post.key)
                     THEN [comments EXCEPT ![i] = new] ELSE comments
      /\ posts' = [posts EXCEPT ![i] = record]
  BY DEF Persist
<1>3. /\ post \in PostRecords /\ token \in Tokens /\ post.key \in Keys
      /\ post.review \in BOOLEAN /\ post.at \in 0..MaxNow
  BY <1>1, PostFields
<1>4. /\ MaxNow \in Nat /\ Interval \in Nat \ {0} /\ MaxVersion \in Nat \ {0} /\ MaxRequests \in Nat
      /\ pre \in BOOLEAN /\ state \in Links
  BY <1>1, BoundsAssumption, CommentsAssumption, MeetingAssumption DEF LessonTypeOK, PdfTypeOK
<1>5. /\ participants[token] \in Participants /\ participants[token].here \in BOOLEAN
      /\ participants[token].next \in 0..MaxNow + Interval
  BY <1>1, <1>3, ParticipantFields
<1>6. /\ new \in CommentRows /\ new.state # "none" /\ new.version = 1
      /\ new.key = post.key /\ new.token = token /\ new.at = post.at /\ ~new.expired
      /\ new.reviewed => new.state = "pending"
  BY <1>3, <1>4 DEF NewComment, NeedsReview, CommentRows, States, PageLink
<1>7. /\ taken \in Participants
      /\ participants[token].here => /\ row = participants[token] /\ taken.here
                                     /\ participants[token].next <= taken.next
      /\ Claims(row, post.at) => /\ taken = claimed
                                 /\ participants[token].here => participants[token].next <= post.at
  <2>1. row \in Participants
    BY <1>3, <1>4, <1>5 DEF Participants
  <2>2. claimed \in Participants
    BY <1>3, <1>4 DEF Participants, Ids
  <2>3. claimed.here /\ claimed.next = post.at + Interval
    OBVIOUS
  <2>4. participants[token].here => row = participants[token]
    OBVIOUS
  <2>5. Claims(row, post.at) => row.next <= post.at
    BY DEF Claims
  <2> HIDE DEF row, claimed
  <2> QED BY <1>3, <1>4, <1>5, <2>1, <2>2, <2>3, <2>4, <2>5
<1>8. record \in PostRecords /\ record.pc = "answer" /\ record.key = post.key /\ record.token = token
  BY <1>3 DEF PostRecords
<1>9. Nameless(i) /\ i \notin Stored
  BY <1>1 DEF Inv, Control, NotYet, Nameless
<1>10. /\ participants' \in [Tokens -> Participants]
       /\ comments' \in [Ids -> CommentRows \cup {NoComment}]
       /\ posts' \in [Ids -> PostRecords \cup {NoCall}]
  BY <1>1, <1>2, <1>6, <1>7, <1>8 DEF CommentsTypeOK
<1> HIDE DEF record, new, claimed, row, taken
<1>11. ASSUME NEW c \in Stored
      PROVE  /\ participants'[comments[c].token].here
             /\ comments[c].at + Interval <= participants'[comments[c].token].next
  <2>1. comments[c].at \in Nat /\ comments[c].token \in Tokens
    BY <1>1, StoredFields
  <2>2. /\ participants[comments[c].token].here
        /\ comments[c].at + Interval <= participants[comments[c].token].next
    BY <1>1 DEF Data, Slots
  <2>3. CASE comments[c].token = token
    <3>1. participants'[token] = taken
      BY <1>1, <1>2, <1>3 DEF CommentsTypeOK
    <3>2. taken.next \in Nat
      BY <1>4, <1>7 DEF Participants
    <3> QED BY <1>4, <1>5, <1>7, <2>1, <2>2, <2>3, <3>1, <3>2
  <2>4. CASE comments[c].token # token
    BY <1>1, <1>2, <2>1, <2>2, <2>4 DEF CommentsTypeOK
  <2> QED BY <2>3, <2>4
<1>12. CASE Claims(row, post.at) /\ ~Taken(post.key)
  <2>1. comments' = [comments EXCEPT ![i] = new]
    BY <1>2, <1>12
  <2>2. comments'[i] = new /\ \A j \in Ids : j # i => comments'[j] = comments[j]
    BY <1>1, <2>1 DEF CommentsTypeOK
  <2>3. Stored' = Stored \cup {i}
    BY <1>6, <2>2 DEF Stored
  <2>4. \A c \in Stored : c \in Ids /\ c # i /\ comments'[c] = comments[c]
    BY <1>9, <2>2 DEF Stored
  <2>5. Retained \subseteq Retained'
    BY <2>3, <2>4 DEF Retained
  <2>6. \A j \in Ids : j # i /\ Nameless(j) => Nameless(j)'
    BY <1>1, <2>3 DEF Nameless
  <2>7. Control' /\ LessonTypeOK'
    BY <1>1, <1>2, <1>6, <1>8, <2>2, <2>3, <2>4, <2>5, <2>6, PostMoves
  <2>8. KeysApart'
    <3>1. \A c \in Stored : comments[c].key # post.key
      BY <1>12 DEF Taken, WithKey
    <3> QED BY <1>1, <1>6, <2>2, <2>3, <2>4, <3>1 DEF Data, KeysApart
  <2>9. AnswersMatch' /\ AnswersAreRecorded'
    <3>1. /\ \A a \in answers.posts : a.comment # i
          /\ \A a \in answers.moderations : a.comment # i
      BY <1>9 DEF Nameless
    <3> QED BY <1>1, <2>3, <2>4, <3>1 DEF Data, AnswersMatch, AnswersAreRecorded
  <2>10. \A c \in Stored : comments[c].token = token => comments[c].at + Interval <= post.at
    <3>1. SUFFICES ASSUME NEW c \in Stored, comments[c].token = token
                   PROVE  comments[c].at + Interval <= post.at
      OBVIOUS
    <3>2. participants[token].here /\ comments[c].at + Interval <= participants[token].next
      BY <1>1, <3>1 DEF Data, Slots
    <3>3. comments[c].at \in Nat
      BY <1>1, StoredFields
    <3> QED BY <1>3, <1>4, <1>5, <1>7, <1>12, <3>2, <3>3
  <2>11. Slots'
    <3>2. participants'[token] = taken
      BY <1>1, <1>2, <1>3 DEF CommentsTypeOK
    <3>3. taken.here /\ taken.next = post.at + Interval
      BY <1>7, <1>12 DEF claimed
    <3>4. new.at + Interval <= participants'[new.token].next
      BY <1>3, <1>4, <1>6, <3>2, <3>3
    <3> QED BY <1>6, <2>2, <2>3, <2>4, <1>11, <3>2, <3>3, <3>4 DEF Slots
  <2>12. PostsAreSpaced'
    BY <1>1, <1>6, <2>2, <2>3, <2>4, <2>10 DEF Data, PostsAreSpaced
  <2>13. Chain'
    <3>1. \A r \in history : r.comment \in Stored /\ comments'[r.comment] = comments[r.comment]
      BY <1>1, <2>4 DEF Data, Chain
    <3>2. \A r \in history : Follows(r)'
      BY <1>1 DEF Data, Chain, Follows
    <3> QED BY <1>1, <1>6, <2>2, <2>3, <2>4, <3>1, <3>2 DEF Data, Chain
  <2>14. ReviewedBeforeShown'
    BY <1>1, <1>6, <2>2, <2>3, <2>4 DEF Data, ReviewedBeforeShown
  <2>15. Data'
    BY <2>8, <2>9, <2>11, <2>12, <2>13, <2>14 DEF Data
  <2> QED BY <1>1, <1>10, <2>7, <2>15 DEF CommentsTypeOK
<1>13. CASE ~(Claims(row, post.at) /\ ~Taken(post.key))
  <2>1. comments' = comments
    BY <1>2, <1>13
  <2>2. Stored' = Stored /\ Retained' = Retained
    BY <2>1 DEF Stored, Retained
  <2>3. \A j \in Ids : Nameless(j) => Nameless(j)'
    BY <1>1, <2>2 DEF Nameless
  <2>4. Control' /\ LessonTypeOK'
    BY <1>1, <1>2, <1>8, <1>9, <2>1, <2>2, <2>3, PostMoves
  <2>5. Slots'
    BY <1>11, <2>1, <2>2 DEF Slots
  <2>6. KeysApart' /\ AnswersMatch' /\ PostsAreSpaced'
    BY <1>1, <2>1, <2>2 DEF Data, KeysApart, AnswersMatch, PostsAreSpaced
  <2>7. Chain'
    BY <1>1, <2>1, <2>2 DEF Data, Chain, Follows
  <2>8. AnswersAreRecorded' /\ ReviewedBeforeShown'
    BY <1>1, <2>1, <2>2 DEF Data, AnswersAreRecorded, ReviewedBeforeShown
  <2>9. Data'
    BY <2>5, <2>6, <2>7, <2>8 DEF Data
  <2> QED BY <1>1, <1>10, <2>4, <2>9 DEF CommentsTypeOK
<1> QED BY <1>12, <1>13

-----------------------------------------------------------------------------
(* Moderating *)

(* The handler of one moderation moves.                                    *)
LEMMA ModerationMoves ==
    ASSUME Inv, NEW i \in Ids, NEW record,
           moderations' = [moderations EXCEPT ![i] = record], posts' = posts, UNCHANGED pdfVars,
           \/ Begin(i)
           \/ moderations[i].pc # "none" /\ (Finish(i) \/ UNCHANGED lessonVars),
           Retained \subseteq Retained', KeysStay, Stored \subseteq Stored',
           \A j \in Ids : Nameless(j) => Nameless(j)',
           record.pc # "none" => i \in flying' /\ record.comment \in Retained',
           record.pc \in {"batch", "reload"} => record.expected < record.result
    PROVE  Control' /\ LessonTypeOK'
<1>1. LessonTypeOK /\ CommentsTypeOK /\ issued \in Nat
  BY InvMeans
<1>2. moderations'[i] = record /\ \A j \in Ids : j # i => moderations'[j] = moderations[j]
  BY <1>1 DEF CommentsTypeOK
<1>3. moderations[i].pc # "none" => i <= issued /\ OthersIdle(i)
  BY <1>1 DEF Inv, Control, Unissued, ModerationsFly, Ids
<1>4. Begin(i) => i > issued
  BY <1>1 DEF Begin
<1>5. OthersIdle(i)
  BY <1>3, <1>4 DEF Inv, Control, Unissued
<1>6. Begin(i) \/ Pass(i) \/ (i <= issued /\ (Finish(i) \/ UNCHANGED lessonVars))
  BY <1>3
<1>7. UNCHANGED <<binds, pages, marks>> /\ OthersIdle(i)'
  BY <1>5 DEF pdfVars, OthersIdle
<1>8. posts'[i].pc = "none"
  BY <1>5 DEF OthersIdle
<1>9. \A j \in Stored' : j # i =>
         /\ j \in Stored
         /\ comments'[j].key = comments[j].key /\ comments'[j].token = comments[j].token
  BY DEF KeysStay
<1>10. Control'
  BY <1>2, <1>6, <1>7, <1>8, <1>9, Moving
<1>11. LessonTypeOK'
  BY <1>1, LessonStays
<1> QED BY <1>10, <1>11

(* A step of a moderation that writes nothing.                             *)
LEMMA ModerationKeeps ==
    ASSUME Inv, NEW i \in Ids, NEW record \in ModerationRecords \cup {NoCall},
           moderations' = [moderations EXCEPT ![i] = record], UNCHANGED pdfVars,
           UNCHANGED <<participants, comments, history, posts, answers>>,
           \/ Begin(i)
           \/ moderations[i].pc # "none" /\ (Finish(i) \/ UNCHANGED lessonVars),
           record.pc # "none" => i \in flying' /\ record.comment \in Retained,
           record.pc \in {"batch", "reload"} => record.expected < record.result
    PROVE  CommentsTypeOK' /\ Control' /\ Data'
<1>1. CommentsTypeOK /\ Data
  BY InvMeans
<1>2. Stored' = Stored /\ Retained' = Retained /\ KeysStay
  BY SameComments
<1>3. \A j \in Ids : Nameless(j) => Nameless(j)'
  BY <1>2 DEF Nameless
<1>4. Control' /\ LessonTypeOK'
  BY <1>2, <1>3, ModerationMoves
<1>5. moderations' \in [Ids -> ModerationRecords \cup {NoCall}]
  BY <1>1 DEF CommentsTypeOK
<1> QED BY <1>1, <1>4, <1>5, DataStays DEF CommentsTypeOK

LEMMA StartsModeration == ASSUME Inv, NEW i \in Ids, StartModeration(i), UNCHANGED pdfVars
                          PROVE  CommentsTypeOK' /\ Control' /\ Data'
<1>1. CommentsTypeOK /\ Begin(i) /\ UNCHANGED <<participants, comments, history, posts, answers>>
  BY InvMeans DEF StartModeration
<1>2. PICK c \in Retained, action \in Actions :
        moderations' = [moderations EXCEPT ![i] =
            [pc |-> "load", comment |-> c, action |-> action, from |-> "pending",
             to |-> "pending", expected |-> comments[c].version, result |-> 0]]
  BY DEF StartModeration
<1> DEFINE record == [pc |-> "load", comment |-> c, action |-> action, from |-> "pending",
                      to |-> "pending", expected |-> comments[c].version, result |-> 0]
<1>3. c \in Stored /\ c \in Ids
  BY DEF Retained, Stored
<1>4. comments[c].version \in 1..MaxVersion /\ MaxVersion \in Nat
  BY <1>1, <1>3, StoredFields, CommentsAssumption
<1>5. record \in ModerationRecords
  BY <1>3, <1>4 DEF ModerationRecords, States
<1>6. record.pc = "load" /\ record.comment = c
  OBVIOUS
<1>7. i \in flying'
  BY <1>1 DEF Begin
<1>8. moderations' = [moderations EXCEPT ![i] = record]
  BY <1>2
<1> HIDE DEF record
<1> QED BY <1>1, <1>5, <1>6, <1>7, <1>8, ModerationKeeps

LEMMA EndsModeration ==
    ASSUME Inv, NEW i \in Ids, moderations[i].pc # "none", EndModeration(i), UNCHANGED pdfVars,
           UNCHANGED <<participants, comments, history, posts, answers>>
    PROVE  CommentsTypeOK' /\ Control' /\ Data'
<1>1. moderations' = [moderations EXCEPT ![i] = NoCall] /\ Finish(i)
  BY DEF EndModeration
<1>2. NoCall.pc = "none"
  BY DEF NoCall
<1> QED BY <1>1, <1>2, ModerationKeeps

LEMMA LoadsComment == ASSUME Inv, NEW i \in Ids, LoadComment(i), UNCHANGED pdfVars
                      PROVE  CommentsTypeOK' /\ Control' /\ Data'
<1> DEFINE m == moderations[i]
           row == comments[m.comment]
<1>1. /\ CommentsTypeOK /\ m.pc = "load"
      /\ UNCHANGED <<participants, comments, history, posts, answers>>
  BY InvMeans DEF LoadComment
<1>2. /\ m \in ModerationRecords /\ m.comment \in Ids /\ m.action \in Actions
      /\ m.expected \in 1..MaxVersion
  BY <1>1, ModerationFields
<1>3. m.comment \in Retained /\ i \in flying
  BY <1>1 DEF Inv, Control, ModerationsFly
<1>4. row.state \in States /\ row.version \in 1..MaxVersion /\ MaxVersion \in Nat
  BY <1>1, <1>3, StoredFields, CommentsAssumption DEF Retained
<1>5. ASSUME row.version = m.expected, NEW move \in Transitions, NEW v \in ResultVersions(row.version),
             moderations' = [moderations EXCEPT ![i] =
                [m EXCEPT !.pc = "batch", !.from = row.state, !.to = move[3], !.result = v]],
             UNCHANGED lessonVars
      PROVE  CommentsTypeOK' /\ Control' /\ Data'
  <2> DEFINE record == [m EXCEPT !.pc = "batch", !.from = row.state, !.to = move[3], !.result = v]
  <2>1. v \in 1..MaxVersion /\ m.expected < v
    BY <1>2, <1>4, <1>5 DEF ResultVersions
  <2>2. move[3] \in States
    BY DEF Transitions, States
  <2>3. record \in ModerationRecords /\ record.comment = m.comment
        /\ record.expected < record.result
    <3>1. record.comment = m.comment /\ record.expected = m.expected /\ record.result = v
      BY <1>2 DEF ModerationRecords
    <3>2. v \in 0..MaxVersion
      BY <1>4, <2>1
    <3>3. record \in ModerationRecords
      BY <1>2, <1>4, <2>2, <3>2 DEF ModerationRecords
    <3> QED BY <2>1, <3>1, <3>3
  <2>4. i \in flying'
    BY <1>3, <1>5 DEF lessonVars
  <2>5. moderations' = [moderations EXCEPT ![i] = record]
    BY <1>5
  <2> HIDE DEF record
  <2> QED BY <1>1, <1>3, <1>5, <2>3, <2>4, <2>5, ModerationKeeps
<1>6. CASE EndModeration(i)
  BY <1>1, <1>6, EndsModeration
<1> QED BY <1>5, <1>6 DEF LoadComment

(* The batch of moderateComment: the transition and its row together, or   *)
(* nothing.                                                                *)
LEMMA Moderates == ASSUME Inv, NEW i \in Ids, Moderate(i), UNCHANGED pdfVars
                   PROVE  CommentsTypeOK' /\ Control' /\ Data'
<1> DEFINE m == moderations[i]
           c == m.comment
           row == IF Updates(m)
                  THEN [comments[c] EXCEPT !.state = m.to, !.version = m.result]
                  ELSE comments[c]
<1>1. /\ CommentsTypeOK /\ Data /\ m.pc = "batch" /\ UNCHANGED <<participants, posts, answers>>
  BY InvMeans DEF Moderate
<1>2. /\ m \in ModerationRecords /\ c \in Ids /\ m.action \in Actions
      /\ m.from \in States /\ m.to \in States
      /\ m.expected \in 1..MaxVersion /\ m.result \in 0..MaxVersion /\ m.expected < m.result
  BY <1>1, ModerationFields DEF Inv, Control, ResultsLater
<1>3. c \in Retained /\ c \in Stored /\ i \in flying
  BY <1>1 DEF Inv, Control, ModerationsFly, Retained
<1>4. comments[c] \in CommentRows /\ comments[c].version \in 1..MaxVersion /\ MaxVersion \in Nat
  BY <1>1, <1>3, StoredFields, CommentsAssumption
<1>5. CASE Records(m, row) /\ AlreadyRecorded(m)
  <2>1. EndModeration(i) /\ UNCHANGED <<comments, history>>
    BY <1>5 DEF Moderate
  <2> QED BY <1>1, <2>1, EndsModeration
<1>6. CASE ~(Records(m, row) /\ AlreadyRecorded(m)) /\ ~Updates(m)
  <2>1. row = comments[c]
    BY <1>6
  <2>2. ~Records(m, row)
    <3>1. ASSUME Records(m, row) PROVE AlreadyRecorded(m)
      <4>1. comments[c].version = m.result
        BY <2>1, <3>1 DEF Records
      <4>2. comments[c].version # 1
        BY <1>2, <4>1
      <4>3. PICK r \in history : r.comment = c /\ r.result = comments[c].version
        BY <1>1, <1>3, <4>2 DEF Data, Chain
      <4> QED BY <4>1, <4>3 DEF AlreadyRecorded
    <3> HIDE DEF row
    <3> QED BY <1>6, <3>1
  <2>3. comments' = [comments EXCEPT ![c] = row] /\ history' = history /\ EndModeration(i)
    BY <1>6, <2>2 DEF Moderate
  <2>4. comments' = comments
    BY <1>1, <2>1, <2>3 DEF CommentsTypeOK
  <2> QED BY <1>1, <2>3, <2>4, EndsModeration
<1>7. CASE ~(Records(m, row) /\ AlreadyRecorded(m)) /\ Updates(m)
  <2> DEFINE record == [m EXCEPT !.pc = "reload"]
  <2>1. row = [comments[c] EXCEPT !.state = m.to, !.version = m.result]
    BY <1>7
  <2>2. /\ row \in CommentRows /\ row.state = m.to /\ row.version = m.result /\ row.state # "none"
        /\ row.key = comments[c].key /\ row.token = comments[c].token /\ row.at = comments[c].at
        /\ row.reviewed = comments[c].reviewed /\ row.expired = comments[c].expired
    <3>1. m.to # "none" /\ m.result \in 1..MaxVersion
      BY <1>2, <1>4 DEF States
    <3>2. /\ row.state = m.to /\ row.version = m.result
          /\ row.key = comments[c].key /\ row.token = comments[c].token /\ row.at = comments[c].at
          /\ row.reviewed = comments[c].reviewed /\ row.expired = comments[c].expired
      BY <1>4, <2>1 DEF CommentRows
    <3>3. row \in CommentRows
      BY <1>2, <1>4, <2>1, <3>1 DEF CommentRows
    <3> QED BY <3>1, <3>2, <3>3
  <2>3. Records(m, row) /\ comments[c].state = m.from /\ comments[c].version = m.expected
    BY <1>3, <1>7, <2>2 DEF Records, Updates
  <2>4. /\ comments' = [comments EXCEPT ![c] = row] /\ history' = history \cup {ActionRow(i, m)}
        /\ moderations' = [moderations EXCEPT ![i] = record] /\ UNCHANGED lessonVars
    BY <1>7, <2>3 DEF Moderate
  <2>5. PICK action \in HistoryRows :
        /\ action = ActionRow(i, m) /\ action.comment = c /\ action.from = m.from /\ action.to = m.to
        /\ action.expected = m.expected /\ action.result = m.result
    <3> DEFINE new == ActionRow(i, m)
    <3>1. /\ new.comment = c /\ new.from = m.from /\ new.to = m.to
          /\ new.expected = m.expected /\ new.result = m.result
      BY DEF ActionRow
    <3>2. m.result \in 1..MaxVersion
      BY <1>2, <1>4
    <3>3. new \in HistoryRows
      BY <1>2, <3>2 DEF ActionRow, HistoryRows
    <3> QED BY <3>1, <3>3
  <2>6. record \in ModerationRecords /\ record.comment = c /\ record.pc = "reload"
        /\ record.expected < record.result
    BY <1>2 DEF ModerationRecords
  <2> HIDE DEF row, record
  <2>7. comments'[c] = row /\ \A j \in Ids : j # c => comments'[j] = comments[j]
    BY <1>1, <1>2, <2>4 DEF CommentsTypeOK
  <2>8. Stored' = Stored /\ \A j \in Stored : j \in Ids
    BY <1>3, <2>2, <2>7 DEF Stored
  <2>9. Retained' = Retained
    BY <2>2, <2>7, <2>8 DEF Retained
  <2>10. \A j \in Stored :
            /\ comments'[j].key = comments[j].key /\ comments'[j].token = comments[j].token
            /\ comments'[j].at = comments[j].at /\ comments'[j].reviewed = comments[j].reviewed
    BY <2>2, <2>7, <2>8
  <2>11. \A j \in Ids : Nameless(j) => Nameless(j)'
    BY <1>1, <1>3, <2>4, <2>5, <2>8 DEF Nameless
  <2>12. Control' /\ LessonTypeOK'
    <3>1. i \in flying' /\ m.pc # "none" /\ KeysStay
      BY <1>1, <1>3, <2>4, <2>8, <2>10 DEF lessonVars, KeysStay
    <3> QED BY <1>1, <1>3, <2>4, <2>6, <2>8, <2>9, <2>11, <3>1, ModerationMoves
  <2>13. CommentsTypeOK'
    BY <1>1, <2>2, <2>4, <2>5, <2>6, <2>12 DEF CommentsTypeOK
  <2>14. KeysApart' /\ AnswersMatch' /\ Slots' /\ PostsAreSpaced'
    BY <1>1, <2>8, <2>10 DEF Data, KeysApart, AnswersMatch, Slots, PostsAreSpaced
  <2>15. Chain'
    <3>1. \A r \in history :
             /\ r.comment \in Stored /\ r.expected < r.result
             /\ r.result <= comments[r.comment].version /\ Follows(r)
             /\ r.expected \in Nat /\ r.result \in Nat
      BY <1>1, HistoryFields DEF Data, Chain
    <3>2. \A r \in history : r.result <= comments'[r.comment].version
      <4>1. SUFFICES ASSUME NEW r \in history PROVE r.result <= comments'[r.comment].version
        OBVIOUS
      <4>2. CASE r.comment = c
        BY <1>2, <2>2, <2>3, <2>7, <3>1, <4>2
      <4>3. CASE r.comment # c
        BY <2>7, <2>8, <3>1, <4>3
      <4> QED BY <4>2, <4>3
    <3>3. \A r \in history : Follows(r)'
      BY <2>4, <3>1 DEF Follows
    <3>4. Follows(action)'
      <4>1. comments[c].version = 1
            \/ \E r \in history : r.comment = c /\ r.result = comments[c].version
                                     /\ r.to = comments[c].state
        BY <1>1, <1>3 DEF Data, Chain
      <4> QED BY <2>3, <2>4, <2>5, <4>1 DEF Follows
    <3>5. \A r \in history' :
             /\ r.comment \in Stored' /\ r.expected < r.result
             /\ r.result <= comments'[r.comment].version /\ Follows(r)'
      <4>1. action.result <= comments'[action.comment].version
        BY <1>2, <2>2, <2>5, <2>7
      <4> QED BY <1>2, <1>3, <2>4, <2>5, <2>8, <3>1, <3>2, <3>3, <3>4, <4>1
    <3>6. \A r \in history : r.comment = c => r.expected # m.expected
      <4>1. SUFFICES ASSUME NEW r \in history, r.comment = c PROVE r.expected # m.expected
        OBVIOUS
      <4>2. r.expected < r.result /\ r.result <= m.expected
        BY <2>3, <3>1, <4>1
      <4> QED BY <1>2, <3>1, <4>2
    <3>7. \A q, r \in history' :
             q.comment = r.comment /\ q.expected = r.expected => q = r
      BY <1>1, <2>4, <2>5, <3>6 DEF Data, Chain
    <3>8. \A j \in Stored' :
             \/ comments'[j].version = 1
             \/ \E r \in history' : r.comment = j /\ r.result = comments'[j].version
                                       /\ r.to = comments'[j].state
      <4>1. SUFFICES ASSUME NEW j \in Stored'
                     PROVE  \/ comments'[j].version = 1
                            \/ \E r \in history' : r.comment = j /\ r.result = comments'[j].version
                                                      /\ r.to = comments'[j].state
        OBVIOUS
      <4>2. CASE j = c
        BY <2>2, <2>4, <2>5, <2>7, <4>2
      <4>3. CASE j # c
        <5>1. comments'[j] = comments[j]
          BY <2>7, <2>8, <4>3
        <5> QED BY <1>1, <2>4, <2>8, <5>1 DEF Data, Chain
      <4> QED BY <4>2, <4>3
    <3> QED BY <3>5, <3>7, <3>8 DEF Chain
  <2>16. AnswersAreRecorded'
    BY <1>1, <2>4, <2>8 DEF Data, AnswersAreRecorded
  <2>17. ReviewedBeforeShown'
    <3>1. ASSUME NEW j \in Stored, comments'[j].reviewed, comments'[j].state = "visible"
          PROVE  \E r \in history' : r.comment = j /\ r.to = "visible"
      <4>1. CASE j = c
        BY <2>2, <2>4, <2>5, <2>7, <3>1, <4>1
      <4>2. CASE j # c
        <5>1. comments'[j] = comments[j]
          BY <2>7, <2>8, <4>2
        <5> QED BY <1>1, <2>4, <3>1, <5>1 DEF Data, ReviewedBeforeShown
      <4> QED BY <4>1, <4>2
    <3> QED BY <2>8, <3>1 DEF ReviewedBeforeShown
  <2> QED BY <2>12, <2>13, <2>14, <2>15, <2>16, <2>17 DEF Data
<1> QED BY <1>5, <1>6, <1>7

LEMMA AnswersModeration == ASSUME Inv, NEW i \in Ids, AnswerModerated(i), UNCHANGED pdfVars
                           PROVE  CommentsTypeOK' /\ Control' /\ Data'
<1> DEFINE m == moderations[i]
           c == m.comment
           answer == [comment |-> c, to |-> m.to, result |-> m.result]
<1>1. /\ CommentsTypeOK /\ Data /\ m.pc = "reload" /\ EndModeration(i)
      /\ UNCHANGED <<participants, comments, history, posts>>
  BY InvMeans DEF AnswerModerated
<1>2. CASE UNCHANGED answers
  BY <1>1, <1>2, EndsModeration
<1>3. CASE /\ comments[c].version = m.result /\ comments[c].state = m.to
           /\ answers' = [answers EXCEPT !.moderations = @ \cup {answer}]
  <2>1. /\ c \in Ids /\ m.to \in States /\ m.expected \in 1..MaxVersion
        /\ m.result \in 0..MaxVersion /\ m.expected < m.result /\ MaxVersion \in Nat
    BY <1>1, ModerationFields, CommentsAssumption DEF Inv, Control, ResultsLater
  <2>2. c \in Stored /\ comments[c].version # 1
    BY <1>1, <1>3, <2>1 DEF Inv, Control, ModerationsFly, Retained
  <2>3. \E r \in history : r.comment = c /\ r.result = m.result /\ r.to = m.to
    BY <1>1, <1>3, <2>2 DEF Data, Chain
  <2>4. answer \in ModerationAnswers
    BY <2>1 DEF ModerationAnswers
  <2>5. /\ answers' \in [posts: SUBSET PostAnswers, moderations: SUBSET ModerationAnswers]
        /\ answers'.posts = answers.posts
        /\ answers'.moderations = answers.moderations \cup {answer}
    BY <1>1, <1>3, <2>4 DEF CommentsTypeOK
  <2>6. answer.comment = c /\ answer.to = m.to /\ answer.result = m.result
    OBVIOUS
  <2>7. Stored' = Stored /\ Retained' = Retained /\ KeysStay
    BY <1>1, SameComments
  <2>8. \A j \in Ids : Nameless(j) => Nameless(j)'
    BY <1>1, <2>2, <2>5, <2>6, <2>7 DEF Nameless
  <2>9. moderations' = [moderations EXCEPT ![i] = NoCall] /\ Finish(i) /\ NoCall.pc = "none"
    BY <1>1 DEF EndModeration, NoCall
  <2>10. Control' /\ LessonTypeOK'
    BY <1>1, <2>7, <2>8, <2>9, ModerationMoves
  <2>11. CommentsTypeOK'
    BY <1>1, <2>5, <2>9, <2>10 DEF CommentsTypeOK
  <2>12. AnswersAreRecorded'
    BY <1>1, <2>3, <2>5, <2>6, <2>7 DEF Data, AnswersAreRecorded
  <2>13. KeysApart' /\ AnswersMatch' /\ Slots' /\ PostsAreSpaced' /\ ReviewedBeforeShown'
    BY <1>1, <2>5, <2>7 DEF Data, KeysApart, AnswersMatch, Slots, PostsAreSpaced, ReviewedBeforeShown
  <2>14. Chain'
    BY <1>1, <2>7 DEF Data, Chain, Follows
  <2> QED BY <2>10, <2>11, <2>12, <2>13, <2>14 DEF Data
<1> QED BY <1>2, <1>3 DEF AnswerModerated

-----------------------------------------------------------------------------
(* The session, and the retention *)

(* No handler moves.                                                       *)
LEMMA NoneMoves ==
    ASSUME Inv, UNCHANGED <<posts, moderations, binds, pages, marks, issued, flying>>,
           Retained \subseteq Retained' \/ flying = {}, KeysStay,
           \A j \in Ids : Nameless(j) => Nameless(j)'
    PROVE  Control'
<1>1. \A j \in Ids : OthersIdle(j)' <=> OthersIdle(j)
  BY DEF OthersIdle
<1>2. Unissued'
  BY <1>1 DEF Inv, Control, Unissued
<1>3. ModerationsFly'
  BY <1>1 DEF Inv, Control, ModerationsFly
<1>4. NotYet' /\ Own' /\ ResultsLater'
  BY DEF Inv, Control, NotYet, Own, ResultsLater, KeysStay
<1> QED BY <1>2, <1>3, <1>4 DEF Control

LEMMA CommentsStand ==
    ASSUME Inv, UNCHANGED commentVars, UNCHANGED <<binds, pages, marks, issued, flying>>,
           LessonTypeOK'
    PROVE  CommentsTypeOK' /\ Control' /\ Data'
<1>1. Stored' = Stored /\ Retained' = Retained /\ KeysStay
  BY SameComments DEF commentVars
<1>2. \A j \in Ids : Nameless(j) => Nameless(j)'
  BY <1>1 DEF Nameless, commentVars
<1>3. Control'
  BY <1>1, <1>2, NoneMoves DEF commentVars
<1>4. CommentsTypeOK' /\ Data'
  BY InvMeans, DataStays DEF CommentsTypeOK, commentVars
<1> QED BY <1>3, <1>4

LEMMA Expires == ASSUME Inv, NEW c \in Ids, Expire(c), UNCHANGED pdfVars
                 PROVE  CommentsTypeOK' /\ Control' /\ Data'
<1> DEFINE row == [comments[c] EXCEPT !.expired = TRUE]
<1>1. /\ CommentsTypeOK /\ Data /\ LessonTypeOK /\ c \in Retained /\ c \in Stored /\ flying = {}
      /\ UNCHANGED <<issued, flying, participants, history, posts, moderations, answers>>
      /\ LessonTypeOK'
  BY InvMeans, BoundsAssumption DEF Expire, Retained, LessonTypeOK
<1>2. comments' = [comments EXCEPT ![c] = row]
  BY DEF Expire
<1>3. comments'[c] = row /\ \A j \in Ids : j # c => comments'[j] = comments[j]
  BY <1>1, <1>2 DEF CommentsTypeOK
<1>4. comments[c] \in CommentRows
  BY <1>1, StoredFields
<1>5. /\ row \in CommentRows /\ row.state = comments[c].state /\ row.version = comments[c].version
      /\ row.key = comments[c].key /\ row.token = comments[c].token /\ row.at = comments[c].at
      /\ row.reviewed = comments[c].reviewed
  BY <1>4 DEF CommentRows
<1> HIDE DEF row
<1>6. Stored' = Stored /\ \A j \in Stored : j \in Ids
  BY <1>1, <1>3, <1>5 DEF Stored
<1>7. \A j \in Stored :
         /\ comments'[j].key = comments[j].key /\ comments'[j].token = comments[j].token
         /\ comments'[j].at = comments[j].at /\ comments'[j].reviewed = comments[j].reviewed
         /\ comments'[j].state = comments[j].state /\ comments'[j].version = comments[j].version
  BY <1>3, <1>5, <1>6
<1>8. \A j \in Ids : Nameless(j) => Nameless(j)'
  BY <1>1, <1>6 DEF Nameless
<1>9. Control'
  BY <1>1, <1>6, <1>7, <1>8, NoneMoves DEF KeysStay, pdfVars
<1>10. CommentsTypeOK'
  BY <1>1, <1>2, <1>5 DEF CommentsTypeOK
<1>11. KeysApart' /\ AnswersMatch' /\ Slots' /\ PostsAreSpaced'
  BY <1>1, <1>6, <1>7 DEF Data, KeysApart, AnswersMatch, Slots, PostsAreSpaced
<1>12. Chain'
  BY <1>1, <1>6, <1>7 DEF Data, Chain, Follows
<1>13. AnswersAreRecorded' /\ ReviewedBeforeShown'
  BY <1>1, <1>6, <1>7 DEF Data, AnswersAreRecorded, ReviewedBeforeShown
<1> QED BY <1>9, <1>10, <1>11, <1>12, <1>13 DEF Data

LEMMA RunsRetention == ASSUME Inv, RunRetention PROVE CommentsTypeOK' /\ Control' /\ Data'
<1> DEFINE left == Left(KeptBySignals)
<1>1. /\ CommentsTypeOK /\ Data /\ LessonTypeOK /\ Purge(Gone)
      /\ participants' = [token \in Tokens |->
                            IF token \in left THEN NoParticipant ELSE participants[token]]
      /\ UNCHANGED <<lessonVars, posts, moderations, answers, binds, pages, marks>>
  BY InvMeans DEF RunRetention, Retention
<1>2. Gone \cap Retained = {} /\ Stored \ Gone = Retained
  BY DEF Gone, Retained
<1>3. /\ Stored' = Stored \ Gone /\ Retained' = Retained
      /\ \A c \in Stored' : comments'[c] = comments[c]
      /\ comments' \in [Ids -> CommentRows \cup {NoComment}]
      /\ history' \subseteq HistoryRows
      /\ \A j \in Ids : Nameless(j) => Nameless(j)'
  BY <1>1, <1>2, Purged
<1>4. \A c \in Stored' : participants'[comments[c].token] = participants[comments[c].token]
  <2>1. SUFFICES ASSUME NEW c \in Stored'
                 PROVE  participants'[comments[c].token] = participants[comments[c].token]
    OBVIOUS
  <2>2. c \in Retained /\ c \in Stored
    BY <1>2, <1>3, <2>1
  <2>3. comments[c].token \in Tokens
    BY <1>1, <2>2, StoredFields
  <2>4. comments[c].token \notin left
    BY <2>2 DEF Left
  <2> HIDE DEF left
  <2> QED BY <1>1, <2>3, <2>4
<1>5. Data'
  BY <1>1, <1>2, <1>4, PurgedData
<1>6. Control'
  BY <1>1, <1>3, NoneMoves DEF KeysStay, lessonVars
<1>7. NoParticipant \in Participants
  BY BoundsAssumption, CommentsAssumption DEF NoParticipant, Participants
<1>8. CommentsTypeOK'
  <2>1. participants' \in [Tokens -> Participants]
    BY <1>1, <1>7 DEF CommentsTypeOK
  <2> QED BY <1>1, <1>3, <2>1, LessonStays DEF CommentsTypeOK
<1> QED BY <1>5, <1>6, <1>8

LEMMA Stepwise == ASSUME Inv, [Next]_vars PROVE Inv'
<1>1. PdfInv' /\ LessonTypeOK
  BY InvMeans, PdfStays
<1>2. CASE SessionStep
  <2>1. LessonTypeOK' /\ issued' = issued /\ flying' = flying
    BY <1>1, <1>2, SessionMoves DEF SessionStep
  <2> QED BY <1>1, <1>2, <2>1, CommentsStand DEF SessionStep, pdfVars, Inv
<1>3. CASE RetentionStep
  <2>1. CASE RunRetention
    BY <1>1, <2>1, RunsRetention DEF Inv
  <2>2. ASSUME PdfRetention(Linked), UNCHANGED commentVars
        PROVE  Inv'
    <3>1. UNCHANGED lessonVars /\ UNCHANGED <<binds, pages, marks>>
      BY <2>2 DEF PdfRetention
    <3>2. LessonTypeOK' /\ UNCHANGED <<issued, flying>>
      BY <1>1, <3>1, LessonStays DEF lessonVars
    <3> QED BY <1>1, <2>2, <3>1, <3>2, CommentsStand DEF Inv
  <2> QED BY <1>3, <2>1, <2>2 DEF RetentionStep
<1>4. ASSUME NEW c \in Ids, Expire(c), UNCHANGED pdfVars PROVE Inv'
  BY <1>1, <1>4, Expires DEF Inv
<1>5. ASSUME NEW i \in Ids, PostStep(i) PROVE Inv'
  BY <1>1, <1>5, StartsPost, ChecksKey, FreesKeyOf, Persists, AnswersStored,
     LosesPost DEF PostStep, Inv
<1>6. ASSUME NEW i \in Ids, ModerationStep(i) PROVE Inv'
  BY <1>1, <1>6, StartsModeration, LoadsComment, Moderates, AnswersModeration
  DEF ModerationStep, Inv
<1>7. ASSUME NEW i \in Ids, PdfStep(i) PROVE Inv'
  BY <1>1, <1>7, PdfStepsKeep DEF PdfStep, Inv
<1>8. ASSUME NEW i \in Ids, MarkWithParticipant(i) PROVE Inv'
  BY <1>1, <1>8, MarksKeep DEF Inv
<1>9. CASE UNCHANGED vars
  <2>1. UNCHANGED <<lessonVars, commentVars, pdfVars>>
    BY <1>9 DEF vars
  <2>2. LessonTypeOK' /\ UNCHANGED <<issued, flying, binds, pages, marks>>
    BY <1>1, <2>1, LessonStays DEF lessonVars, pdfVars
  <2> QED BY <1>1, <2>1, <2>2, CommentsStand DEF Inv
<1> QED BY <1>2, <1>3, <1>4, <1>5, <1>6, <1>7, <1>8, <1>9 DEF Next

LEMMA Beginning == ASSUME Init PROVE Inv
<1>1. PdfInv
  BY PdfBegins
<1>2. LessonInit /\ CommentsInit /\ PdfInit /\ LessonTypeOK
  BY <1>1 DEF Init, PdfInv, PdfTypeOK
<1>3. \A c \in Ids : comments[c] = NoComment /\ posts[c] = NoCall /\ moderations[c] = NoCall
  BY <1>2 DEF CommentsInit
<1>4. NoCall.pc = "none" /\ NoComment.state = "none"
  BY DEF NoCall, NoComment
<1>5. Stored = {} /\ history = {} /\ answers = [posts |-> {}, moderations |-> {}]
  BY <1>2, <1>3, <1>4 DEF Stored, CommentsInit
<1>6. NoParticipant \in Participants
  BY BoundsAssumption, CommentsAssumption DEF NoParticipant, Participants
<1>7. CommentsTypeOK
  BY <1>2, <1>5, <1>6 DEF CommentsTypeOK, CommentsInit
<1>8. \A i \in Ids : OthersIdle(i) /\ Nameless(i)
  <2>1. \A i \in Ids : binds[i] = Idle /\ pages[i] = Idle /\ marks[i] = Idle
    BY <1>2 DEF PdfInit
  <2> QED BY <1>3, <1>4, <1>5, <2>1, IdleIsNone DEF OthersIdle, Nameless
<1>9. Control
  BY <1>2, <1>3, <1>4, <1>8
  DEF Control, Unissued, ModerationsFly, NotYet, Own, ResultsLater, LessonInit
<1>10. Data
  BY <1>5 DEF Data, KeysApart, AnswersMatch, Slots, PostsAreSpaced, Chain, AnswersAreRecorded,
              ReviewedBeforeShown
<1> QED BY <1>1, <1>7, <1>9, <1>10 DEF Inv

LEMMA Invariance == Spec => []Inv
BY Beginning, Stepwise, PTL DEF Spec

-----------------------------------------------------------------------------
(* The theorems *)

(* Every variable of the classroom keeps its type.                         *)
THEOREM Typing == Spec => []TypeOK
<1>1. Inv => TypeOK
  BY DEF Inv, PdfInv, CommentsTypeOK, PdfTypeOK, TypeOK
<1> QED BY <1>1, Invariance, PTL

(* A post made again with its key, by any number of requests, is one       *)
(* comment (persistComment).                                               *)
THEOREM OneCommentOfAKey == Spec => []OneCommentPerKey
<1>1. ASSUME Inv, NEW a \in answers.posts, NEW b \in answers.posts,
             a.key = b.key, {a.comment, b.comment} \subseteq Stored
      PROVE  a = b
  <2>1. a.comment = b.comment /\ a.token = b.token
    BY <1>1 DEF Inv, Data, KeysApart, AnswersMatch
  <2>2. a \in PostAnswers /\ b \in PostAnswers
    BY <1>1 DEF Inv, CommentsTypeOK
  <2> QED BY <1>1, <2>1, <2>2 DEF PostAnswers
<1>2. Inv => OneCommentPerKey
  BY <1>1 DEF OneCommentPerKey
<1> QED BY <1>2, Invariance, PTL

(* The comments of a participant are an interval apart, in whatever order  *)
(* the batches of its requests run.                                        *)
THEOREM PostsKeepTheInterval == Spec => []PostsAreSpaced
<1>1. Inv => PostsAreSpaced
  BY DEF Inv, Data
<1> QED BY <1>1, Invariance, PTL

(* No batch stores a comment while posting is closed.                      *)
THEOREM NoPostWhenClosed == Spec => NoCommentWhenClosed
<1>1. ASSUME Inv, [Next]_vars, NEW c \in Ids,
             comments'[c].state # "none", comments[c].state = "none"
      PROVE  Open
  <2>1. CommentsTypeOK
    BY <1>1, InvMeans
  <2>2. comments' # comments /\ ~(\E gone : Purge(gone))
    <3>1. ASSUME NEW gone, Purge(gone) PROVE FALSE
      BY <1>1, <3>1 DEF Purge, NoComment
    <3> QED BY <1>1, <3>1
  <2>3. ASSUME NEW i \in Ids, Persist(i, PageLink) PROVE Open
    BY <2>2, <2>3 DEF Persist, Claims
  <2>4. ASSUME NEW i \in Ids, Moderate(i) PROVE FALSE
    <3> DEFINE m == moderations[i]
    <3>1. m.comment \in Stored /\ m.comment \in Ids
      BY <1>1, <2>1, <2>4, ModerationFields DEF Moderate, Inv, Control, ModerationsFly, Retained
    <3>2. c # m.comment
      BY <1>1, <3>1 DEF Stored
    <3>3. \E row : comments' = [comments EXCEPT ![m.comment] = row]
      BY <2>2, <2>4 DEF Moderate
    <3> QED BY <1>1, <2>1, <3>2, <3>3 DEF CommentsTypeOK
  <2>5. ASSUME NEW d \in Ids, Expire(d) PROVE FALSE
    <3>1. d \in Stored
      BY <2>5 DEF Expire, Retained
    <3>2. c # d
      BY <1>1, <3>1 DEF Stored
    <3> QED BY <1>1, <2>1, <2>5, <3>2 DEF Expire, CommentsTypeOK
  <2>6. ~SessionStep /\ ~RetentionStep /\ ~UNCHANGED vars
    BY <2>2 DEF SessionStep, RetentionStep, RunRetention, Retention, vars, commentVars
  <2>7. \A i \in Ids : ~PdfStep(i) /\ ~MarkWithParticipant(i)
    BY <2>2 DEF PdfStep, MarkWithParticipant, commentVars
  <2>8. ASSUME NEW i \in Ids, PostStep(i) PROVE Open
    BY <2>2, <2>3, <2>8 DEF PostStep, StartPost, CheckKey, FreeKey, AnswerStored, LosePost
  <2>9. ASSUME NEW i \in Ids, ModerationStep(i) PROVE FALSE
    BY <2>2, <2>4, <2>9 DEF ModerationStep, StartModeration, LoadComment, AnswerModerated
  <2> QED BY <1>1, <2>5, <2>6, <2>7, <2>8, <2>9 DEF Next
<1>2. Inv /\ [Next]_vars =>
        [\A c \in Ids : comments'[c].state # "none" /\ comments[c].state = "none" => Open]_vars
  BY <1>1
<1> QED BY <1>2, Invariance, PTL DEF Spec, NoCommentWhenClosed

(* What was stored for review is shown only by a transition on record.     *)
THEOREM ReviewComesFirst == Spec => []ReviewedBeforeShown
<1>1. Inv => ReviewedBeforeShown
  BY DEF Inv, Data
<1> QED BY <1>1, Invariance, PTL

(* Moderations of one comment, however many at once, leave one chain of    *)
(* rows that ends with the comment as stored (moderateComment).            *)
THEOREM ModerationsChain == Spec => []HistoryIsChain
<1>1. ASSUME Inv, NEW c \in Stored
      PROVE  LET rows == {row \in history : row.comment = c}
             IN  /\ \A row \in rows :
                     /\ row.expected < row.result
                     /\ row.expected = 1
                        \/ \E q \in rows : q.result = row.expected /\ q.to = row.from
                     /\ \A q \in rows \ {row} : q.expected # row.expected
                     /\ \A q \in rows : q.result <= comments[c].version
                 /\ \/ comments[c].version = 1
                    \/ \E row \in rows : row.result = comments[c].version
                                            /\ row.to = comments[c].state
  BY <1>1 DEF Inv, Data, Chain, Follows
<1>2. Inv => HistoryIsChain
  BY <1>1 DEF HistoryIsChain
<1> QED BY <1>2, Invariance, PTL

(* A transition a teacher was told of is on record.                        *)
THEOREM ToldIsRecorded == Spec => []AnswersAreRecorded
<1>1. Inv => AnswersAreRecorded
  BY DEF Inv, Data
<1> QED BY <1>1, Invariance, PTL

(* The retention leaves the rows of participants alone that comments or    *)
(* understanding signals refer to (runCommentRetention).                   *)
THEOREM NoRowIsOrphaned == Spec => ParticipantsOutliveTheirRows
<1>1. ASSUME Inv, [Next]_vars, NEW token \in Tokens,
             participants[token].here, ~participants'[token].here
      PROVE  /\ \A s \in signals : s.student # token
             /\ \A c \in Retained : comments[c].token # token
  <2>1. CommentsTypeOK /\ participants' # participants
    BY <1>1, InvMeans
  <2>2. ASSUME NEW i \in Ids, Persist(i, PageLink) PROVE FALSE
    BY <1>1, <2>1, <2>2 DEF Persist, CommentsTypeOK
  <2>3. ASSUME NEW i \in Ids, MarkWithParticipant(i) PROVE FALSE
    BY <1>1, <2>1, <2>3 DEF MarkWithParticipant, CommentsTypeOK
  <2>4. CASE RunRetention
    <3>1. token \in Left(KeptBySignals)
      BY <1>1, <2>4 DEF RunRetention, Retention
    <3> QED BY <3>1 DEF Left, KeptBySignals
  <2>5. ~SessionStep /\ ~UNCHANGED vars /\ (RetentionStep => RunRetention)
    BY <2>1 DEF SessionStep, RetentionStep, vars, commentVars
  <2>6. \A c \in Ids : ~Expire(c)
    BY <2>1 DEF Expire
  <2>7. \A i \in Ids : ~PostStep(i)
    BY <2>1, <2>2 DEF PostStep, StartPost, CheckKey, FreeKey, AnswerStored, LosePost
  <2>8. \A i \in Ids : ~ModerationStep(i)
    BY <2>1 DEF ModerationStep, StartModeration, LoadComment, Moderate, AnswerModerated
  <2>9. \A i \in Ids : ~PdfStep(i)
    BY <2>1 DEF PdfStep, commentVars
  <2> QED BY <1>1, <2>3, <2>4, <2>5, <2>6, <2>7, <2>8, <2>9 DEF Next
<1>2. Inv /\ [Next]_vars =>
        [\A token \in Tokens :
            participants[token].here /\ ~participants'[token].here
                => /\ \A s \in signals : s.student # token
                   /\ \A c \in Retained : comments[c].token # token]_vars
  BY <1>1
<1> QED BY <1>2, Invariance, PTL DEF Spec, ParticipantsOutliveTheirRows

-----------------------------------------------------------------------------
(* The board *)

(* A moderation on its way to the batch is a move of the table that        *)
(* nextModerationState reads.                                              *)
OnMove ==
    \A i \in Ids : moderations[i].pc = "batch" =>
        <<moderations[i].from, moderations[i].action, moderations[i].to>> \in Transitions

LEMMA MovesStay == ASSUME Inv, OnMove, [Next]_vars PROVE OnMove'
<1>1. CommentsTypeOK
  BY InvMeans
<1>2. CASE UNCHANGED moderations
  BY <1>2 DEF OnMove
<1>3. ASSUME NEW i \in Ids, NEW record, moderations' = [moderations EXCEPT ![i] = record],
             record.pc # "batch"
      PROVE  OnMove'
  <2>1. moderations'[i] = record /\ \A j \in Ids : j # i => moderations'[j] = moderations[j]
    BY <1>1, <1>3 DEF CommentsTypeOK
  <2> QED BY <1>3, <2>1 DEF OnMove
<1>4. ASSUME NEW i \in Ids, EndModeration(i) PROVE OnMove'
  <2>1. NoCall.pc # "batch"
    BY DEF NoCall
  <2> QED BY <1>3, <1>4, <2>1 DEF EndModeration
<1>5. ASSUME NEW i \in Ids, StartModeration(i) PROVE OnMove'
  <2>1. PICK c \in Retained, action \in Actions :
          moderations' = [moderations EXCEPT ![i] =
            [pc |-> "load", comment |-> c, action |-> action, from |-> "pending",
             to |-> "pending", expected |-> comments[c].version, result |-> 0]]
    BY <1>5 DEF StartModeration
  <2> DEFINE record == [pc |-> "load", comment |-> c, action |-> action, from |-> "pending",
                        to |-> "pending", expected |-> comments[c].version, result |-> 0]
  <2>2. moderations' = [moderations EXCEPT ![i] = record] /\ record.pc # "batch"
    BY <2>1
  <2> HIDE DEF record
  <2> QED BY <1>3, <2>2
<1>6. ASSUME NEW i \in Ids, LoadComment(i) PROVE OnMove'
  <2> DEFINE m == moderations[i]
             row == comments[m.comment]
  <2>1. m \in ModerationRecords
    BY <1>1, <1>6, ModerationFields DEF LoadComment
  <2>2. ASSUME NEW move \in Transitions, NEW v, move[1] = row.state, move[2] = m.action,
               moderations' = [moderations EXCEPT ![i] =
                   [m EXCEPT !.pc = "batch", !.from = row.state, !.to = move[3], !.result = v]]
        PROVE  OnMove'
    <3> DEFINE record == [m EXCEPT !.pc = "batch", !.from = row.state, !.to = move[3], !.result = v]
    <3>1. record.from = move[1] /\ record.action = move[2] /\ record.to = move[3]
      BY <2>1, <2>2 DEF ModerationRecords
    <3>2. move = <<move[1], move[2], move[3]>>
      BY DEF Transitions
    <3>3. moderations'[i] = record /\ \A j \in Ids : j # i => moderations'[j] = moderations[j]
      BY <1>1, <2>2 DEF CommentsTypeOK
    <3> HIDE DEF record
    <3> QED BY <3>1, <3>2, <3>3 DEF OnMove
  <2> QED BY <1>4, <1>6, <2>2 DEF LoadComment
<1>7. ASSUME NEW i \in Ids, Moderate(i) PROVE OnMove'
  <2>1. moderations[i] \in ModerationRecords
    BY <1>1, <1>7, ModerationFields DEF Moderate
  <2>2. [moderations[i] EXCEPT !.pc = "reload"].pc # "batch"
    BY <2>1 DEF ModerationRecords
  <2>3. EndModeration(i) \/ moderations' = [moderations EXCEPT ![i] = [moderations[i] EXCEPT !.pc = "reload"]]
    BY <1>7 DEF Moderate
  <2> QED BY <1>3, <1>4, <2>2, <2>3
<1>8. ASSUME NEW i \in Ids, ModerationStep(i) PROVE OnMove'
  BY <1>4, <1>5, <1>6, <1>7, <1>8 DEF ModerationStep, AnswerModerated
<1>9. CASE SessionStep \/ RetentionStep \/ UNCHANGED vars
  BY <1>2, <1>9 DEF SessionStep, RetentionStep, RunRetention, Retention, vars, commentVars
<1>10. ASSUME NEW i \in Ids, Expire(i) \/ PostStep(i) \/ PdfStep(i) \/ MarkWithParticipant(i)
       PROVE  OnMove'
  BY <1>2, <1>10 DEF Expire, PostStep, StartPost, CheckKey, FreeKey, Persist, AnswerStored,
                     LosePost, PdfStep, MarkWithParticipant, commentVars
<1> QED BY <1>8, <1>9, <1>10 DEF Next

LEMMA MovesBegin == ASSUME Init PROVE OnMove
<1>1. \A i \in Ids : moderations[i] = NoCall
  BY DEF Init, CommentsInit
<1> QED BY <1>1 DEF OnMove, NoCall

(* Whom the board remembers, and who has marked a page.                    *)
Remembered == {token \in Tokens : participants[token].here}
Marked == {s.student : s \in signals}

BoardStays == UNCHANGED <<comments, history, answers, Remembered, Marked, Open>>

(* Most steps the board does not see.                                      *)
LEMMA Unseen ==
    ASSUME UNCHANGED <<participants, comments, history, answers, signals, session>>
    PROVE  BoardStays
BY DEF BoardStays, Remembered, Marked, Open

(* A comment is answered.                                                  *)
LEMMA TellsPost ==
    ASSUME NEW i, NEW c \in Stored, AnswerPost(i, c),
           comments[c].key = posts[i].key, comments[c].token = posts[i].token,
           UNCHANGED <<participants, comments, history, signals>>
    PROVE  Board!AnswerPost
<1>1. answers' = [answers EXCEPT !.posts = @ \cup
           {[token |-> comments[c].token, key |-> comments[c].key, comment |-> c]}]
  BY DEF AnswerPost
<1>2. UNCHANGED <<Remembered, Marked, Open>>
  BY DEF Remembered, Marked, Open, AnswerPost, EndPost, Finish
<1> QED BY <1>1, <1>2 DEF Board!AnswerPost, Board!OnBoard, Stored, Remembered, Marked

(* Expired comments go, and students without a comment or a mark.          *)
LEMMA Forgets ==
    ASSUME NEW gone, Purge(gone), gone \subseteq Stored, gone \cap Retained = {},
           UNCHANGED <<answers, Marked, session>>,
           Remembered' \subseteq Remembered,
           \A s \in Remembered \ Remembered' :
               s \notin Marked /\ \A c \in Stored \ gone : comments[c].token # s
    PROVE  Board!Forget
<1>1. gone \in SUBSET {c \in Board!OnBoard : comments[c].expired}
  <2>1. ASSUME NEW c \in gone PROVE c \in Stored /\ comments[c].expired
    BY <2>1 DEF Retained
  <2> QED BY <2>1 DEF Board!OnBoard, Stored
<1>2. /\ comments' = [c \in Ids |-> IF c \in gone THEN [state |-> "none"] ELSE comments[c]]
      /\ history' = {row \in history : row.comment \notin gone}
  BY DEF Purge, NoComment
<1>3. Board!OnBoard = Stored /\ UNCHANGED Open
  BY DEF Board!OnBoard, Stored, Open
<1> QED BY <1>1, <1>2, <1>3 DEF Board!Forget, Remembered, Marked

LEMMA Settles ==
    ASSUME NEW i, NEW c \in WithKey(posts[i].key) \cap Retained,
           IF comments[c].token = posts[i].token THEN AnswerPost(i, c)
           ELSE EndPost(i) /\ UNCHANGED answers,
           UNCHANGED <<participants, comments, history, signals>>
    PROVE  Board!AnswerPost \/ BoardStays
<1>1. c \in Stored /\ comments[c].key = posts[i].key
  BY DEF WithKey
<1>2. CASE comments[c].token = posts[i].token
  BY <1>1, <1>2, TellsPost
<1>3. CASE comments[c].token # posts[i].token
  BY <1>3, Unseen DEF EndPost, Finish
<1> QED BY <1>2, <1>3

LEMMA FreesKey ==
    ASSUME NEW gone, gone \subseteq Stored, gone \cap Retained = {}, Purge(gone),
           UNCHANGED <<participants, answers, signals, session>>
    PROVE  Board!Forget
<1>1. UNCHANGED <<Remembered, Marked>>
  BY DEF Remembered, Marked
<1> QED BY <1>1, Forgets

LEMMA KeysSeen ==
    ASSUME Inv, NEW i \in Ids, CheckKey(i) \/ FreeKey(i) \/ AnswerStored(i), UNCHANGED pdfVars
    PROVE  Board!Next \/ BoardStays
<1>1. UNCHANGED <<participants, signals>> /\ WithKey(posts[i].key) \subseteq Stored
  BY DEF CheckKey, FreeKey, AnswerStored, pdfVars, WithKey
<1>2. ASSUME NEW gone \in SUBSET WithKey(posts[i].key), gone \cap Retained = {}, Purge(gone),
             UNCHANGED answers, session' = session
      PROVE  Board!Next \/ BoardStays
  BY <1>1, <1>2, FreesKey DEF Board!Next
<1>3. ASSUME NEW c \in WithKey(posts[i].key) \cap Retained,
             IF comments[c].token = posts[i].token THEN AnswerPost(i, c)
             ELSE EndPost(i) /\ UNCHANGED answers,
             UNCHANGED <<comments, history>>
      PROVE  Board!Next \/ BoardStays
  BY <1>1, <1>3, Settles DEF Board!Next
<1>4. CASE /\ posts[i].pc = "answer" /\ i \in Stored /\ AnswerPost(i, i)
           /\ UNCHANGED <<comments, history>>
  <2>1. comments[i].key = posts[i].key /\ comments[i].token = posts[i].token
    BY <1>4 DEF Inv, Control, Own
  <2> QED BY <1>1, <1>4, <2>1, TellsPost DEF Board!Next
<1>5. CASE CheckKey(i)
  <2>1. CASE UNCHANGED <<lessonVars, answers>>
    BY <1>1, <1>5, <2>1, Unseen DEF CheckKey, lessonVars
  <2> QED BY <1>3, <1>5, <2>1 DEF CheckKey
<1>6. CASE FreeKey(i)
  BY <1>2, <1>6 DEF FreeKey, lessonVars
<1>7. CASE AnswerStored(i)
  BY <1>2, <1>3, <1>4, <1>7 DEF AnswerStored, EndPost, Finish
<1> QED BY <1>5, <1>6, <1>7

(* The batch of persistComment.                                            *)
LEMMA PostsOnBoard ==
    ASSUME Inv, NEW i \in Ids, Persist(i, PageLink), UNCHANGED pdfVars
    PROVE  Board!Next \/ BoardStays
<1> DEFINE post == posts[i]
           token == post.token
           row == IF participants[token].here \/ ~Open
                  THEN participants[token]
                  ELSE [here |-> TRUE, claim |-> 0, next |-> post.at]
           claimed == [here |-> TRUE, claim |-> i, next |-> post.at + Interval]
           taken == IF Claims(row, post.at) THEN claimed ELSE row
           new == NewComment(post, PageLink)
<1>1. /\ CommentsTypeOK /\ Data /\ post.pc = "batch"
      /\ UNCHANGED <<lessonVars, history, answers, signals>>
  BY InvMeans DEF Persist, pdfVars
<1>2. /\ participants' = [participants EXCEPT ![token] = taken]
      /\ comments' = IF Claims(row, post.at) /\ ~Taken(post.key)
                     THEN [comments EXCEPT ![i] = new] ELSE comments
  BY DEF Persist
<1>3. token \in Tokens /\ post.at \in 0..MaxNow /\ MaxNow \in Nat
      /\ participants[token].next \in 0..MaxNow + Interval /\ participants[token].here \in BOOLEAN
  BY <1>1, PostFields, ParticipantFields, BoundsAssumption
<1>4. /\ new.state = (IF new.reviewed THEN "pending" ELSE "visible") /\ new.version = 1
      /\ new.key = post.key /\ new.token = token /\ new.at = post.at /\ new.expired = FALSE
  BY DEF NewComment, NeedsReview
<1>5. /\ Claims(row, post.at) => /\ Open /\ taken.here
                                 /\ participants[token].here => participants[token].next <= post.at
      /\ participants[token].here => taken.here
      /\ taken.here \in BOOLEAN
  BY <1>3 DEF Claims
<1>6. UNCHANGED <<Marked, Open>>
  BY <1>1 DEF Marked, Open, lessonVars
<1> HIDE DEF new, claimed, row, taken
<1>7. /\ participants'[token] = taken
      /\ \A s \in Tokens : s # token => participants'[s] = participants[s]
  BY <1>1, <1>2, <1>3 DEF CommentsTypeOK
<1>8. taken.here => Remembered' = Remembered \cup {token}
  BY <1>3, <1>7 DEF Remembered
<1>9. ~taken.here => Remembered' = Remembered
  BY <1>3, <1>5, <1>7 DEF Remembered
<1>10. CASE Claims(row, post.at) /\ ~Taken(post.key)
  <2>1. comments' = [comments EXCEPT ![i] = new] /\ comments'[i] = new
    BY <1>1, <1>2, <1>10 DEF CommentsTypeOK
  <2>2. Nameless(i) /\ i \notin Stored
    BY <1>1 DEF Inv, Control, NotYet, Nameless
  <2>3. i \in Ids \ (Board!OnBoard \cup Board!Named)
    BY <2>2 DEF Board!OnBoard, Board!Named, Stored, Nameless
  <2>4. ASSUME NEW d \in Stored
        PROVE  /\ comments[d].key # new.key
               /\ comments[d].token = new.token => comments[d].at + Interval <= new.at
    <3>1. comments[d].key # new.key
      BY <1>4, <1>10 DEF Taken, WithKey
    <3>2. comments[d].token = token =>
             participants[token].here /\ comments[d].at + Interval <= participants[token].next
      BY <1>1 DEF Data, Slots
    <3>3. comments[d].at \in Nat /\ Interval \in Nat
      BY <1>1, StoredFields, BoundsAssumption, CommentsAssumption
    <3> QED BY <1>3, <1>4, <1>5, <1>10, <3>1, <3>2, <3>3
  <2>5. Board!OnBoard = Stored
    BY DEF Board!OnBoard, Stored
  <2>6. new.state # "none"
    BY <1>4
  <2>7. Remembered' = Remembered \cup {new.token}
    BY <1>4, <1>5, <1>8, <1>10
  <2> HIDE DEF post
  <2>8. Board!Post
    <3> DEFINE stored == comments'[i]
    <3>1. /\ stored.state # "none" /\ stored.version = 1 /\ ~stored.expired
          /\ stored.state = (IF stored.reviewed THEN "pending" ELSE "visible")
          /\ \A d \in Board!OnBoard :
                /\ comments[d].key # stored.key
                /\ comments[d].token = stored.token => comments[d].at + Interval <= stored.at
      BY <1>4, <2>1, <2>4, <2>5, <2>6
    <3>2. /\ comments' = [comments EXCEPT ![i] = stored]
          /\ Remembered' = Remembered \cup {stored.token}
      BY <2>1, <2>7
    <3>3. Open /\ UNCHANGED <<history, answers, Marked, Open>>
      BY <1>1, <1>5, <1>6, <1>10
    <3> QED BY <2>3, <3>1, <3>2, <3>3 DEF Board!Post, Remembered, Marked
  <2> QED BY <2>8 DEF Board!Next
<1>11. CASE ~(Claims(row, post.at) /\ ~Taken(post.key))
  <2>1. comments' = comments
    BY <1>2, <1>11
  <2>2. CASE taken.here
    <3>1. token \in Students
      BY <1>3, MeetingAssumption
    <3>2. Board!Remember
      BY <1>1, <1>6, <1>8, <2>1, <2>2, <3>1 DEF Board!Remember, Remembered, Marked
    <3> QED BY <3>2 DEF Board!Next
  <2>3. CASE ~taken.here
    BY <1>1, <1>6, <1>9, <2>1, <2>3 DEF BoardStays
  <2> QED BY <2>2, <2>3
<1> QED BY <1>10, <1>11

(* The batch of moderateComment.                                           *)
LEMMA ModeratesOnBoard ==
    ASSUME Inv, OnMove, NEW i \in Ids, Moderate(i), UNCHANGED pdfVars
    PROVE  Board!Next \/ BoardStays
<1> DEFINE m == moderations[i]
           c == m.comment
           row == IF Updates(m)
                  THEN [comments[c] EXCEPT !.state = m.to, !.version = m.result]
                  ELSE comments[c]
<1>1. /\ CommentsTypeOK /\ Data /\ m.pc = "batch"
      /\ UNCHANGED <<participants, answers, signals>>
  BY InvMeans DEF Moderate, pdfVars
<1>2. UNCHANGED session
  BY DEF Moderate, EndModeration, Finish, lessonVars
<1>3. /\ m \in ModerationRecords /\ c \in Ids /\ m.from \in States /\ m.to \in States
      /\ m.expected \in 1..MaxVersion /\ m.result \in 0..MaxVersion /\ m.expected < m.result
  BY <1>1, ModerationFields DEF Inv, Control, ResultsLater
<1>4. c \in Retained /\ c \in Stored /\ comments[c] \in CommentRows
  BY <1>1, StoredFields DEF Inv, Control, ModerationsFly, Retained
<1>5. CASE UNCHANGED <<comments, history>>
  BY <1>1, <1>2, <1>5, Unseen
<1>6. CASE /\ ~(Records(m, row) /\ AlreadyRecorded(m)) /\ ~Updates(m)
           /\ comments' = [comments EXCEPT ![c] = row]
           /\ history' = IF Records(m, row) THEN history \cup {ActionRow(i, m)} ELSE history
  <2>1. row = comments[c]
    BY <1>6
  <2>2. ~Records(m, row)
    <3>1. ASSUME Records(m, row) PROVE AlreadyRecorded(m)
      <4>1. comments[c].version = m.result
        BY <2>1, <3>1 DEF Records
      <4>2. comments[c].version # 1
        BY <1>3, <4>1
      <4>3. PICK r \in history : r.comment = c /\ r.result = comments[c].version
        BY <1>1, <1>4, <4>2 DEF Data, Chain
      <4> QED BY <4>1, <4>3 DEF AlreadyRecorded
    <3> HIDE DEF row
    <3> QED BY <1>6, <3>1
  <2> HIDE DEF row
  <2>3. comments' = comments
    BY <1>1, <1>6, <2>1 DEF CommentsTypeOK
  <2> QED BY <1>5, <1>6, <2>2, <2>3
<1>7. CASE /\ Updates(m) /\ comments' = [comments EXCEPT ![c] = row]
           /\ history' = IF Records(m, row) THEN history \cup {ActionRow(i, m)} ELSE history
  <2>1. /\ row.state = m.to /\ row.version = m.result
        /\ comments[c].state = m.from /\ comments[c].version = m.expected
    BY <1>4, <1>7 DEF Updates, CommentRows
  <2>2. history' = history \cup {ActionRow(i, m)}
    BY <1>4, <1>7, <2>1 DEF Records
  <2>3. row = [[comments[c] EXCEPT !.state = m.to] EXCEPT !.version = m.result]
    BY <1>7
  <2> HIDE DEF row
  <2>4. comments'[c] = row /\ comments' = [comments EXCEPT ![c] = row]
    BY <1>1, <1>3, <1>7 DEF CommentsTypeOK
  <2> DEFINE move == <<m.from, m.action, m.to>>
  <2>5. move \in Transitions
    BY <1>1 DEF OnMove
  <2>6. move[1] = m.from /\ move[2] = m.action /\ move[3] = m.to
    OBVIOUS
  <2>7. ActionRow(i, m) = [id |-> i, comment |-> c, action |-> move[2], from |-> move[1],
                           to |-> move[3], expected |-> comments[c].version,
                           result |-> comments'[c].version]
    BY <2>1, <2>4, <2>6 DEF ActionRow
  <2>8. comments' = [comments EXCEPT ![c].state = move[3], ![c].version = comments'[c].version]
    <3>1. comments'[c].version = m.result
      BY <2>1, <2>4
    <3>2. [comments EXCEPT ![c].state = m.to, ![c].version = m.result]
             = [comments EXCEPT ![c] = [[comments[c] EXCEPT !.state = m.to] EXCEPT !.version = m.result]]
      BY <1>1, <1>3 DEF CommentsTypeOK
    <3> QED BY <2>3, <2>4, <2>6, <3>1, <3>2
  <2>9. /\ comments'[c].state # "none" /\ ~comments[c].expired /\ c \in Board!OnBoard
        /\ move[1] = comments[c].state /\ comments[c].version < comments'[c].version
    BY <1>3, <1>4, <2>1, <2>4, <2>6 DEF Retained, Stored, States, Board!OnBoard
  <2>10. UNCHANGED <<Remembered, Marked, Open>>
    BY <1>1, <1>2 DEF Remembered, Marked, Open
  <2> HIDE DEF m, c, move
  <2>11. Board!Moderate
    BY <1>1, <2>2, <2>5, <2>7, <2>8, <2>9, <2>10 DEF Board!Moderate, Remembered, Marked
  <2> QED BY <2>11 DEF Board!Next
<1> QED BY <1>5, <1>6, <1>7 DEF Moderate

LEMMA TellsModeration ==
    ASSUME Inv, NEW i \in Ids, AnswerModerated(i), UNCHANGED pdfVars
    PROVE  Board!Next \/ BoardStays
<1> DEFINE m == moderations[i]
           c == m.comment
<1>1. /\ m.pc = "reload" /\ UNCHANGED <<participants, comments, history, signals, session>>
  BY DEF AnswerModerated, EndModeration, Finish, pdfVars
<1>2. CASE UNCHANGED answers
  BY <1>1, <1>2, Unseen
<1>3. CASE /\ comments[c].version = m.result /\ comments[c].state = m.to
           /\ answers' = [answers EXCEPT !.moderations =
                    @ \cup {[comment |-> c, to |-> m.to, result |-> m.result]}]
  <2>1. c \in Board!OnBoard
    BY <1>1 DEF Inv, Control, ModerationsFly, Retained, Stored, Board!OnBoard
  <2>2. answers' = [answers EXCEPT !.moderations = @ \cup
            {[comment |-> c, to |-> comments[c].state, result |-> comments[c].version]}]
    BY <1>3
  <2>3. UNCHANGED <<Remembered, Marked, Open>>
    BY <1>1 DEF Remembered, Marked, Open
  <2> HIDE DEF m, c
  <2>4. Board!AnswerModeration
    BY <1>1, <2>1, <2>2, <2>3 DEF Board!AnswerModeration, Remembered, Marked
  <2> QED BY <2>4 DEF Board!Next
<1> QED BY <1>2, <1>3 DEF AnswerModerated

(* The participant's row of persistUnderstandingSignal, and the signal.    *)
LEMMA MarksOnBoard ==
    ASSUME Inv, NEW i \in Ids, MarkWithParticipant(i)
    PROVE  Board!Next \/ BoardStays
<1> DEFINE m == marks[i]
           s == m.student
<1>1. /\ CommentsTypeOK /\ PdfTypeOK /\ m.pc = "batch" /\ StoreMark(i)
      /\ UNCHANGED <<comments, history, answers, session>>
  BY InvMeans DEF MarkWithParticipant, StoreMark, EndMark, Finish
<1>2. s \in Tokens /\ s \in Students
  BY <1>1, MarkFields, MeetingAssumption DEF MarkRecords
<1>3. /\ ~Active => UNCHANGED <<participants, signals>>
      /\ Active => participants'[s].here
      /\ \A t \in Tokens : t # s => participants'[t] = participants[t]
  BY <1>1, <1>2 DEF MarkWithParticipant, StoreMark, CommentsTypeOK
<1>4. Active => Remembered' = Remembered \cup {s}
  BY <1>2, <1>3 DEF Remembered
<1>5. Marked' \in {Marked, Marked \cup {s}}
  <2>1. CASE signals' = signals
    BY <2>1 DEF Marked
  <2>2. CASE signals' = (signals \ Given(m)) \cup
                {[student |-> s, binding |-> m.seen.binding, page |-> m.seen.page, answer |-> m.answer]}
    <3> DEFINE given == [student |-> s, binding |-> m.seen.binding, page |-> m.seen.page,
                         answer |-> m.answer]
    <3>1. given.student = s /\ \A g \in Given(m) : g.student = s
      BY DEF Given
    <3>2. signals' = (signals \ Given(m)) \cup {given}
      BY <2>2
    <3> HIDE DEF given, s, m
    <3> QED BY <3>1, <3>2 DEF Marked
  <2> QED BY <1>1, <2>1, <2>2 DEF StoreMark
<1>6. UNCHANGED Open
  BY <1>1 DEF Open
<1>7. CASE ~Active
  BY <1>1, <1>3, <1>7, Unseen
<1>8. CASE Active
  <2> HIDE DEF s
  <2>1. Board!Remember
    BY <1>1, <1>2, <1>4, <1>5, <1>6, <1>8 DEF Board!Remember, Remembered, Marked
  <2> QED BY <2>1 DEF Board!Next
<1> QED BY <1>7, <1>8

(* runCommentRetention.                                                    *)
LEMMA RetentionForgets == ASSUME Inv, RunRetention PROVE Board!Forget
<1> DEFINE left == Left(KeptBySignals)
<1>1. /\ CommentsTypeOK /\ Purge(Gone) /\ UNCHANGED answers /\ UNCHANGED session
      /\ participants' = [token \in Tokens |->
                            IF token \in left THEN NoParticipant ELSE participants[token]]
      /\ signals' = {s \in signals : s.student \notin left}
  BY InvMeans DEF RunRetention, Retention, lessonVars
<1>2. Gone \subseteq Stored /\ Gone \cap Retained = {} /\ Stored \ Gone = Retained
  BY DEF Gone, Retained
<1>3. \A s \in left : s \notin Marked /\ \A c \in Retained : comments[c].token # s
  BY DEF Left, KeptBySignals, Marked
<1>4. left \subseteq Remembered /\ NoParticipant.here = FALSE
  BY DEF Left, Remembered, NoParticipant
<1> HIDE DEF left
<1>5. signals' = signals
  BY <1>1, <1>3 DEF Marked
<1>6. Remembered' = Remembered \ left
  BY <1>1, <1>4 DEF Remembered
<1> QED BY <1>1, <1>2, <1>3, <1>5, <1>6, Forgets DEF Marked

LEMMA ExpiresOnBoard ==
    ASSUME NEW c \in Ids, Expire(c), UNCHANGED pdfVars
    PROVE  Board!Expire
<1>1. c \in Board!OnBoard
  BY DEF Expire, Retained, Stored, Board!OnBoard
<1>2. UNCHANGED <<history, answers, Remembered, Marked, Open>>
  BY DEF Expire, lessonVars, pdfVars, Remembered, Marked, Open
<1>3. comments' = [comments EXCEPT ![c].expired = TRUE]
  BY DEF Expire
<1> QED BY <1>1, <1>2, <1>3 DEF Board!Expire, Remembered, Marked

LEMMA StepsOnBoard == ASSUME Inv, OnMove, [Next]_vars PROVE Board!Next \/ BoardStays
<1>1. CASE SessionStep
  <2>1. UNCHANGED <<comments, history, answers, Remembered, Marked>>
    BY <1>1 DEF SessionStep, commentVars, pdfVars, Remembered, Marked
  <2>2. Open \in BOOLEAN /\ Open' \in BOOLEAN
    BY DEF Open
  <2>3. CASE Open' = ~Open
    BY <2>1, <2>3 DEF Board!Next, Board!OpenOrClose, Remembered, Marked
  <2>4. CASE Open' = Open
    BY <2>1, <2>4 DEF BoardStays
  <2> QED BY <2>2, <2>3, <2>4
<1>2. CASE RunRetention
  BY <1>2, RetentionForgets DEF Board!Next
<1>3. ASSUME PdfRetention(Linked), UNCHANGED commentVars
      PROVE  Board!Next
  <2>1. UNCHANGED <<comments, history, answers, Remembered, Open>>
    BY <1>3 DEF PdfRetention, commentVars, lessonVars, Remembered, Open
  <2>2. Marked' \subseteq Marked
    BY <1>3 DEF PdfRetention, Marked
  <2> QED BY <2>1, <2>2 DEF Board!Next, Board!Unmark, Remembered, Marked
<1>4. ASSUME NEW c \in Ids, Expire(c), UNCHANGED pdfVars PROVE Board!Next
  BY <1>4, ExpiresOnBoard DEF Board!Next
<1>5. ASSUME NEW i \in Ids, PostStep(i) PROVE Board!Next \/ BoardStays
  <2>1. CASE StartPost(i) \/ LosePost(i)
    BY <1>5, <2>1, Unseen DEF PostStep, StartPost, Begin, LosePost, EndPost, Finish, pdfVars
  <2> QED BY <1>5, <2>1, KeysSeen, PostsOnBoard DEF PostStep
<1>6. ASSUME NEW i \in Ids, ModerationStep(i) PROVE Board!Next \/ BoardStays
  <2>1. CASE StartModeration(i) \/ LoadComment(i)
    BY <1>6, <2>1, Unseen
    DEF ModerationStep, StartModeration, Begin, LoadComment, EndModeration, Finish, lessonVars, pdfVars
  <2> QED BY <1>6, <2>1, ModeratesOnBoard, TellsModeration DEF ModerationStep
<1>7. ASSUME NEW i \in Ids, PdfStep(i) PROVE BoardStays
  <2>1. UNCHANGED signals
    BY <1>7 DEF PdfStep, StartBind, ReadPrevious, TakeSnapshot, ReadCurrent, Touch, Replace,
                Confirm, Rollback, LoseBind, TeacherSnapshot, StartPage, ReadPage, StayOnPage, TurnPage, StartMark, ReadMark
  <2>2. PdfTypeOK
    BY InvMeans
  <2>3. Begin(i) \/ Pass(i) \/ Finish(i) \/ UNCHANGED lessonVars
    BY <1>7, <2>2, PdfMoves
  <2>4. UNCHANGED session
    BY <2>3 DEF Begin, Pass, Finish, lessonVars
  <2> QED BY <1>7, <2>1, <2>4, Unseen DEF PdfStep, commentVars
<1>8. ASSUME NEW i \in Ids, MarkWithParticipant(i) PROVE Board!Next \/ BoardStays
  BY <1>8, MarksOnBoard
<1>9. CASE UNCHANGED vars
  BY <1>9, Unseen DEF vars, lessonVars, commentVars, pdfVars
<1> QED BY <1>1, <1>2, <1>3, <1>4, <1>5, <1>6, <1>7, <1>8, <1>9 DEF Next, RetentionStep

LEMMA BoardBegins == ASSUME Init PROVE Board!Init
<1>1. \A token \in Tokens : participants[token].here = FALSE
  BY DEF Init, CommentsInit, NoParticipant
<1>2. signals = {} /\ session = "open"
  BY DEF Init, PdfInit, LessonInit
<1> QED BY <1>1, <1>2 DEF Init, CommentsInit, NoComment, Board!Init, Open

(* Posts, moderations, their answers and repetitions, and the retention,   *)
(* in whatever order their database calls fall, come to the steps of       *)
(* CommentBoard, each of them at once (persistComment, moderateComment,    *)
(* runCommentRetention, persistUnderstandingSignal).                       *)
THEOREM RequestsActAtOnce == Spec => ImplementsCommentBoard
<1>1. Init => Board!Init
  BY BoardBegins
<1>2. Inv /\ OnMove /\ [Next]_vars =>
        [Board!Next]_<<comments, history, answers, {token \in Tokens : participants[token].here},
                       {s.student : s \in signals}, Open>>
  BY StepsOnBoard DEF BoardStays, Remembered, Marked
<1>3. Spec => [](Inv /\ OnMove)
  <2>1. Init => Inv /\ OnMove
    BY Beginning, MovesBegin
  <2>2. Inv /\ OnMove /\ [Next]_vars => (Inv /\ OnMove)'
    BY Stepwise, MovesStay
  <2> QED BY <2>1, <2>2, PTL DEF Spec
<1> QED BY <1>1, <1>2, <1>3, PTL DEF Spec, ImplementsCommentBoard, Board!Spec
=============================================================================
