---------------------------- MODULE Classroom -----------------------------
(***************************************************************************)
(* A live session's comments and its PDF together.  They meet in the batch *)
(* of persistComment, which links the comment to the page shown at that    *)
(* moment; in the participants' rows, which a post and an understanding    *)
(* signal both create; and in the retention, which may remove a            *)
(* participant only when neither needs the row any more.                   *)
(***************************************************************************)
EXTENDS Comments, PdfPages

ASSUME MeetingAssumption == Students = Tokens /\ Links = PageStates

vars == <<lessonVars, commentVars, pdfVars>>

Init == LessonInit /\ CommentsInit /\ PdfInit

-----------------------------------------------------------------------------
(* Mistake: the retention looks at comments only. *)
KeptByNothing == {}

(* The participants whom understanding_signals refers to.                  *)
KeptBySignals == {s.student : s \in signals}

(* Deleting a participant cascades to its signals.                         *)
RunRetention ==
    /\ Retention(KeptBySignals)
    /\ signals' = {s \in signals : s.student \notin Left(KeptBySignals)}
    /\ UNCHANGED <<bindings, state, events, snapshots, binds, pages, marks>>

(* The batch of persistUnderstandingSignal creates the participant's row   *)
(* while the session is active, whether or not the signal is stored.       *)
MarkWithParticipant(i) ==
    /\ StoreMark(i)
    /\ participants' = [participants EXCEPT ![marks[i].student] =
            IF @.here \/ ~Active THEN @ ELSE [here |-> TRUE, claim |-> 0, next |-> now]]
    /\ UNCHANGED <<comments, history, posts, moderations, answers>>

SessionStep == (ChangeSession \/ GrowOld \/ Tick) /\ UNCHANGED <<commentVars, pdfVars>>

PostStep(i) ==
    /\ \/ StartPost(i) \/ CheckKey(i) \/ FreeKey(i) \/ Persist(i, PageLink)
       \/ AnswerStored(i) \/ LosePost(i)
    /\ UNCHANGED pdfVars

ModerationStep(i) ==
    /\ StartModeration(i) \/ LoadComment(i) \/ Moderate(i) \/ AnswerModerated(i)
    /\ UNCHANGED pdfVars

PdfStep(i) ==
    /\ \/ StartBind(i) \/ ReadPrevious(i) \/ TakeSnapshot(i) \/ ReadCurrent(i)
       \/ Touch(i) \/ Replace(i) \/ Confirm(i) \/ Rollback(i) \/ LoseBind(i)
       \/ TeacherSnapshot(i)
       \/ StartPage(i) \/ ReadPage(i) \/ StayOnPage(i) \/ TurnPage(i)
       \/ StartMark(i) \/ ReadMark(i)
    /\ UNCHANGED commentVars

(* The bindings that comment_page_links refers to; a link goes with its    *)
(* comment.                                                                *)
Linked == {comments[c].link.binding : c \in Stored}

RetentionStep ==
    \/ RunRetention
    \/ PdfRetention(Linked) /\ UNCHANGED commentVars

Next ==
    \/ SessionStep
    \/ RetentionStep
    \/ \E c \in Ids : Expire(c) /\ UNCHANGED pdfVars
    \/ \E i \in Ids :
        \/ PostStep(i) \/ ModerationStep(i) \/ PdfStep(i)
        \/ MarkWithParticipant(i)

Spec == Init /\ [][Next]_vars
=============================================================================
