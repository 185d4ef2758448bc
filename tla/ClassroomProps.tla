-------------------------- MODULE ClassroomProps --------------------------
(* What the comments and the PDF of a live session promise. *)
EXTENDS Classroom

TypeOK ==
    /\ LessonTypeOK
    /\ participants \in [Tokens -> Participants]
    /\ comments \in [Ids -> CommentRows \cup {NoComment}]
    /\ history \subseteq HistoryRows
    /\ posts \in [Ids -> PostRecords \cup {NoCall}]
    /\ moderations \in [Ids -> ModerationRecords \cup {NoCall}]
    /\ answers.posts \subseteq PostAnswers
    /\ answers.moderations \subseteq ModerationAnswers
    /\ bindings \in [Ids -> Bindings \cup {NoBinding}]
    /\ state \in PageStates
    /\ events \subseteq Events
    /\ signals \subseteq Signals
    /\ snapshots \subseteq Snapshots
    /\ binds \in [Ids -> BindRecords \cup {Idle}]
    /\ pages \in [Ids -> PageRecords \cup {Idle}]
    /\ marks \in [Ids -> MarkRecords \cup {Idle}]

(* However often a post is made again with its key, and however the        *)
(* requests interleave, it becomes one comment: two answers of success to  *)
(* the same participant and key name the same comment, unless the earlier  *)
(* one has been purged since.                                              *)
OneCommentPerKey ==
    \A a, b \in answers.posts :
        a.key = b.key /\ {a.comment, b.comment} \subseteq Stored => a = b

(* Two comments of one participant are at least the interval apart, even   *)
(* when requests with different clocks overtake each other.                *)
PostsAreSpaced ==
    \A c, d \in Stored :
        c # d /\ comments[c].token = comments[d].token
            => comments[c].at + Interval <= comments[d].at
               \/ comments[d].at + Interval <= comments[c].at

(* No comment appears once the teacher has closed posting or ended the     *)
(* session, although the session was open when its request arrived.        *)
NoCommentWhenClosed ==
    [][\A c \in Ids : comments'[c].state # "none" /\ comments[c].state = "none" => Open]_vars

(* A comment that was stored for review is shown to the class only after a *)
(* teacher has let it through.                                             *)
ReviewedBeforeShown ==
    \A c \in Stored : comments[c].reviewed /\ comments[c].state = "visible"
        => \E row \in history : row.comment = c /\ row.to = "visible"

(* The moderation history of a comment is a chain without a fork or a gap: *)
(* each action starts where exactly one earlier action, or the post, has   *)
(* ended, and the last one is the comment as stored.                       *)
HistoryIsChain ==
    \A c \in Stored :
        LET rows == {row \in history : row.comment = c}
        IN  /\ \A row \in rows :
                /\ row.expected < row.result
                /\ row.expected = 1 \/ \E q \in rows : q.result = row.expected /\ q.to = row.from
                /\ \A q \in rows \ {row} : q.expected # row.expected
                /\ \A q \in rows : q.result <= comments[c].version
            /\ \/ comments[c].version = 1
               \/ \E row \in rows : row.result = comments[c].version /\ row.to = comments[c].state

(* What a teacher was told has happened to a comment is in its history.    *)
AnswersAreRecorded ==
    \A a \in answers.moderations :
        a.comment \in Stored
            => \E row \in history : row.comment = a.comment /\ row.to = a.to /\ row.result = a.result

(* The page state and the page events agree: for the active binding, the   *)
(* current page is that of its latest event, also after updates of several *)
(* viewers have crossed.  The analytics count comments by the former and   *)
(* the dwell time by the latter.  It holds until the session is old: the   *)
(* retention removes page events by their age, and may keep the state.     *)
PageOfLatestEvent ==
    Bound /\ session # "old" =>
        \E e \in events :
            /\ e.binding = state.binding /\ e.page = state.page /\ e.version <= state.version
            /\ \A f \in events : f.binding = e.binding => f.version <= e.version

(* A PDF is replaced only after its analytics have been put on record,     *)
(* unless two binds of the session have overlapped; and the record of a    *)
(* replaced PDF goes only with the retention, or by the failure of the     *)
(* bind that has made it: one that has replaced the PDF itself when no     *)
(* other overlapped it.                                                    *)
ReplacedIsOnRecord ==
    [][/\ \A i, b \in Ids :
            ~bindings[b].replaced /\ bindings'[b].replaced /\ binds[i].pc = "replace"
                    /\ binds'[i].pc # "replace" /\ binds[i].alone
                => \E snapshot \in snapshots : snapshot.binding = b
       /\ \A snapshot \in snapshots :
            session # "old" /\ bindings[snapshot.binding].replaced
                    /\ (\A q \in snapshots' : q.id # snapshot.id)
                => LET i == snapshot.id
                   IN  Binding(i) /\ (binds[i].alone => bindings[i] # NoBinding)]_vars

(* An automatic snapshot stands for a PDF that was replaced: a bind that   *)
(* fails after taking it leaves none behind, unless two binds have         *)
(* overlapped.  A snapshot is auto only while its bind may still roll it   *)
(* back, or has succeeded.                                                 *)
NoStraySnapshot ==
    [][\A i \in Ids :
        binds[i].pc # "none" /\ binds'[i].pc = "none" /\ binds[i].alone
            => \A snapshot \in snapshots' :
                    snapshot.id = i /\ snapshot.auto => bindings'[snapshot.binding].replaced]_vars

(* What docs/stage-08-precision-debug-report.md:31 has a replacement keep, *)
(* and a bind that fails behind its committed batch does not: the record   *)
(* of a replaced PDF goes only with the retention, binds that overlap      *)
(* aside.                                                                  *)
RecordsStand ==
    [][\A snapshot \in snapshots :
        session # "old" /\ bindings[snapshot.binding].replaced /\ binds[snapshot.id].alone
            => \E q \in snapshots' : q.id = snapshot.id]_vars

(* The retention removes a participant's row, and by cascade all that      *)
(* refers to it, only when no understanding signal and no comment that has *)
(* not expired refers to it.                                               *)
ParticipantsOutliveTheirRows ==
    [][\A token \in Tokens :
        participants[token].here /\ ~participants'[token].here
            => /\ \A s \in signals : s.student # token
               /\ \A c \in Retained : comments[c].token # token]_vars

(* The requests of students and teachers, however they interleave, are     *)
(* answered and repeated, and whatever is removed in between, come to one  *)
(* thing each that happens at once, and is answered as it happened.        *)
Board == INSTANCE CommentBoard WITH
    Moves <- Transitions, board <- comments, told <- answers,
    people <- {token \in Tokens : participants[token].here},
    marked <- {s.student : s \in signals}, open <- Open

ImplementsCommentBoard == Board!Spec
=============================================================================
