---------------------------- MODULE CommentBoard ----------------------------
(***************************************************************************)
(* What the comments of a session promise, with no request in flight, key  *)
(* lookup, slot or batch: posting, moderating, answering and forgetting    *)
(* each happen at once.  A post takes a key that no comment has, while     *)
(* posting is open and a while after the participant's comments so far; a  *)
(* moderation is a move from the state and version the comment has, and is *)
(* the one row of the history that starts there; whoever is answered is    *)
(* told what is so at that moment; only expired comments go, with their    *)
(* history; and a student who has a comment or a mark is remembered.       *)
(* Classroom implements this.                                              *)
(***************************************************************************)
EXTENDS Naturals

CONSTANTS
    Ids,        \* names of comments and of requests
    Students,
    Interval,   \* between two comments of one student
    Moves       \* of a moderation: state, action, state

VARIABLES
    board,      \* the comments
    history,    \* the moderations of the comments on the board
    told,       \* what was answered, to posts and to moderations
    people,     \* the students remembered
    marked,     \* those who have marked a page
    open        \* are posts taken?

OnBoard == {c \in Ids : board[c].state # "none"}

\* A name is used once.
Named == {a.comment : a \in told.posts \cup told.moderations \cup history}

Post ==
    /\ open
    /\ \E c \in Ids \ (OnBoard \cup Named) :
        LET row == board'[c]
        IN  /\ board' = [board EXCEPT ![c] = row]
            /\ row.state # "none" /\ row.version = 1 /\ ~row.expired
            /\ row.state = IF row.reviewed THEN "pending" ELSE "visible"
            /\ \A d \in OnBoard :
                /\ board[d].key # row.key
                /\ board[d].token = row.token => board[d].at + Interval <= row.at
            /\ people' = people \cup {row.token}
    /\ UNCHANGED <<history, told, marked, open>>

Moderate ==
    /\ \E i \in Ids, c \in OnBoard, move \in Moves :
        LET result == board'[c].version
        IN  /\ board'[c].state # "none" /\ ~board[c].expired
            /\ move[1] = board[c].state /\ board[c].version < result
            /\ board' = [board EXCEPT ![c].state = move[3], ![c].version = result]
            /\ history' = history \cup
                 {[id |-> i, comment |-> c, action |-> move[2], from |-> move[1], to |-> move[3],
                   expected |-> board[c].version, result |-> result]}
    /\ UNCHANGED <<told, people, marked, open>>

AnswerPost ==
    /\ \E c \in OnBoard :
        told' = [told EXCEPT !.posts = @ \cup
                   {[token |-> board[c].token, key |-> board[c].key, comment |-> c]}]
    /\ UNCHANGED <<board, history, people, marked, open>>

AnswerModeration ==
    /\ \E c \in OnBoard :
        told' = [told EXCEPT !.moderations = @ \cup
                   {[comment |-> c, to |-> board[c].state, result |-> board[c].version]}]
    /\ UNCHANGED <<board, history, people, marked, open>>

Expire ==
    /\ \E c \in OnBoard : board' = [board EXCEPT ![c].expired = TRUE]
    /\ UNCHANGED <<history, told, people, marked, open>>

\* Expired comments go, and students nothing on the board refers to.
Forget ==
    /\ \E gone \in SUBSET {c \in OnBoard : board[c].expired} :
        /\ board' = [c \in Ids |-> IF c \in gone THEN [state |-> "none"] ELSE board[c]]
        /\ history' = {row \in history : row.comment \notin gone}
        /\ people' \subseteq people
        /\ \A s \in people \ people' :
                s \notin marked /\ \A c \in OnBoard \ gone : board[c].token # s
    /\ UNCHANGED <<told, marked, open>>

\* A student is remembered with the mark, or the comment, that may follow.
Remember ==
    /\ \E s \in Students : people' = people \cup {s} /\ marked' \in {marked, marked \cup {s}}
    /\ UNCHANGED <<board, history, told, open>>

Unmark == marked' \subseteq marked /\ UNCHANGED <<board, history, told, people, open>>

OpenOrClose == open' = ~open /\ UNCHANGED <<board, history, told, people, marked>>

Init ==
    /\ board = [c \in Ids |-> [state |-> "none"]]
    /\ history = {} /\ told = [posts |-> {}, moderations |-> {}]
    /\ people = {} /\ marked = {} /\ open = TRUE

Next ==
    \/ Unmark \/ OpenOrClose \/ Remember \/ AnswerPost \/ AnswerModeration
    \/ Post \/ Moderate \/ Expire \/ Forget

Spec == Init /\ [][Next]_<<board, history, told, people, marked, open>>
=============================================================================
