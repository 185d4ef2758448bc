----------------------------- MODULE LogReader ------------------------------
(***************************************************************************)
(* What a page that follows a log of events promises, with no connection,  *)
(* message, handler or storage: it applies the events one at a time, in    *)
(* their order, each of them once; it may withdraw a comment before it     *)
(* commits the event that says so; a snapshot replaces what it shows by    *)
(* comments that the events until then have not withdrawn; and when it is  *)
(* restarted it goes on from the place it had committed.  Once it has      *)
(* worked on two messages at a time nothing is promised until a restart.   *)
(* Realtime implements this.                                               *)
(***************************************************************************)
EXTENDS Naturals, Sequences

CONSTANT Comments

VARIABLES
    events,   \* the log: records with a type and a comment
    place,    \* how many of them are committed
    view,     \* the comments shown
    mode      \* since the start: "exact", every event was read; "resetting", a
              \* snapshot has arrived; "snapshot", one has been taken; "loose"

Shown(e, c) == e.type \in {"message:new", "message:restore"} /\ e.comment = c
Withdrawn(e, c) ==
    (e.type = "message:remove" /\ e.comment = c) \/ e.type = "message:clear"

\* Some event shows the comment, and none up to n withdraws it afterwards.
Standing(n) ==
    {c \in Comments : \E i \in 1..Len(events) :
        /\ Shown(events[i], c)
        /\ \A k \in i + 1 .. n : ~ Withdrawn(events[k], c)}

\* What an event makes of what is shown.
After(e, shown) == {c \in Comments : Shown(e, c) \/ (c \in shown /\ ~ Withdrawn(e, c))}

Init == events = << >> /\ place = 0 /\ view = {} /\ mode = "exact"

\* The log grows at its end.
Grow ==
    /\ Len(events') = Len(events) + 1
    /\ \A i \in 1..Len(events) : events'[i] = events[i]
    /\ UNCHANGED <<place, view, mode>>

Pending == mode # "loose" /\ place < Len(events)

\* A snapshot may have a comment that is new only later; if that has been cleared
\* meanwhile, its own event does not show it again.
Read ==
    /\ Pending
    /\ place' = place + 1
    /\ \/ view' = After(events[place + 1], view)
       \/ mode = "snapshot" /\ events[place + 1].type = "message:new" /\ view' = view
    /\ UNCHANGED <<events, mode>>

WithdrawEarly ==
    /\ Pending
    /\ events[place + 1].type = "message:remove"
    /\ view' = view \ {events[place + 1].comment}
    /\ UNCHANGED <<events, place, mode>>

\* A snapshot arrives, and is shown or lost.
MakeRoom ==
    /\ mode # "loose"
    /\ mode' = "resetting"
    /\ view' = {}
    /\ UNCHANGED <<events, place>>

TakeSnapshot ==
    /\ mode = "resetting" /\ mode' = "snapshot"
    /\ place' \in 0..Len(events)
    /\ view' \subseteq Standing(place')
    /\ UNCHANGED events

LoseSnapshot ==
    /\ mode = "resetting" /\ mode' = "snapshot"
    /\ UNCHANGED <<events, place, view>>

Restart ==
    /\ mode' = "exact"
    /\ view' = {}
    /\ UNCHANGED <<events, place>>

Loose ==
    /\ mode' = "loose"
    /\ place' \in 0..Len(events)
    /\ view' \subseteq Comments
    /\ UNCHANGED events

Next ==
    \/ Grow \/ Read \/ WithdrawEarly \/ MakeRoom \/ TakeSnapshot \/ LoseSnapshot
    \/ Restart \/ Loose

Spec == Init /\ [][Next]_<<events, place, view, mode>>
=============================================================================
