------------------------------ MODULE Realtime ------------------------------
(***************************************************************************)
(* How a viewer page follows a class session: the event log in D1          *)
(* (src/realtime/repository.js and the triggers on comments), the requests *)
(* that ask the session's Durable Object to broadcast an event             *)
(* (src/realtime/dispatch.js), the object itself                           *)
(* (src/realtime/comment-room.js), and the page that applies the events    *)
(* (public/assets/viewer.js).                                              *)
(*                                                                         *)
(* Viewers do not influence each other, so there is one.  One action runs  *)
(* from one await to the next; on the page, whose JavaScript is one        *)
(* thread, a handler that is running keeps the thread until it awaits.     *)
(* What is abstracted:                                                     *)
(*   - an event is its type and its comment; translations, the display     *)
(*     settings and authorization belong to other modules.                 *)
(*   - "shown" has the comments that are queued, on display, or have been  *)
(*     displayed until their time was over; "remembered" the ones drawn    *)
(*     before the last clear (the rest of shownCommentIds).                *)
(*   - a session ends before its events expire (6 h < 24 h), so the log    *)
(*     of a session that can be connected to is complete.                  *)
(***************************************************************************)
EXTENDS Integers, SequencesExt

CONSTANTS
    Comments,     \* comments of the session
    MaxCatchUp,   \* repository.js MAX_CATCH_UP_EVENTS, 500 in production
    MaxEvents,    \* bound: length of the log
    MaxDrops,     \* bound: connections lost, and failures of the page's store
    MaxReloads,   \* bound: reloads of the page
    NoComment     \* the comment of an event that has none

ASSUME RealtimeConstants ==
    /\ MaxCatchUp \in Nat \ {0}
    /\ MaxEvents \in Nat
    /\ MaxDrops \in Nat
    /\ MaxReloads \in Nat
    /\ NoComment \notin Comments

VARIABLES
    log,         \* realtime_events, in the order of their sequence
    rounds,      \* sequences of the broadcasts that have listed the page's
                 \* socket and await the authorization of their list
    link,        \* the page's connection, from its ticket to its close
    handlers,    \* message handlers of the page that have not ended
    applied,     \* lastAppliedSequence, also in the page's LocalStorage
    base,        \* what it was when the page was loaded
    jumped,      \* has a snapshot replaced the page's comments since then?
    overlapped,  \* have two handlers been at work at once since then?
    shown, remembered,
    stopped,     \* realtimeStopped
    drops, reloads

page == <<applied, base, jumped, overlapped, shown, remembered, stopped>>
vars == <<log, rounds, link, handlers, page, drops, reloads>>

-----------------------------------------------------------------------------
(* The log *)

LastSeq == Len(log)
Shows == {"message:new", "message:restore"}
EventTypes == Shows \cup {"message:remove", "message:clear", "settings:update", "room:closed"}
Event(type, c) == [type |-> type, comment |-> c]

Has(c) == \E i \in 1..LastSeq : log[i].comment = c
Ended == \E i \in 1..LastSeq : log[i].type = "room:closed"

\* comments.moderation_state = 'visible': a clear does not change it.
Visible ==
    {c \in Comments : \E i \in 1..LastSeq :
        /\ log[i] \in {Event(t, c) : t \in Shows}
        /\ \A k \in i + 1 .. LastSeq : log[k] # Event("message:remove", c)}

\* realtime_session_state.last_clear_sequence
LastClear == Max({0} \cup {i \in 1..LastSeq : log[i].type = "message:clear"})

-----------------------------------------------------------------------------
(* Messages, connections and handlers *)

\* room:sync with the events first..upto, or with a snapshot.
Sync(reset, first, upto, current, snapshot) ==
    [kind |-> "sync", reset |-> reset, first |-> first, upto |-> upto, current |-> current,
     snapshot |-> snapshot]
Live(n) == [kind |-> "event", seq |-> n]
Close == [kind |-> "close"]

\* A connection: what its attempt has read so far, then lastSentSequence and the
\* messages on their way to the page.
Off == [phase |-> "off", asked |-> 0, current |-> 0, cleared |-> 0, lastSent |-> 0,
        inbox |-> << >>]

\* A handler goes through the events next..upto; "running" has the thread,
\* "await" waits for the local log with event next, "reset" with a snapshot.
Handler(at, next, upto, current, snapshot) ==
    [at |-> at, next |-> next, upto |-> upto, current |-> current, snapshot |-> snapshot,
     mine |-> TRUE]

ThreadFree == \A h \in handlers : h.at # "running"

\* A handler goes to await the local log while another one does.
NotesOverlap(h) ==
    overlapped' = (overlapped \/ \E g \in handlers \ {h} : g.at \in {"await", "reset"})

\* The connection is gone.  Handlers of its messages go on.
Orphans(hs) == {[h EXCEPT !.mine = FALSE] : h \in hs}
Disconnect ==
    /\ link' = Off
    /\ rounds' = {}

Init ==
    /\ log = << >> /\ rounds = {}
    /\ link = Off /\ handlers = {}
    /\ applied = 0 /\ base = 0 /\ jumped = FALSE /\ overlapped = FALSE
    /\ shown = {} /\ remembered = {} /\ stopped = FALSE
    /\ drops = 0 /\ reloads = 0

-----------------------------------------------------------------------------
(* Mistakes: variants of definitions below, each with one plausible bug, that *)
(* the properties are shown to catch.                                         *)

UnsentUnchecked(n) == TRUE

\* Any later sequence is applied.
FollowsLater(n) == n > applied

\* The snapshot does not look at the moderation state.
SnapshotOfEvents(cleared) ==
    {c \in Comments : \E i \in cleared + 1 .. LastSeq : log[i] \in {Event(t, c) : t \in Shows}}

\* The connection stays after a gap.
GiveUpSilently(h) == handlers' = handlers \ {h} /\ UNCHANGED <<link, rounds>>

\* The sequence to expect next is committed.
CommitsNext(h) == applied' = h.next + 1

-----------------------------------------------------------------------------
(* Events *)

\* The statements that append an event, in the transaction of what it reports.
AppendEvent(e) ==
    /\ LastSeq < MaxEvents
    /\ log' = Append(log, e)
    /\ UNCHANGED <<rounds, link, handlers, page, drops, reloads>>

PostComment(c) == ~ Ended /\ ~ Has(c) /\ AppendEvent(Event("message:new", c))

\* hide or delete; approve or restore.
RemoveComment(c) == c \in Visible /\ AppendEvent(Event("message:remove", c))
RestoreComment(c) == c \notin Visible /\ AppendEvent(Event("message:restore", c))

ClearComments == ~ Ended /\ AppendEvent(Event("message:clear", NoComment))
UpdateSettings == ~ Ended /\ AppendEvent(Event("settings:update", NoComment))
EndSession == ~ Ended /\ AppendEvent(Event("room:closed", NoComment))

-----------------------------------------------------------------------------
(* The room *)

\* safeClose of the socket comes after what was sent on it.
SocketOpen == link.phase = "open" /\ ~ Contains(link.inbox, Close)

Unsent(n) == link.lastSent < n

\* A broadcast of event n lists the sockets, then awaits their authorization.
\* The request for it may be lost, late, or repeated because its answer was lost,
\* so any event of the log may be broadcast at any time.  Left out are broadcasts
\* that do not find the page's socket, or find that it was sent the event (what
\* was sent never goes down).  One that fails is not delivered.
Broadcast(n) ==
    /\ SocketOpen /\ Unsent(n)
    /\ rounds' = rounds \cup {n}
    /\ UNCHANGED <<log, link, handlers, page, drops, reloads>>

\* broadcastEvent after its await, one run over the sockets of its list.
Deliver(n) ==
    /\ rounds' = rounds \ {n}
    /\ link' = IF SocketOpen /\ Unsent(n)
               THEN [link EXCEPT !.lastSent = n, !.inbox = Append(@, Live(n))]
               ELSE link
    /\ UNCHANGED <<log, handlers, page, drops, reloads>>

\* The request of room:closed, its broadcast made or failed, closes every socket.
CloseAllSockets ==
    /\ Ended
    /\ SocketOpen
    /\ link' = [link EXCEPT !.inbox = Append(@, Close)]
    /\ UNCHANGED <<log, rounds, handlers, page, drops, reloads>>

\* The page's ticket, its consumption, and the first read of getRealtimeSync.
\* The ticket of an ended session is refused, and the page stops.
Connect ==
    /\ link.phase = "off"
    /\ ~ stopped
    /\ IF Ended
       THEN stopped' = TRUE /\ UNCHANGED link
       ELSE /\ link' = [Off EXCEPT !.phase = "asked", !.asked = applied,
                                   !.current = LastSeq, !.cleared = LastClear]
            /\ UNCHANGED stopped
    /\ UNCHANGED <<log, rounds, handlers, applied, base, jumped, overlapped, shown,
                   remembered, drops, reloads>>

ResetRequired == link.asked > link.current \/ link.current - link.asked > MaxCatchUp

Snapshot(cleared) ==
    {c \in Visible : \E i \in cleared + 1 .. LastSeq : log[i] \in {Event(t, c) : t \in Shows}}

\* The second read: a snapshot, or the events after the requested one, which
\* may be newer than current.
ReadSync ==
    IF ResetRequired
    THEN Sync(TRUE, 0, 0, link.current, Snapshot(link.cleared))
    ELSE Sync(FALSE, link.asked + 1,
              IF link.asked < link.current THEN Min({LastSeq, link.asked + MaxCatchUp})
              ELSE link.asked,
              link.current, {})

ReadEvents ==
    /\ link.phase = "asked"
    /\ link' = [Off EXCEPT !.phase = "read", !.lastSent = link.current, !.inbox = <<ReadSync>>]
    /\ UNCHANGED <<log, rounds, handlers, page, drops, reloads>>

\* acceptWebSocket, the attachment and room:sync: the object's input gate keeps
\* other events out while it sets its alarm.
Accept ==
    /\ link.phase = "read"
    /\ link' = [link EXCEPT !.phase = "open"]
    /\ UNCHANGED <<log, rounds, handlers, page, drops, reloads>>

-----------------------------------------------------------------------------
(* The page *)

\* A message event: its handler takes the thread.
Receive ==
    /\ link.phase = "open"
    /\ link.inbox # << >>
    /\ LET m == Head(link.inbox)
           rest == [link EXCEPT !.inbox = Tail(@)]
           resetting == Handler("reset", 0, 0, m.current, m.snapshot)
       IN \/ /\ m.kind = "sync" /\ m.reset
             /\ link' = rest
             /\ jumped' = TRUE /\ shown' = {} /\ remembered' = {}
             /\ handlers' = handlers \cup {resetting}
             /\ NotesOverlap(resetting)
             /\ UNCHANGED <<stopped, rounds>>
          \/ /\ m.kind = "sync" /\ ~ m.reset
             /\ link' = rest
             /\ handlers' = handlers \cup
                    {Handler("running", m.first, m.upto, m.current, {})}
             /\ UNCHANGED <<jumped, overlapped, shown, remembered, stopped, rounds>>
          \/ /\ m.kind = "event"
             /\ link' = rest
             /\ handlers' = handlers \cup {Handler("running", m.seq, m.seq, 0, {})}
             /\ UNCHANGED <<jumped, overlapped, shown, remembered, stopped, rounds>>
          \/ /\ m = Close
             /\ Disconnect
             /\ stopped' = TRUE
             /\ handlers' = Orphans(handlers)
             /\ UNCHANGED <<jumped, overlapped, shown, remembered>>
    /\ UNCHANGED <<log, applied, base, drops, reloads>>

Becomes(h, g) == handlers' = (handlers \ {h}) \cup {g}
Onward(h) == [h EXCEPT !.at = "running", !.next = @ + 1]

\* The handler throws, or closes with 4002 itself: only its own socket closes.
GiveUp(h) ==
    IF h.mine
    THEN handlers' = Orphans(handlers \ {h}) /\ Disconnect
    ELSE handlers' = handlers \ {h} /\ UNCHANGED <<link, rounds>>

\* commitSequence
Commit(h) == applied' = h.next

Follows(n) == n = applied + 1

Forget(c) == shown' = shown \ {c} /\ remembered' = remembered \ {c}

\* The next event of the handler that has the thread is old, does not follow, or
\* the last one has been handled.
PassOver(h) ==
    /\ h.at = "running"
    /\ \/ /\ h.next <= h.upto /\ h.next <= applied
          /\ Becomes(h, Onward(h))
          /\ UNCHANGED <<link, rounds>>
       \/ /\ h.next <= h.upto /\ h.next > applied /\ ~ Follows(h.next)
          /\ GiveUp(h)
       \/ /\ h.next > h.upto /\ h.current > applied
          /\ GiveUp(h)
       \/ /\ h.next > h.upto /\ h.current <= applied
          /\ handlers' = handlers \ {h}
          /\ UNCHANGED <<link, rounds>>
    /\ UNCHANGED <<log, page, drops, reloads>>

\* applyRealtimeEvent up to its await, or to its end if it has none.
Begin(h) ==
    LET e == log[h.next]
    IN /\ h.at = "running" /\ h.next <= h.upto /\ h.next > applied /\ Follows(h.next)
       /\ \/ /\ e.type \in Shows
             /\ Becomes(h, [h EXCEPT !.at = "await"]) /\ NotesOverlap(h)
             /\ UNCHANGED <<applied, shown, remembered, stopped, link, rounds>>
          \/ /\ e.type = "message:remove"
             /\ Forget(e.comment)
             /\ Becomes(h, [h EXCEPT !.at = "await"]) /\ NotesOverlap(h)
             /\ UNCHANGED <<applied, stopped, link, rounds>>
          \/ /\ e.type = "message:clear"
             /\ shown' = {}
             /\ \E drawn \in SUBSET shown : remembered' = remembered \cup drawn
             /\ Commit(h) /\ Becomes(h, Onward(h))
             /\ UNCHANGED <<overlapped, stopped, link, rounds>>
          \/ /\ e.type = "settings:update"
             /\ Commit(h) /\ Becomes(h, Onward(h))
             /\ UNCHANGED <<overlapped, shown, remembered, stopped, link, rounds>>
          \/ /\ e.type = "room:closed"
             /\ stopped' = TRUE
             /\ Disconnect
             /\ Commit(h)
             /\ handlers' = Orphans((handlers \ {h}) \cup {Onward(h)})
             /\ UNCHANGED <<overlapped, shown, remembered>>
       /\ UNCHANGED <<log, base, jumped, drops, reloads>>

\* The local log is written: enqueueComment, by force for a restored comment,
\* and the sequence is committed without looking at it again.
Resume(h) ==
    LET e == log[h.next]
    IN /\ h.at = "await"
       /\ shown' = IF e.type = "message:restore"
                      \/ (e.type = "message:new" /\ e.comment \notin remembered)
                   THEN shown \cup {e.comment} ELSE shown
       /\ remembered' = IF e.type = "message:restore" THEN remembered \ {e.comment}
                        ELSE remembered
       /\ Commit(h)
       /\ Becomes(h, Onward(h))
       /\ UNCHANGED <<log, rounds, link, base, jumped, overlapped, stopped, drops, reloads>>

\* replaceSessionLog is done: the snapshot is shown and its sequence committed.
Replace(h) ==
    /\ h.at = "reset"
    /\ shown' = shown \cup (h.snapshot \ remembered)
    /\ applied' = h.current
    /\ handlers' = handlers \ {h}
    /\ UNCHANGED <<log, rounds, link, base, jumped, overlapped, remembered, stopped, drops,
                   reloads>>

\* replaceSessionLog fails, which no handler catches (the other writes' do).
ReplaceFails(h) ==
    /\ h.at = "reset"
    /\ drops < MaxDrops /\ drops' = drops + 1
    /\ GiveUp(h)
    /\ UNCHANGED <<log, page, reloads>>

\* The connection, or an attempt at one, fails.
Drop ==
    /\ link.phase # "off"
    /\ drops < MaxDrops /\ drops' = drops + 1
    /\ Disconnect
    /\ handlers' = Orphans(handlers)
    /\ UNCHANGED <<log, page, reloads>>

\* The page starts from the sequence in LocalStorage, with nothing shown.
Reload ==
    /\ reloads < MaxReloads /\ reloads' = reloads + 1
    /\ Disconnect
    /\ handlers' = {} /\ shown' = {} /\ remembered' = {}
    /\ base' = applied /\ jumped' = FALSE /\ overlapped' = FALSE /\ stopped' = FALSE
    /\ UNCHANGED <<log, applied, drops>>

-----------------------------------------------------------------------------
Running == \E h \in handlers : PassOver(h) \/ Begin(h)
Awaited == \E h \in handlers : Resume(h) \/ Replace(h)

TeacherOrStudent ==
    \/ \E c \in Comments : PostComment(c) \/ RemoveComment(c) \/ RestoreComment(c)
    \/ ClearComments \/ UpdateSettings \/ EndSession

RoomStep ==
    \/ \E n \in 1..LastSeq : Broadcast(n)
    \/ \E n \in rounds : Deliver(n)
    \/ CloseAllSockets

PageStep ==
    \/ Connect \/ ReadEvents \/ Accept \/ Receive \/ Awaited
    \/ \E h \in handlers : ReplaceFails(h)
    \/ Drop \/ Reload

\* A handler that has the thread runs to its next await before anything else:
\* what others do meanwhile, the page sees only in later messages.
Next ==
    \/ Running
    \/ ThreadFree /\ (TeacherOrStudent \/ RoomStep \/ PageStep)

Spec == Init /\ [][Next]_vars

\* The page retries while it is not stopped, the room answers, messages on an
\* open connection arrive and handlers go on.  No broadcast is assumed to happen.
Fairness ==
    /\ WF_vars(Running) /\ WF_vars(ThreadFree /\ Awaited)
    /\ WF_vars(ThreadFree /\ Connect) /\ WF_vars(ThreadFree /\ ReadEvents)
    /\ WF_vars(ThreadFree /\ Accept) /\ WF_vars(ThreadFree /\ Receive)

FairSpec == Spec /\ Fairness
=============================================================================
