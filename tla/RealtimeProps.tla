---------------------------- MODULE RealtimeProps ----------------------------
(* What following a session promises.  Checked by MCRealtime.                 *)
EXTENDS Realtime

MessageType ==
    [kind : {"sync"}, reset : BOOLEAN, first : 0..MaxEvents + 1, upto : 0..MaxEvents,
     current : 0..MaxEvents, snapshot : SUBSET Comments]
    \cup [kind : {"event"}, seq : 1..MaxEvents] \cup {Close}

LinkType == [phase : {"off", "asked", "read", "open"}, asked : 0..MaxEvents,
             current : 0..MaxEvents, cleared : 0..MaxEvents, lastSent : 0..MaxEvents,
             inbox : Seq(MessageType)]

HandlerType == [at : {"running", "await", "reset"}, next : 0..MaxEvents + 1,
                upto : 0..MaxEvents, current : 0..MaxEvents, snapshot : SUBSET Comments,
                mine : BOOLEAN]

\* The types of the variables; the thread of the page has one handler.
TypeOK ==
    /\ log \in Seq([type : EventTypes, comment : Comments \cup {NoComment}])
    /\ rounds \subseteq 1..LastSeq
    /\ link \in LinkType
    /\ handlers \subseteq HandlerType
    /\ \A g, h \in handlers : g.at = "running" /\ h.at = "running" => g = h
    /\ applied \in 0..LastSeq /\ base \in 0..LastSeq
    /\ jumped \in BOOLEAN /\ overlapped \in BOOLEAN /\ stopped \in BOOLEAN
    /\ shown \subseteq Comments /\ remembered \subseteq Comments
    /\ drops \in 0..MaxDrops /\ reloads \in 0..MaxReloads

Quiet == handlers = {}

\* What the events after "from" up to "to" leave on a page.
View(from, to) ==
    {c \in Comments : \E i \in from + 1 .. to :
        /\ log[i] \in {Event(t, c) : t \in Shows}
        /\ \A k \in i + 1 .. to :
               log[k] # Event("message:remove", c) /\ log[k].type # "message:clear"}

\* On one connection sequences only go up, from the one of its sync, although
\* broadcasts of different events overlap, overtake each other and are repeated.
SequenceOf(m) == IF m.kind = "event" THEN m.seq ELSE IF m.kind = "sync" THEN m.current ELSE 0
SentInOrder ==
    \A k \in 1..Len(link.inbox) : link.inbox[k].kind = "event" =>
        /\ link.inbox[k].seq <= link.lastSent
        /\ \A i \in 1 .. k - 1 : SequenceOf(link.inbox[i]) < link.inbox[k].seq

\* Between two messages, a page that took no snapshot since it was loaded and
\* worked on one message at a time shows exactly what the events it has committed
\* leave: none missed or out of order, through lost connections, missed and
\* repeated broadcasts, syncs that read newer events, and reloads.
ViewIsPrefix ==
    (Quiet /\ ~ jumped /\ ~ overlapped) => shown = View(base, applied)

\* A page that has caught up shows no comment that was removed or cleared, also
\* when it took a snapshot while comments were being moderated.
CaughtUpShowsNoWithdrawn ==
    (Quiet /\ ~ overlapped /\ applied = LastSeq) => shown \subseteq View(0, LastSeq)

\* A committed event is applied by a page that reconnects, or that was sent it or
\* a later one, whatever is then lost, dropped for a gap or broadcast meanwhile;
\* unless the page stops, or works on two messages at once.  A page that stays
\* connected and missed the broadcast of the last event waits for the next.
Reached(n) ==
    LastSeq >= n /\ (link.phase = "off" \/ (link.phase = "open" /\ link.lastSent >= n))
CatchesUp == \A n \in 1..MaxEvents : Reached(n) ~> (applied >= n \/ stopped \/ overlapped)

-----------------------------------------------------------------------------
(* The page is a reader of the log *)

ReaderMode ==
    IF overlapped THEN "loose"
    ELSE IF \E h \in handlers : h.at = "reset" THEN "resetting"
    ELSE IF jumped THEN "snapshot"
    ELSE "exact"

Reader == INSTANCE LogReader WITH
    events <- log, place <- applied, view <- shown, mode <- ReaderMode

\* Step by step the connections, syncs, broadcasts, writes of the local log and
\* reloads of a page come to one thing: it applies the log in sequence, each event
\* once, and takes snapshots of what stands, until it works on two messages at once.
ImplementsLogReader == Reader!Spec

-----------------------------------------------------------------------------
(* Statements of the documentation the code does not keep *)

\* An event whose sequence has been applied already is discarded: the applied
\* sequence goes back only where a snapshot is taken.
AppliedNeverGoesBack ==
    [][applied' >= applied \/ \E h \in handlers : h.at = "reset" /\ applied' = h.current]_vars

\* A gap is a missing event: the one before it is not being applied right now,
\* received on the same connection.
GapsAreReal ==
    ~ \E g, h \in handlers : /\ h.at = "running" /\ h.mine /\ h.next > applied + 1
                             /\ g.at = "await" /\ g.mine /\ g.next = applied + 1
                             /\ h.next = g.next + 1
=============================================================================
