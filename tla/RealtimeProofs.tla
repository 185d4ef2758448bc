--------------------------- MODULE RealtimeProofs ---------------------------
(***************************************************************************)
(* What a page that follows a session shows, for any comments, length of   *)
(* the log, lost connections and reloads: the invariants RealtimeProps     *)
(* states, proved of the specification.                                    *)
(***************************************************************************)
EXTENDS RealtimeProps, TLAPS

-----------------------------------------------------------------------------
(* The types, for a log of n events *)

Events == [type : EventTypes, comment : Comments \cup {NoComment}]
Syncs(n) == [kind : {"sync"}, reset : BOOLEAN, first : 0..n + 1, upto : 0..n, current : 0..n,
             snapshot : SUBSET Comments]
Messages(n) == Syncs(n) \cup [kind : {"event"}, seq : 1..n] \cup {Close}
Links(n) == [phase : {"off", "asked", "read", "open"}, asked : 0..n, current : 0..n,
             cleared : 0..n, lastSent : 0..n, inbox : Seq(Messages(n))]
Handlers(n) == [at : {"running", "await", "reset"}, next : 0..n + 1, upto : 0..n,
                current : 0..n, snapshot : SUBSET Comments, mine : BOOLEAN]

Clears == {0} \cup {i \in 1..LastSeq : log[i].type = "message:clear"}

(* The last clear exists, so that LastClear is one.                        *)
LogOK ==
    /\ log \in Seq(Events) /\ LastSeq <= MaxEvents
    /\ \A i \in 1..LastSeq : log[i].type \in Shows => log[i].comment \in Comments
    /\ \E m \in Clears : \A i \in Clears : i <= m

(* At most one handler has the thread; one that awaits the local log has   *)
(* an event.                                                               *)
Fit(hs) ==
    /\ hs \subseteq Handlers(LastSeq)
    /\ \A g, h \in hs : g.at = "running" /\ h.at = "running" => g = h
    /\ \A h \in hs : h.at = "await" => h.next \in 1..h.upto
HandlersOK == Fit(handlers)

PageOK ==
    /\ applied \in 0..LastSeq /\ base \in 0..LastSeq
    /\ jumped \in BOOLEAN /\ overlapped \in BOOLEAN /\ stopped \in BOOLEAN
    /\ shown \subseteq Comments /\ remembered \subseteq Comments
    /\ drops \in 0..MaxDrops /\ reloads \in 0..MaxReloads

LinkOK == link \in Links(LastSeq) /\ rounds \subseteq 1..LastSeq

TypeInv == LogOK /\ LinkOK /\ HandlersOK /\ PageOK

-----------------------------------------------------------------------------
(* Messages *)

LEMMA MessageFields ==
    ASSUME NEW n \in Nat, NEW m \in Messages(n)
    PROVE  /\ m.kind \in {"sync", "event", "close"}
           /\ m.kind = "sync" => m \in Syncs(n)
           /\ m.kind = "event" => m.seq \in 1..n
           /\ m = Close <=> m.kind = "close"
           /\ SequenceOf(m) \in 0..n
<1>1. Close.kind = "close"
  BY DEF Close
<1>2. CASE m \in Syncs(n)
  BY <1>1, <1>2 DEF Syncs, SequenceOf
<1>3. CASE m \in [kind : {"event"}, seq : 1..n]
  BY <1>1, <1>3 DEF SequenceOf
<1>4. CASE m = Close
  BY <1>1, <1>4 DEF SequenceOf
<1> QED BY <1>2, <1>3, <1>4 DEF Messages

LEMMA LiveIsMessage ==
    ASSUME NEW n \in Nat, NEW s \in 1..n
    PROVE  Live(s) \in Messages(n) /\ SequenceOf(Live(s)) = s /\ Live(s).kind = "event"
                                   /\ Live(s).seq = s
BY DEF Live, Messages, SequenceOf

LEMMA CloseIsMessage ==
    ASSUME NEW n \in Nat
    PROVE  Close \in Messages(n) /\ SequenceOf(Close) = 0 /\ Close.kind = "close"
BY DEF Close, Messages, SequenceOf

LEMMA OffIsLink ==
    ASSUME NEW n \in Nat
    PROVE  Off \in Links(n) /\ Off.phase = "off" /\ Off.inbox = << >>
BY DEF Off, Links

LEMMA LinkFields ==
    ASSUME LinkOK
    PROVE  /\ link \in Links(LastSeq)
           /\ link.asked \in 0..LastSeq /\ link.current \in 0..LastSeq
           /\ link.cleared \in 0..LastSeq /\ link.lastSent \in 0..LastSeq
           /\ link.inbox \in Seq(Messages(LastSeq)) /\ rounds \subseteq 1..LastSeq
BY DEF LinkOK, Links

LEMMA HandlerFields ==
    ASSUME HandlersOK, NEW h \in handlers
    PROVE  /\ h \in Handlers(LastSeq) /\ h.at \in {"running", "await", "reset"}
           /\ h.next \in 0..LastSeq + 1 /\ h.upto \in 0..LastSeq /\ h.current \in 0..LastSeq
           /\ h.snapshot \subseteq Comments /\ h.mine \in BOOLEAN
BY DEF HandlersOK, Fit, Handlers

LEMMA Length == ASSUME LogOK PROVE LastSeq \in Nat /\ log \in Seq(Events) /\ MaxEvents \in Nat
BY RealtimeConstants DEF LogOK, LastSeq

(* A longer log.                                                           *)
LEMMA Longer ==
    ASSUME NEW n \in Nat, NEW k \in Nat, n <= k
    PROVE  /\ Messages(n) \subseteq Messages(k) /\ Seq(Messages(n)) \subseteq Seq(Messages(k))
           /\ Links(n) \subseteq Links(k) /\ Handlers(n) \subseteq Handlers(k)
<1>1. /\ 0..n \subseteq 0..k /\ 0..n + 1 \subseteq 0..k + 1 /\ 1..n \subseteq 1..k
  OBVIOUS
<1>2. Messages(n) \subseteq Messages(k)
  BY <1>1 DEF Messages, Syncs
<1>3. Seq(Messages(n)) \subseteq Seq(Messages(k))
  BY <1>2
<1>4. Links(n) \subseteq Links(k)
  BY <1>1, <1>3 DEF Links
<1>5. Handlers(n) \subseteq Handlers(k)
  BY <1>1 DEF Handlers
<1> QED BY <1>2, <1>3, <1>4, <1>5

LEMMA MinOfTwo ==
    ASSUME NEW a \in Nat, NEW b \in Nat
    PROVE  Min({a, b}) \in {a, b} /\ Min({a, b}) <= a /\ Min({a, b}) <= b
BY DEF Min

LEMMA TheLastClear ==
    ASSUME LogOK
    PROVE  /\ LastClear \in 0..LastSeq
           /\ \A i \in 1..LastSeq : log[i].type = "message:clear" => i <= LastClear
<1>1. LastSeq \in Nat
  BY Length
<1>2. PICK m \in Clears : \A i \in Clears : i <= m
  BY DEF LogOK
<1>3. Clears \subseteq 0..LastSeq
  BY <1>1 DEF Clears
<1>4. \A i \in Clears : Max(Clears) >= i
  BY <1>1, <1>2, <1>3 DEF Max
<1>5. Max(Clears) \in Clears
  BY <1>1, <1>2, <1>3 DEF Max
<1>6. LastClear = Max(Clears)
  BY DEF LastClear, Clears
<1> QED BY <1>1, <1>3, <1>4, <1>5, <1>6 DEF Clears

-----------------------------------------------------------------------------
(* The log grows *)

LEMMA EventFields ==
    ASSUME NEW type \in EventTypes, NEW c \in Comments \cup {NoComment}
    PROVE  /\ Event(type, c) \in Events
           /\ Event(type, c).type = type /\ Event(type, c).comment = c
BY DEF Event, Events

LEMMA Grows ==
    ASSUME TypeInv, NEW e \in Events, AppendEvent(e)
    PROVE  /\ LastSeq \in Nat /\ LastSeq' = LastSeq + 1 /\ log' \in Seq(Events)
           /\ \A i \in 1..LastSeq : log'[i] = log[i]
           /\ log'[LastSeq + 1] = e
           /\ UNCHANGED <<rounds, link, handlers, page, drops, reloads>>
<1>1. log \in Seq(Events) /\ LastSeq \in Nat
  BY Length DEF TypeInv
<1>2. log' = Append(log, e) /\ UNCHANGED <<rounds, link, handlers, page, drops, reloads>>
  BY DEF AppendEvent
<1> QED BY <1>1, <1>2 DEF LastSeq

LEMMA Appends ==
    ASSUME TypeInv, NEW e \in Events, AppendEvent(e), e.type \in Shows => e.comment \in Comments
    PROVE  TypeInv'
<1>1. /\ LastSeq \in Nat /\ LastSeq' = LastSeq + 1 /\ log' \in Seq(Events)
      /\ \A i \in 1..LastSeq : log'[i] = log[i]
      /\ log'[LastSeq + 1] = e
      /\ UNCHANGED <<rounds, link, handlers, page, drops, reloads>>
  BY Grows
<1>2. LastSeq' <= MaxEvents
  BY <1>1, Length DEF AppendEvent, TypeInv
<1>3. \A i \in 1..LastSeq' : i \in 1..LastSeq \/ i = LastSeq + 1
  BY <1>1
<1>4. \A i \in 1..LastSeq' : log'[i].type \in Shows => log'[i].comment \in Comments
  BY <1>1, <1>3 DEF TypeInv, LogOK
<1>5. \E m \in Clears' : \A i \in Clears' : i <= m
  <2>1. PICK m \in Clears : \A i \in Clears : i <= m
    BY DEF TypeInv, LogOK
  <2>2. Clears \subseteq 0..LastSeq /\ Clears \subseteq Clears'
    BY <1>1 DEF Clears
  <2>3. \A i \in Clears' : i \in Clears \/ i = LastSeq + 1
    BY <1>1, <1>3 DEF Clears
  <2>4. CASE LastSeq + 1 \in Clears'
    BY <1>1, <2>2, <2>3, <2>4
  <2>5. CASE LastSeq + 1 \notin Clears'
    BY <2>1, <2>2, <2>3, <2>5
  <2> QED BY <2>4, <2>5
<1>6. LogOK'
  BY <1>1, <1>2, <1>4, <1>5 DEF LogOK
<1>7. /\ Links(LastSeq) \subseteq Links(LastSeq')
      /\ Handlers(LastSeq) \subseteq Handlers(LastSeq')
      /\ 0..LastSeq \subseteq 0..LastSeq' /\ 1..LastSeq \subseteq 1..LastSeq'
  BY <1>1, Longer
<1>8. LinkOK' /\ HandlersOK'
  BY <1>1, <1>7 DEF TypeInv, LinkOK, HandlersOK, Fit
<1>9. PageOK'
  BY <1>1, <1>7 DEF TypeInv, PageOK, page
<1> QED BY <1>6, <1>8, <1>9 DEF TypeInv

(* The events of teachers and students.                                    *)
LEMMA SomeEvent ==
    ASSUME TeacherOrStudent
    PROVE  \E e \in Events :
              /\ AppendEvent(e)
              /\ e.type \in Shows => e.comment \in Comments
              /\ e.type = "message:new" => ~Has(e.comment)
<1>1. \A c \in Comments : c \in Comments \cup {NoComment}
  OBVIOUS
<1>2. /\ \A t \in {"message:new", "message:restore", "message:remove", "message:clear",
                   "settings:update", "room:closed"} : t \in EventTypes
      /\ \A t \in Shows : t = "message:new" \/ t = "message:restore"
  BY DEF EventTypes, Shows
<1>3. ASSUME NEW c \in Comments, PostComment(c)
      PROVE  /\ Event("message:new", c) \in Events /\ AppendEvent(Event("message:new", c))
             /\ Event("message:new", c).comment = c /\ ~Has(c)
  BY <1>1, <1>2, <1>3, EventFields DEF PostComment
<1>4. ASSUME NEW c \in Comments, RemoveComment(c)
      PROVE  /\ Event("message:remove", c) \in Events /\ AppendEvent(Event("message:remove", c))
             /\ Event("message:remove", c).type = "message:remove"
  BY <1>1, <1>2, <1>4, EventFields DEF RemoveComment
<1>5. ASSUME NEW c \in Comments, RestoreComment(c)
      PROVE  /\ Event("message:restore", c) \in Events /\ AppendEvent(Event("message:restore", c))
             /\ Event("message:restore", c).type = "message:restore"
             /\ Event("message:restore", c).comment = c
  BY <1>1, <1>2, <1>5, EventFields DEF RestoreComment
<1>6. ASSUME NEW t \in {"message:clear", "settings:update", "room:closed"},
             AppendEvent(Event(t, NoComment))
      PROVE  /\ Event(t, NoComment) \in Events /\ Event(t, NoComment).type \notin Shows
  BY <1>2, <1>6, EventFields
<1> DEFINE Fits(e) == /\ AppendEvent(e)
                      /\ e.type \in Shows => e.comment \in Comments
                      /\ e.type = "message:new" => ~Has(e.comment)
<1>7. ASSUME NEW c \in Comments, PostComment(c) \/ RemoveComment(c) \/ RestoreComment(c)
      PROVE  \E e \in Events : Fits(e)
  <2>1. CASE PostComment(c)
    <3>1. Fits(Event("message:new", c))
      BY <1>3, <2>1
    <3> QED BY <1>3, <2>1, <3>1
  <2>2. CASE RemoveComment(c)
    <3>1. Fits(Event("message:remove", c))
      BY <1>2, <1>4, <2>2
    <3> QED BY <1>4, <2>2, <3>1
  <2>3. CASE RestoreComment(c)
    <3>1. Fits(Event("message:restore", c))
      BY <1>5, <2>3
    <3> QED BY <1>5, <2>3, <3>1
  <2> QED BY <1>7, <2>1, <2>2, <2>3
<1>8. ASSUME NEW t \in {"message:clear", "settings:update", "room:closed"},
             AppendEvent(Event(t, NoComment))
      PROVE  \E e \in Events : Fits(e)
  <2>1. Fits(Event(t, NoComment))
    BY <1>6, <1>8 DEF Shows
  <2> QED BY <1>6, <1>8, <2>1
<1>9. CASE ClearComments \/ UpdateSettings \/ EndSession
  BY <1>8, <1>9 DEF ClearComments, UpdateSettings, EndSession
<1> QED BY <1>7, <1>9 DEF TeacherOrStudent

-----------------------------------------------------------------------------
(* The room and the connection keep the types *)

LEMMA ConnectionTypes ==
    ASSUME TypeInv,
           \/ \E n \in 1..LastSeq : Broadcast(n)
           \/ \E n \in rounds : Deliver(n)
           \/ CloseAllSockets \/ Connect \/ ReadEvents \/ Accept
    PROVE  TypeInv'
<1>1. LastSeq \in Nat /\ LinkOK /\ LogOK
  BY Length DEF TypeInv
<1>2. UNCHANGED <<log, handlers, applied, base, jumped, overlapped, shown, remembered,
                  drops, reloads>>
  BY DEF Broadcast, Deliver, CloseAllSockets, Connect, ReadEvents, Accept, page
<1>3. LastSeq' = LastSeq /\ LogOK'
  BY <1>1, <1>2 DEF LogOK, LastSeq, Clears
<1>4. HandlersOK' /\ PageOK'
  <2>1. stopped' \in BOOLEAN
    BY DEF Broadcast, Deliver, CloseAllSockets, Connect, ReadEvents, Accept, page, TypeInv, PageOK
  <2> QED BY <1>2, <1>3, <2>1 DEF TypeInv, HandlersOK, Fit, PageOK
<1>5. ASSUME NEW n \in 1..LastSeq, Broadcast(n) PROVE LinkOK'
  BY <1>1, <1>3, <1>5 DEF Broadcast, LinkOK
<1>6. ASSUME NEW n \in rounds, Deliver(n) PROVE LinkOK'
  <2>1. n \in 1..LastSeq /\ n \in 0..LastSeq /\ Live(n) \in Messages(LastSeq)
    BY <1>1, LiveIsMessage, LinkFields
  <2>2. Append(link.inbox, Live(n)) \in Seq(Messages(LastSeq))
    BY <1>1, <2>1, LinkFields
  <2> QED BY <1>1, <1>3, <1>6, <2>1, <2>2 DEF Deliver, LinkOK, Links
<1>7. ASSUME CloseAllSockets PROVE LinkOK'
  <2>1. Append(link.inbox, Close) \in Seq(Messages(LastSeq))
    BY <1>1, CloseIsMessage, LinkFields
  <2> QED BY <1>1, <1>3, <1>7, <2>1 DEF CloseAllSockets, LinkOK, Links
<1>8. ASSUME Connect PROVE LinkOK'
  <2>1. applied \in 0..LastSeq /\ LastClear \in 0..LastSeq /\ LastSeq \in 0..LastSeq
    BY <1>1, TheLastClear DEF TypeInv, PageOK
  <2>2. [Off EXCEPT !.phase = "asked", !.asked = applied, !.current = LastSeq,
                    !.cleared = LastClear] \in Links(LastSeq)
    BY <1>1, <2>1, OffIsLink DEF Links
  <2> QED BY <1>1, <1>3, <1>8, <2>2 DEF Connect, LinkOK
<1>9. ASSUME ReadEvents PROVE LinkOK'
  <2>1. ReadSync \in Messages(LastSeq)
    <3>1. Snapshot(link.cleared) \subseteq Comments
      BY DEF Snapshot, Visible
    <3>2. ResetRequired => ReadSync \in Syncs(LastSeq)
      BY <1>1, <3>1, LinkFields DEF ReadSync, Sync, Syncs
    <3> DEFINE upto == IF link.asked < link.current THEN Min({LastSeq, link.asked + MaxCatchUp})
                       ELSE link.asked
    <3>3. upto \in 0..LastSeq
      BY <1>1, LinkFields, MinOfTwo, RealtimeConstants
    <3>4. ~ResetRequired => ReadSync = Sync(FALSE, link.asked + 1, upto, link.current, {})
      BY DEF ReadSync
    <3> HIDE DEF upto
    <3>5. ~ResetRequired => ReadSync \in Syncs(LastSeq)
      <4>1. link.asked + 1 \in 0..LastSeq + 1 /\ link.current \in 0..LastSeq
        BY <1>1, LinkFields
      <4>2. Sync(FALSE, link.asked + 1, upto, link.current, {}) \in Syncs(LastSeq)
        BY <3>3, <4>1 DEF Sync, Syncs
      <4> QED BY <3>4, <4>2
    <3> QED BY <3>2, <3>5 DEF Messages
  <2>2. <<ReadSync>> \in Seq(Messages(LastSeq))
    BY <2>1
  <2> QED BY <1>1, <1>3, <1>9, <2>2, OffIsLink, LinkFields DEF ReadEvents, LinkOK, Links
<1>10. ASSUME Accept PROVE LinkOK'
  BY <1>1, <1>3, <1>10 DEF Accept, LinkOK, Links
<1> QED BY <1>3, <1>4, <1>5, <1>6, <1>7, <1>8, <1>9, <1>10 DEF TypeInv

-----------------------------------------------------------------------------
(* The page keeps the types *)

LEMMA OrphanFields ==
    ASSUME NEW n, NEW h \in Handlers(n)
    PROVE  LET o == [h EXCEPT !.mine = FALSE]
           IN  /\ o \in Handlers(n) /\ o.at = h.at /\ o.next = h.next /\ o.upto = h.upto
               /\ o.current = h.current /\ o.snapshot = h.snapshot /\ o.mine = FALSE
BY DEF Handlers

LEMMA FitSubset == ASSUME NEW hs, Fit(hs), NEW gs \in SUBSET hs PROVE Fit(gs)
BY DEF Fit

LEMMA FitOrphans == ASSUME NEW hs, Fit(hs) PROVE Fit(Orphans(hs))
<1>1. ASSUME NEW o \in Orphans(hs)
      PROVE  \E h \in hs : /\ o = [h EXCEPT !.mine = FALSE] /\ o \in Handlers(LastSeq)
                           /\ o.at = h.at /\ o.next = h.next /\ o.upto = h.upto
  <2>1. PICK h \in hs : o = [h EXCEPT !.mine = FALSE]
    BY <1>1 DEF Orphans
  <2>2. h \in Handlers(LastSeq)
    BY DEF Fit
  <2> QED BY <2>1, <2>2, OrphanFields
<1>2. ASSUME NEW o \in Orphans(hs), NEW q \in Orphans(hs), o.at = "running", q.at = "running"
      PROVE  o = q
  <2>1. PICK h \in hs : o = [h EXCEPT !.mine = FALSE] /\ h.at = "running"
    BY <1>1, <1>2
  <2>2. PICK g \in hs : q = [g EXCEPT !.mine = FALSE] /\ g.at = "running"
    BY <1>1, <1>2
  <2>3. g = h
    BY <2>1, <2>2 DEF Fit
  <2> QED BY <2>1, <2>2, <2>3
<1>3. ASSUME NEW o \in Orphans(hs), o.at = "await" PROVE o.next \in 1..o.upto
  BY <1>1, <1>3 DEF Fit
<1> QED BY <1>1, <1>2, <1>3 DEF Fit

LEMMA FitAdd ==
    ASSUME NEW hs, Fit(hs), NEW h \in Handlers(LastSeq),
           h.at = "running" => \A g \in hs : g.at # "running",
           h.at = "await" => h.next \in 1..h.upto
    PROVE  Fit(hs \cup {h})
BY DEF Fit

LEMMA GivesUp ==
    ASSUME TypeInv, NEW h \in handlers, GiveUp(h), log' = log
    PROVE  LinkOK' /\ HandlersOK'
<1>1. LastSeq' = LastSeq /\ LastSeq \in Nat
  BY Length DEF TypeInv, LastSeq
<1>2. Fit(handlers \ {h}) /\ Fit(Orphans(handlers \ {h}))
  BY FitSubset, FitOrphans DEF TypeInv, HandlersOK
<1>3. LinkOK'
  BY <1>1, OffIsLink DEF GiveUp, Disconnect, TypeInv, LinkOK
<1>4. HandlersOK'
  BY <1>1, <1>2 DEF GiveUp, HandlersOK, Fit
<1> QED BY <1>3, <1>4

LEMMA GoesOnward ==
    ASSUME TypeInv, NEW h \in handlers, h.next \in 0..h.upto,
           h.at = "running" \/ ThreadFree
    PROVE  /\ Onward(h) \in Handlers(LastSeq) /\ Onward(h).at = "running"
           /\ Fit((handlers \ {h}) \cup {Onward(h)})
<1>1. /\ h \in Handlers(LastSeq) /\ h.upto \in 0..LastSeq /\ LastSeq \in Nat
      /\ h.at \in {"running", "await", "reset"}
  BY HandlerFields, Length DEF TypeInv
<1>2. h.next + 1 \in 0..LastSeq + 1
  BY <1>1
<1>3. Onward(h) \in Handlers(LastSeq) /\ Onward(h).at = "running"
  BY <1>1, <1>2 DEF Onward, Handlers
<1>4. \A g \in handlers \ {h} : g.at # "running"
  BY DEF TypeInv, HandlersOK, Fit, ThreadFree
<1>5. Fit(handlers \ {h})
  BY FitSubset DEF TypeInv, HandlersOK
<1> QED BY <1>3, <1>4, <1>5, FitAdd

LEMMA PassingTypes == ASSUME TypeInv, NEW h \in handlers, PassOver(h) PROVE TypeInv'
<1>1. LastSeq' = LastSeq /\ UNCHANGED <<log, page, drops, reloads>> /\ h.at = "running"
  BY DEF PassOver, LastSeq
<1>2. LogOK' /\ PageOK'
  BY <1>1 DEF TypeInv, LogOK, Clears, PageOK, page
<1>3. CASE GiveUp(h)
  BY <1>1, <1>2, <1>3, GivesUp DEF TypeInv
<1>4. CASE h.next <= h.upto /\ Becomes(h, Onward(h)) /\ UNCHANGED <<link, rounds>>
  <2>1. h.next \in 0..h.upto
    BY <1>4, HandlerFields, Length DEF TypeInv
  <2>2. Fit((handlers \ {h}) \cup {Onward(h)})
    BY <1>1, <2>1, GoesOnward
  <2> QED BY <1>1, <1>2, <1>4, <2>2 DEF Becomes, TypeInv, LinkOK, HandlersOK, Fit
<1>5. CASE handlers' = handlers \ {h} /\ UNCHANGED <<link, rounds>>
  <2>1. Fit(handlers \ {h})
    BY FitSubset DEF TypeInv, HandlersOK
  <2> QED BY <1>1, <1>2, <1>5, <2>1 DEF TypeInv, LinkOK, HandlersOK, Fit
<1> QED BY <1>3, <1>4, <1>5 DEF PassOver

(* The event a handler is at.                                              *)
LEMMA AtEvent ==
    ASSUME TypeInv, NEW h \in handlers,
           h.at = "await" \/ (h.next <= h.upto /\ h.next > applied)
    PROVE  /\ h.next \in 1..LastSeq /\ h.next \in 0..h.upto /\ h.next <= h.upto
           /\ log[h.next] \in Events
           /\ log[h.next].type \in Shows => log[h.next].comment \in Comments
<1>1. LastSeq \in Nat /\ log \in Seq(Events) /\ applied \in Nat
  BY Length DEF TypeInv, PageOK
<1>2. h.next \in 1..h.upto /\ h.upto \in 0..LastSeq
  BY <1>1, HandlerFields DEF TypeInv, HandlersOK, Fit
<1>3. h.next \in 1..LastSeq /\ h.next \in 0..h.upto
  BY <1>1, <1>2
<1>4. log[h.next] \in Events
  BY <1>1, <1>3 DEF LastSeq
<1>5. log[h.next].type \in Shows => log[h.next].comment \in Comments
  BY <1>3 DEF TypeInv, LogOK
<1> QED BY <1>2, <1>3, <1>4, <1>5

LEMMA BeginningTypes == ASSUME TypeInv, NEW h \in handlers, Begin(h) PROVE TypeInv'
<1> DEFINE e == log[h.next]
           waiting == [h EXCEPT !.at = "await"]
<1>1. /\ LastSeq' = LastSeq /\ UNCHANGED <<log, base, jumped, drops, reloads>>
      /\ h.at = "running" /\ h.next <= h.upto /\ h.next > applied
  BY DEF Begin, LastSeq
<1>2. h.next \in 1..LastSeq /\ h.next \in 0..h.upto /\ LastSeq \in Nat
  BY <1>1, AtEvent, Length DEF TypeInv
<1>3. LogOK'
  BY <1>1 DEF TypeInv, LogOK, Clears
<1>4. PageOK'
  <2>1. applied' \in {applied, h.next} /\ applied' \in 0..LastSeq
    BY <1>2 DEF Begin, Commit, TypeInv, PageOK
  <2>2. shown' \subseteq shown
    BY DEF Begin, Forget
  <2>3. remembered' \subseteq remembered \cup shown
    BY DEF Begin, Forget
  <2>4. stopped' \in BOOLEAN /\ overlapped' \in BOOLEAN
    BY DEF Begin, NotesOverlap, TypeInv, PageOK
  <2> QED BY <1>1, <2>1, <2>2, <2>3, <2>4 DEF TypeInv, PageOK
<1>5. Fit((handlers \ {h}) \cup {Onward(h)}) /\ Fit(Orphans((handlers \ {h}) \cup {Onward(h)}))
  BY <1>1, <1>2, GoesOnward, FitOrphans
<1>6. Fit((handlers \ {h}) \cup {waiting})
  <2>1. h \in Handlers(LastSeq)
    BY HandlerFields DEF TypeInv
  <2>2. waiting \in Handlers(LastSeq) /\ waiting.at = "await" /\ waiting.next = h.next
        /\ waiting.upto = h.upto
    BY <2>1 DEF Handlers
  <2>3. waiting.next \in 1..waiting.upto
    BY <1>1, <1>2, <2>1, <2>2, HandlerFields DEF TypeInv
  <2>4. Fit(handlers \ {h})
    BY FitSubset DEF TypeInv, HandlersOK
  <2> HIDE DEF waiting
  <2> QED BY <2>2, <2>3, <2>4, FitAdd
<1>7. HandlersOK'
  <2>1. \/ handlers' = (handlers \ {h}) \cup {waiting}
        \/ handlers' = (handlers \ {h}) \cup {Onward(h)}
        \/ handlers' = Orphans((handlers \ {h}) \cup {Onward(h)})
    BY DEF Begin, Becomes
  <2> HIDE DEF waiting
  <2> QED BY <1>1, <1>5, <1>6, <2>1 DEF HandlersOK, Fit
<1>8. LinkOK'
  <2>1. UNCHANGED <<link, rounds>> \/ Disconnect
    BY DEF Begin
  <2> QED BY <1>1, <1>2, <2>1, OffIsLink DEF Disconnect, TypeInv, LinkOK
<1> QED BY <1>3, <1>4, <1>7, <1>8 DEF TypeInv

LEMMA ResumingTypes == ASSUME TypeInv, NEW h \in handlers, Resume(h), ThreadFree PROVE TypeInv'
<1>1. /\ LastSeq' = LastSeq /\ h.at = "await" /\ applied' = h.next
      /\ handlers' = (handlers \ {h}) \cup {Onward(h)}
      /\ UNCHANGED <<log, rounds, link, base, jumped, overlapped, stopped, drops, reloads>>
  BY DEF Resume, LastSeq, Commit, Becomes
<1>2. /\ h.next \in 1..LastSeq /\ h.next \in 0..h.upto /\ LastSeq \in Nat
      /\ log[h.next].type \in Shows => log[h.next].comment \in Comments
  BY <1>1, AtEvent, Length DEF TypeInv
<1>3. LogOK' /\ LinkOK'
  BY <1>1 DEF TypeInv, LogOK, LinkOK, Clears
<1>4. HandlersOK'
  <2>1. Fit((handlers \ {h}) \cup {Onward(h)})
    BY <1>2, GoesOnward
  <2> QED BY <1>1, <2>1 DEF HandlersOK, Fit
<1>5. PageOK'
  <2>1. shown' \subseteq Comments /\ remembered' \subseteq Comments
    BY <1>2 DEF Resume, TypeInv, PageOK, Shows
  <2> QED BY <1>1, <1>2, <2>1 DEF TypeInv, PageOK
<1> QED BY <1>3, <1>4, <1>5 DEF TypeInv

LEMMA ReplacingTypes == ASSUME TypeInv, NEW h \in handlers, Replace(h) \/ ReplaceFails(h)
                        PROVE  TypeInv'
<1>1. LastSeq' = LastSeq /\ log' = log /\ LastSeq \in Nat
  BY Length DEF Replace, ReplaceFails, LastSeq, TypeInv
<1>2. LogOK'
  BY <1>1 DEF TypeInv, LogOK, Clears
<1>3. CASE Replace(h)
  <2>1. Fit(handlers \ {h})
    BY FitSubset DEF TypeInv, HandlersOK
  <2>2. LinkOK' /\ HandlersOK'
    BY <1>1, <1>3, <2>1 DEF Replace, TypeInv, LinkOK, HandlersOK, Fit
  <2>3. h.current \in 0..LastSeq /\ h.snapshot \subseteq Comments
    BY HandlerFields DEF TypeInv
  <2>4. PageOK'
    BY <1>1, <1>3, <2>3 DEF Replace, TypeInv, PageOK
  <2> QED BY <1>2, <2>2, <2>4 DEF TypeInv
<1>4. CASE ReplaceFails(h)
  <2>1. LinkOK' /\ HandlersOK'
    BY <1>1, <1>4, GivesUp DEF ReplaceFails
  <2>2. PageOK'
    BY <1>1, <1>4, RealtimeConstants DEF ReplaceFails, TypeInv, PageOK, page
  <2> QED BY <1>2, <2>1, <2>2 DEF TypeInv
<1> QED BY <1>3, <1>4

LEMMA LeavingTypes == ASSUME TypeInv, Drop \/ Reload PROVE TypeInv'
<1>1. LastSeq' = LastSeq /\ log' = log /\ LastSeq \in Nat
  BY Length DEF Drop, Reload, LastSeq, TypeInv
<1>2. LogOK'
  BY <1>1 DEF TypeInv, LogOK, Clears
<1>3. LinkOK'
  BY <1>1, OffIsLink DEF Drop, Reload, Disconnect, TypeInv, LinkOK
<1>4. HandlersOK'
  <2>1. Fit(Orphans(handlers)) /\ Fit({})
    BY FitOrphans DEF TypeInv, HandlersOK, Fit
  <2> QED BY <1>1, <2>1 DEF Drop, Reload, HandlersOK, Fit
<1>5. PageOK'
  <2>1. /\ applied \in 0..LastSeq /\ drops \in 0..MaxDrops /\ reloads \in 0..MaxReloads
        /\ MaxDrops \in Nat /\ MaxReloads \in Nat
    BY RealtimeConstants DEF TypeInv, PageOK
  <2>2. CASE Drop
    <3>1. drops' \in 0..MaxDrops
      BY <2>1, <2>2 DEF Drop
    <3> QED BY <1>1, <2>2, <3>1 DEF Drop, TypeInv, PageOK, page
  <2>3. CASE Reload
    <3>1. reloads' \in 0..MaxReloads
      BY <2>1, <2>3 DEF Reload
    <3> QED BY <1>1, <2>3, <3>1 DEF Reload, TypeInv, PageOK
  <2> QED BY <2>2, <2>3
<1> QED BY <1>2, <1>3, <1>4, <1>5 DEF TypeInv

(* The first message, and the messages after it.                           *)
LEMMA Receiving ==
    ASSUME LinkOK, LastSeq \in Nat, link.inbox # << >>
    PROVE  /\ Head(link.inbox) \in Messages(LastSeq)
           /\ Tail(link.inbox) \in Seq(Messages(LastSeq))
           /\ [link EXCEPT !.inbox = Tail(@)] \in Links(LastSeq)
<1>1. link.inbox \in Seq(Messages(LastSeq)) /\ link \in Links(LastSeq)
  BY LinkFields
<1>2. Head(link.inbox) \in Messages(LastSeq) /\ Tail(link.inbox) \in Seq(Messages(LastSeq))
  BY <1>1
<1> QED BY <1>1, <1>2 DEF Links

LEMMA ReceivingTypes == ASSUME TypeInv, Receive, ThreadFree PROVE TypeInv'
<1> DEFINE m == Head(link.inbox)
           rest == [link EXCEPT !.inbox = Tail(@)]
           resetting == Handler("reset", 0, 0, m.current, m.snapshot)
           syncing == Handler("running", m.first, m.upto, m.current, {})
           applying == Handler("running", m.seq, m.seq, 0, {})
<1>1. /\ LastSeq' = LastSeq /\ LastSeq \in Nat /\ link.inbox # << >>
      /\ UNCHANGED <<log, applied, base, drops, reloads>>
  BY Length DEF Receive, LastSeq, TypeInv
<1>2. m \in Messages(LastSeq) /\ rest \in Links(LastSeq)
  BY <1>1, Receiving DEF TypeInv
<1>3. m.kind = "sync" => m \in Syncs(LastSeq)
  BY <1>1, <1>2, MessageFields
<1>4. m.kind = "event" => m.seq \in 1..LastSeq
  BY <1>1, <1>2, MessageFields
<1>5. LogOK'
  BY <1>1 DEF TypeInv, LogOK, Clears
<1>6. LinkOK'
  <2>1. (link' = rest /\ rounds' = rounds) \/ Disconnect
    BY DEF Receive
  <2> HIDE DEF rest
  <2> QED BY <1>1, <1>2, <2>1, OffIsLink DEF Disconnect, TypeInv, LinkOK
<1>7. PageOK'
  <2>1. /\ jumped' \in BOOLEAN /\ overlapped' \in BOOLEAN /\ stopped' \in BOOLEAN
        /\ shown' \in {shown, {}} /\ remembered' \in {remembered, {}}
    BY DEF Receive, NotesOverlap, TypeInv, PageOK
  <2> QED BY <1>1, <2>1 DEF TypeInv, PageOK
<1>8. \A h \in handlers : h.at # "running"
  BY DEF ThreadFree
<1>9. m.kind = "sync" => Fit(handlers \cup {resetting}) /\ Fit(handlers \cup {syncing})
  <2>1. SUFFICES ASSUME m \in Syncs(LastSeq)
                 PROVE  Fit(handlers \cup {resetting}) /\ Fit(handlers \cup {syncing})
    BY <1>3
  <2>2. resetting \in Handlers(LastSeq) /\ resetting.at = "reset"
    BY <1>1, <2>1 DEF Handler, Handlers, Syncs
  <2>3. syncing \in Handlers(LastSeq) /\ syncing.at = "running"
    BY <1>1, <2>1 DEF Handler, Handlers, Syncs
  <2> HIDE DEF resetting, syncing
  <2> QED BY <1>8, <2>2, <2>3, FitAdd DEF TypeInv, HandlersOK
<1>10. m.kind = "event" => Fit(handlers \cup {applying})
  <2>1. SUFFICES ASSUME m.seq \in 1..LastSeq PROVE Fit(handlers \cup {applying})
    BY <1>4
  <2>2. applying \in Handlers(LastSeq) /\ applying.at = "running"
    BY <1>1, <2>1 DEF Handler, Handlers
  <2> HIDE DEF applying
  <2> QED BY <1>8, <2>2, FitAdd DEF TypeInv, HandlersOK
<1>11. HandlersOK'
  <2>1. \/ m.kind = "sync" /\ handlers' = handlers \cup {resetting}
        \/ m.kind = "sync" /\ handlers' = handlers \cup {syncing}
        \/ m.kind = "event" /\ handlers' = handlers \cup {applying}
        \/ handlers' = Orphans(handlers)
    BY DEF Receive
  <2>2. Fit(Orphans(handlers))
    BY FitOrphans DEF TypeInv, HandlersOK
  <2> HIDE DEF resetting, syncing, applying
  <2> QED BY <1>1, <1>9, <1>10, <2>1, <2>2 DEF HandlersOK, Fit
<1> QED BY <1>5, <1>6, <1>7, <1>11 DEF TypeInv

LEMMA TypesStay == ASSUME TypeInv, [Next]_vars PROVE TypeInv'
<1>1. CASE Running
  BY <1>1, PassingTypes, BeginningTypes DEF Running
<1>2. CASE ThreadFree /\ TeacherOrStudent
  BY <1>2, SomeEvent, Appends
<1>3. CASE RoomStep \/ Connect \/ ReadEvents \/ Accept
  BY <1>3, ConnectionTypes DEF RoomStep
<1>4. CASE ThreadFree /\ (Receive \/ Awaited)
  BY <1>4, ReceivingTypes, ResumingTypes, ReplacingTypes DEF Awaited
<1>5. CASE (\E h \in handlers : ReplaceFails(h)) \/ Drop \/ Reload
  BY <1>5, ReplacingTypes, LeavingTypes
<1>6. CASE UNCHANGED vars
  BY <1>6 DEF vars, page, TypeInv, LogOK, LinkOK, HandlersOK, Fit, PageOK, Clears, LastSeq
<1> QED BY <1>1, <1>2, <1>3, <1>4, <1>5, <1>6 DEF Next, PageStep

LEMMA TypesBegin == ASSUME Init PROVE TypeInv
<1>1. log = << >> /\ LastSeq = 0 /\ handlers = {} /\ rounds = {} /\ link = Off
  BY DEF Init, LastSeq
<1>2. LogOK
  BY <1>1, RealtimeConstants DEF LogOK, Clears
<1>3. LinkOK /\ HandlersOK
  BY <1>1, OffIsLink DEF LinkOK, HandlersOK, Fit
<1>4. PageOK
  <2>1. 0 \in 0..LastSeq /\ 0 \in 0..MaxDrops /\ 0 \in 0..MaxReloads
    BY <1>1, RealtimeConstants
  <2> QED BY <2>1 DEF Init, PageOK
<1> QED BY <1>2, <1>3, <1>4 DEF TypeInv

LEMMA TypeInvariance == Spec => []TypeInv
BY TypesBegin, TypesStay, PTL DEF Spec

(* Every variable of the log, the connection and the page keeps its type.  *)
THEOREM Typing == Spec => []TypeOK
<1>1. ASSUME TypeInv PROVE TypeOK
  <2>1. LastSeq \in Nat /\ MaxEvents \in Nat /\ LastSeq <= MaxEvents
    BY <1>1, Length DEF TypeInv, LogOK
  <2>2. Messages(MaxEvents) = MessageType /\ Links(MaxEvents) = LinkType
        /\ Handlers(MaxEvents) = HandlerType
    BY DEF Messages, Syncs, MessageType, Links, LinkType, Handlers, HandlerType
  <2>3. link \in LinkType /\ handlers \subseteq HandlerType
    BY <1>1, <2>1, <2>2, Longer DEF TypeInv, LinkOK, HandlersOK, Fit
  <2> QED BY <1>1, <2>3 DEF TypeInv, LogOK, LinkOK, HandlersOK, Fit, PageOK, TypeOK, Events
<1>2. TypeInv => TypeOK
  BY <1>1
<1> QED BY <1>2, TypeInvariance, PTL

-----------------------------------------------------------------------------
(* The messages on one connection *)

(* What has been sent is not later than lastSent, and events follow only   *)
(* what is earlier.                                                        *)
Ordered(inbox, last) ==
    \A k \in 1..Len(inbox) :
        /\ SequenceOf(inbox[k]) <= last
        /\ inbox[k].kind = "event" =>
              \A i \in 1 .. k - 1 : SequenceOf(inbox[i]) < inbox[k].seq
Order == Ordered(link.inbox, link.lastSent)

LEMMA OrderedAppend ==
    ASSUME NEW n \in Nat, NEW inbox \in Seq(Messages(n)), NEW last \in 0..n,
           Ordered(inbox, last), NEW m \in Messages(n), NEW next \in 0..n, last <= next,
           SequenceOf(m) <= next, m.kind = "event" => last < m.seq
    PROVE  Ordered(Append(inbox, m), next)
<1> DEFINE longer == Append(inbox, m)
<1>1. /\ Len(inbox) \in Nat /\ Len(longer) = Len(inbox) + 1
      /\ \A k \in 1..Len(inbox) : longer[k] = inbox[k] /\ inbox[k] \in Messages(n)
      /\ longer[Len(inbox) + 1] = m
  OBVIOUS
<1> HIDE DEF longer
<1>2. \A k \in 1..Len(inbox) : SequenceOf(inbox[k]) \in 0..n /\ SequenceOf(inbox[k]) <= last
  BY <1>1, MessageFields DEF Ordered
<1>3. m.kind = "event" => m.seq \in 1..n
  BY MessageFields
<1>4. ASSUME NEW k \in 1..Len(longer)
      PROVE  /\ SequenceOf(longer[k]) <= next
             /\ longer[k].kind = "event" =>
                   \A i \in 1 .. k - 1 : SequenceOf(longer[i]) < longer[k].seq
  <2>1. CASE k \in 1..Len(inbox)
    <3>1. SequenceOf(longer[k]) <= next
      BY <1>1, <1>2, <2>1
    <3>2. \A i \in 1 .. k - 1 : i \in 1..Len(inbox)
      BY <1>1, <2>1
    <3> QED BY <1>1, <2>1, <3>1, <3>2 DEF Ordered
  <2>2. CASE k = Len(inbox) + 1
    <3>1. \A i \in 1 .. k - 1 : i \in 1..Len(inbox)
      BY <1>1, <2>2
    <3> QED BY <1>1, <1>2, <1>3, <2>2, <3>1
  <2> QED BY <1>1, <1>4, <2>1, <2>2
<1> QED BY <1>4 DEF Ordered, longer

LEMMA OrderedTail ==
    ASSUME NEW n \in Nat, NEW inbox \in Seq(Messages(n)), inbox # << >>, NEW last,
           Ordered(inbox, last)
    PROVE  Ordered(Tail(inbox), last)
<1> DEFINE rest == Tail(inbox)
<1>1. /\ Len(inbox) \in Nat \ {0} /\ Len(rest) = Len(inbox) - 1
      /\ \A k \in 1..Len(rest) : rest[k] = inbox[k + 1]
  OBVIOUS
<1> HIDE DEF rest
<1>2. ASSUME NEW k \in 1..Len(rest)
      PROVE  /\ SequenceOf(rest[k]) <= last
             /\ rest[k].kind = "event" =>
                   \A i \in 1 .. k - 1 : SequenceOf(rest[i]) < rest[k].seq
  <2>1. k + 1 \in 1..Len(inbox) /\ rest[k] = inbox[k + 1]
    BY <1>1
  <2>2. \A i \in 1 .. k - 1 : i + 1 \in 1..(k + 1) - 1 /\ rest[i] = inbox[i + 1]
    BY <1>1
  <2> QED BY <2>1, <2>2 DEF Ordered
<1> QED BY <1>2 DEF Ordered, rest

LEMMA OffIsOrdered == Ordered(Off.inbox, Off.lastSent)
BY OffIsLink DEF Ordered

LEMMA OrderStays == ASSUME TypeInv, Order, [Next]_vars PROVE Order'
<1>1. /\ LastSeq \in Nat /\ link \in Links(LastSeq) /\ link.lastSent \in 0..LastSeq
      /\ link.current \in 0..LastSeq /\ link.inbox \in Seq(Messages(LastSeq))
      /\ rounds \subseteq 1..LastSeq
  BY Length, LinkFields DEF TypeInv
<1>2. link' = link \/ link' = Off => Order'
  BY OffIsOrdered DEF Order
<1>3. ASSUME NEW n \in rounds, Deliver(n) PROVE Order'
  <2>1. CASE link' = link
    BY <1>2, <2>1
  <2>2. CASE link' = [link EXCEPT !.lastSent = n, !.inbox = Append(@, Live(n))] /\ Unsent(n)
    <3>1. link'.lastSent = n /\ link'.inbox = Append(link.inbox, Live(n))
      BY <1>1, <2>2 DEF Links
    <3>2. Live(n) \in Messages(LastSeq) /\ SequenceOf(Live(n)) = n /\ Live(n).seq = n
      BY <1>1, LiveIsMessage
    <3>3. n \in 1..LastSeq /\ link.lastSent < n
      BY <1>1, <2>2 DEF Unsent
    <3>4. n \in 0..LastSeq /\ link.lastSent <= n /\ n <= n
      BY <1>1, <3>3
    <3> QED BY <1>1, <3>1, <3>2, <3>3, <3>4, OrderedAppend DEF Order
  <2> QED BY <1>3, <2>1, <2>2 DEF Deliver
<1>4. ASSUME CloseAllSockets PROVE Order'
  <2>1. link'.lastSent = link.lastSent /\ link'.inbox = Append(link.inbox, Close)
    BY <1>1, <1>4 DEF CloseAllSockets, Links
  <2>2. Close \in Messages(LastSeq) /\ SequenceOf(Close) = 0 /\ Close.kind # "event"
    BY <1>1, CloseIsMessage
  <2>3. 0 <= link.lastSent /\ link.lastSent <= link.lastSent
    BY <1>1
  <2> QED BY <1>1, <2>1, <2>2, <2>3, OrderedAppend DEF Order
<1>5. ASSUME Connect PROVE Order'
  <2>1. CASE link' = link
    BY <1>2, <2>1
  <2>2. CASE link' # link
    <3>1. link'.inbox = << >>
      BY <1>5, <2>2 DEF Connect, Off
    <3> QED BY <3>1 DEF Order, Ordered
  <2> QED BY <2>1, <2>2
<1>6. ASSUME ReadEvents PROVE Order'
  <2>1. link'.lastSent = link.current /\ link'.inbox = <<ReadSync>>
    BY <1>6 DEF ReadEvents, Off
  <2>2. ReadSync.kind = "sync" /\ ReadSync.current = link.current
    BY DEF ReadSync, Sync
  <2>3. SequenceOf(ReadSync) = link.current
    BY <2>2 DEF SequenceOf
  <2>4. Len(link'.inbox) = 1 /\ link'.inbox[1] = ReadSync
    BY <2>1
  <2> QED BY <1>1, <2>1, <2>2, <2>3, <2>4 DEF Order, Ordered
<1>7. ASSUME Accept PROVE Order'
  BY <1>1, <1>7 DEF Accept, Order, Links
<1>8. ASSUME Receive PROVE Order'
  <2>1. CASE link' = [link EXCEPT !.inbox = Tail(@)]
    <3>1. link'.lastSent = link.lastSent /\ link'.inbox = Tail(link.inbox)
      BY <1>1, <2>1 DEF Links
    <3>2. Ordered(Tail(link.inbox), link.lastSent)
      BY <1>1, <1>8, OrderedTail DEF Receive, Order
    <3> QED BY <3>1, <3>2 DEF Order
  <2>2. link' = [link EXCEPT !.inbox = Tail(@)] \/ link' = Off
    BY <1>8 DEF Receive, Disconnect
  <2> QED BY <1>2, <2>1, <2>2
<1>9. ASSUME NEW h \in handlers,
             PassOver(h) \/ Begin(h) \/ Resume(h) \/ Replace(h) \/ ReplaceFails(h)
      PROVE  link' = link \/ link' = Off
  BY <1>9 DEF PassOver, Begin, Resume, Replace, ReplaceFails, GiveUp, Disconnect
<1>10. TeacherOrStudent => link' = link
  BY SomeEvent DEF AppendEvent
<1>11. ASSUME NEW n \in 1..LastSeq, Broadcast(n) PROVE link' = link
  BY <1>11 DEF Broadcast
<1>12. Drop \/ Reload => link' = Off
  BY DEF Drop, Reload, Disconnect
<1>13. UNCHANGED vars => link' = link
  BY DEF vars
<1> QED BY <1>2, <1>3, <1>4, <1>5, <1>6, <1>7, <1>8, <1>9, <1>10, <1>11, <1>12, <1>13
        DEF Next, Running, RoomStep, PageStep, Awaited

(* On one connection the sequences only go up, whatever broadcasts overlap *)
(* or are repeated (broadcastEvent of comment-room.js).                    *)
THEOREM SequencesGoUp == Spec => []SentInOrder
<1>1. Init => Order
  BY OffIsOrdered DEF Init, Order
<1>2. TypeInv /\ Order /\ [Next]_vars => Order'
  BY OrderStays
<1>3. ASSUME TypeInv, Order PROVE SentInOrder
  <2>1. /\ link.inbox \in Seq(Messages(LastSeq)) /\ LastSeq \in Nat
    BY <1>3, LinkFields, Length DEF TypeInv
  <2>2. ASSUME NEW k \in 1..Len(link.inbox), link.inbox[k].kind = "event"
        PROVE  link.inbox[k].seq <= link.lastSent
    BY <1>3, <2>2 DEF Order, Ordered, SequenceOf
  <2> QED BY <1>3, <2>2 DEF Order, Ordered, SentInOrder
<1>4. TypeInv /\ Order => SentInOrder
  BY <1>3
<1> QED BY <1>1, <1>2, <1>4, TypeInvariance, PTL DEF Spec

-----------------------------------------------------------------------------
(* What a log leaves on a page *)

IsShown(l, c, i) == l[i] \in {Event(t, c) : t \in Shows}
Withdrawn(l, c, k) == l[k] = Event("message:remove", c) \/ l[k].type = "message:clear"

ViewOf(l, from, to) ==
    {c \in Comments : \E i \in from + 1 .. to :
        IsShown(l, c, i) /\ \A k \in i + 1 .. to : ~Withdrawn(l, c, k)}

(* Comments that a later event of the log shows, or that no event up to a  *)
(* has withdrawn.                                                          *)
Due(l, a) ==
    {c \in Comments : \E i \in 1..Len(l) :
        IsShown(l, c, i) /\ \A k \in i + 1 .. a : ~Withdrawn(l, c, k)}

Known(l, a) == {c \in Comments : \E i \in 1..a : l[i].comment = c}

LEMMA ViewIs == /\ \A f, t : View(f, t) = ViewOf(log, f, t)
                /\ View(base, applied)' = ViewOf(log', base', applied')
BY DEF View, ViewOf, IsShown, Withdrawn

LEMMA Entry ==
    ASSUME NEW l \in Seq(Events), NEW n \in 1..Len(l), NEW c
    PROVE  /\ l[n] \in Events
           /\ IsShown(l, c, n) <=> l[n].type \in Shows /\ l[n].comment = c
           /\ Withdrawn(l, c, n) <=> \/ l[n].type = "message:remove" /\ l[n].comment = c
                                     \/ l[n].type = "message:clear"
<1>1. l[n] \in Events
  OBVIOUS
<1>2. \A t : l[n] = Event(t, c) <=> l[n].type = t /\ l[n].comment = c
  BY <1>1 DEF Events, Event
<1> QED BY <1>1, <1>2 DEF IsShown, Withdrawn

LEMMA LaterEvents ==
    ASSUME NEW l \in Seq(Events), NEW m \in Seq(Events), Len(l) <= Len(m),
           \A i \in 1..Len(l) : m[i] = l[i],
           NEW a \in 0..Len(l)
    PROVE  /\ \A f \in Nat : ViewOf(m, f, a) = ViewOf(l, f, a)
           /\ Due(l, a) \subseteq Due(m, a) /\ Known(m, a) = Known(l, a)
<1>1. \A c : \A i \in 1..Len(l) : /\ IsShown(m, c, i) <=> IsShown(l, c, i)
                                  /\ Withdrawn(m, c, i) <=> Withdrawn(l, c, i)
  BY DEF IsShown, Withdrawn
<1>2. Len(l) \in Nat /\ Len(m) \in Nat
  OBVIOUS
<1>3. \A f \in Nat : ViewOf(m, f, a) = ViewOf(l, f, a)
  <2>1. ASSUME NEW f \in Nat, NEW i \in f + 1 .. a
        PROVE  i \in 1..Len(l) /\ \A k \in i + 1 .. a : k \in 1..Len(l)
    BY <1>2, <2>1
  <2> QED BY <1>1, <2>1 DEF ViewOf
<1>4. Due(l, a) \subseteq Due(m, a)
  <2>1. ASSUME NEW i \in 1..Len(l)
        PROVE  i \in 1..Len(m) /\ \A k \in i + 1 .. a : k \in 1..Len(l)
    BY <1>2, <2>1
  <2> QED BY <1>1, <2>1 DEF Due
<1>5. Known(m, a) = Known(l, a)
  <2>1. \A i \in 1..a : i \in 1..Len(l)
    BY <1>2
  <2> QED BY <2>1 DEF Known
<1> QED BY <1>3, <1>4, <1>5

(* One more event.                                                         *)
LEMMA NextView ==
    ASSUME NEW l \in Seq(Events), NEW n \in 1..Len(l), NEW f \in Nat, f < n,
           l[n].type \in Shows => l[n].comment \in Comments
    PROVE  /\ l[n].type \in Shows => ViewOf(l, f, n) = ViewOf(l, f, n - 1) \cup {l[n].comment}
           /\ l[n].type = "message:remove" =>
                 ViewOf(l, f, n) = ViewOf(l, f, n - 1) \ {l[n].comment}
           /\ l[n].type = "message:clear" => ViewOf(l, f, n) = {}
           /\ l[n].type \in {"settings:update", "room:closed"} =>
                 ViewOf(l, f, n) = ViewOf(l, f, n - 1)
<1>1. ASSUME NEW c \in Comments, ~Withdrawn(l, c, n), ~IsShown(l, c, n)
      PROVE  c \in ViewOf(l, f, n) <=> c \in ViewOf(l, f, n - 1)
  <2>1. ASSUME c \in ViewOf(l, f, n) PROVE c \in ViewOf(l, f, n - 1)
    <3>1. PICK i \in f + 1 .. n : IsShown(l, c, i) /\ \A k \in i + 1 .. n : ~Withdrawn(l, c, k)
      BY <2>1 DEF ViewOf
    <3>2. i # n
      BY <1>1, <3>1
    <3>3. i \in f + 1 .. n - 1 /\ \A k \in i + 1 .. n - 1 : k \in i + 1 .. n
      BY <3>2
    <3> QED BY <1>1, <3>1, <3>3 DEF ViewOf
  <2>2. ASSUME c \in ViewOf(l, f, n - 1) PROVE c \in ViewOf(l, f, n)
    <3>1. PICK i \in f + 1 .. n - 1 :
             IsShown(l, c, i) /\ \A k \in i + 1 .. n - 1 : ~Withdrawn(l, c, k)
      BY <2>2 DEF ViewOf
    <3>2. i \in f + 1 .. n /\ \A k \in i + 1 .. n : k \in i + 1 .. n - 1 \/ k = n
      OBVIOUS
    <3> QED BY <1>1, <3>1, <3>2 DEF ViewOf
  <2> QED BY <2>1, <2>2
<1>2. ASSUME NEW c \in Comments, IsShown(l, c, n) PROVE c \in ViewOf(l, f, n)
  <2>1. n \in f + 1 .. n /\ \A k \in n + 1 .. n : FALSE
    OBVIOUS
  <2> QED BY <1>2, <2>1 DEF ViewOf
<1>3. ASSUME NEW c \in Comments, Withdrawn(l, c, n), ~IsShown(l, c, n)
      PROVE  c \notin ViewOf(l, f, n)
  <2>1. \A i \in f + 1 .. n : i = n \/ n \in i + 1 .. n
    OBVIOUS
  <2> QED BY <1>3, <2>1 DEF ViewOf
<1>4. \A c : /\ IsShown(l, c, n) <=> l[n].type \in Shows /\ l[n].comment = c
             /\ Withdrawn(l, c, n) <=> \/ l[n].type = "message:remove" /\ l[n].comment = c
                                       \/ l[n].type = "message:clear"
  BY Entry
<1>5. /\ ViewOf(l, f, n) \subseteq Comments /\ ViewOf(l, f, n - 1) \subseteq Comments
      /\ \A t \in {"message:remove", "message:clear", "settings:update", "room:closed"} :
             t \notin Shows
  BY DEF ViewOf, Shows
<1> QED BY <1>1, <1>2, <1>3, <1>4, <1>5

LEMMA NextDue ==
    ASSUME NEW l \in Seq(Events), NEW n \in 1..Len(l), NEW c \in Comments
    PROVE  /\ IsShown(l, c, n) => c \in Due(l, n)
           /\ c \in Due(l, n - 1) /\ ~Withdrawn(l, c, n) => c \in Due(l, n)
<1>1. \A k \in n + 1 .. n : FALSE
  OBVIOUS
<1>2. \A i \in 1..Len(l) : \A k \in i + 1 .. n : k \in i + 1 .. n - 1 \/ k = n
  OBVIOUS
<1> QED BY <1>1, <1>2 DEF Due

LEMMA DueAtTheEnd ==
    ASSUME NEW l \in Seq(Events)
    PROVE  Due(l, Len(l)) \subseteq ViewOf(l, 0, Len(l))
BY DEF Due, ViewOf

(* An event makes its own comment known.                                   *)
LEMMA NextKnown ==
    ASSUME NEW l, NEW n \in Nat \ {0}
    PROVE  /\ Known(l, n - 1) \subseteq Known(l, n)
           /\ l[n].comment \in Comments => l[n].comment \in Known(l, n)
<1>1. n \in 1..n /\ \A i \in 1 .. n - 1 : i \in 1..n
  OBVIOUS
<1> QED BY <1>1 DEF Known

-----------------------------------------------------------------------------
(* The invariant of the page *)

(* A comment is new once.                                                  *)
News(l) ==
    \A n \in 1..Len(l) : l[n].type = "message:new" =>
        \A i \in 1 .. n - 1 : l[i].comment # l[n].comment

WaitingOf(hs) == {h \in hs : h.at \in {"await", "reset"}}
Waiting == WaitingOf(handlers)

(* What the handlers that wait for the local log have withdrawn already.   *)
PendingOf(ws, l) ==
    {l[h.next].comment : h \in {g \in ws : g.at = "await" /\ l[g.next].type = "message:remove"}}

(* The snapshots on their way have nothing withdrawn before their          *)
(* sequence; the read to come will leave out what is cleared by then.      *)
CarriedOf(inbox, l) ==
    \A k \in 1..Len(inbox) : inbox[k].kind = "sync" =>
        inbox[k].snapshot \subseteq Due(l, inbox[k].current)
Carried ==
    /\ CarriedOf(link.inbox, log)
    /\ link.phase = "asked" =>
          \A i \in 1..link.current : log[i].type = "message:clear" => i <= link.cleared
Held == \A h \in Waiting : h.at = "reset" => h.snapshot \subseteq Due(log, h.current)

(* A page that works on one message at a time: a single handler waits; it  *)
(* is at the next event, or has emptied the page for a snapshot.  Nothing  *)
(* is shown that the events applied have withdrawn.                        *)
Calm ==
    ~overlapped =>
        /\ \A g, h \in Waiting : g = h
        /\ shown \subseteq Due(log, applied)
        /\ \A h \in Waiting :
            /\ h.at = "await" =>
                /\ h.next = applied + 1 /\ log[h.next].type \in Shows \cup {"message:remove"}
                /\ log[h.next].type = "message:remove" => log[h.next].comment \notin shown
            /\ h.at = "reset" => shown = {}

(* One that takes no snapshot either shows what its events leave.          *)
Exact ==
    ~jumped /\ ~overlapped =>
        /\ base <= applied /\ \A h \in Waiting : h.at = "await"
        /\ shown = ViewOf(log, base, applied) \ PendingOf(Waiting, log)
        /\ shown \cup remembered \subseteq Known(log, applied)

PageInv == News(log) /\ Carried /\ Held /\ Calm /\ Exact

LEMMA WaitingFields ==
    ASSUME TypeInv, NEW h \in Waiting
    PROVE  /\ h \in handlers /\ h \in Handlers(LastSeq) /\ h.at \in {"await", "reset"}
           /\ h.current \in 0..LastSeq
           /\ h.at = "await" => h.next \in 1..LastSeq
<1>1. h \in handlers /\ h.at \in {"await", "reset"}
  BY DEF Waiting, WaitingOf
<1>2. h \in Handlers(LastSeq) /\ h.current \in 0..LastSeq
  BY <1>1, HandlerFields DEF TypeInv
<1> QED BY <1>1, <1>2, AtEvent

(* The log grows: what has been applied, and what waits, stays as it was.  *)
LEMMA GrowingPage == ASSUME TypeInv, PageInv, TeacherOrStudent PROVE PageInv'
<1>1. PICK e \in Events : /\ AppendEvent(e)
                          /\ e.type = "message:new" => ~Has(e.comment)
  BY SomeEvent
<1>2. /\ LastSeq \in Nat /\ LastSeq' = LastSeq + 1 /\ log' \in Seq(Events)
      /\ \A i \in 1..LastSeq : log'[i] = log[i]
      /\ log'[LastSeq + 1] = e
      /\ UNCHANGED <<rounds, link, handlers, page, drops, reloads>>
  BY <1>1, Grows
<1>3. Len(log) = LastSeq /\ Len(log') = LastSeq + 1 /\ log \in Seq(Events)
  BY <1>2, Length DEF LastSeq, TypeInv
<1>4. \A a \in 0..LastSeq : /\ \A f \in Nat : ViewOf(log', f, a) = ViewOf(log, f, a)
                            /\ Due(log, a) \subseteq Due(log', a)
                            /\ Known(log', a) = Known(log, a)
  BY <1>2, <1>3, LaterEvents
<1>5. News(log')
  <2>1. ASSUME NEW n \in 1..Len(log'), log'[n].type = "message:new", NEW i \in 1 .. n - 1
        PROVE  log'[i].comment # log'[n].comment
    <3>1. i \in 1..LastSeq /\ log'[i] = log[i]
      BY <1>2, <1>3
    <3>2. CASE n \in 1..LastSeq
      BY <1>2, <1>3, <2>1, <3>1, <3>2 DEF PageInv, News
    <3>3. CASE n = LastSeq + 1
      BY <1>1, <1>2, <2>1, <3>1, <3>3 DEF Has
    <3> QED BY <1>2, <1>3, <3>2, <3>3
  <2> QED BY <2>1 DEF News
<1>6. Carried'
  <2>1. /\ link.inbox \in Seq(Messages(LastSeq)) /\ link.current \in 0..LastSeq
    BY <1>2, LinkFields DEF TypeInv
  <2>2. ASSUME NEW k \in 1..Len(link.inbox), link.inbox[k].kind = "sync"
        PROVE  link.inbox[k].snapshot \subseteq Due(log', link.inbox[k].current)
    <3>1. link.inbox[k].current \in 0..LastSeq
      <4>1. link.inbox[k] \in Messages(LastSeq)
        BY <2>1
      <4> QED BY <1>2, <2>2, <4>1, MessageFields DEF Syncs
    <3> QED BY <1>4, <2>2, <3>1 DEF PageInv, Carried, CarriedOf
  <2>3. \A i \in 1..link.current : log'[i] = log[i]
    BY <1>2, <2>1
  <2> QED BY <1>2, <2>2, <2>3 DEF PageInv, Carried, CarriedOf
<1>7. Waiting' = Waiting
  BY <1>2 DEF Waiting
<1>8. \A h \in Waiting : h.at = "await" => log'[h.next] = log[h.next]
  BY <1>2, WaitingFields
<1>9. PendingOf(Waiting, log') = PendingOf(Waiting, log)
  BY <1>8 DEF PendingOf
<1>10. applied \in 0..LastSeq /\ base \in 0..LastSeq /\ base \in Nat /\ UNCHANGED page
  BY <1>2 DEF TypeInv, PageOK
<1>11. Held'
  BY <1>4, <1>7, WaitingFields DEF PageInv, Held
<1>12. Calm'
  BY <1>4, <1>7, <1>8, <1>10 DEF PageInv, Calm, page
<1>13. Exact'
  <2>1. PendingOf(Waiting', log') = PendingOf(Waiting, log)
    BY <1>7, <1>9
  <2>2. /\ ViewOf(log', base, applied) = ViewOf(log, base, applied)
        /\ Known(log', applied) = Known(log, applied)
    BY <1>4, <1>10
  <2> QED BY <1>7, <1>10, <2>1, <2>2 DEF PageInv, Exact, page
<1> QED BY <1>5, <1>6, <1>11, <1>12, <1>13 DEF PageInv

-----------------------------------------------------------------------------
(* Snapshots *)

LEMMA CarriedAppend ==
    ASSUME NEW n, NEW inbox \in Seq(Messages(n)), NEW l, CarriedOf(inbox, l),
           NEW m \in Messages(n), m.kind # "sync"
    PROVE  CarriedOf(Append(inbox, m), l)
<1> DEFINE longer == Append(inbox, m)
<1>1. /\ Len(inbox) \in Nat /\ Len(longer) = Len(inbox) + 1
      /\ \A k \in 1..Len(inbox) : longer[k] = inbox[k]
      /\ longer[Len(inbox) + 1] = m
  OBVIOUS
<1> HIDE DEF longer
<1>2. \A k \in 1..Len(longer) : k \in 1..Len(inbox) \/ k = Len(inbox) + 1
  BY <1>1
<1>3. CarriedOf(longer, l)
  BY <1>1, <1>2 DEF CarriedOf
<1> QED BY <1>3 DEF longer

LEMMA CarriedTail ==
    ASSUME NEW n, NEW inbox \in Seq(Messages(n)), inbox # << >>, NEW l, CarriedOf(inbox, l)
    PROVE  /\ CarriedOf(Tail(inbox), l)
           /\ Head(inbox).kind = "sync" =>
                 Head(inbox).snapshot \subseteq Due(l, Head(inbox).current)
<1> DEFINE rest == Tail(inbox)
<1>1. /\ Len(inbox) \in Nat \ {0} /\ Len(rest) = Len(inbox) - 1 /\ Head(inbox) = inbox[1]
      /\ \A k \in 1..Len(rest) : rest[k] = inbox[k + 1]
  OBVIOUS
<1> HIDE DEF rest
<1>2. 1 \in 1..Len(inbox) /\ \A k \in 1..Len(rest) : k + 1 \in 1..Len(inbox)
  BY <1>1
<1>3. CarriedOf(rest, l)
  BY <1>1, <1>2 DEF CarriedOf
<1> QED BY <1>1, <1>2, <1>3 DEF CarriedOf, rest

(* The visible comments that were shown after the last clear of the first  *)
(* read: none of them is withdrawn again before its sequence.              *)
LEMMA SnapshotIsDue ==
    ASSUME TypeInv, NEW cleared \in 0..LastSeq, NEW current \in 0..LastSeq,
           \A i \in 1..current : log[i].type = "message:clear" => i <= cleared
    PROVE  Snapshot(cleared) \subseteq Due(log, current)
<1>1. LastSeq \in Nat /\ log \in Seq(Events) /\ Len(log) = LastSeq
  BY Length DEF TypeInv, LastSeq
<1>2. ASSUME NEW c \in Snapshot(cleared) PROVE c \in Due(log, current)
  <2>1. c \in Comments
    BY DEF Snapshot, Visible
  <2>2. PICK i \in 1..LastSeq : /\ IsShown(log, c, i)
                                /\ \A k \in i + 1 .. LastSeq : log[k] # Event("message:remove", c)
    BY DEF Snapshot, Visible, IsShown
  <2>3. PICK j \in cleared + 1 .. LastSeq : IsShown(log, c, j)
    BY DEF Snapshot, IsShown
  <2>4. ASSUME NEW s \in {i, j}, i <= s, j <= s PROVE c \in Due(log, current)
    <3>1. s \in 1..LastSeq /\ IsShown(log, c, s)
      BY <1>1, <2>2, <2>3
    <3>2. ASSUME NEW k \in s + 1 .. current PROVE ~Withdrawn(log, c, k)
      <4>1. k \in i + 1 .. LastSeq /\ k \in 1..current /\ ~(k <= cleared)
        BY <1>1, <2>4
      <4> QED BY <2>2, <4>1 DEF Withdrawn
    <3> QED BY <1>1, <2>1, <3>1, <3>2 DEF Due
  <2>5. i <= j \/ j <= i
    BY <1>1
  <2>6. i <= i /\ j <= j
    BY <1>1
  <2> QED BY <2>4, <2>5, <2>6
<1> QED BY <1>2

LEMMA NothingCarried == \A l : CarriedOf(Off.inbox, l) /\ CarriedOf(<< >>, l)
BY OffIsLink DEF CarriedOf

LEMMA CarriedStays == ASSUME TypeInv, Carried, [Next]_vars, ~TeacherOrStudent PROVE Carried'
<1>1. /\ LastSeq \in Nat /\ link \in Links(LastSeq) /\ link.inbox \in Seq(Messages(LastSeq))
      /\ link.current \in 0..LastSeq /\ link.cleared \in 0..LastSeq /\ rounds \subseteq 1..LastSeq
  BY Length, LinkFields DEF TypeInv
<1>2. UNCHANGED log
  BY DEF Next, Running, RoomStep, PageStep, Awaited, PassOver, Begin, Resume, Replace,
         ReplaceFails, Broadcast, Deliver, CloseAllSockets, Connect, ReadEvents, Accept, Receive,
         Drop, Reload, vars
<1>3. ASSUME link' = link \/ link' = Off PROVE Carried'
  <2>1. Off.phase # "asked"
    BY OffIsLink
  <2> QED BY <1>2, <1>3, <2>1, NothingCarried DEF Carried
<1>4. ASSUME NEW n \in rounds, Deliver(n) PROVE Carried'
  <2>1. CASE link' = link
    BY <1>3, <2>1
  <2>2. CASE link' = [link EXCEPT !.lastSent = n, !.inbox = Append(@, Live(n))] /\ SocketOpen
    <3>1. link'.phase = "open" /\ link'.inbox = Append(link.inbox, Live(n))
      BY <1>1, <2>2 DEF Links, SocketOpen
    <3>2. Live(n) \in Messages(LastSeq) /\ Live(n).kind # "sync"
      BY <1>1, LiveIsMessage
    <3> QED BY <1>1, <1>2, <3>1, <3>2, CarriedAppend DEF Carried
  <2> QED BY <1>4, <2>1, <2>2 DEF Deliver
<1>5. ASSUME CloseAllSockets PROVE Carried'
  <2>1. link'.phase = "open" /\ link'.inbox = Append(link.inbox, Close)
    BY <1>1, <1>5 DEF CloseAllSockets, SocketOpen, Links
  <2>2. Close \in Messages(LastSeq) /\ Close.kind # "sync"
    BY <1>1, CloseIsMessage
  <2> QED BY <1>1, <1>2, <2>1, <2>2, CarriedAppend DEF Carried
<1>6. ASSUME Connect PROVE Carried'
  <2>1. CASE link' = link
    BY <1>3, <2>1
  <2>2. CASE link' # link
    <3>1. link'.inbox = << >> /\ link'.current = LastSeq /\ link'.cleared = LastClear
      BY <1>6, <2>2 DEF Connect, Off
    <3> QED BY <1>2, <3>1, TheLastClear, NothingCarried DEF Carried, TypeInv
  <2> QED BY <2>1, <2>2
<1>7. ASSUME ReadEvents PROVE Carried'
  <2>1. link'.phase = "read" /\ link'.inbox = <<ReadSync>> /\ link.phase = "asked"
    BY <1>7 DEF ReadEvents, Off
  <2>2. ReadSync.current = link.current /\ ReadSync.snapshot \in {{}, Snapshot(link.cleared)}
    BY DEF ReadSync, Sync
  <2>3. Snapshot(link.cleared) \subseteq Due(log, link.current)
    BY <1>1, <2>1, SnapshotIsDue DEF Carried
  <2>4. Len(link'.inbox) = 1 /\ link'.inbox[1] = ReadSync
    BY <2>1
  <2> QED BY <1>2, <2>1, <2>2, <2>3, <2>4 DEF Carried, CarriedOf
<1>8. ASSUME Accept PROVE Carried'
  BY <1>1, <1>2, <1>8 DEF Accept, Carried, Links
<1>9. ASSUME Receive PROVE Carried'
  <2>1. CASE link' = [link EXCEPT !.inbox = Tail(@)]
    <3>1. /\ link'.phase = "open" /\ link.inbox # << >>
          /\ link'.inbox = Tail(link.inbox)
      BY <1>1, <1>9, <2>1 DEF Receive, Links
    <3>2. CarriedOf(Tail(link.inbox), log)
      BY <1>1, <3>1, CarriedTail DEF Carried
    <3> QED BY <1>2, <3>1, <3>2 DEF Carried
  <2>2. link' = [link EXCEPT !.inbox = Tail(@)] \/ link' = Off
    BY <1>9 DEF Receive, Disconnect
  <2> QED BY <1>3, <2>1, <2>2
<1>10. ASSUME NEW h \in handlers,
             PassOver(h) \/ Begin(h) \/ Resume(h) \/ Replace(h) \/ ReplaceFails(h)
       PROVE  link' = link \/ link' = Off
  BY <1>10 DEF PassOver, Begin, Resume, Replace, ReplaceFails, GiveUp, Disconnect
<1>11. ASSUME NEW n \in 1..LastSeq, Broadcast(n) PROVE link' = link
  BY <1>11 DEF Broadcast
<1>12. Drop \/ Reload => link' = Off
  BY DEF Drop, Reload, Disconnect
<1>13. UNCHANGED vars => link' = link
  BY DEF vars
<1> QED BY <1>3, <1>4, <1>5, <1>6, <1>7, <1>8, <1>9, <1>10, <1>11, <1>12, <1>13
        DEF Next, Running, RoomStep, PageStep, Awaited

-----------------------------------------------------------------------------
(* Handlers that leave the page as it is *)

LEMMA WaitingOrphans ==
    ASSUME NEW n, NEW hs \in SUBSET Handlers(n)
    PROVE  WaitingOf(Orphans(hs)) = Orphans(WaitingOf(hs))
<1>1. ASSUME NEW h \in hs PROVE [h EXCEPT !.mine = FALSE].at = h.at
  BY OrphanFields
<1> QED BY <1>1 DEF WaitingOf, Orphans

LEMMA WaitingOthers ==
    ASSUME NEW h
    PROVE  /\ WaitingOf(handlers \ {h}) = Waiting \ {h}
           /\ h.at = "running" => Waiting \ {h} = Waiting
           /\ \A g : g.at = "running" => WaitingOf((handlers \ {h}) \cup {g}) = Waiting \ {h}
           /\ \A g : g.at \in {"await", "reset"} =>
                 WaitingOf((handlers \ {h}) \cup {g}) = (Waiting \ {h}) \cup {g}
BY DEF WaitingOf, Waiting

(* Handlers lose their connection; those of a snapshot may give up.        *)
LEMMA Fades ==
    ASSUME TypeInv, Held, Calm, Exact,
           UNCHANGED <<log, applied, base, jumped, overlapped, shown, remembered>>,
           NEW ws \in SUBSET Waiting, \A h \in Waiting \ ws : h.at = "reset",
           Waiting' \in {ws, Orphans(ws)}
    PROVE  Held' /\ Calm' /\ Exact'
<1> DEFINE Same(o, h) == /\ o.at = h.at /\ o.next = h.next /\ o.current = h.current
                         /\ o.snapshot = h.snapshot
<1>1. ASSUME NEW h \in ws PROVE h \in Waiting /\ Same([h EXCEPT !.mine = FALSE], h)
  BY WaitingFields, OrphanFields
<1>2. \A o \in Waiting' : \E h \in ws : h \in Waiting /\ Same(o, h)
  <2>1. CASE Waiting' = ws
    BY <1>1, <2>1
  <2>2. CASE Waiting' = Orphans(ws)
    <3>1. SUFFICES ASSUME NEW o \in Orphans(ws)
                   PROVE  \E h \in ws : h \in Waiting /\ Same(o, h)
      BY <2>2
    <3>2. PICK h \in ws : o = [h EXCEPT !.mine = FALSE]
      BY DEF Orphans
    <3>3. h \in Waiting /\ Same(o, h)
      BY <1>1, <3>2
    <3> QED BY <3>3
  <2> QED BY <2>1, <2>2
<1>3. \A h \in ws : \E o \in Waiting' : Same(o, h)
  BY <1>1 DEF Orphans
<1> HIDE DEF Same
<1>4. (\A g, h \in Waiting : g = h) => \A g, h \in Waiting' : g = h
  <2>1. CASE Waiting' = ws
    BY <2>1
  <2>2. CASE Waiting' = Orphans(ws)
    <3>1. SUFFICES ASSUME \A g, h \in Waiting : g = h,
                          NEW o \in Orphans(ws), NEW q \in Orphans(ws)
                   PROVE  o = q
      BY <2>2
    <3>2. PICK h \in ws : o = [h EXCEPT !.mine = FALSE]
      BY DEF Orphans
    <3>3. PICK g \in ws : q = [g EXCEPT !.mine = FALSE]
      BY DEF Orphans
    <3>4. g = h
      BY <3>1
    <3> QED BY <3>2, <3>3, <3>4
  <2> QED BY <2>1, <2>2
<1>5. PendingOf(Waiting', log) = PendingOf(Waiting, log)
  <2>1. ASSUME NEW c \in PendingOf(Waiting', log) PROVE c \in PendingOf(Waiting, log)
    <3>1. PICK o \in Waiting' : /\ o.at = "await" /\ log[o.next].type = "message:remove"
                                /\ c = log[o.next].comment
      BY DEF PendingOf
    <3>2. PICK h \in Waiting : Same(o, h)
      BY <1>2
    <3> QED BY <3>1, <3>2 DEF PendingOf, Same
  <2>2. ASSUME NEW c \in PendingOf(Waiting, log) PROVE c \in PendingOf(Waiting', log)
    <3>1. PICK h \in Waiting : /\ h.at = "await" /\ log[h.next].type = "message:remove"
                               /\ c = log[h.next].comment
      BY DEF PendingOf
    <3>2. h \in ws
      BY <3>1
    <3>3. PICK o \in Waiting' : Same(o, h)
      BY <1>3, <3>2
    <3> QED BY <3>1, <3>3 DEF PendingOf, Same
  <2> QED BY <2>1, <2>2
<1>6. Held'
  BY <1>2 DEF Held, Same
<1>7. Calm'
  <2>1. ASSUME ~overlapped, NEW o \in Waiting'
        PROVE  /\ o.at = "await" =>
                   /\ o.next = applied + 1 /\ log[o.next].type \in Shows \cup {"message:remove"}
                   /\ log[o.next].type = "message:remove" => log[o.next].comment \notin shown
               /\ o.at = "reset" => shown = {}
    <3>1. PICK h \in Waiting : Same(o, h)
      BY <1>2
    <3> QED BY <2>1, <3>1 DEF Calm, Same
  <2> QED BY <1>4, <2>1 DEF Calm
<1>8. Exact'
  <2>1. (\A h \in Waiting : h.at = "await") => \A o \in Waiting' : o.at = "await"
    BY <1>2 DEF Same
  <2>2. PendingOf(Waiting', log') = PendingOf(Waiting, log)
    BY <1>5
  <2>3. /\ ViewOf(log', base', applied') = ViewOf(log, base, applied)
        /\ Known(log', applied') = Known(log, applied)
    OBVIOUS
  <2> QED BY <2>1, <2>2, <2>3 DEF Exact
<1> QED BY <1>6, <1>7, <1>8

LEMMA GivingUpPage ==
    ASSUME TypeInv, Held, Calm, Exact,
           UNCHANGED <<log, applied, base, jumped, overlapped, shown, remembered>>,
           NEW h \in handlers, h.at # "await", GiveUp(h)
    PROVE  Held' /\ Calm' /\ Exact'
<1>1. handlers' = handlers \ {h} \/ handlers' = Orphans(handlers \ {h})
  BY DEF GiveUp
<1>2. handlers \ {h} \in SUBSET Handlers(LastSeq)
  BY DEF TypeInv, HandlersOK, Fit
<1>3. Waiting' = WaitingOf(handlers')
  BY DEF Waiting, WaitingOf
<1>4. WaitingOf(Orphans(handlers \ {h})) = Orphans(WaitingOf(handlers \ {h}))
  BY <1>2, WaitingOrphans
<1>5. Waiting' \in {Waiting \ {h}, Orphans(Waiting \ {h})}
  BY <1>1, <1>3, <1>4, WaitingOthers
<1>6. \A g \in Waiting \ (Waiting \ {h}) : g.at = "reset"
  BY DEF Waiting, WaitingOf
<1> QED BY <1>5, <1>6, Fades

LEMMA PassingPage ==
    ASSUME TypeInv, Held, Calm, Exact, NEW h \in handlers, PassOver(h)
    PROVE  Held' /\ Calm' /\ Exact'
<1>1. /\ UNCHANGED <<log, applied, base, jumped, overlapped, shown, remembered>>
      /\ h.at = "running"
  BY DEF PassOver, page
<1>2. CASE GiveUp(h)
  BY <1>1, <1>2, GivingUpPage
<1>3. CASE Becomes(h, Onward(h)) \/ handlers' = handlers \ {h}
  <2>1. Onward(h).at = "running"
    <3>1. h \in Handlers(LastSeq)
      BY DEF TypeInv, HandlersOK, Fit
    <3> QED BY <3>1 DEF Onward, Handlers
  <2>2. Waiting' = WaitingOf(handlers')
    BY DEF Waiting, WaitingOf
  <2>3. /\ WaitingOf(handlers \ {h}) = Waiting
        /\ WaitingOf((handlers \ {h}) \cup {Onward(h)}) = Waiting
    BY <1>1, <2>1, WaitingOthers
  <2>4. Waiting' = Waiting
    BY <1>3, <2>2, <2>3 DEF Becomes
  <2> QED BY <1>1, <2>4, Fades
<1> QED BY <1>2, <1>3 DEF PassOver

LEMMA LosingPage ==
    ASSUME TypeInv, Held, Calm, Exact, handlers' = Orphans(handlers),
           UNCHANGED <<log, applied, base, jumped, overlapped, shown, remembered>>
    PROVE  Held' /\ Calm' /\ Exact'
<1>1. WaitingOf(Orphans(handlers)) = Orphans(Waiting)
  BY WaitingOrphans DEF TypeInv, HandlersOK, Fit, Waiting
<1>2. Waiting' = Orphans(Waiting)
  BY <1>1 DEF Waiting, WaitingOf
<1> QED BY <1>2, Fades

-----------------------------------------------------------------------------
(* Handlers at work *)

LEMMA PageFields ==
    ASSUME TypeInv
    PROVE  /\ LastSeq \in Nat /\ log \in Seq(Events) /\ Len(log) = LastSeq
           /\ applied \in 0..LastSeq /\ base \in 0..LastSeq /\ base \in Nat
           /\ overlapped \in BOOLEAN /\ jumped \in BOOLEAN
           /\ shown \subseteq Comments /\ remembered \subseteq Comments
BY Length DEF TypeInv, PageOK, LastSeq

LEMMA ReceivingPage ==
    ASSUME TypeInv, Carried, Held, Calm, Exact, Receive
    PROVE  Held' /\ Calm' /\ Exact'
<1> DEFINE m == Head(link.inbox)
           resetting == Handler("reset", 0, 0, m.current, m.snapshot)
<1>1. link.inbox # << >> /\ log' = log /\ UNCHANGED <<applied, base>>
  BY DEF Receive
<1>2. CASE m.kind = "sync" /\ m.reset /\ jumped' = TRUE /\ shown' = {} /\ NotesOverlap(resetting)
           /\ handlers' = handlers \cup {resetting}
  <2>1. m.snapshot \subseteq Due(log, m.current)
    BY <1>1, <1>2, CarriedTail, LinkFields DEF TypeInv, Carried
  <2>2. /\ resetting.at = "reset" /\ resetting.snapshot = m.snapshot
        /\ resetting.current = m.current
    BY DEF Handler
  <2> HIDE DEF resetting
  <2>3. Waiting' = Waiting \cup {resetting}
    BY <1>2, <2>2 DEF Waiting, WaitingOf
  <2>4. ~overlapped' => Waiting' = {resetting}
    BY <1>2, <2>3 DEF NotesOverlap, Waiting, WaitingOf
  <2>5. Held'
    BY <1>1, <2>1, <2>2, <2>3 DEF Held
  <2>6. Calm'
    BY <1>2, <2>2, <2>4 DEF Calm
  <2>7. Exact'
    BY <1>2 DEF Exact
  <2> QED BY <2>5, <2>6, <2>7
<1>3. ASSUME NEW g, g.at = "running", handlers' = handlers \cup {g},
             UNCHANGED <<jumped, overlapped, shown, remembered>>
      PROVE  Held' /\ Calm' /\ Exact'
  <2>1. Waiting' = Waiting
    BY <1>3 DEF Waiting, WaitingOf
  <2> QED BY <1>1, <1>3, <2>1, Fades
<1>4. CASE handlers' = Orphans(handlers) /\ UNCHANGED <<jumped, overlapped, shown, remembered>>
  BY <1>1, <1>4, LosingPage
<1>5. Handler("running", m.first, m.upto, m.current, {}).at = "running"
      /\ Handler("running", m.seq, m.seq, 0, {}).at = "running"
  BY DEF Handler
<1> QED BY <1>2, <1>3, <1>4, <1>5 DEF Receive

(* An event that is committed without an await: nothing else waits, but    *)
(* for a snapshot.                                                         *)
LEMMA CommittingPage ==
    ASSUME TypeInv, Held, Calm, Exact, NEW n \in 1..LastSeq, n = applied + 1, applied' = n,
           log[n].type \in {"message:clear", "settings:update", "room:closed"},
           UNCHANGED <<log, base, jumped, overlapped>>,
           \/ /\ log[n].type = "message:clear"
              /\ shown' = {} /\ remembered' \subseteq remembered \cup shown
           \/ log[n].type # "message:clear" /\ UNCHANGED <<shown, remembered>>,
           Waiting' \in {Waiting, Orphans(Waiting)}
    PROVE  Held' /\ Calm' /\ Exact'
<1>1. /\ LastSeq \in Nat /\ log \in Seq(Events) /\ Len(log) = LastSeq /\ applied = n - 1
      /\ base \in Nat /\ applied \in Nat
  BY PageFields
<1>2. log[n].type \notin Shows /\ log[n].type # "message:remove"
  BY DEF Shows
<1>3. ASSUME NEW o \in Waiting'
      PROVE  \E h \in Waiting : /\ o.at = h.at /\ o.next = h.next /\ o.current = h.current
                                /\ o.snapshot = h.snapshot
  <2>1. CASE o \in Waiting
    BY <2>1
  <2>2. CASE o \in Orphans(Waiting)
    <3>1. PICK h \in Waiting : o = [h EXCEPT !.mine = FALSE]
      BY <2>2 DEF Orphans
    <3> QED BY <3>1, WaitingFields, OrphanFields
  <2> QED BY <2>1, <2>2
<1>4. (\A g, h \in Waiting : g = h) => \A g, h \in Waiting' : g = h
  <2>1. CASE Waiting' = Waiting
    BY <2>1
  <2>2. CASE Waiting' = Orphans(Waiting)
    <3>1. SUFFICES ASSUME \A g, h \in Waiting : g = h,
                          NEW o \in Orphans(Waiting), NEW q \in Orphans(Waiting)
                   PROVE  o = q
      BY <2>2
    <3>2. PICK h \in Waiting : o = [h EXCEPT !.mine = FALSE]
      BY DEF Orphans
    <3>3. PICK g \in Waiting : q = [g EXCEPT !.mine = FALSE]
      BY DEF Orphans
    <3>4. g = h
      BY <3>1
    <3> QED BY <3>2, <3>3, <3>4
  <2> QED BY <2>1, <2>2
<1>5. ~overlapped => \A h \in Waiting : h.at = "reset" /\ shown = {}
  BY <1>1, <1>2, WaitingFields DEF Calm
<1>6. Held'
  BY <1>3 DEF Held
<1>7. ~overlapped => shown' \subseteq Due(log, n)
  <2>1. SUFFICES ASSUME ~overlapped, NEW c \in shown', log[n].type # "message:clear"
                 PROVE  c \in Due(log, n)
    OBVIOUS
  <2>2. c \in shown /\ c \in Due(log, n - 1) /\ c \in Comments
    BY <1>1, <2>1, PageFields DEF Calm
  <2>3. ~Withdrawn(log, c, n)
    BY <1>1, <1>2, <2>1, Entry
  <2> QED BY <1>1, <2>2, <2>3, NextDue
<1>8. ~overlapped => \A o \in Waiting' : o.at = "reset" /\ shown' = {}
  BY <1>3, <1>5
<1>9. Calm'
  BY <1>4, <1>7, <1>8 DEF Calm
<1>10. Exact'
  <2>1. SUFFICES ASSUME ~jumped, ~overlapped
                 PROVE  /\ base <= n /\ \A h \in Waiting' : h.at = "await"
                        /\ shown' = ViewOf(log, base, n) \ PendingOf(Waiting', log)
                        /\ shown' \cup remembered' \subseteq Known(log, n)
    BY DEF Exact
  <2>2. Waiting = {}
    BY <1>5, <2>1 DEF Exact
  <2>3. Waiting' = {}
    BY <1>3, <2>2
  <2>4. PendingOf({}, log) = {}
    BY DEF PendingOf
  <2>5. /\ base <= n - 1 /\ shown = ViewOf(log, base, n - 1)
        /\ shown \cup remembered \subseteq Known(log, n - 1)
    BY <1>1, <2>1, <2>2, <2>4 DEF Exact
  <2>6. base < n
    BY <1>1, <2>5
  <2>7. shown' = ViewOf(log, base, n)
    BY <1>1, <1>2, <2>5, <2>6, NextView
  <2>8. shown' \cup remembered' \subseteq Known(log, n)
    BY <1>1, <2>5, NextKnown
  <2> QED BY <2>3, <2>4, <2>6, <2>7, <2>8, <1>1
<1> QED BY <1>6, <1>9, <1>10

LEMMA BeginningPage ==
    ASSUME TypeInv, Held, Calm, Exact, NEW h \in handlers, Begin(h)
    PROVE  Held' /\ Calm' /\ Exact'
<1> DEFINE n == h.next
           e == log[n]
           w == [h EXCEPT !.at = "await"]
<1>1. /\ h.at = "running" /\ n = applied + 1 /\ n \in 1..LastSeq /\ h \in Handlers(LastSeq)
      /\ UNCHANGED <<log, base, jumped>>
  BY AtEvent DEF Begin, Follows, TypeInv, HandlersOK, Fit
<1>2. Waiting' = WaitingOf(handlers')
  BY DEF Waiting, WaitingOf
<1>3. ASSUME e.type \in {"message:clear", "settings:update", "room:closed"},
             applied' = n, overlapped' = overlapped,
             \/ /\ e.type = "message:clear"
                /\ shown' = {} /\ remembered' \subseteq remembered \cup shown
             \/ e.type # "message:clear" /\ UNCHANGED <<shown, remembered>>,
             handlers' \in {(handlers \ {h}) \cup {Onward(h)},
                            Orphans((handlers \ {h}) \cup {Onward(h)})}
      PROVE  Held' /\ Calm' /\ Exact'
  <2>1. h.next \in 0..h.upto
    BY <1>1, AtEvent DEF Begin
  <2>2. /\ Onward(h).at = "running"
        /\ (handlers \ {h}) \cup {Onward(h)} \in SUBSET Handlers(LastSeq)
    BY <1>1, <2>1, GoesOnward DEF Fit
  <2>3. WaitingOf((handlers \ {h}) \cup {Onward(h)}) = Waiting
    BY <1>1, <2>2, WaitingOthers
  <2>4. Waiting' \in {Waiting, Orphans(Waiting)}
    BY <1>2, <1>3, <2>2, <2>3, WaitingOrphans
  <2> QED BY <1>1, <1>3, <2>4, CommittingPage
<1>4. ASSUME e.type \in Shows \cup {"message:remove"}, applied' = applied,
             handlers' = (handlers \ {h}) \cup {w}, NotesOverlap(h),
             \/ e.type \in Shows /\ UNCHANGED <<shown, remembered>>
             \/ e.type = "message:remove" /\ Forget(e.comment)
      PROVE  Held' /\ Calm' /\ Exact'
  <2>1. w.at = "await" /\ w.next = n
    BY <1>1 DEF Handlers
  <2> HIDE DEF w
  <2>2. Waiting' = Waiting \cup {w}
    <3>1. w.at \in {"await", "reset"}
      BY <2>1
    <3>2. WaitingOf((handlers \ {h}) \cup {w}) = (Waiting \ {h}) \cup {w}
      BY <3>1 DEF WaitingOf, Waiting
    <3>3. Waiting \ {h} = Waiting
      BY <1>1, WaitingOthers
    <3> QED BY <1>2, <1>4, <3>2, <3>3
  <2>3. ~overlapped' => ~overlapped /\ Waiting = {}
    BY <1>1, <1>4 DEF NotesOverlap, Waiting, WaitingOf
  <2>4. Held'
    BY <1>1, <2>1, <2>2 DEF Held
  <2>5. shown' \subseteq shown /\ (e.type = "message:remove" => e.comment \notin shown')
    BY <1>4 DEF Forget, Shows
  <2>6. Calm'
    <3>1. SUFFICES ASSUME ~overlapped'
                   PROVE  /\ \A g, q \in Waiting' : g = q
                          /\ shown' \subseteq Due(log, applied)
                          /\ w.next = applied + 1 /\ w.at = "await"
                          /\ log[w.next].type \in Shows \cup {"message:remove"}
                          /\ log[w.next].type = "message:remove" => log[w.next].comment \notin shown'
      BY <1>1, <1>4, <2>2, <2>3 DEF Calm
    <3>2. Waiting' = {w} /\ ~overlapped
      BY <2>2, <2>3, <3>1
    <3> QED BY <1>1, <1>4, <2>1, <2>5, <3>2 DEF Calm
  <2>7. Exact'
    <3>1. SUFFICES ASSUME ~jumped, ~overlapped'
                   PROVE  /\ base <= applied /\ \A g \in Waiting' : g.at = "await"
                          /\ shown' = ViewOf(log, base, applied) \ PendingOf(Waiting', log)
                          /\ shown' \cup remembered' \subseteq Known(log, applied)
      BY <1>1, <1>4 DEF Exact
    <3>2. Waiting' = {w} /\ ~overlapped /\ Waiting = {}
      BY <2>2, <2>3, <3>1
    <3>3. PendingOf({}, log) = {}
      BY DEF PendingOf
    <3>4. /\ base <= applied /\ shown = ViewOf(log, base, applied)
          /\ shown \cup remembered \subseteq Known(log, applied)
      BY <3>1, <3>2, <3>3 DEF Exact
    <3>5. CASE e.type \in Shows
      <4>1. e.type # "message:remove"
        BY <3>5 DEF Shows
      <4>2. PendingOf({w}, log) = {}
        BY <2>1, <4>1 DEF PendingOf
      <4> QED BY <1>4, <2>1, <3>2, <3>4, <4>1, <4>2
    <3>6. CASE e.type = "message:remove"
      <4>1. PendingOf({w}, log) = {e.comment}
        BY <2>1, <3>6 DEF PendingOf
      <4>2. shown' = shown \ {e.comment} /\ remembered' = remembered \ {e.comment}
        BY <1>4, <3>6 DEF Forget, Shows
      <4> QED BY <2>1, <3>2, <3>4, <4>1, <4>2
    <3> QED BY <1>4, <3>5, <3>6
  <2> QED BY <2>4, <2>6, <2>7
<1>5. CASE e.type \in Shows \cup {"message:remove"}
  <2>1. e.type \notin {"message:clear", "settings:update", "room:closed"}
    BY <1>5 DEF Shows
  <2>2. /\ applied' = applied /\ handlers' = (handlers \ {h}) \cup {w} /\ NotesOverlap(h)
        /\ \/ e.type \in Shows /\ UNCHANGED <<shown, remembered>>
           \/ e.type = "message:remove" /\ Forget(e.comment)
    BY <2>1 DEF Begin, Becomes
  <2> HIDE DEF w
  <2> QED BY <1>4, <1>5, <2>2
<1>6. CASE e.type \in {"message:clear", "settings:update", "room:closed"}
  <2>1. e.type \notin Shows \cup {"message:remove"}
    BY <1>6 DEF Shows
  <2>2. /\ applied' = n /\ overlapped' = overlapped
        /\ handlers' \in {(handlers \ {h}) \cup {Onward(h)},
                          Orphans((handlers \ {h}) \cup {Onward(h)})}
    BY <2>1 DEF Begin, Becomes, Commit
  <2>3. \/ e.type = "message:clear" /\ shown' = {} /\ remembered' \subseteq remembered \cup shown
        \/ e.type # "message:clear" /\ UNCHANGED <<shown, remembered>>
    BY <1>6, <2>1 DEF Begin
  <2> QED BY <1>3, <1>6, <2>2, <2>3
<1> QED BY <1>1, <1>5, <1>6 DEF Begin

LEMMA ResumingPage ==
    ASSUME TypeInv, News(log), Held, Calm, Exact, ThreadFree, NEW h \in handlers, Resume(h)
    PROVE  Held' /\ Calm' /\ Exact'
<1> DEFINE n == h.next
           e == log[n]
<1>1. /\ h.at = "await" /\ n \in 1..LastSeq /\ h \in Waiting
      /\ applied' = n /\ UNCHANGED <<log, base, jumped, overlapped>>
      /\ e.type \in Shows => e.comment \in Comments
  BY AtEvent DEF Resume, Commit, Waiting, WaitingOf
<1>2. /\ LastSeq \in Nat /\ log \in Seq(Events) /\ Len(log) = LastSeq /\ base \in Nat
      /\ applied \in Nat /\ shown \subseteq Comments
  BY PageFields
<1>3. Waiting' = Waiting \ {h}
  <2>1. h.next \in 0..h.upto
    BY <1>1, AtEvent
  <2>2. Onward(h).at = "running"
    BY <2>1, GoesOnward
  <2>3. Waiting' = WaitingOf((handlers \ {h}) \cup {Onward(h)})
    BY DEF Resume, Becomes, Waiting, WaitingOf
  <2> QED BY <2>2, <2>3, WaitingOthers
<1>4. Held'
  BY <1>1, <1>3 DEF Held
<1>5. ~overlapped => /\ Waiting = {h} /\ Waiting' = {} /\ n = applied + 1
                     /\ e.type \in Shows \cup {"message:remove"}
                     /\ e.type = "message:remove" => e.comment \notin shown
                     /\ shown \subseteq Due(log, n - 1)
  BY <1>1, <1>2, <1>3 DEF Calm
<1>6. /\ e.type = "message:restore" => shown' = shown \cup {e.comment}
      /\ e.type = "message:new" /\ e.comment \notin remembered => shown' = shown \cup {e.comment}
      /\ e.type = "message:remove" => shown' = shown
      /\ remembered' \subseteq remembered /\ shown' \subseteq shown \cup {e.comment}
  BY DEF Resume
<1>7. e.type \in Shows => e.type \in {"message:new", "message:restore"}
  BY DEF Shows
<1>8. Calm'
  <2>1. SUFFICES ASSUME ~overlapped, NEW c \in shown' PROVE c \in Due(log, n)
    BY <1>1, <1>5 DEF Calm
  <2>2. CASE e.type \in Shows /\ c = e.comment
    <3>1. IsShown(log, c, n)
      BY <1>1, <1>2, <2>2, Entry
    <3> QED BY <1>1, <1>2, <2>2, <3>1, NextDue
  <2>3. CASE c \in shown
    <3>1. ~Withdrawn(log, c, n)
      BY <1>1, <1>2, <1>5, <2>1, <2>3, Entry DEF Shows
    <3> QED BY <1>1, <1>2, <1>5, <2>1, <2>3, <3>1, NextDue
  <2> QED BY <1>5, <1>6, <2>1, <2>2, <2>3
<1>9. Exact'
  <2>1. SUFFICES ASSUME ~jumped, ~overlapped
                 PROVE  /\ base <= n /\ shown' = ViewOf(log, base, n)
                        /\ shown' \cup remembered' \subseteq Known(log, n)
    <3>1. PendingOf({}, log) = {}
      BY DEF PendingOf
    <3> QED BY <1>1, <1>5, <3>1 DEF Exact
  <2>2. /\ base < n /\ applied = n - 1
        /\ shown = ViewOf(log, base, n - 1) \ PendingOf({h}, log)
        /\ shown \cup remembered \subseteq Known(log, n - 1)
    <3>1. applied = n - 1 /\ Waiting = {h}
      BY <1>1, <1>2, <1>5, <2>1
    <3>2. /\ base <= applied /\ shown = ViewOf(log, base, applied) \ PendingOf(Waiting, log)
          /\ shown \cup remembered \subseteq Known(log, applied)
      BY <2>1 DEF Exact
    <3>3. base < n
      BY <1>1, <1>2, <3>1, <3>2
    <3> QED BY <3>1, <3>2, <3>3
  <2>3. Known(log, n - 1) \subseteq Known(log, n)
    BY <1>1, NextKnown
  <2>4. base <= n
    BY <1>1, <1>2, <2>2
  <2>5. CASE e.type \in Shows
    <3>1. PendingOf({h}, log) = {}
      BY <2>5 DEF PendingOf, Shows
    <3>2. e.type = "message:new" => e.comment \notin remembered
      <4>1. SUFFICES ASSUME e.type = "message:new" PROVE e.comment \notin Known(log, n - 1)
        BY <2>2
      <4> QED BY <1>1, <1>2, <4>1 DEF News, Known
    <3>3. shown' = shown \cup {e.comment}
      BY <1>6, <1>7, <2>5, <3>2
    <3>4. ViewOf(log, base, n) = ViewOf(log, base, n - 1) \cup {e.comment}
      BY <1>1, <1>2, <2>2, <2>5, NextView
    <3>5. e.comment \in Known(log, n)
      BY <1>1, <2>5, NextKnown
    <3>6. shown' \cup remembered' \subseteq Known(log, n)
      BY <1>6, <2>2, <2>3, <3>3, <3>5
    <3>7. shown' = ViewOf(log, base, n)
      BY <2>2, <3>1, <3>3, <3>4
    <3> QED BY <2>4, <3>6, <3>7
  <2>6. CASE e.type = "message:remove"
    <3>1. PendingOf({h}, log) = {e.comment}
      BY <1>1, <2>6 DEF PendingOf
    <3>2. shown' = shown
      BY <1>6, <2>6
    <3>3. ViewOf(log, base, n) = ViewOf(log, base, n - 1) \ {e.comment}
      <4>1. e.type \notin Shows
        BY <2>6 DEF Shows
      <4> QED BY <1>1, <1>2, <2>2, <2>6, <4>1, NextView
    <3>4. shown' \cup remembered' \subseteq Known(log, n)
      BY <1>6, <2>2, <2>3, <3>2
    <3>5. shown' = ViewOf(log, base, n)
      BY <2>2, <3>1, <3>2, <3>3
    <3> QED BY <2>4, <3>4, <3>5
  <2> QED BY <1>5, <2>1, <2>5, <2>6
<1> QED BY <1>4, <1>8, <1>9

LEMMA ReplacingPage ==
    ASSUME TypeInv, Held, Calm, Exact, NEW h \in handlers, Replace(h)
    PROVE  Held' /\ Calm' /\ Exact'
<1>1. /\ h.at = "reset" /\ h \in Waiting /\ applied' = h.current
      /\ shown' \subseteq shown \cup h.snapshot /\ UNCHANGED <<log, base, jumped, overlapped>>
  BY DEF Replace, Waiting, WaitingOf
<1>2. Waiting' = Waiting \ {h}
  <2>1. Waiting' = WaitingOf(handlers \ {h})
    BY DEF Replace, Waiting, WaitingOf
  <2> QED BY <2>1, WaitingOthers
<1>3. Held'
  BY <1>1, <1>2 DEF Held
<1>4. ~overlapped => Waiting' = {} /\ shown = {}
  BY <1>1, <1>2 DEF Calm
<1>5. Calm'
  BY <1>1, <1>4 DEF Calm, Held
<1>6. Exact'
  BY <1>1 DEF Exact
<1> QED BY <1>3, <1>5, <1>6

LEMMA ReloadingPage == ASSUME TypeInv, Reload PROVE Held' /\ Calm' /\ Exact'
<1>1. /\ Waiting' = {} /\ shown' = {} /\ remembered' = {} /\ base' = applied'
      /\ applied' = applied /\ applied \in Nat
  BY PageFields DEF Reload, Waiting, WaitingOf
<1>2. PendingOf({}, log') = {}
  BY DEF PendingOf
<1>3. ViewOf(log', applied, applied) = {}
  <2>1. \A i \in applied + 1 .. applied : FALSE
    BY <1>1
  <2> QED BY <2>1 DEF ViewOf
<1> QED BY <1>1, <1>2, <1>3 DEF Held, Calm, Exact

-----------------------------------------------------------------------------
LEMMA PageBegins == ASSUME Init PROVE PageInv
<1>1. /\ log = << >> /\ Len(log) = 0 /\ link = Off
      /\ Waiting = {} /\ shown = {} /\ remembered = {} /\ base = 0 /\ applied = 0
  BY DEF Init, Waiting, WaitingOf
<1>2. PendingOf({}, log) = {} /\ ViewOf(log, 0, 0) = {}
  BY DEF PendingOf, ViewOf
<1>3. News(log) /\ Carried
  BY <1>1, OffIsLink, NothingCarried DEF News, Carried
<1> QED BY <1>1, <1>2, <1>3 DEF PageInv, Held, Calm, Exact

LEMMA PageStays == ASSUME TypeInv, PageInv, [Next]_vars PROVE PageInv'
<1>1. CASE TeacherOrStudent
  BY <1>1, GrowingPage
<1>2. CASE ~TeacherOrStudent
  <2>1. Carried' /\ UNCHANGED log
    <3>1. UNCHANGED log
      BY <1>2 DEF Next, Running, RoomStep, PageStep, Awaited, PassOver, Begin, Resume, Replace,
                  ReplaceFails, Broadcast, Deliver, CloseAllSockets, Connect, ReadEvents, Accept,
                  Receive, Drop, Reload, vars
    <3> QED BY <1>2, <3>1, CarriedStays DEF PageInv
  <2> SUFFICES Held' /\ Calm' /\ Exact'
    BY <2>1 DEF PageInv
  <2>2. ASSUME UNCHANGED <<applied, base, jumped, overlapped, shown, remembered, handlers>>
        PROVE  Held' /\ Calm' /\ Exact'
    <3>1. Waiting' = Waiting
      BY <2>2 DEF Waiting, WaitingOf
    <3> QED BY <2>1, <2>2, <3>1, Fades DEF PageInv
  <2>3. CASE Running
    BY <2>3, PassingPage, BeginningPage DEF Running, PageInv
  <2>4. CASE RoomStep \/ Connect \/ ReadEvents \/ Accept \/ UNCHANGED vars
    <3>1. UNCHANGED <<applied, base, jumped, overlapped, shown, remembered, handlers>>
      BY <2>4 DEF RoomStep, Broadcast, Deliver, CloseAllSockets, Connect, ReadEvents, Accept, vars,
                  page
    <3> QED BY <2>2, <3>1
  <2>5. CASE ThreadFree /\ (Receive \/ Awaited)
    BY <2>5, ReceivingPage, ResumingPage, ReplacingPage DEF Awaited, PageInv
  <2>6. ASSUME NEW h \in handlers, ReplaceFails(h) PROVE Held' /\ Calm' /\ Exact'
    <3>1. /\ h.at # "await" /\ GiveUp(h)
          /\ UNCHANGED <<log, applied, base, jumped, overlapped, shown, remembered>>
      BY <2>6 DEF ReplaceFails, page
    <3> QED BY <3>1, GivingUpPage DEF PageInv
  <2>7. CASE Drop
    <3>1. /\ handlers' = Orphans(handlers)
          /\ UNCHANGED <<log, applied, base, jumped, overlapped, shown, remembered>>
      BY <2>7 DEF Drop, page
    <3> QED BY <3>1, LosingPage DEF PageInv
  <2>8. CASE Reload
    BY <2>8, ReloadingPage
  <2> QED BY <1>2, <2>3, <2>4, <2>5, <2>6, <2>7, <2>8 DEF Next, PageStep
<1> QED BY <1>1, <1>2

LEMMA PageInvariance == Spec => []PageInv
<1>1. TypeInv /\ PageInv /\ [Next]_vars => PageInv'
  BY PageStays
<1>2. Init => PageInv
  BY PageBegins
<1> QED BY <1>1, <1>2, TypeInvariance, PTL DEF Spec

LEMMA QuietWaits == ASSUME Quiet PROVE Waiting = {} /\ PendingOf(Waiting, log) = {}
BY DEF Quiet, Waiting, WaitingOf, PendingOf

(* A page that took no snapshot and worked on one message at a time shows  *)
(* what the events it applied leave, through lost connections, missed and  *)
(* repeated broadcasts and reloads (applyRealtimeEvent of viewer.js).      *)
THEOREM ShowsWhatIsApplied == Spec => []ViewIsPrefix
<1>1. PageInv => ViewIsPrefix
  BY QuietWaits, ViewIs DEF PageInv, Exact, ViewIsPrefix
<1> QED BY <1>1, PageInvariance, PTL

(* A page that has caught up shows nothing that was removed or cleared,    *)
(* also after snapshots read while comments were moderated                 *)
(* (getRealtimeSync of repository.js).                                     *)
THEOREM ShowsNothingWithdrawn == Spec => []CaughtUpShowsNoWithdrawn
<1>1. ASSUME TypeInv, PageInv PROVE CaughtUpShowsNoWithdrawn
  <2>1. SUFFICES ASSUME Quiet, ~overlapped, applied = LastSeq
                 PROVE  shown \subseteq View(0, LastSeq)
    BY DEF CaughtUpShowsNoWithdrawn
  <2>2. shown \subseteq Due(log, LastSeq)
    BY <1>1, <2>1 DEF PageInv, Calm
  <2> QED BY <1>1, <2>2, PageFields, DueAtTheEnd, ViewIs
<1>2. TypeInv /\ PageInv => CaughtUpShowsNoWithdrawn
  BY <1>1
<1> QED BY <1>2, TypeInvariance, PageInvariance, PTL


-----------------------------------------------------------------------------
(* The page is a reader of the log *)

Resets(hs) == \E h \in hs : h.at = "reset"

ReaderStep == Reader!Next \/ UNCHANGED <<log, applied, shown, ReaderMode>>

LEMMA ModeIs ==
    /\ ReaderMode = "loose" <=> overlapped
    /\ ReaderMode = "resetting" <=> ~overlapped /\ Resets(handlers)
    /\ ReaderMode = "snapshot" <=> ~overlapped /\ ~Resets(handlers) /\ jumped
    /\ ReaderMode = "exact" <=> ~overlapped /\ ~Resets(handlers) /\ ~jumped
BY DEF ReaderMode, Resets

LEMMA ResetsOthers ==
    ASSUME TypeInv, NEW h \in handlers, h.at # "reset"
    PROVE  /\ Resets(handlers \ {h}) <=> Resets(handlers)
           /\ \A g : g.at # "reset" => /\ Resets((handlers \ {h}) \cup {g}) <=> Resets(handlers)
                                       /\ Resets(handlers \cup {g}) <=> Resets(handlers)
BY DEF Resets

LEMMA ResetsOrphans ==
    ASSUME NEW n, NEW hs \in SUBSET Handlers(n)
    PROVE  Resets(Orphans(hs)) <=> Resets(hs)
<1>1. ASSUME NEW h \in hs PROVE [h EXCEPT !.mine = FALSE].at = h.at
  BY OrphanFields
<1> QED BY <1>1 DEF Resets, Orphans

(* Nothing a reader sees has changed.                                      *)
LEMMA Unmoved ==
    ASSUME UNCHANGED <<log, applied, shown, jumped, overlapped>>,
           Resets(handlers') <=> Resets(handlers)
    PROVE  ReaderStep
BY DEF ReaderStep, ReaderMode, Resets

(* Two messages at a time.                                                 *)
LEMMA Loosens ==
    ASSUME TypeInv, TypeInv', UNCHANGED log, overlapped' PROVE ReaderStep
<1>1. ReaderMode' = "loose"
  BY DEF ReaderMode
<1>2. applied' \in 0..Len(log) /\ shown' \subseteq Comments
  BY DEF TypeInv, PageOK, LastSeq
<1> QED BY <1>1, <1>2 DEF ReaderStep, Reader!Next, Reader!Loose

(* What the events up to one have not withdrawn stands.                    *)
LEMMA DueStands ==
    ASSUME TypeInv, NEW n \in 0..LastSeq PROVE Due(log, n) \subseteq Reader!Standing(n)
<1>1. log \in Seq(Events) /\ Len(log) = LastSeq /\ LastSeq \in Nat
  BY PageFields
<1>2. ASSUME NEW c, NEW i \in 1..Len(log)
      PROVE  /\ IsShown(log, c, i) => Reader!Shown(log[i], c)
             /\ Reader!Withdrawn(log[i], c) => Withdrawn(log, c, i)
  BY <1>1, Entry DEF Reader!Shown, Reader!Withdrawn, Shows
<1>3. ASSUME NEW i \in 1..Len(log), NEW k \in i + 1 .. n PROVE k \in 1..Len(log)
  BY <1>1
<1> QED BY <1>2, <1>3 DEF Due, Reader!Standing

LEMMA GrowingReader == ASSUME TypeInv, TeacherOrStudent PROVE ReaderStep
<1>1. PICK e \in Events : AppendEvent(e)
  BY SomeEvent
<1>2. /\ LastSeq' = LastSeq + 1 /\ \A i \in 1..LastSeq : log'[i] = log[i]
      /\ UNCHANGED <<handlers, page>>
  BY <1>1, Grows
<1>3. Len(log') = Len(log) + 1 /\ \A i \in 1..Len(log) : log'[i] = log[i]
  BY <1>2 DEF LastSeq
<1>4. UNCHANGED <<applied, shown, ReaderMode>>
  BY <1>2 DEF page, ReaderMode
<1> QED BY <1>3, <1>4 DEF ReaderStep, Reader!Next, Reader!Grow

(* A handler that gives up, passes over an event or ends.                  *)
LEMMA PassingReader == ASSUME TypeInv, NEW h \in handlers, PassOver(h) PROVE ReaderStep
<1>1. /\ UNCHANGED <<log, applied, shown, jumped, overlapped>>
      /\ h.at = "running"
  BY DEF PassOver, page
<1>2. handlers \ {h} \in SUBSET Handlers(LastSeq) /\ h \in Handlers(LastSeq)
  BY DEF TypeInv, HandlersOK, Fit
<1>3. Onward(h).at = "running"
  BY <1>2 DEF Onward, Handlers
<1>4. handlers' \in {handlers \ {h}, Orphans(handlers \ {h}),
                     (handlers \ {h}) \cup {Onward(h)}}
  BY DEF PassOver, GiveUp, Becomes
<1>5. Resets(handlers') <=> Resets(handlers)
  BY <1>1, <1>2, <1>3, <1>4, ResetsOrphans DEF Resets
<1> QED BY <1>1, <1>5, Unmoved


(* An event of the log is read, or withdraws its comment early.            *)
LEMMA Reads ==
    ASSUME TypeInv, ~overlapped, applied + 1 \in 1..LastSeq, UNCHANGED <<log, ReaderMode>>,
           applied' = applied + 1,
           shown' = Reader!After(log[applied + 1], shown)
    PROVE  ReaderStep
<1>1. ReaderMode # "loose" /\ applied < Len(log)
  BY ModeIs, PageFields
<1> QED BY <1>1 DEF ReaderStep, Reader!Next, Reader!Read, Reader!Pending

LEMMA BeginningReader ==
    ASSUME TypeInv, TypeInv', NEW h \in handlers, Begin(h)
    PROVE  ReaderStep
<1> DEFINE n == h.next
           e == log[n]
           w == [h EXCEPT !.at = "await"]
<1>1. /\ h.at = "running" /\ n = applied + 1 /\ n \in 1..LastSeq /\ n \in 0..h.upto
      /\ e.type \in Shows => e.comment \in Comments
      /\ UNCHANGED <<log, base, jumped>>
  BY AtEvent DEF Begin, Follows
<1>2. h \in Handlers(LastSeq) /\ handlers \in SUBSET Handlers(LastSeq)
  BY DEF TypeInv, HandlersOK, Fit
<1>3. w.at = "await" /\ Onward(h).at = "running" /\ Onward(h) \in Handlers(LastSeq)
  BY <1>1, <1>2, GoesOnward DEF Handlers
<1>4. /\ overlapped' \in {overlapped, TRUE} \/ NotesOverlap(h)
      /\ handlers' \in {(handlers \ {h}) \cup {w}, (handlers \ {h}) \cup {Onward(h)},
                        Orphans((handlers \ {h}) \cup {Onward(h)})}
  BY DEF Begin, Becomes
<1> HIDE DEF w
<1>5. Resets(handlers') <=> Resets(handlers)
  <2>1. (handlers \ {h}) \cup {Onward(h)} \in SUBSET Handlers(LastSeq)
    BY <1>2, <1>3
  <2>2. /\ Resets((handlers \ {h}) \cup {w}) <=> Resets(handlers)
        /\ Resets((handlers \ {h}) \cup {Onward(h)}) <=> Resets(handlers)
    BY <1>1, <1>3, ResetsOthers
  <2>3. Resets(Orphans((handlers \ {h}) \cup {Onward(h)})) <=> Resets(handlers)
    BY <2>1, <2>2, ResetsOrphans
  <2> QED BY <1>4, <2>2, <2>3
<1>6. CASE overlapped'
  BY <1>1, <1>6, Loosens
<1>7. CASE ~overlapped'
  <2>1. ~overlapped
    BY <1>7, PageFields DEF Begin, NotesOverlap
  <2>2. UNCHANGED ReaderMode
    BY <1>1, <1>5, <1>7, <2>1 DEF ReaderMode, Resets
  <2>3. CASE e.type \in Shows
    <3>1. UNCHANGED <<applied, shown>>
      BY <2>3 DEF Begin, Shows
    <3> QED BY <1>1, <2>2, <3>1 DEF ReaderStep
  <2>4. CASE e.type = "message:remove"
    <3>1. shown' = shown \ {e.comment} /\ UNCHANGED applied
      BY <2>4 DEF Begin, Forget, Shows
    <3>2. ReaderMode # "loose" /\ applied < Len(log)
      BY <1>1, <2>1, ModeIs, PageFields
    <3> QED BY <1>1, <2>2, <2>4, <3>1, <3>2
            DEF ReaderStep, Reader!Next, Reader!WithdrawEarly, Reader!Pending
  <2>5. CASE e.type = "message:clear"
    <3>1. shown' = {} /\ applied' = n
      BY <2>5 DEF Begin, Commit, Shows
    <3>2. Reader!After(e, shown) = {}
      BY <2>5 DEF Reader!After, Reader!Shown, Reader!Withdrawn
    <3> QED BY <1>1, <2>1, <2>2, <3>1, <3>2, Reads
  <2>6. CASE e.type \in {"settings:update", "room:closed"}
    <3>1. shown' = shown /\ applied' = n
      BY <2>6 DEF Begin, Commit, Shows
    <3>2. Reader!After(e, shown) = shown
      BY <2>6, PageFields DEF Reader!After, Reader!Shown, Reader!Withdrawn
    <3> QED BY <1>1, <2>1, <2>2, <3>1, <3>2, Reads
  <2> QED BY <2>3, <2>4, <2>5, <2>6 DEF Begin
<1> QED BY <1>6, <1>7

(* A comment that a page without snapshots remembers was new before.       *)
LEMMA NewIsNotKnown ==
    ASSUME TypeInv, News(log), Exact, ~jumped, ~overlapped, applied + 1 \in 1..LastSeq,
           log[applied + 1].type = "message:new"
    PROVE  log[applied + 1].comment \notin remembered
<1>1. remembered \subseteq Known(log, applied)
  BY DEF Exact
<1>2. applied = (applied + 1) - 1 /\ Len(log) = LastSeq
  BY PageFields
<1>3. \A i \in 1..applied : log[i].comment # log[applied + 1].comment
  BY <1>2 DEF News
<1> QED BY <1>1, <1>3 DEF Known

LEMMA ResumingReader ==
    ASSUME TypeInv, TypeInv', PageInv, NEW h \in handlers, Resume(h)
    PROVE  ReaderStep
<1> DEFINE n == h.next
           e == log[n]
<1>1. /\ h.at = "await" /\ n \in 1..LastSeq /\ n \in 0..h.upto /\ h \in Waiting
      /\ applied' = n /\ UNCHANGED <<log, base, jumped, overlapped>>
      /\ e.type \in Shows => e.comment \in Comments
  BY AtEvent DEF Resume, Commit, Waiting, WaitingOf
<1>2. CASE overlapped
  BY <1>1, <1>2, Loosens
<1>3. CASE ~overlapped
  <2>1. /\ n = applied + 1 /\ \A g \in Waiting : g = h
        /\ e.type \in Shows \cup {"message:remove"}
        /\ e.type = "message:remove" => e.comment \notin shown
    BY <1>1, <1>3 DEF PageInv, Calm
  <2>2. ~Resets(handlers)
    BY <1>1, <2>1 DEF Resets, Waiting, WaitingOf
  <2>3. ~Resets(handlers')
    <3>1. Onward(h).at = h.at \/ Onward(h).at = "running"
      <4>1. h \in Handlers(LastSeq)
        BY HandlerFields DEF TypeInv
      <4> QED BY <4>1 DEF Onward, Handlers
    <3> QED BY <1>1, <2>2, <3>1 DEF Resume, Becomes, Resets
  <2>4. UNCHANGED ReaderMode
    BY <1>1, <2>2, <2>3 DEF ReaderMode, Resets
  <2>5. CASE e.type = "message:remove"
    <3>1. shown' = shown
      BY <2>5 DEF Resume
    <3>2. Reader!After(e, shown) = shown
      BY <2>1, <2>5, PageFields DEF Reader!After, Reader!Shown, Reader!Withdrawn
    <3> QED BY <1>1, <1>3, <2>1, <2>4, <3>1, <3>2, Reads
  <2>6. CASE e.type \in Shows /\ shown' = shown \cup {e.comment}
    <3>1. e.type \in {"message:new", "message:restore"}
      BY <2>6 DEF Shows
    <3>2. Reader!After(e, shown) = shown \cup {e.comment}
      BY <1>1, <2>6, <3>1, PageFields DEF Reader!After, Reader!Shown, Reader!Withdrawn
    <3> QED BY <1>1, <1>3, <2>1, <2>4, <2>6, <3>2, Reads
  <2>7. CASE e.type = "message:new" /\ e.comment \in remembered
    <3>1. shown' = shown
      BY <2>7 DEF Resume
    <3>2. jumped
      BY <1>1, <1>3, <2>1, <2>7, NewIsNotKnown DEF PageInv
    <3>3. ReaderMode = "snapshot" /\ applied < Len(log)
      BY <1>1, <1>3, <2>1, <2>2, <3>2, ModeIs, PageFields
    <3>4. Reader!Pending
      BY <3>3 DEF Reader!Pending
    <3> QED BY <1>1, <2>1, <2>4, <2>7, <3>1, <3>3, <3>4 DEF ReaderStep, Reader!Next, Reader!Read
  <2> QED BY <2>1, <2>5, <2>6, <2>7 DEF Resume, Shows
<1> QED BY <1>2, <1>3


LEMMA ReceivingReader == ASSUME TypeInv, TypeInv', Receive PROVE ReaderStep
<1> DEFINE m == Head(link.inbox)
           resetting == Handler("reset", 0, 0, m.current, m.snapshot)
<1>1. UNCHANGED <<log, applied>>
  BY DEF Receive
<1>2. CASE /\ jumped' = TRUE /\ shown' = {} /\ NotesOverlap(resetting)
           /\ handlers' = handlers \cup {resetting}
  <2>1. resetting.at = "reset"
    BY DEF Handler
  <2>2. Resets(handlers')
    BY <1>2, <2>1 DEF Resets
  <2>3. CASE overlapped'
    BY <1>1, <2>3, Loosens
  <2>4. CASE ~overlapped'
    <3>1. ReaderMode # "loose"
      BY <1>2, <2>4, ModeIs DEF NotesOverlap
    <3>2. ReaderMode' = "resetting"
      BY <2>2, <2>4 DEF ReaderMode, Resets
    <3> QED BY <1>1, <1>2, <3>1, <3>2 DEF ReaderStep, Reader!Next, Reader!MakeRoom
  <2> QED BY <2>3, <2>4
<1>3. ASSUME NEW g, g.at = "running", handlers' = handlers \cup {g},
             UNCHANGED <<jumped, overlapped, shown>>
      PROVE  ReaderStep
  <2>1. Resets(handlers') <=> Resets(handlers)
    BY <1>3 DEF Resets
  <2> QED BY <1>1, <1>3, <2>1, Unmoved
<1>4. CASE handlers' = Orphans(handlers) /\ UNCHANGED <<jumped, overlapped, shown>>
  <2>1. Resets(handlers') <=> Resets(handlers)
    BY <1>4, ResetsOrphans DEF TypeInv, HandlersOK, Fit
  <2> QED BY <1>1, <1>4, <2>1, Unmoved
<1>5. Handler("running", m.first, m.upto, m.current, {}).at = "running"
      /\ Handler("running", m.seq, m.seq, 0, {}).at = "running"
  BY DEF Handler
<1> QED BY <1>2, <1>3, <1>4, <1>5 DEF Receive

(* The write of a snapshot succeeds or fails: nothing else was at work.    *)
LEMMA ReplacingReader ==
    ASSUME TypeInv, TypeInv', PageInv, NEW h \in handlers, Replace(h) \/ ReplaceFails(h)
    PROVE  ReaderStep
<1>1. /\ h.at = "reset" /\ h \in Waiting /\ h.current \in 0..LastSeq
      /\ UNCHANGED <<log, jumped, overlapped>>
  BY WaitingFields DEF Replace, ReplaceFails, page, Waiting, WaitingOf
<1>2. CASE overlapped
  BY <1>1, <1>2, Loosens
<1>3. CASE ~overlapped
  <2>1. shown = {} /\ \A g \in Waiting : g = h
    BY <1>1, <1>3 DEF PageInv, Calm
  <2>2. jumped
    BY <1>1, <1>3, PageFields DEF PageInv, Exact
  <2>3. ~Resets(handlers \ {h})
    BY <2>1 DEF Resets, Waiting, WaitingOf
  <2>4. ~Resets(handlers')
    <3>1. handlers \ {h} \in SUBSET Handlers(LastSeq)
      BY DEF TypeInv, HandlersOK, Fit
    <3>2. ~Resets(Orphans(handlers \ {h}))
      BY <2>3, <3>1, ResetsOrphans
    <3>3. handlers' = handlers \ {h} \/ handlers' = Orphans(handlers \ {h})
      BY DEF Replace, ReplaceFails, GiveUp
    <3> QED BY <2>3, <3>2, <3>3
  <2>5. ReaderMode = "resetting" /\ ReaderMode' = "snapshot"
    BY <1>1, <1>3, <2>2, <2>4 DEF ReaderMode, Resets
  <2>6. CASE Replace(h)
    <3>1. applied' = h.current /\ shown' \subseteq h.snapshot
      BY <2>1, <2>6 DEF Replace
    <3>2. shown' \subseteq Reader!Standing(applied')
      BY <1>1, <3>1, DueStands DEF PageInv, Held
    <3>3. applied' \in 0..Len(log)
      BY <1>1, <3>1, PageFields
    <3> QED BY <1>1, <2>5, <3>2, <3>3 DEF ReaderStep, Reader!Next, Reader!TakeSnapshot
  <2>7. CASE ReplaceFails(h)
    BY <2>5, <2>7 DEF ReplaceFails, page, ReaderStep, Reader!Next, Reader!LoseSnapshot
  <2> QED BY <2>6, <2>7
<1> QED BY <1>2, <1>3, PageFields

LEMMA LeavingReader == ASSUME TypeInv, Drop \/ Reload PROVE ReaderStep
<1>1. CASE Drop
  <2>1. Resets(handlers') <=> Resets(handlers)
    BY <1>1, ResetsOrphans DEF Drop, TypeInv, HandlersOK, Fit
  <2> QED BY <1>1, <2>1, Unmoved DEF Drop, page
<1>2. CASE Reload
  <2>1. ReaderMode' = "exact" /\ shown' = {} /\ UNCHANGED <<log, applied>>
    BY <1>2 DEF Reload, ReaderMode
  <2> QED BY <2>1 DEF ReaderStep, Reader!Next, Reader!Restart
<1> QED BY <1>1, <1>2

LEMMA ReaderSteps == ASSUME TypeInv, TypeInv', PageInv, [Next]_vars PROVE ReaderStep
<1>1. CASE Running
  BY <1>1, PassingReader, BeginningReader DEF Running
<1>2. CASE TeacherOrStudent
  BY <1>2, GrowingReader
<1>3. CASE RoomStep \/ Connect \/ ReadEvents \/ Accept \/ UNCHANGED vars
  <2>1. UNCHANGED <<log, applied, shown, jumped, overlapped, handlers>>
    BY <1>3 DEF RoomStep, Broadcast, Deliver, CloseAllSockets, Connect, ReadEvents, Accept, vars,
                page
  <2> QED BY <2>1, Unmoved
<1>4. CASE Receive \/ Awaited \/ \E h \in handlers : ReplaceFails(h)
  BY <1>4, ReceivingReader, ResumingReader, ReplacingReader DEF Awaited
<1>5. CASE Drop \/ Reload
  BY <1>5, LeavingReader
<1> QED BY <1>1, <1>2, <1>3, <1>4, <1>5 DEF Next, PageStep

(* Every step of the room, the network and the page is a step of a reader  *)
(* that applies the log in sequence, each event once, or none of it        *)
(* (applyRealtimeEvent, commitSequence and replaceSessionLog of viewer.js, *)
(* getRealtimeSync of repository.js).                                      *)
THEOREM FollowsTheLog == Spec => ImplementsLogReader
<1>1. Init => Reader!Init
  BY DEF Init, Reader!Init, ReaderMode
<1>2. TypeInv /\ TypeInv' /\ PageInv /\ [Next]_vars
         => [Reader!Next]_<<log, applied, shown, ReaderMode>>
  BY ReaderSteps DEF ReaderStep
<1> QED BY <1>1, <1>2, TypeInvariance, PageInvariance, PTL DEF Spec, ImplementsLogReader, Reader!Spec
=============================================================================
