----------------------------- MODULE PdfPages -----------------------------
(***************************************************************************)
(* The PDF shown in a live session: its binding, the current page and the  *)
(* page events, the students' understanding signals, and the analytics     *)
(* snapshots kept of a PDF that is replaced (pdf-analysis/repository.js    *)
(* and routes/pdf-analysis.js).  Every database call a handler awaits is a *)
(* step of its own; one batch is one step.                                 *)
(*                                                                         *)
(* Abstracted: the document's metadata (a conflict of metadata refuses the *)
(* request before it writes), the counts a snapshot holds, and the         *)
(* rate limit of a changed signal.                                         *)
(***************************************************************************)
EXTENDS Lesson

CONSTANTS
    Docs,           \* the documents, by their hash
    LastPage,       \* the page count of every document
    MaxPageVersion, \* bound on client_version
    Students        \* participant tokens

ASSUME PdfAssumption ==
    Docs # {} /\ LastPage \in Nat \ {0} /\ MaxPageVersion \in Nat \ {0}

VARIABLES
    bindings,   \* session_pdf_bindings, by the request that made them
    state,      \* session_pdf_state
    events,     \* pdf_page_events
    signals,    \* understanding_signals
    snapshots,  \* analytics_snapshots, by the request that made them
    binds,      \* per request, where bindPrivatePdf stands
    pages,      \* per request, where updatePdfPageState stands
    marks       \* per request, where persistUnderstandingSignal stands

pdfVars == <<bindings, state, events, signals, snapshots, binds, pages, marks>>

-----------------------------------------------------------------------------
(* Rows *)

Pages == 1..LastPage
PageVersions == 1..MaxPageVersion

(* replaced: replaced_at is set.                                           *)
Bindings == [doc: Docs, replaced: BOOLEAN]
NoBinding == [replaced |-> FALSE]

(* The row of session_pdf_state that getSessionPdfState returns; binding 0 *)
(* when the session has no PDF.                                            *)
PageStates == [binding: 0..MaxRequests, page: Pages, version: PageVersions]
NoState == [binding |-> 0, page |-> 1, version |-> 1]
Bound == state.binding # 0
BoundDoc(doc) == Bound /\ bindings[state.binding].doc = doc

Events == [binding: Ids, version: PageVersions, page: Pages]
Answers == {"understood", "confused"}
Signals == [student: Students, binding: Ids, page: Pages, answer: Answers]

(* A snapshot's binding; auto when bindPrivatePdf has made it and answers  *)
(* for it.                                                                 *)
Snapshots == [id: Ids, binding: Ids, auto: BOOLEAN]

BindRecords ==
    [pc: {"previous", "snapshot", "current", "touch", "replace", "confirm", "rollback"},
     doc: Docs, alone: BOOLEAN]
Idle == [pc |-> "none", alone |-> FALSE]

PageRecords ==
    [pc: {"read", "stay", "turn"}, binding: Ids, page: Pages, version: PageVersions]

MarkRecords == [pc: {"read", "batch"}, student: Students, answer: Answers, seen: PageStates]

PdfInit ==
    /\ bindings = [i \in Ids |-> NoBinding]
    /\ state = NoState
    /\ events = {}
    /\ signals = {}
    /\ snapshots = {}
    /\ binds = [i \in Ids |-> Idle]
    /\ pages = [i \in Ids |-> Idle]
    /\ marks = [i \in Ids |-> Idle]

-----------------------------------------------------------------------------
(* Binding a document *)

Binding(i) == binds[i].pc # "none"
NoneBinds == \A i \in Ids : ~Binding(i)

(* bindPrivatePdf; alone as long as no other request binds.                *)
StartBind(i) ==
    /\ Active
    /\ Begin(i)
    /\ \E doc \in Docs :
        binds' = [j \in Ids |->
            IF j = i THEN [pc |-> "previous", doc |-> doc, alone |-> NoneBinds]
                     ELSE [binds[j] EXCEPT !.alone = FALSE]]
    /\ UNCHANGED <<bindings, state, events, signals, snapshots, pages, marks>>

BindGoto(i, pc) == binds' = [binds EXCEPT ![i].pc = pc]
EndBind(i) == binds' = [binds EXCEPT ![i] = Idle] /\ Finish(i)

(* The snapshots, once no request answers for that of request i.           *)
Disowned(i) == {[snapshot EXCEPT !.auto = @ /\ snapshot.id # i] : snapshot \in snapshots}

(* Mistake: only the document that is bound again is put on record. *)
SnapshotFirstSame(doc) == BoundDoc(doc)

SnapshotFirst(doc) == Bound /\ ~BoundDoc(doc)

(* The handler looks at the current document: another one is put on record *)
(* before it is replaced.                                                  *)
ReadPrevious(i) ==
    /\ binds[i].pc = "previous"
    /\ BindGoto(i, IF SnapshotFirst(binds[i].doc)
                   THEN "snapshot" ELSE "current")
    /\ UNCHANGED <<lessonVars, bindings, state, events, signals, snapshots, pages, marks>>

(* createAnalyticsSnapshot reads the state again; its failure ends the     *)
(* request, and leaves the snapshot when only the answer was lost: the     *)
(* call stands outside the try.                                            *)
TakeSnapshot(i) ==
    LET taken(auto) == snapshots \cup {[id |-> i, binding |-> state.binding, auto |-> auto]}
    IN  /\ binds[i].pc = "snapshot"
        /\ \/ snapshots' = taken(TRUE) /\ BindGoto(i, "current") /\ UNCHANGED lessonVars
           \/ snapshots' \in {snapshots, taken(FALSE)} /\ EndBind(i)
        /\ UNCHANGED <<bindings, state, events, signals, pages, marks>>

(* createPrivateAnalyticsSnapshot: a snapshot on the teacher's demand.     *)
TeacherSnapshot(i) ==
    /\ Bound
    /\ issued < MaxRequests
    /\ i = issued + 1
    /\ issued' = i
    /\ snapshots' = snapshots \cup {[id |-> i, binding |-> state.binding, auto |-> FALSE]}
    /\ UNCHANGED <<session, pre, now, flying>>
    /\ UNCHANGED <<bindings, state, events, signals, binds, pages, marks>>

FreshState(i) == [binding |-> i, page |-> 1, version |-> 1]

(* bindPdfToSession looks at the current document once more; an ended      *)
(* session, conflicting metadata or a failure is the end of the bind.      *)
ReadCurrent(i) ==
    /\ binds[i].pc = "current"
    /\ \/ Active /\ BindGoto(i, IF BoundDoc(binds[i].doc) THEN "touch" ELSE "replace")
       \/ BindGoto(i, "rollback")
    /\ UNCHANGED <<lessonVars, bindings, state, events, signals, snapshots, pages, marks>>

(* The batch for the document that was bound already: its last_seen_at,    *)
(* and the audit row, which is missing when it has been replaced since;    *)
(* and the state, read for the answer.  Both calls may fail.               *)
Touch(i) ==
    /\ binds[i].pc = "touch"
    /\ \/ BoundDoc(binds[i].doc) /\ EndBind(i)
       \/ BindGoto(i, "rollback") /\ UNCHANGED lessonVars
    /\ UNCHANGED <<bindings, state, events, signals, snapshots, pages, marks>>

(* The batch for another document replaces whatever binding is active and  *)
(* starts at page 1.  Nothing of it is written once the session has ended: *)
(* PDF_BINDING_CONFLICT.  A batch whose answer is lost has failed as well, *)
(* for the handler.                                                        *)
Replace(i) ==
    /\ binds[i].pc = "replace"
    /\ \/ /\ Active
          /\ bindings' = [j \in Ids |->
                IF j = i THEN [doc |-> binds[i].doc, replaced |-> FALSE]
                ELSE IF j = state.binding THEN [bindings[j] EXCEPT !.replaced = TRUE]
                ELSE bindings[j]]
          /\ state' = FreshState(i)
          /\ events' = events \cup {[binding |-> i, version |-> 1, page |-> 1]}
          /\ \E pc \in {"confirm", "rollback"} : BindGoto(i, pc)
       \/ BindGoto(i, "rollback") /\ UNCHANGED <<bindings, state, events>>
    /\ UNCHANGED <<lessonVars, signals, snapshots, pages, marks>>

(* The state is read for the answer.  When that fails, or another bind has *)
(* replaced the binding since, the request fails like one that has bound   *)
(* nothing, and its snapshot is rolled back although the PDF is replaced.  *)
Confirm(i) ==
    /\ binds[i].pc = "confirm"
    /\ \/ state.binding = i /\ EndBind(i)
       \/ BindGoto(i, "rollback") /\ UNCHANGED lessonVars
    /\ UNCHANGED <<bindings, state, events, signals, snapshots, pages, marks>>

(* Mistake: a failed bind leaves the snapshot it has taken. *)
RollbackNothing(i) == {}

(* Mistake: a failed bind removes the session's automatic snapshots. *)
RollbackEvery(i) == {snapshot \in snapshots : snapshot.auto}

(* rollbackAnalyticsSnapshot.  When it fails too, PDF_BIND_ROLLBACK_FAILED *)
(* tells the teacher, and the snapshot stays.                              *)
RolledBack(i) == {snapshot \in snapshots : snapshot.id = i}

Rollback(i) ==
    /\ binds[i].pc = "rollback"
    /\ \/ snapshots' = snapshots \ RolledBack(i)
       \/ snapshots' = Disowned(i)
    /\ EndBind(i)
    /\ UNCHANGED <<bindings, state, events, signals, pages, marks>>

(* The worker dies between two calls.                                      *)
LoseBind(i) ==
    /\ Binding(i)
    /\ snapshots' = Disowned(i)
    /\ EndBind(i)
    /\ UNCHANGED <<bindings, state, events, signals, pages, marks>>

-----------------------------------------------------------------------------
(* Turning pages *)

(* updatePdfPageState for a viewer of binding b, the current one or an old *)
(* one; two viewers number their updates independently, from 2 on.         *)
StartPage(i) ==
    /\ Active
    /\ Begin(i)
    /\ \E b \in {c \in Ids : bindings[c] # NoBinding}, page \in Pages, version \in PageVersions \ {1} :
        pages' = [pages EXCEPT ![i] =
            [pc |-> "read", binding |-> b, page |-> page, version |-> version]]
    /\ UNCHANGED <<bindings, state, events, signals, snapshots, binds, marks>>

EndPage(i) == pages' = [pages EXCEPT ![i] = Idle] /\ Finish(i)

(* The state is read: another binding or an old version ends the request,  *)
(* and the page read decides which statement is sent.                      *)
ReadPage(i) ==
    LET p == pages[i]
    IN  /\ p.pc = "read"
        /\ IF state.binding # p.binding \/ p.version <= state.version
           THEN EndPage(i)
           ELSE /\ pages' = [pages EXCEPT ![i].pc = IF p.page = state.page THEN "stay" ELSE "turn"]
                /\ UNCHANGED lessonVars
        /\ UNCHANGED <<bindings, state, events, signals, snapshots, binds, marks>>

(* Mistake: the versions are compared when the state is read, not again.   *)
TurnsUnguarded(p) == state.binding = p.binding

(* The guard of both UPDATEs.                                              *)
Turns(p) == state.binding = p.binding /\ state.version < p.version

(* The page read was the page asked for: only the version is written, even *)
(* when another viewer has turned the page since.                          *)
StayOnPage(i) ==
    /\ pages[i].pc = "stay"
    /\ state' = IF Turns(pages[i]) THEN [state EXCEPT !.version = pages[i].version] ELSE state
    /\ EndPage(i)
    /\ UNCHANGED <<bindings, events, signals, snapshots, binds, marks>>

(* The batch: the state, and its event unless this version has one.        *)
TurnPage(i) ==
    LET p == pages[i]
        turned == [binding |-> p.binding, version |-> p.version, page |-> p.page]
        next == IF Turns(p) THEN turned ELSE state
    IN  /\ p.pc = "turn"
        /\ state' = next
        /\ events' = IF next = turned
                        /\ \A e \in events : e.binding # p.binding \/ e.version # p.version
                     THEN events \cup {turned} ELSE events
        /\ EndPage(i)
        /\ UNCHANGED <<bindings, signals, snapshots, binds, marks>>

-----------------------------------------------------------------------------
(* Understanding signals *)

(* A student answers for the page the public state shows.                  *)
StartMark(i) ==
    /\ Bound
    /\ Begin(i)
    /\ \E student \in Students, answer \in Answers :
        marks' = [marks EXCEPT ![i] =
            [pc |-> "read", student |-> student, answer |-> answer, seen |-> state]]
    /\ UNCHANGED <<bindings, state, events, signals, snapshots, binds, pages>>

EndMark(i) == marks' = [marks EXCEPT ![i] = Idle] /\ Finish(i)

Given(m) == {s \in signals : s.student = m.student /\ s.binding = m.seen.binding
                                /\ s.page = m.seen.page}

(* Another page, an ended session, or the same answer again end the        *)
(* request.                                                                *)
ReadMark(i) ==
    LET m == marks[i]
    IN  /\ m.pc = "read"
        /\ IF state = m.seen /\ Active /\ \A s \in Given(m) : s.answer # m.answer
           THEN marks' = [marks EXCEPT ![i].pc = "batch"] /\ UNCHANGED lessonVars
           ELSE EndMark(i)
        /\ UNCHANGED <<bindings, state, events, signals, snapshots, binds, pages>>

(* The upsert, while the page is the one the student has seen.  The        *)
(* participant's row is the composition's business.                        *)
StoreMark(i) ==
    LET m == marks[i]
    IN  /\ m.pc = "batch"
        /\ signals' = IF state = m.seen /\ Active
                      THEN (signals \ Given(m)) \cup
                             {[student |-> m.student, binding |-> m.seen.binding,
                               page |-> m.seen.page, answer |-> m.answer]}
                      ELSE signals
        /\ EndMark(i)
        /\ UNCHANGED <<bindings, state, events, snapshots, binds, pages>>

(* runPdfAnalyticsRetention, half a year after the session: any signals,   *)
(* snapshots and page events, and bindings that no comment's link (linked) *)
(* and nothing that is left of signals and snapshots refers to.  A binding *)
(* takes its events and the state with it.  The batch takes at most 500    *)
(* rows of each, which no session reaches.                                 *)
PdfRetention(linked) ==
    /\ session = "old"
    /\ NoneBinds
    /\ signals' \in SUBSET signals
    /\ snapshots' \in SUBSET snapshots
    /\ \E gone \in SUBSET {b \in Ids \ linked :
            /\ bindings[b] # NoBinding
            /\ \A row \in signals' \cup snapshots' : row.binding # b} :
        /\ bindings' = [b \in Ids |-> IF b \in gone THEN NoBinding ELSE bindings[b]]
        /\ state' = IF state.binding \in gone THEN NoState ELSE state
        /\ events' \in SUBSET {e \in events : e.binding \notin gone}
    /\ UNCHANGED <<lessonVars, binds, pages, marks>>

-----------------------------------------------------------------------------
(* commentPageLinkStatement: what a comment stored now is linked to.       *)
PageLink == state
=============================================================================
