-------------------------- MODULE PdfPagesProofs --------------------------
(***************************************************************************)
(* What the PDF of a live session promises, whatever the handlers of the   *)
(* comments do beside it, for any documents, pages, students and bounds.   *)
(***************************************************************************)
EXTENDS ClassroomProps, TLAPS

-----------------------------------------------------------------------------
(* The inductive invariant *)

PdfTypeOK ==
    /\ LessonTypeOK
    /\ bindings \in [Ids -> Bindings \cup {NoBinding}]
    /\ state \in PageStates
    /\ events \subseteq Events
    /\ signals \subseteq Signals
    /\ snapshots \subseteq Snapshots
    /\ binds \in [Ids -> BindRecords \cup {Idle}]
    /\ pages \in [Ids -> PageRecords \cup {Idle}]
    /\ marks \in [Ids -> MarkRecords \cup {Idle}]

(* A bind's binding appears with its batch, and nothing refers to it       *)
(* before; its snapshot appears with the second call.                      *)
Unused(i) ==
    /\ bindings[i] = NoBinding
    /\ state.binding # i
    /\ \A e \in events : e.binding # i
BeforeBatch == {"previous", "snapshot", "current", "touch", "replace"}
NotYetBound ==
    \A i \in Ids :
        /\ i > issued \/ binds[i].pc \in BeforeBatch => Unused(i)
        /\ i > issued => ~Binding(i)
        /\ i > issued \/ binds[i].pc \in {"previous", "snapshot"} =>
              \A snapshot \in snapshots : snapshot.id # i

(* The current binding is stored and not replaced, and is there when it is *)
(* put on record or a student has seen it; and a batch that was applied    *)
(* has left its binding.                                                   *)
BindingStands ==
    /\ Bound => bindings[state.binding] \in Bindings /\ ~bindings[state.binding].replaced
    /\ \A i \in Ids :
        /\ binds[i].pc = "snapshot" => Bound
        /\ binds[i].pc = "confirm" => bindings[i] # NoBinding
        /\ marks[i].pc # "none" => marks[i].seen.binding # 0

Alone(i) == Binding(i) /\ binds[i].alone
AloneIsAlone == \A i, j \in Ids : Alone(i) /\ Binding(j) => i = j

(* What a bind that is alone knows of the PDF it is going to replace.      *)
OnRecord == \E snapshot \in snapshots : snapshot.binding = state.binding
Recording ==
    \A i \in Ids : Alone(i) =>
        /\ binds[i].pc = "snapshot" => ~BoundDoc(binds[i].doc)
        /\ binds[i].pc = "current" => ~Bound \/ BoundDoc(binds[i].doc) \/ OnRecord
        /\ binds[i].pc = "replace" => ~Bound \/ OnRecord

(* What it knows of the snapshot it has taken.                             *)
Taking ==
    \A i \in Ids, snapshot \in snapshots : Alone(i) /\ snapshot.id = i =>
        /\ binds[i].pc # "touch"
        /\ \/ binds[i].pc \in {"current", "replace"}
           \/ binds[i].pc = "rollback" /\ bindings[i] = NoBinding
           => Bound /\ snapshot.binding = state.binding
        /\ binds[i].pc = "current" => ~BoundDoc(binds[i].doc)
        /\ binds[i].pc = "confirm" => bindings[snapshot.binding].replaced

PdfInv ==
    /\ PdfTypeOK /\ NotYetBound /\ BindingStands /\ AloneIsAlone
    /\ Recording /\ Taking /\ PageOfLatestEvent

-----------------------------------------------------------------------------
(* Rows and records *)

LEMMA NoBindingIsNone == NoBinding \notin Bindings
BY DEF NoBinding, Bindings

LEMMA BindFields ==
    ASSUME PdfTypeOK, NEW i \in Ids
    PROVE  /\ binds[i] = Idle \/ binds[i] \in BindRecords
           /\ binds[i].alone \in BOOLEAN
           /\ Binding(i) <=> binds[i] \in BindRecords
           /\ Binding(i) => /\ binds[i].doc \in Docs
                            /\ binds[i].pc \in {"previous", "snapshot", "current", "touch",
                                                "replace", "confirm", "rollback"}
<1>1. binds[i] \in BindRecords \cup {Idle}
  BY DEF PdfTypeOK
<1>2. CASE binds[i] = Idle
  <2>1. binds[i].pc = "none" /\ binds[i].alone = FALSE
    BY <1>2 DEF Idle
  <2>2. binds[i] \notin BindRecords
    BY <2>1 DEF BindRecords
  <2> QED BY <1>2, <2>1, <2>2 DEF Binding
<1>3. CASE binds[i] \in BindRecords
  BY <1>3 DEF BindRecords, Binding
<1> QED BY <1>1, <1>2, <1>3

LEMMA PageFields ==
    ASSUME PdfTypeOK, NEW i \in Ids, pages[i].pc # "none"
    PROVE  /\ pages[i] \in PageRecords
           /\ pages[i].pc \in {"read", "stay", "turn"} /\ pages[i].binding \in Ids
           /\ pages[i].page \in Pages /\ pages[i].version \in PageVersions
BY DEF PdfTypeOK, PageRecords, Idle

LEMMA MarkFields ==
    ASSUME PdfTypeOK, NEW i \in Ids, marks[i].pc # "none"
    PROVE  /\ marks[i] \in MarkRecords
           /\ marks[i].pc \in {"read", "batch"} /\ marks[i].student \in Students
           /\ marks[i].answer \in Answers /\ marks[i].seen \in PageStates
BY DEF PdfTypeOK, MarkRecords, Idle

LEMMA StateFields ==
    ASSUME PdfTypeOK
    PROVE  /\ state.binding \in 0..MaxRequests /\ state.page \in Pages
           /\ state.version \in PageVersions
           /\ Bound => state.binding \in Ids
           /\ state = [binding |-> state.binding, page |-> state.page, version |-> state.version]
BY BoundsAssumption DEF PdfTypeOK, PageStates, Bound, Ids

LEMMA EventFields ==
    ASSUME PdfTypeOK, NEW e \in events
    PROVE  e.binding \in Ids /\ e.version \in PageVersions /\ e.page \in Pages
BY DEF PdfTypeOK, Events

LEMMA SnapshotFields ==
    ASSUME PdfTypeOK, NEW snapshot \in snapshots
    PROVE  /\ snapshot \in Snapshots /\ snapshot.id \in Ids /\ snapshot.binding \in Ids
           /\ snapshot.auto \in BOOLEAN
BY DEF PdfTypeOK, Snapshots

(* Requests come and go.                                                   *)
LEMMA LessonMoves ==
    ASSUME LessonTypeOK, NEW i
    PROVE  /\ Begin(i) => /\ LessonTypeOK' /\ session' = session
                          /\ issued' = i /\ i = issued + 1 /\ i \in Ids
           /\ Finish(i) => LessonTypeOK' /\ session' = session /\ issued' = issued
           /\ UNCHANGED lessonVars => LessonTypeOK' /\ session' = session /\ issued' = issued
<1>1. CASE Begin(i)
  <2>1. i = issued + 1 /\ issued' = i /\ i \in Ids /\ issued' \in 0..MaxRequests
    BY <1>1, BoundsAssumption DEF LessonTypeOK, Begin, Ids
  <2>2. flying' \subseteq Ids
    BY <1>1, <2>1 DEF LessonTypeOK, Begin
  <2>3. UNCHANGED <<session, pre, now>>
    BY <1>1 DEF Begin
  <2>4. LessonTypeOK' /\ issued' # issued
    BY <2>1, <2>2, <2>3 DEF LessonTypeOK
  <2> QED BY <2>1, <2>3, <2>4 DEF Finish, lessonVars
<1>2. Finish(i) => LessonTypeOK' /\ session' = session /\ issued' = issued
  BY DEF LessonTypeOK, Finish
<1>3. UNCHANGED lessonVars => LessonTypeOK' /\ session' = session /\ issued' = issued
  BY DEF LessonTypeOK, lessonVars
<1> QED BY <1>1, <1>2, <1>3

LEMMA PdfMeans == ASSUME PdfInv PROVE PdfTypeOK /\ LessonTypeOK /\ issued \in 0..MaxRequests
BY DEF PdfInv, PdfTypeOK, LessonTypeOK

-----------------------------------------------------------------------------
(* Steps beside the bindings *)

LEMMA Elsewhere ==
    ASSUME PdfInv, LessonTypeOK', issued' >= issued, session = "old" => session' = "old",
           UNCHANGED <<bindings, state, events, snapshots, binds>>,
           signals' \subseteq Signals,
           pages' \in [Ids -> PageRecords \cup {Idle}],
           marks' \in [Ids -> MarkRecords \cup {Idle}],
           \A i \in Ids : marks'[i].pc # "none" => marks'[i].seen.binding # 0
    PROVE  PdfInv'
<1>0. PdfTypeOK /\ issued \in 0..MaxRequests /\ issued' \in 0..MaxRequests
  BY PdfMeans DEF LessonTypeOK
<1>1. PdfTypeOK'
  BY <1>0 DEF PdfTypeOK
<1>2. NotYetBound'
  BY <1>0 DEF PdfInv, NotYetBound, Unused, Binding, Ids
<1>3. BindingStands'
  BY DEF PdfInv, BindingStands, Bound
<1>4. AloneIsAlone'
  BY DEF PdfInv, AloneIsAlone, Alone, Binding
<1>5. Recording'
  BY DEF PdfInv, Recording, Alone, Binding, BoundDoc, Bound, OnRecord
<1>6. Taking'
  BY DEF PdfInv, Taking, Alone, Binding, BoundDoc, Bound
<1>7. PageOfLatestEvent'
  BY DEF PdfInv, PageOfLatestEvent, Bound
<1> QED BY <1>1, <1>2, <1>3, <1>4, <1>5, <1>6, <1>7 DEF PdfInv

LEMMA Beside ==
    ASSUME PdfInv, LessonTypeOK', issued' >= issued, session = "old" => session' = "old",
           UNCHANGED pdfVars
    PROVE  PdfInv'
BY Elsewhere DEF PdfInv, PdfTypeOK, BindingStands, pdfVars

LEMMA StartsPage == ASSUME PdfInv, NEW i \in Ids, StartPage(i) PROVE PdfInv'
<1>1. PdfTypeOK /\ LessonTypeOK /\ issued \in Nat
  BY PdfMeans
<1>2. LessonTypeOK' /\ issued' >= issued /\ session' = session
  BY <1>1, LessonMoves DEF StartPage
<1>3. PICK b \in Ids, page \in Pages, version \in PageVersions :
        pages' = [pages EXCEPT ![i] =
            [pc |-> "read", binding |-> b, page |-> page, version |-> version]]
  BY DEF StartPage
<1>4. [pc |-> "read", binding |-> b, page |-> page, version |-> version] \in PageRecords
  BY DEF PageRecords
<1>5. pages' \in [Ids -> PageRecords \cup {Idle}]
  BY <1>1, <1>3, <1>4 DEF PdfTypeOK
<1> QED BY <1>1, <1>2, <1>5, Elsewhere DEF StartPage, PdfTypeOK, PdfInv, BindingStands

LEMMA ReadsPage == ASSUME PdfInv, NEW i \in Ids, ReadPage(i) PROVE PdfInv'
<1>1. PdfTypeOK /\ LessonTypeOK /\ issued \in Nat
  BY PdfMeans
<1>2. LessonTypeOK' /\ issued' >= issued /\ session' = session
  BY <1>1, LessonMoves DEF ReadPage, EndPage
<1>3. pages[i].pc = "read"
  BY DEF ReadPage
<1>4. [pages[i] EXCEPT !.pc = "stay"] \in PageRecords /\ [pages[i] EXCEPT !.pc = "turn"] \in PageRecords
  BY <1>1, <1>3, PageFields DEF PageRecords
<1>5. pages' \in [Ids -> PageRecords \cup {Idle}]
  BY <1>1, <1>4 DEF ReadPage, EndPage, PdfTypeOK
<1> QED BY <1>1, <1>2, <1>5, Elsewhere DEF ReadPage, PdfTypeOK, PdfInv, BindingStands

LEMMA StartsMark == ASSUME PdfInv, NEW i \in Ids, StartMark(i) PROVE PdfInv'
<1>1. PdfTypeOK /\ LessonTypeOK /\ issued \in Nat
  BY PdfMeans
<1>2. LessonTypeOK' /\ issued' >= issued /\ session' = session
  BY <1>1, LessonMoves DEF StartMark
<1>3. PICK student \in Students, answer \in Answers :
        marks' = [marks EXCEPT ![i] =
            [pc |-> "read", student |-> student, answer |-> answer, seen |-> state]]
  BY DEF StartMark
<1>4. [pc |-> "read", student |-> student, answer |-> answer, seen |-> state] \in MarkRecords
  BY <1>1 DEF MarkRecords, PdfTypeOK
<1>5. marks' \in [Ids -> MarkRecords \cup {Idle}]
  BY <1>1, <1>3, <1>4 DEF PdfTypeOK
<1>6. \A j \in Ids : marks'[j].pc # "none" => marks'[j].seen.binding # 0
  BY <1>1, <1>3 DEF PdfInv, BindingStands, StartMark, Bound, PdfTypeOK
<1> QED BY <1>1, <1>2, <1>5, <1>6, Elsewhere DEF StartMark, PdfTypeOK

LEMMA ReadsMark == ASSUME PdfInv, NEW i \in Ids, ReadMark(i) PROVE PdfInv'
<1>1. PdfTypeOK /\ LessonTypeOK /\ issued \in Nat
  BY PdfMeans
<1>2. LessonTypeOK' /\ issued' >= issued /\ session' = session
  BY <1>1, LessonMoves DEF ReadMark, EndMark
<1>3. marks[i].pc = "read"
  BY DEF ReadMark
<1>4. [marks[i] EXCEPT !.pc = "batch"] \in MarkRecords
       /\ [marks[i] EXCEPT !.pc = "batch"].seen = marks[i].seen
  BY <1>1, <1>3, MarkFields DEF MarkRecords
<1>5. marks' = [marks EXCEPT ![i] = [marks[i] EXCEPT !.pc = "batch"]] \/ marks' = [marks EXCEPT ![i] = Idle]
  BY DEF ReadMark, EndMark
<1>6. marks' \in [Ids -> MarkRecords \cup {Idle}]
  BY <1>1, <1>4, <1>5 DEF PdfTypeOK
<1>7. \A j \in Ids : marks'[j].pc # "none" => marks'[j].seen.binding # 0
  <2>1. \A j \in Ids : marks[j].pc # "none" => marks[j].seen.binding # 0
    BY DEF PdfInv, BindingStands
  <2>2. \A j \in Ids : j # i => marks'[j] = marks[j]
    BY <1>1, <1>5 DEF PdfTypeOK
  <2>3. marks'[i] = [marks[i] EXCEPT !.pc = "batch"] \/ marks'[i] = Idle
    BY <1>1, <1>5 DEF PdfTypeOK
  <2>4. Idle.pc = "none"
    BY DEF Idle
  <2>5. marks'[i].pc # "none" => marks'[i].seen.binding # 0
    BY <1>3, <1>4, <2>1, <2>3, <2>4
  <2> QED BY <2>1, <2>2, <2>5
<1> QED BY <1>1, <1>2, <1>6, <1>7, Elsewhere DEF ReadMark, PdfTypeOK

LEMMA StoresMark == ASSUME PdfInv, NEW i \in Ids, StoreMark(i) PROVE PdfInv'
<1>1. PdfTypeOK /\ LessonTypeOK /\ issued \in Nat
  BY PdfMeans
<1>2. LessonTypeOK' /\ issued' >= issued /\ session' = session
  BY <1>1, LessonMoves DEF StoreMark, EndMark
<1>3. marks[i].pc = "batch"
  BY DEF StoreMark
<1>4. marks' = [marks EXCEPT ![i] = Idle]
  BY DEF StoreMark, EndMark
<1>5. marks' \in [Ids -> MarkRecords \cup {Idle}]
       /\ \A j \in Ids : marks'[j].pc # "none" => marks'[j].seen.binding # 0
  BY <1>1, <1>4 DEF PdfInv, BindingStands, PdfTypeOK, Idle
<1>6. marks[i].seen \in PageStates /\ marks[i].seen.binding # 0
  BY <1>1, <1>3, MarkFields DEF PdfInv, BindingStands
<1>7. marks[i].seen.binding \in Ids /\ marks[i].seen.page \in Pages
  BY <1>6, BoundsAssumption DEF PageStates, Ids
<1>8. [student |-> marks[i].student, binding |-> marks[i].seen.binding,
        page |-> marks[i].seen.page, answer |-> marks[i].answer] \in Signals
  BY <1>1, <1>3, <1>7, MarkFields DEF Signals
<1>9. signals' \subseteq Signals
  BY <1>1, <1>8 DEF StoreMark, PdfTypeOK
<1> QED BY <1>1, <1>2, <1>5, <1>9, Elsewhere DEF StoreMark, PdfTypeOK

LEMMA RetainsParticipants == ASSUME PdfInv, RunRetention PROVE PdfInv'
<1>1. PdfTypeOK /\ LessonTypeOK /\ issued \in Nat
  BY PdfMeans
<1>2. UNCHANGED lessonVars
  BY DEF RunRetention, Retention, lessonVars
<1>3. LessonTypeOK' /\ issued' >= issued /\ session' = session
  BY <1>1, <1>2, LessonMoves
<1>4. signals' \subseteq signals
  BY DEF RunRetention
<1>5. UNCHANGED <<bindings, state, events, snapshots, binds, pages, marks>>
  BY DEF RunRetention
<1> QED BY <1>1, <1>3, <1>4, <1>5, Elsewhere DEF PdfTypeOK, PdfInv, BindingStands

(* No bind runs, and nothing is said of the page events any more.          *)
LEMMA RetainsPages == ASSUME PdfInv, PdfRetention(Linked) PROVE PdfInv'
<1>1. PdfTypeOK /\ LessonTypeOK
  BY PdfMeans
<1>2. /\ session = "old" /\ NoneBinds
      /\ signals' \subseteq signals /\ snapshots' \subseteq snapshots
      /\ UNCHANGED lessonVars /\ UNCHANGED <<binds, pages, marks>>
  BY DEF PdfRetention
<1>3. PICK gone \in SUBSET Ids :
        /\ bindings' = [b \in Ids |-> IF b \in gone THEN NoBinding ELSE bindings[b]]
        /\ state' = IF state.binding \in gone THEN NoState ELSE state
        /\ events' \subseteq events
  BY DEF PdfRetention
<1>4. LessonTypeOK' /\ session' = session /\ issued' = issued
  BY <1>1, <1>2, LessonMoves
<1>5. NoState \in PageStates /\ NoState.binding = 0
  BY PdfAssumption, BoundsAssumption DEF NoState, PageStates, Pages, PageVersions
<1>6. \A b \in Ids : bindings'[b] = NoBinding \/ (b \notin gone /\ bindings'[b] = bindings[b])
  BY <1>3
<1>7. state' \in PageStates /\ (state'.binding = 0 \/ (state' = state /\ state.binding \notin gone))
  BY <1>1, <1>3, <1>5 DEF PdfTypeOK
<1>8. PdfTypeOK'
  BY <1>1, <1>2, <1>3, <1>4, <1>7 DEF PdfTypeOK
<1>9. NotYetBound'
  <2>1. \A i \in Ids : Unused(i) => Unused(i)'
    BY <1>3, <1>6, <1>7, BoundsAssumption DEF Unused, Ids
  <2> QED BY <1>2, <1>4, <2>1 DEF PdfInv, NotYetBound, Binding
<1>10. \A i \in Ids : ~Binding(i) /\ ~Binding(i)' /\ binds'[i].pc = "none"
  BY <1>2 DEF NoneBinds, Binding
<1>11. BindingStands'
  <2>1. Bound' => Bound /\ state' = state /\ state.binding \in Ids /\ state.binding \notin gone
    BY <1>1, <1>7, StateFields DEF Bound
  <2>2. Bound' => bindings'[state'.binding] = bindings[state.binding]
    BY <1>3, <2>1
  <2> QED BY <1>2, <1>10, <2>1, <2>2 DEF PdfInv, BindingStands
<1>12. AloneIsAlone' /\ Recording' /\ Taking'
  BY <1>10 DEF AloneIsAlone, Recording, Taking, Alone
<1>13. PageOfLatestEvent'
  BY <1>2, <1>4 DEF PageOfLatestEvent
<1> QED BY <1>8, <1>9, <1>11, <1>12, <1>13 DEF PdfInv

-----------------------------------------------------------------------------
(* Steps that change the page                                              *)

LEMMA EndsPage ==
    ASSUME PdfInv, NEW i \in Ids, EndPage(i)
    PROVE  /\ LessonTypeOK' /\ session' = session
           /\ issued' = issued /\ issued \in 0..MaxRequests
           /\ pages' \in [Ids -> PageRecords \cup {Idle}]
BY PdfMeans, LessonMoves DEF EndPage, PdfTypeOK

(* Another page of the same binding disturbs no bind.                      *)
LEMMA SameBinding ==
    ASSUME PdfInv, LessonTypeOK', issued' = issued, state' \in PageStates,
           state'.binding = state.binding,
           events' \subseteq Events,
           \A e \in events' : e \in events \/ (Bound /\ e.binding = state.binding),
           pages' \in [Ids -> PageRecords \cup {Idle}],
           UNCHANGED <<bindings, signals, snapshots, binds, marks>>
    PROVE  /\ PdfTypeOK' /\ NotYetBound' /\ BindingStands' /\ AloneIsAlone'
           /\ Recording' /\ Taking'
<1>1. PdfTypeOK'
  BY DEF PdfInv, PdfTypeOK
<1>2. NotYetBound'
  <2>1. \A i \in Ids : Unused(i) => Unused(i)'
    BY DEF Unused, Bound
  <2> QED BY <2>1 DEF PdfInv, NotYetBound, Binding
<1>3. BindingStands'
  BY DEF PdfInv, BindingStands, Bound
<1>4. AloneIsAlone'
  BY DEF PdfInv, AloneIsAlone, Alone, Binding
<1>5. Recording'
  BY DEF PdfInv, Recording, Alone, Binding, BoundDoc, Bound, OnRecord
<1>6. Taking'
  BY DEF PdfInv, Taking, Alone, Binding, BoundDoc, Bound
<1> QED BY <1>1, <1>2, <1>3, <1>4, <1>5, <1>6

LEMMA StaysOnPage == ASSUME PdfInv, NEW i \in Ids, StayOnPage(i) PROVE PdfInv'
<1>1. PdfTypeOK
  BY PdfMeans
<1>2. EndPage(i) /\ pages[i].pc = "stay"
  BY DEF StayOnPage
<1>3. state' \in PageStates /\ state'.binding = state.binding /\ state'.page = state.page
       /\ state'.version >= state.version
  BY <1>1, <1>2, PageFields, StateFields DEF StayOnPage, Turns, PageStates, PageVersions
<1>4. PageOfLatestEvent'
  <2>1. events' = events
    BY DEF StayOnPage
  <2>2. ASSUME Bound', session # "old"
        PROVE  \E e \in events : e.binding = state.binding /\ e.page = state.page
                  /\ e.version <= state.version
                  /\ \A f \in events : f.binding = e.binding => f.version <= e.version
    BY <1>3, <2>2 DEF PdfInv, PageOfLatestEvent, Bound
  <2>3. state.version \in Nat /\ state'.version \in Nat /\ \A e \in events : e.version \in Nat
    BY <1>1, <1>3, EventFields, StateFields, PdfAssumption DEF PageVersions, PageStates
  <2> QED BY <1>2, <1>3, <2>1, <2>2, <2>3, EndsPage DEF PageOfLatestEvent
<1> QED BY <1>1, <1>2, <1>3, <1>4, EndsPage, SameBinding DEF StayOnPage, PdfInv, PdfTypeOK

LEMMA TurnsPage == ASSUME PdfInv, NEW i \in Ids, TurnPage(i) PROVE PdfInv'
<1> DEFINE p == pages[i]
           turned == [binding |-> p.binding, version |-> p.version, page |-> p.page]
           next == IF Turns(p) THEN turned ELSE state
           first == \A e \in events : e.binding # p.binding \/ e.version # p.version
<1>1. PdfTypeOK
  BY PdfMeans
<1>2. /\ EndPage(i) /\ p.pc = "turn" /\ state' = next
      /\ next = turned /\ first => events' = events \cup {turned}
      /\ ~(next = turned /\ first) => events' = events
      /\ UNCHANGED <<bindings, signals, snapshots, binds, marks>>
  <2>1. events' = IF next = turned /\ first THEN events \cup {turned} ELSE events
    BY Zenon DEF TurnPage
  <2>2. EndPage(i) /\ p.pc = "turn" /\ state' = next
         /\ UNCHANGED <<bindings, signals, snapshots, binds, marks>>
    BY Zenon DEF TurnPage
  <2> QED BY Zenon, <2>1, <2>2
<1>3. p.binding \in Ids /\ p.version \in PageVersions /\ p.page \in Pages
  BY <1>1, <1>2, PageFields
<1>4. turned \in Events /\ turned \in PageStates
  BY <1>3, BoundsAssumption DEF Events, PageStates, Ids
<1>5. turned.binding = p.binding /\ turned.version = p.version /\ turned.page = p.page
  OBVIOUS
<1>6. p.binding # 0 /\ \A n \in PageVersions : n \in Nat
  BY <1>3, PdfAssumption DEF Ids, PageVersions
<1>7. state.version \in Nat /\ p.version \in Nat /\ \A e \in events : e.version \in Nat
  BY <1>1, <1>3, <1>6, StateFields, EventFields
<1>8. next \in PageStates /\ next.binding = state.binding
  BY <1>1, <1>4, <1>5 DEF Turns, PdfTypeOK
<1>9. next = turned => Bound /\ p.binding = state.binding
  BY <1>5, <1>6, <1>8 DEF Bound
<1> HIDE DEF next, turned, p
<1>10. events' \subseteq Events /\ \A e \in events' : e \in events \/ (Bound /\ e.binding = state.binding)
  BY <1>1, <1>2, <1>4, <1>5, <1>9 DEF PdfTypeOK
<1>11. PageOfLatestEvent'
  <2> SUFFICES ASSUME Bound', session # "old"
               PROVE  \E e \in events' : e.binding = next.binding /\ e.page = next.page
                  /\ e.version <= next.version
                  /\ \A f \in events' : f.binding = e.binding => f.version <= e.version
    BY <1>2, EndsPage DEF PageOfLatestEvent
  <2>1. Bound
    BY <1>2, <1>8 DEF Bound
  <2>2. PICK e \in events : e.binding = state.binding /\ e.page = state.page
                  /\ e.version <= state.version
                  /\ \A f \in events : f.binding = e.binding => f.version <= e.version
    BY <2>1 DEF PdfInv, PageOfLatestEvent
  <2>3. CASE next = turned
    <3>1. p.binding = state.binding /\ state.version <= p.version
      BY <1>5, <1>7, <1>9, <2>3 DEF next, Turns
    <3>2. CASE first
      <4>1. events' = events \cup {turned}
        BY <1>2, <2>3, <3>2
      <4>2. \A f \in events' : f.binding = turned.binding => f.version <= turned.version
        BY <1>5, <1>7, <2>2, <3>1, <4>1
      <4> QED BY <1>5, <1>7, <2>3, <4>1, <4>2
    <3>3. CASE ~first
      <4>1. events' = events
        BY <1>2, <3>3
      <4>2. PICK f \in events : f.binding = p.binding /\ f.version = p.version
        BY <3>3 DEF p
      <4>3. p.version <= e.version /\ e.version <= state.version
        BY <2>2, <3>1, <4>2
      <4>4. ~Turns(p)
        BY <1>7, <4>3 DEF Turns
      <4>5. next = state
        BY <4>4 DEF next
      <4> QED BY <2>2, <4>1, <4>5
    <3> QED BY <3>2, <3>3
  <2>4. CASE next # turned
    <3>1. next = state /\ events' = events
      BY <1>2, <2>4 DEF next
    <3> QED BY <2>2, <3>1
  <2> QED BY <2>3, <2>4
<1> QED BY <1>1, <1>2, <1>8, <1>10, <1>11, EndsPage, SameBinding DEF PdfInv

-----------------------------------------------------------------------------
(* Steps of a bind that leave the bindings alone                           *)

(* A bind that is alone sees no other one move.                            *)
LEMMA BindMoves ==
    ASSUME PdfInv, NEW i \in Ids, Binding(i), NEW record,
           record = Idle \/ (record \in BindRecords /\ record.alone = binds[i].alone),
           binds' = [binds EXCEPT ![i] = record],
           LessonTypeOK', session' = session, issued' = issued,
           UNCHANGED <<bindings, state, events, signals, pages, marks>>,
           snapshots' \subseteq Snapshots,
           \A s \in snapshots' : s.id = i \/ \E q \in snapshots : q.id = s.id,
           record.pc \in BeforeBatch => binds[i].pc \in BeforeBatch,
           record.pc = "snapshot" => Bound, record.pc # "confirm",
           record.pc \in {"previous", "snapshot"} => \A s \in snapshots' : s.id # i,
           binds[i].alone =>
              /\ record.pc = "snapshot" => ~BoundDoc(record.doc)
              /\ record.pc = "current" => ~Bound \/ BoundDoc(record.doc) \/ OnRecord'
              /\ record.pc = "replace" => ~Bound \/ OnRecord',
           \A s \in snapshots' : binds[i].alone /\ s.id = i =>
              /\ record.pc # "touch"
              /\ \/ record.pc \in {"current", "replace"}
                 \/ record.pc = "rollback" /\ bindings[i] = NoBinding
                 => Bound /\ s.binding = state.binding
              /\ record.pc = "current" => ~BoundDoc(record.doc)
    PROVE  PdfInv'
<1>1. PdfTypeOK /\ issued \in Nat
  BY PdfMeans
<1>2. Idle.pc = "none"
  BY DEF Idle
<1>3. binds'[i] = record /\ \A j \in Ids : j # i => binds'[j] = binds[j]
  BY <1>1 DEF PdfTypeOK
<1>4. \A j \in Ids : Binding(j)' => Binding(j)
  BY <1>3 DEF Binding
<1>5. \A j \in Ids : Alone(j) => j = i
  BY DEF PdfInv, AloneIsAlone
<1>6. \A j \in Ids : Alone(j)' => j = i /\ binds[i].alone /\ record = binds'[i]
  BY <1>2, <1>3, <1>5 DEF Alone, Binding
<1>7. UNCHANGED <<Bound>> /\ \A doc : BoundDoc(doc)' = BoundDoc(doc)
  BY DEF Bound, BoundDoc
<1>8. PdfTypeOK'
  BY <1>1 DEF PdfTypeOK
<1>9. NotYetBound'
  <2>1. ASSUME NEW j \in Ids
        PROVE  /\ j > issued' \/ binds'[j].pc \in BeforeBatch => Unused(j)'
               /\ j > issued' => ~Binding(j)'
    <3>1. j > issued \/ binds[j].pc \in BeforeBatch => Unused(j)
      BY DEF PdfInv, NotYetBound
    <3>2. Unused(j)' <=> Unused(j)
      BY DEF Unused
    <3>3. binds'[j].pc \in BeforeBatch => binds[j].pc \in BeforeBatch
      BY <1>3
    <3> QED BY <1>4, <3>1, <3>2, <3>3 DEF PdfInv, NotYetBound
  <2>2. ASSUME NEW j \in Ids, j > issued' \/ binds'[j].pc \in {"previous", "snapshot"},
               NEW s \in snapshots'
        PROVE  s.id # j
    <3>1. CASE j = i
      <4>1. ~(j > issued)
        BY <3>1 DEF PdfInv, NotYetBound
      <4> QED BY <1>3, <2>2, <3>1, <4>1
    <3>2. CASE j # i
      BY <1>3, <2>2, <3>2 DEF PdfInv, NotYetBound
    <3> QED BY <3>1, <3>2
  <2> QED BY <2>1, <2>2 DEF NotYetBound
<1>10. BindingStands'
  BY <1>3, <1>7 DEF PdfInv, BindingStands
<1>11. AloneIsAlone'
  BY <1>4, <1>5, <1>6 DEF PdfInv, AloneIsAlone, Alone
<1>12. Recording'
  <2>1. ASSUME NEW j \in Ids, Alone(j)'
        PROVE  /\ binds'[j].pc = "snapshot" => ~BoundDoc(binds[j].doc)'
               /\ binds'[j].pc = "current" => ~Bound' \/ BoundDoc(binds[j].doc)' \/ OnRecord'
               /\ binds'[j].pc = "replace" => ~Bound' \/ OnRecord'
    <3>1. j = i /\ binds[i].alone /\ binds'[j] = record
      BY <1>6, <2>1
    <3>2. BoundDoc(binds[j].doc)' = BoundDoc(record.doc) /\ (Bound' <=> Bound)
      BY <1>7, <3>1 DEF Bound, BoundDoc
    <3> QED BY <3>1, <3>2
  <2> QED BY <2>1 DEF Recording
<1>13. Taking'
  <2>1. ASSUME NEW j \in Ids, NEW s \in snapshots', Alone(j)', s.id = j
        PROVE  /\ binds'[j].pc # "touch"
               /\ \/ binds'[j].pc \in {"current", "replace"}
                  \/ binds'[j].pc = "rollback" /\ bindings'[j] = NoBinding
                  => Bound' /\ s.binding = state'.binding
               /\ binds'[j].pc = "current" => ~BoundDoc(binds[j].doc)'
               /\ binds'[j].pc = "confirm" => bindings'[s.binding].replaced
    <3>1. j = i /\ binds[i].alone /\ binds'[j] = record
      BY <1>6, <2>1
    <3>2. BoundDoc(binds[j].doc)' = BoundDoc(record.doc) /\ (Bound' <=> Bound)
      BY <1>7, <3>1 DEF Bound, BoundDoc
    <3> QED BY <2>1, <3>1, <3>2
  <2> QED BY <2>1 DEF Taking
<1>14. PageOfLatestEvent'
  BY DEF PdfInv, PageOfLatestEvent, Bound
<1> QED BY <1>8, <1>9, <1>10, <1>11, <1>12, <1>13, <1>14 DEF PdfInv

LEMMA EndsBind ==
    ASSUME PdfInv, NEW i \in Ids, EndBind(i)
    PROVE  /\ LessonTypeOK' /\ session' = session /\ issued' = issued
           /\ binds' = [binds EXCEPT ![i] = Idle]
BY PdfMeans, LessonMoves DEF EndBind

LEMMA GoesOn ==
    ASSUME PdfInv, NEW i \in Ids, Binding(i),
           NEW pc \in {"snapshot", "current", "touch", "replace", "confirm", "rollback"},
           BindGoto(i, pc)
    PROVE  \E record \in BindRecords :
              /\ binds' = [binds EXCEPT ![i] = record]
              /\ record.pc = pc /\ record.doc = binds[i].doc /\ record.alone = binds[i].alone
<1>1. binds[i] \in BindRecords
  BY PdfMeans, BindFields
<1>2. [binds[i] EXCEPT !.pc = pc] \in BindRecords
  BY <1>1 DEF BindRecords
<1>3. /\ [binds[i] EXCEPT !.pc = pc].pc = pc
      /\ [binds[i] EXCEPT !.pc = pc].doc = binds[i].doc
      /\ [binds[i] EXCEPT !.pc = pc].alone = binds[i].alone
  BY <1>1 DEF BindRecords
<1> QED BY <1>2, <1>3 DEF BindGoto

LEMMA GoingOn ==
    ASSUME PdfInv, NEW i \in Ids, Binding(i),
           NEW pc \in {"snapshot", "current", "touch", "replace", "confirm", "rollback"},
           BindGoto(i, pc)
    PROVE  binds'[i].pc # "none"
<1>1. PICK record \in BindRecords :
        binds' = [binds EXCEPT ![i] = record] /\ record.pc = pc
  BY GoesOn
<1> QED BY <1>1, PdfMeans DEF PdfTypeOK

LEMMA IdleIsNone == Idle.pc = "none" BY DEF Idle

LEMMA ReadsPrevious == ASSUME PdfInv, NEW i \in Ids, ReadPrevious(i) PROVE PdfInv'
<1> DEFINE pc == IF SnapshotFirst(binds[i].doc) THEN "snapshot" ELSE "current"
<1>1. /\ binds[i].pc = "previous" /\ Binding(i) /\ BindGoto(i, pc)
      /\ UNCHANGED <<bindings, state, events, signals, snapshots, pages, marks>>
      /\ UNCHANGED lessonVars
  BY DEF ReadPrevious, Binding
<1>2. LessonTypeOK' /\ session' = session /\ issued' = issued
  BY <1>1, PdfMeans, LessonMoves
<1>3. PICK record \in BindRecords :
              /\ binds' = [binds EXCEPT ![i] = record]
              /\ record.pc = pc /\ record.doc = binds[i].doc /\ record.alone = binds[i].alone
  BY <1>1, GoesOn
<1>4. \A s \in snapshots : s.id # i
  BY <1>1 DEF PdfInv, NotYetBound
<1>5. pc = "snapshot" => Bound /\ ~BoundDoc(binds[i].doc)
  BY DEF SnapshotFirst
<1>6. pc = "current" => ~Bound \/ BoundDoc(binds[i].doc)
  BY DEF SnapshotFirst
<1>7. pc \in {"snapshot", "current"}
  OBVIOUS
<1> HIDE DEF pc
<1>8. snapshots' = snapshots /\ snapshots' \subseteq Snapshots
  BY <1>1, PdfMeans DEF PdfTypeOK
<1> QED BY <1>1, <1>2, <1>3, <1>4, <1>5, <1>6, <1>7, <1>8, BindMoves DEF BeforeBatch

LEMMA TakesSnapshot == ASSUME PdfInv, NEW i \in Ids, TakeSnapshot(i) PROVE PdfInv'
<1> DEFINE new(auto) == [id |-> i, binding |-> state.binding, auto |-> auto]
<1>1. /\ binds[i].pc = "snapshot" /\ Binding(i)
      /\ UNCHANGED <<bindings, state, events, signals, pages, marks>>
  BY DEF TakeSnapshot, Binding
<1>2. Bound /\ \A s \in snapshots : s.id # i
  BY <1>1 DEF PdfInv, NotYetBound, BindingStands
<1>3. binds[i].alone => ~BoundDoc(binds[i].doc)
  BY <1>1 DEF PdfInv, Recording, Alone
<1>4. snapshots \subseteq Snapshots /\ state.binding \in Ids
  BY <1>2, PdfMeans, StateFields DEF PdfTypeOK
<1>5. \A auto \in BOOLEAN :
        new(auto) \in Snapshots /\ new(auto).id = i /\ new(auto).binding = state.binding
  BY <1>4 DEF Snapshots
<1>6. \/ snapshots' = snapshots \cup {new(TRUE)} /\ BindGoto(i, "current") /\ UNCHANGED lessonVars
      \/ snapshots' \in {snapshots, snapshots \cup {new(FALSE)}} /\ EndBind(i)
  BY DEF TakeSnapshot
<1> HIDE DEF new
<1>7. CASE snapshots' = snapshots \cup {new(TRUE)} /\ BindGoto(i, "current") /\ UNCHANGED lessonVars
  <2>1. LessonTypeOK' /\ session' = session /\ issued' = issued
    BY <1>7, PdfMeans, LessonMoves
  <2>2. PICK record \in BindRecords :
              /\ binds' = [binds EXCEPT ![i] = record]
              /\ record.pc = "current" /\ record.doc = binds[i].doc
              /\ record.alone = binds[i].alone
    BY <1>1, <1>7, GoesOn
  <2>3. snapshots' \subseteq Snapshots /\ new(TRUE) \in snapshots'
         /\ \A s \in snapshots' : s \in snapshots \/ s = new(TRUE)
    BY <1>4, <1>5, <1>7
  <2>4. OnRecord'
    BY <1>1, <1>5, <2>3 DEF OnRecord
  <2> QED BY <1>1, <1>2, <1>3, <1>5, <2>1, <2>2, <2>3, <2>4, BindMoves DEF BeforeBatch
<1>8. CASE snapshots' \in {snapshots, snapshots \cup {new(FALSE)}} /\ EndBind(i)
  <2>1. snapshots' \subseteq Snapshots /\ \A s \in snapshots' : s.id = i \/ s \in snapshots
    BY <1>4, <1>5, <1>8
  <2> QED BY <1>1, <1>8, <2>1, EndsBind, IdleIsNone, BindMoves DEF BeforeBatch
<1> QED BY <1>6, <1>7, <1>8

LEMMA ReadsCurrent == ASSUME PdfInv, NEW i \in Ids, ReadCurrent(i) PROVE PdfInv'
<1>1. /\ binds[i].pc = "current" /\ Binding(i)
      /\ UNCHANGED <<bindings, state, events, signals, snapshots, pages, marks>>
      /\ UNCHANGED lessonVars
  BY DEF ReadCurrent, Binding
<1>2. PICK pc \in {"touch", "replace", "rollback"} :
        /\ BindGoto(i, pc)
        /\ pc = "touch" => BoundDoc(binds[i].doc)
        /\ pc = "replace" => ~BoundDoc(binds[i].doc)
  BY DEF ReadCurrent
<1>3. LessonTypeOK' /\ session' = session /\ issued' = issued
  BY <1>1, PdfMeans, LessonMoves
<1>4. PICK record \in BindRecords :
              /\ binds' = [binds EXCEPT ![i] = record]
              /\ record.pc = pc /\ record.doc = binds[i].doc /\ record.alone = binds[i].alone
  BY <1>1, <1>2, GoesOn
<1>5. binds[i].alone => ~Bound \/ BoundDoc(binds[i].doc) \/ OnRecord
  BY <1>1 DEF PdfInv, Recording, Alone
<1>6. \A s \in snapshots : binds[i].alone /\ s.id = i =>
        Bound /\ s.binding = state.binding /\ ~BoundDoc(binds[i].doc)
  BY <1>1 DEF PdfInv, Taking, Alone
<1>7. OnRecord' <=> OnRecord
  BY <1>1 DEF OnRecord
<1>8. snapshots' = snapshots /\ snapshots' \subseteq Snapshots
  BY <1>1, PdfMeans DEF PdfTypeOK
<1> QED BY <1>1, <1>2, <1>3, <1>4, <1>5, <1>6, <1>7, <1>8, BindMoves DEF BeforeBatch

(* A bind that has found its document bound, or read the state, ends or    *)
(* turns to the roll-back.                                                 *)
LEMMA EndsOrRollsBack ==
    ASSUME PdfInv, NEW i \in Ids, Binding(i),
           EndBind(i) \/ (BindGoto(i, "rollback") /\ UNCHANGED lessonVars),
           UNCHANGED <<bindings, state, events, signals, snapshots, pages, marks>>,
           \A s \in snapshots : Alone(i) /\ s.id = i /\ bindings[i] = NoBinding =>
                Bound /\ s.binding = state.binding
    PROVE  PdfInv'
<1>1. snapshots' = snapshots /\ snapshots' \subseteq Snapshots
  BY PdfMeans DEF PdfTypeOK
<1>2. CASE EndBind(i)
  BY <1>1, <1>2, EndsBind, IdleIsNone, BindMoves DEF BeforeBatch
<1>3. CASE BindGoto(i, "rollback") /\ UNCHANGED lessonVars
  <2>1. LessonTypeOK' /\ session' = session /\ issued' = issued
    BY <1>3, PdfMeans, LessonMoves
  <2>2. PICK record \in BindRecords :
              /\ binds' = [binds EXCEPT ![i] = record]
              /\ record.pc = "rollback" /\ record.alone = binds[i].alone
    BY <1>3, GoesOn
  <2>3. \A s \in snapshots' : binds[i].alone /\ s.id = i /\ bindings[i] = NoBinding =>
                Bound /\ s.binding = state.binding
    BY <1>1 DEF Alone
  <2> QED BY <1>1, <2>1, <2>2, <2>3, BindMoves DEF BeforeBatch
<1> QED BY <1>2, <1>3

LEMMA Touches == ASSUME PdfInv, NEW i \in Ids, Touch(i) PROVE PdfInv'
BY EndsOrRollsBack DEF PdfInv, Taking, Touch, Binding

LEMMA Confirms == ASSUME PdfInv, NEW i \in Ids, Confirm(i) PROVE PdfInv'
BY EndsOrRollsBack DEF PdfInv, BindingStands, Confirm, Binding

LEMMA DisownedKeeps ==
    ASSUME PdfInv, NEW i \in Ids
    PROVE  /\ Disowned(i) \subseteq Snapshots
           /\ \A s \in Disowned(i) : (s.id = i => ~s.auto) /\ \E q \in snapshots : q.id = s.id
           /\ \A q \in snapshots : \E s \in Disowned(i) : s.id = q.id
<1>1. snapshots \subseteq Snapshots
  BY PdfMeans DEF PdfTypeOK
<1> DEFINE less(q) == [q EXCEPT !.auto = @ /\ q.id # i]
<1>2. Disowned(i) = {less(q) : q \in snapshots}
  BY DEF Disowned
<1>3. ASSUME NEW q \in snapshots
      PROVE  less(q) \in Snapshots /\ less(q).id = q.id /\ (q.id = i => ~less(q).auto)
  BY <1>1 DEF Snapshots
<1> HIDE DEF less
<1> QED BY <1>2, <1>3

LEMMA RollsBack == ASSUME PdfInv, NEW i \in Ids, Rollback(i) PROVE PdfInv'
<1>1. /\ binds[i].pc = "rollback" /\ Binding(i) /\ EndBind(i)
      /\ UNCHANGED <<bindings, state, events, signals, pages, marks>>
  BY DEF Rollback, Binding
<1>2. snapshots \subseteq Snapshots
  BY PdfMeans DEF PdfTypeOK
<1>3. snapshots' = snapshots \ RolledBack(i) \/ snapshots' = Disowned(i)
  BY DEF Rollback
<1>4. snapshots' \subseteq Snapshots /\ \A s \in snapshots' : \E q \in snapshots : q.id = s.id
  BY <1>2, <1>3, DisownedKeeps
<1> QED BY <1>1, <1>4, EndsBind, IdleIsNone, BindMoves DEF BeforeBatch

LEMMA LosesBind == ASSUME PdfInv, NEW i \in Ids, LoseBind(i) PROVE PdfInv'
<1>1. /\ Binding(i) /\ EndBind(i) /\ snapshots' = Disowned(i)
      /\ UNCHANGED <<bindings, state, events, signals, pages, marks>>
  BY DEF LoseBind
<1>2. snapshots' \subseteq Snapshots /\ \A s \in snapshots' : \E q \in snapshots : q.id = s.id
  BY <1>1, DisownedKeeps
<1> QED BY <1>1, <1>2, EndsBind, IdleIsNone, BindMoves DEF BeforeBatch

-----------------------------------------------------------------------------
(* A bind begins, and replaces the binding; the teacher takes a snapshot   *)

LEMMA StartsBind == ASSUME PdfInv, NEW i \in Ids, StartBind(i) PROVE PdfInv'
<1>1. PdfTypeOK /\ LessonTypeOK /\ issued \in 0..MaxRequests
  BY PdfMeans
<1>2. /\ LessonTypeOK' /\ session' = session
      /\ issued' = i /\ i = issued + 1 /\ i > issued
      /\ UNCHANGED <<bindings, state, events, signals, snapshots, pages, marks>>
  BY <1>1, LessonMoves DEF StartBind
<1>3. PICK doc \in Docs :
        binds' = [j \in Ids |->
            IF j = i THEN [pc |-> "previous", doc |-> doc, alone |-> \A k \in Ids : ~Binding(k)]
                     ELSE [binds[j] EXCEPT !.alone = FALSE]]
  BY DEF StartBind, NoneBinds
<1>4. \A j \in Ids : j # i =>
        /\ binds'[j] \in BindRecords \cup {Idle}
        /\ binds'[j].alone = FALSE /\ binds'[j].pc = binds[j].pc
  <2>1. ASSUME NEW j \in Ids, j # i
        PROVE  /\ binds'[j] \in BindRecords \cup {Idle}
               /\ binds'[j].alone = FALSE /\ binds'[j].pc = binds[j].pc
    <3>1. binds'[j] = [binds[j] EXCEPT !.alone = FALSE]
      BY <1>3, <2>1
    <3>2. CASE binds[j] = Idle
      <4>1. \A f \in [pc: {"none"}, alone: BOOLEAN] :
                f.alone = FALSE => [f EXCEPT !.alone = FALSE] = f
        BY Zenon
      <4>2. Idle \in [pc: {"none"}, alone: BOOLEAN] /\ Idle.alone = FALSE
        BY DEF Idle
      <4> QED BY <3>1, <3>2, <4>1, <4>2 DEF Idle
    <3>3. CASE binds[j] \in BindRecords
      BY <3>1, <3>3 DEF BindRecords
    <3> QED BY <1>1, <3>2, <3>3, BindFields
  <2> QED BY <2>1
<1>5. /\ binds'[i] \in BindRecords /\ binds'[i].pc = "previous"
      /\ binds'[i].alone => \A k \in Ids : ~Binding(k)
  BY <1>3 DEF BindRecords
<1>6. PdfTypeOK'
  <2>1. binds' \in [Ids -> BindRecords \cup {Idle}]
    BY <1>3, <1>4, <1>5
  <2> QED BY <1>1, <1>2, <2>1 DEF PdfTypeOK
<1>7. \A j \in Ids : (Binding(j)' <=> j = i \/ Binding(j)) /\ (Alone(j)' => j = i)
  BY <1>4, <1>5 DEF Binding, Alone
<1>8. NotYetBound'
  <2>1. ASSUME NEW j \in Ids, j > issued' \/ binds'[j].pc \in BeforeBatch
        PROVE  Unused(j)'
    <3>1. j > issued \/ binds[j].pc \in BeforeBatch
      BY <1>1, <1>2, <1>4, <2>1 DEF Ids
    <3> QED BY <1>2, <3>1 DEF PdfInv, NotYetBound, Unused
  <2>2. ASSUME NEW j \in Ids, j > issued'
        PROVE  ~Binding(j)'
    BY <1>1, <1>2, <1>7, <2>2 DEF PdfInv, NotYetBound, Ids
  <2>3. ASSUME NEW j \in Ids, j > issued' \/ binds'[j].pc \in {"previous", "snapshot"}
        PROVE  \A s \in snapshots : s.id # j
    <3>1. j > issued \/ binds[j].pc \in {"previous", "snapshot"}
      BY <1>1, <1>2, <1>4, <2>3 DEF Ids
    <3> QED BY <3>1 DEF PdfInv, NotYetBound
  <2> QED BY <1>2, <2>1, <2>2, <2>3 DEF NotYetBound
<1>9. BindingStands'
  BY <1>2, <1>4, <1>5 DEF PdfInv, BindingStands, Bound
<1>10. AloneIsAlone'
  BY <1>5, <1>7 DEF AloneIsAlone, Alone
<1>11. Recording' /\ Taking'
  BY <1>5, <1>7 DEF Recording, Taking
<1>12. PageOfLatestEvent'
  BY <1>2 DEF PdfInv, PageOfLatestEvent, Bound
<1> QED BY <1>6, <1>8, <1>9, <1>10, <1>11, <1>12 DEF PdfInv

LEMMA Replaces == ASSUME PdfInv, NEW i \in Ids, Replace(i) PROVE PdfInv'
<1>1. /\ PdfTypeOK /\ issued \in 0..MaxRequests
      /\ binds[i].pc = "replace" /\ Binding(i) /\ UNCHANGED <<signals, snapshots, pages, marks>>
  BY PdfMeans DEF Replace, Binding
<1>2. CASE BindGoto(i, "rollback") /\ UNCHANGED <<lessonVars, bindings, state, events>>
  <2>1. LessonTypeOK' /\ session' = session /\ issued' = issued
    BY <1>2, PdfMeans, LessonMoves
  <2>2. PICK record \in BindRecords :
              /\ binds' = [binds EXCEPT ![i] = record]
              /\ record.pc = "rollback" /\ record.alone = binds[i].alone
    BY <1>1, <1>2, GoesOn
  <2>3. snapshots' = snapshots /\ snapshots' \subseteq Snapshots
    BY <1>1 DEF PdfTypeOK
  <2>4. \A s \in snapshots' : binds[i].alone /\ s.id = i => Bound /\ s.binding = state.binding
    BY <1>1, <2>3 DEF PdfInv, Taking, Alone
  <2> QED BY <1>1, <1>2, <2>1, <2>2, <2>3, <2>4, BindMoves DEF BeforeBatch
<1>3. CASE /\ bindings' = [j \in Ids |->
                IF j = i THEN [doc |-> binds[i].doc, replaced |-> FALSE]
                ELSE IF j = state.binding THEN [bindings[j] EXCEPT !.replaced = TRUE]
                ELSE bindings[j]]
           /\ state' = FreshState(i)
           /\ events' = events \cup {[binding |-> i, version |-> 1, page |-> 1]}
           /\ \E pc \in {"confirm", "rollback"} : BindGoto(i, pc)
           /\ UNCHANGED lessonVars
  <2> DEFINE first == [binding |-> i, version |-> 1, page |-> 1]
  <2> HIDE DEF first
  <2>0. PICK pc \in {"confirm", "rollback"} : BindGoto(i, pc)
    BY <1>3
  <2>1. LessonTypeOK' /\ session' = session /\ issued' = issued
    BY <1>3, PdfMeans, LessonMoves
  <2>2. PICK record \in BindRecords :
              /\ binds' = [binds EXCEPT ![i] = record]
              /\ record.pc = pc /\ record.alone = binds[i].alone
    BY <1>1, <2>0, GoesOn
  <2>3. /\ binds'[i] = record /\ record.pc \in {"confirm", "rollback"}
        /\ \A j \in Ids : j # i => binds'[j] = binds[j]
    BY <1>1, <2>2 DEF PdfTypeOK
  <2>3a. Unused(i) /\ ~(i > issued)
    BY <1>1 DEF PdfInv, NotYetBound, BeforeBatch
  <2>4. first \in Events /\ first.binding = i /\ first.version = 1 /\ first.page = 1
    BY PdfAssumption DEF Events, PageVersions, Pages, first
  <2>5. FreshState(i) \in PageStates /\ state'.binding = i /\ state'.page = 1 /\ state'.version = 1
    BY <1>3, PdfAssumption, BoundsAssumption
    DEF FreshState, PageStates, PageVersions, Pages, Ids
  <2>6. bindings'[i] \in Bindings /\ ~bindings'[i].replaced /\ bindings'[i] # NoBinding
    <3>1. bindings'[i] = [doc |-> binds[i].doc, replaced |-> FALSE]
      BY <1>3
    <3>2. binds[i].doc \in Docs
      BY <1>1, BindFields
    <3>3. bindings'[i] \in Bindings /\ ~bindings'[i].replaced
      BY <3>1, <3>2 DEF Bindings
    <3> QED BY <3>3, NoBindingIsNone
  <2>7. \A j \in Ids : j # i =>
          /\ bindings[j] \in Bindings => bindings'[j] \in Bindings
          /\ bindings[j] = NoBinding => bindings'[j] = NoBinding
          /\ bindings[j] # NoBinding => bindings'[j] # NoBinding
    <3>1. ASSUME NEW j \in Ids, j # i, j = state.binding
          PROVE  bindings'[j] \in Bindings /\ bindings[j] # NoBinding
      <4>1. bindings[j] \in Bindings
        BY <1>1, <3>1, StateFields, BoundsAssumption DEF PdfInv, BindingStands, Bound, Ids
      <4>2. [bindings[j] EXCEPT !.replaced = TRUE] \in Bindings
        BY <4>1 DEF Bindings
      <4> QED BY <1>3, <3>1, <4>1, <4>2, NoBindingIsNone
    <3>2. ASSUME NEW j \in Ids, j # i, j # state.binding
          PROVE  bindings'[j] = bindings[j]
      BY <1>3, <3>2
    <3> QED BY <3>1, <3>2, NoBindingIsNone
  <2>8. PdfTypeOK'
    <3>1. bindings' \in [Ids -> Bindings \cup {NoBinding}]
      BY <1>1, <1>3, <2>6, <2>7 DEF PdfTypeOK
    <3>2. events' \subseteq Events /\ state' \in PageStates
      BY <1>1, <1>3, <2>4, <2>5 DEF PdfTypeOK, first
    <3>3. binds' \in [Ids -> BindRecords \cup {Idle}]
      BY <1>1, <2>2 DEF PdfTypeOK
    <3> QED BY <1>1, <2>1, <3>1, <3>2, <3>3 DEF PdfTypeOK
  <2>9. \A j \in Ids : Binding(j)' => Binding(j)
    BY <1>1, <2>3 DEF Binding
  <2>10. \A j \in Ids : Alone(j)' => j = i /\ Alone(i)
    BY <1>1, <2>2, <2>3 DEF PdfInv, AloneIsAlone, Alone, Binding
  <2>11. NotYetBound'
    <3>1. ASSUME NEW j \in Ids, j > issued' \/ binds'[j].pc \in BeforeBatch
          PROVE  Unused(j)'
      <4>1. j # i
        BY <2>1, <2>3, <2>3a, <3>1 DEF BeforeBatch
      <4>2. Unused(j)
        BY <2>1, <2>3, <3>1, <4>1 DEF PdfInv, NotYetBound
      <4>3. bindings'[j] = NoBinding /\ state'.binding # j
        BY <2>5, <2>7, <4>1, <4>2 DEF Unused
      <4>4. \A e \in events' : e.binding # j
        BY <1>3, <2>4, <4>1, <4>2 DEF Unused, first
      <4> QED BY <4>3, <4>4 DEF Unused
    <3>2. \A j \in Ids : binds'[j].pc \in {"previous", "snapshot"} => binds[j].pc = binds'[j].pc
      BY <2>3
    <3> QED BY <1>1, <2>1, <2>9, <3>1, <3>2 DEF PdfInv, NotYetBound
  <2>12. BindingStands'
    <3>1. \A j \in Ids : binds'[j].pc = "confirm" => bindings'[j] # NoBinding
      BY <2>3, <2>6, <2>7 DEF PdfInv, BindingStands
    <3>2. Bound'
      BY <2>5, BoundsAssumption DEF Bound, Ids
    <3> QED BY <1>1, <2>3, <2>5, <2>6, <3>1, <3>2 DEF PdfInv, BindingStands
  <2>13. AloneIsAlone'
    BY <2>9, <2>10 DEF PdfInv, AloneIsAlone
  <2>13a. Recording' /\ Taking'
    <3>1. Recording'
      BY <2>3, <2>10 DEF Recording
    <3>2. ASSUME NEW s \in snapshots, Alone(i), s.id = i
          PROVE  bindings'[s.binding].replaced
      <4>1. Bound /\ s.binding = state.binding
        BY <1>1, <3>2 DEF PdfInv, Taking
      <4>2. state.binding # i /\ state.binding \in Ids /\ bindings[state.binding] \in Bindings
        BY <1>1, <2>3a, <4>1, StateFields DEF PdfInv, BindingStands, Unused
      <4>3. bindings'[state.binding] = [bindings[state.binding] EXCEPT !.replaced = TRUE]
        BY <1>3, <4>2
      <4> QED BY <4>1, <4>2, <4>3 DEF Bindings
    <3>3. Taking'
      BY <1>1, <2>3, <2>6, <2>10, <3>2 DEF Taking
    <3> QED BY <3>1, <3>3
  <2>14. PageOfLatestEvent'
    <3>1. first \in events' /\ \A f \in events' : f.binding = i => f = first
      BY <1>3, <2>3a DEF Unused, first
    <3> QED BY <2>4, <2>5, <3>1 DEF PageOfLatestEvent
  <2> QED BY <2>8, <2>11, <2>12, <2>13, <2>14, <2>13a DEF PdfInv
<1> QED BY <1>2, <1>3 DEF Replace

LEMMA TeacherTakes == ASSUME PdfInv, NEW i \in Ids, TeacherSnapshot(i) PROVE PdfInv'
<1> DEFINE new == [id |-> i, binding |-> state.binding, auto |-> FALSE]
<1>1. /\ PdfTypeOK /\ LessonTypeOK /\ issued \in 0..MaxRequests /\ Bound
      /\ i = issued + 1 /\ i > issued /\ issued' = i
      /\ snapshots' = snapshots \cup {new}
      /\ UNCHANGED <<session, pre, now, flying>>
      /\ UNCHANGED <<bindings, state, events, signals, binds, pages, marks>>
  BY PdfMeans DEF TeacherSnapshot
<1>2. new \in Snapshots /\ new.id = i
  BY <1>1, StateFields DEF Snapshots
<1>3. PdfTypeOK'
  <2>1. LessonTypeOK'
    BY <1>1, BoundsAssumption DEF LessonTypeOK, Ids
  <2> QED BY <1>1, <1>2, <2>1 DEF PdfTypeOK
<1>4. ~Binding(i)
  BY <1>1 DEF PdfInv, NotYetBound
<1>5. \A s \in snapshots' : s \in snapshots \/ s.id = i
  BY <1>1, <1>2
<1> HIDE DEF new
<1>6. NotYetBound'
  <2>1. \A j \in Ids : j > issued' => j > issued /\ j # i
    BY <1>1 DEF Ids
  <2>2. binds[i].pc = "none"
    BY <1>4 DEF Binding
  <2>3. \A j \in Ids : Unused(j)' <=> Unused(j)
    BY <1>1 DEF Unused
  <2> QED BY <1>1, <1>5, <2>1, <2>2, <2>3 DEF PdfInv, NotYetBound, Binding
<1>7. BindingStands'
  BY <1>1 DEF PdfInv, BindingStands, Bound
<1>8. AloneIsAlone'
  BY <1>1 DEF PdfInv, AloneIsAlone, Alone, Binding
<1>9. Recording'
  BY <1>1 DEF PdfInv, Recording, Alone, Binding, BoundDoc, Bound, OnRecord
<1>10. Taking'
  BY <1>1, <1>4, <1>5 DEF PdfInv, Taking, Alone, Binding, BoundDoc, Bound
<1>11. PageOfLatestEvent'
  BY <1>1 DEF PdfInv, PageOfLatestEvent, Bound
<1> QED BY <1>3, <1>6, <1>7, <1>8, <1>9, <1>10, <1>11 DEF PdfInv

-----------------------------------------------------------------------------
(* The steps together *)

LEMMA SessionMoves ==
    ASSUME LessonTypeOK, ChangeSession \/ GrowOld \/ Tick
    PROVE  /\ LessonTypeOK' /\ issued' = issued /\ flying' = flying
           /\ session = "old" => session' = "old"
<1>1. CASE ChangeSession
  BY <1>1 DEF LessonTypeOK, ChangeSession, Sessions, Active
<1>2. CASE GrowOld
  BY <1>2, BoundsAssumption DEF LessonTypeOK, GrowOld
<1>3. CASE Tick
  BY <1>3, BoundsAssumption DEF LessonTypeOK, Tick
<1> QED BY <1>1, <1>2, <1>3

(* What the steps of the comments do to the requests.                      *)
LEMMA CommentsMove ==
    ASSUME LessonTypeOK, NEW i \in Ids, PostStep(i) \/ ModerationStep(i)
    PROVE  Begin(i) \/ Finish(i) \/ UNCHANGED lessonVars
BY DEF PostStep, StartPost, CheckKey, FreeKey, AnswerPost, EndPost, Persist, AnswerStored,
       LosePost, ModerationStep, StartModeration, LoadComment, EndModeration, Moderate,
       AnswerModerated

LEMMA PdfSteps ==
    ASSUME PdfInv, NEW i \in Ids, PdfStep(i)
    PROVE  PdfInv'
BY StartsBind, ReadsPrevious, TakesSnapshot, ReadsCurrent, Touches, Replaces, Confirms,
   RollsBack, LosesBind, TeacherTakes, StartsPage, ReadsPage, StaysOnPage, TurnsPage, StartsMark, ReadsMark
   DEF PdfStep

LEMMA PdfStays == ASSUME PdfInv, [Next]_vars PROVE PdfInv'
<1>1. LessonTypeOK /\ issued \in Nat
  BY PdfMeans
<1>2. CASE SessionStep
  BY <1>1, <1>2, SessionMoves, Beside DEF SessionStep
<1>3. CASE RetentionStep
  BY <1>3, RetainsParticipants, RetainsPages DEF RetentionStep
<1>4. ASSUME NEW c \in Ids, Expire(c) /\ UNCHANGED pdfVars
      PROVE  PdfInv'
  <2>1. LessonTypeOK' /\ issued' = issued /\ session' = session
    BY <1>1, <1>4, BoundsAssumption DEF Expire, LessonTypeOK
  <2> QED BY <1>1, <1>4, <2>1, Beside
<1>5. ASSUME NEW i \in Ids, PostStep(i) \/ ModerationStep(i)
      PROVE  PdfInv'
  BY <1>1, <1>5, CommentsMove, LessonMoves, Beside DEF PostStep, ModerationStep
<1>6. ASSUME NEW i \in Ids, PdfStep(i)
      PROVE  PdfInv'
  BY <1>6, PdfSteps
<1>7. ASSUME NEW i \in Ids, MarkWithParticipant(i)
      PROVE  PdfInv'
  BY <1>7, StoresMark DEF MarkWithParticipant
<1>8. CASE UNCHANGED vars
  BY <1>1, <1>8, LessonMoves, Beside DEF vars
<1> QED BY <1>2, <1>3, <1>4, <1>5, <1>6, <1>7, <1>8 DEF Next

LEMMA PdfBegins == Init => PdfInv
<1> SUFFICES ASSUME Init PROVE PdfInv
  OBVIOUS
<1>1. LessonTypeOK
  BY BoundsAssumption DEF Init, LessonInit, LessonTypeOK, Sessions
<1>2. NoState \in PageStates /\ NoState.binding = 0
  BY PdfAssumption, BoundsAssumption DEF NoState, PageStates, Pages, PageVersions
<1>3. PdfTypeOK
  BY <1>1, <1>2 DEF Init, PdfInit, PdfTypeOK
<1>4. ~Bound /\ \A i \in Ids : binds[i].pc = "none" /\ marks[i].pc = "none"
  BY <1>2, IdleIsNone DEF Init, PdfInit, Bound
<1>5. NotYetBound /\ BindingStands
  BY <1>2, <1>4, BoundsAssumption
  DEF Init, PdfInit, NotYetBound, Unused, Binding, BindingStands, Ids
<1>6. AloneIsAlone /\ Recording /\ Taking /\ PageOfLatestEvent
  BY <1>4 DEF AloneIsAlone, Recording, Taking, PageOfLatestEvent, Alone, Binding
<1> QED BY <1>3, <1>5, <1>6 DEF PdfInv

LEMMA PdfInvariance == Spec => []PdfInv
BY PdfBegins, PdfStays, PTL DEF Spec

-----------------------------------------------------------------------------
(* The current page is that of the latest page event, for any number of    *)
(* viewers whose updates cross (updatePdfPageState), until the retention   *)
(* removes page events by their age.                                       *)
THEOREM PageFollowsEvents == Spec => []PageOfLatestEvent
<1>1. PdfInv => PageOfLatestEvent
  BY DEF PdfInv
<1> QED BY <1>1, PdfInvariance, PTL

(* A step that replaces a binding is a bind's batch.                       *)
LEMMA ReplacingSteps ==
    ASSUME PdfInv, [Next]_vars, NEW b \in Ids,
           ~bindings[b].replaced, bindings'[b].replaced
    PROVE  Bound /\ b = state.binding
<1>1. ~\E b2 \in Ids : bindings'[b2] = NoBinding /\ b2 = b
  BY DEF NoBinding
<1>2. ~RetentionStep
  BY <1>1 DEF RetentionStep, RunRetention, PdfRetention
<1>3. PICK i \in Ids : Replace(i)
  BY <1>2 DEF Next, vars, SessionStep, pdfVars, PostStep,
         ModerationStep, PdfStep, MarkWithParticipant, StoreMark, StartBind, ReadPrevious,
         TakeSnapshot, ReadCurrent, Touch, Confirm, Rollback, LoseBind, TeacherSnapshot,
         StartPage, ReadPage, StayOnPage, TurnPage, StartMark, ReadMark
<1>4. bindings' = [j \in Ids |->
                IF j = i THEN [doc |-> binds[i].doc, replaced |-> FALSE]
                ELSE IF j = state.binding THEN [bindings[j] EXCEPT !.replaced = TRUE]
                ELSE bindings[j]]
  BY <1>3 DEF Replace
<1>5. b # i /\ b = state.binding
  BY <1>4
<1>6. Bound
  BY <1>5, BoundsAssumption DEF Bound, Ids
<1> QED BY <1>5, <1>6

(* A snapshot goes only with the retention, or by the roll-back of the     *)
(* bind that has made it.                                                  *)
LEMMA RemovingSteps ==
    ASSUME PdfInv, [Next]_vars, session # "old", NEW s \in snapshots,
           \A q \in snapshots' : q.id # s.id
    PROVE  Rollback(s.id)
<1>1. s \notin snapshots'
  OBVIOUS
<1>2. ASSUME NEW i \in Ids, snapshots' = Disowned(i)
      PROVE  FALSE
  BY <1>2, DisownedKeeps
<1>3. ~RetentionStep
  BY <1>1 DEF RetentionStep, RunRetention, PdfRetention
<1>4. ASSUME NEW i \in Ids, TakeSnapshot(i) \/ TeacherSnapshot(i) \/ LoseBind(i)
      PROVE  FALSE
  BY <1>1, <1>2, <1>4 DEF TakeSnapshot, TeacherSnapshot, LoseBind
<1>5. PICK i \in Ids : Rollback(i)
  BY <1>1, <1>3, <1>4 DEF Next, vars, SessionStep, pdfVars, PostStep,
         ModerationStep, PdfStep, MarkWithParticipant, StoreMark, StartBind, ReadPrevious,
         ReadCurrent, Touch, Replace, Confirm,
         StartPage, ReadPage, StayOnPage, TurnPage, StartMark, ReadMark
<1>6. snapshots' = snapshots \ RolledBack(i)
  BY <1>2, <1>5 DEF Rollback
<1>7. s.id = i
  BY <1>1, <1>6 DEF RolledBack
<1> QED BY <1>5, <1>7

(* A bind that no other one overlaps replaces no PDF whose analytics are   *)
(* not on record (bindPrivatePdf), and only one that has replaced the PDF  *)
(* takes the record of a replaced PDF away when it fails (the catch in     *)
(* routes/pdf-analysis.js).                                                *)
THEOREM ReplacementsAreRecorded == Spec => ReplacedIsOnRecord
<1>1. ASSUME PdfInv, [Next]_vars, NEW i \in Ids, NEW b \in Ids,
             ~bindings[b].replaced, bindings'[b].replaced,
             binds[i].pc = "replace", binds'[i].pc # "replace", binds[i].alone
      PROVE  \E snapshot \in snapshots : snapshot.binding = b
  <2>1. Bound /\ b = state.binding
    BY <1>1, ReplacingSteps
  <2>2. ~Bound \/ OnRecord
    BY <1>1 DEF PdfInv, Recording, Alone, Binding
  <2> QED BY <2>1, <2>2 DEF OnRecord
<1>2. ASSUME PdfInv, [Next]_vars, NEW s \in snapshots,
             session # "old", bindings[s.binding].replaced, \A q \in snapshots' : q.id # s.id
      PROVE  Binding(s.id) /\ (binds[s.id].alone => bindings[s.id] # NoBinding)
  <2>1. Rollback(s.id) /\ s.id \in Ids
    BY <1>2, PdfMeans, RemovingSteps, SnapshotFields
  <2>2. Binding(s.id) /\ binds[s.id].pc = "rollback"
    BY <2>1 DEF Rollback, Binding
  <2>3. ASSUME binds[s.id].alone, bindings[s.id] = NoBinding
        PROVE  FALSE
    <3>1. Bound /\ s.binding = state.binding
      BY <1>2, <2>1, <2>2, <2>3 DEF PdfInv, Taking, Alone
    <3> QED BY <1>2, <3>1 DEF PdfInv, BindingStands
  <2> QED BY <2>2, <2>3
<1>3. PdfInv /\ [Next]_vars =>
        [/\ \A i, b \in Ids :
                ~bindings[b].replaced /\ bindings'[b].replaced /\ binds[i].pc = "replace"
                        /\ binds'[i].pc # "replace" /\ binds[i].alone
                    => \E snapshot \in snapshots : snapshot.binding = b
         /\ \A snapshot \in snapshots :
                session # "old" /\ bindings[snapshot.binding].replaced
                        /\ (\A q \in snapshots' : q.id # snapshot.id)
                    => LET i == snapshot.id
                       IN  Binding(i) /\ (binds[i].alone => bindings[i] # NoBinding)]_vars
  BY <1>1, <1>2
<1> QED BY <1>3, PdfInvariance, PTL DEF Spec, ReplacedIsOnRecord

(* The steps that end a bind.                                              *)
LEMMA EndingSteps ==
    ASSUME PdfInv, [Next]_vars, NEW i \in Ids, Binding(i), binds'[i].pc = "none"
    PROVE  TakeSnapshot(i) \/ Touch(i) \/ Confirm(i) \/ Rollback(i) \/ LoseBind(i)
<1>1. PdfTypeOK
  BY PdfMeans
<1>2. binds' # binds
  BY DEF Binding
<1>3. PICK j \in Ids : StartBind(j) \/ ReadPrevious(j) \/ TakeSnapshot(j) \/ ReadCurrent(j)
                        \/ Touch(j) \/ Replace(j) \/ Confirm(j) \/ Rollback(j) \/ LoseBind(j)
  BY <1>2 DEF Next, vars, SessionStep, pdfVars, RetentionStep, RunRetention, PdfRetention,
         PostStep, ModerationStep, PdfStep, MarkWithParticipant, StoreMark, TeacherSnapshot,
         StartPage, ReadPage, StayOnPage, TurnPage, StartMark, ReadMark
<1>4. ~StartBind(j)
  <2>1. SUFFICES ASSUME StartBind(j) PROVE FALSE
    OBVIOUS
  <2>2. j > issued
    BY <1>1, <2>1, PdfMeans, LessonMoves DEF StartBind
  <2>3. j # i
    BY <2>2 DEF PdfInv, NotYetBound
  <2>4. binds'[i] = [binds[i] EXCEPT !.alone = FALSE]
    BY <2>1, <2>3 DEF StartBind
  <2>5. binds'[i].pc = binds[i].pc
    BY <1>1, <2>4, BindFields DEF BindRecords
  <2> QED BY <2>5 DEF Binding
<1>5. j = i
  BY <1>1, <1>3, <1>4
  DEF PdfTypeOK, Binding, ReadPrevious, TakeSnapshot, ReadCurrent, Touch, Replace, Confirm,
      Rollback, LoseBind, BindGoto, EndBind
<1>6. ~ReadPrevious(i) /\ ~ReadCurrent(i) /\ ~Replace(i)
  BY GoingOn DEF ReadPrevious, ReadCurrent, Replace
<1> QED BY <1>3, <1>4, <1>5, <1>6

(* A bind that no other one overlaps leaves an automatic snapshot only of  *)
(* a PDF that was replaced (rollbackAnalyticsSnapshot).                    *)
THEOREM FailedBindsLeaveNothing == Spec => NoStraySnapshot
<1>1. ASSUME PdfInv, [Next]_vars, NEW i \in Ids,
             binds[i].pc # "none", binds'[i].pc = "none", binds[i].alone,
             NEW s \in snapshots', s.id = i, s.auto
      PROVE  bindings'[s.binding].replaced
  <2>1. Alone(i) /\ PdfTypeOK /\ i \in Ids
    BY <1>1, PdfMeans DEF Alone, Binding
  <2>2. CASE TakeSnapshot(i)
    <3>1. \A q \in snapshots : q.id # i
      BY <1>1, <2>2 DEF PdfInv, NotYetBound, TakeSnapshot
    <3>2. ~BindGoto(i, "current")
      BY <1>1, <2>1, GoingOn DEF Alone
    <3>3. snapshots' \in {snapshots,
                snapshots \cup {[id |-> i, binding |-> state.binding, auto |-> FALSE]}}
      BY <2>2, <3>2 DEF TakeSnapshot
    <3> QED BY <1>1, <3>1, <3>3
  <2>3. CASE Touch(i)
    BY <1>1, <2>1, <2>3 DEF PdfInv, Taking, Touch
  <2>4. CASE Confirm(i)
    BY <1>1, <2>1, <2>4 DEF PdfInv, Taking, Confirm
  <2>5. CASE Rollback(i)
    BY <1>1, <2>5, DisownedKeeps DEF Rollback, RolledBack
  <2>6. CASE LoseBind(i)
    BY <1>1, <2>6, DisownedKeeps DEF LoseBind
  <2> QED BY <1>1, <2>2, <2>3, <2>4, <2>5, <2>6, EndingSteps DEF Binding
<1>2. PdfInv /\ [Next]_vars =>
        [\A i \in Ids :
            binds[i].pc # "none" /\ binds'[i].pc = "none" /\ binds[i].alone
                => \A snapshot \in snapshots' :
                    snapshot.id = i /\ snapshot.auto => bindings'[snapshot.binding].replaced]_vars
  BY <1>1
<1> QED BY <1>2, PdfInvariance, PTL DEF Spec, NoStraySnapshot
=============================================================================
