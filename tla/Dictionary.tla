---------------------------- MODULE Dictionary ----------------------------
(***************************************************************************)
(* The filter dictionary of an organization: its terms, and the requests   *)
(* that create, edit and delete one or install a built-in pack             *)
(* (content-filter/repository.js, routes/content-filter.js).  Every        *)
(* database call a handler awaits is a step of its own; one batch is one   *)
(* step.                                                                   *)
(*                                                                         *)
(* Abstracted: a term's spelling, category, language and boundary mode,    *)
(* which identify it, are its word; severity and matching are its grade.   *)
(* active, which an edit or the deletion of a term writes and an           *)
(* installation only with a new row, is left out: either takes the term    *)
(* out of its pack or out of use, whatever else it changes. One pack,      *)
(* whose terms have words of their own (scripts/audit-filter-              *)
(* packs.mjs:41). Its versions differ in grades, and no version words a    *)
(* key anew, so that a term that still carries its key has the key's word. *)
(* Audit rows, which each batch writes too, are left out.                  *)
(***************************************************************************)
EXTENDS Naturals, FiniteSets

CONSTANTS
    Words,          \* what identifies a term
    Keys,           \* the pack's keys: source_pack_term_key
    NoKey,          \* the key of a term of no pack
    Wording,        \* the word of each key
    Grades,         \* what an edit may change besides the word
    PackGrade,      \* the grade of the pack's terms in its current version
    TermLimit,      \* TERM_LIMIT
    MaxRequests     \* bound on the requests ever made

ASSUME DictionaryAssumption ==
    /\ Wording \in [Keys -> Words]
    /\ \A k, l \in Keys : Wording[k] = Wording[l] => k = l
    /\ IsFiniteSet(Keys) /\ NoKey \notin Keys
    /\ PackGrade \in Grades
    /\ TermLimit \in Nat /\ MaxRequests \in Nat

VARIABLES
    terms,      \* content_filter_terms, deleted rows included
    installed,  \* pack_version in content_filter_pack_installs, 0 if none
    calls,      \* per request, where its handler stands
    issued      \* the number of requests made so far

vars == <<terms, installed, calls, issued>>

-----------------------------------------------------------------------------
(* Rows *)

Ids == 1..MaxRequests

(* A row is named by the request that inserted it (0 for those found at    *)
(* the beginning) and, of an installation, the key.  key is NoKey when     *)
(* source_pack is NULL; version is source_pack_version, 0 for NULL.        *)
TermIds == (0..MaxRequests) \X (Keys \cup {NoKey})
Terms ==
    [id: TermIds, word: Words, grade: Grades, key: Keys \cup {NoKey},
     version: 0..2, deleted: BOOLEAN]

Live == {t \in terms : ~t.deleted}

(* Mistake: the index leaves the rows of packs out. *)
OwnWords == {t.word : t \in {u \in Live : u.key = NoKey}}

(* What the unique index on live rows compares.                            *)
LiveWords == {t.word : t \in Live}

(* The version of the code's pack; 1 is an earlier deployment's.           *)
Current == 2

NoCall == [pc |-> "none"]
Seen == {"absent", "live", "deleted"}
CallRecords ==
    [pc: {"count", "create"}, word: Words, grade: Grades]
        \cup [pc: {"existing"}]
        \cup [pc: {"room", "install"}, seen: [Keys -> Seen]]
        \cup [pc: {"edit", "delete"}, read: Terms, word: Words, grade: Grades]

(* An organization that may have the pack's first version, some of its     *)
(* terms deleted since.                                                    *)
Legacy(key, grade, deleted) ==
    [id |-> <<0, key>>, word |-> Wording[key], grade |-> grade, key |-> key,
     version |-> 1, deleted |-> deleted]

Init ==
    /\ installed \in {0, 1}
    /\ IF installed = 0 THEN terms = {}
       ELSE \E gone \in SUBSET Keys, grade \in Grades :
                terms = {Legacy(key, grade, key \in gone) : key \in Keys}
    /\ Cardinality(Live) <= TermLimit
    /\ calls = [i \in Ids |-> NoCall]
    /\ issued = 0

-----------------------------------------------------------------------------
(* Requests *)

Begin(i, call) ==
    /\ issued < MaxRequests
    /\ i = issued + 1
    /\ issued' = i
    /\ calls' = [calls EXCEPT ![i] = call]
    /\ UNCHANGED <<terms, installed>>

Goto(i, call) ==
    /\ calls' = [calls EXCEPT ![i] = call]
    /\ UNCHANGED <<terms, installed, issued>>

End(i) == calls' = [calls EXCEPT ![i] = NoCall] /\ UNCHANGED issued

(* An error answer, or the end of a worker between two calls.              *)
GiveUp(i) ==
    /\ calls[i].pc # "none"
    /\ End(i)
    /\ UNCHANGED <<terms, installed>>

-----------------------------------------------------------------------------
(* A term *)

StartCreate(i) ==
    \E word \in Words, grade \in Grades :
        Begin(i, [pc |-> "count", word |-> word, grade |-> grade])

(* createFilterTerm counts first; 409 FILTER_TERM_LIMIT_REACHED.           *)
CountTerms(i) ==
    /\ calls[i].pc = "count"
    /\ Cardinality(Live) < TermLimit
    /\ Goto(i, [calls[i] EXCEPT !.pc = "create"])

(* Mistake: the database does not count. *)
HasRoomAlways(n) == TRUE

(* trg_content_filter_terms_limit_insert admits n further rows.            *)
HasRoom(n) == n = 0 \/ Cardinality(Live) + n <= TermLimit

(* The INSERT, under the trigger and the unique index on words; otherwise  *)
(* GiveUp.                                                                 *)
CreateTerm(i) ==
    LET call == calls[i]
    IN  /\ call.pc = "create"
        /\ call.word \notin LiveWords
        /\ HasRoom(1)
        /\ terms' = terms \cup
              {[id |-> <<i, NoKey>>, word |-> call.word, grade |-> call.grade, key |-> NoKey,
                version |-> 0, deleted |-> FALSE]}
        /\ End(i)
        /\ UNCHANGED installed

(* PATCH and DELETE read the term.  What a PATCH does not name is written  *)
(* back as it was read.                                                    *)
StartEdit(i) ==
    \E t \in Live, word \in Words, grade \in Grades :
        /\ word = t.word \/ grade = t.grade
        /\ Begin(i, [pc |-> "edit", read |-> t, word |-> word, grade |-> grade])

StartDelete(i) ==
    \E t \in Live :
        Begin(i, [pc |-> "delete", read |-> t, word |-> t.word, grade |-> t.grade])

(* The row the handler has read, as it is now.                             *)
Target(call) == {t \in Live : t.id = call.read.id}

(* Mistake: the version stays where the key is cleared. *)
OwnKeepsVersion(t) == [t EXCEPT !.key = NoKey]

(* An edited term is the organization's own from now on.                   *)
Own(t) == [t EXCEPT !.key = NoKey, !.version = 0]

(* updateFilterTerm, which the index on words may refuse.                  *)
EditTerm(i) ==
    LET call == calls[i]
    IN  /\ call.pc = "edit"
        /\ \E t \in Target(call) :
            /\ call.word \notin {u.word : u \in Live \ {t}}
            /\ terms' = (terms \ {t}) \cup
                  {[Own(t) EXCEPT !.word = call.word, !.grade = call.grade]}
        /\ End(i)
        /\ UNCHANGED installed

(* deleteFilterTerm keeps the row, and with it the key.                    *)
DeleteTerm(i) ==
    /\ calls[i].pc = "delete"
    /\ \E t \in Target(calls[i]) :
        terms' = (terms \ {t}) \cup {[t EXCEPT !.deleted = TRUE]}
    /\ End(i)
    /\ UNCHANGED installed

-----------------------------------------------------------------------------
(* The pack *)

StartInstall(i) == Begin(i, [pc |-> "existing"])

(* The pack's rows, deleted ones included, as a Map by key: of several     *)
(* rows with one key the last one read counts.                             *)
ReadExisting(i) ==
    /\ calls[i].pc = "existing"
    /\ \E seen \in [Keys -> Seen] :
        /\ \A key \in Keys :
            LET rows == {t \in terms : t.key = key}
            IN  IF rows = {} THEN seen[key] = "absent"
                ELSE \E t \in rows : seen[key] = IF t.deleted THEN "deleted" ELSE "live"
        /\ Goto(i, [pc |-> "room", seen |-> seen])

(* The count of terms, and of the keys that are new.                       *)
CountRoom(i) ==
    LET call == calls[i]
    IN  /\ call.pc = "room"
        /\ Cardinality(Live) + Cardinality({key \in Keys : call.seen[key] = "absent"}) <= TermLimit
        /\ Goto(i, [call EXCEPT !.pc = "install"])

(* Mistake: only the keys that are new are written. *)
WrittenNew(call) == {key \in Keys : call.seen[key] = "absent"}

(* A deleted term is not written again.                                    *)
Written(call) == {key \in Keys : call.seen[key] # "deleted"}

(* Mistake: the conflict clause does not ask whose row it is. *)
UpgradesByWord(call, t) == ~t.deleted /\ \E key \in Written(call) : t.word = Wording[key]

(* ON CONFLICT DO UPDATE ... WHERE: the pack's own rows.                   *)
Upgrades(call, t) == ~t.deleted /\ t.key \in Written(call)

(* The batch: a key that conflicts with no live row is inserted, a row of  *)
(* the pack upgraded, and any other row with the word left alone.          *)
InstallPack(i) ==
    LET call == calls[i]
        added == {key \in Written(call) : Wording[key] \notin LiveWords}
        upgraded(t) == IF Upgrades(call, t)
                       THEN [t EXCEPT !.grade = PackGrade, !.version = Current] ELSE t
    IN  /\ call.pc = "install"
        /\ HasRoom(Cardinality(added))
        /\ terms' = {upgraded(t) : t \in terms} \cup
              {[id |-> <<i, key>>, word |-> Wording[key], grade |-> PackGrade, key |-> key,
                version |-> Current, deleted |-> FALSE] : key \in added}
        /\ installed' = Current
        /\ End(i)

-----------------------------------------------------------------------------
Next ==
    \E i \in Ids :
        \/ StartCreate(i) \/ CountTerms(i) \/ CreateTerm(i)
        \/ StartEdit(i) \/ EditTerm(i)
        \/ StartDelete(i) \/ DeleteTerm(i)
        \/ StartInstall(i) \/ ReadExisting(i) \/ CountRoom(i) \/ InstallPack(i)
        \/ GiveUp(i)

Spec == Init /\ [][Next]_vars
=============================================================================
