------------------------- MODULE DictionaryProofs -------------------------
(***************************************************************************)
(* What the dictionary promises, for every pack, limit and number of       *)
(* requests.                                                               *)
(***************************************************************************)
EXTENDS DictionaryProps, FiniteSetTheorems, TLAPS

(* A term that still carries its key has the key's word, so the index on   *)
(* words keeps the keys apart as well.                                     *)
Keyed == \A t \in terms : t.key # NoKey => t.word = Wording[t.key]

(* A row of the pack's earlier version is the only one with its key.       *)
Outdated(t) == ~t.deleted /\ t.key # NoKey /\ t.version # Current
Alone == \A t, u \in terms : Outdated(t) /\ u.key = t.key => u = t

(* An installation that is under way has seen every such row as live, so   *)
(* it will write its key.                                                  *)
SeenLive ==
    \A i \in Ids : calls[i].pc \in {"room", "install"} =>
        \A t \in terms : Outdated(t) => calls[i].seen[t.key] = "live"

Inv ==
    /\ TypeOK /\ IsFiniteSet(terms)
    /\ Keyed /\ OneTermPerWord /\ TermsWithinLimit
    /\ Alone /\ SeenLive /\ UpgradeIsWhole

(* What InstallPack does to terms.                                         *)
Added(call) == {key \in Written(call) : Wording[key] \notin LiveWords}
Upgraded(call, t) ==
    IF Upgrades(call, t) THEN [t EXCEPT !.grade = PackGrade, !.version = Current] ELSE t
NewTerm(i, key) ==
    [id |-> <<i, key>>, word |-> Wording[key], grade |-> PackGrade, key |-> key,
     version |-> Current, deleted |-> FALSE]

-----------------------------------------------------------------------------
(* One element more counts for one at most.                                *)
LEMMA OneMore ==
    ASSUME NEW S, IsFiniteSet(S), NEW x
    PROVE  /\ IsFiniteSet(S \cup {x})
           /\ Cardinality(S) \in Nat /\ Cardinality(S \cup {x}) \in Nat
           /\ Cardinality(S \cup {x}) <= Cardinality(S) + 1
<1>1. /\ IsFiniteSet(S \cup {x})
      /\ Cardinality(S \cup {x}) = IF x \in S THEN Cardinality(S) ELSE Cardinality(S) + 1
  BY FS_AddElement
<1>2. Cardinality(S) \in Nat /\ Cardinality(S \cup {x}) \in Nat
  BY <1>1, FS_CardinalityType
<1>3. QED
  BY <1>1, <1>2

(* The image of a finite set is no larger.                                 *)
LEMMA NoLarger ==
    ASSUME NEW S, IsFiniteSet(S), NEW T, NEW f, f = [x \in S |-> f[x]], T = {f[x] : x \in S}
    PROVE  IsFiniteSet(T) /\ Cardinality(T) <= Cardinality(S)
<1>1. f \in Surjection(S, T)
  BY DEF Surjection
<1>2. QED
  BY <1>1, FS_Surjection

-----------------------------------------------------------------------------
(* Calls *)

(* What a handler carries, told by where it stands.                        *)
LEMMA CallFields ==
    ASSUME NEW call \in CallRecords \cup {NoCall}
    PROVE  /\ call.pc \in {"count", "create"} =>
                call \in [pc: {"count", "create"}, word: Words, grade: Grades]
           /\ call.pc \in {"room", "install"} =>
                call \in [pc: {"room", "install"}, seen: [Keys -> Seen]]
           /\ call.pc \in {"edit", "delete"} =>
                call \in [pc: {"edit", "delete"}, read: Terms, word: Words, grade: Grades]
BY DEF CallRecords, NoCall

(* A step that changes no term and leaves each handler where it was or at  *)
(* a place that has seen nothing keeps the invariant.                      *)
LEMMA OnlyCalls ==
    ASSUME Inv, TypeOK', UNCHANGED <<terms, installed>>,
           \A i \in Ids : calls'[i].pc \in {"room", "install"} =>
               \A t \in terms : Outdated(t) => calls'[i].seen[t.key] = "live"
    PROVE  Inv'
BY DEF Inv, Keyed, OneTermPerWord, TermsWithinLimit, Alone, SeenLive, UpgradeIsWhole,
       Outdated, Live

LEMMA Ending ==
    ASSUME Inv, NEW i \in Ids, End(i), UNCHANGED <<terms, installed>>
    PROVE  Inv'
<1>1. TypeOK'
  BY DEF Inv, TypeOK, End, NoCall
<1>2. ASSUME NEW j \in Ids, calls'[j].pc \in {"room", "install"} PROVE calls'[j] = calls[j]
  BY <1>2 DEF Inv, TypeOK, End, NoCall
<1>3. QED
  BY <1>1, <1>2, OnlyCalls DEF Inv, SeenLive

LEMMA Beginning ==
    ASSUME Inv, NEW i \in Ids, NEW call \in CallRecords, call.pc \notin {"room", "install"},
           Begin(i, call)
    PROVE  Inv'
<1>1. TypeOK'
  BY DictionaryAssumption DEF Inv, TypeOK, Begin, Ids
<1>2. ASSUME NEW j \in Ids, calls'[j].pc \in {"room", "install"} PROVE calls'[j] = calls[j]
  BY <1>2 DEF Inv, TypeOK, Begin
<1>3. QED
  BY <1>1, <1>2, OnlyCalls DEF Inv, SeenLive, Begin

LEMMA Going ==
    ASSUME Inv, NEW i \in Ids, NEW call \in CallRecords, Goto(i, call),
           call.pc \in {"room", "install"} =>
               \A t \in terms : Outdated(t) => call.seen[t.key] = "live"
    PROVE  Inv'
<1>1. TypeOK'
  BY DEF Inv, TypeOK, Goto
<1>2. ASSUME NEW j \in Ids, calls'[j].pc \in {"room", "install"}, NEW t \in terms, Outdated(t)
      PROVE  calls'[j].seen[t.key] = "live"
  BY <1>2 DEF Inv, TypeOK, Goto, SeenLive
<1>3. QED
  BY <1>1, <1>2, OnlyCalls DEF Goto

-----------------------------------------------------------------------------
(* Terms *)

(* A live row that gives way to one of the organization's own, with a word *)
(* no other live row has, or to its deleted self.                          *)
LEMMA Replacing ==
    ASSUME Inv, NEW i \in Ids, End(i), UNCHANGED installed,
           NEW t \in Live, NEW u \in Terms, terms' = (terms \ {t}) \cup {u},
           u.key = NoKey <=> u.version = 0,
           u.deleted \/ (u.key = NoKey /\ u.word \notin {v.word : v \in Live \ {t}}),
           u.key # NoKey => u.word = t.word /\ u.key = t.key
    PROVE  Inv'
<1>1. TypeOK'
  BY DEF Inv, TypeOK, End, NoCall, Live
<1>2. IsFiniteSet(terms')
  BY FS_RemoveElement, FS_AddElement DEF Inv
<1>3. Live' \subseteq (Live \ {t}) \cup {u}
  BY DEF Live
<1>4. TermsWithinLimit'
  <2>1. IsFiniteSet(Live) /\ IsFiniteSet(Live \ {t})
    BY FS_Subset, FS_RemoveElement DEF Live, Inv
  <2>2. Cardinality(Live \ {t}) = Cardinality(Live) - 1
    BY <2>1, FS_RemoveElement
  <2>3. /\ IsFiniteSet((Live \ {t}) \cup {u})
        /\ Cardinality((Live \ {t}) \cup {u}) <= Cardinality(Live \ {t}) + 1
    BY <2>1, OneMore
  <2>4. Cardinality(Live') <= Cardinality((Live \ {t}) \cup {u})
    BY <1>3, <2>3, FS_Subset
  <2>5. IsFiniteSet(Live') /\ Cardinality(Live') \in Nat /\ Cardinality(Live) \in Nat
    BY <1>3, <2>1, <2>3, FS_Subset, FS_CardinalityType
  <2>6. Cardinality((Live \ {t}) \cup {u}) \in Nat
    BY <2>3, FS_CardinalityType
  <2>7. QED
    BY <2>2, <2>3, <2>4, <2>5, <2>6, DictionaryAssumption DEF Inv, TermsWithinLimit
<1>5. Keyed' /\ OneTermPerWord'
  BY <1>3 DEF Inv, Keyed, OneTermPerWord, Live
<1>6. Alone'
  BY DEF Inv, Alone, Outdated, Live
<1>7. SeenLive'
  <2>1. ASSUME NEW j \in Ids, calls'[j].pc \in {"room", "install"} PROVE calls'[j] = calls[j]
    BY <2>1 DEF Inv, TypeOK, End, NoCall
  <2>2. QED
    BY <2>1 DEF Inv, SeenLive, Outdated
<1>8. UpgradeIsWhole'
  BY <1>3 DEF Inv, UpgradeIsWhole, Live
<1>9. QED
  BY <1>1, <1>2, <1>4, <1>5, <1>6, <1>7, <1>8 DEF Inv

LEMMA Creating == ASSUME Inv, NEW i \in Ids, CreateTerm(i) PROVE Inv'
<1> DEFINE u == [id |-> <<i, NoKey>>, word |-> calls[i].word, grade |-> calls[i].grade,
                 key |-> NoKey, version |-> 0, deleted |-> FALSE]
<1>1. calls[i].word \in Words /\ calls[i].grade \in Grades
  BY CallFields DEF CreateTerm, Inv, TypeOK
<1>2. u \in Terms
  BY <1>1 DEF Terms, TermIds, Ids
<1>3. terms' = terms \cup {u} /\ End(i) /\ installed' = installed
  BY DEF CreateTerm
<1>0. u.key = NoKey /\ u.version = 0 /\ u.word = calls[i].word /\ ~u.deleted
  OBVIOUS
<1> HIDE DEF u
<1>4. TypeOK'
  BY <1>0, <1>2, <1>3 DEF Inv, TypeOK, End, NoCall
<1>5. IsFiniteSet(terms')
  BY <1>3, FS_AddElement DEF Inv
<1>6. Live' = Live \cup {u}
  BY <1>3, <1>0 DEF Live
<1>7. TermsWithinLimit'
  <2>1. IsFiniteSet(Live) /\ Cardinality(Live) \in Nat
    BY FS_Subset, FS_CardinalityType DEF Live, Inv
  <2>2. Cardinality(Live) + 1 <= TermLimit
    BY <2>1 DEF CreateTerm, HasRoom
  <2>3. Cardinality(Live') <= Cardinality(Live) + 1 /\ Cardinality(Live') \in Nat
    BY <1>6, <2>1, OneMore
  <2>4. QED
    BY <2>1, <2>2, <2>3, DictionaryAssumption DEF TermsWithinLimit
<1>8. Keyed'
  BY <1>3, <1>0 DEF Inv, Keyed
<1>9. OneTermPerWord'
  <2>1. \A t \in Live : t.word # u.word
    BY <1>0 DEF CreateTerm, LiveWords
  <2>2. QED
    BY <1>0, <1>6, <2>1 DEF Inv, OneTermPerWord
<1>10. Alone'
  BY <1>0, <1>3 DEF Inv, Alone, Outdated
<1>11. SeenLive'
  <2>1. ASSUME NEW j \in Ids, calls'[j].pc \in {"room", "install"} PROVE calls'[j] = calls[j]
    BY <1>3, <2>1 DEF Inv, TypeOK, End, NoCall
  <2>2. QED
    BY <1>0, <1>3, <2>1 DEF Inv, SeenLive, Outdated
<1>12. UpgradeIsWhole'
  BY <1>0, <1>3, <1>6 DEF Inv, UpgradeIsWhole
<1>13. QED
  BY <1>4, <1>5, <1>7, <1>8, <1>9, <1>10, <1>11, <1>12 DEF Inv


-----------------------------------------------------------------------------
(* The pack *)

(* What an installation sees of the pack's rows.                           *)
LEMMA Reading == ASSUME Inv, NEW i \in Ids, ReadExisting(i) PROVE Inv'
<1>1. PICK seen \in [Keys -> Seen] :
        /\ \A key \in Keys :
            LET rows == {t \in terms : t.key = key}
            IN  IF rows = {} THEN seen[key] = "absent"
                ELSE \E t \in rows : seen[key] = IF t.deleted THEN "deleted" ELSE "live"
        /\ Goto(i, [pc |-> "room", seen |-> seen])
  BY DEF ReadExisting
<1>2. [pc |-> "room", seen |-> seen] \in CallRecords
  BY DEF CallRecords
<1>3. ASSUME NEW t \in terms, Outdated(t) PROVE seen[t.key] = "live"
  <2>1. t.key \in Keys
    BY <1>3 DEF Inv, TypeOK, Terms, Outdated
  <2>2. PICK u \in terms : u.key = t.key /\ seen[t.key] = IF u.deleted THEN "deleted" ELSE "live"
    BY <1>1, <2>1
  <2>3. u = t
    BY <1>3, <2>2 DEF Inv, Alone
  <2>4. QED
    BY <1>3, <2>2, <2>3 DEF Outdated
<1>4. QED
  BY <1>1, <1>2, <1>3, Going

LEMMA Counting == ASSUME Inv, NEW i \in Ids, CountRoom(i) PROVE Inv'
<1>1. calls[i] \in [pc: {"room", "install"}, seen: [Keys -> Seen]]
  BY CallFields DEF CountRoom, Inv, TypeOK
<1>2. [calls[i] EXCEPT !.pc = "install"] \in CallRecords
  BY <1>1 DEF CallRecords
<1>3. [calls[i] EXCEPT !.pc = "install"].seen = calls[i].seen
  BY <1>1
<1>4. QED
  BY <1>1, <1>2, <1>3, Going DEF CountRoom, Inv, SeenLive

(* The batch, in the words of this module.                                 *)
LEMMA Installed ==
    ASSUME Inv, NEW i \in Ids, InstallPack(i)
    PROVE  /\ calls[i].pc = "install" /\ Written(calls[i]) \subseteq Keys
           /\ HasRoom(Cardinality(Added(calls[i])))
           /\ terms' = {Upgraded(calls[i], t) : t \in terms}
                         \cup {NewTerm(i, key) : key \in Added(calls[i])}
           /\ installed' = Current
           /\ End(i)
BY DEF InstallPack, Added, Upgraded, NewTerm, Written

(* A row is upgraded in its grade and version only.                        *)
LEMMA UpgradedFields ==
    ASSUME Inv, NEW call, Written(call) \subseteq Keys, NEW t \in terms
    PROVE  LET u == Upgraded(call, t)
           IN  /\ u \in Terms
               /\ u.key = t.key /\ u.word = t.word /\ u.deleted = t.deleted /\ u.id = t.id
               /\ u.key = NoKey <=> u.version = 0
               /\ u.version = t.version \/ u.version = Current
               /\ Upgrades(call, t) => u.version = Current
               /\ t.key = NoKey => u = t
<1>1. t \in Terms /\ (t.key = NoKey <=> t.version = 0)
  BY DEF Inv, TypeOK
<1>2. CASE Upgrades(call, t)
  <2>1. t.key # NoKey
    BY <1>2, DictionaryAssumption DEF Upgrades
  <2>2. t \in [id: TermIds, word: Words, grade: Grades, key: Keys \cup {NoKey},
              version: 0..2, deleted: BOOLEAN]
    BY <1>1 DEF Terms
  <2>3. Upgraded(call, t) = [t EXCEPT !.grade = PackGrade, !.version = Current]
    BY <1>2 DEF Upgraded
  <2>4. /\ Upgraded(call, t) \in Terms
        /\ Upgraded(call, t).key = t.key /\ Upgraded(call, t).word = t.word
        /\ Upgraded(call, t).deleted = t.deleted /\ Upgraded(call, t).id = t.id
        /\ Upgraded(call, t).version = 2
    <3>1. Upgraded(call, t) = [id |-> t.id, word |-> t.word, grade |-> PackGrade, key |-> t.key,
                               version |-> 2, deleted |-> t.deleted]
      BY <2>2, <2>3 DEF Current
    <3>2. QED
      BY <2>2, <3>1, DictionaryAssumption DEF Terms
  <2>5. QED
    BY <2>1, <2>4 DEF Current
<1>3. CASE ~Upgrades(call, t)
  BY <1>1, <1>3 DEF Upgraded
<1>4. QED
  BY <1>2, <1>3

LEMMA NewTermFields ==
    ASSUME NEW i \in Ids, NEW key \in Keys
    PROVE  LET u == NewTerm(i, key)
           IN  /\ u \in Terms /\ u.key = key /\ u.key # NoKey /\ u.word = Wording[key]
               /\ u.version = Current /\ ~u.deleted
BY DictionaryAssumption DEF NewTerm, Terms, TermIds, Ids, Current

LEMMA Installing == ASSUME Inv, NEW i \in Ids, InstallPack(i) PROVE Inv'
<1> DEFINE call == calls[i]
           old == {Upgraded(call, t) : t \in terms}
           new == {NewTerm(i, key) : key \in Added(call)}
<1>1. /\ call.pc = "install" /\ Written(call) \subseteq Keys
      /\ terms' = old \cup new /\ installed' = Current /\ End(i)
  BY Installed
<1>2. Added(call) \subseteq Keys
  BY <1>1 DEF Added
<1>3. \A u \in terms' : \/ \E t \in terms : u = Upgraded(call, t)
                        \/ \E key \in Added(call) : u = NewTerm(i, key)
  BY <1>1
<1>4. TypeOK'
  <2>1. \A u \in terms' : u \in Terms /\ (u.key = NoKey <=> u.version = 0)
    BY <1>1, <1>2, <1>3, UpgradedFields, NewTermFields DEF Current
  <2>2. QED
    BY <1>1, <2>1 DEF Inv, TypeOK, End, NoCall, Current
<1>5. IsFiniteSet(old) /\ IsFiniteSet(new) /\ Cardinality(new) <= Cardinality(Added(call))
      /\ IsFiniteSet(Added(call))
  <2>1. IsFiniteSet(Added(call))
    BY <1>2, FS_Subset, DictionaryAssumption
  <2>2. IsFiniteSet(terms)
    BY DEF Inv
  <2>3. IsFiniteSet(old)
    <3> DEFINE f == [t \in terms |-> Upgraded(call, t)]
    <3>1. f = [t \in terms |-> f[t]] /\ old = {f[t] : t \in terms}
      OBVIOUS
    <3> HIDE DEF f, old
    <3>2. QED
      BY <2>2, <3>1, NoLarger
  <2>4. IsFiniteSet(new) /\ Cardinality(new) <= Cardinality(Added(call))
    <3> DEFINE f == [key \in Added(call) |-> NewTerm(i, key)]
    <3>1. f = [key \in Added(call) |-> f[key]] /\ new = {f[key] : key \in Added(call)}
      OBVIOUS
    <3> HIDE DEF f, new
    <3>2. QED
      BY <2>1, <3>1, NoLarger
  <2>5. QED
    BY <2>1, <2>3, <2>4
<1>6. IsFiniteSet(terms')
  BY <1>1, <1>5, FS_Union
<1>7. TermsWithinLimit'
  <2> DEFINE liveOld == {Upgraded(call, t) : t \in Live}
  <2>1. IsFiniteSet(Live)
    BY FS_Subset DEF Live, Inv
  <2>2. IsFiniteSet(liveOld) /\ Cardinality(liveOld) <= Cardinality(Live)
    <3> DEFINE f == [t \in Live |-> Upgraded(call, t)]
    <3>1. f = [t \in Live |-> f[t]] /\ liveOld = {f[t] : t \in Live}
      OBVIOUS
    <3> HIDE DEF f, liveOld
    <3>2. QED
      BY <2>1, <3>1, NoLarger
  <2>3. Live' \subseteq liveOld \cup new
    BY <1>1, <1>3, UpgradedFields DEF Live
  <2>4. /\ Cardinality(liveOld) \in Nat /\ Cardinality(new) \in Nat /\ Cardinality(Live) \in Nat
        /\ Cardinality(Added(call)) \in Nat
    BY <1>5, <2>1, <2>2, FS_CardinalityType
  <2>5. CASE Cardinality(Added(call)) = 0
    <3>1. Added(call) = {}
      BY <1>5, <2>5, FS_EmptySet
    <3>2. Live' \subseteq liveOld
      BY <2>3, <3>1
    <3>3. Cardinality(Live') <= Cardinality(liveOld) /\ IsFiniteSet(Live')
      BY <2>2, <3>2, FS_Subset
    <3>4. QED
      BY <2>2, <2>4, <3>3, FS_CardinalityType, DictionaryAssumption DEF Inv, TermsWithinLimit
  <2>6. CASE Cardinality(Live) + Cardinality(Added(call)) <= TermLimit
    <3>1. IsFiniteSet(liveOld \cup new)
          /\ Cardinality(liveOld \cup new) <= Cardinality(liveOld) + Cardinality(new)
      <4>1. /\ IsFiniteSet(liveOld \cup new)
            /\ Cardinality(liveOld \cup new) =
                 Cardinality(liveOld) + Cardinality(new) - Cardinality(liveOld \cap new)
        BY <1>5, <2>2, FS_Union
      <4>2. Cardinality(liveOld \cap new) \in Nat
        BY <1>5, FS_Intersection, FS_CardinalityType
      <4>3. QED
        BY <2>4, <4>1, <4>2
    <3>2. Cardinality(Live') <= Cardinality(liveOld \cup new) /\ IsFiniteSet(Live')
      BY <2>3, <3>1, FS_Subset
    <3>3. Cardinality(Live') \in Nat /\ Cardinality(liveOld \cup new) \in Nat
      BY <3>1, <3>2, FS_CardinalityType
    <3>4. QED
      BY <1>5, <2>2, <2>4, <2>6, <3>1, <3>2, <3>3, DictionaryAssumption DEF TermsWithinLimit
  <2>7. QED
    BY <2>5, <2>6, Installed DEF HasRoom
<1>8. Keyed'
  BY <1>2, <1>3, <1>1, UpgradedFields, NewTermFields DEF Inv, Keyed
(* A row that stays has no word that is added.                             *)
<1>9. ASSUME NEW t \in terms, ~t.deleted, NEW key \in Added(call)
      PROVE  t.word # Wording[key]
  BY <1>9 DEF Added, LiveWords, Live
<1>10. OneTermPerWord'
  <2>1. ASSUME NEW u \in terms', ~u.deleted, NEW v \in terms', ~v.deleted, u.word = v.word
        PROVE  u = v
    <3>1. CASE (\E t \in terms : u = Upgraded(call, t)) /\ (\E t \in terms : v = Upgraded(call, t))
      <4>1. PICK t \in terms, w \in terms : u = Upgraded(call, t) /\ v = Upgraded(call, w)
        BY <3>1
      <4>2. t \in Live /\ w \in Live /\ t.word = w.word
        BY <1>1, <2>1, <4>1, UpgradedFields DEF Live
      <4>3. QED
        BY <4>1, <4>2 DEF Inv, OneTermPerWord
    <3>2. CASE (\E key \in Added(call) : u = NewTerm(i, key)) /\ (\E key \in Added(call) : v = NewTerm(i, key))
      BY <1>2, <2>1, <3>2, NewTermFields, DictionaryAssumption
    <3>3. ASSUME NEW x, NEW y, NEW t \in terms, x = Upgraded(call, t), ~x.deleted,
                 NEW key \in Added(call), y = NewTerm(i, key)
          PROVE  x.word # y.word
      BY <1>1, <1>2, <1>9, <3>3, UpgradedFields, NewTermFields
    <3>4. QED
      BY <1>3, <2>1, <3>1, <3>2, <3>3
  <2>2. \A u, v \in Live' : u.key = v.key /\ u.key # NoKey => u.word = v.word
    BY <1>8 DEF Keyed, Live
  <2>3. QED
    BY <2>1, <2>2 DEF OneTermPerWord, Live
(* No row of the earlier version is left.                                  *)
<1>11. \A u \in terms' : ~Outdated(u)
  <2>1. ASSUME NEW t \in terms, Outdated(Upgraded(call, t)) PROVE FALSE
    <3>1. Outdated(t)
      BY <1>1, <2>1, UpgradedFields DEF Outdated
    <3>2. t.key \in Keys /\ call.seen[t.key] = "live"
      BY <1>1, <3>1 DEF Inv, SeenLive, TypeOK, Terms, Outdated
    <3>3. Upgrades(call, t)
      BY <3>1, <3>2 DEF Upgrades, Written, Outdated
    <3>4. QED
      BY <1>1, <2>1, <3>3, UpgradedFields DEF Outdated
  <2>2. QED
    BY <1>2, <1>3, <2>1, NewTermFields DEF Outdated
<1>12. Alone' /\ SeenLive'
  BY <1>11 DEF Alone, SeenLive, Outdated
<1>13. UpgradeIsWhole'
  BY <1>11 DEF UpgradeIsWhole, Outdated, Live
<1>14. QED
  BY <1>4, <1>6, <1>7, <1>8, <1>10, <1>12, <1>13 DEF Inv

-----------------------------------------------------------------------------
(* The invariant *)

LEMMA InitInv == Init => Inv
<1> SUFFICES ASSUME Init PROVE Inv
  OBVIOUS
<1>1. CASE installed = 0
  <2>1. terms = {}
    BY <1>1 DEF Init
  <2>2. IsFiniteSet(terms)
    BY <2>1, FS_EmptySet
  <2>3. TypeOK
    BY <1>1, <2>1, DictionaryAssumption DEF Init, TypeOK, NoCall
  <2>4. QED
    BY <1>1, <2>1, <2>2, <2>3 DEF Init, Inv, Keyed, OneTermPerWord, TermsWithinLimit, Alone,
       SeenLive, UpgradeIsWhole, Live, Current, NoCall
<1>2. CASE installed = 1
  <2>1. PICK gone \in SUBSET Keys, grade \in Grades :
          terms = {Legacy(key, grade, key \in gone) : key \in Keys}
    BY <1>2 DEF Init
  <2>2. ASSUME NEW key \in Keys, NEW deleted \in BOOLEAN
        PROVE  /\ Legacy(key, grade, deleted) \in Terms
               /\ Legacy(key, grade, deleted).key = key
               /\ Legacy(key, grade, deleted).word = Wording[key]
               /\ Legacy(key, grade, deleted).version = 1
    BY DictionaryAssumption DEF Legacy, Terms, TermIds
  <2> DEFINE f == [key \in Keys |-> Legacy(key, grade, key \in gone)]
  <2>a. terms = {f[key] : key \in Keys} /\ f = [key \in Keys |-> f[key]]
    BY <2>1
  <2>b. ASSUME NEW key \in Keys
        PROVE  f[key] \in Terms /\ f[key].key = key /\ f[key].word = Wording[key]
               /\ f[key].version = 1
    BY <2>2, (key \in gone) \in BOOLEAN
  <2> HIDE DEF f
  <2>3. IsFiniteSet(terms)
    BY <2>a, NoLarger, DictionaryAssumption
  <2>4. \A t \in terms : t \in Terms /\ t.key \in Keys /\ t.word = Wording[t.key] /\ t.version = 1
    BY <2>a, <2>b
  <2>5. \A t, u \in terms : t.key = u.key => t = u
    BY <2>a, <2>b
  <2>6. TypeOK
    BY <1>2, <2>4, DictionaryAssumption DEF Init, TypeOK, NoCall
  <2>7. OneTermPerWord
    BY <2>4, <2>5, DictionaryAssumption DEF OneTermPerWord, Live
  <2>8. QED
    BY <1>2, <2>3, <2>4, <2>5, <2>6, <2>7 DEF Init, Inv, Keyed, TermsWithinLimit, Alone,
       SeenLive, UpgradeIsWhole, Current, NoCall
<1>3. QED
  BY <1>1, <1>2 DEF Init

LEMMA Starting ==
    ASSUME Inv, NEW i \in Ids, StartCreate(i) \/ StartEdit(i) \/ StartDelete(i) \/ StartInstall(i)
    PROVE  Inv'
<1>1. CASE StartCreate(i)
  <2>1. PICK word \in Words, grade \in Grades :
          Begin(i, [pc |-> "count", word |-> word, grade |-> grade])
    BY <1>1 DEF StartCreate
  <2>2. [pc |-> "count", word |-> word, grade |-> grade] \in CallRecords
    BY DEF CallRecords
  <2>3. QED
    BY <2>1, <2>2, Beginning
<1>2. CASE StartEdit(i)
  <2>1. PICK t \in Live, word \in Words, grade \in Grades :
          Begin(i, [pc |-> "edit", read |-> t, word |-> word, grade |-> grade])
    BY <1>2 DEF StartEdit
  <2>2. [pc |-> "edit", read |-> t, word |-> word, grade |-> grade] \in CallRecords
    BY DEF CallRecords, Live, Inv, TypeOK
  <2>3. QED
    BY <2>1, <2>2, Beginning
<1>3. CASE StartDelete(i)
  <2>1. PICK t \in Live :
          Begin(i, [pc |-> "delete", read |-> t, word |-> t.word, grade |-> t.grade])
    BY <1>3 DEF StartDelete
  <2>2. t \in Terms
    BY DEF Live, Inv, TypeOK
  <2>3. [pc |-> "delete", read |-> t, word |-> t.word, grade |-> t.grade] \in CallRecords
    BY <2>2 DEF CallRecords, Terms
  <2>4. QED
    BY <2>1, <2>3, Beginning
<1>4. CASE StartInstall(i)
  <2>1. [pc |-> "existing"] \in CallRecords
    BY DEF CallRecords
  <2>2. QED
    BY <1>4, <2>1, Beginning DEF StartInstall
<1>5. QED
  BY <1>1, <1>2, <1>3, <1>4

LEMMA Editing == ASSUME Inv, NEW i \in Ids, EditTerm(i) \/ DeleteTerm(i) PROVE Inv'
<1>1. CASE EditTerm(i)
  <2> DEFINE call == calls[i]
  <2>1. PICK t \in Target(call) :
          /\ call.word \notin {u.word : u \in Live \ {t}}
          /\ terms' = (terms \ {t}) \cup {[Own(t) EXCEPT !.word = call.word, !.grade = call.grade]}
    BY <1>1 DEF EditTerm
  <2> DEFINE u == [Own(t) EXCEPT !.word = call.word, !.grade = call.grade]
  <2>2. t \in Live /\ t \in Terms
    BY DEF Target, Live, Inv, TypeOK
  <2>3. call.word \in Words /\ call.grade \in Grades
    BY <1>1, CallFields DEF EditTerm, Inv, TypeOK
  <2>4. u \in Terms /\ u.key = NoKey /\ u.version = 0 /\ u.word = call.word
    <3>1. /\ Own(t) = [t EXCEPT !.key = NoKey, !.version = 0]
          /\ t \in [id: TermIds, word: Words, grade: Grades, key: Keys \cup {NoKey},
                    version: 0..2, deleted: BOOLEAN]
      BY <2>2 DEF Own, Terms
    <3>2. Own(t) \in Terms /\ Own(t).key = NoKey /\ Own(t).version = 0
      <4>1. Own(t) = [id |-> t.id, word |-> t.word, grade |-> t.grade, key |-> NoKey,
                      version |-> 0, deleted |-> t.deleted]
        BY <3>1
      <4>2. QED
        BY <3>1, <4>1 DEF Terms
    <3>3. QED
      BY <2>3, <3>2 DEF Terms
  <2>5. QED
    BY <1>1, <2>1, <2>2, <2>4, Replacing DEF EditTerm
<1>2. CASE DeleteTerm(i)
  <2>1. PICK t \in Target(calls[i]) : terms' = (terms \ {t}) \cup {[t EXCEPT !.deleted = TRUE]}
    BY <1>2 DEF DeleteTerm
  <2> DEFINE u == [t EXCEPT !.deleted = TRUE]
  <2>2. t \in Live /\ t \in Terms /\ (t.key = NoKey <=> t.version = 0)
    BY DEF Target, Live, Inv, TypeOK
  <2>3. /\ u \in Terms /\ u.deleted /\ u.key = t.key /\ u.word = t.word
        /\ u.version = t.version
    BY <2>2 DEF Terms
  <2>4. QED
    BY <1>2, <2>1, <2>2, <2>3, Replacing DEF DeleteTerm
<1>3. QED
  BY <1>1, <1>2

LEMMA NextInv == Inv /\ [Next]_vars => Inv'
<1> SUFFICES ASSUME Inv, [Next]_vars PROVE Inv'
  OBVIOUS
<1>1. ASSUME NEW i \in Ids, CountTerms(i) PROVE Inv'
  <2>1. [calls[i] EXCEPT !.pc = "create"] \in CallRecords
        /\ [calls[i] EXCEPT !.pc = "create"].pc = "create"
    <3>1. calls[i] \in [pc: {"count", "create"}, word: Words, grade: Grades]
      BY <1>1, CallFields DEF CountTerms, Inv, TypeOK
    <3>2. QED
      BY <3>1 DEF CallRecords
  <2>2. QED
    BY <1>1, <2>1, Going DEF CountTerms
<1>2. ASSUME NEW i \in Ids, GiveUp(i) PROVE Inv'
  BY <1>2, Ending DEF GiveUp
<1>3. CASE UNCHANGED vars
  <2>1. TypeOK'
    BY <1>3 DEF Inv, TypeOK, vars
  <2>2. QED
    BY <1>3, <2>1, OnlyCalls DEF Inv, SeenLive, vars
<1>4. QED
  BY <1>1, <1>2, <1>3, Starting, Creating, Editing, Reading, Counting, Installing DEF Next

THEOREM Invariance == Spec => []Inv
  BY InitInv, NextInv, PTL DEF Spec

(* Rows and handlers are what the code writes, and the pack's columns are  *)
(* set and cleared together.                                               *)
THEOREM Typing == Spec => []TypeOK
<1>1. Inv => TypeOK
  BY DEF Inv
<1>2. QED
  BY <1>1, Invariance, PTL

(* No race of creations and installations takes the organization over the  *)
(* limit.                                                                  *)
THEOREM WithinLimit == Spec => []TermsWithinLimit
<1>1. Inv => TermsWithinLimit
  BY DEF Inv
<1>2. QED
  BY <1>1, Invariance, PTL

(* There is one live term per word, and per key.                           *)
THEOREM WordsAreApart == Spec => []OneTermPerWord
<1>1. Inv => OneTermPerWord
  BY DEF Inv
<1>2. QED
  BY <1>1, Invariance, PTL

(* An installation misses no row of the earlier version.                   *)
THEOREM UpgradesMissNothing == Spec => []UpgradeIsWhole
<1>1. Inv => UpgradeIsWhole
  BY DEF Inv
<1>2. QED
  BY <1>1, Invariance, PTL

(* An installation leaves the organization's own terms alone.              *)
THEOREM OwnTermsAreKept == Spec => OwnTermsStay
<1>1. ASSUME Inv, Next, NEW t \in Live, t.key = NoKey, t \notin terms'
      PROVE  \E i \in Ids : calls[i].pc \in {"edit", "delete"} /\ calls[i].read.id = t.id
  <2>1. PICK i \in Ids : CreateTerm(i) \/ EditTerm(i) \/ DeleteTerm(i) \/ InstallPack(i)
    <3>1. terms' # terms
      BY <1>1 DEF Live
    <3>2. QED
      BY <1>1, <3>1 DEF Next, StartCreate, CountTerms, StartEdit, StartDelete, StartInstall,
         ReadExisting, CountRoom, GiveUp, Begin, Goto
  <2>2. CASE CreateTerm(i)
    BY <1>1, <2>2 DEF CreateTerm, Live
  <2>3. CASE EditTerm(i) \/ DeleteTerm(i)
    BY <1>1, <2>3 DEF EditTerm, DeleteTerm, Target, Live
  <2>4. CASE InstallPack(i)
    BY <1>1, <2>4, Installed, UpgradedFields DEF Live
  <2>5. QED
    BY <2>1, <2>2, <2>3, <2>4
<1>2. Inv /\ [Next]_vars =>
         [\A t \in Live : t.key = NoKey /\ t \notin terms'
            => \E i \in Ids : calls[i].pc \in {"edit", "delete"} /\ calls[i].read.id = t.id]_vars
  BY <1>1
<1>3. QED
  BY <1>2, Invariance, PTL DEF Spec, OwnTermsStay
=============================================================================
