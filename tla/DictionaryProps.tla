-------------------------- MODULE DictionaryProps --------------------------
(* What the dictionary promises. *)
EXTENDS Dictionary

(* The rows, the handlers, and the pack's columns, which are set and       *)
(* cleared together.                                                       *)
TypeOK ==
    /\ terms \subseteq Terms
    /\ \A t \in terms : t.key = NoKey <=> t.version = 0
    /\ installed \in 0..2
    /\ calls \in [Ids -> CallRecords \cup {NoCall}]
    /\ issued \in 0..MaxRequests

(* However creations and installations race, the organization never has    *)
(* more terms than the limit: getFilterContext would refuse every comment. *)
TermsWithinLimit == Cardinality(Live) <= TermLimit

(* One live term per word and per key, although an installation decides    *)
(* what to insert from what it has read two calls earlier.                 *)
OneTermPerWord ==
    \A t, u \in Live : t.word = u.word \/ (t.key = u.key /\ t.key # NoKey) => t = u

(* Once the pack's current version is installed, no live term of the pack  *)
(* is left at the earlier one.                                             *)
UpgradeIsWhole ==
    installed = Current => \A t \in Live : t.key # NoKey => t.version = Current

(* A term of the organization's own, created or edited, is changed or      *)
(* removed only by a request for that term, never by an installation.      *)
OwnTermsStay ==
    [][\A t \in Live : t.key = NoKey /\ t \notin terms'
        => \E i \in Ids : calls[i].pc \in {"edit", "delete"} /\ calls[i].read.id = t.id]_vars

(* What a comment in installFilterPack (repository.js:198) says, and the   *)
(* code does not do: an installation brings back no term that a user has   *)
(* deleted.                                                                *)
DeletionsStand ==
    [][\A t \in terms : t.deleted => \A u \in terms' \ terms : u.key # NoKey => u.word # t.word]_vars
=============================================================================
