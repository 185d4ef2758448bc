--------------------------- MODULE ContentFilter ---------------------------
(***************************************************************************)
(* The dictionary filter of a comment as a function: what                  *)
(* evaluateCommentFilter (content-filter/repository.js) and                *)
(* evaluateFilterMessage (content-filter/matcher.js) decide from the       *)
(* session's settings, the organization's policies, the terms found in the *)
(* text and the language of the text.                                      *)
(*                                                                         *)
(* Abstracted: normalisation and matching.  A hit is a category, a         *)
(* severity and the language of a term together with how the text matches  *)
(* it: exactly (strict or compact), or nearly (confusable or fuzzy).  The  *)
(* limits of 2000 terms, 64 fuzzy candidates and 100 matches are not       *)
(* reached.                                                                *)
(***************************************************************************)
EXTENDS Naturals

CONSTANT Categories     \* FILTER_CATEGORIES

(* 1 to 5; the optional levels of a policy are one more when not set,      *)
(* which no severity reaches.                                              *)
Severities == 1..5
NotSet == 6
Levels == Severities \cup {NotSet}

AllPolicies == [enabled: BOOLEAN, review: Levels, mask: Levels, reject: Levels]

(* validatePolicyLevels, and the CHECKs of migration 0011.  Levels are     *)
(* compared in neighbouring pairs, and only when both are set.             *)
InOrder(policy) ==
    /\ policy.review # NotSet /\ policy.mask # NotSet => policy.review <= policy.mask
    /\ policy.mask # NotSet /\ policy.reject # NotSet => policy.mask <= policy.reject
Policies == {policy \in AllPolicies : InOrder(policy)}

Hits ==
    [category: Categories, severity: Severities, exact: BOOLEAN, language: {"ja", "en", "und"}]

(* The values session_content_filter_settings admits (migrations 0011 and  *)
(* 0013, requireUnsupportedLanguageMode).                                  *)
Settings ==
    [enabled: BOOLEAN, routing: {"off", "ambiguous", "all"},
     unsupported: {"ai_review", "review_only", "allow"}, translations: BOOLEAN]

(* What detectCommentLanguage tells apart.                                 *)
Languages == {"supported", "neutral", "unsupported"}

-----------------------------------------------------------------------------
(* Actions *)

FilterActions == {"allow", "review", "mask", "reject"}

(* ACTION_WEIGHT                                                           *)
Weight(action) ==
    CASE action = "allow" -> 0 [] action = "review" -> 1
      [] action = "mask" -> 2 [] action = "reject" -> 3

(* actionForSeverity                                                       *)
ActionFor(policy, severity) ==
    IF severity >= policy.reject THEN "reject"
    ELSE IF severity >= policy.mask THEN "mask"
    ELSE IF severity >= policy.review THEN "review"
    ELSE "allow"

(* A category without an enabled policy is skipped.  A near match asks for *)
(* review whatever its severity.                                           *)
Counts(hit, policies) == policies[hit.category].enabled
HitAction(hit, policies) ==
    IF hit.exact THEN ActionFor(policies[hit.category], hit.severity) ELSE "review"

(* allMatches                                                              *)
Matches(hits, policies) ==
    {hit \in hits : Counts(hit, policies) /\ HitAction(hit, policies) # "allow"}
Asks(hits, policies, action) ==
    \E hit \in Matches(hits, policies) : HitAction(hit, policies) = action

(* strongestAction                                                         *)
Strongest(hits, policies) ==
    IF Asks(hits, policies, "reject") THEN "reject"
    ELSE IF Asks(hits, policies, "mask") THEN "mask"
    ELSE IF Asks(hits, policies, "review") THEN "review"
    ELSE "allow"

(* evaluateFilterMessage and emptyDecision.  masked: the text has masked   *)
(* spans, and display_message is stored beside it.                         *)
MessageDecision(settings, policies, hits) ==
    IF settings.enabled
    THEN LET ambiguous == Asks(hits, policies, "review")
         IN  [action |-> Strongest(hits, policies),
              masked |-> Asks(hits, policies, "mask"),
              ai |-> settings.routing = "all" \/ (settings.routing = "ambiguous" /\ ambiguous)]
    ELSE [action |-> "allow", masked |-> FALSE, ai |-> FALSE]

-----------------------------------------------------------------------------
(* A comment.  acceptMessage refuses a rejected one; the rest is handed to *)
(* persistComment, which stores a held one as pending (the review of       *)
(* module Comments).                                                       *)

(* inferMatchedLanguage: the matches of confidence 900 and more are the    *)
(* exact ones; a term in Japanese or English settles the language.         *)
LanguageMatched(settings, policies, hits) ==
    /\ settings.enabled
    /\ \E hit \in Matches(hits, policies) : hit.exact /\ hit.language # "und"

Unsupported(settings, policies, hits, language) ==
    /\ settings.enabled
    /\ ~LanguageMatched(settings, policies, hits)
    /\ language = "unsupported"

(* requiresReview of evaluateCommentFilter compares the mode with          *)
(* "review".                                                               *)
ReviewedForLanguage(settings, policies, hits, language) ==
    Unsupported(settings, policies, hits, language) /\ settings.unsupported = "review"

CommentDecision(settings, policies, hits, language) ==
    LET decision == MessageDecision(settings, policies, hits)
        forLanguage == ReviewedForLanguage(settings, policies, hits, language)
    IN  [action |-> IF forLanguage /\ decision.action = "allow" THEN "review" ELSE decision.action,
         masked |-> decision.masked,
         held |-> decision.action = "review" \/ forLanguage,
         ai |-> decision.ai \/ (Unsupported(settings, policies, hits, language)
                                  /\ settings.unsupported = "ai_review")]

(* evaluateTranslationFilter: a translation is shown, shown masked, or     *)
(* withheld.                                                               *)
TranslationDecision(settings, policies, hits) ==
    IF settings.translations THEN MessageDecision(settings, policies, hits)
    ELSE [action |-> "allow", masked |-> FALSE, ai |-> FALSE]
=============================================================================
