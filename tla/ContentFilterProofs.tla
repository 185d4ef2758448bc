------------------------ MODULE ContentFilterProofs ------------------------
(* What the filter's decision guarantees, whatever the policies and the    *)
(* text, and two things the documentation says of it that it does not do.  *)
EXTENDS ContentFilter, TLAPS

(* A policy's action grows with the severity, whichever of its levels are  *)
(* set: actionForSeverity asks for the strongest first.                    *)
THEOREM StricterIsStronger ==
    ASSUME NEW policy \in AllPolicies,
           NEW low \in Severities, NEW high \in Severities, low <= high
    PROVE  Weight(ActionFor(policy, low)) <= Weight(ActionFor(policy, high))
BY DEF AllPolicies, Levels, Severities, NotSet, Weight, ActionFor

LEMMA ActionForTyping ==
    ASSUME NEW policy \in AllPolicies, NEW severity \in Severities
    PROVE  ActionFor(policy, severity) \in FilterActions
BY DEF AllPolicies, Levels, Severities, NotSet, ActionFor, FilterActions

LEMMA MatchesGrow ==
    ASSUME NEW policies, NEW hits, NEW more, hits \subseteq more, NEW action,
           Asks(hits, policies, action)
    PROVE  Asks(more, policies, action)
BY DEF Asks, Matches

(* A further hit never weakens what is done with the message:              *)
(* evaluateFilterMessage takes the strongest action of all its matches.    *)
THEOREM MoreHitsNeverWeaken ==
    ASSUME NEW policies, NEW hits, NEW more, hits \subseteq more
    PROVE  Weight(Strongest(hits, policies)) <= Weight(Strongest(more, policies))
<1>1. CASE Asks(more, policies, "reject")
    BY <1>1 DEF Strongest, Weight
<1>2. CASE ~Asks(more, policies, "reject") /\ Asks(more, policies, "mask")
    BY <1>2, MatchesGrow DEF Strongest, Weight
<1>3. CASE /\ ~Asks(more, policies, "reject") /\ ~Asks(more, policies, "mask")
           /\ Asks(more, policies, "review")
    BY <1>3, MatchesGrow DEF Strongest, Weight
<1>4. CASE /\ ~Asks(more, policies, "reject") /\ ~Asks(more, policies, "mask")
           /\ ~Asks(more, policies, "review")
    BY <1>4, MatchesGrow DEF Strongest, Weight
<1>. QED  BY <1>1, <1>2, <1>3, <1>4

(* Near matches alone never mask or refuse a comment: they may ask for     *)
(* review only, because they are often wrong.                              *)
THEOREM NearMatchesOnlyReview ==
    ASSUME NEW settings \in Settings, NEW policies \in [Categories -> AllPolicies],
           NEW hits \in SUBSET Hits, \A hit \in hits : ~hit.exact, NEW language \in Languages
    PROVE  LET decision == CommentDecision(settings, policies, hits, language)
           IN  decision.action \in {"allow", "review"} /\ ~decision.masked
<1>1. \A hit \in Matches(hits, policies) : HitAction(hit, policies) = "review"
    BY DEF Matches, HitAction
<1>2. ~Asks(hits, policies, "reject") /\ ~Asks(hits, policies, "mask")
    BY <1>1 DEF Asks
<1>3. Strongest(hits, policies) \in {"allow", "review"}
    BY <1>2 DEF Strongest
<1>. QED  BY <1>2, <1>3 DEF CommentDecision, MessageDecision

(* A comment that passes an enabled filter unchanged has no near hit in an *)
(* enabled category, and its exact hits are below every level set there.   *)
THEOREM PublishedIsPermitted ==
    ASSUME NEW settings \in Settings, settings.enabled,
           NEW policies \in [Categories -> AllPolicies],
           NEW hits \in SUBSET Hits, NEW language \in Languages,
           CommentDecision(settings, policies, hits, language).action = "allow",
           NEW hit \in hits, policies[hit.category].enabled
    PROVE  LET policy == policies[hit.category]
           IN  /\ hit.exact
               /\ hit.severity < policy.review
               /\ hit.severity < policy.mask
               /\ hit.severity < policy.reject
<1>1. hit \in Hits /\ hit.category \in Categories /\ hit.severity \in Severities
    BY DEF Hits
<1>2. policies[hit.category] \in AllPolicies
    BY <1>1
<1>3. Strongest(hits, policies) = "allow"
    BY DEF CommentDecision, MessageDecision
<1>4. \A action \in FilterActions \ {"allow"} : ~Asks(hits, policies, action)
    BY <1>3 DEF Strongest, FilterActions
<1>5. HitAction(hit, policies) \in FilterActions
    BY <1>1, <1>2, ActionForTyping DEF HitAction, FilterActions
<1>6. HitAction(hit, policies) = "allow"
    BY <1>4, <1>5 DEF Asks, Matches, Counts
<1>7. hit.exact /\ ActionFor(policies[hit.category], hit.severity) = "allow"
    BY <1>6, Zenon DEF HitAction
<1>. QED  BY <1>1, <1>2, <1>7 DEF ActionFor, AllPolicies, Levels, Severities, NotSet

(* What the documentation says and the code does not do: a comment in a    *)
(* language other than Japanese and English is held for review by no       *)
(* setting that can be stored.  docs/stage-07-7-spec.md:29-32 holds it     *)
(* under ai_review and review_only; the code compares with "review".       *)
THEOREM LanguageNeverHolds ==
    ASSUME NEW settings \in Settings, NEW policies, NEW hits, NEW language
    PROVE  CommentDecision(settings, policies, hits, language).held
             <=> MessageDecision(settings, policies, hits).action = "review"
<1>1. settings.unsupported # "review"
    BY DEF Settings
<1>. QED  BY <1>1 DEF CommentDecision, ReviewedForLanguage

(* What the documentation says and the code does not do: a near match is   *)
(* always stored for review (docs/stage-07-5-spec.md:84).  When another    *)
(* term of the message is masked, the comment is published with that mask. *)
THEOREM MaskReleasesReview ==
    ASSUME NEW settings \in Settings, settings.enabled, NEW policies, NEW hits,
           NEW language, Asks(hits, policies, "mask")
    PROVE  ~CommentDecision(settings, policies, hits, language).held
<1>1. MessageDecision(settings, policies, hits).action # "review"
    BY DEF MessageDecision, Strongest
<1>. QED  BY <1>1, LanguageNeverHolds
=============================================================================
