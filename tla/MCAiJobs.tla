------------------------------ MODULE MCAiJobs ------------------------------
(* Small instances of the AI job pipeline: values the .cfg files give to the  *)
(* constants.                                                                 *)
EXTENDS AiJobsProps, TLC

\* Comments are in the target language when the filter routes them to AI
\* moderation, and in a foreign one otherwise: one comment, one job at a time.
MCLanguage == [c \in Comments |-> IF c \in Routed THEN "en" ELSE "fr"]

\* The session starts with one of the two features on.
MCModerating == {s \in Settings : s.org /\ s.moderation /\ ~ s.translation /\ s.target = "en"}
MCTranslating == {s \in Settings : s.org /\ s.translation /\ ~ s.moderation /\ s.target = "en"}
MCStart == MCModerating \cup MCTranslating
\* What a teacher may change the session to.
MCEither == {s \in Settings : ~ (s.moderation /\ s.translation)}
MCRetarget == {s \in Settings : s.translation /\ ~ s.moderation}

MCLimit == [t \in Types |-> 3]
MCOneCall == [t \in Types |-> 1]

MCSymmetry == Permutations(Workers)
=============================================================================
