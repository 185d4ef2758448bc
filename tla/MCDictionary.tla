--------------------------- MODULE MCDictionary ---------------------------
(* A pack of two keys, and one word it does not have. *)
EXTENDS DictionaryProps, TLC

CONSTANTS w1, w2, w3, k1, k2, none, g1, g2

MCWording == (k1 :> w1) @@ (k2 :> w2)
=============================================================================
