---------------------------- MODULE MCTestInput ----------------------------
(* Two tests: one that writes any text, one that finds what it left. *)
EXTENDS TestInput

CONSTANT MAX_LEN            \* bound: characters of a text

TextsUpTo(n) == UNION {[1..k -> Alphabet] : k \in 0..n}
MCIntMin  == -22
MCLongMin == -220

MCTexts   == <<TextsUpTo(MAX_LEN), TextsUpTo(1)>>
MCStrings == TextsUpTo(2)
=============================================================================
