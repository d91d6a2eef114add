------------------------------- MODULE MCText -------------------------------
(***************************************************************************)
(* Bounded sets of texts for TLC: all texts of at most n words out of a    *)
(* vocabulary, separated by single spaces.  An empty word stands for two   *)
(* spaces in a row or for a space at an end.                               *)
(***************************************************************************)
EXTENDS Integers, Sequences, SequencesExt

Join(words, space) ==
  FlattenSeq([i \in DOMAIN words |->
                IF i = 1 THEN words[i] ELSE <<space>> \o words[i]])

WordLists(vocabulary, n) == UNION {[1 .. k -> vocabulary] : k \in 1 .. n}

Texts(vocabulary, n, space) ==
  {<<>>} \cup {Join(words, space) : words \in WordLists(vocabulary, n)}
=============================================================================
