------------------------ MODULE MCIndependenceScoring ------------------------
(* An instance of IndependenceScoring for TLC: half seconds, tenths, and
   texts in which one statement comes in two spellings. *)
EXTENDS IndependenceScoring

A == [lower |-> "a", spelling |-> 1]
A2 == [lower |-> "a", spelling |-> 2]
B == [lower |-> "b", spelling |-> 1]

MCUnspecified == [lower |-> "unspecified", spelling |-> 1]

MCStatements == {A, A2, B}

MCTexts == {<<>>, <<A, B, A2>>}
=============================================================================
