----------------------------- MODULE MCPassages -----------------------------
(* Sentences below, at and above the target, and a word above it. *)
EXTENDS Passages

MCTexts == {<<>>, <<1>>, <<2, 1>>, <<3, 2>>, <<6>>}
=============================================================================
