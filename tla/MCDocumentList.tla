--------------------------- MODULE MCDocumentList ---------------------------
(* Instances of DocumentList for TLC. *)
EXTENDS DocumentList, FiniteSets

\* Bound on what the user does, never on what follows from it: documents meet
\* in one drop of several files, and calls over one document.
About == {d \in Docs : state[d] # "absent"} \cup UNION {calls[c].files : c \in Calls}
Made == {c \in Calls : calls[c].step # "unused"}
Focus ==
  \/ Cardinality(About) <= 1 \/ Cardinality(Made) <= 1
  \/ Cardinality(Made) = 2 /\ removing = NoDoc /\ \A d \in Docs : state[d] # "deleted"

FocusedSpec == ListInit /\ [][ListNext /\ Focus']_vars /\ ListFairness
=============================================================================
