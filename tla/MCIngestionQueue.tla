-------------------------- MODULE MCIngestionQueue --------------------------
(* Instances of IngestionQueue for TLC. *)
EXTENDS IngestionQueue, TLC

\* Rows, workers and requests are interchangeable: sound for the runs that
\* check no liveness.
Symmetry == Permutations(Docs) \cup Permutations(Jobs)
              \cup Permutations(Workers) \cup Permutations(Requests)

\* For liveness, fewer behaviours stand for the same: ids that were never used
\* are interchangeable, so the next is taken.
NextDoc == CHOOSE d \in Docs : doc[d].status = "absent"
NextJob == CHOOSE j \in Jobs : job[j] = NoRow
InOrder ==
  /\ \A d \in Docs : doc[d].status = "absent" /\ doc'[d].status # "absent" => d = NextDoc
  /\ \A j \in Jobs : job[j] = NoRow /\ job'[j] # NoRow => j = NextJob

\* Bound on the users: documents meet in the workers, requests over one
\* document; a second document takes one job of each.
Used == Cardinality({j \in Jobs : job[j] # NoRow}) + Cardinality({r \in Requests : req[r] # Idle})
Focus == Cardinality({d \in Docs : doc[d].status # "absent"}) <= 1 \/ Used <= 2

FocusedSpec == Init /\ [][Next /\ InOrder /\ Focus']_vars /\ Fairness
=============================================================================
