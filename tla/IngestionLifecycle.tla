------------------------- MODULE IngestionLifecycle -------------------------
(***************************************************************************)
(* What ingestion promises the owner of a document, without workers, jobs, *)
(* heartbeats or retries: a submitted document is worked on until it is    *)
(* ready or failed, stays so until its owner acts, and never comes back    *)
(* once removed.  Chunks are written before the success is recorded, and   *)
(* in between the work may still be done again.                            *)
(***************************************************************************)
CONSTANT Docs
VARIABLE state

Init == state = [d \in Docs |-> "absent"]

Become(d, from, to) ==
  /\ state[d] \in from
  /\ state' = [state EXCEPT ![d] = to]

Submit(d)   == Become(d, {"absent"}, "working")
Write(d)    == Become(d, {"working"}, "written")
Redo(d)     == Become(d, {"written"}, "working")
Record(d)   == Become(d, {"written"}, "ready")
GiveUp(d)   == Become(d, {"working", "written"}, "failed")
Resubmit(d) == Become(d, {"failed"}, "working")
Remove(d)   == Become(d, {"working", "written", "ready", "failed"}, "deleted")

Next == \E d \in Docs :
  \/ Submit(d) \/ Write(d) \/ Redo(d) \/ Record(d)
  \/ GiveUp(d) \/ Resubmit(d) \/ Remove(d)

\* What no step may do.
Safety == Init /\ [][Next]_state

\* However often the work is redone, it comes to an end.
Spec == Safety /\ \A d \in Docs : WF_state(Record(d) \/ GiveUp(d))
=============================================================================
