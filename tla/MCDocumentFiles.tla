--------------------------- MODULE MCDocumentFiles ---------------------------
(* Instances of DocumentFiles, with its history, for TLC. *)
EXTENDS FileHistory, TLC

\* Bound: owners meet only over contents they share, and contents only in the
\* caps of one owner.  Either all upload the same contents, of which it only
\* matters whether they fit in the cap, or one owner uploads what it likes,
\* under one suffix.
PresentContents == {c \in Contents : Present(c)}
PresentOwners == {o \in Owners : DocsOf(o) # {} \/ \E r \in Active : OwnerOf(r) = o}
Focus ==
  \/ /\ \E c \in {Min(Contents), Max(Contents)} : PresentContents \subseteq {c}
     /\ \A q, r \in Active : OwnerOf(q) = OwnerOf(r) => q = r
  \/ /\ Cardinality(PresentOwners) <= 1
     /\ \A f, g \in named : f[2] = g[2]
     /\ abandoned = {} /\ raced = {}

FocusedSpec == HistoryInit /\ [][HistoryNext /\ Focus']_<<vars, history>>

\* Ids, owners, slots and suffixes are interchangeable (contents are not:
\* they have sizes).
Symmetry == Permutations(Docs) \cup Permutations(Owners)
              \cup Permutations(Slots) \cup Permutations(FileSuffixes)
=============================================================================
