--------------------------- MODULE MCPersonMerge ---------------------------
(* Small instances of PersonMerge for TLC. *)
EXTENDS PersonMerge

\* docs/REQUIREMENTS.md:1410-1416 calls merges reversible: "unmerge restores their prior
\* review state plus the captured relationship endpoints and dependent ownership".  What
\* was recorded about a person is found at it, or along the people it was merged into.
RecordsAreRestored == \A r \in Records : RecordFollows(r)

\* A candidate is canceled by a merge only as long as that merge stands.
CandidatesAreRestored == \A c \in Pairs : MarkerStands(c)

=============================================================================
