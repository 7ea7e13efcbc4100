---------------------------- MODULE PersonMerge ----------------------------
(***************************************************************************)
(* Merges of people and their reversal (src/modules/people/service.ts).    *)
(* A merge moves what belongs to the loser to the winner and keeps, in a   *)
(* decision, what it needs to give it back: the identifiers of the moved   *)
(* records, the endpoints of the relationships it redirected, and the      *)
(* review state of the identity candidates it canceled.                    *)
(*                                                                         *)
(* A merge holds the workspace's advisory lock and the rows of both people *)
(* from beginning to end; only reviews of candidates come between its      *)
(* reads and its writes, so these are two actions.  Every other action is  *)
(* one transaction.  Facts stand for the records a person may select,      *)
(* names for the others: identifiers, events, notes, contacts, addresses.  *)
(* Tags, which an unmerge takes back only from the winner, are left out.   *)
(***************************************************************************)
EXTENDS Naturals, FiniteSets

CONSTANTS
  People,
  Facts,         \* each of a field of its own
  Names,
  Edges,         \* rows of relationships
  SelfEdges,     \* those whose type allows an edge from a person to itself
  Pairs,         \* pairs of people that may be candidates for one identity
  None,          \* SQL NULL
  MaxMerges,     \* bound: merges
  MaxRows        \* bound: records, relationships and candidates together

PersonMergeAssumption ==
  /\ Facts \cap Names = {}
  /\ SelfEdges \subseteq Edges
  /\ Pairs \subseteq {P \in SUBSET People : Cardinality(P) = 2}
  /\ None \notin People \cup Names
  /\ MaxMerges \in Nat /\ MaxRows \in Nat

VARIABLES
  person,     \* person[p]: a row of people; into is set while it is merged
  owner,      \* owner[r]: person_id of a fact or a name, None before its creation
  selected,   \* the facts that person_field_selections of their owner point to
  edge,       \* edge[e]: the endpoints of a relationship
  candidate,  \* candidate[c]: a row of identity_candidates; by: the merge in its marker
  decision,   \* decision[p]: the merge decision that made p a loser
  merges,     \* the merges made so far
  merging,    \* a merge between its reads and its writes
  home, ends, \* history: whose the records and endpoints were when created
  crossed     \* history: what went through two merges of which the earlier was undone first

records == <<owner, selected, edge, home, ends>>
vars == <<person, records, candidate, decision, merges, merging, crossed>>

-----------------------------------------------------------------------------

Records == Facts \cup Names
NoEnds == [source |-> None, target |-> None]
Ends == [source : People, target : People]

\* A review that is under way counts as pending, one that has accepted as rejected.
Candidate == [state : {"absent", "pending", "rejected", "cancelled"}, by : 0..MaxMerges]

NoDecision == [id |-> 0]
Decisions == [id : 1..MaxMerges, name : Names \cup {None}, facts : SUBSET Facts,
              names : SUBSET Names, edges : UNION {[S -> Ends] : S \in SUBSET Edges},
              seen : UNION {[S -> Candidate] : S \in SUBSET Pairs}]

Init ==
  /\ person = [p \in People |-> [into |-> None, name |-> None]]
  /\ owner = [r \in Records |-> None] /\ home = owner
  /\ selected = {}
  /\ edge = [e \in Edges |-> NoEnds] /\ ends = edge
  /\ candidate = [c \in Pairs |-> [state |-> "absent", by |-> 0]]
  /\ decision = [p \in People |-> NoDecision]
  /\ merges = 0
  /\ merging = None
  /\ crossed = {}

Merged(p) == person[p].into # None

\* The people whose rows a merge has locked: nobody else writes them, or a row that
\* refers to them.
Locked == IF merging = None THEN {} ELSE {merging.winner, merging.loser}

Room ==
  Cardinality({r \in Records : owner[r] # None}) + Cardinality({e \in Edges : edge[e] # NoEnds})
    + Cardinality({c \in Pairs : candidate[c].state # "absent"}) < MaxRows

-----------------------------------------------------------------------------
(* Records, relationships and candidates. *)

\* createFact, createName and the like; whether p is merged is not asked.
CreateRecord(r, p) ==
  /\ owner[r] = None /\ Room
  /\ p \notin Locked
  /\ owner' = [owner EXCEPT ![r] = p]
  /\ home' = [home EXCEPT ![r] = p]
  /\ UNCHANGED <<person, selected, edge, candidate, decision, merges, merging, ends, crossed>>

\* selectField of the fact's owner.  Nothing takes a selection away.
SelectField(f) ==
  /\ owner[f] # None
  /\ owner[f] \notin Locked
  /\ selected' = selected \cup {f}
  /\ UNCHANGED <<person, owner, edge, candidate, decision, merges, merging, home, ends, crossed>>

\* selectPresentation: one of the person's names, or none.
SelectPresentation(p, n) ==
  /\ n # None => owner[n] = p
  /\ p \notin Locked
  /\ person' = [person EXCEPT ![p].name = n]
  /\ UNCHANGED <<records, candidate, decision, merges, merging, crossed>>

SelfAllowed(e, x) == x.source = x.target => e \in SelfEdges

CreateEdge(e, x) ==
  /\ edge[e] = NoEnds /\ Room
  /\ SelfAllowed(e, x)
  /\ \A p \in {x.source, x.target} : ~Merged(p) /\ p \notin Locked
  /\ edge' = [edge EXCEPT ![e] = x]
  /\ ends' = [ends EXCEPT ![e] = x]
  /\ UNCHANGED <<person, owner, selected, candidate, decision, merges, merging, home, crossed>>

\* generateIdentityCandidates; an existing row is left as it is.
GenerateCandidate(c) ==
  /\ candidate[c].state = "absent" /\ Room
  /\ \A p \in c : ~Merged(p) /\ p \notin Locked
  /\ candidate' = [candidate EXCEPT ![c].state = "pending"]
  /\ UNCHANGED <<person, records, decision, merges, merging, crossed>>

\* reviewIdentityCandidate, which shares no lock with a merge and takes a
\* candidate in any state.
ReviewCandidate(c, s) ==
  /\ candidate[c].state # "absent"
  /\ candidate' = [candidate EXCEPT ![c] = [state |-> s, by |-> 0]]
  /\ UNCHANGED <<person, records, decision, merges, merging, crossed>>

-----------------------------------------------------------------------------
(* merge *)

CandidatesOf(p) == {c \in Pairs : p \in c /\ candidate[c].state # "absent"}

MergeReads(w, l) ==
  /\ merging = None
  /\ merges < MaxMerges
  /\ w # l
  /\ ~Merged(w) /\ ~Merged(l)
  /\ merging' = [winner |-> w, loser |-> l,
                 seen |-> [c \in CandidatesOf(l) |-> candidate[c]]]
  /\ UNCHANGED <<person, records, candidate, decision, merges, crossed>>

\* Mutant: only the edges that start at the loser.
EdgesOfMutant(p) == {e \in Edges : edge[e].source = p}

EdgesOf(p) == {e \in Edges : p \in {edge[e].source, edge[e].target}}

Redirected(x, l, w) ==
  [source |-> IF x.source = l THEN w ELSE x.source,
   target |-> IF x.target = l THEN w ELSE x.target]

Movable(l) == {f \in Facts \ selected : owner[f] = l}

MergeWrites ==
  LET l == merging.loser
      w == merging.winner
      id == merges + 1
      names == {n \in Names : owner[n] = l} IN
    /\ merging # None
    /\ \A e \in EdgesOf(l) : SelfAllowed(e, Redirected(edge[e], l, w))
    /\ person' = [person EXCEPT ![l] = [into |-> w, name |-> None]]
    /\ owner' = [r \in Records |-> IF r \in Movable(l) \cup names THEN w ELSE owner[r]]
    /\ edge' = [e \in Edges |->
                  IF e \in EdgesOf(l) THEN Redirected(edge[e], l, w) ELSE edge[e]]
    /\ candidate' = [c \in Pairs |-> IF c \in DOMAIN merging.seen
                                       THEN [state |-> "cancelled", by |-> id]
                                       ELSE candidate[c]]
    /\ decision' = [decision EXCEPT ![l] =
         [id |-> id, name |-> person[l].name, facts |-> Movable(l), names |-> names,
          edges |-> [e \in EdgesOf(l) |-> edge[e]], seen |-> merging.seen]]
    /\ merges' = id
    /\ merging' = None
    /\ UNCHANGED <<selected, home, ends, crossed>>

\* The trigger refuses an edge from the winner to itself, or a statement fails.
MergeFails ==
  /\ merging # None
  /\ merging' = None
  /\ UNCHANGED <<person, records, candidate, decision, merges, crossed>>

-----------------------------------------------------------------------------
(* unmerge *)

\* The foreign keys of selections and presentations: a record that its present
\* owner has selected or presents cannot be taken from it.
Taken(p, d) ==
  \/ \E f \in d.facts \cap selected : owner[f] # p
  \/ \E q \in People \ {p} : person[q].name \in d.names

\* Mutant: only the facts.
ReturnedMutant(d) == d.facts

\* What goes back to the loser, whoever owns it now.
Returned(d) == d.facts \cup d.names

\* Mutant: the candidates that the merge canceled are left as they are.
RestoredMutant(c, d) == candidate[c]

Restored(c, d) ==
  IF c \in DOMAIN d.seen /\ candidate[c] = [state |-> "cancelled", by |-> d.id]
    THEN d.seen[c] ELSE candidate[c]

\* History: what a later merge that still stands has moved on, or the marker that it
\* has read, when this one is undone.
Crossing(d) ==
  {r \in Returned(d) : \E q \in People : decision[q].id > d.id /\ r \in Returned(decision[q])}
    \cup {e \in DOMAIN d.edges : \E q \in People :
            decision[q].id > d.id /\ e \in DOMAIN decision[q].edges}
    \cup {c \in Pairs : \E q \in People :
            decision[q].id > d.id /\ c \in DOMAIN decision[q].seen
              /\ decision[q].seen[c].by = d.id}

\* Merges are undone in any order.
Unmerge(p) ==
  LET d == decision[p] IN
    /\ merging = None
    /\ Merged(p)
    /\ ~Taken(p, d)
    /\ edge' = [e \in Edges |-> IF e \in DOMAIN d.edges THEN d.edges[e] ELSE edge[e]]
    /\ owner' = [r \in Records |-> IF r \in Returned(d) THEN p ELSE owner[r]]
    /\ candidate' = [c \in Pairs |-> Restored(c, d)]
    /\ person' = [person EXCEPT ![p] = [into |-> None, name |-> d.name]]
    /\ decision' = [decision EXCEPT ![p] = NoDecision]
    /\ crossed' = crossed \cup Crossing(d)
    /\ UNCHANGED <<selected, home, ends, merges, merging>>

-----------------------------------------------------------------------------

Next ==
  \/ \E p \in People : \/ \E r \in Records : CreateRecord(r, p)
                       \/ \E n \in Names \cup {None} : SelectPresentation(p, n)
                       \/ \E w \in People : MergeReads(w, p)
                       \/ Unmerge(p)
  \/ \E f \in Facts : SelectField(f)
  \/ \E e \in Edges, x \in Ends : CreateEdge(e, x)
  \/ \E c \in Pairs : \/ GenerateCandidate(c)
                      \/ \E s \in {"pending", "rejected", "cancelled"} : ReviewCandidate(c, s)
  \/ MergeWrites \/ MergeFails

Spec == Init /\ [][Next]_vars

-----------------------------------------------------------------------------
(* Properties. *)

\* Every variable has the shape of its rows; who is merged has a decision.
TypeOK ==
  /\ person \in [People -> [into : People \cup {None}, name : Names \cup {None}]]
  /\ owner \in [Records -> People \cup {None}] /\ home \in [Records -> People \cup {None}]
  /\ selected \subseteq Facts
  /\ edge \in [Edges -> Ends \cup {NoEnds}] /\ ends \in [Edges -> Ends \cup {NoEnds}]
  /\ candidate \in [Pairs -> Candidate]
  /\ \A p \in People : decision[p] \in (IF Merged(p) THEN Decisions ELSE {NoDecision})
  /\ merges \in 0..MaxMerges
  /\ crossed \subseteq Records \cup Edges \cup Pairs

Into == [p \in People |-> person[p].into]

\* What every set has that has p and, with a person, the one it was merged into.
Reach(into, p) ==
  {q \in People : \A S \in SUBSET People :
     p \in S /\ (\A x \in S : into[x] # None => into[x] \in S) => q \in S}

\* The person and those it was merged into, one after the other.
Successors(p) == Reach(Into, p)

\* Who stands for p: the one of them that is not merged.
Survivor(p) == {q \in Successors(p) : ~Merged(q)}

RecordFollows(r) == owner[r] # None => owner[r] \in Successors(home[r])

EdgeFollows(e) ==
  edge[e] # NoEnds => /\ edge[e].source \in Survivor(ends[e].source)
                      /\ edge[e].target \in Survivor(ends[e].target)

\* The merge in a candidate's marker stands.
MarkerStands(c) == candidate[c].by # 0 => \E p \in c : decision[p].id = candidate[c].by

\* In whatever order merges are undone, what was recorded about a person is found at
\* it, or along the people it was merged into; an edge ends at the one that stands for
\* the person.  In particular a person that is not, or no longer, merged has all that
\* is its own.  The exception is what two merges have moved one after the other when
\* the earlier of them was undone first.
RecordsFollow ==
  /\ \A r \in Records \ crossed : RecordFollows(r)
  /\ \A e \in Edges \ crossed : EdgeFollows(e)

\* In whatever order merges are undone, a candidate is marked as canceled by a merge
\* only as long as that merge stands; the exception is a candidate whose marker a
\* later merge has read when the marker's own merge was undone.
CandidatesComeBack == \A c \in Pairs \ crossed : MarkerStands(c)

-----------------------------------------------------------------------------
(* The inductive invariant of RequestsProofs. *)

\* The mergers that stood when the merge k was made.
Before(k) ==
  [p \in People |-> IF decision[p].id \in 1..(k - 1) THEN person[p].into ELSE None]

\* A merge has an id of its own, and joined two people that stood for themselves.
MergesOK ==
  /\ decision \in [People -> Decisions \cup {NoDecision}]
  /\ \A p \in People : Merged(p) =>
       LET w == person[p].into
           id == decision[p].id IN
         /\ id <= merges
         /\ w # p /\ Before(id)[w] = None
         /\ \A q \in People : decision[q].id = id => q = p

\* Before a merge k, a candidate that a merge has canceled has that merge in its marker.
Marked(c, x, k) ==
  x.by # 0 =>
    /\ x.state = "cancelled" /\ x.by < k
    /\ \E p \in c : decision[p].id = x.by /\ c \in DOMAIN decision[p].seen

Seen == UNION {[S -> Candidate] : S \in SUBSET Pairs}

\* What a merge has read.
ReadsOK ==
  merging # None =>
    /\ merging \in [winner : People, loser : People, seen : Seen]
    /\ merging.winner # merging.loser
    /\ ~Merged(merging.winner) /\ ~Merged(merging.loser)
    /\ merges < MaxMerges
    /\ \A c \in DOMAIN merging.seen :
         merging.loser \in c /\ (c \notin crossed => Marked(c, merging.seen[c], merges + 1))

CandidatesOK ==
  /\ \A c \in Pairs \ crossed : Marked(c, candidate[c], merges + 1)
  /\ \A p \in People : Merged(p) =>
       LET d == decision[p] IN
         \A c \in DOMAIN d.seen : p \in c /\ (c \notin crossed => Marked(c, d.seen[c], d.id))

\* What a merge would give back is what has gone beyond its loser.
RecordsOK ==
  /\ \A r \in Records \ crossed : owner[r] # None => home[r] # None
  /\ \A p \in People, r \in Records \ crossed : Merged(p) =>
       LET before == Reach(Before(decision[p].id), home[r]) IN
         IF r \in Returned(decision[p])
           THEN owner[r] # None /\ p \in before /\ owner[r] \notin before
           ELSE owner[r] # None /\ p \in before => owner[r] \in before

\* The one that stands for p.
StandsFor(into, q, p) == q \in Reach(into, p) /\ into[q] = None

\* What a merge would give back of the relationships are all that touched its loser,
\* as they were.
EdgesOK ==
  /\ \A e \in Edges \ crossed : edge[e] # NoEnds => ends[e] # NoEnds
  /\ \A p \in People, e \in Edges \ crossed : Merged(p) =>
       LET before == Before(decision[p].id)
           d == decision[p] IN
         IF e \in DOMAIN d.edges
           THEN /\ edge[e] # NoEnds
                /\ StandsFor(before, d.edges[e].source, ends[e].source)
                /\ StandsFor(before, d.edges[e].target, ends[e].target)
           ELSE edge[e] # NoEnds =>
                /\ p \notin Reach(before, ends[e].source)
                /\ p \notin Reach(before, ends[e].target)

IInv ==
  /\ TypeOK /\ MergesOK /\ ReadsOK /\ CandidatesOK /\ RecordsOK /\ EdgesOK
  /\ RecordsFollow

=============================================================================
