----------------------------- MODULE SearchIndex -----------------------------
(***************************************************************************)
(* The search document of one fact beside the writes that it depends on:   *)
(* the fact's creation and revision, the change of its definition          *)
(* (src/modules/facts/service.ts), and the reindexing of the workspace     *)
(* (src/modules/search/indexer.ts).                                        *)
(*                                                                         *)
(* All of them are transactions at READ COMMITTED: one action per          *)
(* statement, which sees what was committed when it began and what its own *)
(* transaction has written.  A statement that changes a row waits for a    *)
(* transaction that has changed it.                                        *)
(***************************************************************************)
EXTENDS Naturals

CONSTANTS
  Clients,     \* connections to the database
  Operations,  \* what they do, out of Kinds
  MaxClock,    \* bound on the clock when a transaction begins
  None

Kinds == {"create", "createUnlocked", "revise", "define", "reindex"}

VARIABLES
  fact,        \* the committed row of facts; version 0 if there is none
  def,         \* the committed row of its fact definition
  doc,         \* the committed row of search_documents for the fact
  tx,          \* tx[c]: the transaction of client c
  clock,
  unsure       \* history: what changed the rows last had been overtaken

vars == <<fact, def, doc, tx, clock, unsure>>

-----------------------------------------------------------------------------

\* stamp is updated_at.
Fact == [version : Nat, stamp : Nat]
Def == [version : Nat, active : BOOLEAN, stamp : Nat]

\* of: the version of the definition whose label it holds; id: the row itself.
Doc == [version : Nat, of : Nat, stamp : Nat, id : Nat]

SearchIndexAssumption ==
  /\ Operations \subseteq Kinds /\ MaxClock \in Nat
  /\ None \notin Fact \cup Def \cup Doc

Phases == {"idle", "fact", "definition", "write", "list", "check", "load", "aim",
           "delete", "insert", "commit"}

\* seen: the version that the client expects or has listed; fact and def are the
\* rows as this transaction has written them.  beside is history: a write that no lock
\* keeps apart from this transaction has been committed since it began.
Tx == [kind : Kinds, phase : Phases, id : Nat, seen : Nat, version : Nat,
       fact : Fact \cup {None}, def : Def \cup {None}, loaded : Doc \cup {None},
       target : Doc \cup {None}, deleted : Doc \cup {None}, inserted : Doc \cup {None},
       beside : BOOLEAN]

Idle == [kind |-> "define", phase |-> "idle", id |-> 0, seen |-> 0, version |-> 0,
         fact |-> None, def |-> None, loaded |-> None, target |-> None,
         deleted |-> None, inserted |-> None,
         beside |-> FALSE]

Init ==
  /\ fact = [version |-> 0, stamp |-> 0]
  /\ def = [version |-> 1, active |-> TRUE, stamp |-> 0]
  /\ doc = None
  /\ tx = [c \in Clients |-> Idle]
  /\ clock = 0
  /\ unsure = FALSE

tables == <<fact, def, doc>>

At(c, ph) == tx[c].phase = ph
Others(c) == Clients \ {c}
Goto(c, ph) == tx' = [tx EXCEPT ![c].phase = ph]
Rollback(c) == tx' = [tx EXCEPT ![c] = Idle]

-----------------------------------------------------------------------------
(* The writes. *)

FirstPhase(kind) ==
  CASE kind = "revise" -> "fact"
    [] kind = "reindex" -> "check"
    [] kind = "createUnlocked" -> "write"
    [] OTHER -> "definition"

\* The reads before the transaction: the version to be revised, the listing of
\* reindexWorkspace, and for a creation without an idempotency key the definition,
\* whose lock ends with its statement.
Begin(c, kind) ==
  /\ At(c, "idle")
  /\ clock < MaxClock
  /\ kind \in {"create", "createUnlocked"} => fact.version = 0
  /\ kind \in {"revise", "reindex"} => fact.version > 0
  /\ kind = "createUnlocked" => def.active
  /\ clock' = clock + 1
  /\ tx' = [tx EXCEPT ![c] =
       [Idle EXCEPT !.kind = kind, !.phase = FirstPhase(kind), !.id = clock + 1,
                    !.seen = IF kind = "define" THEN def.version ELSE fact.version,
                    !.version = fact.version]]
  /\ UNCHANGED <<tables, unsure>>

\* getFactForUpdate, or CONFLICT.
HoldsFact(o) == tx[o].kind = "revise" /\ tx[o].phase \notin {"idle", "fact"}

LockFact(c) ==
  /\ At(c, "fact")
  /\ \A o \in Others(c) : ~HoldsFact(o)
  /\ IF fact.version = tx[c].seen THEN Goto(c, "definition") ELSE Rollback(c)
  /\ UNCHANGED <<tables, clock, unsure>>

\* Mutant: only the change of a definition locks it.
HoldsDefinitionMutant(o) == tx[o].def # None

HoldsDefinition(o) ==
  /\ tx[o].kind \in {"create", "revise", "define"}
  /\ tx[o].phase \notin {"idle", "fact", "definition"}

DefinitionIsFree(c) == \A o \in Others(c) : ~HoldsDefinition(o)

\* getDefinitionForUpdate, which refuses a definition that is not active.
LockDefinition(c) ==
  /\ At(c, "definition")
  /\ tx[c].kind # "define"
  /\ DefinitionIsFree(c)
  /\ IF def.active THEN Goto(c, "write") ELSE Rollback(c)
  /\ UNCHANGED <<tables, clock, unsure>>

\* createFact and updateFactIfVersion.  The time is taken here under the locks, and
\* before the transaction without them.  Another creation makes another fact: this
\* one stays with the first.
WriteFact(c) ==
  /\ At(c, "write")
  /\ LET stamp == IF tx[c].kind = "createUnlocked" THEN tx[c].id ELSE clock + 1 IN
       /\ clock' = IF tx[c].kind = "createUnlocked" THEN clock ELSE clock + 1
       /\ IF tx[c].kind # "revise" /\ \E o \in Clients : fact.version > 0 \/ tx[o].fact # None
            THEN Rollback(c)
            ELSE tx' = [tx EXCEPT ![c].fact = [version |-> tx[c].seen + 1, stamp |-> stamp],
                                  ![c].version = tx[c].seen + 1,
                                  ![c].phase = "check"]
  /\ UNCHANGED <<tables, unsure>>

\* updateDefinitionIfVersion, with the time taken before the transaction.
WriteDefinition(c) ==
  /\ At(c, "definition")
  /\ tx[c].kind = "define"
  /\ DefinitionIsFree(c)
  /\ IF def.version # tx[c].seen THEN Rollback(c)
     ELSE \E active \in BOOLEAN :
            tx' = [tx EXCEPT ![c].phase = "list",
                             ![c].def = [version |-> def.version + 1, active |-> active,
                                         stamp |-> tx[c].id]]
  /\ UNCHANGED <<tables, clock, unsure>>

-----------------------------------------------------------------------------
(* createSearchIndexMaintenance.apply, one statement after the other. *)

FactOf(c) == IF tx[c].fact # None THEN tx[c].fact ELSE fact
DefOf(c) == IF tx[c].def # None THEN tx[c].def ELSE def
DocOf(c) ==
  CASE tx[c].inserted # None -> tx[c].inserted
    [] tx[c].inserted = None /\ doc = tx[c].deleted -> None
    [] OTHER -> doc

\* Mutant: a changed definition refreshes nothing else.
DependentsMutant(c) == {}

\* dependentMutations of a definition: the fact, at the version committed by now.
Dependents(c) == IF fact.version > 0 THEN {fact.version} ELSE {}

List(c) ==
  /\ At(c, "list")
  /\ IF Dependents(c) = {} THEN Goto(c, "commit")
     ELSE \E v \in Dependents(c) : tx' = [tx EXCEPT ![c].version = v, ![c].phase = "check"]
  /\ UNCHANGED <<tables, clock, unsure>>

\* STALE: the index already has a later version.
Check(c) ==
  /\ At(c, "check")
  /\ IF DocOf(c) # None /\ DocOf(c).version > tx[c].version
       THEN Goto(c, "commit") ELSE Goto(c, "load")
  /\ UNCHANGED <<tables, clock, unsure>>

\* loadContributions: nothing for another version or an inactive definition.
Load(c) ==
  /\ At(c, "load")
  /\ LET f == FactOf(c)
         d == DefOf(c)
     IN tx' = [tx EXCEPT ![c].phase = "aim", ![c].loaded =
          IF f.version = tx[c].version /\ d.active
          THEN [version |-> f.version, of |-> d.version, id |-> tx[c].id,
                stamp |-> IF f.stamp > d.stamp THEN f.stamp ELSE d.stamp]
          ELSE None]
  /\ UNCHANGED <<tables, clock, unsure>>

\* The delete begins: the row it has in sight.
Aim(c) ==
  /\ At(c, "aim")
  /\ tx' = [tx EXCEPT ![c].phase = "delete", ![c].target = DocOf(c)]
  /\ UNCHANGED <<tables, clock, unsure>>

\* It waits for a transaction that has deleted this row, and then has lost it.
Delete(c) ==
  /\ At(c, "delete")
  /\ tx[c].target # None => \A o \in Others(c) : tx[o].deleted # tx[c].target
  /\ tx' = [tx EXCEPT ![c].phase = "insert",
                      ![c].deleted = IF tx[c].target = doc THEN doc ELSE None]
  /\ UNCHANGED <<tables, clock, unsure>>

\* search_documents_workspace_source_chunk_unique: waits for a transaction whose
\* row is in the way, and fails on one that has been committed.
Insert(c) ==
  /\ At(c, "insert")
  /\ \/ /\ tx[c].loaded = None
        /\ Goto(c, "commit")
     \/ /\ tx[c].loaded # None
        /\ \A o \in Others(c) :
             tx[o].inserted = None /\ (doc # None => tx[o].deleted # doc)
        /\ IF DocOf(c) # None THEN Rollback(c)
           ELSE tx' = [tx EXCEPT ![c].phase = "commit", ![c].inserted = tx[c].loaded]
  /\ UNCHANGED <<tables, clock, unsure>>

\* History: this commit changes a row under the transaction of o, which only the lock
\* on the definition would keep from it.
Overtakes(c, o) ==
  /\ ~At(o, "idle")
  /\ tx[c].fact # None \/ tx[c].def # None
  /\ {tx[c].kind, tx[o].kind} \cap {"createUnlocked", "reindex"} # {}

Commit(c) ==
  /\ At(c, "commit")
  /\ fact' = FactOf(c)
  /\ def' = DefOf(c)
  /\ doc' = DocOf(c)
  /\ tx' = [o \in Clients |->
       IF o = c THEN Idle ELSE [tx[o] EXCEPT !.beside = @ \/ Overtakes(c, o)]]
  /\ unsure' = (tx[c].beside /\ (unsure \/ tables' # tables))
  /\ UNCHANGED clock

-----------------------------------------------------------------------------

Next ==
  \E c \in Clients :
    \/ \E kind \in Operations : Begin(c, kind)
    \/ LockFact(c) \/ LockDefinition(c) \/ WriteFact(c) \/ WriteDefinition(c)
    \/ List(c) \/ Check(c) \/ Load(c) \/ Aim(c) \/ Delete(c) \/ Insert(c) \/ Commit(c)

Spec == Init /\ [][Next]_vars

-----------------------------------------------------------------------------
(* Properties. *)

\* Every variable has the shape of its row, and a row is only deleted or written in
\* a transaction.
TypeOK ==
  /\ fact \in Fact /\ def \in Def /\ doc \in Doc \cup {None}
  /\ tx \in [Clients -> Tx]
  /\ \A c \in Clients : At(c, "idle") => tx[c] = Idle
  /\ clock \in Nat /\ unsure \in BOOLEAN

\* The conditions of a search: the version is current, the definition active, and
\* neither was updated after what the document was made from.
Found ==
  /\ doc # None /\ def.active
  /\ doc.version = fact.version
  /\ fact.stamp <= doc.stamp /\ def.stamp <= doc.stamp

\* Whatever runs beside what: unless the last change was made by a transaction that
\* another write, kept apart by no lock, had overtaken, every fact with an active
\* definition is found, and with the current label of its definition.  So a search
\* misses nothing after writes that take the lock, and one write or reindexing that
\* nothing overtakes makes good what others have left.
IndexFollows == ~unsure /\ fact.version > 0 /\ def.active => Found /\ doc.of = def.version

-----------------------------------------------------------------------------
(* The inductive invariant of RequestsProofs. *)

\* The document x is the one that the index owes to a fact and its definition.
Right(f, d, x) ==
  f.version > 0 /\ d.active =>
    /\ x # None /\ x.version = f.version /\ x.of = d.version
    /\ f.stamp <= x.stamp /\ d.stamp <= x.stamp

\* No document is of a version that its fact does not have yet.
NotAhead(f, x) == x # None => x.version <= f.version

\* Two transactions never hold the lock on the definition, or on the fact.
OneAtATime ==
  \A c \in Clients : \A o \in Others(c) :
    ~(HoldsDefinition(c) /\ HoldsDefinition(o)) /\ ~(HoldsFact(c) /\ HoldsFact(o))

\* A revision keeps the version it has locked, and the first creation is the only one.
FactIsHeld(s) ==
  /\ s.kind = "revise" =>
       s.seen > 0 /\ (s.phase \notin {"idle", "fact"} => fact.version = s.seen)
  /\ s.kind \in {"create", "createUnlocked"} =>
       s.seen = 0 /\ (s.fact # None => fact.version = 0)
  /\ s.fact # None => /\ s.kind \in {"create", "createUnlocked", "revise"}
                       /\ s.fact.version = s.seen + 1

OneWritesTheFact ==
  \A c \in Clients : \A o \in Others(c) : ~(tx[c].fact # None /\ tx[o].fact # None)

\* What a transaction has written by each of its statements.
Stages(c) ==
  LET s == tx[c] IN
    /\ s.phase = "definition" => s.kind \in {"create", "revise", "define"}
    /\ s.phase = "fact" => s.kind = "revise"
    /\ s.phase = "write" => s.kind \in {"create", "createUnlocked", "revise"}
    /\ s.phase \in {"idle", "fact", "definition", "write"} => s.fact = None /\ s.def = None
    /\ s.phase = "list" => s.kind = "define" /\ s.fact = None
    /\ s.def # None => s.kind = "define"
    /\ s.phase \notin {"insert", "commit"} => s.deleted = None
    /\ s.phase # "commit" => s.inserted = None
    /\ s.phase \in {"aim", "delete", "insert"} => NotAhead(FactOf(c), s.loaded)
    /\ NotAhead(FactOf(c), s.inserted)

\* What no write has overtaken brings the document that the index will owe.
Progress(c) ==
  LET s == tx[c] IN ~s.beside =>
    /\ s.phase \in {"check", "load"} => FactOf(c).version = s.version /\ s.version > 0
    /\ s.phase \in {"aim", "delete", "insert"} => Right(FactOf(c), DefOf(c), s.loaded)
    /\ s.phase = "commit" => Right(FactOf(c), DefOf(c), s.inserted)

IInv ==
  /\ TypeOK /\ NotAhead(fact, doc) /\ (~unsure => Right(fact, def, doc))
  /\ OneAtATime /\ OneWritesTheFact
  /\ \A c \in Clients : FactIsHeld(tx[c]) /\ Stages(c) /\ Progress(c)

=============================================================================
