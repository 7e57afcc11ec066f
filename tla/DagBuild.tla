------------------------------- MODULE DagBuild -------------------------------
(* The DAG of the stages (pipeline/dag): the daemon registers its stages,    *)
(* each with the list of what it requires, and Dag::build puts them in an    *)
(* order or refuses.  A stage is a number, in the order of the names.        *)
EXTENDS Integers, Sequences, FiniteSets

CONSTANTS
  StageNames,    \* what a stage may be called
  RequireLists,  \* what a stage may require: sequences of names
  MaxRegistered  \* bound: stages that are registered

VARIABLES
  registered, \* the stages in the order of their registration: name, requires
  building,   \* "registering", "sorting", "built", or the error
  inDegree,   \* stage -> requirements that have not been taken yet
  ready,      \* stages without any
  order       \* the stages that have been taken

dagVars == <<registered, building, inDegree, ready, order>>

ASSUME DagBuildAssumption ==
  /\ StageNames \subseteq Nat /\ IsFiniteSet(StageNames) /\ MaxRegistered \in Nat
  /\ RequireLists \subseteq Seq(Nat)

Entries == {registered[n] : n \in DOMAIN registered}
Registered == {s.name : s \in Entries}
(* Of two stages with one name, build never asks what they require.          *)
Requires(s) == (CHOOSE x \in Entries : x.name = s).requires
RequiredBy(s) == {Requires(s)[n] : n \in DOMAIN Requires(s)}
Ordered == {order[n] : n \in DOMAIN order}

DgInit ==
  /\ registered = <<>> /\ building = "registering"
  /\ inDegree = <<>> /\ ready = {} /\ order = <<>>

RegisterStage(name, requires) ==
  /\ building = "registering" /\ Len(registered) < MaxRegistered
  /\ registered' = Append(registered, [name |-> name, requires |-> requires])
  /\ UNCHANGED <<building, inDegree, ready, order>>

DuplicateStage == Cardinality(Registered) # Len(registered)
UnknownDependency == \E s \in Entries : \E n \in DOMAIN s.requires : s.requires[n] \notin Registered
(* An in-degree counts the list, whatever it repeats.                        *)
BuildBegins ==
  /\ building = "registering"
  /\ IF DuplicateStage \/ UnknownDependency
     THEN /\ building' = IF DuplicateStage THEN "DuplicateStage" ELSE "UnknownDependency"
          /\ UNCHANGED <<inDegree, ready>>
     ELSE /\ building' = "sorting"
          /\ inDegree' = [s \in Registered |-> Len(Requires(s))]
          /\ ready' = {s \in Registered : Len(Requires(s)) = 0}
  /\ UNCHANGED <<registered, order>>

\* Mutant: the last of the stages that are ready comes first.
LeastIsLast(S) == {s \in S : \A t \in S : s >= t}
Least(S) == {s \in S : \A t \in S : s <= t}
\* Mutant: a stage is ready as soon as one of its requirements has been taken.
TakeReadyEarly ==
  /\ building = "sorting"
  /\ \E name \in Least(ready) :
       LET waiting == {s \in Registered : name \in RequiredBy(s)}
       IN  /\ order' = Append(order, name)
           /\ inDegree' = [s \in Registered |-> IF s \in waiting THEN inDegree[s] - 1 ELSE inDegree[s]]
           /\ ready' = (ready \ {name}) \cup (waiting \ Ordered)
  /\ UNCHANGED <<registered, building>>
TakeReady ==
  /\ building = "sorting"
  /\ \E name \in Least(ready) :
       LET waiting == {s \in Registered : name \in RequiredBy(s)}
       IN  /\ order' = Append(order, name)
           /\ inDegree' = [s \in Registered |-> IF s \in waiting THEN inDegree[s] - 1 ELSE inDegree[s]]
           /\ ready' = (ready \ {name}) \cup {s \in waiting : inDegree[s] = 1}
  /\ UNCHANGED <<registered, building>>
BuildEnds ==
  /\ building = "sorting" /\ ready = {}
  /\ building' = IF Len(order) = Cardinality(Registered) THEN "built" ELSE "Cycle"
  /\ UNCHANGED <<registered, inDegree, ready, order>>

DgNext ==
  \/ \E name \in StageNames, requires \in RequireLists : RegisterStage(name, requires)
  \/ BuildBegins \/ TakeReady \/ BuildEnds
DgSpec == DgInit /\ [][DgNext]_dagVars

-----------------------------------------------------------------------------
DgTypeOK ==
  /\ registered \in Seq([name : StageNames, requires : RequireLists])
  /\ building \in {"registering", "sorting", "built", "DuplicateStage", "UnknownDependency", "Cycle"}
  /\ order \in Seq(Registered) /\ ready \subseteq Registered
  /\ building \in {"sorting", "built", "Cycle"} => inDegree \in [Registered -> Nat]

(* What Pipeline takes for granted of its Order: whatever is taken comes     *)
(* behind all that it requires, and is taken once.                           *)
OrderSound ==
  /\ \A n \in DOMAIN order : \A s \in RequiredBy(order[n]) : \E m \in 1 .. n - 1 : order[m] = s
  /\ \A n, m \in DOMAIN order : order[n] = order[m] => n = m

(* The names decide, not the registration: a stage before another one whose  *)
(* name comes first is there for something that the other one requires.      *)
NamesDecide ==
  \A n \in DOMAIN order : \A m \in n + 1 .. Len(order) :
    order[n] < order[m] \/ \E k \in n .. m - 1 : order[k] \in RequiredBy(order[m])

Repeats(s) == Cardinality(RequiredBy(s)) < Len(Requires(s))
(* A ring: each of its stages requires one of them.                          *)
Ring(S) == S # {} /\ \A s \in S : RequiredBy(s) \cap S # {}

(* A build succeeds with all stages in the one order that the names decide,  *)
(* however they were registered, and fails to sort for a reason: stages that *)
(* wait for each other, or a stage that lists a requirement twice, which     *)
(* waits for ever.                                                           *)
BuildSound ==
  /\ NamesDecide
  /\ building = "built" => Ordered = Registered /\ \A s \in Registered : ~Repeats(s)
  /\ building = "Cycle" =>
       (\E S \in SUBSET Registered : Ring(S)) \/ (\E s \in Registered : Repeats(s))

(* Observed: a stage that requires one stage twice is reported as a cycle.   *)
CycleMeansCycle == building = "Cycle" => \E S \in SUBSET Registered : Ring(S)
=============================================================================
