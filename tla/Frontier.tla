------------------------------ MODULE Frontier ------------------------------
(***************************************************************************)
(* Candidates and the quality frontier (pareto.py, schemas.py and the      *)
(* ranking helpers of optimizer.py).                                       *)
(*                                                                         *)
(* A candidate is identified by the iteration that proposed it and by its  *)
(* name: the program builds candidate_id as iter<NNN>_<name>_top<k>.       *)
(* Iteration 0 holds the seed scaffolds, whose ids carry no iter prefix.   *)
(* A passrate is a number of passed tasks: every candidate of a run is     *)
(* scored on the same examples, so the counts order like the ratios.       *)
(***************************************************************************)
EXTENDS Integers, FiniteSets

CONSTANTS
  Iterations,   \* config.iterations
  MaxPassed,    \* number of examples of the split
  Names,        \* candidate names, numbered in string order
  Sources,      \* contents of project_source/ a candidate may be made of
  CleanSource,  \* the scaffold as shipped, which the seeds run
  TopK,         \* FRONTIER_TOP_K
  SeedIdsLast   \* do seed ids sort after "iter..." as strings?

ASSUME IterationsAssumption == Iterations \in Nat
ASSUME MaxPassedAssumption  == MaxPassed \in Nat
ASSUME NamesAssumption      == Names \subseteq Nat
ASSUME TopKAssumption       == TopK \in Nat \ {0}
ASSUME SourceAssumption     == CleanSource \notin Sources
ASSUME SeedIdsAssumption    == SeedIdsLast \in BOOLEAN

Passrates == 0 .. MaxPassed

Candidate ==
  [it : 0 .. Iterations, name : Names, src : Sources \cup {CleanSource},
   rate : Passrates]

IsSeed(c) == c.it = 0

SameId(c, d) == c.it = d.it /\ c.name = d.name

(* candidate_id a > candidate_id b, as Python compares the two strings. *)
IdAfter(a, b) ==
  CASE a.it = b.it           -> a.name > b.name
    [] IsSeed(a)             -> SeedIdsLast
    [] IsSeed(b)             -> ~SeedIdsLast
    [] OTHER                 -> a.it > b.it

(* The two stable sorts of pareto_frontier: passrate first, then the id. *)
RanksAbove(a, b) ==
  \/ a.rate > b.rate
  \/ a.rate = b.rate /\ IdAfter(a, b)

QualityFrontier(S) ==
  {c \in S : Cardinality({d \in S : RanksAbove(d, c)}) < TopK}

(* A passrate beats the best of S, which counts as 0.0 when S is empty. *)
Beats(r, S) == IF S = {} THEN r > 0 ELSE \A c \in S : r > c.rate

Seeds(S) == {c \in S : IsSeed(c)}

Completed(S) == {c.it : c \in S} \ {0}
=============================================================================
