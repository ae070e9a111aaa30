-------------------------- MODULE StoreTablesProofs --------------------------
(***************************************************************************)
(* What the RunStore tools answer, for every number of tasks and           *)
(* iterations, size of the frontier and number of crashes.                 *)
(***************************************************************************)
EXTENDS StoreTables, FiniteSetTheorems, FunctionTheorems, WellFoundedInduction, TLAPS

IsDb(d) ==
  DOMAIN d = {"begun", "base", "candidates", "evals", "traces", "modified", "artifacts",
              "frontier", "outcomes", "links"}

(* Links and outcomes are of the rows that are there.                       *)
Fresh(d) ==
  /\ \A e \in d.evals :
       /\ <<"candidate", e.it, "eval", <<e.it, e.task>>>> \in d.links
       /\ <<e.it, e.task>> \in d.traces =>
            <<"eval", <<e.it, e.task>>, "trace", <<e.it, e.task>>>> \in d.links
       /\ <<e.it, e.task>> \in traced \X Tasks => <<e.it, e.task>> \in d.traces
  /\ \A i \in d.candidates \ {0} :
       {<<"call", i, "proposal", i>>, <<"proposal", i, "candidate", i>>} \subseteq d.links
  /\ \A o \in d.outcomes : o.counts = Counts(d, o.base, o.it)

Earlier(i) == {j \in DOMAIN result : j <= i}

Shape ==
  /\ IsDb(db) /\ iter \in Nat \ {0}
  /\ pc \in {"begin", "call", "archived", "repaired", "record", "commit", "frontier"}
  /\ 0 \in DOMAIN result /\ DOMAIN result \subseteq 0 .. iter
  /\ \A i \in DOMAIN result : result[i] \subseteq Tasks
  /\ iter \in DOMAIN result => pc \in {"record", "commit", "frontier"}

(* A result has a row of its candidate and the traces of its tasks.         *)
EvalsTraced ==
  /\ \A e \in db.evals : e.it \in db.candidates /\ e.it \in traced /\ e.task \in Tasks
  /\ pc = "commit" => iter \in db.candidates
  /\ pc = "call" => Fresh(db)

(* The rows of the frontier are those of the iterations that ended with a   *)
(* candidate, and each is of the results there were then.                   *)
RowsStable ==
  /\ \A m \in db.frontier : m = <<m[1], m[2]>> /\ m[1] \in DOMAIN result /\ m[1] < iter
  /\ \A i \in DOMAIN result : i < iter =>
       \A x : <<i, x>> \in db.frontier <=> x \in Frontier(result, Earlier(i)) \ {0}

TablesInv == Shape /\ EvalsTraced /\ RowsStable

-----------------------------------------------------------------------------
LEMMA RefreshedFields ==
  ASSUME NEW d, IsDb(d), NEW files, NEW traces
  PROVE  /\ IsDb(Refreshed(d, files, traces))
         /\ Refreshed(d, files, traces).candidates = d.candidates
         /\ Refreshed(d, files, traces).evals = d.evals
         /\ Refreshed(d, files, traces).frontier = d.frontier
         /\ Refreshed(d, files, traces).traces = d.traces \cup (traces \X Tasks)
<1> DEFINE imported == [d EXCEPT !.artifacts = ImportedArtifacts(d, files),
                                 !.traces = @ \cup (traces \X Tasks),
                                 !.modified = @ \cup DOMAIN files]
           r == Refreshed(d, files, traces)
<1>1. /\ DOMAIN imported = DOMAIN d /\ imported.candidates = d.candidates
      /\ imported.evals = d.evals /\ imported.frontier = d.frontier
      /\ imported.traces = d.traces \cup (traces \X Tasks)
  BY DEF IsDb
<1>2. r = [imported EXCEPT !.outcomes = Outcomes(imported), !.links = Links(imported)]
  BY DEF Refreshed
<1> HIDE DEF imported
<1>3. /\ DOMAIN r = DOMAIN imported /\ r.candidates = imported.candidates
      /\ r.evals = imported.evals /\ r.frontier = imported.frontier
      /\ r.traces = imported.traces
  BY <1>1, <1>2 DEF IsDb
<1> QED
  BY <1>1, <1>3 DEF IsDb

LEMMA RefreshedIsFresh ==
  ASSUME IsDb(db), NEW d, IsDb(d), NEW files
  PROVE  Fresh(Refreshed(d, files, traced))
<1> DEFINE imported == [d EXCEPT !.artifacts = ImportedArtifacts(d, files),
                                 !.traces = @ \cup (traced \X Tasks),
                                 !.modified = @ \cup DOMAIN files]
           r == Refreshed(d, files, traced)
<1>1. DOMAIN imported = DOMAIN d
  OBVIOUS
<1>2. r = [imported EXCEPT !.outcomes = Outcomes(imported), !.links = Links(imported)]
  BY DEF Refreshed
<1>3. r.traces = d.traces \cup (traced \X Tasks)
  BY RefreshedFields
<1> HIDE DEF imported, r
<1>4. /\ r.candidates = imported.candidates /\ r.evals = imported.evals
      /\ r.traces = imported.traces
      /\ r.outcomes = Outcomes(imported) /\ r.links = Links(imported)
  BY <1>1, <1>2 DEF IsDb
<1>5. ASSUME NEW e \in r.evals
      PROVE  /\ <<"candidate", e.it, "eval", <<e.it, e.task>>>> \in r.links
             /\ <<e.it, e.task>> \in r.traces =>
                  <<"eval", <<e.it, e.task>>, "trace", <<e.it, e.task>>>> \in r.links
  BY <1>4 DEF Links
<1>6. ASSUME NEW i \in r.candidates \ {0}
      PROVE  <<"call", i, "proposal", i>> \in r.links /\ <<"proposal", i, "candidate", i>> \in r.links
  BY <1>4 DEF Links
<1>7. \A l, i : Counts(imported, l, i) = Counts(r, l, i)
  BY <1>4 DEF Counts, Passed, Failed
<1>8. ASSUME NEW o \in r.outcomes PROVE o.counts = Counts(r, o.base, o.it)
  <2>1. PICK i : o = [it |-> i, base |-> BaseOf(imported, i),
                      counts |-> Counts(imported, BaseOf(imported, i), i)]
    BY <1>4 DEF Outcomes
  <2> QED
    BY <1>7, <2>1
<1> QED
  BY <1>3, <1>5, <1>6, <1>8 DEF Fresh, r

-----------------------------------------------------------------------------
(* The frontier is that of its results                                      *)

LEMMA GreatestElement ==
  ASSUME NEW n \in Nat, NEW D \in SUBSET (0 .. n), D # {}
  PROVE  \E x \in D : \A y \in D : y <= x
<1> DEFINE U == {n - t : t \in D}
<1>1. U \subseteq Nat /\ U # {}
  <2>1. \A t \in D : n - t \in Nat
    OBVIOUS
  <2>2. PICK t \in D : TRUE
    OBVIOUS
  <2>3. n - t \in U
    OBVIOUS
  <2> QED
    BY <2>1, <2>3
<1>2. PICK u \in U : \A v \in U : <<v, u>> \notin OpToRel(<, Nat)
  BY <1>1, NatLessThanWellFounded, WFMin, Zenon
<1>3. \A v \in U : ~ (v < u)
  BY <1>1, <1>2 DEF OpToRel
<1>4. PICK x \in D : u = n - x
  BY <1>2
<1>5. \A y \in D : ~ (n - y < n - x)
  BY <1>3, <1>4
<1> QED
  BY <1>4, <1>5

Better(r, S, i) ==
  {j \in S : Rate(r, j) > Rate(r, i) \/ (Rate(r, j) = Rate(r, i) /\ j > i)}

LEMMA FrontierOfBetter ==
  ASSUME NEW r, NEW S
  PROVE  Frontier(r, S) = {i \in S : Cardinality(Better(r, S, i)) < TopK}
BY DEF Frontier, Better

(* It changes only with the results that it is of.                          *)
LEMMA FrontierStable ==
  ASSUME NEW r, NEW s, NEW S, \A j \in S : r[j] = s[j]
  PROVE  Frontier(r, S) = Frontier(s, S)
<1>1. \A j \in S : Rate(r, j) = Rate(s, j)
  BY DEF Rate
<1>2. ASSUME NEW i \in S PROVE Better(r, S, i) = Better(s, S, i)
  BY <1>1 DEF Better
<1> QED
  BY <1>2, FrontierOfBetter

LEMMA RatesAreNumbers ==
  ASSUME NEW r, NEW i, r[i] \subseteq Tasks
  PROVE  Rate(r, i) \in 0 .. Cardinality(Tasks) /\ Cardinality(Tasks) \in Nat
<1>1. IsFiniteSet(r[i]) /\ Cardinality(r[i]) <= Cardinality(Tasks)
  BY FS_Subset, TasksAssumption
<1> QED
  BY <1>1, FS_CardinalityType, TasksAssumption DEF Rate

(* Of some results there is one that none of them is better than.           *)
LEMMA BestExists ==
  ASSUME NEW r, NEW n \in Nat, NEW S \in SUBSET (0 .. n), S # {},
         \A i \in S : r[i] \subseteq Tasks
  PROVE  \E y \in S : Better(r, S, y) = {}
<1> DEFINE Q == {Rate(r, i) : i \in S}
           c == Cardinality(Tasks)
<1>1. c \in Nat /\ Q \in SUBSET (0 .. c) /\ Q # {}
  BY RatesAreNumbers
<1>2. PICK q \in Q : \A p \in Q : p <= q
  <2> HIDE DEF Q, c
  <2> QED
    BY <1>1, GreatestElement
<1> DEFINE D == {i \in S : Rate(r, i) = q}
<1>3. D \in SUBSET (0 .. n) /\ D # {}
  OBVIOUS
<1>4. PICK y \in D : \A z \in D : z <= y
  <2> HIDE DEF D
  <2> QED
    BY <1>3, GreatestElement
<1>5. ASSUME NEW j \in S PROVE ~ (Rate(r, j) > Rate(r, y) \/ (Rate(r, j) = Rate(r, y) /\ j > y))
  <2>1. Rate(r, y) = q /\ Rate(r, j) \in Q /\ Rate(r, j) <= q
    BY <1>2
  <2>2. q \in 0 .. c /\ Rate(r, j) \in 0 .. c
    BY <1>1, <2>1
  <2>3. Rate(r, j) = q => j <= y
    BY <1>4
  <2>4. j \in Int /\ y \in Int
    OBVIOUS
  <2> HIDE DEF Q, c, D
  <2> QED
    BY <1>1, <2>1, <2>2, <2>3, <2>4
<1> QED
  BY <1>5 DEF Better

LEMMA BetterFinite ==
  ASSUME NEW r, NEW n \in Nat, NEW S \in SUBSET (0 .. n), NEW i
  PROVE  IsFiniteSet(Better(r, S, i)) /\ Cardinality(Better(r, S, i)) \in Nat
<1>1. IsFiniteSet(0 .. n)
  BY FS_Interval
<1>2. Better(r, S, i) \subseteq 0 .. n
  BY DEF Better
<1> QED
  BY <1>1, <1>2, FS_Subset, FS_CardinalityType

(* Once only the seed is on the frontier, it always was.                    *)
LEMMA SeedAloneBefore ==
  ASSUME NEW r, NEW n \in Nat, NEW S \in SUBSET (0 .. n), NEW U \in SUBSET S, 0 \in U,
         \A i \in S : r[i] \subseteq Tasks,
         Frontier(r, S) \subseteq {0}
  PROVE  Frontier(r, U) \subseteq {0}
<1> SUFFICES ASSUME NEW x \in Frontier(r, U), x # 0 PROVE FALSE
  OBVIOUS
<1>1. x \in U /\ Cardinality(Better(r, U, x)) < TopK
  BY FrontierOfBetter
<1> DEFINE P == S \ {0}
<1>2. PICK y \in P : Better(r, P, y) = {}
  <2>1. P \in SUBSET (0 .. n) /\ P # {} /\ \A i \in P : r[i] \subseteq Tasks
    BY <1>1
  <2> HIDE DEF P
  <2> QED
    BY <2>1, BestExists
<1>3. Better(r, S, y) \subseteq {0}
  BY <1>2 DEF Better
<1>4. ~ (Cardinality(Better(r, S, y)) < TopK)
  BY <1>2, FrontierOfBetter
<1>5. CASE Better(r, S, y) = {}
  <2>1. TopK <= 0
    BY <1>4, <1>5, FS_EmptySet, TopKAssumption
  <2>2. Cardinality(Better(r, U, x)) \in Nat
    BY BetterFinite
  <2> QED
    BY <1>1, <2>1, <2>2, TopKAssumption
<1>6. CASE Better(r, S, y) = {0}
  <2>1. TopK <= 1
    <3>1. Cardinality({0}) = 1
      BY FS_Singleton
    <3>2. Cardinality(Better(r, S, y)) = 1
      BY <1>6, <3>1
    <3> QED
      BY <1>4, <3>2, TopKAssumption
  <2>2. 0 \in Better(r, U, x)
    <3>1. x \in P /\ ~ (Rate(r, x) > Rate(r, y) \/ (Rate(r, x) = Rate(r, y) /\ x > y))
      BY <1>1, <1>2 DEF Better
    <3>2. Rate(r, 0) > Rate(r, y) \/ (Rate(r, 0) = Rate(r, y) /\ 0 > y)
      BY <1>6 DEF Better
    <3>3. y \in 0 .. n /\ x \in 0 .. n
      BY <1>1
    <3>4. /\ Rate(r, 0) \in 0 .. Cardinality(Tasks) /\ Rate(r, x) \in 0 .. Cardinality(Tasks)
          /\ Rate(r, y) \in 0 .. Cardinality(Tasks) /\ Cardinality(Tasks) \in Nat
      BY <1>1, <1>2, RatesAreNumbers
    <3>5. Rate(r, 0) > Rate(r, x)
      BY <3>1, <3>2, <3>3, <3>4
    <3> QED
      BY <3>5 DEF Better
  <2>3. Cardinality(Better(r, U, x)) # 0
    BY <2>2, BetterFinite, FS_EmptySet
  <2>4. Cardinality(Better(r, U, x)) \in Nat
    BY BetterFinite
  <2> QED
    BY <1>1, <2>1, <2>3, <2>4, TopKAssumption
<1> QED
  BY <1>3, <1>5, <1>6

-----------------------------------------------------------------------------
(* What the writers leave                                                   *)

LEMMA BegunFields ==
  ASSUME NEW d, IsDb(d), NEW i, NEW b
  PROVE  LET e == BegunIteration(d, i, b)
         IN  /\ IsDb(e) /\ e.candidates = d.candidates /\ e.evals = d.evals
             /\ e.frontier = d.frontier
BY DEF BegunIteration, IsDb

LEMMA CandidateFields ==
  ASSUME NEW d, IsDb(d), NEW i
  PROVE  LET e == RecordedCandidate(d, i)
         IN  /\ IsDb(e) /\ e.candidates = d.candidates \cup {i} /\ e.evals = d.evals
             /\ e.frontier = d.frontier
BY DEF RecordedCandidate, IsDb

LEMMA EvalFields ==
  ASSUME NEW d, IsDb(d), NEW i, NEW passed
  PROVE  LET e == RecordedEval(d, i, passed)
         IN  /\ IsDb(e) /\ e.candidates = d.candidates /\ e.frontier = d.frontier
             /\ \A v \in e.evals : v \in d.evals \/ (v.it = i /\ v.task \in Tasks)
<1> DEFINE rows == {v \in d.evals : v.it # i}
                     \cup {[it |-> i, task |-> t, passed |-> t \in passed] : t \in Tasks}
           e == [d EXCEPT !.evals = rows]
<1>1. RecordedEval(d, i, passed) = e
  BY DEF RecordedEval
<1>2. \A v \in rows : v \in d.evals \/ (v.it = i /\ v.task \in Tasks)
  OBVIOUS
<1> HIDE DEF rows
<1>3. IsDb(e) /\ e.candidates = d.candidates /\ e.frontier = d.frontier /\ e.evals = rows
  BY DEF IsDb
<1> QED
  BY <1>1, <1>2, <1>3

LEMMA UpdatedFields ==
  ASSUME NEW d, IsDb(d), NEW r, NEW n \in Nat, DOMAIN r \in SUBSET (0 .. n), 0 \in DOMAIN r
  PROVE  LET e == UpdatedFrontier(d, r)
         IN  /\ IsDb(e) /\ e.candidates = d.candidates /\ e.evals = d.evals
             /\ \E top \in DOMAIN r :
                  /\ \A j \in DOMAIN r : j <= top
                  /\ top = CHOOSE i \in DOMAIN r : \A j \in DOMAIN r : j <= i
                  /\ e.frontier = {m \in d.frontier : m[1] # top}
                                    \cup ({top} \X (Frontier(r, DOMAIN r) \ {0}))
<1> DEFINE top == CHOOSE i \in DOMAIN r : \A j \in DOMAIN r : j <= i
           rows == {m \in d.frontier : m[1] # top}
                     \cup ({top} \X (Frontier(r, DOMAIN r) \ {0}))
           e == [d EXCEPT !.frontier = rows]
<1>1. \E i \in DOMAIN r : \A j \in DOMAIN r : j <= i
  BY GreatestElement
<1>2. top \in DOMAIN r /\ \A j \in DOMAIN r : j <= top
  BY <1>1
<1>3. UpdatedFrontier(d, r) = e
  BY DEF UpdatedFrontier
<1> HIDE DEF rows
<1>4. IsDb(e) /\ e.candidates = d.candidates /\ e.evals = d.evals /\ e.frontier = rows
  BY DEF IsDb
<1> QED
  BY <1>2, <1>3, <1>4 DEF rows

(* Once the frontier is saved, every iteration that ended with a candidate  *)
(* has its rows.                                                            *)
LEMMA RowsOfAll ==
  ASSUME Shape, RowsStable
  PROVE  LET e == UpdatedFrontier(db, result)
         IN  /\ \A m \in e.frontier : m = <<m[1], m[2]>> /\ m[1] \in DOMAIN result
             /\ \A i \in DOMAIN result : \A x :
                  <<i, x>> \in e.frontier <=> x \in Frontier(result, Earlier(i)) \ {0}
<1> DEFINE e == UpdatedFrontier(db, result)
<1>1. PICK top \in DOMAIN result :
        /\ \A j \in DOMAIN result : j <= top
        /\ e.frontier = {m \in db.frontier : m[1] # top}
                          \cup ({top} \X (Frontier(result, DOMAIN result) \ {0}))
  BY UpdatedFields DEF Shape
<1>2. DOMAIN result \subseteq 0 .. iter /\ iter \in Nat
  BY DEF Shape
<1>3. Earlier(top) = DOMAIN result
  BY <1>1 DEF Earlier
<1>4. \A m \in e.frontier : m = <<m[1], m[2]>> /\ m[1] \in DOMAIN result
  BY <1>1 DEF RowsStable
<1>5. ASSUME NEW i \in DOMAIN result, NEW x
      PROVE  <<i, x>> \in e.frontier <=> x \in Frontier(result, Earlier(i)) \ {0}
  <2>1. CASE i = top
    BY <1>1, <1>3, <2>1
  <2>2. CASE i # top
    <3>1. i < iter
      BY <1>1, <1>2, <2>2
    <3>2. <<i, x>> \in e.frontier <=> <<i, x>> \in db.frontier
      BY <1>1, <2>2
    <3> QED
      BY <3>1, <3>2 DEF RowsStable
  <2> QED
    BY <2>1, <2>2
<1> QED
  BY <1>4, <1>5

-----------------------------------------------------------------------------
(* The invariant                                                            *)

LEMMA TablesInit == Init => TablesInv
<1> SUFFICES ASSUME Init PROVE TablesInv
  OBVIOUS
<1>1. PICK passed \in SUBSET Tasks :
        /\ result = [i \in {0} |-> passed]
        /\ db = UpdatedFrontier(
                  Refreshed(RecordedEval(RecordedCandidate(Empty, 0), 0, passed), <<>>, {0}),
                  result)
  BY DEF Init
<1> DEFINE a == RecordedCandidate(Empty, 0)
           b == RecordedEval(a, 0, passed)
           c == Refreshed(b, <<>>, {0})
<1>2. IsDb(Empty) /\ Empty.candidates = {} /\ Empty.evals = {} /\ Empty.frontier = {}
  BY DEF Empty, IsDb
<1>3. IsDb(a) /\ a.candidates = {0} /\ a.evals = {} /\ a.frontier = {}
  BY <1>2, CandidateFields
<1> HIDE DEF a
<1>4. /\ IsDb(b) /\ b.candidates = {0} /\ b.frontier = {}
      /\ \A v \in b.evals : v.it = 0 /\ v.task \in Tasks
  BY <1>3, EvalFields
<1> HIDE DEF b
<1>5. IsDb(c) /\ c.candidates = {0} /\ c.frontier = {} /\ c.evals = b.evals
  BY <1>4, RefreshedFields
<1>6. db = UpdatedFrontier(c, result)
  BY <1>1 DEF a, b, c
<1> HIDE DEF c
<1>7. /\ DOMAIN result = {0} /\ result[0] \subseteq Tasks /\ iter = 1 /\ pc = "begin"
      /\ traced = {0}
  BY <1>1 DEF Init
<1>8. /\ IsDb(db) /\ db.candidates = c.candidates /\ db.evals = c.evals
      /\ db.frontier = {m \in c.frontier : m[1] # 0}
                         \cup ({0} \X (Frontier(result, {0}) \ {0}))
  <2>1. DOMAIN result \in SUBSET (0 .. 1) /\ 0 \in DOMAIN result /\ 1 \in Nat
    BY <1>7
  <2> QED
    BY <1>5, <1>6, <1>7, <2>1, UpdatedFields
<1>9. db.frontier = {}
  <2>1. Frontier(result, {0}) \ {0} = {}
    BY DEF Frontier
  <2> QED
    BY <1>5, <1>8, <2>1
<1>10. Shape
  BY <1>7, <1>8 DEF Shape
<1>11. EvalsTraced
  BY <1>4, <1>5, <1>7, <1>8 DEF EvalsTraced
<1>12. RowsStable
  <2>1. \A i \in DOMAIN result : Frontier(result, Earlier(i)) \ {0} = {}
    BY <1>7 DEF Frontier, Earlier
  <2> QED
    BY <1>9, <2>1 DEF RowsStable
<1> QED
  BY <1>10, <1>11, <1>12 DEF TablesInv

(* A step that leaves the results and the frontier alone.                   *)
LEMMA RowsKept ==
  ASSUME RowsStable, result' = result, iter' = iter, db'.frontier = db.frontier
  PROVE  RowsStable'
<1>1. \A i : Earlier(i)' = Earlier(i)
  BY DEF Earlier
<1> QED
  BY <1>1 DEF RowsStable, Frontier, Rate

LEMMA BeginStep == TablesInv /\ Begin => TablesInv'
<1> SUFFICES ASSUME TablesInv, Begin PROVE TablesInv'
  OBVIOUS
<1>1. PICK b : db' = Refreshed(BegunIteration(db, iter, b), diff, traced)
  BY DEF Begin
<1>2. /\ pc = "begin" /\ pc' = "call" /\ iter' = iter /\ result' = result /\ traced' = traced
  BY DEF Begin
<1> DEFINE d == BegunIteration(db, iter, b)
<1>3. IsDb(d) /\ d.candidates = db.candidates /\ d.evals = db.evals /\ d.frontier = db.frontier
  BY BegunFields DEF TablesInv, Shape
<1>4. db' = Refreshed(d, diff, traced)
  BY <1>1
<1> HIDE DEF d
<1>5. /\ IsDb(db') /\ db'.candidates = db.candidates /\ db'.evals = db.evals
      /\ db'.frontier = db.frontier
  BY <1>3, <1>4, RefreshedFields
<1>6. Fresh(db')
  BY <1>3, <1>4, RefreshedIsFresh DEF TablesInv, Shape
<1>7. Fresh(db)'
  BY <1>2, <1>6 DEF Fresh, Counts, Passed, Failed
<1>8. Shape'
  BY <1>2, <1>5 DEF TablesInv, Shape, IsDb
<1>9. EvalsTraced'
  BY <1>2, <1>5, <1>7 DEF TablesInv, EvalsTraced
<1>10. RowsStable'
  BY <1>2, <1>5, RowsKept DEF TablesInv
<1> QED
  BY <1>8, <1>9, <1>10 DEF TablesInv

LEMMA ArchiveStep == TablesInv /\ Archive => TablesInv'
<1> SUFFICES ASSUME TablesInv, Archive PROVE TablesInv'
  OBVIOUS
<1>1. /\ db' = Refreshed(db, diff', traced) /\ pc \in {"call", "archived"}
      /\ pc' \in {"archived", "repaired"}
      /\ iter' = iter /\ result' = result /\ traced' = traced
  BY DEF Archive
<1>2. /\ IsDb(db') /\ db'.candidates = db.candidates /\ db'.evals = db.evals
      /\ db'.frontier = db.frontier
  BY <1>1, RefreshedFields DEF TablesInv, Shape
<1>3. Shape'
  BY <1>1, <1>2 DEF TablesInv, Shape, IsDb
<1>4. EvalsTraced'
  BY <1>1, <1>2 DEF TablesInv, EvalsTraced
<1>5. RowsStable'
  BY <1>1, <1>2, RowsKept DEF TablesInv
<1> QED
  BY <1>3, <1>4, <1>5 DEF TablesInv

LEMMA FailStep == TablesInv /\ Fail => TablesInv'
<1> SUFFICES ASSUME TablesInv, Fail PROVE TablesInv'
  OBVIOUS
<1>1. /\ pc' = "frontier" /\ iter' = iter /\ result' = result /\ traced' = traced /\ db' = db
  BY DEF Fail
<1>2. Shape'
  BY <1>1 DEF TablesInv, Shape, IsDb
<1>3. EvalsTraced'
  BY <1>1 DEF TablesInv, EvalsTraced
<1>4. RowsStable'
  BY <1>1, RowsKept DEF TablesInv
<1> QED
  BY <1>2, <1>3, <1>4 DEF TablesInv

(* The result is of the current iteration, and the rows are of earlier ones. *)
LEMMA ScoreStep == TablesInv /\ Score => TablesInv'
<1> SUFFICES ASSUME TablesInv, Score PROVE TablesInv'
  OBVIOUS
<1>1. PICK passed \in SUBSET Tasks :
        result' = [i \in DOMAIN result \cup {iter} |-> IF i = iter THEN passed ELSE result[i]]
  BY DEF Score
<1>2. /\ pc \in {"archived", "repaired"} /\ pc' = "record" /\ iter' = iter
      /\ traced' = traced /\ db' = db
  BY DEF Score
<1>3. /\ iter \in Nat \ {0} /\ DOMAIN result \subseteq 0 .. iter /\ iter \notin DOMAIN result
      /\ 0 \in DOMAIN result /\ \A i \in DOMAIN result : result[i] \subseteq Tasks
  BY <1>2 DEF TablesInv, Shape
<1>4. DOMAIN result' = DOMAIN result \cup {iter}
  BY <1>1
<1>5. \A i \in DOMAIN result : result'[i] = result[i]
  BY <1>1, <1>3
<1>6. result'[iter] \subseteq Tasks
  BY <1>1
<1>7. Shape'
  <2>1. DOMAIN result' \subseteq 0 .. iter
    BY <1>3, <1>4
  <2>2. \A i \in DOMAIN result' : result'[i] \subseteq Tasks
    BY <1>3, <1>4, <1>5, <1>6
  <2> QED
    BY <1>2, <1>3, <1>4, <2>1, <2>2 DEF TablesInv, Shape, IsDb
<1>8. EvalsTraced'
  BY <1>2 DEF TablesInv, EvalsTraced
<1>9. ASSUME NEW i \in DOMAIN result', i < iter
      PROVE  /\ i \in DOMAIN result /\ Earlier(i)' = Earlier(i)
             /\ Frontier(result', Earlier(i)') = Frontier(result, Earlier(i))
  <2>1. i \in DOMAIN result
    BY <1>3, <1>4, <1>9
  <2>2. Earlier(i)' = Earlier(i)
    BY <1>3, <1>4, <1>9, <2>1 DEF Earlier
  <2>3. \A j \in Earlier(i) : result'[j] = result[j]
    BY <1>5 DEF Earlier
  <2> QED
    BY <2>1, <2>2, <2>3, FrontierStable
<1>10. RowsStable'
  <2>1. \A m \in db'.frontier : m = <<m[1], m[2]>> /\ m[1] \in DOMAIN result' /\ m[1] < iter'
    BY <1>2, <1>4 DEF TablesInv, RowsStable
  <2>2. ASSUME NEW i \in DOMAIN result', i < iter', NEW x
        PROVE  <<i, x>> \in db'.frontier <=> x \in Frontier(result', Earlier(i)') \ {0}
    BY <1>2, <1>9, <2>2 DEF TablesInv, RowsStable
  <2> QED
    BY <2>1, <2>2 DEF RowsStable
<1> QED
  BY <1>7, <1>8, <1>10 DEF TablesInv

LEMMA RecordStep == TablesInv /\ Record => TablesInv'
<1> SUFFICES ASSUME TablesInv, Record PROVE TablesInv'
  OBVIOUS
<1>1. /\ db' = Refreshed(RecordedCandidate(db, iter), diff, traced) /\ pc' = "commit"
      /\ iter' = iter /\ result' = result /\ traced' = traced
  BY DEF Record
<1> DEFINE d == RecordedCandidate(db, iter)
<1>2. /\ IsDb(d) /\ d.candidates = db.candidates \cup {iter} /\ d.evals = db.evals
      /\ d.frontier = db.frontier
  BY CandidateFields DEF TablesInv, Shape
<1>3. db' = Refreshed(d, diff, traced)
  BY <1>1
<1> HIDE DEF d
<1>4. /\ IsDb(db') /\ db'.candidates = db.candidates \cup {iter} /\ db'.evals = db.evals
      /\ db'.frontier = db.frontier
  BY <1>2, <1>3, RefreshedFields
<1>5. Shape'
  BY <1>1, <1>4 DEF TablesInv, Shape, IsDb
<1>6. EvalsTraced'
  BY <1>1, <1>4 DEF TablesInv, EvalsTraced
<1>7. RowsStable'
  BY <1>1, <1>4, RowsKept DEF TablesInv
<1> QED
  BY <1>5, <1>6, <1>7 DEF TablesInv

LEMMA CommitStep == TablesInv /\ Commit => TablesInv'
<1> SUFFICES ASSUME TablesInv, Commit PROVE TablesInv'
  OBVIOUS
<1>1. /\ db' = Refreshed(RecordedEval(db, iter, result[iter]), diff, traced')
      /\ pc = "commit" /\ pc' = "frontier" /\ traced' = traced \cup {iter}
      /\ iter' = iter /\ result' = result
  BY DEF Commit
<1> DEFINE d == RecordedEval(db, iter, result[iter])
<1>2. /\ IsDb(d) /\ d.candidates = db.candidates /\ d.frontier = db.frontier
      /\ \A v \in d.evals : v \in db.evals \/ (v.it = iter /\ v.task \in Tasks)
  BY EvalFields DEF TablesInv, Shape
<1>3. db' = Refreshed(d, diff, traced')
  BY <1>1
<1> HIDE DEF d
<1>4. /\ IsDb(db') /\ db'.candidates = db.candidates /\ db'.evals = d.evals
      /\ db'.frontier = db.frontier
  BY <1>2, <1>3, RefreshedFields
<1>5. Shape'
  BY <1>1, <1>4 DEF TablesInv, Shape, IsDb
<1>6. EvalsTraced'
  BY <1>1, <1>2, <1>4 DEF TablesInv, EvalsTraced
<1>7. RowsStable'
  BY <1>1, <1>4, RowsKept DEF TablesInv
<1> QED
  BY <1>5, <1>6, <1>7 DEF TablesInv

(* Saving the frontier, with the iteration that follows the last result or  *)
(* a later one as the next.                                                 *)
LEMMA SavedFrontier ==
  ASSUME TablesInv, db' = UpdatedFrontier(db, result), result' = result, traced' = traced,
         pc' = "begin", iter' \in Nat \ {0}, \A j \in DOMAIN result : j < iter'
  PROVE  TablesInv'
<1>1. IsDb(db') /\ db'.candidates = db.candidates /\ db'.evals = db.evals
  BY UpdatedFields DEF TablesInv, Shape
<1>2. /\ \A m \in db'.frontier : m = <<m[1], m[2]>> /\ m[1] \in DOMAIN result
      /\ \A i \in DOMAIN result : \A x :
           <<i, x>> \in db'.frontier <=> x \in Frontier(result, Earlier(i)) \ {0}
  BY RowsOfAll DEF TablesInv
<1>3. Shape'
  <2>1. DOMAIN result \subseteq 0 .. iter'
    BY DEF TablesInv, Shape
  <2>2. iter' \notin DOMAIN result
    OBVIOUS
  <2> QED
    BY <1>1, <2>1, <2>2 DEF TablesInv, Shape, IsDb
<1>4. EvalsTraced'
  BY <1>1 DEF TablesInv, EvalsTraced
<1>5. RowsStable'
  <2>1. \A i : Earlier(i)' = Earlier(i)
    BY DEF Earlier
  <2>2. \A m \in db'.frontier : m = <<m[1], m[2]>> /\ m[1] \in DOMAIN result' /\ m[1] < iter'
    BY <1>2
  <2>3. ASSUME NEW i \in DOMAIN result', NEW x
        PROVE  <<i, x>> \in db'.frontier <=> x \in Frontier(result', Earlier(i)') \ {0}
    BY <1>2, <2>1
  <2> QED
    BY <2>2, <2>3 DEF RowsStable
<1> QED
  BY <1>3, <1>4, <1>5 DEF TablesInv

LEMMA SaveFrontierStep == TablesInv /\ SaveFrontier => TablesInv'
<1> SUFFICES ASSUME TablesInv, SaveFrontier PROVE TablesInv'
  OBVIOUS
<1>1. /\ db' = UpdatedFrontier(db, result) /\ iter' = iter + 1 /\ pc' = "begin"
      /\ result' = result /\ traced' = traced
  BY DEF SaveFrontier
<1>2. iter' \in Nat \ {0} /\ \A j \in DOMAIN result : j < iter'
  BY <1>1 DEF TablesInv, Shape
<1> QED
  BY <1>1, <1>2, SavedFrontier

LEMMA RelaunchStep == TablesInv /\ Relaunch => TablesInv'
<1> SUFFICES ASSUME TablesInv, Relaunch PROVE TablesInv'
  OBVIOUS
<1> DEFINE last == CHOOSE i \in DOMAIN result : \A j \in DOMAIN result : j <= i
<1>1. /\ db' = UpdatedFrontier(db, result) /\ iter' = 1 + last /\ pc' = "begin"
      /\ result' = result /\ traced' = traced
  BY DEF Relaunch
<1>2. DOMAIN result \subseteq 0 .. iter /\ iter \in Nat /\ 0 \in DOMAIN result
  BY DEF TablesInv, Shape
<1>3. \E i \in DOMAIN result : \A j \in DOMAIN result : j <= i
  BY <1>2, GreatestElement
<1>4. last \in DOMAIN result /\ \A j \in DOMAIN result : j <= last
  BY <1>3
<1> HIDE DEF last
<1>5. iter' \in Nat \ {0} /\ \A j \in DOMAIN result : j < iter'
  BY <1>1, <1>2, <1>4
<1> QED
  BY <1>1, <1>5, SavedFrontier

LEMMA TablesStep == TablesInv /\ [Next]_vars => TablesInv'
<1> SUFFICES ASSUME TablesInv, [Next]_vars PROVE TablesInv'
  OBVIOUS
<1>1. CASE UNCHANGED vars
  BY <1>1 DEF vars, TablesInv, Shape, EvalsTraced, RowsStable, IsDb, Fresh, Counts, Passed,
              Failed, Earlier, Frontier, Rate
<1>2. CASE Done
  BY <1>2 DEF Done, vars, TablesInv, Shape, EvalsTraced, RowsStable, IsDb, Fresh, Counts,
              Passed, Failed, Earlier, Frontier, Rate
<1> QED
  BY <1>1, <1>2, BeginStep, ArchiveStep, FailStep, ScoreStep, RecordStep, CommitStep,
     SaveFrontierStep, RelaunchStep DEF Next

LEMMA TablesAlways == Spec => []TablesInv
<1> QED
  BY TablesInit, TablesStep, PTL DEF Spec

-----------------------------------------------------------------------------
(* From a result that was recorded the links that an agent follows lead to  *)
(* its candidate, its proposal and its trace, in every iteration and        *)
(* however often the run was resumed (_rebuild_links).                      *)
THEOREM ChainsAreComplete == Spec => []ChainComplete
<1>1. TablesInv => ChainComplete
  <2> SUFFICES ASSUME TablesInv, pc = "call", NEW e \in db.evals
               PROVE  /\ <<"candidate", e.it, "eval", <<e.it, e.task>>>> \in db.links
                      /\ <<"eval", <<e.it, e.task>>, "trace", <<e.it, e.task>>>>
                           \in TaskChain(db, e.task)
                      /\ e.it # 0 => {<<"call", e.it, "proposal", e.it>>,
                                      <<"proposal", e.it, "candidate", e.it>>} \subseteq db.links
    BY DEF ChainComplete
  <2>1. Fresh(db) /\ e.it \in db.candidates /\ e.it \in traced /\ e.task \in Tasks
    BY DEF TablesInv, EvalsTraced
  <2>2. <<e.it, e.task>> \in traced \X Tasks
    BY <2>1
  <2>3. <<"eval", <<e.it, e.task>>, "trace", <<e.it, e.task>>>> \in db.links
    BY <2>1, <2>2 DEF Fresh
  <2>4. <<"eval", <<e.it, e.task>>, "trace", <<e.it, e.task>>>> \in TaskChain(db, e.task)
    BY <2>3 DEF TaskChain
  <2> QED
    BY <2>1, <2>4 DEF Fresh
<1> QED
  BY <1>1, TablesAlways, PTL

(* A finite set has a subset of every size up to its own.                   *)
LEMMA SubsetOfSize ==
  ASSUME NEW S, IsFiniteSet(S), NEW k \in Nat, k <= Cardinality(S)
  PROVE  \E listed \in SUBSET S : Cardinality(listed) = k
<1>1. Cardinality(S) \in Nat /\ ExistsBijection(1 .. Cardinality(S), S)
  BY FS_CardinalityType
<1>2. PICK f \in Bijection(1 .. Cardinality(S), S) : TRUE
  BY <1>1, Fun_ExistsBij
<1> DEFINE listed == {f[j] : j \in 1 .. k}
<1>3. /\ f \in [1 .. Cardinality(S) -> S]
      /\ \A x, y \in 1 .. Cardinality(S) : f[x] = f[y] => x = y
  BY <1>2 DEF Bijection, Injection, IsInjective
<1>4. 1 .. k \subseteq 1 .. Cardinality(S)
  BY <1>1
<1>5. listed \in SUBSET S
  BY <1>3, <1>4
<1> DEFINE g == [j \in 1 .. k |-> f[j]]
<1>6. g \in Bijection(1 .. k, listed)
  <2>1. g \in [1 .. k -> listed]
    OBVIOUS
  <2>2. \A x, y \in 1 .. k : g[x] = g[y] => x = y
    BY <1>3, <1>4
  <2>3. \A t \in listed : \E x \in 1 .. k : g[x] = t
    OBVIOUS
  <2> HIDE DEF g, listed
  <2> QED
    BY <2>1, <2>2, <2>3, Fun_IsBij
<1>7. Cardinality(listed) = k
  <2>1. ExistsBijection(1 .. k, listed)
    <3> HIDE DEF g, listed
    <3> QED
      BY <1>6, Fun_ExistsBij
  <2> HIDE DEF listed
  <2> QED
    BY <2>1, FS_CountingElements
<1> QED
  BY <1>5, <1>7

(* What a cut list holds.                                                   *)
LEMMA CutIsFull ==
  ASSUME NEW S \in SUBSET Tasks
  PROVE  Cut(S) \subseteq S /\ AsCounted(Cut(S), Cardinality(S))
<1>1. IsFiniteSet(S) /\ Cardinality(S) \in Nat
  BY TasksAssumption, FS_Subset, FS_CardinalityType
<1>2. CASE Cardinality(S) <= MaxExamples
  BY <1>2 DEF Cut, AsCounted
<1>3. CASE ~ (Cardinality(S) <= MaxExamples)
  <2>1. MaxExamples \in Nat /\ MaxExamples <= Cardinality(S)
    BY <1>1, <1>3, MaxExamplesAssumption
  <2>2. \E listed \in SUBSET S : Cardinality(listed) = MaxExamples
    BY <1>1, <2>1, SubsetOfSize
  <2>3. Cut(S) = CHOOSE listed \in SUBSET S : Cardinality(listed) = MaxExamples
    BY <1>3 DEF Cut
  <2>4. Cut(S) \in SUBSET S /\ Cardinality(Cut(S)) = MaxExamples
    BY <2>2, <2>3
  <2> QED
    BY <1>3, <2>4 DEF AsCounted
<1> QED
  BY <1>2, <1>3

(* What an agent is told of a proposal agrees with itself: the tasks listed *)
(* as won and lost against its base, each of them one, are as many as its   *)
(* outcome counts or fill the list (_rebuild_proposal_outcomes and          *)
(* runstore_link_explain_proposal).                                         *)
THEOREM ExplanationsAgree == Spec => []ExplainAgrees
<1>1. TablesInv => ExplainAgrees
  <2> SUFFICES ASSUME TablesInv, pc = "call", NEW i, NEW e \in Explained(db, i)
               PROVE  /\ AsCounted(e.breakthroughs, e.outcome.counts.better)
                      /\ AsCounted(e.regressions, e.outcome.counts.worse)
                      /\ \A t \in e.breakthroughs :
                           Failed(db, e.outcome.base, t) /\ Passed(db, i, t)
                      /\ \A t \in e.regressions :
                           Passed(db, e.outcome.base, t) /\ Failed(db, i, t)
    BY DEF ExplainAgrees
  <2>1. PICK o \in {p \in db.outcomes : p.it = i} :
          e = [outcome |-> o, breakthroughs |-> Cut(Breakthroughs(db, o.base, i)),
               regressions |-> Cut(Regressions(db, o.base, i))]
    BY DEF Explained
  <2>2. o.it = i /\ o.counts = Counts(db, o.base, i)
    BY <2>1 DEF TablesInv, EvalsTraced, Fresh
  <2> DEFINE won  == Breakthroughs(db, o.base, i)
             lost == Regressions(db, o.base, i)
  <2>3. /\ Counts(db, o.base, i).better = Cardinality(won)
        /\ Counts(db, o.base, i).worse = Cardinality(lost)
    BY DEF Counts, Breakthroughs, Regressions
  <2>4. won \in SUBSET Tasks /\ lost \in SUBSET Tasks
    BY DEF Breakthroughs, Regressions
  <2>5. /\ \A t \in won : Failed(db, o.base, t) /\ Passed(db, i, t)
        /\ \A t \in lost : Passed(db, o.base, t) /\ Failed(db, i, t)
    BY DEF Breakthroughs, Regressions
  <2> HIDE DEF won, lost
  <2>6. /\ Cut(won) \subseteq won /\ AsCounted(Cut(won), Cardinality(won))
        /\ Cut(lost) \subseteq lost /\ AsCounted(Cut(lost), Cardinality(lost))
    BY <2>4, CutIsFull
  <2>7. e.outcome = o /\ e.breakthroughs = Cut(won) /\ e.regressions = Cut(lost)
    BY <2>1 DEF won, lost
  <2> QED
    BY <2>2, <2>3, <2>5, <2>6, <2>7
<1> QED
  BY <1>1, TablesAlways, PTL

(* The frontier as of an iteration: its own rows, or none at all.           *)
LEMMA FrontierAsOf ==
  ASSUME TablesInv, NEW i \in DOMAIN result, i < iter
  PROVE  StateFrontier(db, i) = Frontier(result, Earlier(i)) \ {0}
<1> DEFINE F == Frontier(result, Earlier(i)) \ {0}
           known == {m[1] : m \in {n \in db.frontier : n[1] <= i}}
<1>1. /\ DOMAIN result \subseteq 0 .. iter /\ iter \in Nat /\ 0 \in DOMAIN result
      /\ \A j \in DOMAIN result : result[j] \subseteq Tasks
  BY DEF TablesInv, Shape
<1>2. \A m \in db.frontier : m = <<m[1], m[2]>> /\ m[1] \in DOMAIN result /\ m[1] < iter
  BY DEF TablesInv, RowsStable
<1>3. \A x : <<i, x>> \in db.frontier <=> x \in F
  BY DEF TablesInv, RowsStable
<1>4. StateFrontier(db, i)
        = {m[2] : m \in {n \in db.frontier : n[1] \in known /\ \A k \in known : k <= n[1]}}
  BY DEF StateFrontier
<1>5. CASE F = {}
  <2>1. Frontier(result, Earlier(i)) \subseteq {0}
    BY <1>5
  <2>2. ASSUME NEW m \in db.frontier, m[1] <= i PROVE FALSE
    <3>1. m[1] \in DOMAIN result /\ m[1] < iter /\ m = <<m[1], m[2]>>
      BY <1>2
    <3>2. m[2] \in Frontier(result, Earlier(m[1])) \ {0}
      BY <3>1 DEF TablesInv, RowsStable
    <3>3. /\ Earlier(i) \in SUBSET (0 .. iter) /\ Earlier(m[1]) \in SUBSET Earlier(i)
          /\ 0 \in Earlier(m[1]) /\ \A j \in Earlier(i) : result[j] \subseteq Tasks
      BY <1>1, <2>2, <3>1 DEF Earlier
    <3>4. Frontier(result, Earlier(m[1])) \subseteq {0}
      BY <1>1, <2>1, <3>3, SeedAloneBefore
    <3> QED
      BY <3>2, <3>4
  <2>3. known = {}
    BY <2>2
  <2> QED
    BY <1>4, <1>5, <2>3
<1>6. CASE F # {}
  <2>1. i \in known
    <3>1. PICK x \in F : TRUE
      BY <1>6
    <3>2. <<i, x>> \in db.frontier /\ <<i, x>>[1] = i /\ i <= i
      BY <1>1, <1>3
    <3> QED
      BY <3>2
  <2>2. \A k \in known : k <= i
    OBVIOUS
  <2>3. \A k \in known : k \in 0 .. iter
    BY <1>1, <1>2
  <2> HIDE DEF known, F
  <2>4. \A n \in db.frontier : (n[1] \in known /\ \A k \in known : k <= n[1]) <=> n[1] = i
    BY <1>1, <2>1, <2>2, <2>3
  <2>5. {m[2] : m \in {n \in db.frontier : n[1] = i}} = F
    <3> DEFINE rows == {n \in db.frontier : n[1] = i}
    <3>1. \A x \in F : <<i, x>> \in rows /\ <<i, x>>[2] = x
      BY <1>3
    <3>2. \A m \in rows : m[2] \in F
      BY <1>2, <1>3
    <3> HIDE DEF rows
    <3>3. {m[2] : m \in rows} = F
      BY <3>1, <3>2
    <3> QED
      BY <3>3 DEF rows
  <2>6. StateFrontier(db, i) = {m[2] : m \in {n \in db.frontier : n[1] = i}}
    BY <1>4, <2>4
  <2> QED
    BY <2>5, <2>6 DEF F
<1> QED
  BY <1>5, <1>6

(* The frontier as of an earlier iteration is always the best of the        *)
(* results up to it, whatever iterations after it left none and however     *)
(* often the run was resumed (update_frontier, runstore_fact_state).        *)
THEOREM HistoryIsStable == Spec => []HistoryStable
<1>1. TablesInv => HistoryStable
  <2> SUFFICES ASSUME TablesInv, NEW i \in 1 .. iter - 1, i \in DOMAIN result
               PROVE  /\ StateFrontier(db, i)
                           = Frontier(result, {j \in DOMAIN result : j <= i}) \ {0}
                      /\ i + 1 \in (1 .. iter - 1) \ DOMAIN result =>
                           StateFrontier(db, i + 1) = StateFrontier(db, i)
    BY DEF HistoryStable
  <2>1. iter \in Nat /\ DOMAIN result \subseteq 0 .. iter
    BY DEF TablesInv, Shape
  <2>2. i < iter
    BY <2>1
  <2>3. StateFrontier(db, i) = Frontier(result, {j \in DOMAIN result : j <= i}) \ {0}
    BY <2>2, FrontierAsOf DEF Earlier
  <2>4. ASSUME i + 1 \notin DOMAIN result
        PROVE  StateFrontier(db, i + 1) = StateFrontier(db, i)
    <3>1. ASSUME NEW m \in db.frontier PROVE m[1] <= i + 1 <=> m[1] <= i
      <4>1. m[1] \in DOMAIN result
        BY DEF TablesInv, RowsStable
      <4>2. m[1] \in 0 .. iter /\ m[1] # i + 1
        BY <2>1, <2>4, <4>1
      <4> QED
        BY <2>1, <4>2
    <3> QED
      BY <3>1 DEF StateFrontier
  <2> QED
    BY <2>3, <2>4
<1> QED
  BY <1>1, TablesAlways, PTL
=============================================================================
