------------------------- MODULE ContextPolicyProofs -------------------------
(***************************************************************************)
(* What a proposer is shown of the run's history, for every selection      *)
(* policy, number of iterations, size of the ranking and number of crashes.*)
(***************************************************************************)
EXTENDS ContextPolicy, Integers, FiniteSetTheorems, WellFoundedInduction, TLAPS

IsLedger(l) ==
  \E torn, total, history, reads, ranked :
    /\ torn \in BOOLEAN /\ total \in Nat
    /\ l = [torn |-> torn, total |-> total, history |-> history, reads |-> reads,
            policy |-> ranked]

(* The part of the type of the state that the arguments below need.         *)
Shape ==
  /\ policy \in Policies /\ forced \in Forced
  /\ pc \in {"next", "policy", "proposing", "update", "down"}
  /\ iteration \in Nat \ {0}
  /\ stored \in [1..Iterations -> 0..MaxRate + 1]
  /\ IsLedger(ledger)
  /\ lost \in BOOLEAN /\ crashes \in Nat

(* The iteration at hand is later than all that have a candidate.           *)
Latest ==
  /\ pc \in {"next", "policy", "proposing"} => \A n \in Completed : n < iteration
  /\ pc \in {"policy", "proposing", "update"} => iteration \in 1..Iterations
  /\ pc = "update" => \A n \in Completed : n <= iteration
  /\ pc \in {"policy", "update"} => policy = "bandit"

(* References are iterations with a candidate and, while they are copied, a *)
(* directory; so are the files of the ledger and those that were just read. *)
ReferencesKnown ==
  /\ shown.refs \subseteq Completed
  /\ pc \in {"policy", "proposing"} => \A n \in shown.refs : n < iteration /\ n \in dirs
  /\ IterationsOf(DOMAIN ledger.reads) \subseteq Completed
  /\ IterationsOf(access.read) \subseteq Completed
  /\ access.written \subseteq {Generated}

(* A file with reads in the ledger, and so one that is ranked, was read.    *)
ReadsSeen ==
  /\ access.read \subseteq seen
  /\ \A f \in DOMAIN ledger.reads :
       ledger.reads[f] \in Nat /\ (ledger.reads[f] > 0 => f \in seen)
  /\ shown.hot \subseteq seen \cup {Core}

(* The candidates that the ledger does not count, but for the iteration     *)
(* that is about to be counted, are as many as the crashes.                 *)
CountedInv ==
  /\ ledger.torn => policy = "bandit" /\ (pc \in {"next", "down"} \/ lost)
  /\ policy = "bandit" /\ ~lost /\ ~ledger.torn =>
       Cardinality((Completed \ counted) \ (IF pc = "update" THEN {iteration} ELSE {}))
         <= crashes

PolicyInv == Shape /\ Latest /\ ReferencesKnown /\ ReadsSeen /\ CountedInv

(* What may be shown of earlier iterations is available.                    *)
LEMMA SelectionsWithin ==
  ASSUME NEW k, NEW S, NEW D \in Selections(k, S) PROVE D \subseteq S
BY DEF Selections, kSubset

LEMMA ReferencesAvailable ==
  ASSUME NEW budget \in {"low", "medium", "high"}, NEW refs \in ReferencesForBudget(budget)
  PROVE  refs \subseteq Available
<1>1. ASSUME NEW k, NEW S, NEW R \in BestOf(S, k) PROVE R \subseteq S
  BY SelectionsWithin DEF BestOf
<1>2. \A R \in RandomReferences : R \subseteq Available
  BY SelectionsWithin DEF RandomReferences
<1>3. \A R \in RecentReferences : R \subseteq Available
  BY <1>2 DEF RecentReferences
<1> QED
  BY <1>1, <1>2, <1>3 DEF ReferencesForBudget

LEMMA BanditReferencesAvailable ==
  ASSUME NEW budget, NEW refs \in BanditReferences(budget)
  PROVE  refs \subseteq Available
<1>1. CASE budget = "high"
  BY <1>1 DEF BanditReferences
<1>2. CASE budget # "high"
  <2>1. PICK best, cap :
          refs \in Filled(IterationsOf(Loaded.policy) \cap Available, best \cap Available, cap)
    BY <1>2 DEF BanditReferences
  <2>2. PICK first \in Selections(cap, IterationsOf(Loaded.policy) \cap Available) :
          refs \in {first \cup more :
                      more \in Selections(cap - Cardinality(first), (best \cap Available) \ first)}
    BY <2>1 DEF Filled
  <2>3. PICK more \in Selections(cap - Cardinality(first), (best \cap Available) \ first) :
          refs = first \cup more
    BY <2>2
  <2>4. first \subseteq Available
    BY <2>2, SelectionsWithin
  <2>5. more \subseteq Available
    BY <2>3, SelectionsWithin
  <2> QED
    BY <2>3, <2>4, <2>5
<1> QED
  BY <1>1, <1>2

(* Only files that were read, and not only written, are ranked.             *)
LEMMA RankedHaveReads ==
  ASSUME NEW files, NEW r \in Rankings(files)
  PROVE  r.hot \subseteq Scored(files)
<1>1. PICK h \in Selections(TopHot, Scored(files)) :
        r \in {[hot |-> h, warm |-> w] : w \in Selections(TopWarm, Scored(files) \ h)}
  BY DEF Rankings
<1>2. r.hot = h
  BY <1>1
<1> QED
  BY <1>2, SelectionsWithin

(* What is loaded is the ledger, or an empty one.                           *)
LEMMA LoadedLedger ==
  ASSUME IsLedger(ledger)
  PROVE  /\ IsLedger(Loaded) /\ Loaded.torn = FALSE
         /\ DOMAIN Loaded.reads \subseteq DOMAIN ledger.reads
         /\ \A f \in DOMAIN Loaded.reads : Loaded.reads[f] = ledger.reads[f]
         /\ ledger.torn = FALSE => Loaded = ledger
<1>1. CASE ledger.torn
  <2>1. Loaded = [torn |-> FALSE, total |-> 0, history |-> <<>>, reads |-> <<>>, policy |-> {}]
    BY <1>1 DEF Loaded, EmptyLedger
  <2>2. Loaded.reads = <<>> /\ Loaded.torn = FALSE
    BY <2>1
  <2>3. DOMAIN Loaded.reads = {}
    BY <2>2
  <2>4. IsLedger(Loaded)
    BY <2>1 DEF IsLedger
  <2> QED
    BY <1>1, <2>2, <2>3, <2>4
<1>2. CASE ~ledger.torn
  <2>1. PICK torn, total, history, reads, ranked :
          /\ torn \in BOOLEAN /\ total \in Nat
          /\ ledger = [torn |-> torn, total |-> total, history |-> history, reads |-> reads,
                       policy |-> ranked]
    BY DEF IsLedger
  <2>2. torn = FALSE /\ ledger.torn = torn
    BY <1>2, <2>1
  <2>3. Loaded = ledger
    BY <1>2 DEF Loaded
  <2> QED
    BY <2>2, <2>3
<1> QED
  BY <1>1, <1>2

-----------------------------------------------------------------------------
LEMMA CompletedFinite ==
  /\ Completed \subseteq 1..Iterations
  /\ \A D \in SUBSET Completed : IsFiniteSet(D) /\ Cardinality(D) \in Nat
<1>1. Completed \subseteq 1..Iterations
  BY DEF Completed
<1>2. IsFiniteSet(1..Iterations)
  BY FS_Interval, RangesAssumption
<1>3. IsFiniteSet(Completed)
  BY <1>1, <1>2, FS_Subset
<1> QED
  BY <1>1, <1>3, FS_Subset, FS_CardinalityType

LEMMA PolicyInit == Init => PolicyInv
<1> SUFFICES ASSUME Init PROVE PolicyInv
  OBVIOUS
<1> USE RangesAssumption
<1>1. Completed = {}
  BY DEF Init, Completed
<1>2. ledger = EmptyLedger /\ DOMAIN ledger.reads = {}
  BY DEF Init, EmptyLedger
<1>3. Shape
  <2>1. stored \in [1..Iterations -> 0..MaxRate + 1]
    BY DEF Init, None
  <2>2. IsLedger(ledger)
    BY <1>2 DEF EmptyLedger, IsLedger
  <2>3. lost \in BOOLEAN
    BY Zenon DEF Init
  <2> QED
    BY <2>1, <2>2, <2>3 DEF Init, Shape
<1>4. Latest
  BY <1>1 DEF Init, Latest
<1>5. ReferencesKnown /\ ReadsSeen
  BY <1>1, <1>2 DEF Init, ReferencesKnown, ReadsSeen, IterationsOf, Nothing, NoAccess
<1>6. CountedInv
  BY <1>1, <1>2, FS_EmptySet DEF Init, CountedInv, EmptyLedger
<1> QED
  BY <1>3, <1>4, <1>5, <1>6 DEF PolicyInv

-----------------------------------------------------------------------------
(* Choosing what is shown; the ledger and the results are as they were.     *)
LEMMA ChooseSteps ==
  ASSUME PolicyInv, ChoosePolicy \/ WritePolicy \/ ChooseReferences
  PROVE  PolicyInv'
<1> USE DEF PolicyInv
<1>0. iteration <= Iterations => iteration \in 1..Iterations
  BY RangesAssumption DEF Shape
<1>1. Completed' = Completed /\ UNCHANGED <<stored, iteration, access, seen, counted, crashes>>
  BY DEF ChoosePolicy, WritePolicy, ChooseReferences, Completed, config
<1>2. \A n \in Available : n \in Completed /\ n < iteration /\ n \in dirs
  BY DEF Available, Shape
<1>3. CASE ChoosePolicy
  <2>1. PICK refs \in IF forced = "" /\ (iteration = 1 \/ Loaded.reads = <<>>) THEN {{}}
                      ELSE BanditReferences(BanditBudget),
             ranking \in Rankings(Loaded.reads), base \in StateBases :
          shown' = [budget |-> BanditBudget, refs |-> refs,
                    hot |-> ranking.hot \cup {Core}, warm |-> ranking.warm, base |-> base]
    BY <1>3 DEF ChoosePolicy
  <2>2. /\ pc = "next" /\ pc' = "policy" /\ policy = "bandit" /\ iteration <= Iterations
        /\ lost' = (lost \/ ledger.torn) /\ UNCHANGED <<policy, forced, dirs, ledger>>
    BY <1>3 DEF ChoosePolicy, config
  <2>3. shown'.refs \subseteq Available
    <3>1. refs \subseteq Available
      BY <2>1, BanditReferencesAvailable
    <3> QED
      BY <2>1, <3>1
  <2>4. shown'.hot \subseteq Scored(Loaded.reads) \cup {Core}
    <3>1. shown'.hot = ranking.hot \cup {Core}
      BY <2>1
    <3> QED
      BY <3>1, RankedHaveReads
  <2>5. Scored(Loaded.reads) \subseteq seen
    BY LoadedLedger DEF Shape, Scored, ReadsSeen
  <2>6. Shape'
    <3>1. lost' \in BOOLEAN
      BY <2>2, Zenon
    <3> QED
      BY <1>1, <2>2, <3>1 DEF Shape
  <2>7. Latest'
    BY <1>0, <1>1, <2>2 DEF Latest
  <2>8. ReferencesKnown'
    BY <1>1, <1>2, <2>2, <2>3 DEF ReferencesKnown
  <2>9. ReadsSeen'
    BY <1>1, <2>2, <2>4, <2>5 DEF ReadsSeen
  <2>10. CountedInv'
    BY <1>1, <2>2 DEF CountedInv
  <2> QED
    BY <2>6, <2>7, <2>8, <2>9, <2>10
<1>4. CASE WritePolicy
  <2>1. /\ pc = "policy" /\ pc' = "proposing" /\ UNCHANGED <<policy, forced, shown, lost>>
        /\ ledger' = [Loaded EXCEPT !.policy = shown.hot \cup shown.warm]
        /\ dirs' = dirs \cup {iteration}
    BY <1>4 DEF WritePolicy, config
  <2>2. /\ IsLedger(ledger') /\ ledger'.reads = Loaded.reads /\ ledger'.torn = FALSE
    <3>1. PICK total, history, reads, ranked :
            /\ total \in Nat
            /\ Loaded = [torn |-> FALSE, total |-> total, history |-> history,
                         reads |-> reads, policy |-> ranked]
      <4>1. IsLedger(Loaded) /\ Loaded.torn = FALSE
        BY LoadedLedger DEF Shape
      <4>2. PICK torn, total, history, reads, ranked :
              /\ torn \in BOOLEAN /\ total \in Nat
              /\ Loaded = [torn |-> torn, total |-> total, history |-> history,
                           reads |-> reads, policy |-> ranked]
        BY <4>1 DEF IsLedger
      <4>3. torn = FALSE
        BY <4>1, <4>2
      <4> QED
        BY <4>2, <4>3
    <3>2. ledger' = [torn |-> FALSE, total |-> total, history |-> history,
                     reads |-> reads, policy |-> shown.hot \cup shown.warm]
      BY <2>1, <3>1
    <3> QED
      BY <3>1, <3>2 DEF IsLedger
  <2>3. DOMAIN ledger'.reads \subseteq DOMAIN ledger.reads /\
        \A f \in DOMAIN ledger'.reads : ledger'.reads[f] = ledger.reads[f]
    BY <2>2, LoadedLedger DEF Shape
  <2>4. Shape'
    BY <1>1, <2>1, <2>2 DEF Shape
  <2>5. Latest'
    BY <1>1, <2>1 DEF Latest
  <2>6. ReferencesKnown'
    BY <1>1, <2>1, <2>3 DEF ReferencesKnown, IterationsOf
  <2>7. ReadsSeen'
    BY <1>1, <2>1, <2>3 DEF ReadsSeen
  <2>8. CountedInv'
    BY <1>1, <2>1, <2>2 DEF CountedInv
  <2> QED
    BY <2>4, <2>5, <2>6, <2>7, <2>8
<1>5. CASE ChooseReferences
  <2>1. PICK budget \in Budgets, base \in StateBases :
          \E refs \in ReferencesForBudget(budget) :
            shown' = [budget |-> budget, refs |-> refs, hot |-> {}, warm |-> {}, base |-> base]
    BY <1>5 DEF ChooseReferences
  <2>2. budget \in {"low", "medium", "high"}
    BY ForcedAssumption DEF Budgets, Shape
  <2>3. PICK refs \in ReferencesForBudget(budget) :
          shown' = [budget |-> budget, refs |-> refs, hot |-> {}, warm |-> {}, base |-> base]
    BY <2>1
  <2>4. shown'.refs \subseteq Available /\ shown'.hot = {}
    BY <2>2, <2>3, ReferencesAvailable
  <2>5. /\ pc = "next" /\ pc' = "proposing" /\ policy # "bandit" /\ iteration <= Iterations
        /\ dirs' = dirs \cup {iteration} /\ UNCHANGED <<policy, forced, ledger, lost>>
    BY <1>5 DEF ChooseReferences, config
  <2>6. Shape' /\ Latest'
    BY <1>1, <2>5, RangesAssumption DEF Shape, Latest
  <2>7. ReferencesKnown'
    BY <1>1, <1>2, <2>4, <2>5 DEF ReferencesKnown
  <2>8. ReadsSeen'
    BY <1>1, <2>4, <2>5 DEF ReadsSeen
  <2>9. CountedInv'
    BY <1>1, <2>5 DEF CountedInv
  <2> QED
    BY <2>6, <2>7, <2>8, <2>9
<1> QED
  BY <1>3, <1>4, <1>5

(* The proposer reads and writes, and a candidate is stored, or none.       *)
LEMMA RunStep == ASSUME PolicyInv, RunIteration PROVE PolicyInv'
<1> USE DEF PolicyInv
<1>1. PICK read \in SUBSET ({Core} \cup {Reference(n) : n \in shown.refs}),
           written \in {{}, {Generated}}, rate \in 0..MaxRate + 1 :
        /\ access' = [read |-> read, written |-> written]
        /\ stored' = [stored EXCEPT ![iteration] = rate]
        /\ seen' = seen \cup read
  BY DEF RunIteration
<1>2. /\ pc = "proposing"
      /\ pc' = IF policy = "bandit" THEN "update" ELSE "next"
      /\ iteration' = IF policy = "bandit" THEN iteration ELSE iteration + 1
      /\ UNCHANGED <<policy, forced, dirs, ledger, shown, counted, lost, crashes>>
  BY DEF RunIteration, config
<1>3. iteration \in 1..Iterations /\ iteration \notin Completed
  BY <1>2 DEF Latest, Shape
<1>4. access'.read = read /\ access'.written = written
  BY <1>1
<1>5. /\ stored' \in [1..Iterations -> 0..MaxRate + 1]
      /\ Completed \subseteq Completed' /\ Completed' \subseteq Completed \cup {iteration}
  <2>1. stored \in [1..Iterations -> 0..MaxRate + 1] /\ rate \in 0..MaxRate + 1
    BY DEF Shape
  <2>2. \A n \in 1..Iterations : stored'[n] = IF n = iteration THEN rate ELSE stored[n]
    BY <1>1, <2>1
  <2> QED
    BY <1>1, <1>3, <2>1, <2>2 DEF Completed
<1>6. IterationsOf(read) \subseteq shown.refs
  <2>1. \A f \in read : f = Core \/ \E n \in shown.refs : f = Reference(n)
    OBVIOUS
  <2> QED
    BY <2>1 DEF IterationsOf, Core, Reference
<1>7. Shape'
  BY <1>2, <1>3, <1>5 DEF Shape
<1>8. Latest'
  <2>1. \A n \in Completed' : n \in Completed \/ n = iteration
    BY <1>5
  <2>2. \A n \in Completed : n < iteration
    BY <1>2 DEF Latest
  <2>3. Completed \subseteq Int /\ iteration \in Int
    BY CompletedFinite, <1>3
  <2>4. ASSUME NEW n \in Completed' PROVE n <= iteration /\ n < iteration + 1
    <3>1. CASE n = iteration
      BY <2>3, <3>1
    <3>2. CASE n # iteration
      <4>1. n \in Completed
        BY <2>1, <3>2
      <4>2. n < iteration /\ n \in Int /\ iteration \in Int
        BY <2>2, <2>3, <4>1
      <4> QED
        BY <4>2
    <3> QED
      BY <3>1, <3>2
  <2>5. CASE policy = "bandit"
    BY <1>2, <1>3, <2>4, <2>5 DEF Latest
  <2>6. CASE policy # "bandit"
    BY <1>2, <2>4, <2>6 DEF Latest
  <2> QED
    BY <2>5, <2>6
<1>9. ReferencesKnown'
  BY <1>1, <1>2, <1>4, <1>5, <1>6 DEF ReferencesKnown
<1>10. ReadsSeen'
  BY <1>1, <1>2, <1>4 DEF ReadsSeen
<1>11. CountedInv'
  <2>1. /\ ledger.torn => policy = "bandit" /\ lost
    BY <1>2 DEF CountedInv
  <2>2. ASSUME policy = "bandit", ~lost, ~ledger.torn
        PROVE  Cardinality((Completed' \ counted) \ {iteration}) <= crashes
    <3>1. Cardinality((Completed \ counted) \ {}) <= crashes
      BY <1>2, <2>2 DEF CountedInv
    <3>2. (Completed' \ counted) \ {iteration} = Completed \ counted
      BY <1>3, <1>5
    <3> QED
      BY <3>1, <3>2
  <2> QED
    BY <1>2, <2>1, <2>2 DEF CountedInv
<1> QED
  BY <1>7, <1>8, <1>9, <1>10, <1>11

(* The ledger takes up the iteration.                                       *)
LEMMA UpdateStep == ASSUME PolicyInv, UpdateBandit PROVE PolicyInv'
<1> USE DEF PolicyInv
<1>1. /\ pc = "update" /\ pc' = "next" /\ iteration' = iteration + 1
      /\ ledger' = Updated /\ access' = NoAccess /\ Completed' = Completed
      /\ UNCHANGED <<policy, forced, stored, dirs, shown, seen, lost, crashes>>
  BY DEF UpdateBandit, config, Completed
<1>2. PICK total, history, reads, ranked :
        /\ total \in Nat
        /\ Loaded = [torn |-> FALSE, total |-> total, history |-> history,
                     reads |-> reads, policy |-> ranked]
  <2>1. IsLedger(Loaded) /\ Loaded.torn = FALSE
    BY LoadedLedger DEF Shape
  <2>2. PICK torn, total, history, reads, ranked :
          /\ torn \in BOOLEAN /\ total \in Nat
          /\ Loaded = [torn |-> torn, total |-> total, history |-> history,
                       reads |-> reads, policy |-> ranked]
    BY <2>1 DEF IsLedger
  <2>3. torn = FALSE
    BY <2>1, <2>2
  <2> QED
    BY <2>2, <2>3
<1> DEFINE more == [f \in DOMAIN reads \cup access.read \cup access.written |->
                      (IF f \in DOMAIN reads THEN reads[f] ELSE 0)
                        + (IF f \in access.read THEN 1 ELSE 0)]
<1>3. Updated = [torn |-> FALSE, total |-> total + 1,
                 history |-> Append(history, stored[iteration]),
                 reads |-> more, policy |-> ranked]
  <2>1. Updated = [Loaded EXCEPT !.total = Loaded.total + 1,
                     !.history = Append(Loaded.history, stored[iteration]),
                     !.reads = [f \in DOMAIN Loaded.reads \cup access.read \cup access.written |->
                                  (IF f \in DOMAIN Loaded.reads THEN Loaded.reads[f] ELSE 0)
                                    + (IF f \in access.read THEN 1 ELSE 0)]]
    BY DEF Updated
  <2>2. Loaded.reads = reads /\ Loaded.total = total /\ Loaded.history = history
    BY <1>2
  <2>3. Updated = [Loaded EXCEPT !.total = total + 1,
                     !.history = Append(history, stored[iteration]), !.reads = more]
    BY <2>1, <2>2
  <2> HIDE DEF more
  <2> QED
    BY <1>2, <2>3
<1>4. /\ Loaded.reads = reads /\ Loaded.total = total
      /\ Updated.reads = more /\ Updated.total = total + 1 /\ Updated.torn = FALSE
  <2> HIDE DEF more
  <2> QED
    BY <1>2, <1>3
<1>5. IsLedger(Updated)
  <2> DEFINE h == Append(history, stored[iteration])
  <2>1. Updated = [torn |-> FALSE, total |-> total + 1, history |-> h,
                   reads |-> more, policy |-> ranked]
    BY <1>3
  <2> HIDE DEF more, h
  <2>2. total + 1 \in Nat /\ FALSE \in BOOLEAN
    BY <1>2
  <2> QED
    BY <2>1, <2>2, Zenon DEF IsLedger
<1>6. counted' = counted \cup {iteration}
  BY <1>2, <1>4 DEF UpdateBandit
<1>7. \A f \in DOMAIN reads : reads[f] \in Nat /\ (reads[f] > 0 => f \in seen)
  BY <1>4, LoadedLedger DEF Shape, ReadsSeen
<1>8. \A f \in DOMAIN more : more[f] \in Nat /\ (more[f] > 0 => f \in seen)
  BY <1>7 DEF ReadsSeen
<1>9. Shape'
  BY <1>1, <1>5 DEF Shape
<1>10. Latest'
  <2>1. \A n \in Completed : n < iteration + 1
    BY <1>1, CompletedFinite DEF Shape, Latest
  <2> QED
    BY <1>1, <2>1 DEF Latest
<1>11. ReferencesKnown'
  <2>1. IterationsOf(DOMAIN more) \subseteq Completed
    <3>1. DOMAIN more \subseteq DOMAIN ledger.reads \cup access.read \cup {Generated}
      BY <1>4, LoadedLedger DEF Shape, ReferencesKnown
    <3>2. IterationsOf(DOMAIN more) \subseteq
            IterationsOf(DOMAIN ledger.reads) \cup IterationsOf(access.read)
      BY <3>1 DEF IterationsOf, Generated
    <3> QED
      BY <3>2 DEF ReferencesKnown
  <2>2. NoAccess.read = {} /\ NoAccess.written = {}
    BY DEF NoAccess
  <2> HIDE DEF more
  <2> QED
    BY <1>1, <1>4, <2>1, <2>2 DEF ReferencesKnown, IterationsOf
<1>12. ReadsSeen'
  <2>1. NoAccess.read = {}
    BY DEF NoAccess
  <2> HIDE DEF more
  <2> QED
    BY <1>1, <1>4, <1>8, <2>1 DEF ReadsSeen
<1>13. CountedInv'
  <2>1. ledger.torn => lost
    BY <1>1 DEF CountedInv
  <2>2. Completed \ counted' = (Completed \ counted) \ {iteration}
    BY <1>6
  <2>3. ASSUME policy = "bandit", ~lost
        PROVE  Cardinality((Completed \ counted') \ {}) <= crashes
    BY <1>1, <2>1, <2>2, <2>3 DEF CountedInv
  <2>4. policy = "bandit"
    BY <1>1 DEF Latest
  <2> QED
    BY <1>1, <1>4, <2>3, <2>4 DEF CountedInv
<1> QED
  BY <1>9, <1>10, <1>11, <1>12, <1>13

(* A crash, and the run that goes on after it.                              *)
LEMMA CrashStep == ASSUME PolicyInv, Crash PROVE PolicyInv'
<1> USE DEF PolicyInv
<1>1. /\ pc # "down" /\ pc' = "down" /\ crashes' = crashes + 1
      /\ shown' = Nothing /\ access' = NoAccess /\ Completed' = Completed
      /\ UNCHANGED <<policy, forced, iteration, stored, dirs, seen, lost>>
  BY DEF Crash, config, Completed
<1>2. \/ UNCHANGED <<ledger, counted>>
      \/ pc \in {"policy", "update"} /\ ledger' = Torn /\ counted' = {}
  BY DEF Crash
<1>3. /\ Nothing.refs = {} /\ Nothing.hot = {} /\ NoAccess.read = {} /\ NoAccess.written = {}
  BY DEF Nothing, NoAccess
<1>4. Torn = [torn |-> TRUE, total |-> 0, history |-> <<>>, reads |-> <<>>, policy |-> {}]
  BY DEF Torn
<1>5. IsLedger(Torn) /\ Torn.torn = TRUE /\ DOMAIN Torn.reads = {}
  <2>1. Torn.reads = <<>>
    BY <1>4
  <2>2. DOMAIN Torn.reads = {}
    BY <2>1
  <2> QED
    BY <1>4, <2>2 DEF IsLedger
<1>6. Shape'
  BY <1>1, <1>2, <1>5 DEF Shape
<1>7. Latest'
  BY <1>1 DEF Latest
<1>8. DOMAIN ledger'.reads \subseteq DOMAIN ledger.reads /\
      \A f \in DOMAIN ledger'.reads : ledger'.reads[f] = ledger.reads[f]
  BY <1>2, <1>5
<1>9. ReferencesKnown'
  BY <1>1, <1>3, <1>8 DEF ReferencesKnown, IterationsOf
<1>10. ReadsSeen'
  BY <1>1, <1>3, <1>8 DEF ReadsSeen
<1>11. CountedInv'
  <2>1. CASE ledger' = Torn
    BY <1>1, <1>2, <1>5, <2>1 DEF CountedInv, Latest
  <2>2. CASE UNCHANGED <<ledger, counted>>
    <3>1. ASSUME policy = "bandit", ~lost, ~ledger.torn
          PROVE  Cardinality((Completed \ counted) \ {}) <= crashes + 1
      <4> DEFINE D == Completed \ counted
                 R == D \ (IF pc = "update" THEN {iteration} ELSE {})
      <4>1. Cardinality(R) <= crashes
        BY <3>1 DEF CountedInv
      <4>2. /\ IsFiniteSet(D) /\ Cardinality(D) \in Nat
            /\ IsFiniteSet(R) /\ Cardinality(R) \in Nat
        BY CompletedFinite
      <4>3. D \ {iteration} = R \/ D = R
        OBVIOUS
      <4>4. Cardinality(D) <= Cardinality(R) + 1
        <5> HIDE DEF D, R
        <5> QED
          BY <4>2, <4>3, FS_RemoveElement
      <4>5. Cardinality(D) <= crashes + 1
        <5> HIDE DEF D, R
        <5> QED
          BY <4>1, <4>2, <4>4 DEF Shape
      <4>6. D \ {} = D
        OBVIOUS
      <4> QED
        BY <4>5, <4>6
    <3>2. ledger.torn => policy = "bandit"
      BY DEF CountedInv
    <3> QED
      BY <1>1, <2>2, <3>1, <3>2 DEF CountedInv
  <2> QED
    BY <1>2, <2>1, <2>2
<1> QED
  BY <1>6, <1>7, <1>9, <1>10, <1>11

LEMMA GreatestElement ==
  ASSUME NEW n \in Nat, NEW D \in SUBSET (0 .. n), D # {}
  PROVE  \E x \in D : \A y \in D : y <= x
<1> DEFINE U == {n - t : t \in D}
<1>1. U \subseteq Nat /\ U # {}
  <2>1. \A t \in D : n - t \in Nat
    OBVIOUS
  <2>2. PICK t \in D : TRUE
    OBVIOUS
  <2>3. n - t \in U
    OBVIOUS
  <2> QED
    BY <2>1, <2>3
<1>2. PICK u \in U : \A v \in U : <<v, u>> \notin OpToRel(<, Nat)
  BY <1>1, NatLessThanWellFounded, WFMin, Zenon
<1>3. \A v \in U : ~ (v < u)
  BY <1>1, <1>2 DEF OpToRel
<1>4. PICK x \in D : u = n - x
  BY <1>2
<1>5. \A y \in D : ~ (n - y < n - x)
  BY <1>3, <1>4
<1> QED
  BY <1>4, <1>5

(* A resumed run goes on after the last iteration with a candidate.         *)
LEMMA ResumeStep == ASSUME PolicyInv, Resume PROVE PolicyInv'
<1> USE DEF PolicyInv
<1> DEFINE R == {0} \cup Completed
<1>1. /\ pc = "down" /\ pc' = "next" /\ iteration' = Max(R) + 1 /\ Completed' = Completed
      /\ UNCHANGED <<policy, forced, stored, ledger, shown, access, counted, seen, lost, crashes>>
  BY DEF Resume, config, Completed
<1>2. R \in SUBSET (0 .. Iterations) /\ R # {}
  BY CompletedFinite, RangesAssumption
<1>3. \E x \in R : \A y \in R : y <= x
  <2> HIDE DEF R
  <2> QED
    BY <1>2, GreatestElement, RangesAssumption
<1>4. PICK m \in R : m = Max(R) /\ \A y \in R : m >= y
  <2>1. \E x \in R : \A y \in R : x >= y
    BY <1>2, <1>3
  <2> HIDE DEF R
  <2> QED
    BY <2>1 DEF Max
<1>5. \A n \in Completed : n \in R
  OBVIOUS
<1> HIDE DEF R
<1>6. m \in 0 .. Iterations /\ \A y \in R : y \in 0 .. Iterations
  BY <1>2
<1>7. iteration' \in Nat \ {0} /\ \A n \in Completed : n < iteration'
  <2>1. iteration' = m + 1 /\ m \in Nat
    BY <1>1, <1>4, <1>6, RangesAssumption
  <2>2. ASSUME NEW n \in Completed PROVE n < m + 1
    <3>1. n \in R
      BY <1>5
    <3>2. m >= n /\ n \in Int
      BY <1>4, <1>6, <3>1
    <3> QED
      BY <2>1, <3>2
  <2> QED
    BY <2>1, <2>2
<1>8. Shape' /\ Latest'
  BY <1>1, <1>7 DEF Shape, Latest
<1>9. ReferencesKnown' /\ ReadsSeen'
  BY <1>1 DEF ReferencesKnown, ReadsSeen
<1>10. CountedInv'
  BY <1>1 DEF CountedInv
<1> QED
  BY <1>8, <1>9, <1>10

LEMMA PolicyStep == PolicyInv /\ [Next]_vars => PolicyInv'
<1> SUFFICES ASSUME PolicyInv, [Next]_vars PROVE PolicyInv'
  OBVIOUS
<1>1. CASE Complete \/ UNCHANGED vars
  <2>1. UNCHANGED vars
    BY <1>1 DEF Complete
  <2> QED
    BY <2>1 DEF vars, config, PolicyInv, Shape, Latest, ReferencesKnown, ReadsSeen, CountedInv,
                Completed
<1> QED
  BY <1>1, ChooseSteps, RunStep, UpdateStep, CrashStep, ResumeStep DEF Next

LEMMA PolicyAlways == Spec => []PolicyInv
BY PolicyInit, PolicyStep, PTL DEF Spec

-----------------------------------------------------------------------------
(* Whatever the policy, the crashes and what was torn, the proposer is      *)
(* shown earlier iterations that stored a candidate and have a directory,   *)
(* and the ledger names no other: none that a resumed run does again.       *)
THEOREM ReferencesAreFinal == Spec => []ReferencesFinal
<1>1. PolicyInv => ReferencesFinal
  <2> SUFFICES ASSUME PolicyInv PROVE ReferencesFinal
    OBVIOUS
  <2> QED
    BY DEF PolicyInv, ReferencesKnown, ReferencesFinal
<1> QED
  BY <1>1, PolicyAlways, PTL

(* The proposer is told that a file is hot only if a proposer of this run   *)
(* has read it, or it is the file that is always shown.                     *)
THEOREM HotWereRead == Spec => []HotWasRead
<1>1. PolicyInv => HotWasRead
  BY DEF PolicyInv, ReadsSeen, HotWasRead
<1> QED
  BY <1>1, PolicyAlways, PTL

(* As long as no torn ledger was replaced, every crash costs the bandit the *)
(* count of at most one iteration that stored a candidate.                  *)
THEOREM LossIsBounded == Spec => []LostToCrashes
<1>1. PolicyInv => LostToCrashes
  <2> SUFFICES ASSUME PolicyInv, policy = "bandit", ~lost, ~ledger.torn
               PROVE  Cardinality({n \in Completed \ counted : n < iteration}) <= crashes
    BY DEF LostToCrashes
  <2> DEFINE D == (Completed \ counted) \ (IF pc = "update" THEN {iteration} ELSE {})
             L == {n \in Completed \ counted : n < iteration}
  <2>1. Cardinality(D) <= crashes /\ crashes \in Nat
    BY DEF PolicyInv, Shape, CountedInv
  <2>2. L \subseteq D
    BY DEF PolicyInv, Shape
  <2>3. IsFiniteSet(D) /\ Cardinality(D) \in Nat /\ Cardinality(L) \in Nat
    BY CompletedFinite
  <2>4. Cardinality(L) <= Cardinality(D)
    <3> HIDE DEF D, L
    <3> QED
      BY <2>2, <2>3, FS_Subset
  <2> QED
    BY <2>1, <2>3, <2>4
<1> QED
  BY <1>1, PolicyAlways, PTL
=============================================================================
