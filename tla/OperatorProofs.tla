--------------------------- MODULE OperatorProofs ---------------------------
(***************************************************************************)
(* The pure parts of the agent runners judge every input right: commands   *)
(* of any number of tokens, paths of any number of names, configurations.  *)
(*                                                                         *)
(* The operators are folds over sequences.  A fold is the function CHOOSEn *)
(* by its equation over the sets of places of the sequence, so there are   *)
(* two steps before anything can be said of it: that such a function       *)
(* exists, which takes an induction over the size of these sets, and what  *)
(* the equation says of the sets that the fold comes through.              *)
(***************************************************************************)
EXTENDS MCOperators, FiniteSetTheorems, SequenceTheorems,
        WellFoundedInduction, TLAPS

-----------------------------------------------------------------------------
(* Induction over the numbers, for sets of numbers                          *)

(* A set of numbers has a least element. *)
LEMMA LeastNumber ==
  ASSUME NEW T, T \subseteq Nat, T # {}
  PROVE  \E n \in T : \A m \in T : n <= m
<1>1. \E n \in T : \A m \in T : <<m, n>> \notin OpToRel(<, Nat)
  BY NatLessThanWellFounded, WFMin
<1>2. PICK n \in T : \A m \in T : <<m, n>> \notin OpToRel(<, Nat)
  BY <1>1
<1>3. \A m \in T : ~ (m < n)
  BY <1>2 DEF OpToRel
<1>4. \A m \in T : n <= m
  BY <1>3
<1> QED
  BY <1>4

(* A set with 0, and with n + 1 for every n it holds, holds all numbers. *)
LEMMA Induction ==
  ASSUME NEW T, 0 \in T, \A n \in Nat : n \in T => n + 1 \in T
  PROVE  \A n \in Nat : n \in T
<1>1. SUFFICES ASSUME NEW k \in Nat, k \notin T PROVE FALSE
  OBVIOUS
<1>2. PICK n \in Nat \ T : \A m \in Nat \ T : n <= m
  BY <1>1, LeastNumber
<1>3. n - 1 \in Nat
  BY <1>2
<1>4. n - 1 \in T
  BY <1>2, <1>3
<1> QED
  BY <1>2, <1>3, <1>4

(* A set of places of a sequence has a greatest one. *)
LEMMA GreatestPlace ==
  ASSUME NEW n \in Nat, NEW Places \in SUBSET (1 .. n), Places # {}
  PROVE  \E m \in Places : \A x \in Places : x <= m
<1> DEFINE T == {n - x : x \in Places}
<1>1. T \subseteq Nat /\ T # {}
  <2>1. \A x \in Places : x \in 1 .. n /\ n - x \in Nat
    OBVIOUS
  <2> QED
    BY <2>1
<1>2. PICK t \in T : \A u \in T : t <= u
  <2> HIDE DEF T
  <2> QED
    BY <1>1, LeastNumber
<1>3. PICK m \in Places : t = n - m
  OBVIOUS
<1>4. ASSUME NEW x \in Places PROVE x <= m
  <2>1. n - x \in T
    OBVIOUS
  <2> QED
    BY <1>2, <1>3, <2>1
<1> QED
  BY <1>4

-----------------------------------------------------------------------------
(* Folds                                                                    *)

(* A function over the subsets of 1 .. n that takes one element after the   *)
(* other, the one that pick gives, and steps from the value of the rest.    *)
IsFold(g, n, base, step, pick) ==
  g = [s \in SUBSET (1 .. n) |->
         IF s = {} THEN base ELSE step[pick[s]][g[s \ {pick[s]}]]]

(* Such a function exists, however the elements are picked. *)
LEMMA FoldExists ==
  ASSUME NEW n \in Nat, NEW V, NEW base \in V,
         NEW step \in [1 .. n -> [V -> V]],
         NEW pick, \A s \in SUBSET (1 .. n) : s # {} => pick[s] \in s
  PROVE  \E g \in [SUBSET (1 .. n) -> V] : IsFold(g, n, base, step, pick)
<1> DEFINE Small(k) == {s \in SUBSET (1 .. n) : Cardinality(s) <= k}
           Value(g, s) == IF s = {} THEN base ELSE step[pick[s]][g[s \ {pick[s]}]]
           T == {k \in Nat : \E g \in [Small(k) -> V] :
                               \A s \in Small(k) : g[s] = Value(g, s)}
<1>1. \A s \in SUBSET (1 .. n) : IsFiniteSet(s) /\ Cardinality(s) \in 0 .. n
  <2>1. IsFiniteSet(1 .. n) /\ Cardinality(1 .. n) = n
    BY FS_Interval
  <2>2. ASSUME NEW s \in SUBSET (1 .. n)
        PROVE  IsFiniteSet(s) /\ Cardinality(s) <= n
    <3> DEFINE U == 1 .. n
    <3>1. IsFiniteSet(U) /\ s \in SUBSET U
      BY <2>1
    <3> HIDE DEF U
    <3>2. IsFiniteSet(s) /\ Cardinality(s) <= Cardinality(U)
      BY <3>1, FS_Subset
    <3> QED
      BY <2>1, <3>2 DEF U
  <2> QED
    BY <2>2, FS_CardinalityType
<1>2. \A s \in SUBSET (1 .. n) : s # {} =>
        /\ s \ {pick[s]} \in SUBSET (1 .. n)
        /\ Cardinality(s \ {pick[s]}) = Cardinality(s) - 1
  BY <1>1, FS_RemoveElement
<1>3. \A s \in SUBSET (1 .. n) : Cardinality(s) = 0 <=> s = {}
  BY <1>1, FS_EmptySet
<1>4. 0 \in T
  <2> DEFINE g == [s \in Small(0) |-> base]
  <2>1. \A s \in Small(0) : s = {}
    BY <1>1, <1>3
  <2>2. g \in [Small(0) -> V] /\ \A s \in Small(0) : g[s] = Value(g, s)
    BY <2>1
  <2> QED
    BY <2>2
<1>5. ASSUME NEW k \in Nat, k \in T PROVE k + 1 \in T
  <2>1. PICK f \in [Small(k) -> V] : \A s \in Small(k) : f[s] = Value(f, s)
    BY <1>5
  <2> DEFINE g == [s \in Small(k + 1) |-> IF s \in Small(k) THEN f[s] ELSE Value(f, s)]
  <2>2. \A s \in Small(k + 1) : s # {} => s \ {pick[s]} \in Small(k)
    BY <1>1, <1>2
  <2>3. \A s \in Small(k + 1) : s # {} => g[s \ {pick[s]}] = f[s \ {pick[s]}]
    <3>1. Small(k) \subseteq Small(k + 1)
      BY <1>1
    <3> QED
      BY <2>2, <3>1
  <2>4. \A s \in Small(k + 1) : Value(f, s) = Value(g, s)
    BY <2>3
  <2>5. \A s \in Small(k + 1) : g[s] = Value(g, s)
    BY <2>1, <2>4
  <2>6. ASSUME NEW s \in Small(k + 1) PROVE Value(f, s) \in V
    <3>1. CASE s = {}
      BY <3>1
    <3>2. CASE s # {}
      <4>1. pick[s] \in 1 .. n
        BY <3>2
      <4>2. f[s \ {pick[s]}] \in V
        BY <2>2, <3>2
      <4>3. \A i \in 1 .. n : \A a \in V : step[i][a] \in V
        <5> HIDE DEF Small, Value
        <5> QED
          OBVIOUS
      <4>4. step[pick[s]][f[s \ {pick[s]}]] \in V
        <5> HIDE DEF Small, Value
        <5> QED
          BY <4>1, <4>2, <4>3
      <4> QED
        BY <3>2, <4>4
    <3> QED
      BY <3>1, <3>2
  <2>7. g \in [Small(k + 1) -> V]
    BY <2>6
  <2>8. \E h \in [Small(k + 1) -> V] : \A s \in Small(k + 1) : h[s] = Value(h, s)
    <3> HIDE DEF g, Value
    <3> QED
      BY <2>5, <2>7
  <2> HIDE DEF Value, Small
  <2> QED
    BY <2>8
<1>6. n \in T
  <2> HIDE DEF T
  <2> QED
    BY <1>4, <1>5, Induction
<1>7. PICK g \in [Small(n) -> V] : \A s \in Small(n) : g[s] = Value(g, s)
  BY <1>6
<1>8. Small(n) = SUBSET (1 .. n)
  BY <1>1
<1>9. g \in [SUBSET (1 .. n) -> V]
  BY <1>7, <1>8
<1>10. g = [s \in SUBSET (1 .. n) |-> g[s]]
  BY <1>9
<1>11. \A s \in SUBSET (1 .. n) : g[s] = Value(g, s)
  BY <1>7, <1>8
<1>12. IsFold(g, n, base, step, pick)
  BY <1>10, <1>11 DEF IsFold
<1> QED
  BY <1>9, <1>12

-----------------------------------------------------------------------------
(* Paths: where a sequence of names leads to                                *)

Last(s) == P!Max(s)

LEMMA LastOf ==
  ASSUME NEW n \in Nat
  PROVE  /\ \A s \in SUBSET (1 .. n) : s # {} => Last(s) \in s
         /\ \A k \in 1 .. n : Last(1 .. k) = k
<1>1. ASSUME NEW s \in SUBSET (1 .. n), s # {} PROVE Last(s) \in s
  <2>1. \E m \in s : \A x \in s : m >= x
    BY <1>1, GreatestPlace
  <2> QED
    BY <2>1 DEF Last, P!Max
<1>2. ASSUME NEW k \in 1 .. n PROVE Last(1 .. k) = k
  <2>1. \A y \in 1 .. k : (\A x \in 1 .. k : y >= x) <=> y = k
    OBVIOUS
  <2> QED
    BY <2>1 DEF Last, P!Max
<1> QED
  BY <1>1, <1>2

IsWalk(f, parts) ==
  f = [s \in SUBSET DOMAIN parts |->
         IF s = {} THEN <<>> ELSE P!Walk(f[s \ {Last(s)}], parts[Last(s)])]

(* The places on the way: at the root, and after each name.                 *)
IsWay(at, parts) ==
  /\ at[0] = <<>>
  /\ \A k \in 1 .. Len(parts) : at[k] = P!Walk(at[k - 1], parts[k])

Climb == ".."

(* A walk is always at a place whose path does not climb. *)
LEMMA WalkType ==
  ASSUME NEW N, NEW at \in Seq(N \ {Climb}), NEW name \in N
  PROVE  P!Walk(at, name) \in Seq(N \ {Climb})
BY DEF P!Walk, P!Front, Climb

LEMMA WalkExists ==
  ASSUME NEW N, NEW parts \in Seq(N)
  PROVE  \E f : IsWalk(f, parts)
<1> DEFINE n == Len(parts)
           pick == [s \in SUBSET (1 .. n) |-> Last(s)]
           step == [i \in 1 .. n |-> [at \in Seq(N \ {Climb}) |-> P!Walk(at, parts[i])]]
<1>1. n \in Nat /\ DOMAIN parts = 1 .. n /\ \A i \in 1 .. n : parts[i] \in N
  OBVIOUS
<1>2. \A s \in SUBSET (1 .. n) : s # {} => pick[s] \in s
  BY <1>1, LastOf
<1>3. step \in [1 .. n -> [Seq(N \ {Climb}) -> Seq(N \ {Climb})]]
  BY <1>1, WalkType
<1>4. <<>> \in Seq(N \ {Climb})
  OBVIOUS
<1>5. PICK g \in [SUBSET (1 .. n) -> Seq(N \ {Climb})] : IsFold(g, n, <<>>, step, pick)
  <2> HIDE DEF n, pick, step
  <2> QED
    BY <1>1, <1>2, <1>3, <1>4, FoldExists
<1>6. ASSUME NEW s \in SUBSET (1 .. n), s # {}
      PROVE  step[pick[s]][g[s \ {pick[s]}]]
               = P!Walk(g[s \ {Last(s)}], parts[Last(s)])
  <2>1. pick[s] = Last(s) /\ Last(s) \in 1 .. n
    BY <1>2, <1>6
  <2>2. g[s \ {Last(s)}] \in Seq(N \ {Climb})
    BY <1>5
  <2> QED
    BY <2>1, <2>2
<1>7. IsWalk(g, parts)
  BY <1>1, <1>5, <1>6, Zenon DEF IsFold, IsWalk
<1> QED
  BY <1>7

(* The place a path leads to is the last on its way. *)
LEMMA NormalIsEnd ==
  ASSUME NEW N, NEW parts \in Seq(N)
  PROVE  \E at \in [0 .. Len(parts) -> Seq(N \ {Climb})] :
           IsWay(at, parts) /\ P!Normal(parts) = at[Len(parts)]
<1>1. P!Normal(parts) = (CHOOSE f : IsWalk(f, parts))[DOMAIN parts]
  BY Zenon DEF P!Normal, P!FoldLeft, P!MapThenFoldSet, IsWalk, Last
<1>2. PICK f : IsWalk(f, parts) /\ P!Normal(parts) = f[DOMAIN parts]
  BY <1>1, WalkExists, Zenon
<1> DEFINE n == Len(parts)
           at == [k \in 0 .. n |-> f[1 .. k]]
<1>3. n \in Nat /\ DOMAIN parts = 1 .. n /\ \A i \in 1 .. n : parts[i] \in N
  OBVIOUS
<1>4. f[{}] = <<>>
  BY <1>2 DEF IsWalk
<1>5. ASSUME NEW k \in 1 .. n
      PROVE  f[1 .. k] = P!Walk(f[1 .. k - 1], parts[k])
  <2>1. 1 .. k \in SUBSET (1 .. n) /\ 1 .. k # {} /\ (1 .. k) \ {k} = 1 .. k - 1
    OBVIOUS
  <2>2. Last(1 .. k) = k
    BY <1>3, LastOf
  <2>3. f[1 .. k] = P!Walk(f[(1 .. k) \ {Last(1 .. k)}], parts[Last(1 .. k)])
    BY <1>2, <1>3, <2>1 DEF IsWalk
  <2> QED
    BY <2>1, <2>2, <2>3
<1>6. IsWay(at, parts)
  <2>1. at[0] = <<>>
    <3>1. 1 .. 0 = {}
      OBVIOUS
    <3> QED
      BY <1>3, <1>4, <3>1
  <2> QED
    BY <1>3, <1>5, <2>1 DEF IsWay
<1>7. at \in [0 .. n -> Seq(N \ {Climb})]
  <2> DEFINE T == {k \in Nat : k <= n => at[k] \in Seq(N \ {Climb})}
  <2> HIDE DEF at
  <2>1. 0 \in T
    <3>1. at[0] = <<>> /\ <<>> \in Seq(N \ {Climb})
      BY <1>6 DEF IsWay
    <3> QED
      BY <3>1
  <2>2. ASSUME NEW k \in Nat, k \in T PROVE k + 1 \in T
    <3>1. SUFFICES ASSUME k + 1 <= n PROVE at[k + 1] \in Seq(N \ {Climb})
      OBVIOUS
    <3>2. at[k + 1] = P!Walk(at[k], parts[k + 1])
      BY <1>3, <1>6, <3>1 DEF IsWay
    <3>3. at[k] \in Seq(N \ {Climb}) /\ parts[k + 1] \in N
      BY <1>3, <2>2, <3>1
    <3> QED
      BY <3>2, <3>3, WalkType
  <2>3. \A k \in Nat : k \in T
    <3> HIDE DEF T
    <3> QED
      BY <2>1, <2>2, Induction
  <2>4. \A k \in 0 .. n : at[k] \in Seq(N \ {Climb})
    BY <1>3, <2>3
  <2> QED
    BY <2>4 DEF at
<1>8. P!Normal(parts) = at[n]
  BY <1>2, <1>3
<1> QED
  BY <1>6, <1>7, <1>8
LEMMA NormalType ==
  ASSUME NEW N, NEW parts \in Seq(N)
  PROVE  P!Normal(parts) \in Seq(N \ {Climb})
BY NormalIsEnd

(* What does not climb is normal already. *)
LEMMA PlainIsNormal ==
  ASSUME NEW N, NEW parts \in Seq(N \ {Climb})
  PROVE  P!Normal(parts) = parts
<1>1. PICK at \in [0 .. Len(parts) -> Seq(N \ {Climb})] :
        IsWay(at, parts) /\ P!Normal(parts) = at[Len(parts)]
  <2>1. parts \in Seq(N)
    OBVIOUS
  <2> QED
    BY <2>1, NormalIsEnd
<1> DEFINE n == Len(parts)
           T == {k \in Nat : k <= n => at[k] = SubSeq(parts, 1, k)}
<1>2. n \in Nat /\ \A i \in 1 .. n : parts[i] \in N \ {Climb}
  OBVIOUS
<1>3. 0 \in T
  <2>1. at[0] = <<>> /\ SubSeq(parts, 1, 0) = <<>>
    BY <1>1 DEF IsWay
  <2> QED
    BY <2>1
<1>4. ASSUME NEW k \in Nat, k \in T PROVE k + 1 \in T
  <2>1. SUFFICES ASSUME k + 1 <= n PROVE at[k + 1] = SubSeq(parts, 1, k + 1)
    OBVIOUS
  <2>2. at[k + 1] = P!Walk(at[k], parts[k + 1])
    BY <1>1, <1>2, <2>1 DEF IsWay
  <2>3. at[k] = SubSeq(parts, 1, k) /\ parts[k + 1] # Climb
    BY <1>2, <1>4, <2>1
  <2>4. at[k + 1] = Append(SubSeq(parts, 1, k), parts[k + 1])
    BY <2>2, <2>3 DEF P!Walk, Climb
  <2>5. SubSeq(parts, 1, k + 1) = Append(SubSeq(parts, 1, k), parts[k + 1])
    BY <1>2, <2>1
  <2> QED
    BY <2>4, <2>5
<1>5. n \in T
  <2> HIDE DEF T
  <2> QED
    BY <1>2, <1>3, <1>4, Induction
<1>6. SubSeq(parts, 1, n) = parts
  OBVIOUS
<1> QED
  BY <1>1, <1>5, <1>6

LEMMA PrefixAndRest ==
  ASSUME NEW N, NEW s \in Seq(N), NEW t \in Seq(N)
  PROVE  /\ P!IsPrefix(s, t) =>
              P!Below(t, s) \in Seq(N) /\ s \o P!Below(t, s) = t
         /\ P!IsPrefix(s, s \o t)
         /\ P!Below(s \o t, s) = t
<1>1. ASSUME P!IsPrefix(s, t)
      PROVE  P!Below(t, s) \in Seq(N) /\ s \o P!Below(t, s) = t
  <2>1. Len(s) <= Len(t) /\ \A i \in 1 .. Len(s) : s[i] = t[i]
    <3>1. SubSeq(s, 1, Len(s)) = SubSeq(t, 1, Len(s)) /\ Len(s) <= Len(t)
      BY <1>1 DEF P!IsPrefix
    <3>2. \A i \in 1 .. Len(s) :
            SubSeq(s, 1, Len(s))[i] = s[i] /\ SubSeq(t, 1, Len(s))[i] = t[i]
      BY <3>1
    <3> QED
      BY <3>1, <3>2
  <2>2. P!Below(t, s) \in Seq(N)
    BY <2>1 DEF P!Below
  <2>3. Len(s \o P!Below(t, s)) = Len(t)
    BY <2>1, <2>2 DEF P!Below
  <2>4. \A i \in 1 .. Len(t) : (s \o P!Below(t, s))[i] = t[i]
    BY <2>1, <2>2 DEF P!Below
  <2> DEFINE u == s \o P!Below(t, s)
  <2>5. u \in Seq(N) /\ Len(u) = Len(t) /\ \A i \in 1 .. Len(u) : u[i] = t[i]
    BY <2>2, <2>3, <2>4
  <2>6. u = t
    <3> HIDE DEF u
    <3> QED
      BY <2>5, SeqEqual
  <2> QED
    BY <2>2, <2>6
<1>2. P!IsPrefix(s, s \o t)
  <2>1. SubSeq(s, 1, Len(s)) = SubSeq(s \o t, 1, Len(s))
    OBVIOUS
  <2> QED
    BY <2>1 DEF P!IsPrefix
<1>3. P!Below(s \o t, s) = t
  <2>1. P!Below(s \o t, s) \in Seq(N) /\ Len(P!Below(s \o t, s)) = Len(t)
    BY DEF P!Below
  <2>2. \A i \in 1 .. Len(t) : P!Below(s \o t, s)[i] = t[i]
    BY DEF P!Below
  <2> QED
    BY <2>1, <2>2, SeqEqual
<1> QED
  BY <1>1, <1>2, <1>3
-----------------------------------------------------------------------------
(* Paths: the boundary of the workspace                                     *)

(* Names of which the directories of the workspace are some.                *)
HasWorkspace(N) == {"run", "workspace"} \subseteq N \ {Climb}

LEMMA WorkspaceType ==
  ASSUME NEW N, HasWorkspace(N), NEW sandbox
  PROVE  /\ P!HostWorkspace \in Seq(N \ {Climb})
         /\ P!VisibleCwd(sandbox) \in Seq(N \ {Climb})
<1>1. ASSUME NEW Any, NEW a \in Any, NEW b \in Any
      PROVE  <<a, b>> \in Seq(Any) /\ <<a>> \in Seq(Any)
  OBVIOUS
<1>2. "run" \in N \ {Climb} /\ "workspace" \in N \ {Climb}
  BY DEF HasWorkspace
<1>3. /\ <<"run", "workspace">> \in Seq(N \ {Climb})
      /\ <<"workspace">> \in Seq(N \ {Climb})
  BY <1>1, <1>2
<1> QED
  BY <1>3 DEF P!HostWorkspace, P!ContainerWorkspace, P!VisibleCwd

(* On the host a call is refused exactly if a path of it, however it is     *)
(* written, leads out of the workspace.                                     *)
LEMMA BoundaryIsJudged ==
  ASSUME NEW N, HasWorkspace(N), NEW absolute \in BOOLEAN,
         NEW parts \in Seq(N), NEW sandbox
  PROVE  P!BoundaryJudged([absolute |-> absolute, parts |-> parts], sandbox)
<1> DEFINE H == P!HostWorkspace
           p == [absolute |-> absolute, parts |-> parts]
           M == P!Normal(parts)
<1>1. SUFFICES ASSUME sandbox # "docker"
               PROVE  P!Violation(P!Reported(p, sandbox), sandbox) <=> ~ P!InWorkspace(p, sandbox)
  BY DEF P!BoundaryJudged
<1>2. P!VisibleCwd(sandbox) = H
  BY <1>1 DEF P!VisibleCwd
<1>3. \A q : P!Mapped(q, sandbox) = q
  BY <1>1 DEF P!Mapped
<1>4. H \in Seq(N \ {Climb}) /\ M \in Seq(N \ {Climb})
  BY WorkspaceType, NormalType
<1>5. \A q : P!Violation(q, sandbox)
               <=> ~ P!IsPrefix(H, P!Normal(IF q.absolute THEN q.parts ELSE H \o q.parts))
  BY <1>1, <1>3 DEF P!Violation, P!Normalized
<1>6. P!InWorkspace(p, sandbox)
        <=> P!IsPrefix(H, P!Normal(IF absolute THEN parts ELSE H \o parts))
  BY <1>2 DEF P!InWorkspace
<1>7. CASE absolute /\ P!IsPrefix(H, M)
  <2>1. P!Reported(p, sandbox) = [absolute |-> FALSE, parts |-> P!Below(M, H)]
    BY <1>2, <1>7 DEF P!Reported, P!MakeRelative
  <2>2. H \o P!Below(M, H) = M
    BY <1>4, <1>7, PrefixAndRest
  <2>3. P!Normal(M) = M
    BY <1>4, PlainIsNormal
  <2>4. ~ P!Violation(P!Reported(p, sandbox), sandbox)
    <3> DEFINE q == P!Reported(p, sandbox)
    <3>1. q.absolute = FALSE /\ q.parts = P!Below(M, H)
      BY <2>1
    <3>2. P!Normal(H \o q.parts) = M
      BY <2>2, <2>3, <3>1
    <3>3. ~ P!Violation(q, sandbox)
      <4> HIDE DEF q, M, H
      <4> QED
        BY <1>5, <1>7, <3>1, <3>2
    <3> QED
      BY <3>3
  <2> QED
    BY <1>6, <1>7, <2>4
<1>8. CASE ~ (absolute /\ P!IsPrefix(H, M))
  <2>1. P!Reported(p, sandbox) = p
    BY <1>2, <1>8 DEF P!Reported, P!MakeRelative
  <2> QED
    BY <1>5, <1>6, <2>1
<1> QED
  BY <1>7, <1>8

-----------------------------------------------------------------------------
(* Paths: what is charged                                                   *)

(* A plain path is reported as the file it leads to.                        *)
LEMMA ReportIsTouched ==
  ASSUME NEW N, HasWorkspace(N), NEW absolute \in BOOLEAN,
         NEW parts \in Seq(N), NEW sandbox,
         P!Plain([absolute |-> absolute, parts |-> parts], sandbox)
  PROVE  LET p == [absolute |-> absolute, parts |-> parts]
         IN  /\ P!Touched(p, sandbox) \in Seq(N)
             /\ P!Reported(p, sandbox)
                  = [absolute |-> FALSE, parts |-> P!Touched(p, sandbox)]
<1> DEFINE C == P!VisibleCwd(sandbox)
           p == [absolute |-> absolute, parts |-> parts]
<1>1. C \in Seq(N \ {Climb})
  BY WorkspaceType
<1>2. parts \in Seq(N \ {Climb})
  <2>1. \A i \in 1 .. Len(parts) : parts[i] \in N \ {Climb}
    BY DEF P!Plain, Climb
  <2> QED
    BY <2>1, SeqDef
<1>3. P!Normal(parts) = parts
  BY <1>2, PlainIsNormal
<1>4. P!Normal(C \o parts) = C \o parts
  <2>1. C \o parts \in Seq(N \ {Climb})
    BY <1>1, <1>2
  <2> QED
    BY <2>1, PlainIsNormal
<1>5. CASE absolute
  <2>1. P!IsPrefix(C, parts)
    BY <1>3, <1>5 DEF P!Plain, P!InWorkspace
  <2>2. P!Touched(p, sandbox) = P!Below(parts, C)
    BY <1>3, <1>5 DEF P!Touched
  <2>3. P!Reported(p, sandbox) = [absolute |-> FALSE, parts |-> P!Below(parts, C)]
    BY <1>3, <1>5, <2>1 DEF P!Reported, P!MakeRelative
  <2>4. P!Below(parts, C) \in Seq(N)
    <3>1. C \in Seq(N)
      BY <1>1
    <3> QED
      BY <2>1, <3>1, PrefixAndRest
  <2> QED
    BY <2>2, <2>3, <2>4
<1>6. CASE ~ absolute
  <2>1. P!Touched(p, sandbox) = P!Below(C \o parts, C)
    BY <1>4, <1>6 DEF P!Touched
  <2>2. P!Below(C \o parts, C) = parts
    BY <1>1, <1>2, PrefixAndRest
  <2>3. P!Reported(p, sandbox) = p
    BY <1>6 DEF P!Reported, P!MakeRelative
  <2> QED
    BY <1>6, <2>1, <2>2, <2>3
<1> QED
  BY <1>5, <1>6

(* The ledger of the bandit and the evidence counts name that file.         *)
LEMMA ChargeIsTouched ==
  ASSUME NEW N, HasWorkspace(N), NEW absolute \in BOOLEAN,
         NEW parts \in Seq(N), NEW sandbox
  PROVE  P!ChargedAsTouched([absolute |-> absolute, parts |-> parts], sandbox)
<1> DEFINE p  == [absolute |-> absolute, parts |-> parts]
           at == P!Touched(p, sandbox)
           r  == [absolute |-> FALSE, parts |-> at]
<1>1. SUFFICES ASSUME P!Plain(p, sandbox)
               PROVE  /\ at[1] \in P!Roots \ {"traces"} =>
                           P!Charged(r) = at /\ P!Tracked(at)
                      /\ P!Bucket(r) = IF at[1] \in P!ToSet(P!Buckets) THEN at[1] ELSE "none"
  BY ReportIsTouched DEF P!ChargedAsTouched
<1>2. at \in Seq(N)
  BY <1>1, ReportIsTouched
<1>3. /\ Len(at) > 1
      /\ \A i \in 1 .. Len(at) : at[i] # "workspace" /\ (at[i] \in P!Roots => i = 1)
  BY <1>1, <1>2 DEF P!Plain
<1> HIDE DEF at
<1>4. \A q : q.parts = at => P!Occurs("workspace", q) = {}
  BY <1>2, <1>3 DEF P!Occurs
<1>5. P!Cut(r) = r /\ P!Cut([r EXCEPT !.absolute = FALSE]).parts = at
  <2>1. r.parts = at /\ r.absolute = FALSE /\ P!Occurs("workspace", r) = {}
    BY <1>4
  <2>2. P!After("workspace", r) = at
    <3> HIDE DEF r
    <3> QED
      BY <2>1 DEF P!After
  <2>3. P!Cut(r) = [absolute |-> FALSE, parts |-> at]
    <3> HIDE DEF r
    <3> QED
      BY <2>1, <2>2 DEF P!Cut
  <2>4. \A q : q.parts = at => P!Cut(q).parts = at
    BY <1>4 DEF P!Cut, P!After
  <2>5. [r EXCEPT !.absolute = FALSE].parts = at
    OBVIOUS
  <2> QED
    BY <2>3, <2>4, <2>5
<1>6. DOMAIN P!Markers = 1 .. 3 /\ \A k \in 1 .. 3 : P!Markers[k] \in P!Roots
  BY DEF P!Markers, P!Roots
<1>7. \A k \in 1 .. 3 : P!Occurs(P!Markers[k], r) = {}
  BY <1>2, <1>3, <1>6 DEF P!Occurs
<1>8. P!Charged(r) = at
  <2>1. {k \in DOMAIN P!Markers : P!Occurs(P!Markers[k], r) # {}} = {}
    BY <1>6, <1>7
  <2>2. r.parts = at
    OBVIOUS
  <2> HIDE DEF r
  <2> QED
    BY <1>5, <2>1, <2>2, Zenon DEF P!Charged
<1>9. at[1] \in P!Roots \ {"traces"} => P!Tracked(at)
  <2>1. at # <<>>
    BY <1>2, <1>3
  <2> QED
    BY <2>1 DEF P!Tracked, P!Roots
<1>10. P!Bucket(r) = IF at[1] \in P!ToSet(P!Buckets) THEN at[1] ELSE "none"
  <2> DEFINE found == {k \in DOMAIN P!Buckets :
                         \E i \in 1 .. Len(at) - 1 : at[i] = P!Buckets[k]}
  <2>1. DOMAIN P!Buckets = 1 .. 3 /\ \A k \in 1 .. 3 : P!Buckets[k] \in P!Roots
    BY DEF P!Buckets, P!Roots
  <2>2. \A k, l \in 1 .. 3 : P!Buckets[k] = P!Buckets[l] => k = l
    BY DEF P!Buckets
  <2>3. found = {k \in 1 .. 3 : at[1] = P!Buckets[k]}
    BY <1>2, <1>3, <2>1
  <2>4. P!Bucket(r) = IF found = {} THEN "none" ELSE P!Buckets[P!Min(found)]
    <3>1. r.parts = at
      OBVIOUS
    <3> HIDE DEF r
    <3> QED
      BY <1>5, <3>1, Zenon DEF P!Bucket
  <2>5. at[1] \in P!ToSet(P!Buckets) <=> found # {}
    BY <2>1, <2>3 DEF P!ToSet
  <2>6. ASSUME found # {} PROVE P!Buckets[P!Min(found)] = at[1]
    <3>0. PICK k \in found : TRUE
      BY <2>6
    <3>1. k \in 1 .. 3 /\ at[1] = P!Buckets[k] /\ found = {k}
      BY <2>2, <2>3, <3>0
    <3>2. P!Min({k}) = k
      BY DEF P!Min
    <3> QED
      BY <3>1, <3>2
  <2> HIDE DEF found
  <2> QED
    BY <2>4, <2>5, <2>6
<1> QED
  BY <1>8, <1>9, <1>10
-----------------------------------------------------------------------------
(* Commands: the arguments that are paths                                   *)

IsScan(f, args, Skips) ==
  f = [s \in SUBSET DOMAIN args |->
         IF s = {} THEN [paths |-> {}, skip |-> FALSE]
         ELSE S!Scan(Skips, f[s \ {Last(s)}], args[Last(s)])]

(* What was found after each argument. *)
IsScanning(at, args, Skips) ==
  /\ at[0] = [paths |-> {}, skip |-> FALSE]
  /\ \A k \in 1 .. Len(args) : at[k] = S!Scan(Skips, at[k - 1], args[k])

Found(N) == [paths : SUBSET N, skip : BOOLEAN]

LEMMA ScanType ==
  ASSUME NEW N, NEW found \in Found(N), NEW t \in N, NEW Skips
  PROVE  S!Scan(Skips, found, t) \in Found(N)
BY DEF S!Scan, Found

LEMMA ScanExists ==
  ASSUME NEW N, NEW args \in Seq(N), NEW Skips
  PROVE  \E f : IsScan(f, args, Skips)
<1> DEFINE n == Len(args)
           base == [paths |-> {}, skip |-> FALSE]
           pick == [s \in SUBSET (1 .. n) |-> Last(s)]
           step == [i \in 1 .. n |-> [found \in Found(N) |-> S!Scan(Skips, found, args[i])]]
<1>1. n \in Nat /\ DOMAIN args = 1 .. n /\ \A i \in 1 .. n : args[i] \in N
  OBVIOUS
<1>2. \A s \in SUBSET (1 .. n) : s # {} => pick[s] \in s
  BY <1>1, LastOf
<1>3. step \in [1 .. n -> [Found(N) -> Found(N)]]
  BY <1>1, ScanType
<1>4. base \in Found(N)
  BY DEF Found
<1>5. PICK g \in [SUBSET (1 .. n) -> Found(N)] : IsFold(g, n, base, step, pick)
  <2> HIDE DEF n, base, pick, step
  <2> QED
    BY <1>1, <1>2, <1>3, <1>4, FoldExists
<1>6. ASSUME NEW s \in SUBSET (1 .. n), s # {}
      PROVE  step[pick[s]][g[s \ {pick[s]}]]
               = S!Scan(Skips, g[s \ {Last(s)}], args[Last(s)])
  <2>1. pick[s] = Last(s) /\ Last(s) \in 1 .. n
    BY <1>2, <1>6
  <2>2. g[s \ {Last(s)}] \in Found(N)
    BY <1>5
  <2> QED
    BY <2>1, <2>2
<1>7. IsScan(g, args, Skips)
  BY <1>1, <1>5, <1>6, Zenon DEF IsFold, IsScan
<1> QED
  BY <1>7

LEMMA PathsAreScanned ==
  ASSUME NEW N, NEW args \in Seq(N), NEW Skips
  PROVE  \E at : IsScanning(at, args, Skips) /\ S!PathsAfter(args, Skips) = at[Len(args)].paths
<1>1. S!PathsAfter(args, Skips) = (CHOOSE f : IsScan(f, args, Skips))[DOMAIN args].paths
  BY Zenon DEF S!PathsAfter, S!FoldLeft, S!MapThenFoldSet, IsScan, Last, S!Max, P!Max
<1>2. PICK f : IsScan(f, args, Skips) /\ S!PathsAfter(args, Skips) = f[DOMAIN args].paths
  BY <1>1, ScanExists, Zenon
<1> DEFINE n == Len(args)
           at == [k \in 0 .. n |-> f[1 .. k]]
<1>3. n \in Nat /\ DOMAIN args = 1 .. n
  OBVIOUS
<1>4. f[{}] = [paths |-> {}, skip |-> FALSE]
  BY <1>2 DEF IsScan
<1>5. ASSUME NEW k \in 1 .. n
      PROVE  f[1 .. k] = S!Scan(Skips, f[1 .. k - 1], args[k])
  <2>1. 1 .. k \in SUBSET (1 .. n) /\ 1 .. k # {} /\ (1 .. k) \ {k} = 1 .. k - 1
    OBVIOUS
  <2>2. Last(1 .. k) = k
    BY <1>3, LastOf
  <2>3. f[1 .. k] = S!Scan(Skips, f[(1 .. k) \ {Last(1 .. k)}], args[Last(1 .. k)])
    BY <1>2, <1>3, <2>1 DEF IsScan
  <2> QED
    BY <2>1, <2>2, <2>3
<1>6. IsScanning(at, args, Skips)
  <2>1. at[0] = [paths |-> {}, skip |-> FALSE]
    <3>1. 1 .. 0 = {}
      OBVIOUS
    <3> QED
      BY <1>3, <1>4, <3>1
  <2> QED
    BY <1>3, <1>5, <2>1 DEF IsScanning
<1>7. S!PathsAfter(args, Skips) = at[n].paths
  BY <1>2, <1>3
<1> QED
  BY <1>6, <1>7

(* A path is found unless it, or what stands before it, is to be skipped.   *)
LEMMA PathIsFound ==
  ASSUME NEW N, NEW args \in Seq(N), NEW Skips, NEW x \in 1 .. Len(args),
         args[x] \notin Skips, S!LooksLikePath(args[x]),
         x = 1 \/ args[x - 1] \notin Skips
  PROVE  args[x] \in S!PathsAfter(args, Skips)
<1>1. PICK at : IsScanning(at, args, Skips) /\ S!PathsAfter(args, Skips) = at[Len(args)].paths
  BY PathsAreScanned
<1> DEFINE n == Len(args)
           T == {k \in Nat : k <= n =>
                   /\ at[k] \in Found(N)
                   /\ at[k].skip => k > 0 /\ args[k] \in Skips
                   /\ k >= x => args[x] \in at[k].paths}
<1>2. n \in Nat /\ \A i \in 1 .. n : args[i] \in N
  OBVIOUS
<1>3. 0 \in T
  <2>1. at[0] = [paths |-> {}, skip |-> FALSE]
    BY <1>1 DEF IsScanning
  <2>2. at[0] \in Found(N) /\ ~ at[0].skip
    BY <2>1 DEF Found
  <2> QED
    BY <2>2
<1>4. ASSUME NEW k \in Nat, k \in T PROVE k + 1 \in T
  <2> SUFFICES ASSUME k + 1 <= n
               PROVE  /\ at[k + 1] \in Found(N)
                      /\ at[k + 1].skip => args[k + 1] \in Skips
                      /\ k + 1 >= x => args[x] \in at[k + 1].paths
    OBVIOUS
  <2>1. at[k + 1] = S!Scan(Skips, at[k], args[k + 1])
    BY <1>1, <1>2 DEF IsScanning
  <2>2. /\ at[k] \in Found(N)
        /\ at[k].skip => k > 0 /\ args[k] \in Skips
        /\ k >= x => args[x] \in at[k].paths
    BY <1>2, <1>4
  <2>3. at[k + 1] \in Found(N)
    BY <1>2, <2>1, <2>2, ScanType
  <2>4. at[k + 1].skip => args[k + 1] \in Skips
    BY <2>1, <2>2 DEF S!Scan, Found
  <2>5. ASSUME k >= x PROVE args[x] \in at[k + 1].paths
    BY <2>1, <2>2, <2>5 DEF S!Scan, Found
  <2>6. ASSUME k + 1 = x PROVE args[x] \in at[k + 1].paths
    <3>1. ~ at[k].skip
      BY <2>2, <2>6
    <3>2. at[k + 1] = [at[k] EXCEPT !.paths = @ \cup {args[x]}]
      BY <2>1, <2>6, <3>1 DEF S!Scan
    <3> QED
      BY <2>2, <3>2 DEF Found
  <2> QED
    BY <2>3, <2>4, <2>5, <2>6
<1>5. n \in T
  <2> HIDE DEF T
  <2> QED
    BY <1>2, <1>3, <1>4, Induction
<1> QED
  BY <1>1, <1>2, <1>5
-----------------------------------------------------------------------------
(* Commands: the parts between separators                                   *)

First(s) == S!Min(s)

LEMMA FirstOf ==
  ASSUME NEW n \in Nat
  PROVE  /\ \A s \in SUBSET (1 .. n) : s # {} => First(s) \in s /\ \A x \in s : First(s) <= x
         /\ \A k \in 1 .. n : First(k .. n) = k
<1>1. ASSUME NEW s \in SUBSET (1 .. n), s # {}
      PROVE  First(s) \in s /\ \A x \in s : First(s) <= x
  <2>1. s \subseteq Nat
    BY <1>1
  <2>2. \E m \in s : \A x \in s : m <= x
    BY <1>1, <2>1, LeastNumber
  <2> QED
    BY <2>2 DEF First, S!Min
<1>2. ASSUME NEW k \in 1 .. n PROVE First(k .. n) = k
  <2>1. \A y \in k .. n : (\A x \in k .. n : y <= x) <=> y = k
    OBVIOUS
  <2> QED
    BY <2>1 DEF First, S!Min
<1> QED
  BY <1>1, <1>2

IsTaking(f, tokens) ==
  f = [s \in SUBSET DOMAIN tokens |->
         IF s = {} THEN << <<>> >> ELSE S!Take(tokens[First(s)], f[s \ {First(s)}])]

(* The parts of what stands from a token on; the first may grow to the left. *)
IsSplitting(at, tokens) ==
  /\ at[Len(tokens) + 1] = << <<>> >>
  /\ \A k \in 1 .. Len(tokens) : at[k] = S!Take(tokens[k], at[k + 1])

Parts(N) == Seq(Seq(N)) \ {<<>>}

LEMMA ConsType ==
  ASSUME NEW N, NEW u \in Seq(N), NEW rest \in Seq(Seq(N))
  PROVE  /\ S!Cons(u, rest) \in Parts(N)
         /\ Len(S!Cons(u, rest)) = Len(rest) + 1
         /\ S!Cons(u, rest)[1] = u
         /\ \A m \in 1 .. Len(rest) : S!Cons(u, rest)[m + 1] = rest[m]
<1>1. <<u>> \in Seq(Seq(N)) /\ Len(<<u>>) = 1 /\ <<u>>[1] = u
  OBVIOUS
<1>2. /\ <<u>> \o rest \in Seq(Seq(N))
      /\ Len(<<u>> \o rest) = Len(rest) + 1
      /\ \A i \in 1 .. Len(rest) + 1 :
           (<<u>> \o rest)[i] = IF i <= 1 THEN u ELSE rest[i - 1]
  BY <1>1, ConcatProperties
<1> QED
  BY <1>2 DEF S!Cons, Parts

(* A separator begins a new part. *)
LEMMA TakeSeparator ==
  ASSUME NEW N, NEW t \in S!Separators, NEW segments \in Parts(N)
  PROVE  /\ S!Take(t, segments) \in Parts(N)
         /\ Len(S!Take(t, segments)) = Len(segments) + 1
         /\ S!Take(t, segments)[1] = <<>>
         /\ \A m \in 1 .. Len(segments) : S!Take(t, segments)[m + 1] = segments[m]
<1> DEFINE u == <<>>
<1>1. S!Take(t, segments) = S!Cons(u, segments)
  BY DEF S!Take
<1>2. u \in Seq(N) /\ segments \in Seq(Seq(N))
  BY DEF Parts
<1> HIDE DEF u
<1>3. /\ S!Cons(u, segments) \in Parts(N)
      /\ Len(S!Cons(u, segments)) = Len(segments) + 1
      /\ S!Cons(u, segments)[1] = u
      /\ \A m \in 1 .. Len(segments) : S!Cons(u, segments)[m + 1] = segments[m]
  BY <1>2, ConsType
<1> QED
  BY <1>1, <1>3 DEF u

(* Any other token joins the first part. *)
LEMMA TakeOther ==
  ASSUME NEW N, NEW t \in N, t \notin S!Separators, NEW segments \in Parts(N)
  PROVE  /\ S!Take(t, segments) \in Parts(N)
         /\ Len(S!Take(t, segments)) = Len(segments)
         /\ S!Take(t, segments)[1] = <<t>> \o segments[1]
         /\ \A m \in 2 .. Len(segments) : S!Take(t, segments)[m] = segments[m]
<1> DEFINE u == <<t>> \o segments[1]
           rest == Tail(segments)
<1>1. segments \in Seq(Seq(N)) /\ Len(segments) \in Nat \ {0} /\ segments[1] \in Seq(N)
  BY DEF Parts
<1>2. S!Take(t, segments) = S!Cons(u, rest)
  BY DEF S!Take, S!Cons
<1>3. u \in Seq(N)
  BY <1>1
<1>4. /\ rest \in Seq(Seq(N)) /\ Len(rest) = Len(segments) - 1
      /\ \A m \in 1 .. Len(rest) : rest[m] = segments[m + 1]
  BY <1>1
<1> HIDE DEF u, rest
<1>5. /\ S!Cons(u, rest) \in Parts(N)
      /\ Len(S!Cons(u, rest)) = Len(rest) + 1
      /\ S!Cons(u, rest)[1] = u
      /\ \A m \in 1 .. Len(rest) : S!Cons(u, rest)[m + 1] = rest[m]
  BY <1>3, <1>4, ConsType
<1>6. ASSUME NEW m \in 2 .. Len(segments) PROVE S!Cons(u, rest)[m] = segments[m]
  <2>1. m - 1 \in 1 .. Len(rest) /\ (m - 1) + 1 = m
    BY <1>1, <1>4
  <2> QED
    BY <1>4, <1>5, <2>1
<1>7. Len(S!Cons(u, rest)) = Len(segments)
  BY <1>1, <1>4, <1>5
<1> QED
  BY <1>2, <1>5, <1>6, <1>7 DEF u

LEMMA TakeType ==
  ASSUME NEW N, NEW t \in N, NEW segments \in Parts(N)
  PROVE  S!Take(t, segments) \in Parts(N)
BY TakeSeparator, TakeOther

LEMMA TakingExists ==
  ASSUME NEW N, NEW tokens \in Seq(N)
  PROVE  \E f : IsTaking(f, tokens)
<1> DEFINE n == Len(tokens)
           base == << <<>> >>
           pick == [s \in SUBSET (1 .. n) |-> First(s)]
           step == [i \in 1 .. n |-> [parts \in Parts(N) |-> S!Take(tokens[i], parts)]]
<1>1. n \in Nat /\ DOMAIN tokens = 1 .. n /\ \A i \in 1 .. n : tokens[i] \in N
  OBVIOUS
<1>2. \A s \in SUBSET (1 .. n) : s # {} => pick[s] \in s
  BY <1>1, FirstOf
<1>3. step \in [1 .. n -> [Parts(N) -> Parts(N)]]
  BY <1>1, TakeType
<1>4. base \in Parts(N)
  BY DEF Parts
<1>5. PICK g \in [SUBSET (1 .. n) -> Parts(N)] : IsFold(g, n, base, step, pick)
  <2> HIDE DEF n, base, pick, step
  <2> QED
    BY <1>1, <1>2, <1>3, <1>4, FoldExists
<1>6. ASSUME NEW s \in SUBSET (1 .. n), s # {}
      PROVE  step[pick[s]][g[s \ {pick[s]}]]
               = S!Take(tokens[First(s)], g[s \ {First(s)}])
  <2>1. pick[s] = First(s) /\ First(s) \in 1 .. n
    BY <1>2, <1>6
  <2>2. g[s \ {First(s)}] \in Parts(N)
    BY <1>5
  <2> QED
    BY <2>1, <2>2
<1>7. IsTaking(g, tokens)
  BY <1>1, <1>5, <1>6, Zenon DEF IsFold, IsTaking
<1> QED
  BY <1>7

LEMMA SegmentsAreSplit ==
  ASSUME NEW N, NEW tokens \in Seq(N)
  PROVE  \E at : IsSplitting(at, tokens) /\ S!Segments(tokens) = S!ToSet(at[1]) \ {<<>>}
<1>1. S!Segments(tokens)
        = S!ToSet((CHOOSE f : IsTaking(f, tokens))[DOMAIN tokens]) \ {<<>>}
  BY Zenon DEF S!Segments, S!FoldRight, S!MapThenFoldSet, IsTaking, First
<1>2. PICK f : IsTaking(f, tokens) /\ S!Segments(tokens) = S!ToSet(f[DOMAIN tokens]) \ {<<>>}
  BY <1>1, TakingExists, Zenon
<1> DEFINE n == Len(tokens)
           at == [k \in 1 .. n + 1 |-> f[k .. n]]
<1>3. n \in Nat /\ DOMAIN tokens = 1 .. n
  OBVIOUS
<1>4. f[{}] = << <<>> >>
  BY <1>2 DEF IsTaking
<1>5. ASSUME NEW k \in 1 .. n
      PROVE  f[k .. n] = S!Take(tokens[k], f[k + 1 .. n])
  <2>1. k .. n \in SUBSET (1 .. n) /\ k .. n # {} /\ (k .. n) \ {k} = k + 1 .. n
    OBVIOUS
  <2>2. First(k .. n) = k
    BY <1>3, FirstOf
  <2>3. f[k .. n] = S!Take(tokens[First(k .. n)], f[(k .. n) \ {First(k .. n)}])
    BY <1>2, <1>3, <2>1 DEF IsTaking
  <2> QED
    BY <2>1, <2>2, <2>3
<1>6. IsSplitting(at, tokens)
  <2>1. at[n + 1] = << <<>> >>
    <3>1. n + 1 .. n = {}
      BY <1>3
    <3> QED
      BY <1>3, <1>4, <3>1
  <2>2. ASSUME NEW k \in 1 .. n PROVE at[k] = S!Take(tokens[k], at[k + 1])
    <3>1. k \in 1 .. n + 1 /\ k + 1 \in 1 .. n + 1
      BY <1>3
    <3>2. at[k] = f[k .. n] /\ at[k + 1] = f[k + 1 .. n]
      BY <3>1
    <3> QED
      BY <1>5, <3>2
  <2> HIDE DEF at
  <2> QED
    BY <2>1, <2>2 DEF IsSplitting
<1>7. S!Segments(tokens) = S!ToSet(at[1]) \ {<<>>}
  BY <1>2, <1>3
<1> QED
  BY <1>6, <1>7
(* The tokens from k up to e are a part, or the end of one.                 *)
IsRun(tokens, k, e) ==
  /\ e \in k .. Len(tokens) + 1
  /\ \A j \in k .. e - 1 : tokens[j] \notin S!Separators
  /\ e = Len(tokens) + 1 \/ tokens[e] \in S!Separators

(* What stands from k on is split at its separators.                        *)
SplitFrom(parts, tokens, k) ==
  /\ \A e : IsRun(tokens, k, e) => parts[1] = SubSeq(tokens, k, e - 1)
  /\ \A j \in k .. Len(tokens) : \A e :
       tokens[j] \in S!Separators /\ IsRun(tokens, j + 1, e) =>
         \E m \in 2 .. Len(parts) : parts[m] = SubSeq(tokens, j + 1, e - 1)

LEMMA SplitStep ==
  ASSUME NEW N, NEW tokens \in Seq(N), NEW k \in 1 .. Len(tokens),
         NEW parts \in Parts(N), SplitFrom(parts, tokens, k + 1)
  PROVE  SplitFrom(S!Take(tokens[k], parts), tokens, k)
<1> DEFINE more == S!Take(tokens[k], parts)
<1>1. Len(parts) \in Nat \ {0} /\ tokens[k] \in N /\ Len(tokens) \in Nat
  BY DEF Parts
<1>2. CASE tokens[k] \in S!Separators
  <2>1. /\ Len(more) = Len(parts) + 1
        /\ more[1] = <<>>
        /\ \A m \in 1 .. Len(parts) : more[m + 1] = parts[m]
    BY <1>2, TakeSeparator
  <2> HIDE DEF more
  <2>2. ASSUME NEW e, IsRun(tokens, k, e) PROVE more[1] = SubSeq(tokens, k, e - 1)
    <3>1. e = k
      BY <1>2, <2>2 DEF IsRun
    <3>2. SubSeq(tokens, k, k - 1) = <<>>
      OBVIOUS
    <3> QED
      BY <2>1, <3>1, <3>2
  <2>3. ASSUME NEW j \in k .. Len(tokens), NEW e,
               tokens[j] \in S!Separators, IsRun(tokens, j + 1, e)
        PROVE  \E m \in 2 .. Len(more) : more[m] = SubSeq(tokens, j + 1, e - 1)
    <3>1. CASE j = k
      <4>1. parts[1] = SubSeq(tokens, k + 1, e - 1)
        BY <2>3, <3>1 DEF SplitFrom
      <4>2. 1 \in 1 .. Len(parts) /\ 1 + 1 \in 2 .. Len(more)
        BY <1>1, <2>1
      <4>3. more[1 + 1] = parts[1]
        BY <2>1, <4>2
      <4> QED
        BY <3>1, <4>1, <4>2, <4>3
    <3>2. CASE j # k
      <4>1. j \in k + 1 .. Len(tokens)
        BY <3>2
      <4>2. PICK m \in 2 .. Len(parts) : parts[m] = SubSeq(tokens, j + 1, e - 1)
        BY <2>3, <4>1 DEF SplitFrom
      <4>3. m \in 1 .. Len(parts) /\ m + 1 \in 2 .. Len(more)
        BY <1>1, <2>1
      <4> QED
        BY <2>1, <4>2, <4>3
    <3> QED
      BY <3>1, <3>2
  <2> QED
    BY <2>2, <2>3 DEF SplitFrom, more
<1>3. CASE tokens[k] \notin S!Separators
  <2>1. /\ Len(more) = Len(parts)
        /\ more[1] = <<tokens[k]>> \o parts[1]
        /\ \A m \in 2 .. Len(parts) : more[m] = parts[m]
    BY <1>1, <1>3, TakeOther
  <2> HIDE DEF more
  <2>2. ASSUME NEW e, IsRun(tokens, k, e) PROVE more[1] = SubSeq(tokens, k, e - 1)
    <3>1. e \in k + 1 .. Len(tokens) + 1
      BY <1>1, <1>3, <2>2 DEF IsRun
    <3>2. IsRun(tokens, k + 1, e)
      BY <1>1, <2>2, <3>1 DEF IsRun
    <3>3. parts[1] = SubSeq(tokens, k + 1, e - 1)
      BY <3>2 DEF SplitFrom
    <3>4. e - 1 \in k .. Len(tokens)
      BY <1>1, <3>1
    <3>5. SubSeq(tokens, k, e - 1) = <<tokens[k]>> \o SubSeq(tokens, k + 1, e - 1)
      BY <3>4, SubSeqRecursiveFirst
    <3> QED
      BY <2>1, <3>3, <3>5
  <2>3. ASSUME NEW j \in k .. Len(tokens), NEW e,
               tokens[j] \in S!Separators, IsRun(tokens, j + 1, e)
        PROVE  \E m \in 2 .. Len(more) : more[m] = SubSeq(tokens, j + 1, e - 1)
    <3>1. j \in k + 1 .. Len(tokens)
      BY <1>3, <2>3
    <3>2. PICK m \in 2 .. Len(parts) : parts[m] = SubSeq(tokens, j + 1, e - 1)
      BY <2>3, <3>1 DEF SplitFrom
    <3> QED
      BY <2>1, <3>2
  <2> QED
    BY <2>2, <2>3 DEF SplitFrom, more
<1> QED
  BY <1>2, <1>3

LEMMA SplitAtSeparators ==
  ASSUME NEW N, NEW tokens \in Seq(N), NEW at, IsSplitting(at, tokens)
  PROVE  at[1] \in Parts(N) /\ SplitFrom(at[1], tokens, 1)
<1> DEFINE n == Len(tokens)
           T == {d \in Nat : d <= n =>
                   at[n + 1 - d] \in Parts(N) /\ SplitFrom(at[n + 1 - d], tokens, n + 1 - d)}
<1>1. n \in Nat /\ \A i \in 1 .. n : tokens[i] \in N
  OBVIOUS
<1>2. 0 \in T
  <2> DEFINE last == at[n + 1]
  <2>1. last = << <<>> >>
    BY DEF IsSplitting
  <2>2. last \in Parts(N) /\ last[1] = <<>>
    BY <2>1 DEF Parts
  <2>3. ASSUME NEW e, IsRun(tokens, n + 1, e)
        PROVE  <<>> = SubSeq(tokens, n + 1, e - 1)
    <3>1. e = n + 1
      BY <1>1, <2>3 DEF IsRun
    <3> QED
      BY <1>1, <3>1
  <2>4. n + 1 .. n = {}
    BY <1>1
  <2> HIDE DEF last
  <2>5. SplitFrom(last, tokens, n + 1)
    BY <2>2, <2>3, <2>4 DEF SplitFrom
  <2>6. n + 1 - 0 = n + 1
    BY <1>1
  <2> QED
    BY <2>2, <2>5, <2>6 DEF last
<1>3. ASSUME NEW d \in Nat, d \in T PROVE d + 1 \in T
  <2> DEFINE k == n + 1 - (d + 1)
  <2> SUFFICES ASSUME d + 1 <= n
               PROVE  at[k] \in Parts(N) /\ SplitFrom(at[k], tokens, k)
    OBVIOUS
  <2>1. k \in 1 .. n /\ k + 1 = n + 1 - d
    BY <1>1
  <2>2. at[k + 1] \in Parts(N) /\ SplitFrom(at[k + 1], tokens, k + 1)
    BY <1>1, <1>3, <2>1
  <2> HIDE DEF k
  <2>3. at[k] = S!Take(tokens[k], at[k + 1])
    BY <2>1 DEF IsSplitting
  <2>4. tokens[k] \in N
    BY <1>1, <2>1
  <2> QED
    BY <2>1, <2>2, <2>3, <2>4, SplitStep, TakeType
<1>4. n \in T
  <2> HIDE DEF T
  <2> QED
    BY <1>1, <1>2, <1>3, Induction
<1>5. n + 1 - n = 1
  BY <1>1
<1> QED
  BY <1>1, <1>4, <1>5

(* The place behind the last end before a place.                            *)
LEMMA BehindLastOf ==
  ASSUME NEW tokens, NEW Ends, NEW i \in Nat \ {0}
  PROVE  /\ S!BehindLast(tokens, Ends, i) \in 1 .. i
         /\ \A j \in S!BehindLast(tokens, Ends, i) .. i - 1 : tokens[j] \notin Ends
         /\ \/ S!BehindLast(tokens, Ends, i) = 1
            \/ tokens[S!BehindLast(tokens, Ends, i) - 1] \in Ends
<1> DEFINE X == {1} \cup {j \in 2 .. i : tokens[j - 1] \in Ends}
           z == S!Max(X)
<1>1. X \in SUBSET (1 .. i) /\ X # {}
  OBVIOUS
<1>2. \E m \in X : \A x \in X : x <= m
  <2> HIDE DEF X
  <2> QED
    BY <1>1, GreatestPlace
<1>3. z \in X /\ \A x \in X : z >= x
  <2>1. \E m \in X : \A x \in X : m >= x
    BY <1>1, <1>2
  <2> HIDE DEF X
  <2> QED
    BY <2>1 DEF S!Max
<1>4. S!BehindLast(tokens, Ends, i) = z
  BY DEF S!BehindLast
<1> HIDE DEF z
<1>5. z \in 1 .. i /\ (z = 1 \/ tokens[z - 1] \in Ends)
  BY <1>3
<1>6. ASSUME NEW j \in z .. i - 1 PROVE tokens[j] \notin Ends
  <2>1. j + 1 \in 2 .. i /\ (j + 1) - 1 = j /\ j + 1 > z
    BY <1>5
  <2>2. j + 1 \notin X
    BY <1>3, <1>5, <2>1
  <2> QED
    BY <2>1, <2>2
<1> QED
  BY <1>4, <1>5, <1>6

(* A command of the shell begins at or before each of its tokens, and no    *)
(* separator stands between.                                                *)
LEMMA StartOf ==
  ASSUME NEW tokens, NEW lines \in SUBSET Nat, 0 \notin lines, NEW i \in Nat \ {0}
  PROVE  /\ S!Start(tokens, lines, i) \in 1 .. i
         /\ \A j \in S!Start(tokens, lines, i) .. i - 1 : tokens[j] \notin S!Separators
<1> DEFINE Ends == S!Separators \cup {"&"}
           l == S!BehindLast(tokens, Ends, i)
           X == {l} \cup {j \in lines : j <= i}
<1>1. l \in 1 .. i /\ \A j \in l .. i - 1 : tokens[j] \notin Ends
  <2> HIDE DEF Ends
  <2> QED
    BY BehindLastOf
<1> HIDE DEF l
<1>2. X \in SUBSET (1 .. i) /\ X # {}
  <2>1. \A j \in lines : j <= i => j \in 1 .. i
    OBVIOUS
  <2>2. \A x \in X : x \in 1 .. i
    BY <1>1, <2>1
  <2>3. l \in X
    OBVIOUS
  <2> HIDE DEF X
  <2> QED
    BY <2>2, <2>3
<1>3. \E m \in X : \A x \in X : m >= x
  <2>1. \E m \in X : \A x \in X : x <= m
    <3> HIDE DEF X
    <3> QED
      BY <1>2, GreatestPlace
  <2> QED
    BY <1>2, <2>1
<1> DEFINE z == S!Max(X)
<1>4. z \in X /\ \A x \in X : z >= x
  <2> HIDE DEF X
  <2> QED
    BY <1>3 DEF S!Max
<1>5. S!Start(tokens, lines, i) = z
  BY DEF S!Start, l
<1>6. z \in 1 .. i /\ z >= l
  BY <1>2, <1>4
<1> HIDE DEF z
<1>7. ASSUME NEW j \in z .. i - 1 PROVE tokens[j] \notin S!Separators
  BY <1>1, <1>6
<1> QED
  BY <1>5, <1>6, <1>7

(* It ends before the next one, or with the tokens.                         *)
LEMMA EndOf ==
  ASSUME NEW N, NEW tokens \in Seq(N), NEW i \in 1 .. Len(tokens),
         NEW s \in 1 .. i, \A j \in s .. i : tokens[j] \notin S!Separators
  PROVE  \E e : e > i /\ IsRun(tokens, s, e)
<1> DEFINE n == Len(tokens)
           E == {e \in s .. n + 1 : e = n + 1 \/ tokens[e] \in S!Separators}
<1>1. n \in Nat
  OBVIOUS
<1>2. E \subseteq Nat /\ n + 1 \in E
  BY <1>1
<1>3. PICK e \in E : \A m \in E : e <= m
  <2> HIDE DEF E
  <2> QED
    BY <1>2, LeastNumber
<1>4. e \in s .. n + 1 /\ (e = n + 1 \/ tokens[e] \in S!Separators)
  OBVIOUS
<1>5. e > i
  BY <1>1, <1>4
<1>6. ASSUME NEW j \in s .. e - 1 PROVE tokens[j] \notin S!Separators
  <2>1. j \in s .. n + 1 /\ j < e
    BY <1>1, <1>4
  <2>2. j \notin E
    BY <1>3, <2>1
  <2> QED
    BY <2>1, <2>2
<1> QED
  BY <1>4, <1>5, <1>6 DEF IsRun

(* What stands from a separator to a token of its part is in one of the     *)
(* parts, which may go on behind that token.                                *)
LEMMA SegmentOf ==
  ASSUME NEW N, NEW tokens \in Seq(N), NEW i \in 1 .. Len(tokens), NEW s \in 1 .. i,
         \A j \in s .. i : tokens[j] \notin S!Separators,
         s = 1 \/ tokens[s - 1] \in S!Separators
  PROVE  \E e \in i + 1 .. Len(tokens) + 1 : SubSeq(tokens, s, e - 1) \in S!Segments(tokens)
<1>1. /\ s \in 1 .. i
      /\ \A j \in s .. i : tokens[j] \notin S!Separators
      /\ s = 1 \/ tokens[s - 1] \in S!Separators
  OBVIOUS
<1>2. PICK e : e > i /\ IsRun(tokens, s, e)
  BY <1>1, EndOf
<1>3. e \in i + 1 .. Len(tokens) + 1
  BY <1>1, <1>2 DEF IsRun
<1> DEFINE part == SubSeq(tokens, s, e - 1)
<1>4. PICK at : IsSplitting(at, tokens) /\ S!Segments(tokens) = S!ToSet(at[1]) \ {<<>>}
  BY SegmentsAreSplit
<1> DEFINE parts == at[1]
<1>5. parts \in Parts(N) /\ SplitFrom(parts, tokens, 1)
  BY <1>4, SplitAtSeparators
<1> HIDE DEF parts
<1>6. \E m \in 1 .. Len(parts) : parts[m] = part
  <2>1. CASE s = 1
    <3>1. parts[1] = part
      BY <1>2, <1>5, <2>1 DEF SplitFrom
    <3>2. 1 \in 1 .. Len(parts)
      BY <1>5 DEF Parts
    <3> QED
      BY <3>1, <3>2
  <2>2. CASE s # 1
    <3>1. /\ s - 1 \in 1 .. Len(tokens) /\ (s - 1) + 1 = s
          /\ tokens[s - 1] \in S!Separators
      BY <1>1, <2>2
    <3>2. \E m \in 2 .. Len(parts) : parts[m] = SubSeq(tokens, (s - 1) + 1, e - 1)
      BY <1>2, <1>5, <3>1 DEF SplitFrom
    <3> QED
      BY <3>1, <3>2
  <2> QED
    BY <2>1, <2>2
<1>7. part \in S!ToSet(parts)
  <2>1. DOMAIN parts = 1 .. Len(parts)
    BY <1>5 DEF Parts
  <2> QED
    BY <1>6, <2>1 DEF S!ToSet
<1>8. part # <<>>
  <2>1. Len(part) = e - s
    BY <1>1, <1>3
  <2>2. Len(part) > 0
    BY <1>1, <1>3, <2>1
  <2> HIDE DEF part
  <2> QED
    BY <2>2
<1>9. part \in S!Segments(tokens)
  BY <1>4, <1>7, <1>8 DEF parts
<1> QED
  BY <1>3, <1>9

-----------------------------------------------------------------------------
(* Commands: what stands before the name of one                             *)

Assignments == {"env", "A=1"}
Runners == {"sudo", "timeout"}

(* Stripping drops assignments and nothing else.                            *)
LEMMA StripOf ==
  ASSUME NEW N, NEW w \in Seq(N), NEW m \in 1 .. Len(w), w[m] \notin Assignments
  PROVE  \E k \in 1 .. m :
           /\ S!StripEnvAssignments(w) = SubSeq(w, k, Len(w))
           /\ w[k] \notin Assignments
           /\ \A j \in 1 .. k - 1 : w[j] \in Assignments
<1> DEFINE kept == {i \in DOMAIN w : w[i] \notin Assignments}
           k == First(kept)
<1>1. Len(w) \in Nat /\ DOMAIN w = 1 .. Len(w) /\ kept \in SUBSET (1 .. Len(w)) /\ m \in kept
  OBVIOUS
<1>2. kept # {}
  BY <1>1
<1>3. S!StripEnvAssignments(w) = SubSeq(w, k, Len(w))
  BY <1>2 DEF S!StripEnvAssignments, First, Assignments
<1>4. k \in kept /\ \A x \in kept : k <= x
  <2> HIDE DEF kept
  <2> QED
    BY <1>1, <1>2, FirstOf
<1>5. k \in 1 .. m /\ w[k] \notin Assignments
  BY <1>1, <1>4
<1>6. ASSUME NEW j \in 1 .. k - 1 PROVE w[j] \in Assignments
  <2>1. j \in 1 .. Len(w) /\ j < k
    BY <1>5
  <2> HIDE DEF k
  <2> QED
    BY <1>4, <2>1
<1> QED
  BY <1>3, <1>5, <1>6

(* What is left of a part begins with the first token that is neither an    *)
(* assignment nor the one wrapper before it.                                *)
CommandBegins(w, k) ==
  /\ w[k] \notin Assignments
  /\ \/ w[k] \notin Runners /\ \A j \in 1 .. k - 1 : w[j] \in Assignments
     \/ \E q \in 1 .. k - 1 : w[q] \in Runners

LEMMA CommandOf ==
  ASSUME NEW N, NEW w \in Seq(N), NEW m \in 1 .. Len(w),
         w[m] \notin Assignments \cup Runners
  PROVE  \E k \in 1 .. m :
           S!Command(w) = SubSeq(w, k, Len(w)) /\ CommandBegins(w, k)
<1> DEFINE n == Len(w)
<1>1. n \in Nat /\ w[m] \notin Assignments
  OBVIOUS
<1>2. PICK k \in 1 .. m :
        /\ S!StripEnvAssignments(w) = SubSeq(w, k, n)
        /\ w[k] \notin Assignments
        /\ \A j \in 1 .. k - 1 : w[j] \in Assignments
  BY <1>1, StripOf
<1> DEFINE stripped == SubSeq(w, k, n)
<1>3. /\ stripped \in Seq(N) /\ Len(stripped) = n - k + 1
      /\ \A i \in 1 .. n - k + 1 : stripped[i] = w[k + i - 1]
  BY <1>2
<1>4. stripped[1] = w[k]
  BY <1>1, <1>2
<1>5. S!Command(w) = IF Len(stripped) > 1 /\ stripped[1] \in S!Wrappers
                     THEN S!StripEnvAssignments(Tail(stripped)) ELSE stripped
  BY <1>2 DEF S!Command
<1> HIDE DEF stripped
<1>6. CASE w[k] \notin Runners
  <2>1. stripped[1] \notin S!Wrappers
    BY <1>2, <1>4, <1>6 DEF S!Wrappers, Assignments, Runners
  <2>2. S!Command(w) = SubSeq(w, k, n)
    BY <1>5, <2>1 DEF stripped
  <2>3. CommandBegins(w, k)
    BY <1>2, <1>6 DEF CommandBegins
  <2> QED
    BY <2>2, <2>3
<1>7. CASE w[k] \in Runners
  <2> DEFINE rest == Tail(stripped)
  <2>1. k < m
    BY <1>2, <1>7
  <2>2. S!Command(w) = S!StripEnvAssignments(rest)
    BY <1>2, <1>3, <1>4, <1>5, <1>7, <2>1 DEF S!Wrappers, Runners
  <2>3. stripped # <<>>
    BY <1>2, <1>3
  <2>4. /\ rest \in Seq(N) /\ Len(rest) = n - k
        /\ \A i \in 1 .. n - k : rest[i] = w[k + i]
    BY <1>1, <1>2, <1>3, <2>3
  <2> HIDE DEF rest
  <2>5. m - k \in 1 .. Len(rest) /\ rest[m - k] \notin Assignments
    BY <1>1, <2>1, <2>4
  <2>6. PICK l \in 1 .. m - k :
          /\ S!StripEnvAssignments(rest) = SubSeq(rest, l, Len(rest))
          /\ rest[l] \notin Assignments
    BY <2>4, <2>5, StripOf
  <2>7. k + l \in 1 .. m /\ w[k + l] \notin Assignments /\ k \in 1 .. (k + l) - 1
    <3>1. l \in 1 .. n - k /\ k + l \in 1 .. m /\ k \in 1 .. (k + l) - 1
      BY <1>1, <1>2, <2>1, <2>6
    <3>2. rest[l] = w[k + l]
      BY <2>4, <3>1
    <3> QED
      BY <2>6, <3>1, <3>2
  <2>8. SubSeq(rest, l, Len(rest)) = SubSeq(w, k + l, n)
    <3> DEFINE a == SubSeq(rest, l, Len(rest))
               b == SubSeq(w, k + l, n)
    <3>1. /\ a \in Seq(N) /\ Len(a) = n - k - l + 1
          /\ \A i \in 1 .. n - k - l + 1 : a[i] = rest[l + i - 1]
      BY <1>1, <2>4, <2>6
    <3>2. /\ b \in Seq(N) /\ Len(b) = n - k - l + 1
          /\ \A i \in 1 .. n - k - l + 1 : b[i] = w[k + l + i - 1]
      BY <1>1, <2>6, <2>7
    <3>3. ASSUME NEW i \in 1 .. n - k - l + 1 PROVE rest[l + i - 1] = w[k + l + i - 1]
      <4>1. l + i - 1 \in 1 .. n - k /\ k + (l + i - 1) = k + l + i - 1
        BY <1>1, <2>6
      <4> QED
        BY <2>4, <4>1
    <3>4. n - k - l + 1 \in Nat
      BY <1>1, <1>2, <2>6
    <3> HIDE DEF a, b
    <3>5. \A i \in 1 .. Len(a) : a[i] = b[i]
      BY <3>1, <3>2, <3>3
    <3>6. a = b
      BY <3>1, <3>2, <3>5, SeqEqual
    <3> QED
      BY <3>6 DEF a, b
  <2>9. CommandBegins(w, k + l)
    BY <1>7, <2>7 DEF CommandBegins
  <2> QED
    BY <2>2, <2>6, <2>7, <2>8, <2>9
<1> QED
  BY <1>6, <1>7

-----------------------------------------------------------------------------
(* Commands: what they read and write is reported                           *)

LEMMA NoSeparators ==
  \A t \in S!Files \cup {">"} : t \notin S!Separators
BY Zenon DEF S!Files, S!Separators

(* The file behind a > is written, whatever the command.                    *)
LEMMA RedirectIsReported ==
  ASSUME NEW tokens \in Seq(S!Tokens), NEW i \in 2 .. Len(tokens),
         tokens[i] \in S!Files, tokens[i - 1] = ">"
  PROVE  tokens[i] \in S!Access(tokens).written_paths
<1> DEFINE n == Len(tokens)
           s == S!BehindLast(tokens, S!Separators, i)
<1>1. n \in Nat /\ tokens[i] \notin S!Separators /\ tokens[i - 1] \notin S!Separators
  BY NoSeparators
<1>2. /\ s \in 1 .. i - 1 /\ (s = 1 \/ tokens[s - 1] \in S!Separators)
      /\ \A j \in s .. i : tokens[j] \notin S!Separators
  <2>1. /\ s \in 1 .. i /\ (s = 1 \/ tokens[s - 1] \in S!Separators)
        /\ \A j \in s .. i - 1 : tokens[j] \notin S!Separators
    BY BehindLastOf
  <2> HIDE DEF s
  <2> QED
    BY <1>1, <2>1
<1>3. PICK e \in i + 1 .. n + 1 : SubSeq(tokens, s, e - 1) \in S!Segments(tokens)
  <2> HIDE DEF s
  <2>1. s \in 1 .. i /\ i \in 1 .. Len(tokens)
    BY <1>1, <1>2
  <2> QED
    BY <1>2, <2>1, SegmentOf
<1> DEFINE w == SubSeq(tokens, s, e - 1)
<1> HIDE DEF s
<1>4. /\ w \in Seq(S!Tokens) /\ Len(w) = e - s
      /\ \A j \in 1 .. e - s : w[j] = tokens[s + j - 1]
  BY <1>1, <1>3, <1>2
<1>5. i - s \in 1 .. Len(w) /\ w[i - s] = ">" /\ w[i - s + 1] = tokens[i]
  <2>1. i - s \in 1 .. e - s /\ i - s + 1 \in 1 .. e - s
    BY <1>1, <1>3, <1>2
  <2>2. w[i - s] = tokens[s + (i - s) - 1] /\ w[i - s + 1] = tokens[s + (i - s + 1) - 1]
    BY <1>4, <2>1
  <2>3. s + (i - s) - 1 = i - 1 /\ s + (i - s + 1) - 1 = i
    BY <1>2
  <2> QED
    BY <1>4, <2>1, <2>2, <2>3
<1> DEFINE m == i - s
<1> HIDE DEF w
<1>6. PICK k \in 1 .. m : S!Command(w) = SubSeq(w, k, Len(w))
  BY <1>4, <1>5, CommandOf DEF Assignments, Runners
<1> DEFINE c == SubSeq(w, k, Len(w))
<1>7. m \in Nat /\ m + 1 <= Len(w) /\ Len(w) \in Nat
  BY <1>3, <1>2, <1>4
<1>8. /\ c \in Seq(S!Tokens) /\ Len(c) = Len(w) - k + 1
      /\ \A j \in 1 .. Len(w) - k + 1 : c[j] = w[k + j - 1]
  BY <1>4, <1>6, <1>7
<1>9. m - k + 1 \in 1 .. Len(c) - 1 /\ c[m - k + 1] = ">" /\ c[(m - k + 1) + 1] = tokens[i]
  <2> HIDE DEF c, m
  <2>0. k \in Int /\ m \in Int
    BY <1>6, <1>7
  <2>1. m - k + 1 \in 1 .. Len(c) - 1 /\ (m - k + 1) + 1 \in 1 .. Len(c)
    BY <1>6, <1>7, <1>8
  <2>2. k + (m - k + 1) - 1 = m /\ k + ((m - k + 1) + 1) - 1 = m + 1
    BY <2>0
  <2> DEFINE x == m - k + 1
  <2> HIDE DEF x
  <2>3. x \in 1 .. Len(w) - k + 1 /\ x + 1 \in 1 .. Len(w) - k + 1
    BY <1>6, <1>7, <1>8, <2>1 DEF x
  <2>4. c[x] = w[k + x - 1] /\ c[x + 1] = w[k + (x + 1) - 1]
    BY <1>8, <2>3
  <2>5. c[m - k + 1] = w[m] /\ c[(m - k + 1) + 1] = w[m + 1]
    BY <2>2, <2>4 DEF x
  <2> QED
    BY <1>5, <2>1, <2>5 DEF m
<1>10. c \in S!Commands(tokens)
  <2>1. c # <<>>
    BY <1>8, <1>9
  <2> QED
    BY <1>3, <1>6, <2>1 DEF S!Commands, w
<1>11. tokens[i] \in S!RedirectPaths(c)
  BY <1>9 DEF S!RedirectPaths, S!LooksLikePath
<1>12. tokens[i] \in S!CommandWrites(c)
  BY <1>11 DEF S!CommandWrites
<1> QED
  BY <1>10, <1>12 DEF S!Access

Known == S!Printing \cup {"tee"}

(* The name of a command that is not hidden is before what belongs to it.   *)
LEMMA NameIsBefore ==
  ASSUME NEW tokens \in Seq(S!Tokens), NEW lines \in SUBSET DOMAIN tokens,
         NEW i \in 1 .. Len(tokens), NEW q \in 1 .. Len(tokens),
         tokens[i] \in S!Files, tokens[q] \in Known,
         S!Runs(tokens, lines, q, i), ~ S!Hidden(tokens, q)
  PROVE  /\ q < i
         /\ \A j \in S!BehindLast(tokens, S!Separators, q) .. i : tokens[j] \notin S!Separators
<1> DEFINE s == S!Start(tokens, lines, i)
           b == S!BehindLast(tokens, S!Separators, q)
<1>1. lines \in SUBSET Nat /\ 0 \notin lines
  OBVIOUS
<1>2. /\ s \in 1 .. i /\ \A j \in s .. i - 1 : tokens[j] \notin S!Separators
      /\ s \in 1 .. q /\ \A j \in s .. q - 1 : tokens[j] \notin S!Separators
  <2>1. S!Start(tokens, lines, q) = s
    BY DEF S!Runs
  <2> QED
    BY <1>1, <2>1, StartOf
<1>3. /\ b \in 1 .. q /\ \A j \in b .. q - 1 : tokens[j] \notin S!Separators
      /\ b = 1 \/ tokens[b - 1] \in S!Separators
  BY BehindLastOf
<1>4. tokens[i] \notin S!Separators /\ tokens[q] \notin S!Separators /\ q # i
        /\ tokens[i] \notin {"A=1"} \cup S!Wrappers
  BY Zenon DEF Known, S!Printing, S!Files, S!Separators, S!Wrappers
<1>5. \A j \in b .. q - 1 : tokens[j] \in {"A=1"} \cup S!Wrappers
  BY Zenon DEF S!Hidden
<1> HIDE DEF s, b
<1>6. q < i
  <2> SUFFICES ASSUME i < q PROVE FALSE
    BY <1>4
  <2>1. b <= i
    <3> SUFFICES ASSUME b > i PROVE FALSE
      BY <1>3
    <3>1. b - 1 \in s .. q - 1
      BY <1>2, <1>3
    <3> QED
      BY <1>2, <1>3, <3>1
  <2> QED
    BY <1>3, <1>4, <1>5, <2>1
<1>7. ASSUME NEW j \in b .. i PROVE tokens[j] \notin S!Separators
  BY <1>2, <1>3, <1>4
<1> QED
  BY <1>6, <1>7 DEF b

(* What belongs to a command that the parser sees stands in what is left of *)
(* its part, behind the same token as in the whole.                         *)
LEMMA OperandIsArgument ==
  ASSUME NEW tokens \in Seq(S!Tokens), NEW lines \in SUBSET DOMAIN tokens,
         NEW i \in 1 .. Len(tokens), NEW q \in 1 .. Len(tokens),
         tokens[i] \in S!Files, tokens[q] \in Known,
         S!Runs(tokens, lines, q, i), ~ S!Hidden(tokens, q)
  PROVE  /\ q < i
         /\ \E c \in S!Commands(tokens) :
              /\ c[1] = tokens[q] /\ Tail(c) \in Seq(S!Tokens)
              /\ \E d \in 1 .. Len(Tail(c)) :
                   /\ Tail(c)[d] = tokens[i]
                   /\ d = 1 \/ Tail(c)[d - 1] = tokens[i - 1]
<1> DEFINE n == Len(tokens)
           s == S!BehindLast(tokens, S!Separators, q)
           cmd == tokens[q]
<1>1. n \in Nat
  OBVIOUS
<1>2. q < i /\ \A j \in s .. i : tokens[j] \notin S!Separators
  BY NameIsBefore
<1>3. s \in 1 .. q /\ (s = 1 \/ tokens[s - 1] \in S!Separators)
  BY BehindLastOf
<1>4. /\ q \in s .. i - 1 /\ cmd \notin Assignments \cup Runners
      /\ \A j \in s .. q - 1 : tokens[j] \in {"A=1"} \cup S!Wrappers
      /\ \A j, l \in s .. q - 1 : tokens[j] \in Runners /\ tokens[l] \in Runners => j = l
  <2>1. q \in s .. i - 1
    BY <1>2, <1>3
  <2>2. cmd \notin Assignments \cup Runners
    BY Zenon DEF Known, S!Printing, Assignments, Runners
  <2>3. /\ \A j \in s .. q - 1 : tokens[j] \in {"A=1"} \cup S!Wrappers
        /\ \A j, l \in s .. q - 1 : ~ (j # l /\ {tokens[j], tokens[l]} \subseteq {"sudo", "timeout"})
    BY Zenon DEF S!Hidden
  <2> HIDE DEF s
  <2> QED
    BY <2>1, <2>2, <2>3 DEF Runners
<1>5. PICK e \in i + 1 .. n + 1 : SubSeq(tokens, s, e - 1) \in S!Segments(tokens)
  <2> HIDE DEF s
  <2>1. s \in 1 .. i
    BY <1>4, <1>3
  <2> QED
    BY <1>2, <1>3, <2>1, SegmentOf
<1> DEFINE w == SubSeq(tokens, s, e - 1)
           m == q - s + 1
           d == i - q
<1> HIDE DEF s
<1>6. /\ w \in Seq(S!Tokens) /\ Len(w) = e - s
      /\ \A j \in 1 .. e - s : w[j] = tokens[s + j - 1]
  <2>1. s \in Nat \ {0} /\ e \in Nat /\ s <= e /\ e <= n + 1
    BY <1>2, <1>1, <1>5, <1>3
  <2>2. e - 1 \in Nat /\ e - 1 <= n /\ (e - 1) - s + 1 = e - s
    BY <1>1, <2>1
  <2> QED
    BY <1>1, <2>1, <2>2
<1>7. /\ m \in 1 .. Len(w) /\ m + d \in 1 .. Len(w) /\ d \in Nat \ {0}
      /\ \A j \in 1 .. m - 1 : s + j - 1 \in s .. q - 1 /\ w[j] = tokens[s + j - 1]
      /\ \A j \in 0 .. d : w[m + j] = tokens[q + j]
  <2>1. m \in 1 .. e - s /\ m + d \in 1 .. e - s /\ d \in Nat \ {0}
    BY <1>1, <1>5, <1>3, <1>4
  <2>2. ASSUME NEW j \in 1 .. m - 1
        PROVE  s + j - 1 \in s .. q - 1 /\ j \in 1 .. e - s
    BY <1>1, <1>5, <1>3, <1>4
  <2>3. ASSUME NEW j \in 0 .. d
        PROVE  m + j \in 1 .. e - s /\ s + (m + j) - 1 = q + j
    BY <1>1, <1>5, <1>3, <1>4
  <2> HIDE DEF w, m, d
  <2> QED
    BY <1>6, <2>1, <2>2, <2>3
<1>8. w[m] = cmd
  <2>1. 0 \in 0 .. d /\ m + 0 = m /\ q + 0 = q
    BY <1>3, <1>4
  <2> HIDE DEF w, m, d
  <2>2. w[m + 0] = tokens[q + 0]
    BY <1>7, <2>1
  <2> QED
    BY <1>4, <2>1, <2>2
<1> HIDE DEF w, m, d
<1>9. PICK k \in 1 .. m : S!Command(w) = SubSeq(w, k, Len(w)) /\ CommandBegins(w, k)
  BY <1>4, <1>6, <1>7, <1>8, CommandOf
<1>10. k = m
  <2>1. SUFFICES ASSUME k \in 1 .. m - 1 PROVE FALSE
    BY <1>7, <1>9
  <2>2. s + k - 1 \in s .. q - 1 /\ w[k] = tokens[s + k - 1] /\ w[k] \in Runners
    <3>1. s + k - 1 \in s .. q - 1 /\ w[k] = tokens[s + k - 1]
      BY <1>7, <2>1
    <3>2. w[k] \in {"A=1"} \cup S!Wrappers /\ w[k] \notin Assignments
      BY <1>4, <1>9, <3>1 DEF CommandBegins
    <3> QED
      BY <3>1, <3>2, Zenon DEF S!Wrappers, Assignments, Runners
  <2>3. PICK p \in 1 .. k - 1 : w[p] \in Runners
    BY <1>9, <2>2 DEF CommandBegins
  <2>4. p \in 1 .. m - 1
    BY <1>7, <1>9
  <2>5. s + p - 1 \in s .. q - 1 /\ tokens[s + p - 1] \in Runners
    BY <1>7, <2>3, <2>4
  <2>6. s + p - 1 = s + k - 1
    BY <1>4, <2>2, <2>5
  <2> QED
    BY <1>3, <1>9, <2>6
<1> DEFINE c == SubSeq(w, m, Len(w))
           args == Tail(c)
<1>11. Len(w) \in Nat
  BY <1>6
<1>12. /\ c \in Seq(S!Tokens) /\ Len(c) = Len(w) - m + 1
       /\ \A j \in 1 .. Len(w) - m + 1 : c[j] = w[m + j - 1]
  BY <1>6, <1>7, <1>11
<1> HIDE DEF c
<1>13. c # <<>> /\ c[1] = cmd
  <2>1. 1 \in 1 .. Len(w) - m + 1 /\ m + 1 - 1 = m
    BY <1>7, <1>11
  <2>2. c[1] = w[m + 1 - 1] /\ Len(c) > 0
    BY <1>7, <1>11, <1>12, <2>1
  <2>3. c # <<>>
    BY <2>2
  <2> QED
    BY <1>8, <2>1, <2>2, <2>3
<1>14. /\ args \in Seq(S!Tokens) /\ Len(args) = Len(w) - m
       /\ \A j \in 1 .. Len(w) - m : args[j] = c[j + 1]
  BY <1>7, <1>11, <1>12, <1>13
<1> HIDE DEF args
<1>15. \A j \in 1 .. d : j \in 1 .. Len(args) /\ args[j] = tokens[q + j]
  <2> SUFFICES ASSUME NEW j \in 1 .. d
               PROVE  j \in 1 .. Len(args) /\ args[j] = tokens[q + j]
    OBVIOUS
  <2>1. /\ j \in 1 .. Len(w) - m /\ j + 1 \in 1 .. Len(w) - m + 1
        /\ m + (j + 1) - 1 = m + j /\ j \in 0 .. d
    BY <1>7, <1>11
  <2>2. args[j] = c[j + 1] /\ c[j + 1] = w[m + (j + 1) - 1] /\ w[m + j] = tokens[q + j]
    BY <1>7, <1>12, <1>14, <2>1
  <2> QED
    BY <1>14, <2>1, <2>2
<1>16. d \in 1 .. Len(args) /\ args[d] = tokens[i]
  <2>1. d \in 1 .. d /\ q + d = i
    BY <1>3, <1>4, <1>7 DEF d
  <2> QED
    BY <1>15, <2>1
<1>17. d = 1 \/ args[d - 1] = tokens[i - 1]
  <2>1. SUFFICES ASSUME d # 1 PROVE args[d - 1] = tokens[i - 1]
    OBVIOUS
  <2>2. d - 1 \in 1 .. d /\ q + (d - 1) = i - 1
    BY <1>3, <1>4, <1>7, <2>1 DEF d
  <2> QED
    BY <1>15, <2>2
<1>18. c \in S!Commands(tokens)
  BY <1>5, <1>9, <1>10, <1>13 DEF S!Commands, w, c
<1> QED
  BY <1>2, <1>13, <1>14, <1>16, <1>17, <1>18 DEF args

(* Such a token is among the paths found unless what stands before it, or   *)
(* it itself, is to be skipped.                                             *)
LEMMA ArgumentIsFound ==
  ASSUME NEW args \in Seq(S!Tokens), NEW d \in 1 .. Len(args), NEW before, NEW Skips,
         args[d] \in S!Files, S!Files \cap Skips = {},
         d = 1 \/ args[d - 1] = before, before \notin Skips
  PROVE  args[d] \in S!PathsAfter(args, Skips)
<1>1. args[d] \notin Skips /\ S!LooksLikePath(args[d])
  BY DEF S!LooksLikePath
<1>2. d = 1 \/ args[d - 1] \notin Skips
  OBVIOUS
<1> QED
  BY <1>1, <1>2, PathIsFound

LEMMA AccessIsReported ==
  ASSUME NEW tokens \in Seq(S!Tokens), NEW lines \in SUBSET DOMAIN tokens
  PROVE  S!AccessReported(tokens, lines)
<1> SUFFICES ASSUME NEW i \in DOMAIN tokens, tokens[i] \in S!Files
             PROVE  /\ i > 1 /\ tokens[i - 1] = ">" => tokens[i] \in S!Access(tokens).written_paths
                    /\ \A k \in DOMAIN tokens :
                         S!Runs(tokens, lines, k, i) /\ ~ S!Hidden(tokens, k) /\ ~ S!Swallowed(tokens, k, i) =>
                           /\ tokens[k] = "tee" /\ S!Operand(tokens, k, i)
                                => tokens[i] \in S!Access(tokens).written_paths
                           /\ S!Prints(tokens, k, i) => tokens[i] \in S!Access(tokens).read_paths
  BY DEF S!AccessReported
<1>1. i \in 1 .. Len(tokens)
  OBVIOUS
<1>2. ASSUME i > 1, tokens[i - 1] = ">"
      PROVE  tokens[i] \in S!Access(tokens).written_paths
  BY <1>1, <1>2, RedirectIsReported
<1>3. ASSUME NEW k \in DOMAIN tokens, S!Runs(tokens, lines, k, i), ~ S!Hidden(tokens, k),
             ~ S!Swallowed(tokens, k, i)
      PROVE  /\ tokens[k] = "tee" /\ S!Operand(tokens, k, i)
                  => tokens[i] \in S!Access(tokens).written_paths
             /\ S!Prints(tokens, k, i) => tokens[i] \in S!Access(tokens).read_paths
  <2> SUFFICES ASSUME tokens[k] \in Known
               PROVE  /\ tokens[k] = "tee" /\ S!Operand(tokens, k, i)
                           => tokens[i] \in S!Access(tokens).written_paths
                      /\ S!Prints(tokens, k, i) => tokens[i] \in S!Access(tokens).read_paths
    BY Zenon DEF Known, S!Prints
  <2>1. k < i /\ k \in 1 .. Len(tokens)
    BY <1>1, <1>3, OperandIsArgument
  <2>2. PICK c \in S!Commands(tokens) :
          /\ c[1] = tokens[k] /\ Tail(c) \in Seq(S!Tokens)
          /\ \E d \in 1 .. Len(Tail(c)) :
               /\ Tail(c)[d] = tokens[i]
               /\ d = 1 \/ Tail(c)[d - 1] = tokens[i - 1]
    BY <1>1, <1>3, <2>1, OperandIsArgument
  <2>3. PICK d \in 1 .. Len(Tail(c)) :
          Tail(c)[d] = tokens[i] /\ (d = 1 \/ Tail(c)[d - 1] = tokens[i - 1])
    BY <2>2
  <2>4. /\ S!Files \cap {"-n", "-f", ">", "<"} = {} /\ S!Files \cap {"-f"} = {}
    BY DEF S!Files
  <2>5. tokens[i - 1] \notin {"-n", "-f", ">", "<"} => tokens[i] \in S!PathArgs(Tail(c))
    BY <2>2, <2>3, <2>4, ArgumentIsFound DEF S!PathArgs
  <2>6. tokens[i - 1] # "-f" => tokens[i] \in S!JqPathArgs(Tail(c))
    BY <2>2, <2>3, <2>4, ArgumentIsFound DEF S!JqPathArgs
  <2>7. tokens[k] # "jq" => tokens[i - 1] \notin {"-n", "-f", "<"}
    BY <1>1, <1>3, <2>1 DEF S!Swallowed
  <2>8. ASSUME tokens[k] = "tee", S!Operand(tokens, k, i)
        PROVE  tokens[i] \in S!Access(tokens).written_paths
    <3>1. tokens[i - 1] \notin {"-n", "-f", ">", "<"}
      BY <2>7, <2>8 DEF S!Operand
    <3>2. tokens[i] \in S!CommandWrites(c)
      BY <2>2, <2>5, <2>8, <3>1 DEF S!CommandWrites
    <3> QED
      BY <3>2 DEF S!Access
  <2>9. ASSUME S!Prints(tokens, k, i), tokens[k] # "jq"
        PROVE  tokens[i] \in S!Access(tokens).read_paths
    <3>1. tokens[i - 1] \notin {"-n", "-f", ">", "<"}
      BY <2>7, <2>9 DEF S!Operand, S!Prints
    <3>2. tokens[i] \in S!CommandReads(c)
      BY <2>2, <2>5, <2>9, <3>1 DEF S!CommandReads, S!Prints
    <3> QED
      BY <3>2 DEF S!Access
  <2>10. ASSUME S!Prints(tokens, k, i), tokens[k] = "jq"
        PROVE  tokens[i] \in S!Access(tokens).read_paths
    <3>1. tokens[i - 1] # "-f"
      BY <2>10 DEF S!Operand, S!Prints, S!Values
    <3>2. tokens[i] \in S!CommandReads(c)
      BY <2>2, <2>6, <2>10, <3>1 DEF S!CommandReads
    <3> QED
      BY <3>2 DEF S!Access
  <2> QED
    BY <2>8, <2>9, <2>10
<1> QED
  BY <1>2, <1>3

-----------------------------------------------------------------------------
(* Launches                                                                 *)

(* Whatever variables the host has and whatever a container is told to      *)
(* forward.                                                                 *)
LEMMA LoginIsRight ==
  ASSUME NEW c
  PROVE  A!RightLogin(c)
<1>1. ASSUME c.agent = "claude", c.native PROVE A!Reaches(c) \cap A!Overrides = {}
  <2>1. A!Env(c) = (c.host \ A!Overrides) \cup {"FLAGS"}
    BY <1>1 DEF A!Env, A!ClaudeEnv
  <2>2. "FLAGS" \notin A!Overrides
    BY DEF A!Overrides
  <2>3. A!Env(c) \cap A!Overrides = {}
    BY <2>1, <2>2
  <2> QED
    BY <2>3 DEF A!Reaches
<1>2. ASSUME c.agent = "claude", ~ c.native, c.token \/ c.host \cap A!Tokens # {}
      PROVE  "AUTH_TOKEN" \in A!Reaches(c)
  <2>1. "AUTH_TOKEN" \in A!Env(c)
    BY <1>2 DEF A!Env, A!ClaudeEnv
  <2>2. "AUTH_TOKEN" \in A!DefaultDockerEnv
    BY DEF A!DefaultDockerEnv, A!Overrides
  <2> QED
    BY <2>1, <2>2 DEF A!Reaches
<1>3. ASSUME c.agent = "codex" PROVE "OPENAI_KEY" \notin A!Reaches(c)
  <2>1. "OPENAI_KEY" \notin A!Env(c)
    BY <1>3 DEF A!Env, A!CodexEnv
  <2> QED
    BY <2>1 DEF A!Reaches
<1> QED
  BY <1>1, <1>2, <1>3 DEF A!RightLogin

LEMMA CodexFindsStore ==
  ASSUME NEW c
  PROVE  A!CodexReachesStore(c)
BY DEF A!CodexReachesStore, A!Server, A!CodexServer, A!Place

-----------------------------------------------------------------------------
(* The inputs of the run                                                    *)

(* An input is one of the kind it is said to be; of the bounds nothing is   *)
(* used.                                                                    *)
InputOK ==
  /\ kind = "shell" => input.tokens \in Seq(S!Tokens) /\ input.lines \in SUBSET DOMAIN input.tokens
  /\ kind = "path" => \E absolute \in BOOLEAN, parts \in Seq(P!Names) :
                        input.path = [absolute |-> absolute, parts |-> parts]

LEMMA BoundedIsSeq ==
  ASSUME NEW T, NEW n \in Nat
  PROVE  S!BoundedSeq(T, n) \subseteq Seq(T) /\ P!BoundedSeq(T, n) \subseteq Seq(T)
BY DEF S!BoundedSeq, S!SeqOf, P!BoundedSeq, P!SeqOf

LEMMA InputSafety == Spec => []InputOK
<1>1. Init => InputOK
  BY DEF Init, InputOK
<1>2. ASSUME InputOK, [Next]_<<kind, input>> PROVE InputOK'
  <2>1. CASE UNCHANGED <<kind, input>>
    BY <1>2, <2>1 DEF InputOK
  <2>2. CASE ChooseTokens
    BY <2>2, BoundsAssumption, BoundedIsSeq DEF ChooseTokens, InputOK
  <2>3. CASE ChooseConfig
    BY <2>3 DEF ChooseConfig, InputOK
  <2>4. CASE ChoosePath
    <3>1. kind' = "path" /\ input'.path \in P!Paths(MaxParts)
      BY <2>4 DEF ChoosePath
    <3>2. PICK absolute \in BOOLEAN, parts \in P!BoundedSeq(P!Names, MaxParts) :
            input'.path = [absolute |-> absolute, parts |-> parts]
      BY <3>1 DEF P!Paths
    <3>3. parts \in Seq(P!Names)
      BY BoundsAssumption, BoundedIsSeq
    <3> QED
      BY <3>1, <3>2, <3>3 DEF InputOK
  <2> QED
    BY <1>2, <2>1, <2>2, <2>3, <2>4 DEF Next
<1> QED
  BY <1>1, <1>2, PTL DEF Spec

(* For commands of any length, with parts, wrappers, assignments, options   *)
(* and redirections in any order: every file that a printing command prints *)
(* is reported as read and every file that a redirection or tee writes as   *)
(* written, unless the command's name is hidden from the parser behind an   *)
(* ampersand, a line break, a second wrapper, a wrapper's argument or a     *)
(* redirection, or the file behind an option that takes a value for another *)
(* command or behind the redirection of the input.                          *)
THEOREM AccessSafety == Spec => []AccessReported
<1>1. InputOK => AccessReported
  BY AccessIsReported DEF InputOK, AccessReported
<1> QED
  BY <1>1, InputSafety, PTL

(* The agent sees the login it was configured for, and Codex the database   *)
(* of the run exactly if it is told of it.                                  *)
THEOREM EquippedSafety == Spec => []Equipped
<1>1. Equipped
  BY LoginIsRight, CodexFindsStore DEF Equipped
<1> QED
  BY <1>1, PTL

(* A call is refused exactly if it left its workspace, and what it read is  *)
(* charged to the file it read, for paths of any number of names.           *)
THEOREM PathsSafety == Spec => []PathsJudged
<1>1. HasWorkspace(P!Names)
  BY DEF HasWorkspace, P!Names, Climb
<1>2. ASSUME InputOK, kind = "path"
      PROVE  /\ P!BoundaryJudged(input.path, input.sandbox)
             /\ P!ChargedAsTouched(input.path, input.sandbox)
  <2>1. PICK absolute \in BOOLEAN, parts \in Seq(P!Names) :
          input.path = [absolute |-> absolute, parts |-> parts]
    BY <1>2 DEF InputOK
  <2> QED
    BY <1>1, <2>1, BoundaryIsJudged, ChargeIsTouched
<1>3. InputOK => PathsJudged
  BY <1>2 DEF PathsJudged
<1> QED
  BY <1>3, InputSafety, PTL
=============================================================================
