-------------------------- MODULE AgentCallProofs --------------------------
(***************************************************************************)
(* What a call of the agent reports, for every number of events, of        *)
(* retries and of credential changes: a usage limit is noticed and no use  *)
(* of a file is lost, however the attempt ends.                            *)
(***************************************************************************)
EXTENDS AgentCall, FiniteSetTheorems, WellFoundedInduction, TLAPS

Events == [type : {"use"}, use : ToolUses] \cup Window \cup Failure

(* The agent works while the runner waits, and what the runner reads is a   *)
(* sequence of events that it can tell apart.                               *)
Shape ==
  /\ config.agent \in {"claude", "codex"}
  /\ child = "running" => pc = "wait"
  /\ stream \in Seq(Events)
  /\ doing \in ToolUses \cup {NoOp}
  /\ acted \subseteq Offered
  /\ pc = "wait" /\ child = "gone" => doing = NoOp
  /\ pc = "prepare" => ~limited
  /\ pc \in {"prepare", "returned"} => acted = {} /\ doing = NoOp

(* A rejection is in the stream until the stream is parsed.                 *)
LimitTold ==
  /\ pc = "wait" /\ limited => RateLimited(stream)
  /\ pc = "returned" /\ limited => result.rateLimited

(* So is every use, but for the one that a Codex agent has not completed.   *)
UsesTold ==
  \A u \in acted : \/ \E i \in DOMAIN stream : stream[i] = Use(u)
                   \/ config.agent = "codex" /\ doing = u

CallInv == Shape /\ LimitTold /\ UsesTold

-----------------------------------------------------------------------------
(* Parsing *)

(* One more event takes nothing from what a stream tells.                   *)
LEMMA AppendedEvents ==
  ASSUME stream \in Seq(Events), NEW e \in Events
  PROVE  /\ Append(stream, e) \in Seq(Events)
         /\ \A i \in DOMAIN stream : i \in DOMAIN Append(stream, e)
                                     /\ Append(stream, e)[i] = stream[i]
         /\ Len(stream) + 1 \in DOMAIN Append(stream, e)
         /\ Append(stream, e)[Len(stream) + 1] = e
OBVIOUS

LEMMA LimitKept ==
  ASSUME stream \in Seq(Events), NEW e \in Events, RateLimited(stream)
  PROVE  RateLimited(Append(stream, e))
BY AppendedEvents DEF RateLimited, ClaudeLimited, CodexLimited

(* A count is positive as soon as one use has what is counted.              *)
LEMMA CountPositive ==
  ASSUME NEW s \in Seq(Events), NEW S \in SUBSET DOMAIN s, NEW i \in S
  PROVE  Cardinality(S) > 0
<1>1. IsFiniteSet(DOMAIN s)
  <2>1. DOMAIN s = 1..Len(s) /\ Len(s) \in Nat
    OBVIOUS
  <2> QED
    BY <2>1, FS_Interval
<1>2. IsFiniteSet(S)
  BY <1>1, FS_Subset
<1>3. Cardinality(S) \in Nat /\ Cardinality(S) # 0
  BY <1>2, FS_CardinalityType, FS_EmptySet
<1> QED
  BY <1>3

(* The parser reports every file of every use in the stream.                *)
LEMMA AccessComplete ==
  ASSUME CallInv, NEW u \in acted, NEW i \in DOMAIN stream, stream[i] = Use(u)
  PROVE  /\ \A f \in Reads(u) : ToolAccess(stream).files_read[f] > 0
         /\ \A f \in Writes(u) : ToolAccess(stream).files_written[f] > 0
<1>1. i \in Uses(stream) /\ stream[i].use = u
  BY DEF Uses, Use
<1>2. Uses(stream) \subseteq DOMAIN stream /\ stream \in Seq(Events)
  BY DEF Uses, CallInv, Shape
<1>3. u \in ToolUses /\ u \in Offered
  BY DEF CallInv, Shape, Offered
<1>4. ASSUME NEW f \in Reads(u) PROVE ToolAccess(stream).files_read[f] > 0
  <2>1. f \in Files
    BY <1>3, <1>4 DEF Reads, ToolUses
  <2>2. CASE config.agent = "claude"
    <3> DEFINE S == {j \in Uses(stream) : f \in Reads(stream[j].use)}
    <3>1. Cardinality(S) > 0
      BY <1>1, <1>2, <1>4, CountPositive
    <3>2. ToolAccess(stream).files_read[f] = Cardinality(S)
      BY <2>1, <2>2 DEF ToolAccess, ClaudeToolAccess, Count
    <3> QED
      BY <3>1, <3>2
  <2>3. CASE config.agent # "claude"
    <3> DEFINE S == {j \in Uses(stream) : stream[j].use.tool = "Bash" /\ f \in stream[j].use.reads}
    <3>1. u.tool = "Bash" /\ f \in u.reads
      BY <1>3, <1>4, <2>3 DEF Reads, ToolUses, Offered, CallInv, Shape
    <3>2. Cardinality(S) > 0
      BY <1>1, <1>2, <3>1, CountPositive
    <3>3. ToolAccess(stream).files_read[f] = Cardinality(S)
      BY <2>1, <2>3 DEF ToolAccess, CodexToolAccess, Count
    <3> QED
      BY <3>2, <3>3
  <2> QED
    BY <2>2, <2>3
<1>5. ASSUME NEW f \in Writes(u) PROVE ToolAccess(stream).files_written[f] > 0
  <2>1. f \in Files
    BY <1>3, <1>5 DEF Writes, ToolUses
  <2>2. CASE config.agent = "claude"
    <3> DEFINE S == {j \in Uses(stream) : f \in Writes(stream[j].use)}
    <3>1. Cardinality(S) > 0
      BY <1>1, <1>2, <1>5, CountPositive
    <3>2. ToolAccess(stream).files_written[f] = Cardinality(S)
      BY <2>1, <2>2 DEF ToolAccess, ClaudeToolAccess, Count
    <3> QED
      BY <3>1, <3>2
  <2>3. CASE config.agent # "claude"
    <3> DEFINE S == {j \in Uses(stream) : \/ stream[j].use.tool = "Bash" /\ f \in stream[j].use.writes
                                          \/ stream[j].use.tool = "Edit" /\ f = stream[j].use.file}
    <3>1. \/ u.tool = "Bash" /\ f \in u.writes
          \/ u.tool = "Edit" /\ f = u.file
      <4>1. CASE u.tool = "Edit"
        BY <1>5, <4>1 DEF Writes
      <4>2. CASE u.tool # "Edit"
        <5>1. f \in u.writes
          BY <1>5, <4>2 DEF Writes
        <5>2. u.tool = "Bash" \/ u.writes \in {{}}
          BY <1>3 DEF ToolUses
        <5> QED
          BY <5>1, <5>2
      <4> QED
        BY <4>1, <4>2
    <3>2. Cardinality(S) > 0
      BY <1>1, <1>2, <3>1, CountPositive
    <3>3. ToolAccess(stream).files_written[f] =
            Count(stream, LAMBDA v : \/ v.tool = "Bash" /\ f \in v.writes
                                     \/ v.tool = "Edit" /\ f = v.file)
      BY <2>1, <2>3 DEF ToolAccess, CodexToolAccess
    <3>4. @ = Cardinality(S)
      BY DEF Count
    <3> QED
      BY <3>2, <3>3, <3>4
  <2> QED
    BY <2>2, <2>3
<1> QED
  BY <1>4, <1>5
-----------------------------------------------------------------------------
(* The steps *)

(* The invariant holds at first.                                            *)
LEMMA CallInit == Init => CallInv
BY DEF Init, CallInv, Shape, LimitTold, UsesTold

(* The agent adds to the stream what it does and what it is told.           *)
LEMMA AgentSteps == ASSUME CallInv, Agent PROVE CallInv'
<1>1. pc = "wait" \/ OrphanEnds
  BY DEF CallInv, Shape, Agent, BeginUse, FinishUse, TellWindow, TellFailure, Exit
<1>2. CASE BeginUse
  <2>1. PICK u \in Offered :
          /\ doing' = u /\ acted' = acted \cup {u}
          /\ stream' = IF config.agent = "claude" THEN Append(stream, Use(u)) ELSE stream
    BY <1>2 DEF BeginUse
  <2>2. u \in ToolUses /\ Use(u) \in Events
    BY DEF Offered, Use, Events
  <2>3. Shape'
    BY <1>2, <2>1, <2>2, AppendedEvents DEF BeginUse, CallInv, Shape, Offered
  <2>4. LimitTold'
    BY <1>1, <1>2, <2>1, <2>2, LimitKept DEF BeginUse, CallInv, Shape, LimitTold, RateLimited, ClaudeLimited, CodexLimited
  <2>5. UsesTold'
    BY <1>2, <2>1, <2>2, AppendedEvents, NoOpAssumption
       DEF BeginUse, CallInv, Shape, UsesTold, Offered
  <2> QED
    BY <2>3, <2>4, <2>5 DEF CallInv
<1>3. CASE FinishUse
  <2>1. /\ doing \in ToolUses /\ doing' = NoOp /\ Use(doing) \in Events
        /\ stream' = IF config.agent = "codex" THEN Append(stream, Use(doing)) ELSE stream
    BY <1>3 DEF FinishUse, CallInv, Shape, Use, Events
  <2>2. Shape'
    BY <1>3, <2>1, AppendedEvents DEF FinishUse, CallInv, Shape, Offered
  <2>3. LimitTold'
    BY <1>1, <1>3, <2>1, LimitKept
       DEF FinishUse, CallInv, Shape, LimitTold, RateLimited, ClaudeLimited, CodexLimited
  <2>4. UsesTold'
    BY <1>3, <2>1, AppendedEvents DEF FinishUse, CallInv, Shape, UsesTold
  <2> QED
    BY <2>2, <2>3, <2>4 DEF CallInv
<1>4. CASE TellWindow
  <2>1. PICK e \in Window :
          stream' = Append(stream, e) /\ limited' = (limited \/ e.status = "rejected")
    BY <1>4 DEF TellWindow
  <2>2. e \in Events /\ e.type = "window"
    BY DEF Events, Window
  <2>3. Shape'
    BY <1>4, <2>1, <2>2, AppendedEvents DEF TellWindow, CallInv, Shape, Offered
  <2>4. e.status = "rejected" => RateLimited(stream')
    BY <1>4, <2>1, <2>2, AppendedEvents DEF TellWindow, CallInv, Shape, RateLimited, ClaudeLimited
  <2>5. RateLimited(stream) => RateLimited(stream')
    BY <2>1, <2>2, LimitKept DEF CallInv, Shape
  <2>6. config' = config /\ pc' = pc /\ pc = "wait"
    BY <1>1, <1>4 DEF TellWindow, CallInv, Shape
  <2>7. LimitTold'
    BY <2>1, <2>4, <2>5, <2>6 DEF CallInv, LimitTold, RateLimited, ClaudeLimited, CodexLimited
  <2>8. UsesTold'
    BY <1>4, <2>1, <2>2, AppendedEvents DEF TellWindow, CallInv, Shape, UsesTold
  <2> QED
    BY <2>3, <2>7, <2>8 DEF CallInv
<1>5. CASE TellFailure
  <2>1. PICK e \in Failure :
          stream' = Append(stream, e) /\ limited' = (limited \/ e.limit)
    BY <1>5 DEF TellFailure
  <2>2. e \in Events /\ e.type = "failure"
    BY DEF Events, Failure
  <2>3. Shape'
    BY <1>5, <2>1, <2>2, AppendedEvents DEF TellFailure, CallInv, Shape, Offered
  <2>4. e.limit => RateLimited(stream')
    BY <2>1, <2>2, AppendedEvents DEF CallInv, Shape, RateLimited, ClaudeLimited, CodexLimited
  <2>5. RateLimited(stream) => RateLimited(stream')
    BY <2>1, <2>2, LimitKept DEF CallInv, Shape
  <2>6. config' = config /\ pc' = pc /\ pc = "wait"
    BY <1>5 DEF TellFailure, CallInv, Shape
  <2>7. LimitTold'
    BY <2>1, <2>4, <2>5, <2>6 DEF CallInv, LimitTold, RateLimited, ClaudeLimited, CodexLimited
  <2>8. UsesTold'
    BY <1>5, <2>1, <2>2, AppendedEvents DEF TellFailure, CallInv, Shape, UsesTold
  <2> QED
    BY <2>3, <2>7, <2>8 DEF CallInv
<1>6. CASE Exit \/ OrphanEnds
  BY <1>6 DEF Exit, OrphanEnds, work, CallInv, Shape, LimitTold, UsesTold, Offered,
              RateLimited, ClaudeLimited, CodexLimited
<1> QED
  BY <1>2, <1>3, <1>4, <1>5, <1>6 DEF Agent

(* The runner starts an attempt, parses what it reads when the attempt ends *)
(* and forgets it.                                                          *)
LEMMA RunnerSteps == ASSUME CallInv, Runner PROVE CallInv'
<1> USE DEF work, auth, CallInv
<1>1. CASE PrepareFails
  BY <1>1 DEF PrepareFails, Parsed, Shape, LimitTold, UsesTold, Offered
<1>2. CASE Launch
  BY <1>2 DEF Launch, Shape, LimitTold, UsesTold, Offered
<1>3. CASE Completed
  BY <1>3 DEF Completed, Forget, Parsed, Shape, LimitTold, UsesTold, Offered
<1>4. CASE Timeout
  BY <1>4 DEF Timeout, MayTimeOut, TimedOut, Forget, Parsed, Shape, LimitTold, UsesTold, Offered
<1>5. CASE AwaitReset
  BY <1>5 DEF AwaitReset, Shape, LimitTold, UsesTold, Offered
<1>6. CASE Return
  BY <1>6 DEF Return, Shape, LimitTold, UsesTold, Offered
<1> QED
  BY <1>1, <1>2, <1>3, <1>4, <1>5, <1>6 DEF Runner

LEMMA CallStep == CallInv /\ [Next]_vars => CallInv'
<1> SUFFICES ASSUME CallInv, [Next]_vars PROVE CallInv'
  OBVIOUS
<1>1. CASE HostRotates
  BY <1>1 DEF HostRotates, work, CallInv, Shape, LimitTold, UsesTold, Offered,
              RateLimited, ClaudeLimited, CodexLimited
<1>2. CASE UNCHANGED vars
  BY <1>2 DEF vars, work, CallInv, Shape, LimitTold, UsesTold, Offered,
              RateLimited, ClaudeLimited, CodexLimited
<1> QED
  BY <1>1, <1>2, AgentSteps, RunnerSteps DEF Next

-----------------------------------------------------------------------------
(* An attempt the service turned down is marked, wherever in the stream the *)
(* rejection is and however the attempt ended.                              *)
THEOREM LimitIsNoticed == Spec => []LimitNoticed
<1>1. CallInv => LimitNoticed
  BY DEF CallInv, LimitTold, LimitNoticed
<1> QED
  BY <1>1, CallInit, CallStep, PTL DEF Spec

(* Every file a Claude agent touched before an attempt ended is in the      *)
(* result, and every file of a Codex agent that ended by itself.            *)
THEOREM UsesAreSeen == Spec => NothingUnseen
<1> DEFINE Seen ==
      pc # "returned" /\ pc' = "returned" /\ (config.agent = "claude" \/ ~result'.timedOut)
      => \A u \in acted :
           /\ \A f \in Reads(u) : result'.access.files_read[f] > 0
           /\ \A f \in Writes(u) : result'.access.files_written[f] > 0
<1>1. CallInv /\ [Next]_vars => [Seen]_vars
  <2> SUFFICES ASSUME CallInv, [Next]_vars, pc # "returned", pc' = "returned",
                      config.agent = "claude" \/ ~result'.timedOut, NEW u \in acted
               PROVE  /\ \A f \in Reads(u) : result'.access.files_read[f] > 0
                      /\ \A f \in Writes(u) : result'.access.files_written[f] > 0
    OBVIOUS
  <2>1. PrepareFails \/ Completed \/ Timeout
    BY DEF Next, Agent, Runner, HostRotates, BeginUse, FinishUse, TellWindow, TellFailure,
           Exit, OrphanEnds, Launch, AwaitReset, Return, vars
  <2>2. ~PrepareFails
    BY DEF PrepareFails, CallInv, Shape
  <2>3. result'.access = ToolAccess(stream)
    BY <2>1, <2>2 DEF Completed, Timeout, TimedOut, Parsed
  <2>4. Timeout => result'.timedOut
    BY DEF Timeout, TimedOut, Parsed
  <2>5. Completed => doing = NoOp
    BY DEF Completed, CallInv, Shape
  <2>6. ~(config.agent = "codex" /\ doing = u)
    BY <2>1, <2>2, <2>4, <2>5, NoOpAssumption DEF CallInv, Shape, Offered
  <2>7. PICK i \in DOMAIN stream : stream[i] = Use(u)
    BY <2>6 DEF CallInv, UsesTold
  <2> QED
    BY <2>3, <2>7, AccessComplete
<1> QED
  BY <1>1, CallInit, CallStep, PTL DEF Spec, NothingUnseen

-----------------------------------------------------------------------------
(* Waiting for the reset *)

(* Every finite set of numbers that is not empty has a greatest element.    *)
LEMMA GreatestOfFinite ==
  ASSUME NEW S \in SUBSET Nat, IsFiniteSet(S), S # {}
  PROVE  Max(S) \in S /\ \A y \in S : Max(S) >= y
<1> DEFINE Above(x) == {y \in S : y > x}
           U == {Cardinality(Above(x)) : x \in S}
<1>1. \A x \in S : IsFiniteSet(Above(x)) /\ Cardinality(Above(x)) \in Nat
  BY FS_Subset, FS_CardinalityType
<1>2. PICK u \in U : \A v \in U : <<v, u>> \notin OpToRel(<, Nat)
  <2>1. U \subseteq Nat
    BY <1>1
  <2>2. PICK x \in S : TRUE
    OBVIOUS
  <2>3. Cardinality(Above(x)) \in U
    OBVIOUS
  <2> QED
    BY <2>1, <2>3, NatLessThanWellFounded, WFMin, Zenon
<1>3. PICK x \in S : u = Cardinality(Above(x))
  OBVIOUS
<1>4. \A y \in S : x >= y
  <2> SUFFICES ASSUME NEW y \in S, y > x PROVE FALSE
    BY DEF Above
  <2>1. Above(y) \in SUBSET Above(x) /\ Above(y) # Above(x)
    <3>1. \A z \in S : z > y => z > x
      OBVIOUS
    <3>2. y \in Above(x) /\ y \notin Above(y)
      OBVIOUS
    <3> QED
      BY <3>1, <3>2
  <2>2. Cardinality(Above(y)) < Cardinality(Above(x))
    BY <1>1, <2>1, FS_Subset
  <2>3. Cardinality(Above(y)) \in U /\ Cardinality(Above(x)) \in U
    OBVIOUS
  <2>4. ~ (Cardinality(Above(y)) < u)
    BY <1>1, <1>2, <1>3, <2>3 DEF OpToRel
  <2> QED
    BY <1>3, <2>2, <2>4
<1> QED
  BY <1>4 DEF Max

(* The reset time of a stream is a number.                                  *)
LEMMA ResetsIsTime == ASSUME NEW s \in Seq(Events) PROVE Resets(s) \in Nat
<1> DEFINE D == {j \in DOMAIN s : IF config.agent = "claude" THEN s[j].type = "window"
                                  ELSE s[j].type = "failure" /\ s[j].limit}
           named == {s[i].resets : i \in D}
<1>1. named \subseteq Nat
  <2>1. \A i \in D : s[i] \in Events /\ s[i].type # "use"
    OBVIOUS
  <2>2. \A e \in Events : e.type # "use" => e.resets \in ResetTimes
    BY DEF Events, Window, Failure
  <2> QED
    BY <2>1, <2>2, BoundAssumption
<1>2. IsFiniteSet(named \cup {0})
  <2>1. DOMAIN s = 1 .. Len(s) /\ Len(s) \in Nat
    OBVIOUS
  <2>2. IsFiniteSet(D)
    <3>1. IsFiniteSet(DOMAIN s) /\ D \in SUBSET DOMAIN s
      BY <2>1, FS_Interval
    <3> QED
      BY <3>1, FS_Subset
  <2>3. IsFiniteSet(named)
    <3> DEFINE f == [i \in D |-> s[i].resets]
    <3>1. f \in Surjection(D, named)
      BY DEF Surjection
    <3> QED
      BY <2>2, <3>1, FS_Surjection
  <2> QED
    BY <2>3, FS_AddElement
<1>3. Max(named \cup {0}) \in named \cup {0}
  <2>1. (named \cup {0}) \in SUBSET Nat /\ named \cup {0} # {}
    BY <1>1
  <2> HIDE DEF named
  <2> QED
    BY <1>2, <2>1, GreatestOfFinite
<1> QED
  BY <1>1, <1>3 DEF Resets

(* The wait reaches past a reset that is known, or is the longest allowed.  *)
LEMMA WaitReaches ==
  ASSUME NEW t \in Nat, now \in Nat
  PROVE  /\ WaitFor(t) \in Nat /\ WaitFor(t) > 0
         /\ Buffer > 0 => WaitFor(t) >= MaxWait \/ now + WaitFor(t) > t
<1> DEFINE w == IF t > now THEN (t - now) + Buffer ELSE DefaultWait
           m == Min({MaxWait, w})
<1>1. w \in Nat /\ MaxWait \in Nat /\ Buffer \in Nat
  BY BoundAssumption
<1>2. m \in {MaxWait, w}
  <2>1. \E x \in {MaxWait, w} : \A y \in {MaxWait, w} : x =< y
    BY <1>1
  <2> QED
    BY <2>1 DEF Min
<1>3. WaitFor(t) = Max({1, m})
  BY DEF WaitFor
<1>4. Max({1, m}) \in {1, m} /\ Max({1, m}) >= 1 /\ Max({1, m}) >= m
  <2>1. \E x \in {1, m} : \A y \in {1, m} : x >= y
    BY <1>1, <1>2
  <2> QED
    BY <2>1 DEF Max
<1> HIDE DEF m
<1> QED
  BY <1>1, <1>2, <1>3, <1>4

(* The clock and what a returned attempt says of the reset are numbers.     *)
Clock ==
  /\ now \in Nat /\ retries \in Nat
  /\ pc = "returned" => result.resets \in Nat

LEMMA ClockStep == CallInv /\ Clock /\ [Next]_vars => Clock'
<1> SUFFICES ASSUME CallInv, Clock, [Next]_vars PROVE Clock'
  OBVIOUS
<1>1. CASE PrepareFails
  <2>1. <<>> \in Seq(Events)
    OBVIOUS
  <2> QED
    BY <1>1, <2>1, ResetsIsTime DEF PrepareFails, Parsed, Clock
<1>2. CASE Completed
  BY <1>2, ResetsIsTime DEF Completed, Parsed, Clock, CallInv, Shape
<1>3. CASE Timeout
  BY <1>3, ResetsIsTime DEF Timeout, TimedOut, Parsed, Clock, CallInv, Shape
<1>4. CASE AwaitReset
  BY <1>4, WaitReaches DEF AwaitReset, Clock
<1>5. CASE Launch
  BY <1>5 DEF Launch, Clock
<1>6. CASE Return \/ HostRotates \/ Agent \/ UNCHANGED vars
  BY <1>6 DEF Return, HostRotates, Agent, BeginUse, FinishUse, TellWindow, TellFailure, Exit,
              OrphanEnds, vars, Clock
<1> QED
  BY <1>1, <1>2, <1>3, <1>4, <1>5, <1>6 DEF Next, Runner

(* An attempt that is repeated after a usage limit is neither early nor     *)
(* refused for an old token: it is launched with the credentials the host   *)
(* has then, unless their copy failed, and the wait before it passed the    *)
(* reset that the stream names, or was the longest the configuration has.   *)
THEOREM RetriesAreReady == ASSUME Buffer > 0 PROVE Spec => RetriesReady
<1> DEFINE Fresh == pc = "prepare" /\ pc' = "wait" /\ config.native /\ host # 0
                    => stage' = host \/ ~refreshed'
           Late  == retries' > retries => now' > result.resets \/ now' - now >= MaxWait
<1>1. Init => Clock
  BY DEF Init, Clock
<1>2. [Next]_vars => [Fresh]_vars
  <2> SUFFICES ASSUME [Next]_vars, pc = "prepare", pc' = "wait", config.native, host # 0
               PROVE  stage' = host \/ ~refreshed'
    OBVIOUS
  <2>1. Launch
    BY DEF Next, Agent, Runner, HostRotates, BeginUse, FinishUse, TellWindow, TellFailure,
           Exit, OrphanEnds, PrepareFails, Completed, Timeout, AwaitReset, Return, vars
  <2> QED
    BY <2>1 DEF Launch, RefreshCredentials
<1>3. Clock /\ [Next]_vars => [Late]_vars
  <2> SUFFICES ASSUME Clock, [Next]_vars, retries' > retries
               PROVE  now' > result.resets \/ now' - now >= MaxWait
    OBVIOUS
  <2>1. retries' # retries
    BY DEF Clock
  <2>2. AwaitReset
    BY <2>1 DEF Next, Agent, Runner, HostRotates, BeginUse, FinishUse, TellWindow, TellFailure,
           Exit, OrphanEnds, PrepareFails, Launch, Completed, Timeout, Return, vars
  <2>3. /\ now' = now + WaitFor(result.resets)
        /\ result.resets \in Nat /\ now \in Nat /\ MaxWait \in Nat
    BY <2>2, BoundAssumption DEF AwaitReset, Clock
  <2>4. /\ WaitFor(result.resets) \in Nat
        /\ WaitFor(result.resets) >= MaxWait \/ now + WaitFor(result.resets) > result.resets
    BY <2>3, WaitReaches
  <2> QED
    BY <2>3, <2>4
<1>4. Spec => CredentialsFresh
  BY <1>2, PTL DEF Spec, CredentialsFresh
<1>5. Spec => ResumesAfterReset
  BY <1>1, <1>3, CallInit, CallStep, ClockStep, PTL DEF Spec, ResumesAfterReset
<1> QED
  BY <1>4, <1>5 DEF RetriesReady

-----------------------------------------------------------------------------
(* The runner moves on                                                      *)

PlaceInv ==
  /\ pc \in {"prepare", "wait", "returned", "done"}
  /\ retries \in 0 .. MaxRetries

LEMMA Forward ==
  ASSUME \/ retries < retries'
         \/ retries' = retries /\ Stride < Stride'
  PROVE  Precedes(Place, Place')
<1>1. DOMAIN Place = 1 .. 2
  BY DEF Place
<1>2. Place[1] = retries /\ Place[2] = Stride
  BY DEF Place, Stride
<1>3. Place'[1] = retries' /\ Place'[2] = Stride'
  BY DEF Place, Stride
<1>4. PICK k \in 1 .. 2 : /\ Place[k] < Place'[k]
                          /\ k > 1 => Place[1] = Place'[1]
  BY <1>2, <1>3
<1>5. \A j \in 1 .. k - 1 : Place[j] = Place'[j]
  BY <1>4
<1> QED
  BY <1>1, <1>4, <1>5 DEF Precedes

LEMMA RunnerForward ==
  ASSUME PlaceInv, Runner
  PROVE  PlaceInv' /\ Precedes(Place, Place')
<1> USE DEF PlaceInv
<1>1. CASE PrepareFails \/ Launch \/ Completed \/ Timeout \/ Return
  <2>1. retries' = retries
    BY <1>1 DEF PrepareFails, Launch, Completed, Timeout, Return
  <2>2. \/ pc = "prepare" /\ pc' \in {"wait", "returned"}
        \/ pc = "wait" /\ pc' = "returned"
        \/ pc = "returned" /\ pc' = "done"
    BY <1>1
    DEF PrepareFails, Launch, Completed, Timeout, MayTimeOut, Return
  <2>3. Stride < Stride'
    BY <2>2 DEF Stride
  <2> QED
    BY <2>1, <2>2, <2>3, Forward
<1>2. CASE AwaitReset
  <2>1. retries' = retries + 1 /\ retries < MaxRetries /\ pc' = "prepare"
    BY <1>2 DEF AwaitReset, Again
  <2> QED
    BY <2>1, BoundAssumption, Forward
<1> QED
  BY <1>1, <1>2 DEF Runner

(* Nothing but the runner changes where it is. *)
LEMMA OthersStay ==
  ASSUME Agent \/ HostRotates \/ UNCHANGED vars
  PROVE  pc' = pc /\ retries' = retries
BY DEF Agent, BeginUse, FinishUse, TellWindow, TellFailure, Exit, OrphanEnds,
       HostRotates, vars

(* Whenever an agent hangs, fails, is cut off or goes on as an orphan, the  *)
(* runner goes on to the end of the call, at most MaxRetries waits away.    *)
THEOREM RunnerGoesOn == Spec => RunnerMovesOn
<1> DEFINE Moves == IF Runner THEN Precedes(Place, Place') ELSE Place' = Place
<1>1. Init => PlaceInv
  BY BoundAssumption DEF Init, PlaceInv
<1>2. PlaceInv /\ [Next]_vars => PlaceInv'
  BY RunnerForward, OthersStay DEF Next, PlaceInv
<1>3. PlaceInv /\ [Next]_vars => [Moves]_vars
  <2> SUFFICES ASSUME PlaceInv, Next PROVE Moves
    OBVIOUS
  <2>1. CASE Runner
    BY <2>1, RunnerForward
  <2>2. CASE ~Runner
    BY <2>2, OthersStay DEF Next, Place, Stride
  <2> QED
    BY <2>1, <2>2
<1>4. PlaceInv => Place \in (0 .. MaxRetries) \X (0 .. 3)
  BY DEF PlaceInv, Place, Stride
<1> QED
  BY <1>1, <1>2, <1>3, <1>4, PTL DEF Spec, RunnerMovesOn
=============================================================================
