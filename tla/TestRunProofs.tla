--------------------------- MODULE TestRunProofs ---------------------------
(***************************************************************************)
(* Proofs about the two components that MCTestRun puts side by side.       *)
(*                                                                         *)
(* TestRun: whatever fails, a test that passes has stopped every agent,    *)
(* and every bearer that a test asks for is judged; for any templates that *)
(* TemplatesAssumption allows, with any number of fixtures, agents and     *)
(* criteria.  The steps of a test are sequences of calls that are put      *)
(* together from the template, so that most lemmas say what a sequence     *)
(* holds.                                                                  *)
(*                                                                         *)
(* PortService: the types, and that the processes that share               *)
(* retina-service settle on one, for any number of processes, whatever     *)
(* service is there first and however often the mode changes.              *)
(***************************************************************************)
EXTENDS MCTestRun, SequenceTheorems, WellFoundedInduction, TLAPS

-----------------------------------------------------------------------------
(* Sequences.                                                              *)

\* The order that induction over the naturals goes down.
Below == {ss \in Nat \X Nat : ss[1] < ss[2]}

\* Induction over the naturals for a set: the operators that the library's theorem
\* takes cannot be given to it, a set can.
LEMMA Induct == ASSUME NEW S, 0 \in S, \A n \in Nat : n \in S => n + 1 \in S PROVE Nat \subseteq S
<1> DEFINE left == Nat \ S
<1> SUFFICES ASSUME left # {} PROVE FALSE
  OBVIOUS
<1>1. left \subseteq Nat
  OBVIOUS
<1>2. IsWellFoundedOn(Below, Nat)
  BY NatLessThanWellFounded DEF OpToRel, Below
<1> HIDE DEF left
<1>3. PICK x \in left : \A y \in left : ~(<<y, x>> \in Below)
  BY <1>1, <1>2, WFMin
<1>4. \A y \in left : ~(y < x)
  BY <1>3, <1>1 DEF Below
<1>5. x # 0 /\ x - 1 \in Nat /\ x - 1 \notin left
  BY <1>4, <1>1 DEF left
<1> QED
  BY <1>5 DEF left

\* Two sequences, one after the other, hold what both hold.
LEMMA Concatenated ==
  ASSUME NEW R, NEW s \in Seq(R), NEW t \in Seq(R)
  PROVE  s \o t \in Seq(R) /\ T!ToSet(s \o t) = T!ToSet(s) \cup T!ToSet(t)
<1>1. /\ s \o t \in Seq(R) /\ Len(s \o t) = Len(s) + Len(t)
      /\ \A i \in 1..(Len(s) + Len(t)) : (s \o t)[i] = IF i <= Len(s) THEN s[i] ELSE t[i - Len(s)]
  BY ConcatProperties
<1>2. /\ Len(s) \in Nat /\ DOMAIN s = 1..Len(s) /\ Len(t) \in Nat /\ DOMAIN t = 1..Len(t)
      /\ DOMAIN (s \o t) = 1..(Len(s) + Len(t))
  BY <1>1, LenProperties
<1>3. ASSUME NEW i \in DOMAIN (s \o t) PROVE (s \o t)[i] \in T!ToSet(s) \cup T!ToSet(t)
  <2>1. CASE i <= Len(s)
    BY <2>1, <1>1, <1>2 DEF T!ToSet
  <2>2. CASE i > Len(s)
    <3>1. i - Len(s) \in DOMAIN t /\ (s \o t)[i] = t[i - Len(s)]
      BY <2>2, <1>1, <1>2
    <3> QED BY <3>1 DEF T!ToSet
  <2> QED BY <2>1, <2>2, <1>2
<1>4. ASSUME NEW i \in DOMAIN s PROVE s[i] \in T!ToSet(s \o t)
  <2>1. i \in DOMAIN (s \o t) /\ (s \o t)[i] = s[i]
    BY <1>1, <1>2
  <2> QED BY <2>1 DEF T!ToSet
<1>5. ASSUME NEW i \in DOMAIN t PROVE t[i] \in T!ToSet(s \o t)
  <2>1. i + Len(s) \in DOMAIN (s \o t) /\ (s \o t)[i + Len(s)] = t[i]
    BY <1>1, <1>2
  <2> QED BY <2>1 DEF T!ToSet
<1>6. T!ToSet(s \o t) \subseteq T!ToSet(s) \cup T!ToSet(t)
  BY <1>3 DEF T!ToSet
<1>7. T!ToSet(s) \subseteq T!ToSet(s \o t) /\ T!ToSet(t) \subseteq T!ToSet(s \o t)
  BY <1>4, <1>5 DEF T!ToSet
<1> QED BY <1>1, <1>6, <1>7

\* FlattenSeq of the community modules, as far as element i: a function that is
\* defined by itself.
Prefix(g, ss) == [i \in 1..Len(ss) |-> IF i = 1 THEN ss[i] ELSE g[i-1] \o ss[i]]

\* There is such a function, so that FlattenSeq is what its last value is.
LEMMA Flatten ==
  ASSUME NEW ss, Len(ss) \in Nat, Len(ss) # 0
  PROVE  \E g : g = Prefix(g, ss) /\ T!FlattenSeq(ss) = g[Len(ss)]
<1> DEFINE Upto(n, g) == g = [i \in 1..n |-> IF i = 1 THEN ss[i] ELSE g[i-1] \o ss[i]]
           S == {n \in Nat : \E g : Upto(n, g)}
<1>1. 0 \in S
  <2> DEFINE g0 == [i \in 1..0 |-> FALSE]
  <2>1. Upto(0, g0)
    OBVIOUS
  <2> QED BY <2>1
<1>2. ASSUME NEW n \in Nat, n \in S PROVE n + 1 \in S
  <2>1. PICK g : Upto(n, g)
    BY <1>2
  <2> DEFINE h == [i \in 1..(n+1) |-> IF i = n+1 THEN (IF i = 1 THEN ss[i] ELSE g[i-1] \o ss[i]) ELSE g[i]]
  <2>2. \A i \in 1..n : h[i] = g[i]
    OBVIOUS
  <2>3. ASSUME NEW i \in 1..(n+1) PROVE h[i] = IF i = 1 THEN ss[i] ELSE h[i-1] \o ss[i]
    <3>1. CASE i = n+1
      BY <3>1, <2>2
    <3>2. CASE i \in 1..n
      <4>1. h[i] = g[i] /\ (i # 1 => h[i-1] = g[i-1])
        BY <3>2, <2>2
      <4> HIDE DEF h
      <4> QED BY <4>1, <2>1, <3>2
    <3> QED BY <3>1, <3>2
  <2>4. Upto(n+1, h)
    BY <2>3
  <2>5. \E k : Upto(n+1, k)
    <3> HIDE DEF h
    <3> WITNESS h
    <3> QED BY <2>4
  <2>6. n + 1 \in Nat
    OBVIOUS
  <2> QED BY <2>5, <2>6, Zenon
<1>3. Len(ss) \in S
  <2> HIDE DEF S
  <2> QED BY <1>1, <1>2, Induct
<1>4. \E g : g = Prefix(g, ss)
  BY <1>3 DEF Prefix
<1>5. T!FlattenSeq(ss) = (CHOOSE g : g = Prefix(g, ss))[Len(ss)]
  BY DEF T!FlattenSeq, Prefix
<1> QED BY <1>4, <1>5

\* What a sequence of sequences holds when it is flattened.
LEMMA Flattened ==
  ASSUME NEW R, NEW ss \in Seq(Seq(R))
  PROVE  /\ T!FlattenSeq(ss) \in Seq(R)
         /\ T!ToSet(T!FlattenSeq(ss)) = UNION {T!ToSet(ss[i]) : i \in DOMAIN ss}
<1>0. Len(ss) \in Nat /\ DOMAIN ss = 1..Len(ss) /\ \A i \in 1..Len(ss) : ss[i] \in Seq(R)
  BY LenProperties, ElementOfSeq
<1>1. CASE Len(ss) = 0
  <2>1. ss = <<>> /\ T!FlattenSeq(ss) = ss
    BY <1>1, EmptySeq DEF T!FlattenSeq
  <2>2. ss \in Seq(R) /\ T!ToSet(ss) = {} /\ {T!ToSet(ss[i]) : i \in DOMAIN ss} = {}
    BY <2>1, <1>0, <1>1 DEF T!ToSet
  <2> QED BY <2>1, <2>2
<1>2. CASE Len(ss) # 0
  <2>1. PICK g : g = Prefix(g, ss) /\ T!FlattenSeq(ss) = g[Len(ss)]
    BY <1>0, <1>2, Flatten
  <2>2. \A i \in 1..Len(ss) : g[i] = IF i = 1 THEN ss[i] ELSE g[i-1] \o ss[i]
    BY <2>1, <1>0 DEF Prefix
  <2> DEFINE Holds(i) == g[i] \in Seq(R) /\ T!ToSet(g[i]) = UNION {T!ToSet(ss[j]) : j \in 1..i}
             S == {n \in Nat : n \in 1..Len(ss) => Holds(n)}
  <2>3. 0 \in S
    OBVIOUS
  <2>4. ASSUME NEW n \in Nat, n \in S PROVE n + 1 \in S
    <3> SUFFICES ASSUME n + 1 \in 1..Len(ss) PROVE Holds(n + 1)
      OBVIOUS
    <3>1. CASE n = 0
      <4>1. g[1] = ss[1] /\ ss[1] \in Seq(R) /\ 1..1 = {1}
        BY <3>1, <2>2, <1>0
      <4> QED BY <4>1, <3>1
    <3>2. CASE n # 0
      <4>1. n \in 1..Len(ss) /\ Holds(n)
        BY <3>2, <2>4, <1>0
      <4>2. g[n+1] = g[n] \o ss[n+1] /\ ss[n+1] \in Seq(R)
        <5>1. n + 1 \in 1..Len(ss) /\ n + 1 # 1 /\ (n + 1) - 1 = n
          BY <3>2
        <5> QED BY <5>1, <2>2, <1>0
      <4>3. g[n+1] \in Seq(R) /\ T!ToSet(g[n+1]) = T!ToSet(g[n]) \cup T!ToSet(ss[n+1])
        BY <4>1, <4>2, Concatenated
      <4>4. 1..(n+1) = 1..n \cup {n+1}
        OBVIOUS
      <4> QED BY <4>1, <4>3, <4>4
    <3> QED BY <3>1, <3>2
  <2>5. Len(ss) \in S
    <3> HIDE DEF S
    <3> QED BY <2>3, <2>4, <1>0, Induct
  <2> QED BY <2>5, <2>1, <1>0, <1>2
<1> QED BY <1>1, <1>2

\* A function on 1..n is a sequence.
LEMMA AsSeq ==
  ASSUME NEW S, NEW n \in Nat, NEW f \in [1..n -> S]
  PROVE  f \in Seq(S) /\ Len(f) = n
OBVIOUS

\* The same for the blocks of a function on 1..n: what For gives.
LEMMA Blocks ==
  ASSUME NEW R, NEW D, NEW n \in Nat, D = 1..n, NEW ss \in [D -> Seq(R)]
  PROVE  /\ T!FlattenSeq(ss) \in Seq(R)
         /\ \A x : x \in T!ToSet(T!FlattenSeq(ss)) <=> \E i \in D : x \in T!ToSet(ss[i])
<1> DEFINE SS == Seq(R)
<1>1. ss \in Seq(SS)
  <2> HIDE DEF SS
  <2>1. ss \in [1..n -> SS]
    BY DEF SS
  <2> QED BY <2>1, AsSeq
<1>2. DOMAIN ss = D
  OBVIOUS
<1>3. T!FlattenSeq(ss) \in Seq(R) /\ T!ToSet(T!FlattenSeq(ss)) = UNION {T!ToSet(ss[i]) : i \in DOMAIN ss}
  BY <1>1, Flattened
<1> QED BY <1>2, <1>3

\* A sequence of one.
LEMMA Single ==
  ASSUME NEW R, NEW x \in R
  PROVE  <<x>> \in Seq(R) /\ T!ToSet(<<x>>) = {x}
BY DEF T!ToSet

\* A sequence of two.
LEMMA Pair ==
  ASSUME NEW R, NEW x \in R, NEW y \in R
  PROVE  <<x, y>> \in Seq(R) /\ T!ToSet(<<x, y>>) = {x, y}
BY DEF T!ToSet

\* The elements of a sequence, its head and its tail.
LEMMA ElementsOf ==
  ASSUME NEW R, NEW s \in Seq(R)
  PROVE  /\ DOMAIN s = 1..Len(s) /\ Len(s) \in Nat
         /\ \A i \in DOMAIN s : s[i] \in R
         /\ T!ToSet(s) \subseteq R
         /\ s # <<>> => s[1] \in T!ToSet(s) /\ Tail(s) \in Seq(R) /\ T!ToSet(s) = {s[1]} \cup T!ToSet(Tail(s))
<1>1. DOMAIN s = 1..Len(s) /\ Len(s) \in Nat /\ \A i \in DOMAIN s : s[i] \in R
  BY LenProperties, ElementOfSeq
<1>2. ASSUME s # <<>> PROVE s[1] \in T!ToSet(s) /\ Tail(s) \in Seq(R) /\ T!ToSet(s) = {s[1]}
                 \cup T!ToSet(Tail(s))
  <2>1. /\ Tail(s) \in Seq(R) /\ Len(Tail(s)) = Len(s)-1
        /\ \A i \in 1 .. Len(Tail(s)) : Tail(s)[i] = s[i+1]
    BY <1>2, HeadTailProperties
  <2>2. DOMAIN Tail(s) = 1..(Len(s)-1) /\ Len(s) >= 1
    BY <2>1, <1>1, LenProperties
  <2>3. \A i \in DOMAIN s : i = 1 \/ (i - 1 \in DOMAIN Tail(s) /\ s[i] = Tail(s)[i-1])
    BY <2>1, <2>2, <1>1
  <2>4. \A i \in DOMAIN Tail(s) : i + 1 \in DOMAIN s /\ Tail(s)[i] = s[i+1]
    BY <2>1, <2>2, <1>1
  <2>5. 1 \in DOMAIN s
    BY <2>2, <1>1
  <2> QED BY <2>1, <2>3, <2>4, <2>5 DEF T!ToSet
<1> QED BY <1>1, <1>2 DEF T!ToSet

\* The reverse of a sequence holds the same.
LEMMA Reversed ==
  ASSUME NEW R, NEW s \in Seq(R)
  PROVE  T!Reverse(s) \in Seq(R) /\ T!ToSet(T!Reverse(s)) = T!ToSet(s)
<1>1. DOMAIN s = 1..Len(s) /\ Len(s) \in Nat /\ \A i \in DOMAIN s : s[i] \in R
  BY ElementsOf
<1> DEFINE r == T!Reverse(s)
<1>2. r \in [1..Len(s) -> R] /\ \A i \in 1..Len(s) : r[i] = s[(Len(s) - i) + 1]
  BY <1>1 DEF T!Reverse
<1> HIDE DEF r
<1>3. r \in Seq(R) /\ DOMAIN r = DOMAIN s
  BY <1>1, <1>2, AsSeq
<1>4. \A i \in DOMAIN s : (Len(s) - i) + 1 \in DOMAIN s /\ (Len(s) - ((Len(s) - i) + 1)) + 1 = i
  BY <1>1
<1>5. T!ToSet(r) = T!ToSet(s)
  <2>1. \A i \in DOMAIN r : r[i] = s[(Len(s) - i) + 1]
    BY <1>1, <1>2, <1>3
  <2>2. \A i \in DOMAIN s : s[i] = r[(Len(s) - i) + 1]
    BY <2>1, <1>3, <1>4
  <2> QED BY <2>1, <2>2, <1>3, <1>4 DEF T!ToSet
<1> QED BY <1>3, <1>5 DEF r

-----------------------------------------------------------------------------
(* The inductive invariant of a test.                                      *)

\* The calls of the blocks before the teardown, validate() apart.
Steps == {"Connect", "Push", "Made", "Get", "Add", "Start", "Attach", "Wait", "Watch", "Ping", "Xapp",
          "IPerf", "Ims", "Check", "StopUe", "Stop", "Traced"}

\* The calls of the blocks of the teardown.
LastCalls == [teardown |-> {"End"}, artifacts |-> {"Id", "Fetch"}, close |-> {"Tell", "Join", "Shutdown"},
              done |-> {}]

\* The blocks between the fixtures and the teardown.
Middle == {"config", "network", "traffic", "ims", "stop", "validate", "traced"}

\* All of them.
Stages == {"setup"} \cup Middle \cup DOMAIN LastCalls

\* Whom a call is to: an agent, a kind of fixture, or the test itself.
Whom == STRING \cup {"test"}

\* The calls with these names.
Task(names) == [do : names, to : Whom]

\* The agents of a template.
AgentsIn(t) == UNION {T!ToSet(f.agents) : f \in FixturesOf(t)}

\* The runs of a SUT.
Run == [at : {"none", "on", "dead", "over", "ended", "gone"}, code : Int, errors : Int, warnings : Int,
    kos : Int]

\* Each block has its own calls left, and no other.
TodoIs(at, calls) ==
    /\ at \in ({"setup"} \cup Middle) \ {"validate"} => calls \in Seq(Task(Steps))
    /\ at \in DOMAIN LastCalls => calls \in Seq(Task(LastCalls[at]))

\* A fixture that has not returned its stubs has its return left to do; once the
\* fixtures are through, all have.
Makes(t, at, calls, m) ==
    /\ at = "setup" => \A f \in FixturesOf(t) : f.kind \in m \/ T!Call("Made", f.kind) \in T!ToSet(calls)
    /\ at \in Middle => \A f \in FixturesOf(t) : f.kind \in m

\* What the agent of a run that counts as stopped has said.
IsOver(run) == run.at \in {"none", "ended"} /\ run.code = 0

\* When no exception was raised and no error logged, each agent has ended its run
\* well, or has its End left to do: the strengthening of PassedMeansStopped.
Ends(t, at, calls, e, log, runs) ==
    e = "none" /\ ~log =>
        /\ at = "teardown" => \A a \in AgentsIn(t) : IsOver(runs[a]) \/ T!Call("End", a) \in T!ToSet(calls)
        /\ at \in {"artifacts", "close", "done"} => \A a \in AgentsIn(t) : IsOver(runs[a])

\* What is left of validate() after n of m criteria.
LeftToJudge(n, m) == [i \in 1..(m - n + 1) |-> IF i = m - n + 1 THEN T!Call("Verdict",
    0) ELSE T!Call("Judge", n + i)]

\* The criterion asks for a bearer that carried too little.
Missed(t, c) == \E b \in DOMAIN c.bearers : c.bearers[b].id \in DOMAIN t.seen =>
    t.seen[c.bearers[b].id] <= c.bearers[b].value

\* After n criteria the failures are among these n, and of the ones about bearers
\* they are those that were missed: the strengthening of BearersAreJudged.
Judges(t, at, calls, failed) ==
    /\ at \in {"setup", "config", "network", "traffic", "ims", "stop"} => failed = {}
    /\ at = "validate" => calls = <<>> \/
        \E n \in 0..Len(t.criteria) :
            /\ calls = LeftToJudge(n, Len(t.criteria))
            /\ failed \subseteq 1..n
            /\ \A i \in 1..n : t.criteria[i].bearers # <<>> => (i \in failed <=> Missed(t, t.criteria[i]))

\* The inductive invariant of a test.
TInv ==
    /\ stage \in Stages /\ exc \in {"none", "Failed", "Error"} /\ sut \in [AgentsIn(template) -> Run]
    /\ TodoIs(stage, todo)
    /\ Makes(template, stage, todo, made)
    /\ Ends(template, stage, todo, exc, logged, sut)
    /\ Judges(template, stage, todo, failures)

-----------------------------------------------------------------------------
(* The calls of the blocks.                                                *)

\* The fixtures of a template.
Fixture == [kind : STRING, agents : Seq(STRING), late : BOOLEAN]

\* A template has such fixtures.
LEMMA TheTemplate ==
  ASSUME template \in Templates
  PROVE  /\ template.fixtures \in Seq(Fixture)
         /\ DOMAIN template.fixtures = 1..Len(template.fixtures)
         /\ \A i \in DOMAIN template.fixtures : template.fixtures[i] \in Fixture
         /\ FixturesOf(template) \subseteq Fixture
<1>1. template.fixtures \in Seq(Fixture)
  BY TemplatesAssumption DEF Fixture
<1> QED BY <1>1, ElementsOf DEF FixturesOf

\* The agents of a kind.
LEMMA OfTyped ==
  ASSUME template \in Templates, NEW kind
  PROVE  T!Of(kind) \in Seq(STRING)
<1> DEFINE fs == template.fixtures
           ss == [i \in DOMAIN fs |-> IF fs[i].kind = kind THEN fs[i].agents ELSE <<>>]
<1>1. fs \in Seq(Fixture)
  BY TheTemplate
<1>2. ss \in [DOMAIN fs -> Seq(STRING)]
  <2>1. \A i \in DOMAIN fs : fs[i].agents \in Seq(STRING)
    BY TheTemplate DEF Fixture
  <2> QED BY <2>1, EmptySeq
<1>3. T!FlattenSeq(ss) \in Seq(STRING)
  <2> HIDE DEF ss
  <2>1. DOMAIN fs = 1..Len(fs) /\ Len(fs) \in Nat
    BY <1>1, ElementsOf
  <2> HIDE DEF fs
  <2> QED BY <2>1, <1>2, Blocks
<1> QED BY <1>3 DEF T!Of, T!For

\* The same call to each of some agents.
LEMMA CallsTyped ==
  ASSUME NEW names, NEW what \in names, NEW as \in Seq(STRING)
  PROVE  /\ T!Calls(what, as) \in Seq(Task(names))
         /\ T!ToSet(T!Calls(what, as)) = {T!Call(what, a) : a \in T!ToSet(as)}
<1>1. DOMAIN as = 1..Len(as) /\ Len(as) \in Nat /\ \A i \in DOMAIN as : as[i] \in STRING
  BY ElementsOf
<1>2. T!Calls(what, as) \in [1..Len(as) -> Task(names)]
  BY <1>1 DEF T!Calls, T!Call, Task, Whom
<1>3. T!Calls(what, as) \in Seq(Task(names))
  BY <1>1, <1>2, AsSeq
<1> QED BY <1>1, <1>3 DEF T!Calls, T!ToSet

\* InOrder goes over the fixtures twice.
LEMMA TwoPasses ==
  ASSUME NEW R, NEW D, NEW n \in Nat, D = 1..n, NEW ps \in [D -> Seq(R)], NEW ls \in [D -> Seq(R)]
  PROVE  T!FlattenSeq(ps) \o T!FlattenSeq(ls) \in Seq(R)
<1>1. T!FlattenSeq(ps) \in Seq(R) /\ T!FlattenSeq(ls) \in Seq(R)
  BY Blocks
<1> QED BY <1>1, Concatenated

\* What is left of a block of steps.
StepCalls == Seq(Task(Steps))

\* For, over any sequence.
LEMMA EachBlock ==
  ASSUME NEW S, NEW R, NEW as \in Seq(S), NEW ss \in [DOMAIN as -> Seq(R)]
  PROVE  T!FlattenSeq(ss) \in Seq(R)
<1>1. DOMAIN as = 1..Len(as) /\ Len(as) \in Nat
  BY ElementsOf
<1> QED BY <1>1, Blocks

\* Two blocks of steps.
LEMMA Joined ==
  ASSUME NEW s \in StepCalls, NEW t \in StepCalls
  PROVE  s \o t \in StepCalls
BY ConcatProperties DEF StepCalls

\* A step of each agent of a kind.
LEMMA StepsOf ==
  ASSUME template \in Templates, NEW k, NEW what \in Steps
  PROVE  T!Calls(what, T!Of(k)) \in StepCalls
BY OfTyped, CallsTyped DEF StepCalls

\* A block of one step.
LEMMA OneStep ==
  ASSUME NEW what \in Steps, NEW a \in Whom
  PROVE  <<T!Call(what, a)>> \in StepCalls
<1>1. T!Call(what, a) \in Task(Steps)
  BY DEF T!Call, Task
<1> QED BY <1>1, Single DEF StepCalls

\* A block of two steps.
LEMMA TwoSteps ==
  ASSUME NEW what \in Steps, NEW then \in Steps, NEW a \in Whom, NEW b \in Whom
  PROVE  <<T!Call(what, a), T!Call(then, b)>> \in StepCalls
<1>1. T!Call(what, a) \in Task(Steps) /\ T!Call(then, b) \in Task(Steps)
  BY DEF T!Call, Task
<1> QED BY <1>1, Pair DEF StepCalls

\* A block for each agent of a kind.
LEMMA EachOf ==
  ASSUME template \in Templates, NEW k, NEW ss,
         ss \in [DOMAIN T!Of(k) -> StepCalls]
  PROVE  T!FlattenSeq(ss) \in StepCalls
<1>1. T!Of(k) \in Seq(STRING)
  BY OfTyped
<1> QED BY <1>1, EachBlock DEF StepCalls

\* The agents of a kind can be called.
LEMMA ElementOf ==
  ASSUME template \in Templates, NEW k
  PROVE  \A i \in DOMAIN T!Of(k) : T!Of(k)[i] \in Whom
BY OfTyped, ElementsOf DEF Whom

\* Each agent of a kind is started and asked for its definition.
LEMMA Starts ==
  ASSUME template \in Templates, NEW k
  PROVE  T!For(T!Of(k), T!StartAndGet) \in StepCalls
<1> DEFINE ss == [i \in DOMAIN T!Of(k) |-> T!StartAndGet(T!Of(k)[i])]
<1>1. \A a \in Whom : T!StartAndGet(a) \in StepCalls
  BY TwoSteps DEF T!StartAndGet, Steps
<1>2. ss \in [DOMAIN T!Of(k) -> StepCalls]
  BY <1>1, ElementOf
<1>3. T!FlattenSeq(ss) \in StepCalls
  BY <1>2, EachOf
<1> QED BY <1>3 DEF T!For

\* The look at the messages that were collected.
LEMMA CheckIs == T!Check \in StepCalls
<1>1. T!Check = <<T!Call("Check", "test")>>
  BY DEF T!Check
<1>2. "Check" \in Steps /\ "test" \in Whom
  BY DEF Steps, Whom
<1>3. <<T!Call("Check", "test")>> \in StepCalls
  BY <1>2, OneStep
<1> QED BY <1>1, <1>3

\* The three ways to start a network.
LEMMA Networks ==
  ASSUME template \in Templates
  PROVE  T!StartNetwork \in StepCalls /\ T!StartTwoCores \in StepCalls /\ T!StartTestMode \in StepCalls
<1> DEFINE C(what, k) == T!Calls(what, T!Of(k))
           S(k) == T!For(T!Of(k), T!StartAndGet)
<1>1. \A k : S(k) \in StepCalls
  BY Starts
<1>2. \A k : \A what \in {"Get", "Add", "Start"} : C(what, k) \in StepCalls
  BY StepsOf DEF Steps
<1> DEFINE us == [i \in DOMAIN T!Of("ue") |-> <<T!Call("Get", T!Of("ue")[i])>> \o C("Add", "fivegc")]
           cs == [i \in DOMAIN T!Of("cu") |-> <<T!Call("Get", T!Of("cu")[i]), T!Call("Start", T!Of("cu")[i])>>]
<1>3. T!FlattenSeq(us) \in StepCalls
  <2>1. ASSUME NEW a \in Whom PROVE <<T!Call("Get", a)>> \o C("Add", "fivegc") \in StepCalls
    <3>1. <<T!Call("Get", a)>> \in StepCalls
      BY OneStep DEF Steps
    <3>2. C("Add", "fivegc") \in StepCalls
      BY <1>2
    <3> QED BY <3>1, <3>2, Joined, Zenon
  <2>2. us \in [DOMAIN T!Of("ue") -> StepCalls]
    BY <2>1, ElementOf
  <2> HIDE DEF us
  <2> QED BY <2>2, EachOf
<1>4. T!FlattenSeq(cs) \in StepCalls
  <2>1. ASSUME NEW a \in Whom PROVE <<T!Call("Get", a), T!Call("Start", a)>> \in StepCalls
    BY TwoSteps DEF Steps
  <2>2. cs \in [DOMAIN T!Of("cu") -> StepCalls]
    BY <2>1, ElementOf
  <2> HIDE DEF cs
  <2> QED BY <2>2, EachOf
<1>5. T!StartNetwork = T!FlattenSeq(us) \o S("fivegc") \o S("ric") \o C("Get", "gnb") \o S("gnb")
        \o T!FlattenSeq(cs) \o C("Get", "cu_cp") \o C("Start", "cu_cp") \o C("Start",
            "cu_up") \o C("Start", "du")
  BY Zenon DEF T!StartNetwork, T!For
<1>6. T!StartTwoCores = S("fivegc") \o C("Get", "ue") \o S("gnb") \o C("Get", "ue") \o C("Add", "fivegc")
  BY DEF T!StartTwoCores
<1>7. T!StartTestMode = S("fivegc") \o C("Get", "gnb") \o S("gnb")
  BY DEF T!StartTestMode
<1> HIDE DEF C, S, us, cs
<1>8. T!StartTwoCores \in StepCalls /\ T!StartTestMode \in StepCalls
  <2>1. S("fivegc") \in StepCalls /\ S("gnb") \in StepCalls
    BY <1>1
  <2>2. C("Get", "ue") \in StepCalls /\ C("Add", "fivegc") \in StepCalls /\ C("Get", "gnb") \in StepCalls
    BY <1>2
  <2> QED BY <2>1, <2>2, <1>6, <1>7, Joined, Zenon
<1>9. T!StartNetwork \in StepCalls
  <2>1. S("fivegc") \in StepCalls /\ S("gnb") \in StepCalls /\ S("ric") \in StepCalls
    BY <1>1
  <2>2. /\ C("Get", "gnb") \in StepCalls /\ C("Get", "cu_cp") \in StepCalls /\ C("Start", "cu_cp") \in StepCalls
        /\ C("Start", "cu_up") \in StepCalls /\ C("Start", "du") \in StepCalls
    BY <1>2
  <2> QED BY <2>1, <2>2, <1>3, <1>4, <1>5, Joined, Zenon
<1> QED BY <1>8, <1>9

\* Start and attach the UEs.
LEMMA AttachIs ==
  ASSUME template \in Templates
  PROVE  T!UeStart \in StepCalls /\ T!StartAndAttach \in StepCalls
<1> DEFINE C(what, k) == T!Calls(what, T!Of(k))
<1>1. /\ C("Get", "fivegc") \in StepCalls /\ C("Start", "ue") \in StepCalls
      /\ C("Get", "gnb") \in StepCalls /\ C("Attach", "ue") \in StepCalls
  BY StepsOf DEF Steps
<1>2. T!UeStart = C("Get", "fivegc") \o C("Start", "ue")
  BY DEF T!UeStart
<1>3. T!StartAndAttach = C("Get", "gnb") \o T!UeStart \o C("Attach", "ue")
  BY DEF T!StartAndAttach
<1> HIDE DEF C
<1>4. T!UeStart \in StepCalls
  BY <1>1, <1>2, Joined, Zenon
<1> QED BY <1>1, <1>3, <1>4, Joined, Zenon

\* The pings between the core and the UEs.
LEMMA PingsAre ==
  ASSUME template \in Templates
  PROVE  T!Pings \in StepCalls
<1> DEFINE inner(c) == [i \in DOMAIN T!Of("ue") |-> <<T!Call("Ping", T!Of("ue")[i]), T!Call("Ping", c)>>]
           outer == [i \in DOMAIN T!Of("fivegc") |-> T!FlattenSeq(inner(T!Of("fivegc")[i]))]
<1>1. ASSUME NEW c \in Whom PROVE T!FlattenSeq(inner(c)) \in StepCalls
  <2>1. ASSUME NEW a \in Whom PROVE <<T!Call("Ping", a), T!Call("Ping", c)>> \in StepCalls
    BY TwoSteps DEF Steps
  <2>2. inner(c) \in [DOMAIN T!Of("ue") -> StepCalls]
    BY <2>1, ElementOf
  <2> HIDE DEF inner
  <2> QED BY <2>2, EachOf
<1>2. outer \in [DOMAIN T!Of("fivegc") -> StepCalls]
  <2> HIDE DEF inner
  <2> QED BY <1>1, ElementOf
<1>3. T!FlattenSeq(outer) \in StepCalls
  <2> HIDE DEF outer
  <2> QED BY <1>2, EachOf
<1>4. T!Pings = T!FlattenSeq(outer) \o T!Check
  BY DEF T!Pings, T!For
<1> HIDE DEF outer
<1> QED BY <1>3, <1>4, CheckIs, Joined, Zenon

\* The pings of several attaches.
LEMMA AttachesAre ==
  ASSUME template \in Templates
  PROVE  T!Attaches \in StepCalls
<1> DEFINE again == T!Calls("StopUe", T!Of("ue")) \o T!Check
           one(i) == (IF i = 1 THEN <<>> ELSE again) \o T!StartAndAttach \o T!Pings
           ss == [i \in 1..template.attaches |-> one(i)]
<1>1. again \in StepCalls /\ <<>> \in StepCalls
  <2>1. T!Calls("StopUe", T!Of("ue")) \in StepCalls
    BY StepsOf DEF Steps
  <2> QED BY <2>1, CheckIs, Joined, EmptySeq DEF StepCalls
<1>2. \A i \in 1..template.attaches : one(i) \in StepCalls
  <2> HIDE DEF again
  <2>1. \A i \in 1..template.attaches : (IF i = 1 THEN <<>> ELSE again) \in StepCalls
    BY <1>1
  <2> QED BY <2>1, AttachIs, PingsAre, Joined, Zenon
<1>3. template.attaches \in Nat
  BY TemplatesAssumption
<1>4. ss \in [1..template.attaches -> StepCalls]
  <2> HIDE DEF one
  <2> QED BY <1>2
<1>5. T!FlattenSeq(ss) \in StepCalls
  <2> HIDE DEF ss
  <2> QED BY <1>3, <1>4, Blocks DEF StepCalls
<1> QED BY <1>5 DEF T!Attaches

\* The traffic of each test.
LEMMA TrafficIs ==
  ASSUME template \in Templates
  PROVE  T!TrafficOf(template.test) \in StepCalls
<1> DEFINE C(what, k) == T!Calls(what, T!Of(k))
<1>1. /\ C("Ping", "fivegc") \in StepCalls /\ C("Get", "gnb") \in StepCalls /\ C("Get", "du") \in StepCalls
      /\ C("Watch", "ue") \in StepCalls /\ C("Wait", "ue") \in StepCalls /\ C("Xapp", "ric") \in StepCalls
      /\ C("IPerf", "ue") \in StepCalls
  BY StepsOf DEF Steps
<1>2. <<>> \in StepCalls
  BY EmptySeq DEF StepCalls
<1>3. /\ T!Paging = T!StartAndAttach \o T!Pings \o C("Ping", "fivegc") \o T!Check
      /\ T!Simulator = C("Get", "gnb") \o C("Get", "du") \o T!UeStart \o C("Watch", "ue")
      /\ T!Mocn = T!UeStart \o C("Wait", "ue") \o T!Pings
      /\ T!IPerf = T!StartAndAttach \o C("Xapp", "ric") \o C("Xapp", "ric")
                   \o C("IPerf", "ue") \o C("Xapp", "ric") \o C("Xapp", "ric")
  BY DEF T!Paging, T!Simulator, T!Mocn, T!IPerf
<1> HIDE DEF C
<1>4. T!Paging \in StepCalls /\ T!Mocn \in StepCalls
  BY <1>1, <1>3, AttachIs, PingsAre, CheckIs, Joined, Zenon
<1>5. T!Simulator \in StepCalls /\ T!IPerf \in StepCalls
  BY <1>1, <1>3, AttachIs, Joined, Zenon
<1>6. template.test \in {"ping", "paging", "ue_simulator", "mocn", "iperf", "test_mode"}
  BY TemplatesAssumption
<1> QED BY <1>2, <1>4, <1>5, <1>6, AttachesAre DEF T!TrafficOf

\* The stops at the end of a test.
LEMMA StopsAre ==
  ASSUME template \in Templates
  PROVE  T!Stops \in StepCalls
<1> DEFINE order == <<"ue", "gnb", "du", "cu", "cu_up", "cu_cp", "fivegc", "ric">>
           ss == [i \in DOMAIN order |-> T!Calls("Stop", T!Of(order[i]))]
<1>1. \A k : T!Calls("Stop", T!Of(k)) \in StepCalls
  BY StepsOf DEF Steps
<1>2. DOMAIN order = 1..8
  OBVIOUS
<1>3. ss \in [DOMAIN order -> StepCalls]
  <2> HIDE DEF order
  <2> QED BY <1>1
<1>4. T!FlattenSeq(ss) \in StepCalls
  <2> HIDE DEF order, ss
  <2> QED BY <1>2, <1>3, Blocks DEF StepCalls
<1>5. T!Stops = T!FlattenSeq(ss) \o T!Check
  BY DEF T!Stops, T!For
<1> HIDE DEF ss
<1> QED BY <1>4, <1>5, CheckIs, Joined, Zenon

\* The agents of a fixture.
LEMMA AgentsOfFixture ==
  ASSUME template \in Templates, NEW i \in DOMAIN template.fixtures
  PROVE  /\ template.fixtures[i].agents \in Seq(STRING)
         /\ DOMAIN template.fixtures[i].agents = 1..Len(template.fixtures[i].agents)
         /\ Len(template.fixtures[i].agents) \in Nat
         /\ \A j \in DOMAIN template.fixtures[i].agents : template.fixtures[i].agents[j] \in Whom
         /\ template.fixtures[i].kind \in Whom
<1>1. template.fixtures[i] \in Fixture
  BY TheTemplate
<1>2. template.fixtures[i].agents \in Seq(STRING) /\ template.fixtures[i].kind \in STRING
  BY <1>1 DEF Fixture
<1> QED BY <1>2, ElementsOf DEF Whom

\* The calls to one agent.
LEMMA CallsToTyped ==
  ASSUME NEW names, NEW whats \in Seq(names), NEW a \in Whom
  PROVE  T!CallsTo(whats, a) \in Seq(Task(names))
<1>1. DOMAIN whats = 1..Len(whats) /\ Len(whats) \in Nat /\ \A i \in DOMAIN whats : whats[i] \in names
  BY ElementsOf
<1>2. T!CallsTo(whats, a) \in [1..Len(whats) -> Task(names)]
  BY <1>1 DEF T!CallsTo, T!Call, Task
<1> QED BY <1>1, <1>2, AsSeq

\* The calls to each open client.
LEMMA ForOpenTyped ==
  ASSUME template \in Templates, NEW names, NEW whats \in Seq(names)
  PROVE  T!ForOpen(whats) \in Seq(Task(names))
<1> DEFINE fs == template.fixtures
           R == Seq(Task(names))
           call(a) == IF client[a] = "open" THEN T!CallsTo(whats, a) ELSE <<>>
           inner(j) == [i \in DOMAIN fs[j].agents |-> call(fs[j].agents[i])]
           ss == [j \in DOMAIN fs |-> T!FlattenSeq(inner(j))]
           ps == [i \in DOMAIN fs |-> IF fs[i].late THEN <<>> ELSE ss[i]]
           ls == [i \in DOMAIN fs |-> IF fs[i].late THEN ss[i] ELSE <<>>]
<1>1. ASSUME NEW a \in Whom PROVE call(a) \in R
  BY CallsToTyped, EmptySeq
<1>2. ASSUME NEW j \in DOMAIN fs PROVE T!FlattenSeq(inner(j)) \in R
  <2>1. inner(j) \in [DOMAIN fs[j].agents -> R]
    <3> HIDE DEF call, R
    <3> QED BY <1>1, AgentsOfFixture
  <2>2. fs[j].agents \in Seq(STRING)
    BY AgentsOfFixture
  <2> HIDE DEF inner, fs
  <2> QED BY <2>1, <2>2, EachBlock
<1>3. ss \in [DOMAIN fs -> R]
  <2> HIDE DEF inner, R
  <2> QED BY <1>2
<1>4. DOMAIN fs = 1..Len(fs) /\ Len(fs) \in Nat
  BY TheTemplate, ElementsOf
<1>5. T!FlattenSeq(ps) \o T!FlattenSeq(ls) \in R
  <2>1. ps \in [DOMAIN fs -> R] /\ ls \in [DOMAIN fs -> R]
    <3> HIDE DEF ss, R
    <3>1. <<>> \in R
      BY EmptySeq DEF R
    <3> QED BY <3>1, <1>3
  <2> HIDE DEF ps, ls, fs
  <2> QED BY <2>1, <1>4, TwoPasses
<1>6. T!ForOpen(whats) = T!FlattenSeq(ps) \o T!FlattenSeq(ls)
  BY DEF T!ForOpen, T!InOrder, T!For
<1> QED BY <1>5, <1>6

\* The fixtures: their calls are steps, and each one returns its stubs.
LEMMA FixturesTyped ==
  ASSUME template \in Templates
  PROVE  /\ T!Fixtures \in StepCalls
         /\ \A f \in FixturesOf(template) : T!Call("Made", f.kind) \in T!ToSet(T!Fixtures)
<1> DEFINE fs == template.fixtures
           call(a) == T!CallsTo(<<"Connect", "Push">>, a)
           inner(j) == [i \in DOMAIN fs[j].agents |-> call(fs[j].agents[i])]
           ss == [j \in DOMAIN fs |-> T!FlattenSeq(inner(j)) \o <<T!Call("Made", fs[j].kind)>>]
           ps == [i \in DOMAIN fs |-> IF fs[i].late THEN <<>> ELSE ss[i]]
           ls == [i \in DOMAIN fs |-> IF fs[i].late THEN ss[i] ELSE <<>>]
<1>1. ASSUME NEW a \in Whom PROVE call(a) \in StepCalls
  <2>1. <<"Connect", "Push">> \in Seq(Steps)
    BY DEF Steps
  <2> QED BY <2>1, CallsToTyped DEF StepCalls
<1>2. ASSUME NEW j \in DOMAIN fs PROVE ss[j] \in StepCalls /\ T!Call("Made", fs[j].kind) \in T!ToSet(ss[j])
  <2>1. inner(j) \in [DOMAIN fs[j].agents -> StepCalls]
    <3> HIDE DEF call
    <3> QED BY <1>1, AgentsOfFixture
  <2>2. fs[j].agents \in Seq(STRING)
    BY AgentsOfFixture
  <2>3. T!FlattenSeq(inner(j)) \in StepCalls
    <3> HIDE DEF inner, fs
    <3> QED BY <2>1, <2>2, EachBlock DEF StepCalls
  <2>4. T!Call("Made", fs[j].kind) \in Task(Steps)
    BY AgentsOfFixture DEF T!Call, Task, Steps
  <2>5. ss[j] = T!FlattenSeq(inner(j)) \o <<T!Call("Made", fs[j].kind)>>
    OBVIOUS
  <2> HIDE DEF inner, ss
  <2>6. <<T!Call("Made", fs[j].kind)>> \in StepCalls
        /\ T!ToSet(<<T!Call("Made", fs[j].kind)>>) = {T!Call("Made", fs[j].kind)}
    BY <2>4, Single DEF StepCalls
  <2> DEFINE u == T!FlattenSeq(inner(j))
             v == <<T!Call("Made", fs[j].kind)>>
  <2>7. u \in StepCalls /\ v \in StepCalls /\ ss[j] = u \o v
    BY <2>3, <2>5, <2>6
  <2>8. T!ToSet(v) = {T!Call("Made", fs[j].kind)}
    BY <2>6
  <2> HIDE DEF u, v
  <2>9. u \o v \in StepCalls /\ T!ToSet(u \o v) = T!ToSet(u) \cup T!ToSet(v)
    BY <2>7, Concatenated DEF StepCalls
  <2> QED BY <2>7, <2>8, <2>9
<1>3. ss \in [DOMAIN fs -> StepCalls]
  BY <1>2
<1>4. DOMAIN fs = 1..Len(fs) /\ Len(fs) \in Nat
  BY TheTemplate, ElementsOf
<1>5. /\ T!FlattenSeq(ps) \o T!FlattenSeq(ls) \in StepCalls
      /\ \A x : x \in T!ToSet(T!FlattenSeq(ps) \o T!FlattenSeq(ls))
                 <=> \E i \in DOMAIN fs : x \in T!ToSet(ps[i]) \/ x \in T!ToSet(ls[i])
  <2>1. ps \in [DOMAIN fs -> StepCalls] /\ ls \in [DOMAIN fs -> StepCalls]
    <3> HIDE DEF ss
    <3>1. <<>> \in StepCalls
      BY EmptySeq DEF StepCalls
    <3> QED BY <3>1, <1>3
  <2> DEFINE R == Task(Steps)
  <2>2. ps \in [DOMAIN fs -> Seq(R)] /\ ls \in [DOMAIN fs -> Seq(R)]
    BY <2>1 DEF StepCalls
  <2> HIDE DEF ps, ls, fs, R
  <2> DEFINE p == T!FlattenSeq(ps)
             l == T!FlattenSeq(ls)
  <2>3. p \in Seq(R) /\ \A x : x \in T!ToSet(p) <=> \E i \in DOMAIN fs : x \in T!ToSet(ps[i])
    BY <2>2, <1>4, Blocks
  <2>4. l \in Seq(R) /\ \A x : x \in T!ToSet(l) <=> \E i \in DOMAIN fs : x \in T!ToSet(ls[i])
    BY <2>2, <1>4, Blocks
  <2> HIDE DEF p, l
  <2>5. p \in Seq(R) /\ l \in Seq(R)
    BY <2>3, <2>4
  <2>6. p \o l \in Seq(R) /\ T!ToSet(p \o l) = T!ToSet(p) \cup T!ToSet(l)
    BY <2>5, Concatenated
  <2>7. \A x : x \in T!ToSet(p \o l) <=> \E i \in DOMAIN fs : x \in T!ToSet(ps[i]) \/ x \in T!ToSet(ls[i])
    BY <2>3, <2>4, <2>6
  <2> QED BY <2>6, <2>7 DEF StepCalls, R, p, l
<1>6. T!Fixtures = T!FlattenSeq(ps) \o T!FlattenSeq(ls)
  BY DEF T!Fixtures, T!Factory, T!InOrder, T!For
<1>61. \A i \in DOMAIN fs : ss[i] = ps[i] \/ ss[i] = ls[i]
  <2> HIDE DEF ss
  <2> QED OBVIOUS
<1> HIDE DEF ss, ps, ls
<1>7. ASSUME NEW f \in FixturesOf(template) PROVE T!Call("Made", f.kind) \in T!ToSet(T!Fixtures)
  <2>1. PICK i \in DOMAIN fs : f = fs[i]
    BY DEF FixturesOf, T!ToSet
  <2> QED BY <2>1, <1>2, <1>5, <1>6, <1>61
<1> QED BY <1>5, <1>6, <1>7

\* The finalizers: an End for each agent, when all fixtures have returned.
LEMMA EndStubsTyped ==
  ASSUME template \in Templates
  PROVE  /\ T!EndStubs \in Seq(Task({"End"}))
         /\ (\A f \in FixturesOf(template) : f.kind \in made) =>
                \A a \in AgentsIn(template) : T!Call("End", a) \in T!ToSet(T!EndStubs)
<1> DEFINE fs == T!Reverse(template.fixtures)
           R == Task({"End"})
           ss == [i \in DOMAIN fs |-> IF fs[i].kind \in made THEN T!Calls("End", fs[i].agents) ELSE <<>>]
<1>1. fs \in Seq(Fixture) /\ T!ToSet(fs) = FixturesOf(template)
  BY TheTemplate, Reversed DEF FixturesOf
<1>2. DOMAIN fs = 1..Len(fs) /\ Len(fs) \in Nat /\ \A i \in DOMAIN fs : fs[i] \in Fixture
  <2> HIDE DEF fs
  <2> QED BY <1>1, ElementsOf
<1> HIDE DEF fs
<1>3. ASSUME NEW f \in Fixture
      PROVE  T!Calls("End", f.agents) \in Seq(R)
             /\ T!ToSet(T!Calls("End", f.agents)) = {T!Call("End", a) : a \in T!ToSet(f.agents)}
  <2>1. f.agents \in Seq(STRING)
    BY DEF Fixture
  <2> QED BY <2>1, CallsTyped
<1>4. ss \in [DOMAIN fs -> Seq(R)]
  <2> HIDE DEF R
  <2>1. <<>> \in Seq(R)
    BY EmptySeq
  <2> QED BY <1>2, <1>3, <2>1
<1>5. T!EndStubs = T!FlattenSeq(ss)
  BY DEF T!EndStubs, T!For, fs
<1>6. \A i \in DOMAIN fs : fs[i].kind \in made => ss[i] = T!Calls("End", fs[i].agents)
  OBVIOUS
<1> HIDE DEF ss
<1>7. /\ T!FlattenSeq(ss) \in Seq(R)
      /\ \A x : x \in T!ToSet(T!FlattenSeq(ss)) <=> \E i \in DOMAIN fs : x \in T!ToSet(ss[i])
  <2> HIDE DEF R
  <2> QED BY <1>2, <1>4, Blocks
<1>8. ASSUME \A f \in FixturesOf(template) : f.kind \in made, NEW a \in AgentsIn(template)
      PROVE  T!Call("End", a) \in T!ToSet(T!EndStubs)
  <2>1. PICK f \in T!ToSet(fs) : a \in T!ToSet(f.agents)
    BY <1>1 DEF AgentsIn
  <2>2. PICK i \in DOMAIN fs : f = fs[i]
    BY <2>1 DEF T!ToSet
  <2>3. ss[i] = T!Calls("End", f.agents) /\ T!Call("End", a) \in T!ToSet(T!Calls("End", f.agents))
    BY <1>1, <1>2, <1>3, <1>6, <1>8, <2>1, <2>2
  <2> QED BY <1>5, <1>7, <2>2, <2>3
<1> QED BY <1>5, <1>7, <1>8

\* A block begins with its own calls.
LEMMA ScriptTyped ==
  ASSUME template \in Templates, NEW s \in Stages \ {"setup"}
  PROVE  TodoIs(s, T!Script(s))
<1> USE DEF TodoIs, Stages, Middle, LastCalls
<1>1. CASE s = "config"
  <2>1. <<"Push">> \in Seq(Steps)
    BY DEF Steps
  <2> QED BY <1>1, <2>1, ForOpenTyped DEF T!Script
<1>2. CASE s = "network"
  <2>1. T!NetworkOf(template.test) \in StepCalls
    BY Networks DEF T!NetworkOf
  <2> QED BY <1>2, <2>1 DEF T!Script, StepCalls
<1>3. CASE s = "traffic"
  BY <1>3, TrafficIs DEF T!Script, StepCalls
<1>4. CASE s = "ims"
  <2>1. T!Calls("Ims", T!Of("fivegc")) \in StepCalls /\ <<>> \in StepCalls
    BY StepsOf, EmptySeq DEF Steps, StepCalls
  <2> QED BY <1>4, <2>1 DEF T!Script, StepCalls
<1>5. CASE s = "stop"
  BY <1>5, StopsAre DEF T!Script, StepCalls
<1>6. CASE s = "traced"
  <2>1. T!Calls("Traced", T!Of("gnb")) \in StepCalls /\ <<>> \in StepCalls
    BY StepsOf, EmptySeq DEF Steps, StepCalls
  <2> QED BY <1>6, <2>1 DEF T!Script, StepCalls
<1>7. CASE s = "teardown"
  BY <1>7, EndStubsTyped DEF T!Script
<1>8. CASE s = "artifacts"
  <2>1. T!ForOpen(<<"Id">>) \in Seq(Task({"Id", "Fetch"}))
            /\ T!ForOpen(<<"Fetch">>) \in Seq(Task({"Id", "Fetch"}))
    <3>1. <<"Id">> \in Seq({"Id", "Fetch"}) /\ <<"Fetch">> \in Seq({"Id", "Fetch"})
      OBVIOUS
    <3> QED BY <3>1, ForOpenTyped
  <2>2. T!ForOpen(<<"Id">>) \o T!ForOpen(<<"Fetch">>) \in Seq(Task({"Id", "Fetch"}))
    BY <2>1, Concatenated
  <2>3. T!Artifacts \in Seq(Task({"Id", "Fetch"}))
    BY <2>2, EmptySeq DEF T!Artifacts
  <2> QED BY <1>8, <2>3 DEF T!Script
<1>9. CASE s = "close"
  <2>1. T!CloseClient \in Seq({"Tell", "Join", "Shutdown"})
    BY DEF T!CloseClient
  <2>2. T!ForOpen(T!CloseClient) \in Seq(Task({"Tell", "Join", "Shutdown"}))
    BY <2>1, ForOpenTyped
  <2> QED BY <1>9, <2>2 DEF T!Script
<1>10. CASE s = "done"
  BY <1>10, EmptySeq DEF T!Script
<1>11. CASE s = "validate"
  BY <1>11
<1> QED BY <1>1, <1>2, <1>3, <1>4, <1>5, <1>6, <1>7, <1>8, <1>9, <1>10, <1>11

\* validate() begins with all criteria.
LEMMA ValidateScript ==
  ASSUME template \in Templates
  PROVE  /\ T!Script("validate") = LeftToJudge(0, Len(template.criteria))
         /\ Len(template.criteria) \in Nat
<1> DEFINE m == Len(template.criteria)
           S == [do : {"Judge", "Verdict"}, to : Nat]
           js == [i \in DOMAIN template.criteria |-> T!Call("Judge", i)]
           v == <<T!Call("Verdict", 0)>>
<1>1. DOMAIN template.criteria = 1..m /\ m \in Nat
  <2>1. template.criteria \in Seq([layer : STRING, name : STRING, value : Int, bearers : Seq([id : Nat,
            value : Nat])])
    BY TemplatesAssumption
  <2> QED BY <2>1, LenProperties
<1> HIDE DEF m
<1>2. js \in [1..m -> S] /\ \A i \in 1..m : js[i] = T!Call("Judge", i)
  BY <1>1 DEF T!Call
<1>3. v \in Seq(S) /\ Len(v) = 1 /\ v[1] = T!Call("Verdict", 0)
  BY DEF T!Call
<1>4. T!Script("validate") = js \o v
  BY DEF T!Script
<1> HIDE DEF js, v
<1>5. js \in Seq(S) /\ Len(js) = m
  <2> HIDE DEF S
  <2> QED BY <1>1, <1>2, AsSeq
<1>6. /\ js \o v \in Seq(S) /\ Len(js \o v) = m + 1
      /\ \A i \in 1..(m + 1) : (js \o v)[i] = IF i <= m THEN js[i] ELSE v[i - m]
  <2> HIDE DEF S
  <2> QED BY <1>1, <1>3, <1>5, ConcatProperties
<1> DEFINE all == LeftToJudge(0, m)
<1>7. /\ all \in [1..(m + 1) -> S]
      /\ \A i \in 1..(m + 1) : all[i] = IF i = m + 1 THEN T!Call("Verdict", 0) ELSE T!Call("Judge", i)
  BY <1>1 DEF LeftToJudge, T!Call
<1> HIDE DEF all
<1>8. all \in Seq(S) /\ Len(all) = m + 1
  <2> HIDE DEF S
  <2> QED BY <1>1, <1>7, AsSeq
<1>9. \A i \in 1..(m + 1) : (js \o v)[i] = all[i]
  <2>1. ASSUME NEW i \in 1..(m + 1) PROVE (js \o v)[i] = all[i]
    <3>1. CASE i = m + 1
      BY <3>1, <1>1, <1>3, <1>6, <1>7
    <3>2. CASE i \in 1..m
      BY <3>2, <1>1, <1>2, <1>6, <1>7
    <3>3. i = m + 1 \/ i \in 1..m
      BY <1>1
    <3> HIDE DEF S
    <3> QED BY <3>1, <3>2, <3>3, Zenon
  <2> QED BY <2>1
<1>10. js \o v = all
  <2> HIDE DEF S
  <2> QED BY <1>6, <1>8, <1>9, SeqEqual
<1> QED BY <1>1, <1>4, <1>10 DEF all, m

-----------------------------------------------------------------------------
(* What a step of the test changes.                                        *)

\* The name of the call that is next.
Called == IF todo = <<>> THEN "nothing" ELSE todo[1].do

\* Where a step of the test goes: the block ends, the next call is made, an
\* exception leaves the block, or the loop over the archives is left.
LEMMA Control ==
  ASSUME T!Test
  PROVE  \/ T!EndBlock
         \/ todo # <<>> /\ T!GoOn
         \/ todo # <<>> /\ \E e \in {"Failed", "Error"} : T!Leave(e)
         \/ todo # <<>> /\ todo[1].do = "Fetch" /\ todo' = <<>> /\ UNCHANGED <<stage, exc>>
<1>1. CASE T!EndBlock
  BY <1>1
<1>2. CASE T!Connect
  BY <1>2 DEF T!Connect, T!Now
<1>3. CASE T!MadeFixture
  BY <1>3 DEF T!MadeFixture, T!Now
<1>4. CASE T!StepAnswered
  BY <1>4 DEF T!StepAnswered, T!Now
<1>5. CASE T!StepRaises
  <2>1. PICK e \in T!Raised(todo[1].do) : T!Leave(e)
    BY <1>5 DEF T!StepRaises
  <2>2. e \in {"Failed", "Error"}
    BY <2>1 DEF T!Raised
  <2>3. todo # <<>>
    BY <1>5 DEF T!StepRaises, T!Now
  <2> QED BY <2>1, <2>2, <2>3, Zenon
<1>6. CASE T!Ping
  <2>1. todo # <<>> /\ (T!GoOn \/ T!Leave("Error"))
    BY <1>6 DEF T!Ping, T!Now
  <2> QED BY <2>1, Zenon
<1>7. CASE T!Watch
  BY <1>7 DEF T!Watch, T!Now
<1>8. CASE T!StopAnswered
  BY <1>8 DEF T!StopAnswered, T!Now
<1>9. CASE T!StopRaises
  BY <1>9 DEF T!StopRaises, T!Now
<1>10. CASE T!CheckMessages
  BY <1>10 DEF T!CheckMessages, T!Now
<1>11. CASE T!Judge
  <2>1. todo # <<>> /\ (T!GoOn \/ T!Leave("Error"))
    BY <1>11, Zenon DEF T!Judge, T!Judged, T!Now
  <2> QED BY <2>1, Zenon
<1>12. CASE T!Verdict
  BY <1>12 DEF T!Verdict, T!Now
<1>13. CASE T!EndAnswered
  BY <1>13 DEF T!EndAnswered, T!Now
<1>14. CASE T!EndRaises
  BY <1>14 DEF T!EndRaises, T!Now
<1>15. CASE T!ArtifactId
  BY <1>15 DEF T!ArtifactId, T!Now
<1>16. CASE T!Fetch
  BY <1>16 DEF T!Fetch, T!Now
<1>17. CASE T!TellThreads
  BY <1>17 DEF T!TellThreads, T!Now
<1>18. CASE T!JoinThreads
  BY <1>18 DEF T!JoinThreads, T!Now
<1>19. CASE T!ShutdownAgent
  BY <1>19 DEF T!ShutdownAgent, T!Now
<1> QED BY <1>1, <1>2, <1>3, <1>4, <1>5, <1>6, <1>7, <1>8, <1>9, <1>10, <1>11, <1>12, <1>13, <1>14, <1>15,
           <1>16, <1>17, <1>18, <1>19, Zenon DEF T!Test

\* What a step of the test does to the other variables that the invariant is about.
LEMMA Effects ==
  ASSUME T!Test
  PROVE  /\ UNCHANGED template
         /\ made' = IF Called = "Made" THEN made \cup {todo[1].to} ELSE made
         /\ failures' # failures => T!Judge
         /\ Called = "Judge" => T!Judge
         /\ logged => logged'
<1>1. /\ UNCHANGED template
      /\ made' = IF Called = "Made" THEN made \cup {todo[1].to} ELSE made
      /\ failures' # failures => T!Judge
      /\ Called = "Judge" => T!Judge
      /\ logged => logged' \/ Called = "End"
  BY DEF T!Test, Called, T!Now, T!To, T!clientVars, T!agentVars, T!Fault, T!EndBlock, T!Connect,
      T!MadeFixture, T!StepAnswered,
       T!StepRaises, T!Ping, T!Watch, T!StopAnswered, T!StopRaises, T!CheckMessages, T!Judge, T!Verdict,
       T!EndAnswered, T!EndRaises, T!ArtifactId, T!Fetch, T!TellThreads, T!JoinThreads, T!ShutdownAgent,
       T!Alone, T!OnAir
<1>2. Called = "End" => T!EndAnswered \/ T!EndRaises
  BY DEF T!Test, Called, T!Now, T!EndBlock, T!Connect, T!MadeFixture, T!StepAnswered,
       T!StepRaises, T!Ping, T!Watch, T!StopAnswered, T!StopRaises, T!CheckMessages, T!Judge, T!Verdict,
       T!EndAnswered, T!EndRaises, T!ArtifactId, T!Fetch, T!TellThreads, T!JoinThreads, T!ShutdownAgent,
       T!Alone, T!OnAir
<1>3. T!EndAnswered /\ logged => logged'
  BY DEF T!EndAnswered
<1>4. T!EndRaises => logged'
  BY DEF T!EndRaises, T!StopFailed
<1> QED BY <1>1, <1>2, <1>3, <1>4, Zenon

\* A run stays a run; a stop keeps its exit code.
LEMMA RunsAre ==
  /\ T!NotRun \in Run /\ T!NewRun \in Run /\ T!Crashed(T!NewRun) \in Run
  /\ \A run \in Run : /\ T!Crashed(run) \in Run /\ T!Stopped(run) \in Run
                      /\ T!Stopped(run).at \in {"none", "ended"} /\ T!Stopped(run).code = run.code
<1>1. ASSUME NEW run \in Run PROVE T!Crashed(run) \in Run
  <2> DEFINE mid == [run EXCEPT !.at = "dead"]
  <2>1. mid \in Run
    BY DEF Run
  <2>2. T!Crashed(run) = [mid EXCEPT !.code = 1]
    BY DEF T!Crashed, Run
  <2> HIDE DEF mid
  <2> QED BY <2>1, <2>2 DEF Run
<1>2. T!NotRun \in Run
  BY DEF Run, T!NotRun
<1>3. T!NewRun \in Run
  <2> DEFINE r == T!NotRun
  <2>1. r \in Run
    BY <1>2
  <2>2. T!NewRun = [r EXCEPT !.at = "on"]
    BY Zenon DEF T!NewRun
  <2> HIDE DEF r
  <2> QED BY <2>1, <2>2 DEF Run
<1>4. ASSUME NEW run \in Run
      PROVE  /\ T!Stopped(run) \in Run
             /\ T!Stopped(run).at \in {"none", "ended"} /\ T!Stopped(run).code = run.code
  BY DEF Run, T!Stopped
<1> QED BY <1>1, <1>2, <1>3, <1>4

\* Only a start or a stop changes a run.
LEMMA AfterIs ==
  ASSUME NEW run \in Run, NEW what
  PROVE  /\ T!After(what, run) \in Run
         /\ what \notin {"Start", "Stop", "StopUe", "End"} => T!After(what, run) = run
BY RunsAre DEF T!After

\* A call that raises changes the run of its agent at most.
LEMMA FailingCall ==
  ASSUME sut \in [AgentsIn(template) -> Run], T!CallFails
  PROVE  /\ sut' \in [AgentsIn(template) -> Run]
         /\ \A a \in AgentsIn(template) : a # todo[1].to => sut'[a] = sut[a]
         /\ todo[1].do \notin {"Start", "Stop", "StopUe", "End"} => sut' = sut
<1>1. CASE sut' = sut
  BY <1>1
<1>2. CASE sut' = [sut EXCEPT ![todo[1].to] = T!After(todo[1].do, @)]
  <2> DEFINE r == T!After(todo[1].do, sut[todo[1].to])
  <2>1. sut' = [sut EXCEPT ![todo[1].to] = r]
    BY <1>2
  <2>2. todo[1].to \in AgentsIn(template) => r \in Run
    BY AfterIs
  <2>3. todo[1].to \in AgentsIn(template) /\ todo[1].do \notin {"Start", "Stop", "StopUe", "End"} =>
            r = sut[todo[1].to]
    BY AfterIs
  <2> HIDE DEF r
  <2> QED BY <2>1, <2>2, <2>3
<1> QED BY <1>1, <1>2 DEF T!CallFails, T!To

\* What a step of the test does to the runs.
LEMMA SutOfTest ==
  ASSUME template \in Templates, sut \in [AgentsIn(template) -> Run], T!Test
  PROVE  /\ sut' \in [AgentsIn(template) -> Run]
         /\ Called \notin {"Start", "Stop", "StopUe", "End", "Judge"} => sut' = sut
         /\ Called = "End" /\ ~logged' =>
                \A a \in AgentsIn(template) : IF a = todo[1].to THEN IsOver(sut'[a]) ELSE sut'[a] = sut[a]
<1> DEFINE A == AgentsIn(template)
           Kept == sut' \in [A -> Run] /\ (Called \notin {"Start", "Stop", "StopUe", "End", "Judge"} =>
               sut' = sut)
<1>0. T!Agents = A
  BY DEF T!Agents, AgentsIn, FixturesOf, T!ToSet
<1>1. CASE sut' = sut /\ Called # "End"
  BY <1>1
<1>2. CASE T!CallFails /\ todo # <<>> /\ Called # "End"
  BY <1>2, FailingCall DEF Called
<1>3. CASE T!StepAnswered \/ T!StopAnswered \/ T!EndAnswered
  <2> DEFINE r == IF T!StepAnswered THEN T!After(todo[1].do, sut[todo[1].to]) ELSE T!Stopped(sut[todo[1].to])
  <2>1. sut' = [sut EXCEPT ![todo[1].to] = r] /\ todo # <<>>
    BY <1>3 DEF T!StepAnswered, T!StopAnswered, T!EndAnswered, T!To, T!Now
  <2>2. todo[1].to \in A => r \in Run
    BY AfterIs, RunsAre
  <2>3. todo[1].to \in A /\ Called \notin {"Start", "Stop", "StopUe", "End"} => r = sut[todo[1].to]
    BY <1>3, <2>1, AfterIs DEF T!StopAnswered, T!EndAnswered, T!Now, Called
  <2>4. Called = "End" /\ ~logged' /\ todo[1].to \in A => IsOver(r)
    <3>1. Called = "End" => T!EndAnswered /\ ~T!StepAnswered
      BY <1>3 DEF T!StepAnswered, T!StopAnswered, T!EndAnswered, T!Now, Called, T!Alone, T!OnAir
    <3>2. T!EndAnswered /\ ~logged' => sut[todo[1].to].code = 0
      BY DEF T!EndAnswered, T!To
    <3> QED BY <3>1, <3>2, RunsAre DEF IsOver
  <2> HIDE DEF r
  <2> QED BY <2>1, <2>2, <2>3, <2>4
<1>4. CASE T!StepRaises
  <2>1. CASE T!CallFails \/ sut' = sut
    BY <1>1, <1>2, <1>4, <2>1 DEF T!StepRaises, T!Now, Called, T!Alone, T!OnAir
  <2>2. CASE Called = "Start" /\ sut' = [sut EXCEPT ![todo[1].to] = T!Crashed(T!NewRun)]
    <3>1. T!Crashed(T!NewRun) \in Run
      BY RunsAre
    <3> QED BY <2>2, <3>1
  <2> QED BY <1>4, <2>1, <2>2 DEF T!StepRaises, T!Now, Called, T!To
<1>5. CASE T!Judge
  <2>1. PICK rows, read : T!Judged(template.criteria[T!To], T!Entry(template.criteria[T!To], rows), read)
    BY <1>5, Zenon DEF T!Judge
  <2>2. \/ sut' = sut
        \/ sut' = [a \in T!Agents |-> T!ReadBy(template.criteria[T!To], read, a)]
    BY <2>1, Zenon DEF T!Judged
  <2>3. \A a \in A : T!ReadBy(template.criteria[T!To], read, a) \in Run
    BY RunsAre DEF T!ReadBy
  <2>4. sut' \in [A -> Run]
    BY <1>0, <2>2, <2>3
  <2> QED BY <1>5, <2>4 DEF T!Judge, T!Now, Called
<1>6. CASE T!EndRaises
  BY <1>6, FailingCall DEF T!EndRaises, T!Now, Called, T!StopFailed
<1>7. CASE T!EndBlock
  BY <1>7, <1>1 DEF T!EndBlock, T!agentVars, Called
<1>8. CASE T!MadeFixture \/ T!CheckMessages \/ T!Verdict \/ T!TellThreads \/ T!JoinThreads \/ T!ShutdownAgent
  BY <1>8, <1>1 DEF T!MadeFixture, T!CheckMessages, T!Verdict, T!TellThreads, T!JoinThreads,
      T!ShutdownAgent, T!agentVars,
     T!Now, Called
<1>9. CASE T!Connect \/ T!Ping \/ T!Watch \/ T!StopRaises \/ T!ArtifactId \/ T!Fetch
  <2>1. Called # "End" /\ todo # <<>>
    BY <1>9 DEF T!Connect, T!Ping, T!Watch, T!StopRaises, T!ArtifactId, T!Fetch, T!Now, Called
  <2>2. sut' = sut \/ T!CallFails
    BY <1>9, Zenon DEF T!Connect, T!Ping, T!Watch, T!StopRaises, T!ArtifactId, T!Fetch
  <2> QED BY <2>1, <2>2, <1>1, <1>2
<1> QED BY <1>3, <1>4, <1>5, <1>6, <1>7, <1>8, <1>9, Zenon DEF T!Test

-----------------------------------------------------------------------------
(* The steps keep the invariant: the calls, the fixtures and the end.      *)

\* The blocks, one after the other.
LEMMA StageStep ==
  ASSUME stage \in Stages, exc \in {"none", "Failed", "Error"}, T!Test
  PROVE  /\ stage' \in Stages /\ exc' \in {"none", "Failed", "Error"}
         /\ \/ /\ T!EndBlock /\ todo = <<>> /\ stage # "done"
               /\ stage' = T!AfterBlock[stage] /\ todo' = T!Script(stage') /\ exc' = exc
            \/ todo # <<>> /\ stage' = stage /\ exc' = exc /\ todo' = Tail(todo)
            \/ todo # <<>> /\ stage' = stage /\ exc' = exc /\ todo' = <<>> /\ todo[1].do = "Fetch"
            \/ /\ todo # <<>> /\ exc' # "none"
               /\ stage' \in {"stop", "validate", "teardown"} /\ todo' = T!Script(stage')
               /\ stage' = "stop" => stage \in {"network", "traffic", "ims"}
               /\ stage' = "validate" => stage = "stop"
            \/ /\ todo # <<>> /\ exc' = exc
               /\ stage = "traffic" /\ stage' = "ims" /\ todo' = T!Script(stage')
<1>1. CASE T!EndBlock
  BY <1>1 DEF T!EndBlock, Stages, Middle, LastCalls, T!AfterBlock
<1>2. CASE todo # <<>> /\ T!GoOn
  BY <1>2 DEF T!GoOn
<1>3. ASSUME NEW e \in {"Failed", "Error"}, todo # <<>>, T!Leave(e)
      PROVE \/ stage' \in {"stop", "validate", "teardown"} /\ todo' = T!Script(stage') /\ exc' = e
               /\ (stage' = "stop" => stage \in {"network", "traffic", "ims"})
               /\ (stage' = "validate" => stage = "stop")
            \/ stage = "traffic" /\ stage' = "ims" /\ todo' = T!Script(stage') /\ exc' = exc
  <2>1. T!Awaited(e) => stage = "traffic"
    BY DEF T!Awaited
  <2> QED BY <1>3, <2>1 DEF T!Leave, T!Handler
<1>4. CASE todo # <<>> /\ todo[1].do = "Fetch" /\ todo' = <<>> /\ UNCHANGED <<stage, exc>>
  BY <1>4
<1>5. CASE todo # <<>> /\ \E e \in {"Failed", "Error"} : T!Leave(e)
  <2>1. PICK e \in {"Failed", "Error"} : T!Leave(e)
    BY <1>5
  <2>2. e # "none" /\ {"ims", "stop", "validate", "teardown"} \subseteq Stages
    BY DEF Stages, Middle, LastCalls
  <2> QED BY <1>5, <1>3, <2>1, <2>2
<1> QED BY <1>1, <1>2, <1>4, <1>5, Control

\* The calls that are left stay those of the block.
LEMMA TodoStep ==
  ASSUME template \in Templates, TInv, T!Test
  PROVE  TodoIs(stage', todo')
<1>1. stage' = stage /\ todo # <<>> /\ todo' = Tail(todo) => TodoIs(stage', todo')
  <2>1. ASSUME NEW R, todo \in Seq(R), todo # <<>> PROVE Tail(todo) \in Seq(R)
    BY <2>1, ElementsOf
  <2> QED BY <2>1 DEF TInv, TodoIs
<1>2. stage' = stage /\ todo' = <<>> => TodoIs(stage', todo')
  BY EmptySeq DEF TodoIs
<1>3. stage' \in Stages \ {"setup"} /\ todo' = T!Script(stage') => TodoIs(stage', todo')
  BY ScriptTyped
<1>4. stage \in Stages /\ exc \in {"none", "Failed", "Error"}
  BY DEF TInv
<1>5. T!EndBlock => stage' # "setup"
  BY DEF T!EndBlock, TInv, Stages, Middle, LastCalls, T!AfterBlock
<1> QED BY <1>1, <1>2, <1>3, <1>4, <1>5, StageStep

\* The call that is next.
LEMMA FirstCall ==
  ASSUME NEW at \in Stages \ {"validate"}, NEW calls, TodoIs(at, calls), calls # <<>>
  PROVE  /\ T!ToSet(calls) = {calls[1]} \cup T!ToSet(Tail(calls))
         /\ (at \in {"setup"} \cup Middle => calls[1].do \in Steps)
         /\ (at \in DOMAIN LastCalls => calls[1].do \in LastCalls[at])
<1>1. ASSUME NEW names, calls \in Seq(Task(names))
      PROVE  T!ToSet(calls) = {calls[1]} \cup T!ToSet(Tail(calls)) /\ calls[1].do \in names
  <2> DEFINE R == Task(names)
  <2>1. calls \in Seq(R)
    BY <1>1
  <2> HIDE DEF R
  <2>2. T!ToSet(calls) = {calls[1]} \cup T!ToSet(Tail(calls)) /\ calls[1] \in R
    BY <2>1, ElementsOf
  <2> QED BY <2>2 DEF R, Task
<1>2. CASE at \in {"setup"} \cup Middle
  <2>1. calls \in Seq(Task(Steps))
    BY <1>2 DEF TodoIs
  <2> QED BY <2>1, <1>1, <1>2 DEF Middle, LastCalls
<1>3. CASE at \in DOMAIN LastCalls
  <2>1. calls \in Seq(Task(LastCalls[at]))
    BY <1>3 DEF TodoIs
  <2> QED BY <2>1, <1>1, <1>3 DEF Middle, LastCalls
<1>4. at \in {"setup"} \cup Middle \/ at \in DOMAIN LastCalls
  BY Zenon DEF Stages
<1> QED BY <1>2, <1>3, <1>4, Zenon

\* The fixtures: the one that returns is the one whose return was left.
LEMMA MakesStep ==
  ASSUME template \in Templates, TInv, T!Test
  PROVE  Makes(template', stage', todo', made')
<1>0. stage \in Stages /\ exc \in {"none", "Failed", "Error"} /\ TodoIs(stage, todo)
          /\ Makes(template, stage, todo, made)
  BY DEF TInv
<1>1. template' = template /\ made \subseteq made'
  BY Effects
<1>2. stage \in Middle => \A f \in FixturesOf(template) : f.kind \in made'
  BY <1>0, <1>1 DEF Makes
<1>3. CASE stage' = stage /\ stage = "setup"
  <2>1. CASE todo' = Tail(todo) /\ todo # <<>>
    <3>1. T!ToSet(todo) = {todo[1]} \cup T!ToSet(Tail(todo))
      BY <1>0, <1>3, <2>1, FirstCall DEF Stages
    <3>2. ASSUME NEW f \in FixturesOf(template) PROVE f.kind \in made' \/ T!Call("Made",
                     f.kind) \in T!ToSet(todo')
      <4>1. CASE T!Call("Made", f.kind) = todo[1]
        BY <4>1, <2>1, Effects DEF Called, T!Call
      <4> QED BY <4>1, <3>1, <2>1, <1>0, <1>1, <1>3 DEF Makes
    <3> QED BY <3>2, <1>1, <1>3 DEF Makes, Middle
  <2>2. todo # <<>> => todo[1].do # "Fetch"
    BY <1>0, <1>3, FirstCall DEF Steps, Stages
  <2> QED BY <2>1, <2>2, <1>0, <1>3, StageStep DEF T!AfterBlock
<1>4. CASE stage' = stage /\ stage # "setup"
  BY <1>1, <1>2, <1>4 DEF Makes
<1>5. CASE T!EndBlock
  <2>1. stage' # "setup" /\ (stage' \in Middle => stage \in {"setup"} \cup Middle)
    BY <1>0, <1>5 DEF T!EndBlock, Stages, Middle, LastCalls, T!AfterBlock
  <2>2. stage = "setup" => \A f \in FixturesOf(template) : f.kind \in made'
    BY <1>0, <1>1, <1>5 DEF T!EndBlock, Makes, T!ToSet
  <2> QED BY <2>1, <2>2, <1>1, <1>2 DEF Makes, Middle
<1>6. CASE stage' \in Middle /\ stage \in Middle
  BY <1>1, <1>2, <1>6 DEF Makes, Middle
<1>7. CASE stage' = "teardown"
  BY <1>7 DEF Makes, Middle
<1> QED BY <1>0, <1>3, <1>4, <1>5, <1>6, <1>7, StageStep DEF Middle

\* The end of the agents: a run is over because its End was answered with exit
\* code 0, anything else is logged; and no End is left when the block ends.
LEMMA EndsStep ==
  ASSUME template \in Templates, TInv, T!Test
  PROVE  Ends(template', stage', todo', exc', logged', sut')
<1>0. /\ stage \in Stages /\ exc \in {"none", "Failed", "Error"} /\ TodoIs(stage, todo)
      /\ Makes(template, stage, todo, made) /\ Ends(template, stage, todo, exc, logged, sut)
      /\ sut \in [AgentsIn(template) -> Run]
  BY DEF TInv
<1> DEFINE A == AgentsIn(template)
<1>1. template' = template /\ (logged => logged')
  BY Effects
<1> SUFFICES ASSUME exc' = "none", ~logged'
             PROVE  /\ stage' = "teardown" =>
                           \A a \in A : IsOver(sut'[a]) \/ T!Call("End", a) \in T!ToSet(todo')
                    /\ stage' \in {"artifacts", "close", "done"} => \A a \in A : IsOver(sut'[a])
  BY <1>1 DEF Ends
<1>2. exc = "none" /\ ~logged
  BY <1>0, <1>1, StageStep
<1>3. CASE T!EndBlock
  <2>1. sut' = sut /\ todo = <<>> /\ stage' = T!AfterBlock[stage] /\ todo' = T!Script(stage') /\ stage # "done"
    BY <1>3 DEF T!EndBlock, T!agentVars
  <2>2. CASE stage' = "teardown"
    <3>1. stage = "traced"
      BY <1>0, <2>1, <2>2 DEF Stages, Middle, LastCalls, T!AfterBlock
    <3>2. \A f \in FixturesOf(template) : f.kind \in made
      BY <1>0, <3>1 DEF Makes, Middle
    <3>3. \A a \in A : T!Call("End", a) \in T!ToSet(T!EndStubs)
      BY <3>2, EndStubsTyped
    <3>4. todo' = T!EndStubs
      BY <2>1, <2>2 DEF T!Script
    <3> QED BY <3>3, <3>4, <2>2
  <2>3. CASE stage' \in {"artifacts", "close", "done"}
    <3>1. stage \in {"teardown", "artifacts", "close"}
      BY <1>0, <2>1, <2>3 DEF Stages, Middle, LastCalls, T!AfterBlock
    <3>2. T!ToSet(todo) = {}
      BY <2>1 DEF T!ToSet
    <3> QED BY <3>1, <3>2, <1>0, <1>2, <2>1, <2>3 DEF Ends
  <2> QED BY <2>2, <2>3
<1>4. CASE stage' = stage /\ stage = "teardown" /\ todo # <<>>
  <2>1. T!ToSet(todo) = {todo[1]} \cup T!ToSet(Tail(todo)) /\ todo[1].do = "End"
    BY <1>0, <1>4, FirstCall DEF LastCalls, Stages
  <2>2. todo' = Tail(todo)
    BY <1>0, <1>4, <2>1, StageStep DEF T!EndBlock
  <2>3. \A a \in A : IF a = todo[1].to THEN IsOver(sut'[a]) ELSE sut'[a] = sut[a]
    BY <1>0, <1>4, <2>1, SutOfTest DEF Called
  <2>4. \A a \in A : IsOver(sut[a]) \/ T!Call("End", a) \in T!ToSet(todo)
    BY <1>0, <1>2, <1>4 DEF Ends
  <2>5. \A a \in A : a # todo[1].to => T!Call("End", a) # todo[1]
    BY DEF T!Call
  <2> QED BY <1>4, <2>1, <2>2, <2>3, <2>4, <2>5
<1>5. CASE stage' = stage /\ stage \in {"artifacts", "close", "done"} /\ todo # <<>>
  <2>1. Called \notin {"Start", "Stop", "StopUe", "End", "Judge"}
    BY <1>0, <1>5, FirstCall DEF Called, LastCalls, Stages
  <2>2. sut' = sut
    BY <1>0, <2>1, SutOfTest
  <2> QED BY <1>0, <1>2, <1>5, <2>2 DEF Ends
<1> QED BY <1>0, <1>3, <1>4, <1>5, StageStep

-----------------------------------------------------------------------------
(* The criteria of the bearers.                                            *)

\* The kinds of fixtures, and the layers of their rows in the table of criteria.
Kinds == DOMAIN T!LayersOf

\* The layers.
Layers == {"ue", "cu_cp", "cu_up", "du", "core", "ric", "viavi"}

\* The rows.
Row == [layer : Layers, kind : Kinds]

\* The kinds of a template.
LEMMA KindsAre ==
  ASSUME template \in Templates
  PROVE  /\ T!KindsInOrder \in Seq(Kinds)
         /\ \A f \in FixturesOf(template) : f.kind \in T!ToSet(T!KindsInOrder)
<1> DEFINE fs == template.fixtures
           ps == [i \in DOMAIN fs |-> IF fs[i].late THEN <<>> ELSE <<fs[i].kind>>]
           ls == [i \in DOMAIN fs |-> IF fs[i].late THEN <<fs[i].kind>> ELSE <<>>]
<1>1. DOMAIN fs = 1..Len(fs) /\ Len(fs) \in Nat
  BY TheTemplate, ElementsOf
<1>2. \A i \in DOMAIN fs : fs[i].kind \in Kinds /\ fs[i] \in FixturesOf(template)
  <2>1. \A f \in FixturesOf(template) : f.kind \in Kinds
    BY TemplatesAssumption DEF Kinds
  <2> QED BY <2>1 DEF FixturesOf, T!ToSet
<1>3. \A i \in DOMAIN fs : <<fs[i].kind>> \in Seq(Kinds) /\ T!ToSet(<<fs[i].kind>>) = {fs[i].kind}
  BY <1>2, Single
<1>4. ps \in [DOMAIN fs -> Seq(Kinds)] /\ ls \in [DOMAIN fs -> Seq(Kinds)]
  <2>1. <<>> \in Seq(Kinds)
    BY EmptySeq
  <2> QED BY <1>3, <2>1
<1>5. T!KindsInOrder = T!FlattenSeq(ps) \o T!FlattenSeq(ls)
  BY DEF T!KindsInOrder, T!InOrder, T!For
<1>6. \A i \in DOMAIN fs : ps[i] = <<fs[i].kind>> \/ ls[i] = <<fs[i].kind>>
  OBVIOUS
<1> HIDE DEF ps, ls
<1> DEFINE all == T!KindsInOrder
<1> HIDE DEF all
<1>7. all \in Seq(Kinds) /\ \A x : x \in T!ToSet(all) <=>
          \E i \in DOMAIN fs : x \in T!ToSet(ps[i]) \/ x \in T!ToSet(ls[i])
  <2> DEFINE p == T!FlattenSeq(ps)
             l == T!FlattenSeq(ls)
  <2> HIDE DEF fs
  <2>1. p \in Seq(Kinds) /\ \A x : x \in T!ToSet(p) <=> \E i \in DOMAIN fs : x \in T!ToSet(ps[i])
    BY <1>1, <1>4, Blocks
  <2>2. l \in Seq(Kinds) /\ \A x : x \in T!ToSet(l) <=> \E i \in DOMAIN fs : x \in T!ToSet(ls[i])
    BY <1>1, <1>4, Blocks
  <2>3. all = p \o l
    BY <1>5 DEF all
  <2> HIDE DEF p, l
  <2>4. p \in Seq(Kinds) /\ l \in Seq(Kinds)
    BY <2>1, <2>2
  <2>5. all \in Seq(Kinds) /\ T!ToSet(all) = T!ToSet(p) \cup T!ToSet(l)
    BY <2>3, <2>4, Concatenated
  <2> QED BY <2>1, <2>2, <2>5
<1>8. ASSUME NEW f \in FixturesOf(template) PROVE f.kind \in T!ToSet(T!KindsInOrder)
  <2>1. PICK i \in DOMAIN fs : f = fs[i]
    BY DEF FixturesOf, T!ToSet
  <2> QED BY <2>1, <1>3, <1>6, <1>7 DEF all
<1> QED BY <1>7, <1>8 DEF all

\* The layers of a kind: a gNB and a DU have the one of the bearers.
LEMMA LayersAre ==
  ASSUME NEW k \in Kinds
  PROVE  /\ T!LayersOf[k] \in Seq(Layers)
         /\ k \in {"gnb", "du"} => "du" \in T!ToSet(T!LayersOf[k])
<1>1. k \in {"ue", "gnb", "cu", "cu_cp", "cu_up", "du", "fivegc", "ric", "viavi"}
  BY DEF Kinds, T!LayersOf
<1>2. <<"ue">> \in Seq(Layers) /\ <<"cu_cp">> \in Seq(Layers) /\ <<"cu_up">> \in Seq(Layers)
  BY DEF Layers
<1>3. <<"du">> \in Seq(Layers) /\ <<"core">> \in Seq(Layers) /\ <<"ric">> \in Seq(Layers)
          /\ <<"viavi">> \in Seq(Layers)
  BY DEF Layers
<1>4. <<"cu_cp", "cu_up">> \in Seq(Layers)
  BY DEF Layers
<1>5. <<"cu_cp", "cu_up", "du">> \in Seq(Layers)
  BY DEF Layers
<1>6. k = "gnb" => T!LayersOf[k] = <<"cu_cp", "cu_up", "du">>
  BY DEF T!LayersOf
<1>7. k = "du" => T!LayersOf[k] = <<"du">>
  BY DEF T!LayersOf
<1>8. <<"cu_cp", "cu_up", "du">>[3] = "du" /\ 3 \in DOMAIN <<"cu_cp", "cu_up", "du">>
  OBVIOUS
<1>9. <<"du">>[1] = "du" /\ 1 \in DOMAIN <<"du">>
  OBVIOUS
<1>10. k \in {"gnb", "du"} => \E j \in DOMAIN T!LayersOf[k] : T!LayersOf[k][j] = "du"
  BY <1>6, <1>7, <1>8, <1>9
<1>11. T!LayersOf[k] \in Seq(Layers)
  <2>1. /\ k \in {"ue", "cu_cp", "cu_up"} => T!LayersOf[k] \in {<<"ue">>, <<"cu_cp">>, <<"cu_up">>}
        /\ k \in {"fivegc", "ric", "viavi"} => T!LayersOf[k] \in {<<"core">>, <<"ric">>, <<"viavi">>}
        /\ k = "cu" => T!LayersOf[k] = <<"cu_cp", "cu_up">>
    BY DEF T!LayersOf
  <2> QED BY <1>1, <1>2, <1>3, <1>4, <1>5, <1>6, <1>7, <2>1, Zenon
<1> QED BY <1>10, <1>11 DEF T!ToSet

\* The table of these kinds has a row for each DU.
LEMMA RowsAre ==
  ASSUME NEW kinds \in Seq(Kinds)
  PROVE  /\ T!Rows(kinds) \in Seq(Row)
         /\ \A k \in T!ToSet(kinds) \cap {"gnb", "du"} : [layer |-> "du", kind |-> k] \in T!ToSet(T!Rows(kinds))
<1> DEFINE layers(i) == T!LayersOf[kinds[i]]
           row(i, j) == [layer |-> layers(i)[j], kind |-> kinds[i]]
           block(i) == [j \in DOMAIN layers(i) |-> row(i, j)]
           ss == [i \in DOMAIN kinds |-> block(i)]
<1>1. DOMAIN kinds = 1..Len(kinds) /\ Len(kinds) \in Nat /\ \A i \in DOMAIN kinds : kinds[i] \in Kinds
  BY ElementsOf
<1>2. ASSUME NEW i \in DOMAIN kinds
      PROVE  block(i) \in Seq(Row) /\ \A j \in DOMAIN layers(i) : row(i, j) \in T!ToSet(block(i))
  <2>1. layers(i) \in Seq(Layers)
    BY <1>1, LayersAre
  <2>2. DOMAIN layers(i) = 1..Len(layers(i)) /\ Len(layers(i)) \in Nat
            /\ \A j \in DOMAIN layers(i) : layers(i)[j] \in Layers
    <3> HIDE DEF layers
    <3> QED BY <2>1, ElementsOf
  <2> HIDE DEF layers
  <2>3. block(i) \in [1..Len(layers(i)) -> Row]
    BY <1>1, <2>2 DEF Row
  <2>4. block(i) \in Seq(Row)
    <3> HIDE DEF block
    <3> QED BY <2>2, <2>3, AsSeq
  <2> QED BY <2>4 DEF T!ToSet
<1> HIDE DEF block
<1>3. ss \in [DOMAIN kinds -> Seq(Row)] /\ \A i \in DOMAIN kinds : ss[i] = block(i)
  BY <1>2
<1>4. T!Rows(kinds) = T!FlattenSeq(ss)
  BY DEF T!Rows, block
<1> HIDE DEF ss
<1>5. T!FlattenSeq(ss) \in Seq(Row) /\ \A x : x \in T!ToSet(T!FlattenSeq(ss)) <=>
          \E i \in DOMAIN kinds : x \in T!ToSet(ss[i])
  BY <1>1, <1>3, Blocks
<1>6. ASSUME NEW k \in T!ToSet(kinds) \cap {"gnb", "du"}
      PROVE  [layer |-> "du", kind |-> k] \in T!ToSet(T!Rows(kinds))
  <2>1. PICK i \in DOMAIN kinds : kinds[i] = k
    BY DEF T!ToSet
  <2>2. PICK j \in DOMAIN layers(i) : layers(i)[j] = "du"
    BY <1>1, <2>1, LayersAre DEF T!ToSet
  <2>3. row(i, j) \in T!ToSet(ss[i]) /\ row(i, j) = [layer |-> "du", kind |-> k]
    BY <1>2, <1>3, <2>1, <2>2
  <2> QED BY <1>4, <1>5, <2>1, <2>3
<1> QED BY <1>4, <1>5, <1>6

\* A criterion of the layer `du' reads these rows, and no other.
LEMMA DuRows ==
  ASSUME NEW c, c.layer = "du", NEW kinds \in Seq(Kinds)
  PROVE  /\ T!RowsOf(c, kinds) \in Seq(Row)
         /\ \A x : x \in T!ToSet(T!RowsOf(c, kinds)) <=> x \in T!ToSet(T!Rows(kinds)) /\ x.layer = "du"
<1> DEFINE rows == T!Rows(kinds)
           ss == [i \in DOMAIN rows |-> IF rows[i].layer = c.layer THEN <<rows[i]>> ELSE <<>>]
<1>1. T!RowsOf(c, kinds) = T!FlattenSeq(ss)
  BY DEF T!RowsOf, T!For
<1>2. rows \in Seq(Row)
  BY RowsAre
<1> HIDE DEF rows
<1>3. DOMAIN rows = 1..Len(rows) /\ Len(rows) \in Nat /\ \A i \in DOMAIN rows : rows[i] \in Row
  BY <1>2, ElementsOf
<1>4. \A i \in DOMAIN rows : <<rows[i]>> \in Seq(Row) /\ T!ToSet(<<rows[i]>>) = {rows[i]}
  BY <1>3, Single
<1>5. <<>> \in Seq(Row) /\ T!ToSet(<<>>) = {}
  BY EmptySeq DEF T!ToSet
<1>6. /\ ss \in [DOMAIN rows -> Seq(Row)]
      /\ \A i \in DOMAIN rows : T!ToSet(ss[i]) = IF rows[i].layer = "du" THEN {rows[i]} ELSE {}
  <2>1. ASSUME NEW i \in DOMAIN rows
        PROVE  ss[i] \in Seq(Row) /\ T!ToSet(ss[i]) = IF rows[i].layer = "du" THEN {rows[i]} ELSE {}
    <3>1. CASE rows[i].layer = "du"
      <4>1. ss[i] = <<rows[i]>>
        BY <3>1
      <4> QED BY <3>1, <4>1, <1>4
    <3>2. CASE rows[i].layer # "du"
      <4>1. ss[i] = <<>>
        BY <3>2
      <4> QED BY <3>2, <4>1, <1>5
    <3> QED BY <3>1, <3>2
  <2> QED BY <2>1
<1> HIDE DEF ss
<1>7. T!FlattenSeq(ss) \in Seq(Row) /\ \A x : x \in T!ToSet(T!FlattenSeq(ss)) <=>
          \E i \in DOMAIN rows : x \in T!ToSet(ss[i])
  BY <1>3, <1>6, Blocks
<1>8. ASSUME NEW x
      PROVE  x \in T!ToSet(T!FlattenSeq(ss)) <=> x \in T!ToSet(rows) /\ x.layer = "du"
  <2>1. x \in T!ToSet(rows) <=> \E i \in DOMAIN rows : x = rows[i]
    BY DEF T!ToSet
  <2>2. \A i \in DOMAIN rows : x \in T!ToSet(ss[i]) <=> rows[i].layer = "du" /\ x = rows[i]
    BY <1>6
  <2>3. x \in T!ToSet(T!FlattenSeq(ss)) <=> \E i \in DOMAIN rows : x \in T!ToSet(ss[i])
    BY <1>7
  <2> QED BY <2>1, <2>2, <2>3
<1> QED BY <1>1, <1>7, <1>8 DEF rows

\* The agents of a fixture are among those of its kind.
LEMMA OfHolds ==
  ASSUME template \in Templates, NEW f \in FixturesOf(template)
  PROVE  T!ToSet(f.agents) \subseteq T!ToSet(T!Of(f.kind))
<1> DEFINE fs == template.fixtures
           ss == [i \in DOMAIN fs |-> IF fs[i].kind = f.kind THEN fs[i].agents ELSE <<>>]
<1>1. fs \in Seq(Fixture)
  BY TheTemplate
<1>2. ss \in [DOMAIN fs -> Seq(STRING)]
  <2>1. \A i \in DOMAIN fs : fs[i].agents \in Seq(STRING)
    BY TheTemplate DEF Fixture
  <2> QED BY <2>1, EmptySeq
<1>3. PICK i \in DOMAIN fs : f = fs[i]
  BY DEF FixturesOf, T!ToSet
<1>4. ss[i] = f.agents
  BY <1>3
<1>5. T!Of(f.kind) = T!FlattenSeq(ss)
  BY DEF T!Of, T!For
<1> HIDE DEF ss
<1>6. DOMAIN fs = 1..Len(fs) /\ Len(fs) \in Nat
  BY <1>1, ElementsOf
<1> HIDE DEF fs
<1>7. \A x : x \in T!ToSet(T!FlattenSeq(ss)) <=> \E n \in DOMAIN fs : x \in T!ToSet(ss[n])
  BY <1>2, <1>6, Blocks
<1> QED BY <1>3, <1>4, <1>5, <1>7

\* The agents of the rows are read.
LEMMA ReadIs ==
  ASSUME template \in Templates, NEW rows \in Seq(Row)
  PROVE  /\ T!Read(rows) \in Seq(STRING)
         /\ \A x \in T!ToSet(rows) : T!ToSet(T!Of(x.kind)) \subseteq T!ToSet(T!Read(rows))
<1> DEFINE ss == [i \in DOMAIN rows |-> T!Of(rows[i].kind)]
<1>1. DOMAIN rows = 1..Len(rows) /\ Len(rows) \in Nat
  BY ElementsOf
<1>2. ss \in [DOMAIN rows -> Seq(STRING)] /\ \A i \in DOMAIN rows : ss[i] = T!Of(rows[i].kind)
  BY OfTyped
<1>3. T!Read(rows) = T!FlattenSeq(ss)
  BY DEF T!Read, T!For
<1> HIDE DEF ss
<1>4. T!FlattenSeq(ss) \in Seq(STRING) /\ \A x : x \in T!ToSet(T!FlattenSeq(ss)) <=>
          \E i \in DOMAIN rows : x \in T!ToSet(ss[i])
  BY <1>1, <1>2, Blocks
<1>5. \A x \in T!ToSet(rows) : \E i \in DOMAIN rows : x = rows[i]
  BY DEF T!ToSet
<1> QED BY <1>2, <1>3, <1>4, <1>5

\* The two criteria of the bearers in the table of a DU.
LEMMA DrbCriteria ==
  ASSUME NEW name \in {"drb_dl_bitrate_gt", "drb_ul_bitrate_gt"}
  PROVE  LET entry == CHOOSE e \in T!CriteriaOf["du"] : e.name = name
         IN entry.fold = "drbs" /\ entry.op = "all_gt"
<1> DEFINE mine == [name |-> name, fold |-> "drbs", op |-> "all_gt"]
           Other(S) == \A e \in S : e.name # name
<1>1. Other(T!DuRates) /\ Other(T!DuFaults) /\ Other(T!DuMobility) /\ Other(T!Logs)
  BY DEF T!DuRates, T!DuFaults, T!DuMobility, T!Logs, T!Each
<1>2. Other(T!DuConfiguration) /\ Other(T!DuPaging) /\ Other(T!DuSibs) /\ Other(T!DuRadio) /\ Other(T!DuSetups)
  BY DEF T!DuConfiguration, T!DuPaging, T!DuSibs, T!DuRadio, T!DuSetups, T!Each
<1>3. mine \in T!DuPerUe /\ \A e \in T!DuPerUe : e.name = name => e.fold = "drbs" /\ e.op = "all_gt"
  BY DEF T!DuPerUe, T!Each
<1>4. T!CriteriaOf["du"] = T!DuRates \cup T!DuFaults \cup T!DuMobility \cup T!Logs
          \cup T!DuConfiguration \cup T!DuPaging
                           \cup T!DuSibs \cup T!DuRadio \cup T!DuPerUe \cup T!DuSetups
  BY DEF T!CriteriaOf
<1>5. \A e \in T!CriteriaOf["du"] : e.name = name => e.fold = "drbs" /\ e.op = "all_gt"
  <2> HIDE DEF mine
  <2> QED BY <1>1, <1>2, <1>3, <1>4
<1>6. mine \in T!CriteriaOf["du"] /\ mine.name = name
  BY <1>3, <1>4
<1> HIDE DEF mine
<1> QED BY <1>5, <1>6

\* How a criterion of the bearers is met: zip() goes over all of them, since a
\* bearer that the captures did not see counts as 0.
LEMMA BearersCompared ==
  ASSUME template \in Templates, NEW entry, entry.fold = "drbs", entry.op = "all_gt",
         NEW c, c.bearers \in Seq([id : Nat, value : Nat]),
         NEW rs, rs[1] = template.seen
  PROVE  T!IsList(entry) /\ (T!IsOk(entry, rs, c.bearers) <=> ~Missed(template, c))
<1> DEFINE ws == c.bearers
           got == [i \in DOMAIN ws |-> T!AtKey(rs[1], ws[i].id)]
           due == [i \in DOMAIN ws |-> ws[i].value]
<1>1. T!IsList(entry)
  BY DEF T!IsList
<1>2. T!IsOk(entry, rs, ws) <=> T!Compares("all_gt", got, due)
  BY <1>1 DEF T!IsOk, T!List, T!Expected
<1>3. DOMAIN ws = 1..Len(ws) /\ Len(ws) \in Nat /\ \A i \in DOMAIN ws : ws[i].value \in Nat
  <2> DEFINE R == [id : Nat, value : Nat]
  <2>1. ws \in Seq(R)
    OBVIOUS
  <2> HIDE DEF R, ws
  <2>2. DOMAIN ws = 1..Len(ws) /\ Len(ws) \in Nat /\ \A i \in DOMAIN ws : ws[i] \in R
    BY <2>1, ElementsOf
  <2> QED BY <2>2 DEF R
<1> HIDE DEF ws
<1>4. got \in Seq({got[i] : i \in DOMAIN ws}) /\ Len(got) = Len(ws) /\ due \in Seq(Nat) /\ Len(due) = Len(ws)
  <2> DEFINE G == {got[i] : i \in DOMAIN ws}
             g == got
             d == due
  <2>1. g \in [1..Len(ws) -> G] /\ d \in [1..Len(ws) -> Nat]
    BY <1>3
  <2> HIDE DEF G, g, d
  <2>2. g \in Seq(G) /\ Len(g) = Len(ws) /\ d \in Seq(Nat) /\ Len(d) = Len(ws)
    BY <1>3, <2>1, AsSeq
  <2> QED BY <2>2 DEF G, g, d
<1>5. T!Zipped(got, due) = DOMAIN ws
  <2> HIDE DEF got, due
  <2> QED BY <1>3, <1>4 DEF T!Zipped
<1>6. T!Compares("all_gt", got, due) <=> \A i \in T!Zipped(got, due) : got[i] > due[i]
  <2> HIDE DEF got, due
  <2> QED BY DEF T!Compares
<1>7. ASSUME NEW i \in DOMAIN ws
      PROVE  ~(got[i] > due[i]) <=> (ws[i].id \in DOMAIN template.seen =>
                 template.seen[ws[i].id] <= ws[i].value)
  <2>1. \A b \in DOMAIN template.seen : template.seen[b] \in Nat
    BY TemplatesAssumption
  <2>2. got[i] = (IF ws[i].id \in DOMAIN template.seen THEN template.seen[ws[i].id] ELSE 0)
            /\ due[i] = ws[i].value
    BY DEF T!AtKey
  <2> HIDE DEF got, due
  <2> QED BY <1>3, <2>1, <2>2
<1> QED BY <1>1, <1>2, <1>5, <1>6, <1>7 DEF Missed, ws

-----------------------------------------------------------------------------
(* The steps keep the invariant: the criteria.                             *)

\* The criterion that is next, and what is left after it.
LEMMA LeftIs ==
  ASSUME NEW m \in Nat, NEW n \in 0..m
  PROVE  /\ LeftToJudge(n, m) # <<>>
         /\ LeftToJudge(n, m)[1] = IF n = m THEN T!Call("Verdict", 0) ELSE T!Call("Judge", n + 1)
         /\ Tail(LeftToJudge(n, m)) = IF n = m THEN <<>> ELSE LeftToJudge(n + 1, m)
<1> DEFINE S == [do : {"Judge", "Verdict"}, to : Nat]
           left == LeftToJudge(n, m)
           next == LeftToJudge(n + 1, m)
<1>1. /\ left \in [1..(m - n + 1) -> S]
      /\ \A i \in 1..(m - n + 1) : left[i] = IF i = m - n + 1 THEN T!Call("Verdict",
             0) ELSE T!Call("Judge", n + i)
  BY DEF LeftToJudge, T!Call
<1>2. n < m => /\ next \in [1..(m - n) -> S]
               /\ \A i \in 1..(m - n) : next[i] = IF i = m - n THEN T!Call("Verdict",
                      0) ELSE T!Call("Judge", n + 1 + i)
  BY DEF LeftToJudge, T!Call
<1> HIDE DEF left, next, S
<1>3. left \in Seq(S) /\ Len(left) = m - n + 1
  <2> DEFINE k == m - n + 1
  <2>1. k \in Nat /\ left \in [1..k -> S]
    BY <1>1
  <2> HIDE DEF k
  <2>2. left \in Seq(S) /\ Len(left) = k
    BY <2>1, AsSeq
  <2> QED BY <2>2 DEF k
<1>4. n < m => next \in Seq(S) /\ Len(next) = m - n
  <2> DEFINE k == m - n
  <2> SUFFICES ASSUME n < m PROVE next \in Seq(S) /\ Len(next) = k
    BY DEF k
  <2>1. k \in Nat /\ next \in [1..k -> S]
    BY <1>2
  <2> HIDE DEF k
  <2> QED BY <2>1, AsSeq
<1>5. left # <<>> /\ left[1] = IF n = m THEN T!Call("Verdict", 0) ELSE T!Call("Judge", n + 1)
  BY <1>1, <1>3
<1>6. /\ Tail(left) \in Seq(S) /\ Len(Tail(left)) = m - n
      /\ \A i \in 1..(m - n) : Tail(left)[i] = left[i + 1]
  BY <1>3, <1>5, HeadTailProperties
<1>7. n = m => Tail(left) = <<>>
  BY <1>6
<1>8. n < m => Tail(left) = next
  <2> SUFFICES ASSUME n < m PROVE Tail(left) = next
    OBVIOUS
  <2>1. \A i \in 1..(m - n) : Tail(left)[i] = next[i]
    BY <1>1, <1>2, <1>6
  <2> QED BY <1>4, <1>6, <2>1, SeqEqual
<1> QED BY <1>5, <1>7, <1>8 DEF left, next

\* The criteria of a template.
LEMMA TheCriteria ==
  ASSUME template \in Templates, NEW i \in DOMAIN template.criteria
  PROVE  /\ template.criteria[i].bearers \in Seq([id : Nat, value : Nat])
         /\ DOMAIN template.criteria = 1..Len(template.criteria) /\ Len(template.criteria) \in Nat
<1> DEFINE R == [layer : STRING, name : STRING, value : Int, bearers : Seq([id : Nat, value : Nat])]
<1>1. template.criteria \in Seq(R)
  BY TemplatesAssumption
<1> HIDE DEF R
<1>2. DOMAIN template.criteria = 1..Len(template.criteria) /\ Len(template.criteria) \in Nat
          /\ template.criteria[i] \in R
  BY <1>1, ElementsOf
<1> QED BY <1>2 DEF R

\* A criterion adds itself to the failures at most, or ends the test.
LEMMA OneJudged ==
  ASSUME T!Judge
  PROVE  \/ T!GoOn /\ failures' \in {failures, failures \cup {todo[1].to}}
         \/ T!Leave("Error") /\ failures' = failures
<1>1. PICK kinds \in {T!KindsInOrder} : \E rows \in {T!RowsOf(template.criteria[T!To], kinds)} :
               \E read \in {T!Read(rows)} :
            T!Judged(template.criteria[T!To], T!Entry(template.criteria[T!To], rows), read)
  BY Zenon DEF T!Judge
<1>2. PICK rows, read : T!Judged(template.criteria[T!To], T!Entry(template.criteria[T!To], rows), read)
  BY <1>1, Zenon
<1> QED BY <1>2, Zenon DEF T!Judged, T!To

\* A criterion of the bearers adds itself when it is missed.
LEMMA BearersJudged ==
  ASSUME template \in Templates, NEW i \in DOMAIN template.criteria, template.criteria[i].bearers # <<>>,
         T!Judge, todo[1].to = i
  PROVE  \/ T!GoOn /\ failures' = IF Missed(template, template.criteria[i]) THEN failures \cup {i} ELSE failures
         \/ T!Leave("Error") /\ failures' = failures
<1> DEFINE c == template.criteria[i]
           kinds == T!KindsInOrder
           rows == T!RowsOf(c, kinds)
           read == T!Read(rows)
           entry == T!Entry(c, rows)
           rs == [n \in DOMAIN read |-> IF T!IsList(entry) THEN template.seen ELSE T!Reported(c.name,
               sut[read[n]])]
<1>1. T!Judged(c, entry, read)
  <2>1. T!To = i
    BY DEF T!To
  <2>2. \E k \in {T!KindsInOrder} : \E r \in {T!RowsOf(template.criteria[i], k)} : \E d \in {T!Read(r)} :
            T!Judged(template.criteria[i], T!Entry(template.criteria[i], r), d)
    BY <2>1, Zenon DEF T!Judge
  <2> QED BY <2>2
<1>2. c.layer = "du" /\ c.name \in {"drb_dl_bitrate_gt", "drb_ul_bitrate_gt"}
      /\ \E f \in FixturesOf(template) : f.kind \in {"gnb", "du"} /\ f.agents # <<>>
  BY TemplatesAssumption
<1>3. c.bearers \in Seq([id : Nat, value : Nat])
  BY TheCriteria
<1> HIDE DEF c
<1>4. rows \in Seq(Row) /\ \A x : x \in T!ToSet(rows) <=> x \in T!ToSet(T!Rows(kinds)) /\ x.layer = "du"
  BY <1>2, KindsAre, DuRows
<1>5. PICK f \in FixturesOf(template) : f.kind \in {"gnb", "du"} /\ f.agents # <<>>
  BY <1>2
<1> DEFINE row == [layer |-> "du", kind |-> f.kind]
<1>6. row \in T!ToSet(rows)
  <2>1. f.kind \in T!ToSet(kinds) /\ kinds \in Seq(Kinds)
    BY KindsAre
  <2> HIDE DEF kinds, rows
  <2>2. row \in T!ToSet(T!Rows(kinds))
    BY <1>5, <2>1, RowsAre
  <2> QED BY <1>4, <2>2
<1> HIDE DEF rows
<1>7. DOMAIN rows = 1..Len(rows) /\ Len(rows) \in Nat /\ rows # <<>> /\ rows[1] \in T!ToSet(rows)
  <2>1. rows # <<>>
    BY <1>6 DEF T!ToSet
  <2> QED BY <1>4, <2>1, ElementsOf
<1>8. rows[1].layer = "du"
  BY <1>4, <1>7
<1>9. entry.fold = "drbs" /\ entry.op = "all_gt"
  <2>1. entry = CHOOSE e \in T!CriteriaOf["du"] : e.name = c.name
    BY <1>2, <1>8 DEF T!Entry
  <2> QED BY <1>2, <2>1, DrbCriteria
<1>10. read \in Seq(STRING) /\ read # <<>>
  <2>1. read \in Seq(STRING) /\ T!ToSet(T!Of(row.kind)) \subseteq T!ToSet(read)
    BY <1>4, <1>6, ReadIs
  <2>2. T!ToSet(f.agents) \subseteq T!ToSet(T!Of(f.kind))
    BY OfHolds
  <2>3. f.agents[1] \in T!ToSet(f.agents)
    <3>1. f.agents \in Seq(STRING)
      BY TheTemplate DEF Fixture
    <3> QED BY <1>5, <3>1, ElementsOf
  <2>4. read # <<>>
    <3>1. row.kind = f.kind
      OBVIOUS
    <3>2. f.agents[1] \in T!ToSet(read)
      BY <2>1, <2>2, <2>3, <3>1, Zenon
    <3> QED BY <3>2 DEF T!ToSet
  <2> QED BY <2>1, <2>4
<1> HIDE DEF read, entry
<1>11. 1 \in DOMAIN read
  BY <1>10, ElementsOf
<1>12. T!IsList(entry)
  BY <1>9 DEF T!IsList
<1>13. rs[1] = template.seen
  BY <1>11, <1>12
<1> HIDE DEF rs
<1>14. T!IsOk(entry, rs, c.bearers) <=> ~Missed(template, c)
  BY <1>3, <1>9, <1>13, BearersCompared
<1>15. \/ T!GoOn /\ failures' = IF T!IsOk(entry, rs, c.bearers) THEN failures ELSE failures \cup {T!To}
       \/ T!Leave("Error") /\ failures' = failures
  BY <1>1, <1>12 DEF T!Judged, rs
<1> QED BY <1>14, <1>15 DEF c, T!To

\* The criteria, one after the other.
LEMMA JudgesStep ==
  ASSUME template \in Templates, TInv, T!Test
  PROVE  Judges(template', stage', todo', failures')
<1>0. /\ stage \in Stages /\ exc \in {"none", "Failed", "Error"} /\ TodoIs(stage, todo)
      /\ Judges(template, stage, todo, failures)
  BY DEF TInv
<1> DEFINE Before == {"setup", "config", "network", "traffic", "ims", "stop"}
           m == Len(template.criteria)
<1>1. template' = template
  BY Effects
<1>2. stage \in Before => failures = {} /\ failures' = {}
  <2> SUFFICES ASSUME stage \in Before PROVE failures = {} /\ failures' = {}
    OBVIOUS
  <2>1. failures = {}
    BY <1>0 DEF Judges
  <2>2. todo # <<>> => todo[1].do # "Judge"
    BY <1>0, FirstCall DEF Stages, Middle, Steps
  <2>3. T!Judge => todo # <<>> /\ todo[1].do = "Judge"
    BY DEF T!Judge, T!Now
  <2> QED BY <2>1, <2>2, <2>3, Effects
<1>3. ASSUME stage' \in Before PROVE failures' = {}
  <2>1. stage \in Before
    BY <1>0, <1>3, StageStep DEF Stages, Middle, LastCalls, T!AfterBlock
  <2> QED BY <2>1, <1>2
<1>4. ASSUME stage' = "validate"
      PROVE  todo' = <<>> \/
               \E n \in 0..m :
                 /\ todo' = LeftToJudge(n, m)
                 /\ failures' \subseteq 1..n
                 /\ \A i \in 1..n : template.criteria[i].bearers # <<>> => (i \in failures' <=>
                        Missed(template, template.criteria[i]))
  <2>1. CASE stage = "stop" /\ todo' = T!Script("validate")
    <3>1. todo' = LeftToJudge(0, m) /\ m \in Nat /\ failures' = {}
      BY <1>2, <2>1, ValidateScript
    <3>2. 0 \in 0..m /\ 1..0 = {}
      BY <3>1
    <3> HIDE DEF m
    <3> QED BY <3>1, <3>2
  <2>2. CASE stage = "validate" /\ todo # <<>> /\ stage' = stage /\ exc' = exc /\ todo' = Tail(todo)
    <3>1. PICK n \in 0..m :
            /\ todo = LeftToJudge(n, m)
            /\ failures \subseteq 1..n
            /\ \A i \in 1..n : template.criteria[i].bearers # <<>> => (i \in failures <=>
                   Missed(template, template.criteria[i]))
      BY <1>0, <2>2 DEF Judges
    <3>2. m \in Nat
      BY ValidateScript
    <3> HIDE DEF m
    <3>3. CASE n = m
      <4>1. todo' = <<>>
        BY <2>2, <3>1, <3>2, <3>3, LeftIs
      <4> QED BY <4>1
    <3>4. CASE n # m
      <4>1. todo' = LeftToJudge(n + 1, m) /\ todo[1] = T!Call("Judge", n + 1)
        BY <2>2, <3>1, <3>2, <3>4, LeftIs
      <4>2. T!Judge /\ todo[1].to = n + 1
        BY <2>2, <4>1, Effects DEF Called, T!Call
      <4>3. n + 1 \in 0..m /\ n + 1 \in 1..m /\ 1..(n + 1) = 1..n \cup {n + 1} /\ n + 1 \notin 1..n
        BY <3>1, <3>2, <3>4
      <4>4. ~T!Leave("Error")
        BY <2>2 DEF T!Leave, T!Handler, T!Awaited
      <4>5. failures' \in {failures, failures \cup {n + 1}}
        BY <4>2, <4>4, OneJudged
      <4>6. template.criteria[n + 1].bearers # <<>> => (n + 1 \in failures' <=>
                Missed(template, template.criteria[n + 1]))
        <5>1. n + 1 \in DOMAIN template.criteria
          BY <4>3, TemplatesAssumption, LenProperties DEF m
        <5> QED BY <3>1, <4>2, <4>3, <4>4, <5>1, BearersJudged
      <4>7. failures' \subseteq 1..(n + 1)
        BY <3>1, <4>3, <4>5
      <4>8. ASSUME NEW i \in 1..(n + 1), template.criteria[i].bearers # <<>>
            PROVE  i \in failures' <=> Missed(template, template.criteria[i])
        BY <3>1, <4>3, <4>5, <4>6, <4>8
      <4> QED BY <4>1, <4>3, <4>7, <4>8
    <3> QED BY <3>3, <3>4
  <2>3. \/ stage = "stop" /\ todo' = T!Script("validate")
        \/ stage = "validate" /\ todo # <<>> /\ stage' = stage /\ exc' = exc /\ todo' = Tail(todo)
        \/ todo' = <<>>
    BY <1>0, <1>4, StageStep DEF Stages, Middle, LastCalls, T!AfterBlock
  <2> QED BY <2>1, <2>2, <2>3
<1> QED BY <1>1, <1>3, <1>4 DEF Judges

-----------------------------------------------------------------------------
(* The theorems about a test.                                              *)

\* The agents of the test are those of its template.
LEMMA AgentsAre == T!Agents = AgentsIn(template)
BY DEF T!Agents, AgentsIn, FixturesOf, T!ToSet

\* A test starts with its fixtures.
LEMMA TestStarts ==
  ASSUME T!Init
  PROVE  template \in Templates /\ TInv
<1>1. template \in Templates
  BY DEF T!Init
<1>2. stage = "setup" /\ todo = T!Fixtures /\ exc = "none" /\ failures = {}
          /\ sut = [a \in AgentsIn(template) |-> T!NotRun]
  BY AgentsAre DEF T!Init
<1>3. stage \in Stages /\ sut \in [AgentsIn(template) -> Run]
  BY <1>2, RunsAre DEF Stages
<1>4. TodoIs("setup", T!Fixtures) /\ Makes(template, "setup", T!Fixtures, made)
  BY <1>1, FixturesTyped DEF TodoIs, Makes, StepCalls, Middle, LastCalls
<1>5. Ends(template, "setup", todo, exc, logged, sut) /\ Judges(template, "setup", todo, {})
  BY DEF Ends, Judges
<1> QED BY <1>1, <1>2, <1>3, <1>4, <1>5 DEF TInv

\* Around the test, only runs that nobody has stopped change.
LEMMA AroundTheTest ==
  ASSUME sut \in [AgentsIn(template) -> Run], T!Surroundings
  PROVE  /\ UNCHANGED <<template, made, stage, todo, exc, failures, logged>>
         /\ sut' \in [AgentsIn(template) -> Run]
         /\ \A a \in AgentsIn(template) : IsOver(sut[a]) => sut'[a] = sut[a]
<1>1. PICK a \in T!Agents : T!SimulationEnds(a) \/ T!SutCrashes(a) \/ T!SutComplains(a) \/ T!AgentDies(a)
  BY DEF T!Surroundings
<1>2. a \in AgentsIn(template) /\ sut[a] \in Run
  BY <1>1, AgentsAre
<1>3. ASSUME NEW r \in Run, sut' = [sut EXCEPT ![a] = r], IsOver(sut[a]) => r = sut[a]
      PROVE  /\ sut' \in [AgentsIn(template) -> Run]
             /\ \A b \in AgentsIn(template) : IsOver(sut[b]) => sut'[b] = sut[b]
  BY <1>2, <1>3
<1>4. UNCHANGED <<template, made, stage, todo, exc, failures, logged>>
  BY <1>1 DEF T!SimulationEnds, T!SutCrashes, T!SutComplains, T!AgentDies, T!testVars, T!clientVars
<1> DEFINE run == sut[a]
<1>5. CASE T!SimulationEnds(a)
  <2> DEFINE r == [run EXCEPT !.at = "over"]
  <2>1. r \in Run /\ run.at = "on"
    BY <1>2, <1>5 DEF Run, T!SimulationEnds
  <2>2. sut' = [sut EXCEPT ![a] = r]
    BY <1>5 DEF T!SimulationEnds
  <2> HIDE DEF r
  <2> QED BY <1>3, <1>4, <2>1, <2>2 DEF IsOver
<1>6. CASE T!SutCrashes(a)
  <2> DEFINE r == T!Crashed(run)
  <2>1. r \in Run /\ run.at = "on" /\ sut' = [sut EXCEPT ![a] = r]
    BY <1>2, <1>6, RunsAre DEF T!SutCrashes
  <2> HIDE DEF r
  <2> QED BY <1>3, <1>4, <2>1 DEF IsOver
<1>7. CASE T!SutComplains(a)
  <2>1. PICK what \in {"errors", "warnings", "kos"} : sut' = [sut EXCEPT ![a][what] = @ + 1]
    BY <1>7 DEF T!SutComplains
  <2> DEFINE r == [run EXCEPT ![what] = @ + 1]
  <2>2. r \in Run
    BY <1>2 DEF Run
  <2>3. run.at = "on" /\ sut' = [sut EXCEPT ![a] = r]
    BY <1>7, <2>1 DEF T!SutComplains
  <2> HIDE DEF r
  <2> QED BY <1>3, <1>4, <2>2, <2>3 DEF IsOver
<1>8. CASE T!AgentDies(a)
  <2> DEFINE at == IF run.at \in {"none", "ended"} THEN run.at ELSE "gone"
             r == [run EXCEPT !.at = at]
  <2>1. r \in Run /\ (IsOver(run) => r = run)
    BY <1>2 DEF Run, IsOver
  <2>2. sut' = [sut EXCEPT ![a] = r]
    BY <1>8 DEF T!AgentDies
  <2> HIDE DEF r
  <2> QED BY <1>3, <1>4, <2>1, <2>2
<1> QED BY <1>1, <1>5, <1>6, <1>7, <1>8

\* Such a change, or an error in the log, leaves the end of the agents alone.
LEMMA StillEnds ==
  ASSUME NEW t, NEW at, NEW calls, NEW e, NEW log, NEW log2, NEW runs, NEW runs2,
         Ends(t, at, calls, e, log, runs), log => log2,
         \A a \in AgentsIn(t) : IsOver(runs[a]) => runs2[a] = runs[a]
  PROVE  Ends(t, at, calls, e, log2, runs2)
BY DEF Ends

\* A step of the test, of its threads or around it.
LEMMA TestGoesOn ==
  ASSUME template \in Templates, TInv, T!Next
  PROVE  template' = template /\ TInv'
<1>0. /\ stage \in Stages /\ exc \in {"none", "Failed", "Error"} /\ sut \in [AgentsIn(template) -> Run]
      /\ TodoIs(stage, todo) /\ Makes(template, stage, todo, made)
      /\ Ends(template, stage, todo, exc, logged, sut) /\ Judges(template, stage, todo, failures)
  BY DEF TInv
<1>1. CASE T!Test
  <2>1. template' = template
    BY <1>1, Effects
  <2>2. stage' \in Stages /\ exc' \in {"none", "Failed", "Error"} /\ sut' \in [AgentsIn(template') -> Run]
    BY <1>0, <1>1, <2>1, StageStep, SutOfTest
  <2>3. TodoIs(stage', todo') /\ Makes(template', stage', todo', made')
            /\ Ends(template', stage', todo', exc', logged', sut')
        /\ Judges(template', stage', todo', failures')
    BY <1>1, TodoStep, MakesStep, EndsStep, JudgesStep
  <2> QED BY <2>1, <2>2, <2>3 DEF TInv
<1>2. ASSUME UNCHANGED <<template, made, stage, todo, exc, failures>>, logged => logged',
             sut' \in [AgentsIn(template) -> Run], \A a \in AgentsIn(template) : IsOver(sut[a]) =>
                 sut'[a] = sut[a]
      PROVE  template' = template /\ TInv'
  <2>1. Ends(template, stage, todo, exc, logged', sut')
    BY <1>0, <1>2, StillEnds
  <2> QED BY <1>0, <1>2, <2>1 DEF TInv
<1>3. CASE T!Surroundings
  BY <1>0, <1>2, <1>3, AroundTheTest
<1>4. CASE \E a \in T!Agents : T!KeepAlive(a)
  <2>1. PICK a \in T!Agents : T!Notice(a) \/ T!ThreadEnds(a)
    BY <1>4 DEF T!KeepAlive
  <2>2. UNCHANGED <<template, made, sut, stage, todo, exc, failures>>
    BY <2>1 DEF T!Notice, T!ThreadEnds, T!agentVars, T!testVars
  <2>3. logged => logged'
    BY <2>1 DEF T!Notice, T!ThreadEnds, T!testVars
  <2> QED BY <1>0, <1>2, <2>2, <2>3
<1> QED BY <1>1, <1>3, <1>4 DEF T!Next

\* A behaviour of MCTestRun is a test, or one of PortService beside an empty test.
RunInv == IF template.test = "none" THEN template.fixtures = <<>>
    /\ todo = <<>> ELSE template \in Templates /\ TInv

\* It starts as one of them.
LEMMA RunStarts ==
  ASSUME MCInit
  PROVE  RunInv
<1>1. CASE NoTest
  BY <1>1 DEF NoTest, Named, RunInv
<1>2. CASE T!Init
  <2>1. template.test # "none"
    BY <1>2, TemplatesAssumption DEF T!Init
  <2> QED BY <1>2, <2>1, TestStarts DEF RunInv
<1> QED BY <1>1, <1>2 DEF MCInit

\* It goes on as the same.
LEMMA RunGoesOn ==
  ASSUME RunInv, [MCNext]_<<vars, testVars>>
  PROVE  RunInv'
<1>1. CASE UNCHANGED testVars
  BY <1>1 DEF RunInv, TInv, testVars
<1>2. CASE template.test # "none" /\ T!Next
  BY <1>2, TestGoesOn DEF RunInv
<1> QED BY <1>1, <1>2 DEF MCNext

\* PassedMeansStopped holds for every set of templates: a test that passes has heard
\* from every agent that its last run ended, with exit code 0, whatever failed and
\* when, although the errors of Stop are swallowed (stop(), _stop_stub, public.py).
THEOREM PassedHasStopped == MCSpec => []PassedMeansStopped
<1>1. RunInv => PassedMeansStopped
  <2>1. CASE template.test = "none"
    <3>1. RunInv => T!Agents = {}
      BY <2>1 DEF RunInv, T!Agents
    <3> QED BY <3>1 DEF PassedMeansStopped, T!PassedMeansStopped
  <2>2. CASE template.test # "none" /\ TInv /\ T!Passed
    <3>1. \A a \in AgentsIn(template) : IsOver(sut[a])
      BY <2>2 DEF TInv, Ends, T!Passed
    <3> QED BY <3>1, AgentsAre DEF PassedMeansStopped, T!PassedMeansStopped, IsOver
  <2> QED BY <2>1, <2>2 DEF RunInv, PassedMeansStopped, T!PassedMeansStopped
<1>2. MCSpec => []RunInv
  BY RunStarts, RunGoesOn, PTL DEF MCSpec
<1> QED BY <1>1, <1>2, PTL

\* BearersAreJudged holds for every set of templates: a bearer that the captures
\* never saw counts as carrying nothing (drb_dl_bitrate_gt), in a table of any
\* fixtures, wherever the criterion is among the others.
THEOREM EveryBearerIsJudged == MCSpec => []BearersAreJudged
<1>1. ASSUME RunInv PROVE BearersAreJudged
  <2> SUFFICES ASSUME T!Now({"Verdict"}), NEW i \in DOMAIN template.criteria,
      template.criteria[i].bearers # <<>>
               PROVE  i \in failures <=> Missed(template, template.criteria[i])
    BY DEF BearersAreJudged, T!BearersAreJudged, Missed
  <2>1. todo # <<>> /\ todo[1].do = "Verdict"
    BY DEF T!Now
  <2>2. template \in Templates /\ TInv
    BY <1>1, <2>1 DEF RunInv
  <2>3. stage = "validate"
    <3> SUFFICES ASSUME stage # "validate" PROVE FALSE
      OBVIOUS
    <3>1. stage \in Stages \ {"validate"} /\ TodoIs(stage, todo)
      BY <2>2 DEF TInv
    <3>2. stage \in {"setup"} \cup Middle \/ stage \in DOMAIN LastCalls
      BY <3>1, Zenon DEF Stages
    <3> QED BY <2>1, <3>1, <3>2, FirstCall DEF Steps, LastCalls
  <2> DEFINE m == Len(template.criteria)
  <2>4. DOMAIN template.criteria = 1..m /\ m \in Nat
    BY <2>2, TheCriteria
  <2>5. PICK n \in 0..m :
            /\ todo = LeftToJudge(n, m)
            /\ \A j \in 1..n : template.criteria[j].bearers # <<>> => (j \in failures <=>
                   Missed(template, template.criteria[j]))
    BY <2>1, <2>2, <2>3 DEF TInv, Judges
  <2> HIDE DEF m
  <2>6. n = m
    <3> SUFFICES ASSUME n # m PROVE FALSE
      OBVIOUS
    <3>1. todo[1] = T!Call("Judge", n + 1)
      BY <2>4, <2>5, LeftIs
    <3> QED BY <2>1, <3>1 DEF T!Call
  <2> QED BY <2>4, <2>5, <2>6
<1>2. MCSpec => []RunInv
  BY RunStarts, RunGoesOn, PTL DEF MCSpec
<1> QED BY <1>1, <1>2, PTL

-----------------------------------------------------------------------------
(* The port service: the inductive invariant.                              *)

\* A process has no mode before it reads one (create_port_infrastructure reads
\* it once), so it cannot be the one the service is for.
NoModeYet == \A o \in Orch : pc[o] = "ensure" => wanted[o] = "none"

\* Who has deleted the service waits for its end, or has given up.
SomeoneDeletes == doomed => \E o \in Orch : pc[o] \in {"gone", "gaveup"}

\* A service that a process has found or created is missing only as long as
\* another one replaces it, or has given up doing so.
SomeoneReplaces ==
    service = "none" /\ (\E o \in Orch : Ensured(o))
        => \E o \in Orch : pc[o] \in {"gone", "create", "gaveup"}

\* Once a process has found or created a service, what is there is of the mode
\* one of the processes has read.
SomeoneWants ==
    service # "none" /\ (\E o \in Orch : Ensured(o)) => \E o \in Orch : service = wanted[o]

IInv == TypeOK /\ NoModeYet /\ SomeoneDeletes /\ SomeoneReplaces /\ SomeoneWants

\* The invariant holds at the beginning: nobody has looked for a service.
LEMMA Initially == ASSUME Init PROVE IInv
<1>1. TypeOK
  <2>1. pc \in [Orch -> Ensuring \cup Waiting \cup Over] /\ \A o \in Orch : pc[o] = "ensure"
    BY DEF Init, Ensuring
  <2>2. wanted \in [Orch -> Mode \cup {"none"}] /\ address \in [Orch -> Mode \cup {"none"}]
    BY DEF Init
  <2>3. expired \in [Orch -> BOOLEAN] /\ doomed \in BOOLEAN /\ ~doomed
    BY DEF Init
  <2>4. config \in Mode \cup {"none"} /\ deploys \in 0..MaxDeploys /\ service \in Mode \cup {"none"}
    BY PortServiceAssumption DEF Init
  <2> QED BY <2>1, <2>2, <2>3, <2>4 DEF TypeOK
<1>2. \A o \in Orch : ~Ensured(o)
  BY DEF Init, Ensured, Waiting
<1>3. NoModeYet /\ SomeoneDeletes
  BY DEF Init, NoModeYet, SomeoneDeletes
<1> QED BY <1>1, <1>2, <1>3 DEF IInv, SomeoneReplaces, SomeoneWants

-----------------------------------------------------------------------------
(* The port service: its steps.                                            *)

\* What a step of one process that leaves the service alone keeps: the process
\* did not wait for the end of a service that is still to be deleted, does not
\* leave a service that it should replace, and calls it its own only if it is.
LEMMA MovesOn ==
  ASSUME IInv, NEW o \in Orch, NEW phase,
         pc' = [pc EXCEPT ![o] = phase],
         UNCHANGED <<service, doomed, wanted>>,
         phase # "ensure",
         pc[o] \in {"gone", "gaveup"} => phase \in {"gone", "gaveup"} \/ service = "none",
         pc[o] \in {"gone", "create", "gaveup"} =>
            phase \in {"gone", "create", "gaveup"} \/ service # "none",
         phase \in Waiting \cup {"up"} => Ensured(o) \/ service = wanted[o],
         wanted[o] # "none"
  PROVE  /\ NoModeYet' /\ SomeoneDeletes' /\ SomeoneReplaces' /\ SomeoneWants'
<1> USE DEF IInv, TypeOK
<1>1. pc'[o] = phase /\ \A q \in Orch \ {o} : pc'[q] = pc[q]
  OBVIOUS
<1>2. NoModeYet'
  BY <1>1 DEF NoModeYet
<1>3. SomeoneDeletes'
  BY <1>1 DEF SomeoneDeletes
<1>4. (\E q \in Orch : Ensured(q))' => (\E q \in Orch : Ensured(q)) \/ service = wanted[o]
  BY <1>1 DEF Ensured
<1>5. SomeoneReplaces'
  BY <1>1, <1>4 DEF SomeoneReplaces
<1>6. SomeoneWants'
  BY <1>4 DEF SomeoneWants
<1> QED BY <1>2, <1>3, <1>5, <1>6

\* create_port_infrastructure of one process.
LEMMA EnsureStep == ASSUME IInv, NEW o \in Orch, Ensure(o) PROVE IInv'
<1> USE DEF Goto, clusterVars
<1>0. TypeOK BY DEF IInv
<1>1. CASE ReadMode(o)
  <2>1. TypeOK'
    BY <1>0, <1>1, SMTT(30) DEF ReadMode, TypeOK, HasConfig, Mode, Ensuring, Waiting, Over
  <2>2. \A q \in Orch : Ensured(q)' => Ensured(q)
    BY <1>0, <1>1 DEF ReadMode, TypeOK, Ensured, Waiting
  <2>3. NoModeYet'
    BY <1>0, <1>1 DEF IInv, ReadMode, TypeOK, NoModeYet
  <2>4. \A q \in Orch : pc[q] # "ensure" => pc'[q] = pc[q] /\ wanted'[q] = wanted[q]
    BY <1>0, <1>1 DEF ReadMode, TypeOK
  <2>5. SomeoneDeletes' /\ SomeoneReplaces'
    BY <1>1, <2>2, <2>4 DEF IInv, ReadMode, SomeoneDeletes, SomeoneReplaces
  <2>6. \A q \in Orch : service # "none" /\ service = wanted[q] => service = wanted'[q]
    BY <2>4 DEF IInv, NoModeYet
  <2>7. SomeoneWants'
    BY <1>1, <2>2, <2>6 DEF IInv, ReadMode, SomeoneWants
  <2> QED BY <2>1, <2>3, <2>5, <2>7 DEF IInv
<1>2. CASE FindWanted(o)
  <2>1. TypeOK'
    BY <1>0, <1>2 DEF FindWanted, TypeOK, Ensuring, Waiting, Over
  <2>2. PICK phase \in {"thread", "other"} :
          pc' = [pc EXCEPT ![o] = phase] /\ (phase = "thread" => service = wanted[o])
    BY <1>2 DEF FindWanted
  <2>3. pc[o] = "look" /\ wanted[o] # "none" /\ UNCHANGED <<service, doomed, wanted>>
    BY <1>0, <1>2 DEF FindWanted, TypeOK
  <2>4. NoModeYet' /\ SomeoneDeletes' /\ SomeoneReplaces' /\ SomeoneWants'
    BY <2>2, <2>3, MovesOn DEF Waiting
  <2> QED BY <2>1, <2>4 DEF IInv
<1>3. CASE FindOther(o)
  <2>1. TypeOK'
    BY <1>0, <1>3 DEF FindOther, TypeOK, Ensuring, Waiting, Over
  <2>2. NoModeYet' /\ SomeoneDeletes' /\ SomeoneReplaces' /\ SomeoneWants'
    BY <1>0, <1>3, MovesOn DEF FindOther, TypeOK, Waiting
  <2> QED BY <2>1, <2>2 DEF IInv
<1>4. CASE DeleteService(o)
  <2>1. PICK phase \in {"gone", "gaveup"} : pc' = [pc EXCEPT ![o] = phase]
    BY <1>4 DEF DeleteService
  <2>2. TypeOK'
    BY <1>0, <1>4, <2>1 DEF DeleteService, TypeOK, Ensuring, Waiting, Over
  <2>3. pc'[o] = phase /\ \A q \in Orch \ {o} : pc'[q] = pc[q]
    BY <1>0, <2>1 DEF TypeOK
  <2>4. NoModeYet' /\ SomeoneDeletes'
    BY <1>4, <2>3 DEF IInv, DeleteService, NoModeYet, SomeoneDeletes
  <2>5. \A q \in Orch : Ensured(q)' => Ensured(q)
    BY <2>3 DEF Ensured, Waiting
  <2>6. SomeoneReplaces' /\ SomeoneWants'
    BY <1>4, <2>3, <2>5 DEF IInv, DeleteService, SomeoneReplaces, SomeoneWants
  <2> QED BY <2>2, <2>4, <2>6 DEF IInv
<1>5. CASE AwaitGone(o)
  <2>1. TypeOK'
    BY <1>0, <1>5 DEF AwaitGone, TypeOK, Ensuring, Waiting, Over
  <2>2. NoModeYet' /\ SomeoneDeletes' /\ SomeoneReplaces' /\ SomeoneWants'
    BY <1>0, <1>5, MovesOn DEF AwaitGone, Gone, TypeOK, Waiting
  <2> QED BY <2>1, <2>2 DEF IInv
<1>6. CASE GiveUp(o)
  <2>1. TypeOK'
    BY <1>0, <1>6 DEF GiveUp, WaitedTooLong, TypeOK, Ensuring, Waiting, Over
  <2>2. NoModeYet' /\ SomeoneDeletes' /\ SomeoneReplaces' /\ SomeoneWants'
    BY <1>0, <1>6, MovesOn DEF GiveUp, WaitedTooLong, TypeOK, Waiting
  <2> QED BY <2>1, <2>2 DEF IInv
<1>7. CASE CreateService(o)
  <2>1. wanted[o] \in Mode
    BY <1>0, <1>7 DEF CreateService, TypeOK
  <2>2. CASE service # "none"
    <3>1. PICK phase \in {"refused", "gaveup"} : pc' = [pc EXCEPT ![o] = phase]
      BY <1>7, <2>2 DEF CreateService
    <3>2. UNCHANGED <<config, deploys, service, doomed, wanted, address, expired>>
      BY <1>7, <2>2 DEF CreateService
    <3>3. TypeOK'
      BY <1>0, <3>1, <3>2, <2>1 DEF TypeOK, Ensuring, Waiting, Over, Mode
    <3>4. NoModeYet' /\ SomeoneDeletes' /\ SomeoneReplaces' /\ SomeoneWants'
      <4>1. pc[o] = "create" /\ wanted[o] # "none"
        BY <1>7, <2>1 DEF CreateService, Mode
      <4>2. phase \notin Waiting \cup {"up", "ensure"}
        BY DEF Waiting
      <4> QED BY <2>2, <3>1, <3>2, <4>1, <4>2, MovesOn
    <3> QED BY <3>3, <3>4 DEF IInv
  <2>3. CASE service = "none" /\ service' = "none"
    <3>1. pc' = [pc EXCEPT ![o] = "gaveup"]
      BY <1>7, <2>1, <2>3 DEF CreateService, Mode
    <3>2. UNCHANGED <<config, deploys, service, doomed, wanted, address, expired>>
      BY <1>7, <2>3 DEF CreateService
    <3>3. TypeOK'
      BY <1>0, <3>1, <3>2, <2>1 DEF TypeOK, Ensuring, Waiting, Over, Mode
    <3>4. NoModeYet' /\ SomeoneDeletes' /\ SomeoneReplaces' /\ SomeoneWants'
      <4>1. pc[o] = "create" /\ wanted[o] # "none"
        BY <1>7, <2>1 DEF CreateService, Mode
      <4> QED BY <2>3, <3>1, <3>2, <4>1, MovesOn DEF Waiting
    <3> QED BY <3>3, <3>4 DEF IInv
  <2>4. CASE service = "none" /\ service' # "none"
    <3>1. PICK phase \in {"thread", "gaveup"} : pc' = [pc EXCEPT ![o] = phase]
      BY <1>7, <2>4 DEF CreateService
    <3>2. service' = wanted[o] /\ UNCHANGED <<config, deploys, doomed, wanted, address, expired>>
      BY <1>7, <2>4 DEF CreateService
    <3>3. ~doomed
      BY <1>0, <2>4 DEF TypeOK
    <3>4. TypeOK'
      BY <1>0, <3>1, <3>2, <3>3, <2>1 DEF TypeOK, Ensuring, Waiting, Over, Mode
    <3>5. NoModeYet'
      BY <1>0, <3>1, <3>2 DEF IInv, TypeOK, NoModeYet
    <3>6. SomeoneDeletes' /\ SomeoneReplaces' /\ SomeoneWants'
      BY <2>4, <3>2, <3>3 DEF SomeoneDeletes, SomeoneReplaces, SomeoneWants
    <3> QED BY <3>4, <3>5, <3>6 DEF IInv
  <2> QED BY <2>2, <2>3, <2>4
<1> QED BY <1>1, <1>2, <1>3, <1>4, <1>5, <1>6, <1>7, Zenon DEF Ensure

\* The pod thread of one process, which never goes back.
LEMMA PodThreadStep == ASSUME IInv, NEW o \in Orch, PodThread(o) PROVE IInv'
<1>0. TypeOK BY DEF IInv
<1>1. pc[o] \in Waiting /\ Ensured(o) /\ wanted[o] # "none"
  BY <1>0 DEF PodThread, ReadModeAgain, AwaitPod, GetAddress, CheckPorts, TypeOK, Ensured, Waiting
<1>2. UNCHANGED <<config, deploys, service, doomed, wanted, expired>>
  BY DEF PodThread, ReadModeAgain, AwaitPod, GetAddress, CheckPorts, clusterVars
<1>3. PICK phase \in Waiting \cup {"raised", "up"} : pc' = [pc EXCEPT ![o] = phase]
  BY DEF PodThread, ReadModeAgain, AwaitPod, GetAddress, CheckPorts, Goto, Waiting
<1>4. address' \in [Orch -> Mode \cup {"none"}]
  BY <1>0 DEF PodThread, ReadModeAgain, AwaitPod, GetAddress, CheckPorts, TypeOK
<1>5. TypeOK'
  BY <1>0, <1>1, <1>2, <1>3, <1>4 DEF TypeOK, Ensuring, Waiting, Over
<1>6. NoModeYet' /\ SomeoneDeletes' /\ SomeoneReplaces' /\ SomeoneWants'
  <2>1. pc[o] \notin {"gone", "create", "gaveup"} /\ phase # "ensure"
    BY <1>1 DEF Waiting
  <2> QED BY <1>1, <1>2, <1>3, <2>1, MovesOn
<1> QED BY <1>5, <1>6 DEF IInv

\* The deadline, the API server and the deployment of the cluster definition.
LEMMA EnvironmentStep ==
  ASSUME IInv, (\E o \in Orch : Expire(o)) \/ Reap \/ RemoveConfig \/ DeployConfig
  PROVE  IInv'
<1>0. TypeOK BY DEF IInv
<1>1. TypeOK'
  <2>1. CASE RemoveConfig
    BY <1>0, <2>1, PortServiceAssumption DEF TypeOK, RemoveConfig
  <2>2. CASE \E o \in Orch : Expire(o)
    BY <1>0, <2>2 DEF TypeOK, Expire, clusterVars
  <2>3. CASE DeployConfig
    BY <1>0, <2>3 DEF TypeOK, DeployConfig
  <2>4. CASE Reap
    <3>1. doomed' \in BOOLEAN /\ ~doomed' /\ service' = "none"
      BY <2>4 DEF Reap
    <3> QED BY <1>0, <2>4, <3>1 DEF TypeOK, Reap, clusterVars
  <2> QED BY <2>1, <2>2, <2>3, <2>4
<1>2. UNCHANGED <<pc, wanted>>
  BY DEF Expire, Reap, RemoveConfig, DeployConfig, clusterVars
<1>3. NoModeYet'
  BY <1>2 DEF IInv, NoModeYet
<1>4. CASE Reap
  BY <1>1, <1>2, <1>3, <1>4
  DEF IInv, Reap, SomeoneDeletes, SomeoneReplaces, SomeoneWants, Ensured
<1>5. CASE UNCHANGED <<service, doomed>>
  BY <1>1, <1>2, <1>3, <1>5
  DEF IInv, SomeoneDeletes, SomeoneReplaces, SomeoneWants, Ensured
<1> QED BY <1>4, <1>5 DEF Expire, RemoveConfig, DeployConfig

\* A step that changes nothing.
LEMMA Stutter == ASSUME IInv, UNCHANGED vars PROVE IInv'
  BY DEF vars, clusterVars, IInv, TypeOK, NoModeYet, SomeoneDeletes, SomeoneReplaces,
         SomeoneWants, Ensured

-----------------------------------------------------------------------------
(* The theorems.                                                           *)

\* The invariant holds in every reachable state.
THEOREM Invariance == Spec => []IInv
<1>1. Init => IInv BY Initially
<1>2. IInv /\ [Next]_vars => IInv'
  BY EnsureStep, PodThreadStep, EnvironmentStep, Stutter, Zenon DEF Next
<1> QED BY <1>1, <1>2, PTL DEF Spec

\* The types; and no process looks for a service without a mode.
THEOREM TypeCorrect == Spec => []TypeOK
<1>1. IInv => TypeOK BY DEF IInv
<1> QED BY <1>1, Invariance, PTL

\* When the last process has left create_port_infrastructure, and none gave up in
\* the middle, there is a service, nobody has deleted it, and it is what one of
\* them wants: for any number of processes and any change of the mode.
THEOREM ServiceSettles == Spec => []Settled
<1>1. IInv => Settled
  BY DEF IInv, Settled, SomeoneDeletes, SomeoneReplaces, SomeoneWants, Ensuring
<1> QED BY <1>1, Invariance, PTL
=============================================================================
