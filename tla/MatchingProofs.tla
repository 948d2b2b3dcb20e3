--------------------------- MODULE MatchingProofs ---------------------------
(***************************************************************************)
(* Proofs about Matching: what the requests of a process are given, that   *)
(* the match of the nodes is complete and what the pods are created with;  *)
(* for any pool of requests, cluster definition, locks of the others and   *)
(* changes of the nodes.                                                   *)
(*                                                                         *)
(* Most of it is about sequences: the inputs of a pool are matched as one  *)
(* sequence and divided by the names of the requests, so that what is      *)
(* given stays in the order of what is asked for.  A filter of a sequence  *)
(* is a flattening (Those), and induction over sequences is induction for  *)
(* a set that holds the empty one and with each its continuations.         *)
(***************************************************************************)
EXTENDS Matching, FiniteSetTheorems, SequenceTheorems, WellFoundedInduction, TLAPS

-----------------------------------------------------------------------------
(* Sequences.                                                              *)

\* The order that induction over the naturals goes down.
Below == {ss \in Nat \X Nat : ss[1] < ss[2]}

\* Induction over the naturals for a set.
LEMMA Induct == ASSUME NEW S, 0 \in S, \A n \in Nat : n \in S => n + 1 \in S PROVE Nat \subseteq S
<1> DEFINE left == Nat \ S
<1> SUFFICES ASSUME left # {} PROVE FALSE
  OBVIOUS
<1>1. left \subseteq Nat
  OBVIOUS
<1>2. IsWellFoundedOn(Below, Nat)
  BY NatLessThanWellFounded DEF OpToRel, Below
<1> HIDE DEF left
<1>3. PICK x \in left : \A y \in left : ~(<<y, x>> \in Below)
  BY <1>1, <1>2, WFMin
<1>4. \A y \in left : ~(y < x)
  BY <1>3, <1>1 DEF Below
<1>5. x # 0 /\ x - 1 \in Nat /\ x - 1 \notin left
  BY <1>4, <1>1 DEF left
<1> QED
  BY <1>5 DEF left

\* A sequence that is not empty is one that was appended to.
LEMMA LastAppended ==
  ASSUME NEW R, NEW s \in Seq(R), NEW n \in Nat, Len(s) = n + 1
  PROVE  \E t \in Seq(R), e \in R : s = Append(t, e) /\ Len(t) = n
<1> DEFINE t == SubSeq(s, 1, n)
           e == s[n + 1]
<1>1. DOMAIN s = 1..(n+1) /\ e \in R
  BY LenProperties, ElementOfSeq
<1>2. t \in Seq(R) /\ Len(t) = n /\ \A i \in 1..n : t[i] = s[i]
  BY <1>1, SubSeqProperties
<1>3. Append(t, e) \in Seq(R) /\ Len(Append(t, e)) = n + 1
      /\ \A i \in 1..(n+1) : Append(t, e)[i] = s[i]
  <2> HIDE DEF t
  <2>1. /\ Append(t, e) \in Seq(R) /\ Len(Append(t, e)) = Len(t) + 1
        /\ \A i \in 1..Len(t) : Append(t, e)[i] = t[i]
        /\ Append(t, e)[Len(t)+1] = e
    BY <1>1, <1>2, AppendProperties
  <2> QED BY <1>2, <2>1
<1>4. s = Append(t, e)
  <2> HIDE DEF t, e
  <2> QED BY <1>3, <1>1, SeqEqual
<1> QED BY <1>1, <1>2, <1>4

\* Induction over the sequences for a set.
LEMMA InductOverSeqs ==
  ASSUME NEW R, NEW P, <<>> \in P, \A s \in Seq(R), e \in R : s \in P => Append(s, e) \in P
  PROVE  Seq(R) \subseteq P
<1> DEFINE S == {n \in Nat : \A s \in Seq(R) : Len(s) = n => s \in P}
<1>1. 0 \in S
  BY EmptySeq, LenProperties
<1>2. ASSUME NEW n \in Nat, n \in S PROVE n + 1 \in S
  <2> SUFFICES ASSUME NEW s \in Seq(R), Len(s) = n + 1 PROVE s \in P
    OBVIOUS
  <2>1. PICK t \in Seq(R), e \in R : s = Append(t, e) /\ Len(t) = n
    BY LastAppended
  <2> QED BY <2>1, <1>2
<1>3. Nat \subseteq S
  <2> HIDE DEF S
  <2> QED BY <1>1, <1>2, Induct
<1> QED BY <1>3, LenProperties

\* FlattenSeq of the community modules, as far as element i.
IsJoining(g, ss) == g = [i \in 1..Len(ss) |-> IF i = 1 THEN ss[i] ELSE g[i-1] \o ss[i]]

\* There is such a function, so that FlattenSeq is what its last value is.
LEMMA Flatten ==
  ASSUME NEW ss, Len(ss) \in Nat, Len(ss) # 0
  PROVE  \E g : IsJoining(g, ss) /\ FlattenSeq(ss) = g[Len(ss)]
<1> DEFINE Upto(n, g) == g = [i \in 1..n |-> IF i = 1 THEN ss[i] ELSE g[i-1] \o ss[i]]
           S == {n \in Nat : \E g : Upto(n, g)}
<1>1. 0 \in S
  <2> DEFINE g0 == [i \in 1..0 |-> FALSE]
  <2>1. Upto(0, g0)
    OBVIOUS
  <2> QED BY <2>1
<1>2. ASSUME NEW n \in Nat, n \in S PROVE n + 1 \in S
  <2>1. PICK g : Upto(n, g)
    BY <1>2
  <2> DEFINE h == [i \in 1..(n+1) |-> IF i = n+1 THEN (IF i = 1 THEN ss[i] ELSE g[i-1] \o ss[i]) ELSE g[i]]
  <2>2. \A i \in 1..n : h[i] = g[i]
    OBVIOUS
  <2>3. ASSUME NEW i \in 1..(n+1) PROVE h[i] = IF i = 1 THEN ss[i] ELSE h[i-1] \o ss[i]
    <3>1. CASE i = n+1
      BY <3>1, <2>2
    <3>2. CASE i \in 1..n
      <4>1. h[i] = g[i] /\ (i # 1 => h[i-1] = g[i-1])
        BY <3>2, <2>2
      <4> HIDE DEF h
      <4> QED BY <4>1, <2>1, <3>2
    <3> QED BY <3>1, <3>2
  <2>4. Upto(n+1, h)
    BY <2>3
  <2>5. \E k : Upto(n+1, k)
    <3> HIDE DEF h
    <3> WITNESS h
    <3> QED BY <2>4
  <2>6. n + 1 \in Nat
    OBVIOUS
  <2> QED BY <2>5, <2>6, Zenon
<1>3. Len(ss) \in S
  <2> HIDE DEF S
  <2> QED BY <1>1, <1>2, Induct
<1>4. \E g : IsJoining(g, ss)
  BY <1>3 DEF IsJoining
<1>5. FlattenSeq(ss) = (CHOOSE g : IsJoining(g, ss))[Len(ss)]
  BY DEF FlattenSeq, IsJoining
<1> QED BY <1>4, <1>5

\* Flattening goes on with what is appended.
LEMMA FlattenOfAppended ==
  ASSUME NEW R
  PROVE  /\ FlattenSeq(<<>>) = <<>>
         /\ \A ss \in Seq(Seq(R)), x \in Seq(R) : FlattenSeq(Append(ss, x)) = FlattenSeq(ss) \o x
         /\ \A ss \in Seq(Seq(R)) : FlattenSeq(ss) \in Seq(R)
<1>1. FlattenSeq(<<>>) = <<>>
  BY DEF FlattenSeq
<1>2. ASSUME NEW ss \in Seq(Seq(R)), NEW x \in Seq(R)
      PROVE  FlattenSeq(Append(ss, x)) = FlattenSeq(ss) \o x
  <2> DEFINE Q == Seq(R)
             n == Len(ss)
             tt == Append(ss, x)
  <2>1. n \in Nat /\ DOMAIN ss = 1..n /\ \A i \in 1..n : ss[i] \in Seq(R)
    BY LenProperties, ElementOfSeq
  <2>2. Len(tt) = n + 1 /\ tt[n+1] = x /\ \A i \in 1..n : tt[i] = ss[i]
    <3>1. ss \in Seq(Q) /\ x \in Q
      BY DEF Q
    <3> HIDE DEF Q
    <3> QED BY <3>1, AppendProperties
  <2>3. ss = <<>> <=> n = 0
    BY EmptySeq
  <2> HIDE DEF n, tt
  <2>4. PICK h : IsJoining(h, tt) /\ FlattenSeq(tt) = h[Len(tt)]
    BY <2>1, <2>2, Flatten
  <2>5. \A i \in 1..(n+1) : h[i] = IF i = 1 THEN tt[i] ELSE h[i-1] \o tt[i]
    BY <2>2, <2>4 DEF IsJoining
  <2>6. CASE n = 0
    <3>1. FlattenSeq(ss) = <<>> /\ <<>> \o x = x
      BY <2>3, <2>6, <1>1, ConcatEmptySeq
    <3>2. FlattenSeq(tt) = x
      BY <2>2, <2>4, <2>5, <2>6
    <3> QED BY <3>1, <3>2 DEF tt
  <2>7. CASE n # 0
    <3>1. PICK g : IsJoining(g, ss) /\ FlattenSeq(ss) = g[n]
      BY <2>1, <2>7, Flatten DEF n
    <3>2. \A i \in 1..n : g[i] = IF i = 1 THEN ss[i] ELSE g[i-1] \o ss[i]
      BY <3>1 DEF IsJoining, n
    <3> DEFINE S == {i \in Nat : i \in 1..n => h[i] = g[i]}
    <3>3. 0 \in S
      OBVIOUS
    <3>4. ASSUME NEW k \in Nat, k \in S PROVE k + 1 \in S
      <4> SUFFICES ASSUME k + 1 \in 1..n PROVE h[k+1] = g[k+1]
        BY DEF S
      <4>1. k + 1 \in 1..(n+1) /\ tt[k+1] = ss[k+1] /\ (k + 1) - 1 = k
        BY <2>1, <2>2
      <4>2. CASE k = 0
        BY <4>1, <4>2, <2>5, <3>2
      <4>3. CASE k # 0
        <5>1. k \in 1..n /\ k + 1 # 1
          BY <4>3, <2>1
        <5>2. h[k] = g[k]
          BY <5>1, <3>4
        <5>3. g[k+1] = g[k] \o ss[k+1] /\ h[k+1] = h[k] \o tt[k+1]
          BY <5>1, <4>1, <3>2, <2>5
        <5> QED BY <5>2, <5>3, <4>1
      <4> QED BY <4>2, <4>3
    <3>5. Nat \subseteq S
      <4> HIDE DEF S
      <4> QED BY <3>3, <3>4, Induct
    <3>6. h[n] = g[n]
      <4>1. n \in 1..n
        BY <2>1, <2>7
      <4> QED BY <3>5, <4>1
    <3>7. h[n + 1] = h[n] \o tt[n + 1]
      <4>1. n + 1 \in 1..(n+1) /\ n + 1 # 1 /\ (n + 1) - 1 = n
        BY <2>1, <2>7
      <4> QED BY <4>1, <2>5
    <3> QED BY <3>1, <3>6, <3>7, <2>2, <2>4 DEF tt
  <2> QED BY <2>6, <2>7
<1>3. \A ss \in Seq(Seq(R)) : FlattenSeq(ss) \in Seq(R)
  <2> DEFINE Q == Seq(R)
             P == {ss \in Seq(Q) : FlattenSeq(ss) \in Q}
  <2>1. <<>> \in P
    BY <1>1, EmptySeq
  <2>2. ASSUME NEW ss \in Seq(Q), NEW x \in Q, ss \in P PROVE Append(ss, x) \in P
    <3>1. Append(ss, x) \in Seq(Q)
      <4> HIDE DEF Q, P
      <4> QED BY AppendProperties
    <3>2. FlattenSeq(ss) \in Seq(R) /\ x \in Seq(R) /\ FlattenSeq(Append(ss, x)) = FlattenSeq(ss) \o x
      BY <1>2, <2>2
    <3>3. FlattenSeq(ss) \o x \in Seq(R)
      BY <3>2, ConcatProperties
    <3> QED BY <3>1, <3>2, <3>3
  <2>3. Seq(Q) \subseteq P
    <3> HIDE DEF Q, P
    <3> QED BY <2>1, <2>2, InductOverSeqs
  <2> QED BY <2>3
<1> QED BY <1>1, <1>2, <1>3

-----------------------------------------------------------------------------
(* What a test lets through.                                               *)

\* The elements of a sequence that are in a set: what Those gives for any test.
Filter(s, A) == FlattenSeq([i \in DOMAIN s |-> IF s[i] \in A THEN <<s[i]>> ELSE <<>>])

\* A function on 1..n is a sequence.
LEMMA AsSeq ==
  ASSUME NEW S, NEW n \in Nat, NEW f \in [1..n -> S]
  PROVE  f \in Seq(S) /\ Len(f) = n
OBVIOUS

\* The blocks of a sequence, and of one that is appended to.
LEMMA BlocksOfAppended ==
  ASSUME NEW R, NEW Q, NEW b \in [R -> Q]
  PROVE  \A s \in Seq(R), e \in R :
            /\ [i \in DOMAIN s |-> b[s[i]]] \in Seq(Q)
            /\ [i \in DOMAIN Append(s, e) |-> b[Append(s, e)[i]]] = Append([i \in DOMAIN s |-> b[s[i]]], b[e])
<1> SUFFICES ASSUME NEW s \in Seq(R), NEW e \in R
             PROVE  /\ [i \in DOMAIN s |-> b[s[i]]] \in Seq(Q)
                    /\ [i \in DOMAIN Append(s, e) |-> b[Append(s, e)[i]]]
                          = Append([i \in DOMAIN s |-> b[s[i]]], b[e])
  OBVIOUS
<1> DEFINE n == Len(s)
           t == Append(s, e)
           f == [i \in DOMAIN s |-> b[s[i]]]
           g == [i \in DOMAIN t |-> b[t[i]]]
<1>1. n \in Nat /\ DOMAIN s = 1..n /\ \A i \in 1..n : s[i] \in R
  BY LenProperties, ElementOfSeq
<1>2. t \in Seq(R) /\ Len(t) = n + 1 /\ t[n+1] = e /\ (\A i \in 1..n : t[i] = s[i]) /\ DOMAIN t = 1..(n+1)
  <2>1. t \in Seq(R) /\ Len(t) = n + 1 /\ t[n+1] = e /\ \A i \in 1..n : t[i] = s[i]
    BY AppendProperties
  <2> QED BY <2>1, LenProperties
<1> HIDE DEF n, t
<1>3. f \in [1..n -> Q] /\ \A i \in 1..n : f[i] = b[s[i]]
  BY <1>1
<1>4. g \in [1..(n+1) -> Q] /\ \A i \in 1..(n+1) : g[i] = b[t[i]]
  <2>1. \A i \in 1..(n+1) : t[i] \in R
    BY <1>2, ElementOfSeq
  <2> QED BY <1>2, <2>1
<1> HIDE DEF f, g
<1>5. f \in Seq(Q) /\ Len(f) = n /\ g \in Seq(Q) /\ Len(g) = n + 1
  BY <1>1, <1>3, <1>4, AsSeq
<1>6. b[e] \in Q
  OBVIOUS
<1>7. /\ Append(f, b[e]) \in Seq(Q) /\ Len(Append(f, b[e])) = n + 1
      /\ Append(f, b[e])[n+1] = b[e] /\ \A i \in 1..n : Append(f, b[e])[i] = f[i]
  BY <1>5, <1>6, AppendProperties
<1>8. \A i \in 1..(n+1) : g[i] = Append(f, b[e])[i]
  <2> TAKE i \in 1..(n+1)
  <2>1. CASE i = n + 1
    BY <2>1, <1>7, <1>4, <1>2
  <2>2. CASE i \in 1..n
    BY <2>2, <1>7, <1>3, <1>4, <1>2
  <2>3. i = n + 1 \/ i \in 1..n
    BY <1>1
  <2> QED BY <2>1, <2>2, <2>3
<1>9. g = Append(f, b[e])
  BY <1>5, <1>7, <1>8, SeqEqual
<1> QED BY <1>5, <1>9 DEF f, g, t

\* Filtering goes on with what is appended, and keeps elements only.
LEMMA FilterOfAppended ==
  ASSUME NEW R, NEW A
  PROVE  /\ Filter(<<>>, A) = <<>>
         /\ \A s \in Seq(R), e \in R :
               Filter(Append(s, e), A) = IF e \in A THEN Append(Filter(s, A), e) ELSE Filter(s, A)
         /\ \A s \in Seq(R) : Filter(s, A) \in Seq(R \cap A)
<1> DEFINE K == R \cap A
           Q == Seq(K)
           b == [e \in R |-> IF e \in A THEN <<e>> ELSE <<>>]
           Of(s) == [i \in DOMAIN s |-> b[s[i]]]
<1>1. b \in [R -> Q]
  <2>1. \A e \in K : <<e>> \in Seq(K)
    OBVIOUS
  <2>2. <<>> \in Seq(K)
    BY EmptySeq
  <2> QED BY <2>1, <2>2
<1>2. ASSUME NEW s \in Seq(R) PROVE Filter(s, A) = FlattenSeq(Of(s))
  <2>1. \A i \in DOMAIN s : s[i] \in R
    BY ElementOfSeq
  <2>2. \A i \in DOMAIN s : b[s[i]] = IF s[i] \in A THEN <<s[i]>> ELSE <<>>
    BY <2>1
  <2> HIDE DEF b
  <2> QED BY <2>2 DEF Filter
<1>3. Filter(<<>>, A) = <<>>
  <2>1. [i \in DOMAIN <<>> |-> IF (<<>>)[i] \in A THEN <<(<<>>)[i]>> ELSE <<>>] = <<>>
    OBVIOUS
  <2> QED BY <2>1, FlattenOfAppended DEF Filter
<1>4. ASSUME NEW s \in Seq(R), NEW e \in R
      PROVE  /\ Filter(s, A) \in Q
             /\ Filter(Append(s, e), A) = Filter(s, A) \o b[e]
  <2>1. Of(s) \in Seq(Q) /\ Of(Append(s, e)) = Append(Of(s), b[e])
    <3> HIDE DEF b, Q
    <3> QED BY <1>1, BlocksOfAppended
  <2>2. Append(s, e) \in Seq(R)
    BY AppendProperties
  <2>3. Filter(s, A) = FlattenSeq(Of(s)) /\ Filter(Append(s, e), A) = FlattenSeq(Of(Append(s, e)))
    BY <2>2, <1>2
  <2>4. b[e] \in Q
    BY <1>1
  <2> DEFINE ss == Of(s)
             x == b[e]
  <2>5. FlattenSeq(ss) \in Seq(K) /\ FlattenSeq(Append(ss, x)) = FlattenSeq(ss) \o x
    <3>1. ss \in Seq(Seq(K)) /\ x \in Seq(K)
      BY <2>1, <2>4
    <3> HIDE DEF ss, x, K
    <3> QED BY <3>1, FlattenOfAppended
  <2> QED BY <2>1, <2>3, <2>5
<1>5. ASSUME NEW s \in Seq(R), NEW e \in R
      PROVE  Filter(Append(s, e), A) = IF e \in A THEN Append(Filter(s, A), e) ELSE Filter(s, A)
  <2> DEFINE f == Filter(s, A)
  <2>1. f \in Seq(R) /\ Filter(Append(s, e), A) = f \o b[e]
    <3>1. f \in Seq(K) /\ Filter(Append(s, e), A) = f \o b[e]
      BY <1>4
    <3> HIDE DEF f, b
    <3> QED BY <3>1
  <2> HIDE DEF f
  <2>2. f \o <<>> = f /\ f \o <<e>> = Append(f, e)
    BY <2>1, ConcatEmptySeq, AppendIsConcat
  <2> QED BY <2>1, <2>2 DEF f
<1>6. ASSUME NEW s \in Seq(R) PROVE Filter(s, A) \in Q
  <2>1. CASE R = {}
    <3>1. s = <<>>
      BY <2>1, EmptySeq, LenProperties, ElementOfSeq
    <3> QED BY <3>1, <1>3, EmptySeq
  <2>2. CASE R # {}
    <3> HIDE DEF Q, b
    <3> QED BY <2>2, <1>4
  <2> QED BY <2>1, <2>2
<1> QED BY <1>3, <1>5, <1>6

\* Filtering goes over two sequences one after the other.
LEMMA FilterOfJoined ==
  ASSUME NEW R, NEW A
  PROVE  \A s \in Seq(R), t \in Seq(R) : Filter(s \o t, A) = Filter(s, A) \o Filter(t, A)
<1> SUFFICES ASSUME NEW s \in Seq(R)
             PROVE  \A t \in Seq(R) : Filter(s \o t, A) = Filter(s, A) \o Filter(t, A)
  OBVIOUS
<1> DEFINE P == {t \in Seq(R) : Filter(s \o t, A) = Filter(s, A) \o Filter(t, A)}
<1>1. /\ Filter(<<>>, A) = <<>>
      /\ \A u \in Seq(R), e \in R :
            Filter(Append(u, e), A) = IF e \in A THEN Append(Filter(u, A), e) ELSE Filter(u, A)
      /\ \A u \in Seq(R) : Filter(u, A) \in Seq(R)
  <2>1. \A u : u \in Seq(R \cap A) => u \in Seq(R)
    OBVIOUS
  <2> QED BY <2>1, FilterOfAppended
<1>2. <<>> \in P
  <2>1. s \o <<>> = s /\ Filter(s, A) \o <<>> = Filter(s, A) /\ <<>> \in Seq(R)
    BY <1>1, ConcatEmptySeq, EmptySeq
  <2> QED BY <2>1, <1>1
<1>3. ASSUME NEW t \in Seq(R), NEW e \in R, t \in P PROVE Append(t, e) \in P
  <2>1. Append(t, e) \in Seq(R) /\ s \o t \in Seq(R)
    BY AppendProperties, ConcatProperties
  <2>2. \A u \in Seq(R), v \in Seq(R) : u \o Append(v, e) = Append(u \o v, e)
    OBVIOUS
  <2>3. Filter(s \o Append(t, e), A) = IF e \in A THEN Append(Filter(s \o t, A), e) ELSE Filter(s \o t, A)
    BY <2>1, <2>2, <1>1
  <2>4. Filter(Append(t, e), A) = IF e \in A THEN Append(Filter(t, A), e) ELSE Filter(t, A)
    BY <1>1
  <2>5. Filter(s, A) \in Seq(R) /\ Filter(t, A) \in Seq(R) /\ Filter(s \o t, A) = Filter(s, A) \o Filter(t, A)
    BY <1>1, <1>3
  <2>6. Filter(s \o Append(t, e), A) = Filter(s, A) \o Filter(Append(t, e), A)
    BY <2>2, <2>3, <2>4, <2>5
  <2> QED BY <2>1, <2>6
<1>4. Seq(R) \subseteq P
  <2> HIDE DEF P
  <2> QED BY <1>2, <1>3, InductOverSeqs
<1> QED BY <1>4

\* What holds of none is filtered away, what holds of all is kept.
LEMMA FilterOfAllOrNone ==
  ASSUME NEW R, NEW A
  PROVE  \A s \in Seq(R) : /\ (\A i \in DOMAIN s : s[i] \notin A) => Filter(s, A) = <<>>
                           /\ (\A i \in DOMAIN s : s[i] \in A) => Filter(s, A) = s
<1> DEFINE None(s) == \A i \in DOMAIN s : s[i] \notin A
           All(s) == \A i \in DOMAIN s : s[i] \in A
           P == {s \in Seq(R) : (None(s) => Filter(s, A) = <<>>) /\ (All(s) => Filter(s, A) = s)}
<1>0. /\ Filter(<<>>, A) = <<>>
      /\ \A s \in Seq(R), e \in R :
            Filter(Append(s, e), A) = IF e \in A THEN Append(Filter(s, A), e) ELSE Filter(s, A)
  BY FilterOfAppended
<1>1. <<>> \in P
  BY <1>0, EmptySeq
<1>2. ASSUME NEW s \in Seq(R), NEW e \in R, s \in P PROVE Append(s, e) \in P
  <2>1. /\ Append(s, e) \in Seq(R) /\ DOMAIN s = 1..Len(s) /\ DOMAIN Append(s, e) = 1..(Len(s) + 1)
        /\ Len(s) \in Nat
        /\ Append(s, e)[Len(s) + 1] = e /\ \A i \in 1..Len(s) : Append(s, e)[i] = s[i]
    BY AppendProperties, LenProperties
  <2>2. Filter(Append(s, e), A) = IF e \in A THEN Append(Filter(s, A), e) ELSE Filter(s, A)
    BY <1>0
  <2>3. \A i \in DOMAIN s : i \in DOMAIN Append(s, e) /\ Append(s, e)[i] = s[i]
    BY <2>1
  <2>4. Len(s) + 1 \in DOMAIN Append(s, e)
    BY <2>1
  <2>5. None(Append(s, e)) => e \notin A /\ None(s)
    BY <2>1, <2>3, <2>4
  <2>6. All(Append(s, e)) => e \in A /\ All(s)
    BY <2>1, <2>3, <2>4
  <2>7. (None(s) => Filter(s, A) = <<>>) /\ (All(s) => Filter(s, A) = s)
    BY <1>2
  <2> HIDE DEF None, All
  <2> QED BY <2>1, <2>2, <2>5, <2>6, <2>7
<1>3. Seq(R) \subseteq P
  <2> HIDE DEF P
  <2> QED BY <1>1, <1>2, InductOverSeqs
<1> HIDE DEF None, All
<1>4. \A s \in Seq(R) : (None(s) => Filter(s, A) = <<>>) /\ (All(s) => Filter(s, A) = s)
  BY <1>3
<1> QED BY <1>4 DEF None, All

\* Where the elements that are let through come from.
LEMMA FilterPicks ==
  ASSUME NEW R, NEW A, NEW s \in Seq(R)
  PROVE  \E m \in [DOMAIN Filter(s, A) -> DOMAIN s] :
            /\ \A k, l \in DOMAIN Filter(s, A) : k # l => m[k] # m[l]
            /\ \A k \in DOMAIN Filter(s, A) : Filter(s, A)[k] = s[m[k]] /\ s[m[k]] \in A
<1> DEFINE Picks(m, t) == /\ m \in [DOMAIN Filter(t, A) -> DOMAIN t]
                          /\ \A k, l \in DOMAIN Filter(t, A) : k # l => m[k] # m[l]
                          /\ \A k \in DOMAIN Filter(t, A) : Filter(t, A)[k] = t[m[k]] /\ t[m[k]] \in A
           P == {t \in Seq(R) : \E m : Picks(m, t)}
<1>0. /\ Filter(<<>>, A) = <<>>
      /\ \A t \in Seq(R), e \in R :
            Filter(Append(t, e), A) = IF e \in A THEN Append(Filter(t, A), e) ELSE Filter(t, A)
      /\ \A t \in Seq(R) : Filter(t, A) \in Seq(R)
  <2>1. \A u : u \in Seq(R \cap A) => u \in Seq(R)
    OBVIOUS
  <2> QED BY <2>1, FilterOfAppended
<1>1. <<>> \in P
  <2> DEFINE m == [k \in {} |-> k]
  <2>1. Picks(m, <<>>)
    BY <1>0
  <2>2. \E k : Picks(k, <<>>)
    <3> HIDE DEF m, Picks
    <3> QED BY <2>1
  <2> HIDE DEF Picks
  <2> QED BY <2>2, EmptySeq
<1>2. ASSUME NEW t \in Seq(R), NEW e \in R, t \in P PROVE Append(t, e) \in P
  <2> DEFINE u == Append(t, e)
             f == Filter(t, A)
             g == Filter(u, A)
  <2>1. /\ u \in Seq(R) /\ DOMAIN t = 1..Len(t) /\ DOMAIN u = 1..(Len(t) + 1) /\ Len(t) \in Nat
        /\ u[Len(t) + 1] = e /\ \A i \in 1..Len(t) : u[i] = t[i]
    BY AppendProperties, LenProperties
  <2>2. g = (IF e \in A THEN Append(f, e) ELSE f) /\ f \in Seq(R)
    BY <1>0
  <2>3. PICK m : Picks(m, t)
    BY <1>2
  <2>4. /\ m \in [DOMAIN f -> DOMAIN t] /\ \A k, l \in DOMAIN f : k # l => m[k] # m[l]
        /\ \A k \in DOMAIN f : f[k] = t[m[k]] /\ t[m[k]] \in A
    BY <2>3
  <2> DEFINE Good(n) == /\ n \in [DOMAIN g -> DOMAIN u]
                        /\ \A k, l \in DOMAIN g : k # l => n[k] # n[l]
                        /\ \A k \in DOMAIN g : g[k] = u[n[k]] /\ u[n[k]] \in A
  <2>7. \E n : Good(n)
    <3> HIDE DEF u, f, g
    <3>5. CASE e \notin A
      <4>1. g = f /\ \A i \in DOMAIN t : i \in DOMAIN u /\ u[i] = t[i]
        BY <3>5, <2>1, <2>2
      <4> WITNESS m
      <4> QED BY <4>1, <2>4
    <3>6. CASE e \in A
      <4> DEFINE n == [k \in DOMAIN g |-> IF k \in DOMAIN f THEN m[k] ELSE Len(t) + 1]
      <4>1. g = Append(f, e)
        BY <3>6, <2>2
      <4>2. /\ DOMAIN f = 1..Len(f) /\ Len(f) \in Nat /\ DOMAIN g = 1..(Len(f) + 1)
            /\ g[Len(f) + 1] = e /\ \A i \in 1..Len(f) : g[i] = f[i]
        <5>0. f \in Seq(R)
          BY <2>2
        <5>1. /\ g \in Seq(R) /\ Len(g) = Len(f) + 1 /\ g[Len(f) + 1] = e /\ \A i \in 1..Len(f) : g[i] = f[i]
          BY ONLY <4>1, <5>0, AppendProperties, e \in R
        <5> QED BY <5>1, <2>2, LenProperties
      <4>3. /\ \A k \in DOMAIN f : n[k] = m[k] /\ m[k] \in 1..Len(t)
            /\ Len(f) + 1 \notin DOMAIN f /\ n[Len(f) + 1] = Len(t) + 1
            /\ \A k \in DOMAIN g : k \in DOMAIN f \/ k = Len(f) + 1
        BY <4>2, <2>1, <2>4
      <4>4. DOMAIN n = DOMAIN g
        OBVIOUS
      <4>n. n = [k \in DOMAIN g |-> n[k]]
        OBVIOUS
      <4> HIDE DEF n
      <4>5. n \in [DOMAIN g -> DOMAIN u]
        <5>1. \A k \in DOMAIN g : n[k] \in DOMAIN u
          BY <4>3, <2>1
        <5> QED BY <5>1, <4>4, <4>n
      <4>6. \A k, l \in DOMAIN g : k # l => n[k] # n[l]
        <5>1. Len(t) + 1 \notin 1..Len(t)
          BY <2>1
        <5> QED BY <5>1, <4>3, <2>4
      <4>7. \A k \in DOMAIN g : g[k] = u[n[k]] /\ u[n[k]] \in A
        <5> TAKE k \in DOMAIN g
        <5>1. CASE k \in DOMAIN f
          <6>1. g[k] = f[k] /\ n[k] = m[k] /\ u[m[k]] = t[m[k]]
            BY <5>1, <4>2, <4>3, <2>1
          <6> QED BY <6>1, <5>1, <2>4
        <5>2. CASE k = Len(f) + 1
          BY <5>2, <4>2, <4>3, <2>1, <3>6
        <5> QED BY <5>1, <5>2, <4>3
      <4> WITNESS n
      <4> QED BY <4>5, <4>6, <4>7
    <3> QED BY <3>5, <3>6
  <2>8. PICK n : Good(n)
    BY <2>7
  <2>9. Picks(n, u)
    BY <2>8
  <2> QED BY <2>1, <2>9
<1>3. Seq(R) \subseteq P
  <2> HIDE DEF P
  <2> QED BY <1>1, <1>2, InductOverSeqs
<1>4. \E m : Picks(m, s)
  BY <1>3
<1> QED BY <1>4

\* Two sequences are paired by a relation.
Paired(s, t, Rel) == Len(s) = Len(t) /\ \A i \in 1..Len(s) : <<s[i], t[i]>> \in Rel

\* Sequences are paired as long as what is appended is.
LEMMA PairedAppended ==
  ASSUME NEW R, NEW Q, NEW Rel, NEW s \in Seq(R), NEW t \in Seq(Q), NEW e \in R, NEW f \in Q
  PROVE  Paired(Append(s, e), Append(t, f), Rel) <=> Paired(s, t, Rel) /\ <<e, f>> \in Rel
<1> DEFINE u == Append(s, e)
           v == Append(t, f)
<1>1. /\ Len(u) = Len(s) + 1 /\ u[Len(s) + 1] = e /\ \A i \in 1..Len(s) : u[i] = s[i]
      /\ Len(v) = Len(t) + 1 /\ v[Len(t) + 1] = f /\ \A i \in 1..Len(t) : v[i] = t[i]
  BY AppendProperties
<1>2. Len(s) \in Nat /\ Len(t) \in Nat
  BY LenProperties
<1> HIDE DEF u, v
<1>3. ASSUME Paired(u, v, Rel) PROVE Paired(s, t, Rel) /\ <<e, f>> \in Rel
  <2>1. Len(s) = Len(t) /\ \A i \in 1..(Len(s) + 1) : <<u[i], v[i]>> \in Rel
    BY <1>1, <1>2, <1>3 DEF Paired
  <2>2. Len(s) + 1 \in 1..(Len(s) + 1) /\ \A i \in 1..Len(s) : i \in 1..(Len(s) + 1)
    BY <1>2
  <2> QED BY <2>1, <2>2, <1>1 DEF Paired
<1>4. ASSUME Paired(s, t, Rel), <<e, f>> \in Rel PROVE Paired(u, v, Rel)
  <2>1. \A i \in 1..(Len(s) + 1) : i = Len(s) + 1 \/ i \in 1..Len(s)
    BY <1>2
  <2> QED BY <2>1, <1>1, <1>4 DEF Paired
<1> QED BY <1>3, <1>4 DEF u, v

\* What is paired stays so when both are filtered alike.
LEMMA PairedFiltered ==
  ASSUME NEW R, NEW Q, NEW Rel, NEW A, NEW B, \A x \in R, y \in Q : <<x, y>> \in Rel => (x \in A <=> y \in B)
  PROVE  \A s \in Seq(R), t \in Seq(Q) : Paired(s, t, Rel) => Paired(Filter(s, A), Filter(t, B), Rel)
<1> DEFINE P == {s \in Seq(R) : \A t \in Seq(Q) : Paired(s, t, Rel) => Paired(Filter(s, A), Filter(t, B), Rel)}
<1>0. /\ Filter(<<>>, A) = <<>> /\ Filter(<<>>, B) = <<>>
      /\ \A t \in Seq(R), e \in R :
            Filter(Append(t, e), A) = IF e \in A THEN Append(Filter(t, A), e) ELSE Filter(t, A)
      /\ \A t \in Seq(R) : Filter(t, A) \in Seq(R)
      /\ \A t \in Seq(Q), e \in Q :
            Filter(Append(t, e), B) = IF e \in B THEN Append(Filter(t, B), e) ELSE Filter(t, B)
      /\ \A t \in Seq(Q) : Filter(t, B) \in Seq(Q)
  <2>1. \A u : u \in Seq(R \cap A) => u \in Seq(R)
    OBVIOUS
  <2>4. \A u : u \in Seq(Q \cap B) => u \in Seq(Q)
    OBVIOUS
  <2>2. /\ Filter(<<>>, A) = <<>>
        /\ \A t \in Seq(R), e \in R :
            Filter(Append(t, e), A) = IF e \in A THEN Append(Filter(t, A), e) ELSE Filter(t, A)
        /\ \A t \in Seq(R) : Filter(t, A) \in Seq(R \cap A)
    BY FilterOfAppended
  <2>3. /\ Filter(<<>>, B) = <<>>
        /\ \A t \in Seq(Q), e \in Q :
            Filter(Append(t, e), B) = IF e \in B THEN Append(Filter(t, B), e) ELSE Filter(t, B)
        /\ \A t \in Seq(Q) : Filter(t, B) \in Seq(Q \cap B)
    BY FilterOfAppended
  <2> QED BY <2>1, <2>2, <2>3, <2>4
<1>1. <<>> \in P
  <2>1. <<>> \in Seq(R) /\ Len(<<>>) = 0
    BY EmptySeq
  <2>2. ASSUME NEW t \in Seq(Q), Paired(<<>>, t, Rel) PROVE Paired(<<>>, Filter(t, B), Rel)
    <3>1. t = <<>>
      BY <2>1, <2>2, EmptySeq DEF Paired
    <3> QED BY <3>1, <1>0, <2>2
  <2> QED BY <2>1, <2>2, <1>0
<1>2. ASSUME NEW s \in Seq(R), NEW e \in R, s \in P PROVE Append(s, e) \in P
  <2>1. Append(s, e) \in Seq(R) /\ Len(Append(s, e)) = Len(s) + 1 /\ Len(s) \in Nat
    BY AppendProperties, LenProperties
  <2>2. ASSUME NEW t \in Seq(Q), Paired(Append(s, e), t, Rel)
        PROVE  Paired(Filter(Append(s, e), A), Filter(t, B), Rel)
    <3>1. Len(t) = Len(s) + 1
      BY <2>1, <2>2 DEF Paired
    <3>2. PICK v \in Seq(Q), f \in Q : t = Append(v, f) /\ Len(v) = Len(s)
      <4> HIDE DEF P
      <4> QED BY <3>1, <2>1, LastAppended
    <3>3. Paired(s, v, Rel) /\ <<e, f>> \in Rel
      <4> HIDE DEF P
      <4> QED BY <2>2, <3>2, PairedAppended
    <3>4. Paired(Filter(s, A), Filter(v, B), Rel)
      BY <3>3, <1>2
    <3>5. Filter(s, A) \in Seq(R) /\ Filter(v, B) \in Seq(Q)
      BY <1>0
    <3>6. e \in A <=> f \in B
      BY <3>3
    <3>7. CASE e \in A
      <4>1. Paired(Append(Filter(s, A), e), Append(Filter(v, B), f), Rel)
        <5> HIDE DEF P
        <5> QED BY <3>3, <3>4, <3>5, PairedAppended
      <4>2. Filter(Append(s, e), A) = Append(Filter(s, A), e) /\ Filter(t, B) = Append(Filter(v, B), f)
        BY <3>2, <3>6, <3>7, <1>0
      <4> QED BY <4>1, <4>2
    <3>8. CASE e \notin A
      <4>2. Filter(Append(s, e), A) = Filter(s, A) /\ Filter(t, B) = Filter(v, B)
        BY <3>2, <3>6, <3>8, <1>0
      <4> QED BY <3>4, <4>2
    <3> QED BY <3>7, <3>8
  <2> QED BY <2>1, <2>2
<1>3. Seq(R) \subseteq P
  <2> HIDE DEF P
  <2> QED BY <1>1, <1>2, InductOverSeqs
<1> QED BY <1>3

-----------------------------------------------------------------------------
(* Requests and their inputs.                                              *)

\* What PoolsAreRequests says of one request.
Requests == [name : STRING, resources : Seq([type : STRING, models : SUBSET STRING, dummy : BOOLEAN]),
             labels : SUBSET (STRING \X STRING), shares : Seq([percentage : Nat, rounding : STRING]),
             hostNetwork : BOOLEAN, backhaul : BOOLEAN]

\* The inputs of the match.
Asked == [type : STRING, models : SUBSET STRING, capacity : {0, 1}, id : STRING,
          labels : SUBSET ((STRING \X STRING) \union {<<"member", "true">>})]

\* Those of some types, and those of a request.
Typed(types) == {x \in Asked : x.type \in types}
Named(name) == {x \in Asked : x.id = name}

\* The inputs of a request carry its name.
LEMMA InputsAreAsked ==
  \A q \in Requests : Inputs(q) \in Seq(Asked) /\ \A i \in DOMAIN Inputs(q) : Inputs(q)[i].id = q.name
<1> SUFFICES ASSUME NEW q \in Requests
             PROVE  Inputs(q) \in Seq(Asked) /\ \A i \in DOMAIN Inputs(q) : Inputs(q)[i].id = q.name
  OBVIOUS
<1> DEFINE C == [type : STRING, models : SUBSET STRING, dummy : BOOLEAN]
           n == Len(q.resources)
<1>1. q.resources \in Seq(C) /\ q.name \in STRING /\ q.labels \in SUBSET (STRING \X STRING)
  BY DEF Requests
<1>2. n \in Nat /\ DOMAIN q.resources = 1..n /\ \A i \in 1..n : q.resources[i] \in C
  <2> HIDE DEF C
  <2> QED BY <1>1, LenProperties, ElementOfSeq
<1> HIDE DEF n
<1>3. ASSUME NEW c \in C PROVE FromConfig(q, c) \in Asked /\ FromConfig(q, c).id = q.name
  <2>1. LabelsOf(q) \in SUBSET ((STRING \X STRING) \union {<<"member", "true">>})
    BY <1>1 DEF LabelsOf
  <2> QED BY <1>1, <2>1 DEF FromConfig, Asked
<1> DEFINE f == [i \in 1..n |-> FromConfig(q, q.resources[i])]
<1>4. f \in [1..n -> Asked] /\ \A i \in 1..n : f[i].id = q.name
  <2> HIDE DEF C
  <2>1. \A i \in 1..n : FromConfig(q, q.resources[i]) \in Asked /\ FromConfig(q, q.resources[i]).id = q.name
    BY <1>2, <1>3
  <2> QED BY <2>1
<1>5. Inputs(q) = f
  BY <1>2 DEF Inputs
<1> HIDE DEF f
<1>6. f \in Seq(Asked) /\ DOMAIN f = 1..n
  BY <1>2, <1>4, AsSeq
<1> QED BY <1>4, <1>5, <1>6

\* OfTypes is a filter.
LEMMA OfTypesFilters ==
  ASSUME NEW types, NEW s \in Seq(Asked)
  PROVE  OfTypes(types, s) = Filter(s, Typed(types))
<1>1. \A i \in DOMAIN s : s[i] \in Asked
  BY ElementOfSeq
<1>2. \A i \in DOMAIN s : s[i].type \in types <=> s[i] \in Typed(types)
  BY <1>1 DEF Typed
<1> QED BY <1>2 DEF OfTypes, Those, Filter

\* The inputs of a pool are one sequence, and those of a request come back out of it by its name.
LEMMA InputsOfPool ==
  ASSUME NEW p \in Seq(Requests)
  PROVE  FlattenSeq([j \in DOMAIN p |-> Inputs(p[j])]) \in Seq(Asked)
<1> DEFINE Q == Seq(Asked)
           n == Len(p)
           f == [j \in 1..n |-> Inputs(p[j])]
<1>1. n \in Nat /\ DOMAIN p = 1..n /\ \A j \in 1..n : p[j] \in Requests
  BY LenProperties, ElementOfSeq
<1> HIDE DEF n
<1>2. f \in [1..n -> Q]
  <2>1. \A j \in 1..n : Inputs(p[j]) \in Q
    BY <1>1, InputsAreAsked
  <2> HIDE DEF Q
  <2> QED BY <2>1
<1>3. f \in Seq(Q)
  <2> HIDE DEF f, Q
  <2> QED BY <1>1, <1>2, AsSeq
<1>4. f \in Seq(Seq(Asked))
  BY <1>3
<1>5. f = [j \in DOMAIN p |-> Inputs(p[j])]
  BY <1>1
<1> HIDE DEF f
<1> QED BY <1>4, <1>5, FlattenOfAppended

\* The inputs that bear a name only one request has are the inputs of that request.
LEMMA DivisionOfPool ==
  ASSUME NEW types, NEW name
  PROVE  \A p \in Seq(Requests) : \A i \in DOMAIN p :
            p[i].name = name /\ (\A j \in DOMAIN p : p[j].name = name => j = i)
            => Filter(Filter(FlattenSeq([j \in DOMAIN p |-> Inputs(p[j])]), Typed(types)), Named(name))
               = Filter(Inputs(p[i]), Typed(types))
<1> DEFINE T == Typed(types)
           N == Named(name)
           Q == Seq(Asked)
           Flat(p) == FlattenSeq([j \in DOMAIN p |-> Inputs(p[j])])
           None(p) == \A j \in DOMAIN p : p[j].name # name
           Only(p, i) == p[i].name = name /\ \A j \in DOMAIN p : p[j].name = name => j = i
           Good(p) == /\ Flat(p) \in Q
                      /\ None(p) => Filter(Filter(Flat(p), T), N) = <<>>
                      /\ \A i \in DOMAIN p : Only(p, i) => Filter(Filter(Flat(p), T), N) = Filter(Inputs(p[i]), T)
           P == {p \in Seq(Requests) : Good(p)}
<1>0. /\ Filter(<<>>, T) = <<>> /\ Filter(<<>>, N) = <<>>
      /\ \A s \in Q : Filter(s, T) \in Q /\ Filter(s, N) \in Q
  <2>1. \A A, u : u \in Seq(Asked \cap A) => u \in Q
    OBVIOUS
  <2>2. Filter(<<>>, T) = <<>> /\ \A s \in Seq(Asked) : Filter(s, T) \in Seq(Asked \cap T)
    BY FilterOfAppended
  <2>3. Filter(<<>>, N) = <<>> /\ \A s \in Seq(Asked) : Filter(s, N) \in Seq(Asked \cap N)
    BY FilterOfAppended
  <2> HIDE DEF T, N
  <2> QED BY <2>1, <2>2, <2>3
<1>1. <<>> \in P
  <2>1. [j \in DOMAIN <<>> |-> Inputs((<<>>)[j])] = <<>>
    OBVIOUS
  <2>2. Flat(<<>>) = <<>> /\ <<>> \in Q
    BY <2>1, FlattenOfAppended, EmptySeq
  <2>3. DOMAIN <<>> = {} /\ <<>> \in Seq(Requests)
    BY EmptySeq
  <2>4. Good(<<>>)
    <3> HIDE DEF T, N, Flat, Only, None, Q
    <3> QED BY <2>2, <2>3, <1>0
  <2> HIDE DEF Good
  <2> QED BY <2>3, <2>4
<1>2. ASSUME NEW p \in Seq(Requests), NEW q \in Requests, p \in P PROVE Append(p, q) \in P
  <2> DEFINE u == Append(p, q)
             n == Len(p)
  <2>1. /\ u \in Seq(Requests) /\ DOMAIN p = 1..n /\ DOMAIN u = 1..(n + 1) /\ n \in Nat
        /\ u[n + 1] = q /\ \A i \in 1..n : u[i] = p[i]
    BY AppendProperties, LenProperties
  <2>2. Good(p)
    BY <1>2
  <2>3. Inputs(q) \in Q /\ \A i \in DOMAIN Inputs(q) : Inputs(q)[i].id = q.name
    BY InputsAreAsked
  <2>4. Flat(u) = Flat(p) \o Inputs(q)
    <3> DEFINE b == [r \in Requests |-> Inputs(r)]
               Of(t) == [j \in DOMAIN t |-> b[t[j]]]
    <3>1. b \in [Requests -> Q] /\ \A r \in Requests : b[r] = Inputs(r)
      <4>1. \A r \in Requests : Inputs(r) \in Q
        BY InputsAreAsked
      <4> HIDE DEF Q
      <4> QED BY <4>1
    <3>2. b \in [Requests -> Q]
      BY <3>1
    <3> HIDE DEF b
    <3>3. Of(p) \in Seq(Q) /\ Of(u) = Append(Of(p), b[q])
      <4> HIDE DEF Q
      <4> QED BY <3>2, BlocksOfAppended
    <3>4. Of(p) = [j \in DOMAIN p |-> Inputs(p[j])] /\ Of(u) = [j \in DOMAIN u |-> Inputs(u[j])]
      <4>1. (\A j \in DOMAIN p : p[j] \in Requests) /\ \A j \in DOMAIN u : u[j] \in Requests
        <5> HIDE DEF u
        <5> QED BY <2>1, ElementOfSeq
      <4>2. (\A j \in DOMAIN p : b[p[j]] = Inputs(p[j])) /\ \A j \in DOMAIN u : b[u[j]] = Inputs(u[j])
        <5> HIDE DEF u
        <5> QED BY <4>1, <3>1
      <4> HIDE DEF u
      <4> QED BY <4>2
    <3> DEFINE ss == Of(p)
               x == b[q]
    <3>5. FlattenSeq(Append(ss, x)) = FlattenSeq(ss) \o x
      <4>1. ss \in Seq(Seq(Asked)) /\ x \in Seq(Asked)
        BY <3>1, <3>3, <2>3
      <4> HIDE DEF ss, x
      <4> QED BY <4>1, FlattenOfAppended
    <3> QED BY <3>1, <3>3, <3>4, <3>5
  <2> DEFINE fp == Flat(p)
             iq == Inputs(q)
             f == Filter(Filter(fp, T), N)
             g == Filter(Filter(iq, T), N)
  <2>5. fp \in Q /\ Flat(u) \in Q
    <3>1. fp \in Q
      BY <2>2
    <3>2. fp \o iq \in Q
      <4>1. fp \in Seq(Asked) /\ iq \in Seq(Asked)
        BY <3>1, <2>3
      <4> HIDE DEF fp, iq
      <4> QED BY <4>1, ConcatProperties
    <3> QED BY <3>1, <3>2, <2>4
  <2>6. Filter(Filter(Flat(u), T), N) = f \o g
    <3>1. Filter(fp \o iq, T) = Filter(fp, T) \o Filter(iq, T)
      <4>1. fp \in Seq(Asked) /\ iq \in Seq(Asked)
        BY <2>5, <2>3
      <4> HIDE DEF fp, iq, T
      <4> QED BY <4>1, FilterOfJoined
    <3>2. Filter(fp, T) \in Q /\ Filter(iq, T) \in Q
      BY <2>3, <2>5, <1>0
    <3>3. Filter(Filter(fp, T) \o Filter(iq, T), N) = Filter(Filter(fp, T), N) \o Filter(Filter(iq, T), N)
      <4> HIDE DEF fp, iq, T, N
      <4> QED BY <3>2, FilterOfJoined
    <3> QED BY <3>1, <3>3, <2>4
  <2>7. g = (IF q.name = name THEN Filter(iq, T) ELSE <<>>)
    <3> DEFINE h == Filter(iq, T)
    <3>1. h \in Seq(Asked \cap T) /\ h \in Seq(Asked)
      <4> HIDE DEF T
      <4> QED BY <2>3, <1>0, FilterOfAppended
    <3>2. PICK m \in [DOMAIN h -> DOMAIN iq] : \A k \in DOMAIN h : h[k] = iq[m[k]]
      <4> HIDE DEF T
      <4> QED BY <2>3, FilterPicks
    <3>3. \A k \in DOMAIN h : h[k].id = q.name /\ h[k] \in Asked
      <4> HIDE DEF h
      <4> QED BY <2>3, <3>1, <3>2, ElementOfSeq
    <3>4. \A k \in DOMAIN h : h[k] \in N <=> q.name = name
      <4> HIDE DEF h
      <4> QED BY <3>3 DEF Named
    <3>5. /\ (\A k \in DOMAIN h : h[k] \notin N) => Filter(h, N) = <<>>
          /\ (\A k \in DOMAIN h : h[k] \in N) => Filter(h, N) = h
      <4> HIDE DEF h, N
      <4> QED BY <3>1, FilterOfAllOrNone
    <3> HIDE DEF h, N
    <3> QED BY <3>4, <3>5 DEF h
  <2>8. f \in Q /\ g \in Q /\ Filter(iq, T) \in Q
    BY <2>3, <2>5, <1>0
  <2>9. ASSUME None(u) PROVE f \o g = <<>>
    <3>1. q.name # name /\ None(p)
      BY <2>1, <2>9
    <3>2. f = <<>> /\ g = <<>>
      BY <3>1, <2>2, <2>7
    <3> HIDE DEF f, g
    <3> QED BY <3>2, <2>8, ConcatEmptySeq
  <2>10. ASSUME NEW i \in DOMAIN u, Only(u, i) PROVE f \o g = Filter(Inputs(u[i]), T)
    <3>1. CASE i = n + 1
      <4>1. q.name = name /\ None(p)
        <5> HIDE DEF u
        <5> QED BY <3>1, <2>1, <2>10
      <4>2. f = <<>> /\ g = Filter(iq, T) /\ u[i] = q
        BY <4>1, <2>1, <2>2, <2>7, <3>1
      <4> HIDE DEF f, g, T, iq
      <4>3. f \o g = g
        BY <4>2, <2>8, ConcatEmptySeq
      <4> QED BY <4>2, <4>3 DEF iq
    <3>2. CASE i \in 1..n
      <4>1. q.name # name /\ Only(p, i) /\ u[i] = p[i]
        <5> HIDE DEF u
        <5> QED BY <3>2, <2>1, <2>10
      <4>2. f = Filter(Inputs(p[i]), T) /\ g = <<>>
        BY <4>1, <2>1, <2>2, <2>7, <3>2
      <4>3. f \o g = f
        <5> HIDE DEF f, g
        <5> QED BY <4>2, <2>8, ConcatEmptySeq
      <4> HIDE DEF f, g, T
      <4> QED BY <4>1, <4>2, <4>3
    <3>3. i = n + 1 \/ i \in 1..n
      BY <2>1
    <3> QED BY <3>1, <3>2, <3>3
  <2>11. Good(u)
    <3> HIDE DEF Flat, T, N, f, g, None, Only, u
    <3> QED BY <2>5, <2>6, <2>9, <2>10
  <2> HIDE DEF Good, u
  <2> QED BY <2>1, <2>11 DEF u
<1>3. Seq(Requests) \subseteq P
  <2> HIDE DEF P
  <2> QED BY <1>1, <1>2, InductOverSeqs
<1>4. \A p \in Seq(Requests) : Good(p)
  <2> HIDE DEF Good
  <2> QED BY <1>3
<1> QED BY <1>4

\* The requests of the process and their inputs.
LEMMA PoolIsRequests ==
  ASSUME PoolsAreRequests, pool \in Pools
  PROVE  /\ pool \in Seq(Requests) /\ Len(pool) \in Nat /\ DOMAIN pool = 1 .. Len(pool)
         /\ \A i, j \in DOMAIN pool : pool[i].name = pool[j].name => i = j
         /\ \A i \in DOMAIN pool : pool[i] \in Requests /\ Inputs(pool[i]) \in Seq(Asked)
         /\ AllInputs \in Seq(Asked)
<1>1. pool \in Seq(Requests) /\ \A i, j \in DOMAIN pool : pool[i].name = pool[j].name => i = j
  BY DEF PoolsAreRequests, Requests
<1>2. Len(pool) \in Nat /\ DOMAIN pool = 1 .. Len(pool) /\ \A i \in DOMAIN pool : pool[i] \in Requests
  BY <1>1, LenProperties, ElementOfSeq
<1>3. \A i \in DOMAIN pool : Inputs(pool[i]) \in Seq(Asked)
  BY <1>2, InputsAreAsked
<1>4. AllInputs \in Seq(Asked)
  BY <1>1, InputsOfPool DEF AllInputs
<1> QED BY <1>1, <1>2, <1>3, <1>4

\* A part of the inputs is of its types.
LEMMA PartIsTyped ==
  ASSUME NEW types, NEW s \in Seq(Asked)
  PROVE  /\ OfTypes(types, s) \in Seq(Asked)
         /\ DOMAIN OfTypes(types, s) = 1 .. Len(OfTypes(types, s)) /\ Len(OfTypes(types, s)) \in Nat
         /\ \A k \in DOMAIN OfTypes(types, s) :
               OfTypes(types, s)[k] \in Asked /\ OfTypes(types, s)[k].type \in types
<1> DEFINE f == OfTypes(types, s)
           K == Asked \cap Typed(types)
<1>1. f \in Seq(K)
  <2>1. \A t \in Seq(Asked) : Filter(t, Typed(types)) \in Seq(Asked \cap Typed(types))
    BY FilterOfAppended
  <2> QED BY <2>1, OfTypesFilters
<1>2. f \in Seq(Asked)
  <2> HIDE DEF f
  <2> QED BY <1>1
<1> HIDE DEF f, K
<1>3. Len(f) \in Nat /\ DOMAIN f = 1 .. Len(f) /\ \A k \in DOMAIN f : f[k] \in K
  BY <1>1, LenProperties, ElementOfSeq
<1>4. \A x \in K : x \in Asked /\ x.type \in types
  BY DEF K, Typed
<1> QED BY <1>2, <1>3, <1>4 DEF f

\* Nothing is left out by the division of the match: the inputs of the pool that bear the name of a
\* request are its inputs (GetResourcesById against get_all_resources).
LEMMA DivisionIsWhole ==
  ASSUME PoolsAreRequests, pool \in Pools, NEW i \in DOMAIN pool
  PROVE  Filter(OfTypes(NodeTypes, AllInputs), Named(pool[i].name)) = OfTypes(NodeTypes, Inputs(pool[i]))
<1>1. /\ pool \in Seq(Requests) /\ \A j, k \in DOMAIN pool : pool[j].name = pool[k].name => j = k
      /\ Inputs(pool[i]) \in Seq(Asked) /\ AllInputs \in Seq(Asked)
  BY PoolIsRequests
<1>2. OfTypes(NodeTypes, AllInputs) = Filter(AllInputs, Typed(NodeTypes))
      /\ OfTypes(NodeTypes, Inputs(pool[i])) = Filter(Inputs(pool[i]), Typed(NodeTypes))
  BY <1>1, OfTypesFilters
<1>3. Filter(Filter(FlattenSeq([j \in DOMAIN pool |-> Inputs(pool[j])]), Typed(NodeTypes)), Named(pool[i].name))
      = Filter(Inputs(pool[i]), Typed(NodeTypes))
  BY <1>1, DivisionOfPool
<1> QED BY <1>2, <1>3 DEF AllInputs

-----------------------------------------------------------------------------
(* The invariant and the match.                                            *)

\* What is reserved: a device of the definition, for the request of that name.
AllDevices == info.cluster \union UNION {info.nodes[n].devices : n \in DOMAIN info.nodes}
Reserved == [device : AllDevices, capacity : Int, id : STRING]

Types ==
    /\ info \in Infos /\ pool \in Pools
    /\ place \in 0 .. ToPods
    /\ given \in [DOMAIN pool -> Seq(Reserved)]
    /\ DOMAIN specs = DOMAIN pool

\* What request i is owed: its part of the cluster once it was passed, that of the nodes at the end.
Owed(i) == IF place = ToPods THEN OfTypes(ClusterTypes, Inputs(pool[i])) \o OfTypes(NodeTypes, Inputs(pool[i]))
           ELSE IF i < place THEN OfTypes(ClusterTypes, Inputs(pool[i]))
           ELSE <<>>

\* An input and what it is given.
Fits(x, r) == Serves(x, r.device) /\ (x.capacity = 1 => r.capacity = 1)

Serving == place # Failed => \A i \in DOMAIN pool :
    /\ Len(given[i]) = Len(Owed(i))
    /\ \A k \in DOMAIN given[i] : Fits(Owed(i)[k], given[i][k])

\* No two of a request are the same to __hash__.
DistinctInRequest == \A i \in DOMAIN pool : \A k, l \in DOMAIN given[i] :
    k # l => Identity(given[i][k]) # Identity(given[i][l])

\* No device is given twice but to a dummy.
Apart == place # Failed => \A i, j \in DOMAIN pool : \A k \in DOMAIN given[i], l \in DOMAIN given[j] :
    <<i, k>> # <<j, l>> /\ given[i][k].capacity = 1 /\ given[j][l].capacity = 1
    => given[i][k].device # given[j][l].device

Held == place # Failed =>
    /\ \A i \in DOMAIN pool : \A k \in DOMAIN given[i] : LockOf(given[i][k].device) \in locks
    /\ locks \intersect others = {}

OneSpace == place # Failed => \A i, j \in DOMAIN pool : \A k \in DOMAIN given[i], l \in DOMAIN given[j] :
    given[i][k].device.type \in NodeTypes /\ given[j][l].device.type \in NodeTypes
    => given[i][k].device.space = given[j][l].device.space

\* A pod is what the match says of its node.
PodsAreSpecified == \A i \in DOMAIN pool : specs[i] # <<>> =>
    /\ place \in {Failed, ToPods}
    /\ LET pod == specs[i][1]
       IN  /\ CanResolve(i, pod.node)
           /\ pod.volumes = {Identity(Real(i)[k]) : k \in DOMAIN Real(i)}
           /\ pod.usb = Connects(i, {"usb"})
           /\ pod.pci = Connects(i, {"pci"})
           /\ Connects(i, {"network", "pci"}) => pod.network
           /\ pod.cpu = Resolve(i, pod.node)

IInv == Types /\ Serving /\ DistinctInRequest /\ Apart /\ Held /\ OneSpace /\ PodsAreSpecified

\* What a combination of get_match_resources is.
LEMMA ChoiceServes ==
  ASSUME NEW inputs \in Seq(Asked), NEW devices, devices \subseteq AllDevices,
         NEW choice \in Combinations(inputs, devices)
  PROVE  /\ choice \in Seq(Reserved) /\ Len(choice) = Len(inputs) /\ DOMAIN choice = DOMAIN inputs
         /\ \A k \in DOMAIN choice :
               /\ choice[k].device \in devices /\ choice[k].id = inputs[k].id
               /\ Fits(inputs[k], choice[k])
               /\ choice[k].capacity = CapacityFor(inputs, k)
               /\ inputs[k].type \in NodeTypes => CheckLabelList(inputs[k].labels, choice[k].device.node)
         /\ \A k, l \in DOMAIN choice : k # l => Identity(choice[k]) # Identity(choice[l])
<1> DEFINE n == Len(inputs)
<1>1. n \in Nat /\ DOMAIN inputs = 1..n /\ \A k \in 1..n : inputs[k] \in Asked
  BY LenProperties, ElementOfSeq
<1> HIDE DEF n
<1>2. /\ DOMAIN choice = 1..n /\ choice = [k \in 1..n |-> choice[k]]
      /\ \A k \in 1..n : choice[k] \in Candidates(inputs, k, devices)
      /\ Distinct(choice)
  BY <1>1 DEF Combinations
<1>3. ASSUME NEW k \in 1..n
      PROVE  /\ choice[k] \in Reserved
             /\ choice[k].device \in devices /\ choice[k].id = inputs[k].id
             /\ Fits(inputs[k], choice[k])
             /\ choice[k].capacity = CapacityFor(inputs, k)
             /\ inputs[k].type \in NodeTypes => CheckLabelList(inputs[k].labels, choice[k].device.node)
  <2>1. PICK d \in devices : /\ Serves(inputs[k], d)
                             /\ d.type \in ClusterTypes \/ CheckLabelList(inputs[k].labels, d.node)
                             /\ choice[k] =
                                   [device |-> d, capacity |-> CapacityFor(inputs, k), id |-> inputs[k].id]
    BY <1>2 DEF Candidates
  <2>2. CapacityFor(inputs, k) \in Int /\ (inputs[k].capacity = 1 => CapacityFor(inputs, k) = 1)
    BY <1>1 DEF CapacityFor
  <2>3. inputs[k].id \in STRING
    BY <1>1 DEF Asked
  <2>4. choice[k].device = d /\ choice[k].capacity = CapacityFor(inputs, k) /\ choice[k].id = inputs[k].id
    BY <2>1
  <2>5. choice[k] \in Reserved
    BY <2>1, <2>2, <2>3 DEF Reserved
  <2>6. Fits(inputs[k], choice[k])
    BY <2>1, <2>2, <2>4 DEF Fits
  <2>7. inputs[k].type \in NodeTypes => d.type \notin ClusterTypes
    BY <2>1 DEF Serves, NodeTypes, ClusterTypes
  <2> QED BY <2>1, <2>4, <2>5, <2>6, <2>7
<1>4. choice \in Seq(Reserved) /\ Len(choice) = n
  <2>1. choice \in [1..n -> Reserved]
    BY <1>2, <1>3
  <2> QED BY <1>1, <2>1, AsSeq
<1>5. \A k, l \in DOMAIN choice : k # l => Identity(choice[k]) # Identity(choice[l])
  BY <1>2 DEF Distinct
<1> QED BY <1>1, <1>2, <1>3, <1>4, <1>5 DEF n

\* One and the same device with the same capacity is the same to __hash__.
LEMMA SameIsAlike ==
  ASSUME NEW r, NEW t, r.device = t.device, r.capacity = t.capacity
  PROVE  Identity(r) = Identity(t)
BY DEF Identity

\* What a request is given of the match of the pool.
LEMMA DividedParts ==
  ASSUME PoolsAreRequests, pool \in Pools, NEW choice \in Seq(Reserved),
         Len(choice) = Len(OfTypes(NodeTypes, AllInputs)),
         \A k \in DOMAIN choice : /\ Fits(OfTypes(NodeTypes, AllInputs)[k], choice[k])
                                 /\ choice[k].id = OfTypes(NodeTypes, AllInputs)[k].id,
         NEW i \in DOMAIN pool
  PROVE  LET part  == GetResourcesById(choice, pool[i].name)
             asked == OfTypes(NodeTypes, Inputs(pool[i]))
         IN  /\ part \in Seq(Reserved) /\ Len(part) = Len(asked) /\ DOMAIN part = 1 .. Len(part)
             /\ \A k \in DOMAIN part : Fits(asked[k], part[k])
             /\ \E m \in [DOMAIN part -> DOMAIN choice] :
                   /\ \A k, l \in DOMAIN part : k # l => m[k] # m[l]
                   /\ \A k \in DOMAIN part : part[k] = choice[m[k]] /\ choice[m[k]].id = pool[i].name
<1> DEFINE name == pool[i].name
           part == GetResourcesById(choice, name)
           asked == OfTypes(NodeTypes, Inputs(pool[i]))
           inputs == OfTypes(NodeTypes, AllInputs)
           B == {r \in Reserved : r.id = name}
           Rel == {xr \in Asked \X Reserved : Fits(xr[1], xr[2]) /\ xr[2].id = xr[1].id}
<1>0. Len(choice) = Len(inputs)
      /\ \A k \in DOMAIN choice : Fits(inputs[k], choice[k]) /\ choice[k].id = inputs[k].id
  OBVIOUS
<1>1. inputs \in Seq(Asked)
  BY PoolIsRequests, PartIsTyped
<1>2. part = Filter(choice, B)
  <2>1. \A k \in DOMAIN choice : choice[k].id = name <=> choice[k] \in B
    BY ElementOfSeq
  <2> QED BY <2>1 DEF GetResourcesById, Those, Filter
<1>3. asked = Filter(inputs, Named(name))
  BY DivisionIsWhole
<1> HIDE DEF name, part, asked, inputs
<1>4. Paired(inputs, choice, Rel)
  <2>1. Len(inputs) \in Nat
        /\ \A k \in 1..Len(inputs) : inputs[k] \in Asked /\ choice[k] \in Reserved /\ k \in DOMAIN choice
    BY <1>0, <1>1, LenProperties, ElementOfSeq
  <2>2. \A k \in 1..Len(inputs) : <<inputs[k], choice[k]>> \in Rel
    BY <2>1, <1>0
  <2> HIDE DEF Rel
  <2> QED BY <2>2, <1>0 DEF Paired
<1>5. \A x \in Asked, r \in Reserved : <<x, r>> \in Rel => (x \in Named(name) <=> r \in B)
  BY DEF Named
<1>6. \A xr \in Rel : Fits(xr[1], xr[2])
  OBVIOUS
<1> HIDE DEF Rel
<1>7. Paired(asked, part, Rel)
  <2> HIDE DEF B
  <2> QED BY <1>1, <1>2, <1>3, <1>4, <1>5, PairedFiltered
<1>8. part \in Seq(Reserved)
  <2> DEFINE K == Reserved \cap B
  <2>1. part \in Seq(K)
    <3> HIDE DEF B
    <3>1. \A t \in Seq(Reserved) : Filter(t, B) \in Seq(Reserved \cap B)
      BY FilterOfAppended
    <3> QED BY <1>2, <3>1
  <2> QED BY <2>1
<1>9. Len(part) = Len(asked) /\ DOMAIN part = 1 .. Len(part) /\ \A k \in DOMAIN part : Fits(asked[k], part[k])
  <2>1. Len(part) \in Nat /\ DOMAIN part = 1 .. Len(part)
    BY <1>8, LenProperties
  <2>2. \A k \in 1 .. Len(asked) : Fits(asked[k], part[k])
    BY <1>6, <1>7 DEF Paired
  <2> QED BY <2>1, <2>2, <1>7 DEF Paired
<1>10. \E m \in [DOMAIN part -> DOMAIN choice] :
               /\ \A k, l \in DOMAIN part : k # l => m[k] # m[l]
               /\ \A k \in DOMAIN part : part[k] = choice[m[k]] /\ choice[m[k]] \in B
  <2> HIDE DEF B
  <2>1. \E m \in [DOMAIN Filter(choice, B) -> DOMAIN choice] :
               /\ \A k, l \in DOMAIN Filter(choice, B) : k # l => m[k] # m[l]
               /\ \A k \in DOMAIN Filter(choice, B) : Filter(choice, B)[k] = choice[m[k]] /\ choice[m[k]] \in B
    BY FilterPicks
  <2> QED BY <1>2, <2>1
<1>11. \A r \in B : r.id = name
  OBVIOUS
<1> HIDE DEF B
<1>12. \E m \in [DOMAIN part -> DOMAIN choice] :
               /\ \A k, l \in DOMAIN part : k # l => m[k] # m[l]
               /\ \A k \in DOMAIN part : part[k] = choice[m[k]] /\ choice[m[k]].id = name
  BY <1>10, <1>11
<1> QED BY <1>8, <1>9, <1>12 DEF name, part, asked

\* Devices that serve the inputs, the real ones each its own, are a combination if none hash alike.
LEMMA ServiceIsFound ==
  ASSUME NEW inputs \in Seq(Asked), \A k \in DOMAIN inputs : inputs[k].type \in NodeTypes,
         NEW devices, devices \subseteq Devices, ~ Twins, NEW f \in [DOMAIN inputs -> devices],
         \A i \in DOMAIN inputs : Serves(inputs[i], f[i]) /\ CheckLabelList(inputs[i].labels, f[i].node),
         \A i, j \in DOMAIN inputs : i # j /\ inputs[i].capacity = 1 /\ inputs[j].capacity = 1 => f[i] # f[j]
  PROVE  Combinations(inputs, devices) # {}
<1> DEFINE n == Len(inputs)
           choice == [k \in 1..n |-> [device |-> f[k], capacity |-> CapacityFor(inputs, k), id |-> inputs[k].id]]
<1>1. n \in Nat /\ DOMAIN inputs = 1..n /\ \A k \in 1..n : inputs[k] \in Asked
  BY LenProperties, ElementOfSeq
<1> HIDE DEF n
<1>2. \A k \in 1..n : choice[k].device = f[k] /\ choice[k].capacity = CapacityFor(inputs, k)
  OBVIOUS
<1>3. ASSUME NEW k \in 1..n PROVE choice[k] \in Candidates(inputs, k, devices)
  <2>1. f[k] \in devices /\ Serves(inputs[k], f[k]) /\ CheckLabelList(inputs[k].labels, f[k].node)
    BY <1>1
  <2> QED BY <2>1 DEF Candidates
<1>4. ASSUME NEW i \in 1..n, NEW j \in 1..n, i # j PROVE Identity(choice[i]) # Identity(choice[j])
  <2> HIDE DEF choice
  <2>1. /\ inputs[i].capacity \in {0, 1} /\ inputs[j].capacity \in {0, 1}
        /\ inputs[i].type \in NodeTypes /\ inputs[j].type \in NodeTypes
    BY <1>1 DEF Asked
  <2>2. CASE inputs[i].capacity = 1 /\ inputs[j].capacity = 1
    <3>1. f[i] # f[j] /\ f[i] \in Devices /\ f[j] \in Devices
      BY <2>2, <1>1, <1>4
    <3>2. Identity([device |-> f[i], capacity |-> 1]) # Identity([device |-> f[j], capacity |-> 1])
      BY <3>1 DEF Twins
    <3>3. choice[i].capacity = 1 /\ choice[j].capacity = 1
      BY <2>2, <1>2 DEF CapacityFor
    <3>4. /\ Identity(choice[i]) = Identity([device |-> f[i], capacity |-> 1])
          /\ Identity(choice[j]) = Identity([device |-> f[j], capacity |-> 1])
      BY <3>3, <1>2 DEF Identity
    <3> QED BY <3>2, <3>4
  <2>3. CASE ~ (inputs[i].capacity = 1 /\ inputs[j].capacity = 1)
    <3>1. choice[i].capacity # choice[j].capacity
      <4>1. /\ choice[i].capacity = IF inputs[i].capacity = 0 THEN 1 - i ELSE 1
            /\ choice[j].capacity = IF inputs[j].capacity = 0 THEN 1 - j ELSE 1
        BY <2>1, <1>2 DEF CapacityFor
      <4> QED BY <4>1, <2>1, <2>3, <1>1, <1>4
    <3>2. Identity(choice[i])[3] = choice[i].capacity /\ Identity(choice[j])[3] = choice[j].capacity
      BY DEF Identity
    <3> QED BY <3>1, <3>2
  <2> QED BY <2>2, <2>3
<1>5. DOMAIN choice = 1..n /\ choice = [k \in 1..n |-> choice[k]]
  OBVIOUS
<1> HIDE DEF choice
<1>6. choice \in Combinations(inputs, devices)
  <2> DEFINE U == UNION {Candidates(inputs, i, devices) : i \in DOMAIN inputs}
  <2>1. \A k \in 1..n : choice[k] \in U
    BY <1>1, <1>3
  <2>2. choice \in [DOMAIN inputs -> U]
    <3> HIDE DEF U
    <3> QED BY <2>1, <1>1, <1>5
  <2>3. Distinct(choice)
    BY <1>4, <1>5 DEF Distinct
  <2> QED BY <2>2, <2>3, <1>1, <1>3 DEF Combinations
<1> QED BY <1>6

\* MatchIsComplete holds of any requests.
LEMMA MatchOfRequestsIsComplete ==
  ASSUME PoolsAreRequests, pool \in Pools
  PROVE  MatchIsComplete
<1> DEFINE inputs == OfTypes(NodeTypes, AllInputs)
           free == {d \in NodeDevices : LockOf(d) \notin Taken}
           D(s) == {d \in free : d.space = s}
           Good(i, d) == Serves(inputs[i], d) /\ CheckLabelList(inputs[i].labels, d.node)
           Serving1(s, f) == /\ \A i \in DOMAIN inputs : Good(i, f[i])
                             /\ \A i, j \in DOMAIN inputs :
                                   i # j /\ inputs[i].capacity = 1 /\ inputs[j].capacity = 1 => f[i] # f[j]
           CanServe(s) == \E f \in [DOMAIN inputs -> D(s)] : Serving1(s, f)
<1> SUFFICES ASSUME ~ Twins
             PROVE  SpacesFor(inputs, free) = {s \in {d.space : d \in free} \ {0} : CanServe(s)}
  BY DEF MatchIsComplete
<1>1. inputs \in Seq(Asked) /\ \A k \in DOMAIN inputs : inputs[k] \in Asked /\ inputs[k].type \in NodeTypes
  BY PoolIsRequests, PartIsTyped
<1>2. free \subseteq Devices /\ free \subseteq NodeDevices
  BY DEF NodeDevices
<1>3. Devices \subseteq AllDevices
  BY DEF Devices, AllDevices
<1>4. ASSUME NEW s PROVE Combinations(inputs, D(s)) # {} <=> CanServe(s)
  <2> DEFINE E == D(s)
  <2>1. E \subseteq Devices /\ E \subseteq AllDevices
    BY <1>2, <1>3
  <2> HIDE DEF inputs, free, E
  <2>2. ASSUME NEW f \in [DOMAIN inputs -> E], Serving1(s, f) PROVE Combinations(inputs, E) # {}
    BY <1>1, <2>1, <2>2, ServiceIsFound
  <2>3. ASSUME NEW choice \in Combinations(inputs, E) PROVE \E f \in [DOMAIN inputs -> E] : Serving1(s, f)
    <3> DEFINE f == [i \in DOMAIN inputs |-> choice[i].device]
    <3>1. /\ DOMAIN choice = DOMAIN inputs
          /\ \A k \in DOMAIN choice :
               /\ choice[k].device \in E /\ Fits(inputs[k], choice[k])
               /\ inputs[k].type \in NodeTypes => CheckLabelList(inputs[k].labels, choice[k].device.node)
          /\ \A k, l \in DOMAIN choice : k # l => Identity(choice[k]) # Identity(choice[l])
      BY <1>1, <2>1, ChoiceServes
    <3>2. f \in [DOMAIN inputs -> E] /\ \A i \in DOMAIN inputs : f[i] = choice[i].device
      BY <3>1
    <3> HIDE DEF f
    <3>3. \A i \in DOMAIN inputs : Good(i, f[i])
      BY <3>1, <3>2, <1>1 DEF Fits
    <3>4. ASSUME NEW i \in DOMAIN inputs, NEW j \in DOMAIN inputs, i # j,
                 inputs[i].capacity = 1, inputs[j].capacity = 1
          PROVE  f[i] # f[j]
      <4>1. choice[i].capacity = choice[j].capacity /\ Identity(choice[i]) # Identity(choice[j])
        BY <3>1, <3>4 DEF Fits
      <4> QED BY <4>1, <3>2, SameIsAlike
    <3> QED BY <3>2, <3>3, <3>4
  <2>4. Combinations(inputs, E) # {} <=> \E f \in [DOMAIN inputs -> E] : Serving1(s, f)
    <3> HIDE DEF Serving1
    <3> QED BY <2>2, <2>3
  <2> QED BY <2>4 DEF E
<1> HIDE DEF inputs, free, CanServe
<1>5. SpacesFor(inputs, free) = {s \in {d.space : d \in free} : s # 0 /\ Combinations(inputs, D(s)) # {}}
  BY DEF SpacesFor
<1> QED BY <1>4, <1>5

-----------------------------------------------------------------------------
(* The invariant is kept.                                                  *)

\* Where the elements of two sequences end up.
LEMMA Joined ==
  ASSUME NEW R, NEW s \in Seq(R), NEW t \in Seq(R)
  PROVE  /\ s \o t \in Seq(R) /\ Len(s \o t) = Len(s) + Len(t) /\ DOMAIN (s \o t) = 1 .. (Len(s) + Len(t))
         /\ \A k \in DOMAIN s : k \in DOMAIN (s \o t) /\ (s \o t)[k] = s[k]
         /\ \A k \in DOMAIN t : k + Len(s) \in DOMAIN (s \o t) /\ (s \o t)[k + Len(s)] = t[k]
         /\ \A k \in DOMAIN (s \o t) : \/ k \in DOMAIN s
                                       \/ \E l \in DOMAIN t : k = l + Len(s)
<1> DEFINE u == s \o t
<1>1. /\ u \in Seq(R) /\ Len(u) = Len(s) + Len(t)
      /\ \A i \in 1..(Len(s) + Len(t)) : u[i] = IF i <= Len(s) THEN s[i] ELSE t[i - Len(s)]
  BY ConcatProperties
<1>2. /\ Len(s) \in Nat /\ Len(t) \in Nat /\ DOMAIN s = 1..Len(s) /\ DOMAIN t = 1..Len(t) /\ DOMAIN u = 1..Len(u)
  <2> HIDE DEF u
  <2> QED BY <1>1, LenProperties
<1> HIDE DEF u
<1>3. \A k \in DOMAIN s : k \in DOMAIN u /\ u[k] = s[k]
  BY <1>1, <1>2
<1>4. \A k \in DOMAIN t : k + Len(s) \in DOMAIN u /\ u[k + Len(s)] = t[k]
  BY <1>1, <1>2
<1>5. ASSUME NEW k \in DOMAIN u PROVE k \in DOMAIN s \/ \E l \in DOMAIN t : k = l + Len(s)
  <2>1. CASE k <= Len(s)
    BY <2>1, <1>1, <1>2
  <2>2. CASE k > Len(s)
    <3>1. k - Len(s) \in DOMAIN t /\ k = (k - Len(s)) + Len(s)
      BY <2>2, <1>1, <1>2
    <3> QED BY <3>1
  <2> QED BY <2>1, <2>2, <1>1, <1>2
<1> QED BY <1>1, <1>2, <1>3, <1>4, <1>5 DEF u

\* What the invariant says of a request before the pods are placed.
LEMMA ClusterFirst ==
  ASSUME PoolsAreRequests, Types, Serving, place \in 1 .. Len(pool) + 1
  PROVE  /\ \A i \in DOMAIN pool : Owed(i) = IF i < place THEN OfTypes(ClusterTypes, Inputs(pool[i])) ELSE <<>>
         /\ \A i \in DOMAIN pool : \A k \in DOMAIN given[i] : given[i][k].device.type \in ClusterTypes
         /\ place \in DOMAIN pool => given[place] = <<>>
<1>1. /\ Len(pool) \in Nat /\ DOMAIN pool = 1 .. Len(pool)
      /\ \A i \in DOMAIN pool : Inputs(pool[i]) \in Seq(Asked)
      /\ \A i \in DOMAIN pool : given[i] \in Seq(Reserved)
  BY PoolIsRequests DEF Types
<1>2. place # ToPods /\ place # Failed
  BY <1>1 DEF ToPods, Failed
<1>3. \A i \in DOMAIN pool : Owed(i) = IF i < place THEN OfTypes(ClusterTypes, Inputs(pool[i])) ELSE <<>>
  BY <1>2 DEF Owed
<1>4. \A i \in DOMAIN pool : Len(given[i]) = Len(Owed(i))
            /\ \A k \in DOMAIN given[i] : Fits(Owed(i)[k], given[i][k])
  BY <1>2 DEF Serving
<1>5. ASSUME NEW i \in DOMAIN pool, NEW k \in DOMAIN given[i] PROVE given[i][k].device.type \in ClusterTypes
  <2> DEFINE part == OfTypes(ClusterTypes, Inputs(pool[i]))
  <2>1. DOMAIN part = 1 .. Len(part) /\ \A l \in DOMAIN part : part[l].type \in ClusterTypes
    BY <1>1, PartIsTyped
  <2>2. DOMAIN given[i] = 1 .. Len(given[i])
    BY <1>1, LenProperties
  <2>3. Fits(Owed(i)[k], given[i][k])
    BY <1>4
  <2>4. CASE i < place
    <3>1. Owed(i) = part
      BY <2>4, <1>3
    <3> HIDE DEF part
    <3>2. k \in DOMAIN part
      BY <3>1, <2>1, <2>2, <1>4
    <3> QED BY <3>1, <3>2, <2>1, <2>3 DEF Fits, Serves
  <2>5. CASE ~ (i < place)
    <3>1. Owed(i) = <<>>
      BY <2>5, <1>3
    <3>2. Len(given[i]) = 0
      BY <3>1, <1>4
    <3> QED BY <3>2, <2>2
  <2> QED BY <2>4, <2>5
<1>6. ASSUME place \in DOMAIN pool PROVE given[place] = <<>>
  <2>1. Owed(place) = <<>>
    BY <1>1, <1>3, <1>6
  <2>2. Len(given[place]) = 0
    BY <2>1, <1>4, <1>6
  <2> QED BY <2>2, <1>1, <1>6, EmptySeq
<1> QED BY <1>3, <1>5, <1>6

\* A pass gives every request its part, which serves what it is owed by now, of devices that were free.
LEMMA Grant ==
  ASSUME PoolsAreRequests, IInv, place \in 1 .. Len(pool) + 1, place' # Failed,
         NEW part \in [DOMAIN pool -> Seq(Reserved)], NEW now,
         \A i \in DOMAIN pool : Owed(i) \in Seq(Asked) /\ now[i] \in Seq(Asked) /\ Owed(i)' = Owed(i) \o now[i],
         \A i \in DOMAIN pool : Len(part[i]) = Len(now[i])
               /\ \A k \in DOMAIN part[i] : Fits(now[i][k], part[i][k]),
         \A i \in DOMAIN pool : \A k, l \in DOMAIN part[i] : k # l => Identity(part[i][k]) # Identity(part[i][l]),
         \A i \in DOMAIN pool : \A k \in DOMAIN given[i], l \in DOMAIN part[i] :
            Identity(given[i][k]) # Identity(part[i][l]),
         \A i, j \in DOMAIN pool : \A k \in DOMAIN part[i], l \in DOMAIN part[j] :
            <<i, k>> # <<j, l>> /\ part[i][k].capacity = 1 /\ part[j][l].capacity = 1
            => part[i][k].device # part[j][l].device,
         \A i, j \in DOMAIN pool : \A k \in DOMAIN part[i], l \in DOMAIN part[j] :
            part[i][k].device.type \in NodeTypes /\ part[j][l].device.type \in NodeTypes
            => part[i][k].device.space = part[j][l].device.space,
         \A i \in DOMAIN pool : \A k \in DOMAIN part[i] :
            LockOf(part[i][k].device) \notin locks /\ LockOf(part[i][k].device) \in locks',
         locks \subseteq locks', locks' \intersect others = {},
         given' = [i \in DOMAIN pool |-> given[i] \o part[i]],
         UNCHANGED <<info, pool, others, specs>>
  PROVE  /\ given' \in [DOMAIN pool -> Seq(Reserved)]
         /\ Serving' /\ DistinctInRequest' /\ Apart' /\ Held' /\ OneSpace'
<1>1. /\ Types /\ Serving /\ DistinctInRequest /\ Apart /\ Held
      /\ \A i \in DOMAIN pool : given[i] \in Seq(Reserved)
      /\ place # Failed
  BY DEF IInv, Types, Failed
<1>2. \A i \in DOMAIN pool : \A k \in DOMAIN given[i] : given[i][k].device.type \in ClusterTypes
  BY <1>1, ClusterFirst
<1> DEFINE Old(i, k) == k \in DOMAIN given[i] /\ given'[i][k] = given[i][k]
           New(i, k) == \E l \in DOMAIN part[i] : k = l + Len(given[i]) /\ given'[i][k] = part[i][l]
<1>3. ASSUME NEW i \in DOMAIN pool
      PROVE  /\ given'[i] \in Seq(Reserved) /\ Len(given'[i]) = Len(given[i]) + Len(part[i])
             /\ \A k \in DOMAIN given'[i] : Old(i, k) \/ New(i, k)
  <2> DEFINE g == given[i]
             p == part[i]
  <2>1. g \in Seq(Reserved) /\ p \in Seq(Reserved) /\ given'[i] = g \o p
    BY <1>1
  <2> HIDE DEF g, p
  <2>2. /\ given'[i] \in Seq(Reserved) /\ Len(given'[i]) = Len(g) + Len(p)
        /\ \A k \in DOMAIN g : given'[i][k] = g[k]
        /\ \A k \in DOMAIN p : given'[i][k + Len(g)] = p[k]
        /\ \A k \in DOMAIN given'[i] : k \in DOMAIN g \/ \E l \in DOMAIN p : k = l + Len(g)
    <3> DEFINE u == g \o p
    <3>1. /\ u \in Seq(Reserved) /\ Len(u) = Len(g) + Len(p)
          /\ \A k \in DOMAIN g : u[k] = g[k]
          /\ \A k \in DOMAIN p : u[k + Len(g)] = p[k]
          /\ \A k \in DOMAIN u : k \in DOMAIN g \/ \E l \in DOMAIN p : k = l + Len(g)
      BY ONLY <2>1, Joined
    <3> HIDE DEF u
    <3>2. given'[i] = u
      BY <2>1 DEF u
    <3> QED BY ONLY <3>1, <3>2
  <2>3. ASSUME NEW k \in DOMAIN given'[i]
        PROVE  (k \in DOMAIN g /\ given'[i][k] = g[k])
               \/ \E l \in DOMAIN p : k = l + Len(g) /\ given'[i][k] = p[l]
    BY ONLY <2>2, <2>3
  <2> QED BY <2>2, <2>3 DEF g, p
<1>4. given' \in [DOMAIN pool -> Seq(Reserved)]
  <2>1. \A i \in DOMAIN pool : given[i] \o part[i] \in Seq(Reserved)
    BY <1>3
  <2> QED BY <2>1
<1> HIDE DEF Old, New
<1>5. Serving'
  <2> SUFFICES ASSUME NEW i \in DOMAIN pool
               PROVE  Len(given'[i]) = Len(Owed(i)')
                      /\ \A k \in DOMAIN given'[i] : Fits(Owed(i)'[k], given'[i][k])
    BY DEF Serving
  <2> DEFINE o == Owed(i)
             w == now[i]
             both == o \o w
  <2>1. o \in Seq(Asked) /\ w \in Seq(Asked) /\ Owed(i)' = both
    OBVIOUS
  <2>2. Len(given[i]) = Len(o) /\ \A k \in DOMAIN given[i] : Fits(o[k], given[i][k])
    BY <1>1 DEF Serving
  <2>3. Len(part[i]) = Len(w) /\ \A k \in DOMAIN part[i] : Fits(w[k], part[i][k])
    OBVIOUS
  <2>4. DOMAIN given[i] = 1 .. Len(given[i]) /\ DOMAIN part[i] = 1 .. Len(part[i])
    BY <1>1, LenProperties
  <2> HIDE DEF o, w
  <2>5. /\ Len(both) = Len(o) + Len(w) /\ \A k \in DOMAIN o : both[k] = o[k]
        /\ \A k \in DOMAIN w : both[k + Len(o)] = w[k]
    BY <2>1, Joined
  <2>6. DOMAIN o = DOMAIN given[i] /\ DOMAIN w = DOMAIN part[i]
    BY <2>1, <2>2, <2>3, <2>4, LenProperties
  <2> HIDE DEF both
  <2>7. ASSUME NEW k \in DOMAIN given'[i] PROVE Fits(both[k], given'[i][k])
    <3>1. CASE Old(i, k)
      BY <3>1, <2>2, <2>5, <2>6 DEF Old
    <3>2. CASE New(i, k)
      <4>1. PICK l \in DOMAIN part[i] : k = l + Len(given[i]) /\ given'[i][k] = part[i][l]
        BY <3>2 DEF New
      <4>2. both[k] = w[l]
        BY <4>1, <2>2, <2>5, <2>6
      <4> QED BY <4>1, <4>2, <2>3
    <3> QED BY <3>1, <3>2, <1>3
  <2>8. Len(given'[i]) = Len(both)
    BY <1>3, <2>2, <2>3, <2>5
  <2> QED BY <2>1, <2>7, <2>8
<1>6. DistinctInRequest'
  <2> SUFFICES ASSUME NEW i \in DOMAIN pool, NEW k \in DOMAIN given'[i], NEW l \in DOMAIN given'[i], k # l
               PROVE  Identity(given'[i][k]) # Identity(given'[i][l])
    BY DEF DistinctInRequest, Identity
  <2>1. CASE Old(i, k) /\ Old(i, l)
    BY <2>1, <1>1 DEF Old, DistinctInRequest
  <2>2. CASE Old(i, k) /\ New(i, l)
    BY <2>2 DEF Old, New
  <2>3. CASE New(i, k) /\ Old(i, l)
    <3>1. PICK m \in DOMAIN part[i] : given'[i][k] = part[i][m]
      BY <2>3 DEF New
    <3>2. Identity(given[i][l]) # Identity(part[i][m])
      BY <2>3 DEF Old
    <3> QED BY <3>1, <3>2, <2>3 DEF Old
  <2>4. CASE New(i, k) /\ New(i, l)
    <3>1. PICK m \in DOMAIN part[i] : k = m + Len(given[i]) /\ given'[i][k] = part[i][m]
      BY <2>4 DEF New
    <3>2. PICK n \in DOMAIN part[i] : l = n + Len(given[i]) /\ given'[i][l] = part[i][n]
      BY <2>4 DEF New
    <3>3. m # n
      BY ONLY <3>1, <3>2, k # l
    <3>4. Identity(part[i][m]) # Identity(part[i][n])
      BY <3>3
    <3> QED BY <3>1, <3>2, <3>4
  <2> QED BY <2>1, <2>2, <2>3, <2>4, <1>3
<1>7. Held'
  <2>1. ASSUME NEW i \in DOMAIN pool, NEW k \in DOMAIN given'[i] PROVE LockOf(given'[i][k].device) \in locks'
    <3>1. CASE Old(i, k)
      BY <3>1, <1>1 DEF Old, Held
    <3>2. CASE New(i, k)
      BY <3>2 DEF New
    <3> QED BY <3>1, <3>2, <1>3
  <2> QED BY <2>1 DEF Held, LockOf
<1>8. Apart'
  <2>9. ASSUME NEW i \in DOMAIN pool, NEW j \in DOMAIN pool,
               NEW k \in DOMAIN given'[i], NEW l \in DOMAIN given'[j], <<i, k>> # <<j, l>>,
               given'[i][k].capacity = 1, given'[j][l].capacity = 1
        PROVE  given'[i][k].device # given'[j][l].device
    <3>1. ASSUME NEW a \in DOMAIN pool, NEW b \in DOMAIN pool, NEW m \in DOMAIN given[a], NEW n \in DOMAIN part[b]
          PROVE  given[a][m].device # part[b][n].device
      BY <1>1 DEF Held
    <3>2. CASE Old(i, k) /\ Old(j, l)
      <4>1. \A a, b \in DOMAIN pool : \A m \in DOMAIN given[a], n \in DOMAIN given[b] :
               <<a, m>> # <<b, n>> /\ given[a][m].capacity = 1 /\ given[b][n].capacity = 1
               => given[a][m].device # given[b][n].device
        BY ONLY <1>1 DEF Apart
      <4>2. /\ k \in DOMAIN given[i] /\ given'[i][k] = given[i][k] /\ l \in DOMAIN given[j]
            /\ given'[j][l] = given[j][l]
            /\ <<i, k>> # <<j, l>> /\ given'[i][k].capacity = 1 /\ given'[j][l].capacity = 1
        BY <3>2, <2>9 DEF Old
      <4> QED BY ONLY <4>1, <4>2, i \in DOMAIN pool, j \in DOMAIN pool
    <3>3. CASE Old(i, k) /\ New(j, l)
      <4>1. PICK m \in DOMAIN part[j] : given'[j][l] = part[j][m]
        BY <3>3 DEF New
      <4>2. given[i][k].device # part[j][m].device
        BY <3>1, <3>3 DEF Old
      <4> QED BY <4>1, <4>2, <3>3 DEF Old
    <3>4. CASE New(i, k) /\ Old(j, l)
      <4>1. PICK m \in DOMAIN part[i] : given'[i][k] = part[i][m]
        BY <3>4 DEF New
      <4>2. given[j][l].device # part[i][m].device
        BY <3>1, <3>4 DEF Old
      <4> QED BY <4>1, <4>2, <3>4 DEF Old
    <3>5. CASE New(i, k) /\ New(j, l)
      <4>1. PICK m \in DOMAIN part[i] : k = m + Len(given[i]) /\ given'[i][k] = part[i][m]
        BY <3>5 DEF New
      <4>2. PICK n \in DOMAIN part[j] : l = n + Len(given[j]) /\ given'[j][l] = part[j][n]
        BY <3>5 DEF New
      <4>3. <<i, m>> # <<j, n>>
        BY ONLY <4>1, <4>2, <2>9
      <4>4. \A a, b \in DOMAIN pool : \A x \in DOMAIN part[a], y \in DOMAIN part[b] :
              <<a, x>> # <<b, y>> /\ part[a][x].capacity = 1 /\ part[b][y].capacity = 1
              => part[a][x].device # part[b][y].device
        OBVIOUS
      <4>5. given'[i][k].capacity = 1 /\ given'[j][l].capacity = 1 /\ i \in DOMAIN pool /\ j \in DOMAIN pool
        BY <2>9
      <4> QED BY ONLY <4>1, <4>2, <4>3, <4>4, <4>5
    <3> QED BY <3>2, <3>3, <3>4, <3>5, <1>3
  <2>10. pool' = pool
    OBVIOUS
  <2> QED BY ONLY <2>9, <2>10 DEF Apart
<1>9. OneSpace'
  <2>9. ASSUME NEW i \in DOMAIN pool, NEW j \in DOMAIN pool,
               NEW k \in DOMAIN given'[i], NEW l \in DOMAIN given'[j],
               given'[i][k].device.type \in NodeTypes, given'[j][l].device.type \in NodeTypes
        PROVE  given'[i][k].device.space = given'[j][l].device.space
    <3>1. ASSUME NEW a \in DOMAIN pool, NEW m \in DOMAIN given[a] PROVE given[a][m].device.type \notin NodeTypes
      BY <1>2 DEF ClusterTypes, NodeTypes
    <3>2. ~ Old(i, k) /\ ~ Old(j, l)
      BY ONLY <3>1, <2>9 DEF Old
    <3>3. PICK m \in DOMAIN part[i] : given'[i][k] = part[i][m]
      BY <3>2, <1>3 DEF New
    <3>4. PICK n \in DOMAIN part[j] : given'[j][l] = part[j][n]
      BY <3>2, <1>3 DEF New
    <3>5. \A a, b \in DOMAIN pool : \A x \in DOMAIN part[a], y \in DOMAIN part[b] :
              part[a][x].device.type \in NodeTypes /\ part[b][y].device.type \in NodeTypes
              => part[a][x].device.space = part[b][y].device.space
      OBVIOUS
    <3>6. given'[i][k].device.type \in NodeTypes /\ given'[j][l].device.type \in NodeTypes
          /\ i \in DOMAIN pool /\ j \in DOMAIN pool
      BY <2>9
    <3> QED BY ONLY <3>3, <3>4, <3>5, <3>6
  <2>10. pool' = pool
    OBVIOUS
  <2> QED BY ONLY <2>9, <2>10 DEF OneSpace
<1> QED BY <1>4, <1>5, <1>6, <1>7, <1>8, <1>9

\* A process that starts has nothing.
LEMMA InitInv == ASSUME PoolsAreRequests, MatchingInit PROVE IInv
<1>1. Len(pool) \in Nat /\ DOMAIN pool = 1 .. Len(pool) /\ info \in Infos /\ pool \in Pools
  BY PoolIsRequests DEF MatchingInit
<1>2. /\ place = 1 /\ place # Failed /\ place # ToPods /\ place \in 0 .. ToPods /\ locks = {}
      /\ given = [i \in DOMAIN pool |-> <<>>] /\ specs = [i \in DOMAIN pool |-> <<>>]
  BY <1>1 DEF MatchingInit, Failed, ToPods
<1>3. <<>> \in Seq(Reserved) /\ Len(<<>>) = 0 /\ DOMAIN <<>> = {}
  BY EmptySeq
<1>4. \A i \in DOMAIN pool : given[i] = <<>> /\ specs[i] = <<>>
  BY <1>2
<1>5. given \in [DOMAIN pool -> Seq(Reserved)] /\ DOMAIN specs = DOMAIN pool
  BY <1>2, <1>3
<1>6. Types
  BY <1>1, <1>2, <1>5 DEF Types
<1>7. \A i \in DOMAIN pool : Owed(i) = <<>>
  <2>1. \A i \in DOMAIN pool : ~ (i < place)
    BY <1>1, <1>2
  <2> QED BY <2>1, <1>2 DEF Owed
<1>8. Serving
  BY <1>3, <1>4, <1>7 DEF Serving
<1>9. DistinctInRequest /\ Apart /\ OneSpace
  BY <1>3, <1>4 DEF DistinctInRequest, Apart, OneSpace
<1>10. Held
  BY <1>2, <1>3, <1>4 DEF Held
<1>11. PodsAreSpecified
  BY <1>4 DEF PodsAreSpecified
<1> QED BY <1>6, <1>8, <1>9, <1>10, <1>11 DEF IInv

\* What only fails, or changes what is around the process, leaves what it was given.
LEMMA GivenStays ==
  ASSUME IInv, place' \in {place, Failed}, UNCHANGED <<info, pool, given>>,
         DOMAIN specs' = DOMAIN specs, Len(pool) \in Nat
  PROVE  Types' /\ Serving' /\ DistinctInRequest' /\ Apart' /\ OneSpace'
<1>1. Types /\ Serving /\ DistinctInRequest /\ Apart /\ OneSpace
  BY DEF IInv
<1>2. info' = info /\ pool' = pool /\ given' = given /\ (place' = place \/ place' = Failed)
  OBVIOUS
<1>3. Types'
  <2>1. place' \in 0 .. ToPods
    BY <1>1 DEF Types, ToPods, Failed
  <2> QED BY <2>1, <1>1, <1>2 DEF Types, ToPods, Reserved, AllDevices
<1>4. Serving'
  BY <1>1, <1>2 DEF Serving, Owed, Failed, ToPods
<1>5. DistinctInRequest'
  BY <1>1, <1>2 DEF DistinctInRequest
<1>6. Apart'
  BY ONLY <1>1, <1>2 DEF Apart, Failed
<1>7. OneSpace'
  BY ONLY <1>1, <1>2 DEF OneSpace, Failed
<1> QED BY <1>3, <1>4, <1>5, <1>6, <1>7

\* What leaves the resources alone leaves the specifications of the pods true.
LEMMA PodsStay ==
  ASSUME IInv, UNCHANGED <<info, pool, given, specs>>, place' \in {place, Failed}
  PROVE  PodsAreSpecified'
<1>1. PodsAreSpecified
  BY DEF IInv
<1>2. info' = info /\ pool' = pool /\ given' = given /\ specs' = specs /\ (place' = place \/ place' = Failed)
  OBVIOUS
<1>3. \A i : Real(i)' = Real(i)
  BY <1>2 DEF Real, Those
<1>4. \A i, c : Connects(i, c)' = Connects(i, c)
  BY <1>3 DEF Connects
<1>5. \A i, n : (CanResolve(i, n)' <=> CanResolve(i, n)) /\ Resolve(i, n)' = Resolve(i, n)
  BY <1>2 DEF CanResolve, Resolve
<1>6. ASSUME NEW i \in DOMAIN pool, specs[i] # <<>>
      PROVE  /\ place' \in {Failed, ToPods}
             /\ CanResolve(i, specs[i][1].node)'
             /\ specs[i][1].volumes = {Identity(Real(i)[k]) : k \in DOMAIN Real(i)}'
             /\ (specs[i][1].usb = Connects(i, {"usb"}))' /\ (specs[i][1].pci = Connects(i, {"pci"}))'
             /\ Connects(i, {"network", "pci"})' => specs[i][1].network
             /\ (specs[i][1].cpu = Resolve(i, specs[i][1].node))'
  <2> DEFINE pod == specs[i][1]
  <2>1. /\ place \in {Failed, ToPods} /\ CanResolve(i, pod.node)
        /\ pod.volumes = {Identity(Real(i)[k]) : k \in DOMAIN Real(i)}
        /\ pod.usb = Connects(i, {"usb"}) /\ pod.pci = Connects(i, {"pci"})
        /\ Connects(i, {"network", "pci"}) => pod.network
        /\ pod.cpu = Resolve(i, pod.node)
    BY <1>1, <1>6 DEF PodsAreSpecified
  <2>2. place' \in {Failed, ToPods}
    BY <1>2, <2>1
  <2>3. specs' = specs /\ Real(i)' = Real(i)
    BY <1>2, <1>3
  <2>4. pod' = pod
    BY <1>2
  <2>5. (CanResolve(i, pod.node)' <=> CanResolve(i, pod.node)) /\ Resolve(i, pod.node)' = Resolve(i, pod.node)
    BY <1>5, <2>4 DEF CanResolve, Resolve
  <2>6. /\ Connects(i, {"usb"})' = Connects(i, {"usb"}) /\ Connects(i, {"pci"})' = Connects(i, {"pci"})
        /\ Connects(i, {"network", "pci"})' = Connects(i, {"network", "pci"})
    BY <1>4
  <2> QED BY <2>1, <2>2, <2>3, <2>5, <2>6
<1> QED BY <1>2, <1>6 DEF PodsAreSpecified, ToPods

\* reserve_cluster_resources keeps the invariant.
LEMMA ClusterKeeps == ASSUME PoolsAreRequests, IInv, ClusterPass PROVE IInv'
<1> DEFINE asked == OfTypes(ClusterTypes, Inputs(pool[place]))
<1>1. /\ place \in DOMAIN pool /\ Len(pool) \in Nat /\ DOMAIN pool = 1 .. Len(pool)
      /\ info' = info /\ pool' = pool /\ others' = others
      /\ \A i \in DOMAIN pool : Inputs(pool[i]) \in Seq(Asked)
      /\ \A i \in DOMAIN pool : given[i] \in Seq(Reserved)
      /\ Types /\ Serving /\ PodsAreSpecified /\ specs' = specs /\ DOMAIN given = DOMAIN pool
      /\ locks \intersect others = {}
  <2>1. Types /\ Serving /\ PodsAreSpecified /\ Held
    BY DEF IInv
  <2>2. pool \in Pools /\ given \in [DOMAIN pool -> Seq(Reserved)]
    BY <2>1 DEF Types
  <2>3. place \in DOMAIN pool /\ info' = info /\ pool' = pool /\ others' = others /\ specs' = specs
    BY DEF ClusterPass, Raise, Unchanged
  <2>4. Len(pool) \in Nat /\ DOMAIN pool = 1 .. Len(pool) /\ \A i \in DOMAIN pool : Inputs(pool[i]) \in Seq(Asked)
    BY <2>2, PoolIsRequests
  <2>5. place # Failed
    BY <2>3, <2>4 DEF Failed
  <2> QED BY <2>1, <2>2, <2>3, <2>4, <2>5 DEF Held
<1>2. /\ place \in 1 .. Len(pool) + 1 /\ place # Failed /\ place # ToPods
      /\ place + 1 # ToPods /\ place + 1 # Failed
      /\ place + 1 \in 0 .. ToPods
  BY <1>1 DEF ToPods, Failed
<1>3. /\ asked \in Seq(Asked) /\ DOMAIN asked = 1 .. Len(asked) /\ Len(asked) \in Nat
      /\ \A k \in DOMAIN asked : asked[k].type \in ClusterTypes
  BY <1>1, PartIsTyped
<1>4. /\ \A i \in DOMAIN pool : Owed(i) = IF i < place THEN OfTypes(ClusterTypes, Inputs(pool[i])) ELSE <<>>
      /\ given[place] = <<>>
  BY <1>1, <1>2, ClusterFirst
<1>5. CASE Raise
  <2>1. /\ UNCHANGED <<info, pool, given, specs, others>> /\ place' = Failed /\ locks' = {}
    BY <1>5 DEF Raise, Unchanged
  <2>2. Types' /\ Serving' /\ DistinctInRequest' /\ Apart' /\ OneSpace'
    BY <2>1, <1>1, GivenStays
  <2>3. PodsAreSpecified'
    BY <2>1, PodsStay
  <2>4. Held'
    BY <2>1 DEF Held
  <2> QED BY <2>2, <2>3, <2>4 DEF IInv
<1>6. ASSUME NEW choice \in Seq(Reserved), Len(choice) = Len(asked), DOMAIN choice = DOMAIN asked,
             \A k \in DOMAIN choice : Fits(asked[k], choice[k]) /\ LockOf(choice[k].device) \notin Taken
                                      /\ choice[k].capacity = 1,
             \A k, l \in DOMAIN choice : k # l => Identity(choice[k]) # Identity(choice[l]),
             locks' = locks \union {LockOf(choice[k].device) : k \in DOMAIN choice},
             given' = [given EXCEPT ![place] = @ \o choice], place' = place + 1
      PROVE  IInv'
  <2> DEFINE none == <<>>
             part == [i \in DOMAIN pool |-> IF i = place THEN choice ELSE none]
             now == [i \in DOMAIN pool |-> IF i = place THEN asked ELSE none]
  <2>1. none \in Seq(Reserved) /\ none \in Seq(Asked) /\ Len(none) = 0 /\ DOMAIN none = {}
    BY EmptySeq
  <2>2. (\A s \in Seq(Reserved) : s \o none = s) /\ (\A s \in Seq(Asked) : s \o none = s /\ none \o s = s)
    BY ConcatEmptySeq
  <2> HIDE DEF asked, none
  <2>3. /\ part \in [DOMAIN pool -> Seq(Reserved)]
        /\ \A i \in DOMAIN pool : i # place => part[i] = none /\ now[i] = none
        /\ part[place] = choice /\ now[place] = asked
    BY <2>1, <1>1
  <2> HIDE DEF part, now
  <2>4. ASSUME NEW i \in DOMAIN pool
        PROVE  Owed(i) \in Seq(Asked) /\ now[i] \in Seq(Asked) /\ Owed(i)' = Owed(i) \o now[i]
    <3>1. OfTypes(ClusterTypes, Inputs(pool[i])) \in Seq(Asked)
      BY <1>1, PartIsTyped
    <3>2. Owed(i) \in Seq(Asked) /\ now[i] \in Seq(Asked)
      BY <3>1, <1>3, <1>4, <2>1, <2>3 DEF none
    <3>3. Owed(i)' = IF i < place + 1 THEN OfTypes(ClusterTypes, Inputs(pool[i])) ELSE <<>>
      BY <1>1, <1>2, <1>6 DEF Owed, ToPods
    <3>4. CASE i = place
      <4>1. Owed(i) = none /\ Owed(i)' = asked
        BY <3>3, <3>4, <1>1, <1>4 DEF none, asked
      <4> QED BY <4>1, <1>3, <2>2, <2>3, <3>2, <3>4
    <3>5. CASE i # place
      <4>1. Owed(i)' = Owed(i)
        BY <3>3, <3>5, <1>1, <1>4
      <4> QED BY <4>1, <2>2, <2>3, <3>2, <3>5
    <3> QED BY <3>2, <3>4, <3>5
  <2>5. \A i \in DOMAIN pool : Len(part[i]) = Len(now[i]) /\ \A k \in DOMAIN part[i] : Fits(now[i][k], part[i][k])
    BY <1>6, <2>1, <2>3
  <2>6. \A i \in DOMAIN pool : \A k, l \in DOMAIN part[i] : k # l => Identity(part[i][k]) # Identity(part[i][l])
    BY <1>6, <2>1, <2>3
  <2>7. \A i \in DOMAIN pool : \A k \in DOMAIN given[i], l \in DOMAIN part[i] :
            Identity(given[i][k]) # Identity(part[i][l])
    BY <1>4, <2>1, <2>3
  <2>8. \A i, j \in DOMAIN pool : \A k \in DOMAIN part[i], l \in DOMAIN part[j] :
            <<i, k>> # <<j, l>> /\ part[i][k].capacity = 1 /\ part[j][l].capacity = 1
            => part[i][k].device # part[j][l].device
    <3> SUFFICES ASSUME NEW i \in DOMAIN pool, NEW j \in DOMAIN pool, NEW k \in DOMAIN part[i],
                        NEW l \in DOMAIN part[j],
                        <<i, k>> # <<j, l>>
                 PROVE  part[i][k].device # part[j][l].device
      OBVIOUS
    <3>1. i = place /\ j = place
      BY <2>1, <2>3
    <3>2. k # l /\ k \in DOMAIN choice /\ l \in DOMAIN choice /\ part[i] = choice /\ part[j] = choice
      BY <3>1, <2>3
    <3>3. Identity(choice[k]) # Identity(choice[l]) /\ choice[k].capacity = choice[l].capacity
      BY <3>2, <1>6
    <3>4. choice[k].device # choice[l].device
      BY <3>3, SameIsAlike
    <3> QED BY <3>2, <3>4
  <2>9. \A i \in DOMAIN pool : \A k \in DOMAIN part[i] : part[i][k].device.type \notin NodeTypes
    <3> SUFFICES ASSUME NEW i \in DOMAIN pool,
                        NEW k \in DOMAIN part[i] PROVE part[i][k].device.type \notin NodeTypes
      OBVIOUS
    <3>1. k \in DOMAIN choice /\ part[i] = choice
      BY <2>1, <2>3
    <3>2. choice[k].device.type \in ClusterTypes
      BY <3>1, <1>3, <1>6 DEF Fits, Serves
    <3> QED BY <3>1, <3>2 DEF ClusterTypes, NodeTypes
  <2>10. \A i \in DOMAIN pool : \A k \in DOMAIN part[i] :
            LockOf(part[i][k].device) \notin locks /\ LockOf(part[i][k].device) \in locks'
    BY <1>6, <2>1, <2>3 DEF Taken
  <2>11. locks \subseteq locks' /\ locks' \intersect others = {}
    BY <1>1, <1>6 DEF Taken
  <2>12. given' = [i \in DOMAIN pool |-> given[i] \o part[i]]
    <3>1. \A i \in DOMAIN pool : i # place => given[i] \o part[i] = given[i]
      BY <1>1, <2>2, <2>3
    <3>2. given[place] \o part[place] = given[place] \o choice
      BY <2>3
    <3> QED BY <3>1, <3>2, <1>1, <1>6
  <2>13. /\ given' \in [DOMAIN pool -> Seq(Reserved)]
         /\ Serving' /\ DistinctInRequest' /\ Apart' /\ Held' /\ OneSpace'
    <3>1. place' # Failed
      BY <1>2, <1>6
    <3>2. UNCHANGED <<info, pool, others, specs>>
      BY <1>1
    <3>3. \A i, j \in DOMAIN pool : \A k \in DOMAIN part[i], l \in DOMAIN part[j] :
            part[i][k].device.type \in NodeTypes /\ part[j][l].device.type \in NodeTypes
            => part[i][k].device.space = part[j][l].device.space
      BY <2>9
    <3> QED BY <1>2, <2>3, <2>4, <2>5, <2>6, <2>7, <2>8, <2>10, <2>11, <2>12, <3>1, <3>2, <3>3, Grant
  <2>14. Types'
    <3>1. Reserved' = Reserved /\ ToPods' = ToPods
      BY <1>1 DEF Reserved, AllDevices, ToPods
    <3> QED BY <2>13, <3>1, <1>1, <1>2, <1>6 DEF Types
  <2>15. PodsAreSpecified'
    <3>1. \A i \in DOMAIN pool : specs'[i] = <<>>
      BY <1>1, <1>2 DEF PodsAreSpecified
    <3> QED BY <3>1, <1>1 DEF PodsAreSpecified
  <2> QED BY <2>13, <2>14, <2>15 DEF IInv
<1>7. CASE asked = <<>> /\ place' = place + 1 /\ UNCHANGED <<locks, given>>
  <2> DEFINE none == <<>>
  <2>1. none \in Seq(Reserved) /\ Len(none) = 0 /\ DOMAIN none = {} /\ asked = none
    BY <1>7, EmptySeq
  <2>2. given' = [given EXCEPT ![place] = @ \o none]
    <3>1. given[place] \o none = given[place]
      BY <1>1, ConcatEmptySeq
    <3>2. given \in [DOMAIN pool -> Seq(Reserved)]
      BY <1>1 DEF Types
    <3> HIDE DEF none
    <3>3. [given EXCEPT ![place] = @ \o none] = given
      BY ONLY <3>1, <3>2
    <3> QED BY <3>3, <1>7
  <2> HIDE DEF none, asked
  <2> QED BY <2>1, <2>2, <1>6, <1>7
<1>8. ASSUME NEW choice \in Combinations(asked, {d \in ClusterDevices : IsAvailable(d)}),
             locks' = locks \union {LockOf(choice[i].device) : i \in DOMAIN choice},
             given' = [given EXCEPT ![place] = @ \o choice], place' = place + 1
      PROVE  IInv'
  <2> DEFINE D == {d \in ClusterDevices : IsAvailable(d)}
  <2>1. D \subseteq AllDevices
    BY DEF ClusterDevices, Devices, AllDevices
  <2>2. \A d \in D : LockOf(d) \notin Taken
    BY DEF ClusterDevices, IsAvailable
  <2> HIDE DEF D, asked
  <2>3. choice \in Combinations(asked, D)
    BY DEF D
  <2>4. /\ choice \in Seq(Reserved) /\ Len(choice) = Len(asked) /\ DOMAIN choice = DOMAIN asked
        /\ \A k \in DOMAIN choice :
               /\ choice[k].device \in D /\ Fits(asked[k], choice[k])
               /\ choice[k].capacity = CapacityFor(asked, k)
        /\ \A k, l \in DOMAIN choice : k # l => Identity(choice[k]) # Identity(choice[l])
    BY <1>3, <2>1, <2>3, ChoiceServes
  <2>5. \A k \in DOMAIN asked : CapacityFor(asked, k) = 1
    BY <1>3 DEF CapacityFor, ClusterTypes, NodeTypes
  <2> QED BY <2>2, <2>4, <2>5, <1>6, <1>8
<1>9. \/ asked = <<>> /\ place' = place + 1 /\ UNCHANGED <<locks, given>>
      \/ Raise
      \/ /\ \E choice \in Combinations(asked, {d \in ClusterDevices : IsAvailable(d)}) :
               /\ locks' = locks \union {LockOf(choice[i].device) : i \in DOMAIN choice}
               /\ given' = [given EXCEPT ![place] = @ \o choice]
         /\ place' = place + 1
  BY DEF ClusterPass
<1> HIDE DEF asked
<1> QED BY <1>5, <1>7, <1>8, <1>9

\* reserve_node_resources keeps the invariant.
LEMMA NodesKeep == ASSUME PoolsAreRequests, IInv, NodePass PROVE IInv'
<1> DEFINE inputs == OfTypes(NodeTypes, AllInputs)
           asked(i) == OfTypes(NodeTypes, Inputs(pool[i]))
<1>1. /\ place = Len(pool) + 1 /\ Len(pool) \in Nat /\ DOMAIN pool = 1 .. Len(pool)
      /\ info' = info /\ pool' = pool /\ others' = others /\ pool \in Pools
      /\ AllInputs \in Seq(Asked) /\ \A i \in DOMAIN pool : Inputs(pool[i]) \in Seq(Asked)
      /\ \A i, j \in DOMAIN pool : pool[i].name = pool[j].name => i = j
      /\ \A i \in DOMAIN pool : given[i] \in Seq(Reserved)
      /\ Types /\ Serving /\ PodsAreSpecified /\ specs' = specs /\ DOMAIN given = DOMAIN pool
      /\ locks \intersect others = {}
  <2>1. Types /\ Serving /\ PodsAreSpecified /\ Held
    BY DEF IInv
  <2>2. pool \in Pools /\ given \in [DOMAIN pool -> Seq(Reserved)]
    BY <2>1 DEF Types
  <2>3. place = Len(pool) + 1 /\ info' = info /\ pool' = pool /\ others' = others /\ specs' = specs
    BY DEF NodePass, Unchanged
  <2>4. /\ Len(pool) \in Nat /\ DOMAIN pool = 1 .. Len(pool)
        /\ \A i \in DOMAIN pool : Inputs(pool[i]) \in Seq(Asked)
        /\ AllInputs \in Seq(Asked) /\ \A i, j \in DOMAIN pool : pool[i].name = pool[j].name => i = j
    BY <2>2, PoolIsRequests
  <2>5. place # Failed
    BY <2>3, <2>4 DEF Failed
  <2> QED BY <2>1, <2>2, <2>3, <2>4, <2>5 DEF Held
<1>2. /\ place \in 1 .. Len(pool) + 1 /\ place # Failed /\ place # ToPods
      /\ ToPods # Failed /\ ToPods \in 0 .. ToPods
      /\ \A i \in DOMAIN pool : i < place
  BY <1>1 DEF ToPods, Failed
<1>3. /\ inputs \in Seq(Asked) /\ DOMAIN inputs = 1 .. Len(inputs) /\ Len(inputs) \in Nat
      /\ \A k \in DOMAIN inputs : inputs[k].type \in NodeTypes
  BY <1>1, PartIsTyped
<1>4. \A i \in DOMAIN pool : Owed(i) = OfTypes(ClusterTypes, Inputs(pool[i]))
  BY <1>1, <1>2, ClusterFirst
<1>5. \A i \in DOMAIN pool : \A k \in DOMAIN given[i] : given[i][k].device.type \in ClusterTypes
  BY <1>1, <1>2, ClusterFirst
<1>6. \A i \in DOMAIN pool : /\ asked(i) \in Seq(Asked) /\ DOMAIN asked(i) = 1 .. Len(asked(i))
                             /\ \A k \in DOMAIN asked(i) : asked(i)[k].type \in NodeTypes
  BY <1>1, PartIsTyped
<1> DEFINE Served(choice, s) ==
             /\ Len(choice) = Len(inputs) /\ DOMAIN choice = DOMAIN inputs
             /\ locks' \in {locks, locks \union {<<"space", s>>}}
             /\ choice # <<>> => locks' = locks \union {<<"space", s>>} /\ <<"space", s>> \notin Taken
             /\ locks' # locks => <<"space", s>> \notin Taken
             /\ \A k \in DOMAIN choice : /\ Fits(inputs[k], choice[k]) /\ choice[k].id = inputs[k].id
                                         /\ choice[k].device.space = s
             /\ \A k, l \in DOMAIN choice : k # l => Identity(choice[k]) # Identity(choice[l])
             /\ given' = [i \in DOMAIN pool |-> given[i] \o GetResourcesById(choice, pool[i].name)]
             /\ place' = ToPods
<1>7. ASSUME NEW choice \in Seq(Reserved), NEW s, Served(choice, s) PROVE IInv'
  <2> DEFINE part == [i \in DOMAIN pool |-> GetResourcesById(choice, pool[i].name)]
             now == [i \in DOMAIN pool |-> asked(i)]
             Comes(i, m) == /\ m \in [DOMAIN part[i] -> DOMAIN choice]
                            /\ \A k, l \in DOMAIN part[i] : k # l => m[k] # m[l]
                            /\ \A k \in DOMAIN part[i] : part[i][k] = choice[m[k]]
                                  /\ choice[m[k]].id = pool[i].name
  <2>1. ASSUME NEW i \in DOMAIN pool
        PROVE  /\ part[i] \in Seq(Reserved) /\ Len(part[i]) = Len(now[i])
               /\ DOMAIN part[i] = 1 .. Len(part[i])
               /\ \A k \in DOMAIN part[i] : Fits(now[i][k], part[i][k])
               /\ \E m : Comes(i, m)
    <3> DEFINE p == part[i]
               a == asked(i)
    <3>1. p = GetResourcesById(choice, pool[i].name) /\ a = OfTypes(NodeTypes, Inputs(pool[i])) /\ now[i] = a
      OBVIOUS
    <3> HIDE DEF inputs, p, a
    <3>2. inputs = OfTypes(NodeTypes, AllInputs)
      BY DEF inputs
    <3>3. \A k \in DOMAIN choice : Fits(inputs[k], choice[k]) /\ choice[k].id = inputs[k].id
      BY <1>7
    <3>4. /\ p \in Seq(Reserved) /\ Len(p) = Len(a) /\ DOMAIN p = 1 .. Len(p)
          /\ \A k \in DOMAIN p : Fits(a[k], p[k])
          /\ \E m \in [DOMAIN p -> DOMAIN choice] :
               /\ \A k, l \in DOMAIN p : k # l => m[k] # m[l]
               /\ \A k \in DOMAIN p : p[k] = choice[m[k]] /\ choice[m[k]].id = pool[i].name
      <4>1. PoolsAreRequests /\ pool \in Pools /\ Len(choice) = Len(inputs) /\ i \in DOMAIN pool
        BY <1>1, <1>7
      <4>2. /\ Len(choice) = Len(OfTypes(NodeTypes, AllInputs))
            /\ \A k \in DOMAIN choice : /\ Fits(OfTypes(NodeTypes, AllInputs)[k], choice[k])
                                       /\ choice[k].id = OfTypes(NodeTypes, AllInputs)[k].id
        BY <3>2, <3>3, <4>1
      <4>3. LET q == GetResourcesById(choice, pool[i].name)
                r == OfTypes(NodeTypes, Inputs(pool[i]))
            IN  /\ q \in Seq(Reserved) /\ Len(q) = Len(r) /\ DOMAIN q = 1 .. Len(q)
                /\ \A k \in DOMAIN q : Fits(r[k], q[k])
                /\ \E m \in [DOMAIN q -> DOMAIN choice] :
                      /\ \A k, l \in DOMAIN q : k # l => m[k] # m[l]
                      /\ \A k \in DOMAIN q : q[k] = choice[m[k]] /\ choice[m[k]].id = pool[i].name
        BY <4>1, <4>2, DividedParts
      <4> QED BY <4>3, <3>1
    <3> HIDE DEF part, now
    <3> QED BY <3>1, <3>4 DEF p
  <2>2. part \in [DOMAIN pool -> Seq(Reserved)] /\ \A i \in DOMAIN pool : now[i] = asked(i)
    <3>1. \A i \in DOMAIN pool : GetResourcesById(choice, pool[i].name) \in Seq(Reserved)
      BY <2>1
    <3> QED BY <3>1
  <2>3. given' = [i \in DOMAIN pool |-> given[i] \o part[i]]
    BY <1>7
  <2> HIDE DEF part, now, asked, inputs
  \* Where the elements of a part come from.
  <2>4. ASSUME NEW i \in DOMAIN pool, NEW k \in DOMAIN part[i]
        PROVE  /\ \E x \in DOMAIN choice : part[i][k] = choice[x] /\ choice[x].id = pool[i].name
               /\ part[i][k].device.space = s /\ part[i][k].device.type \in NodeTypes
    <3>1. PICK m : Comes(i, m)
      BY <2>1
    <3>2. m[k] \in DOMAIN choice /\ part[i][k] = choice[m[k]] /\ choice[m[k]].id = pool[i].name
      BY <3>1
    <3>3. choice[m[k]].device.space = s /\ choice[m[k]].device.type \in NodeTypes
      BY <3>2, <1>3, <1>7 DEF Fits, Serves
    <3> QED BY <3>2, <3>3
  <2>5. ASSUME NEW i \in DOMAIN pool, NEW j \in DOMAIN pool, NEW k \in DOMAIN part[i], NEW l \in DOMAIN part[j],
               <<i, k>> # <<j, l>>
        PROVE  Identity(part[i][k]) # Identity(part[j][l])
    <3>1. CASE i = j
      <4>1. PICK m : Comes(i, m)
        BY <2>1
      <4>2. k # l /\ l \in DOMAIN part[i]
        BY <3>1, <2>5
      <4>3. /\ m[k] # m[l] /\ m[k] \in DOMAIN choice /\ m[l] \in DOMAIN choice
            /\ part[i][k] = choice[m[k]] /\ part[j][l] = choice[m[l]]
        BY <3>1, <4>1, <4>2
      <4> QED BY <4>3, <1>7
    <3>2. CASE i # j
      <4>1. PICK x \in DOMAIN choice : part[i][k] = choice[x] /\ choice[x].id = pool[i].name
        BY <2>4
      <4>2. PICK y \in DOMAIN choice : part[j][l] = choice[y] /\ choice[y].id = pool[j].name
        BY <2>4
      <4>3. x # y
        BY <4>1, <4>2, <3>2, <1>1
      <4> QED BY <4>1, <4>2, <4>3, <1>7
    <3> QED BY <3>1, <3>2
  <2>6. \A i \in DOMAIN pool : Owed(i) \in Seq(Asked) /\ now[i] \in Seq(Asked) /\ Owed(i)' = Owed(i) \o now[i]
    <3> SUFFICES ASSUME NEW i \in DOMAIN pool
                 PROVE  Owed(i) \in Seq(Asked) /\ now[i] \in Seq(Asked) /\ Owed(i)' = Owed(i) \o now[i]
      OBVIOUS
    <3>1. Owed(i) \in Seq(Asked) /\ now[i] \in Seq(Asked)
      BY <1>1, <1>4, <1>6, <2>2, PartIsTyped
    <3>2. Owed(i)' = OfTypes(ClusterTypes, Inputs(pool[i])) \o OfTypes(NodeTypes, Inputs(pool[i]))
      BY <1>1, <1>7 DEF Owed, ToPods
    <3> QED BY <3>1, <3>2, <1>4, <2>2 DEF asked
  <2>7. \A i \in DOMAIN pool : Len(part[i]) = Len(now[i]) /\ \A k \in DOMAIN part[i] : Fits(now[i][k], part[i][k])
    BY <2>1
  <2>8. \A i \in DOMAIN pool : \A k, l \in DOMAIN part[i] : k # l => Identity(part[i][k]) # Identity(part[i][l])
    BY <2>5
  <2>9. \A i \in DOMAIN pool : \A k \in DOMAIN given[i], l \in DOMAIN part[i] :
            Identity(given[i][k]) # Identity(part[i][l])
    <3> SUFFICES ASSUME NEW i \in DOMAIN pool, NEW k \in DOMAIN given[i], NEW l \in DOMAIN part[i]
                 PROVE  Identity(given[i][k]) # Identity(part[i][l])
      OBVIOUS
    <3>1. given[i][k].device.type # part[i][l].device.type
      BY <1>5, <2>4 DEF ClusterTypes, NodeTypes
    <3> QED BY <3>1 DEF Identity
  <2>10. \A i, j \in DOMAIN pool : \A k \in DOMAIN part[i], l \in DOMAIN part[j] :
            <<i, k>> # <<j, l>> /\ part[i][k].capacity = 1 /\ part[j][l].capacity = 1
            => part[i][k].device # part[j][l].device
    <3> SUFFICES ASSUME NEW i \in DOMAIN pool, NEW j \in DOMAIN pool, NEW k \in DOMAIN part[i],
                        NEW l \in DOMAIN part[j],
                        <<i, k>> # <<j, l>>, part[i][k].capacity = 1, part[j][l].capacity = 1
                 PROVE  part[i][k].device # part[j][l].device
      OBVIOUS
    <3>1. Identity(part[i][k]) # Identity(part[j][l])
      BY <2>5
    <3>2. part[i][k].capacity = part[j][l].capacity
      OBVIOUS
    <3> QED BY <3>1, <3>2, SameIsAlike
  <2>11. \A i, j \in DOMAIN pool : \A k \in DOMAIN part[i], l \in DOMAIN part[j] :
            part[i][k].device.type \in NodeTypes /\ part[j][l].device.type \in NodeTypes
            => part[i][k].device.space = part[j][l].device.space
    BY <2>4
  <2>12. \A i \in DOMAIN pool : \A k \in DOMAIN part[i] :
            LockOf(part[i][k].device) \notin locks /\ LockOf(part[i][k].device) \in locks'
    <3> SUFFICES ASSUME NEW i \in DOMAIN pool, NEW k \in DOMAIN part[i]
                 PROVE  LockOf(part[i][k].device) \notin locks /\ LockOf(part[i][k].device) \in locks'
      OBVIOUS
    <3>1. part[i][k].device.space = s /\ part[i][k].device.type \notin ClusterTypes
      BY <2>4 DEF ClusterTypes, NodeTypes
    <3>2. LockOf(part[i][k].device) = <<"space", s>>
      BY <3>1 DEF LockOf
    <3>3. choice # <<>>
      BY <2>4, EmptySeq
    <3> QED BY <3>2, <3>3, <1>7 DEF Taken
  <2>13. locks \subseteq locks' /\ locks' \intersect others = {}
    <3>1. locks' = locks \/ (locks' = locks \union {<<"space", s>>} /\ <<"space", s>> \notin others)
      BY <1>7 DEF Taken
    <3>2. locks \intersect others = {}
      BY <1>1
    <3> QED BY ONLY <3>1, <3>2
  <2>14. /\ given' \in [DOMAIN pool -> Seq(Reserved)]
         /\ Serving' /\ DistinctInRequest' /\ Apart' /\ Held' /\ OneSpace'
    <3>1. place' # Failed
      BY <1>2, <1>7
    <3>2. UNCHANGED <<info, pool, others, specs>>
      BY <1>1
    <3> QED BY <1>2, <2>2, <2>3, <2>6, <2>7, <2>8, <2>9, <2>10, <2>11, <2>12, <2>13, <3>1, <3>2, Grant
  <2>15. Types'
    <3>1. Reserved' = Reserved /\ ToPods' = ToPods
      BY <1>1 DEF Reserved, AllDevices, ToPods
    <3> QED BY <2>14, <3>1, <1>1, <1>2, <1>7 DEF Types
  <2>16. PodsAreSpecified'
    <3>1. \A i \in DOMAIN pool : specs'[i] = <<>>
      BY <1>1, <1>2 DEF PodsAreSpecified
    <3> QED BY <3>1, <1>1 DEF PodsAreSpecified
  <2> QED BY <2>14, <2>15, <2>16 DEF IInv
<1>8. CASE inputs = <<>> /\ place' = ToPods /\ UNCHANGED <<locks, given>>
  <2> DEFINE none == <<>>
  <2>1. none \in Seq(Reserved) /\ Len(none) = 0 /\ DOMAIN none = {} /\ inputs = none
    BY <1>8, EmptySeq
  <2>2. given' = [i \in DOMAIN pool |-> given[i] \o GetResourcesById(none, pool[i].name)]
    <3>1. \A name : GetResourcesById(none, name) = none
      <4>1. \A name : [i \in DOMAIN none |-> IF none[i].id = name THEN <<none[i]>> ELSE <<>>] = <<>>
        OBVIOUS
      <4> QED BY <4>1, FlattenOfAppended DEF GetResourcesById, Those
    <3>2. \A i \in DOMAIN pool : given[i] \o none = given[i]
      BY <1>1, ConcatEmptySeq
    <3>3. given \in [DOMAIN pool -> Seq(Reserved)]
      BY <1>1 DEF Types
    <3> HIDE DEF none
    <3>4. [i \in DOMAIN pool |-> given[i] \o GetResourcesById(none, pool[i].name)] = given
      BY ONLY <3>1, <3>2, <3>3
    <3> QED BY <3>4, <1>8
  <2>3. none = <<>>
    OBVIOUS
  <2>4. Served(none, 0)
    <3> HIDE DEF none, inputs
    <3> QED BY <2>1, <2>2, <2>3, <1>8
  <2> HIDE DEF none, inputs, Served
  <2> QED BY <2>1, <2>4, <1>7
<1>9. ASSUME NEW s, NEW free, free = {d \in NodeDevices : IsAvailable(d)}, s \in SpacesFor(inputs, free),
             NEW choice \in Combinations(inputs, {d \in free : d.space = s}),
             locks' = locks \union {<<"space", s>>},
             given' = [i \in DOMAIN pool |-> given[i] \o GetResourcesById(choice, pool[i].name)], place' = ToPods
      PROVE  IInv'
  <2> DEFINE D == {d \in free : d.space = s}
  <2>1. D \subseteq AllDevices
    BY <1>9 DEF NodeDevices, Devices, AllDevices
  <2>2. <<"space", s>> \notin Taken
    <3>1. PICK d \in free : d.space = s
      BY <1>9 DEF SpacesFor
    <3>2. d.type \notin ClusterTypes /\ IsAvailable(d)
      BY <1>9 DEF NodeDevices, NodeTypes, ClusterTypes
    <3> QED BY <3>1, <3>2 DEF IsAvailable, LockOf
  <2>3. \A d \in D : d.space = s
    OBVIOUS
  <2>4. choice \in Combinations(inputs, D)
    OBVIOUS
  <2> HIDE DEF D, inputs
  <2>5. /\ choice \in Seq(Reserved) /\ Len(choice) = Len(inputs) /\ DOMAIN choice = DOMAIN inputs
        /\ \A k \in DOMAIN choice :
               /\ choice[k].device \in D /\ Fits(inputs[k], choice[k]) /\ choice[k].id = inputs[k].id
        /\ \A k, l \in DOMAIN choice : k # l => Identity(choice[k]) # Identity(choice[l])
    BY <1>3, <2>1, <2>4, ChoiceServes
  <2>6. \A k \in DOMAIN choice : /\ Fits(inputs[k], choice[k]) /\ choice[k].id = inputs[k].id
                                 /\ choice[k].device.space = s
    BY <2>3, <2>5
  <2>7. /\ locks' \in {locks, locks \union {<<"space", s>>}}
        /\ locks' = locks \union {<<"space", s>>} /\ <<"space", s>> \notin Taken
        /\ given' = [i \in DOMAIN pool |-> given[i] \o GetResourcesById(choice, pool[i].name)] /\ place' = ToPods
    BY <2>2, <1>9
  <2>8. Served(choice, s)
    BY ONLY <2>5, <2>6, <2>7
  <2> HIDE DEF Served
  <2> QED BY <2>5, <2>8, <1>7
<1>10. \/ inputs = <<>> /\ place' = ToPods /\ UNCHANGED <<locks, given>>
       \/ LET free == {d \in NodeDevices : IsAvailable(d)}
          IN  /\ \E s \in SpacesFor(inputs, free) :
                    \E choice \in Combinations(inputs, {d \in free : d.space = s}) :
                    /\ locks' = locks \union {<<"space", s>>}
                    /\ given' = [i \in DOMAIN pool |-> given[i] \o GetResourcesById(choice, pool[i].name)]
              /\ place' = ToPods
  BY DEF NodePass
<1> HIDE DEF inputs
<1> QED BY <1>8, <1>9, <1>10

\* The creation of a pod keeps the invariant.
LEMMA PodKeeps == ASSUME PoolsAreRequests, IInv, NEW i \in DOMAIN pool, CreatePod(i) PROVE IInv'
<1>1. /\ place = ToPods /\ specs[i] = <<>> /\ place' = place
      /\ info' = info /\ pool' = pool /\ given' = given /\ locks' = locks /\ others' = others
  BY DEF CreatePod, Unchanged
<1>2. PICK n : CanResolve(i, n) /\ specs' = [specs EXCEPT ![i] = <<PodSpec(i, n)>>]
  BY DEF CreatePod
<1>3. Types /\ PodsAreSpecified /\ Held /\ Len(pool) \in Nat /\ DOMAIN specs = DOMAIN pool
  BY PoolIsRequests DEF IInv, Types
<1>4. DOMAIN specs' = DOMAIN specs /\ specs'[i] = <<PodSpec(i, n)>>
      /\ \A j \in DOMAIN pool : j # i => specs'[j] = specs[j]
  BY <1>2, <1>3
<1>5. Types' /\ Serving' /\ DistinctInRequest' /\ Apart' /\ OneSpace'
  BY <1>1, <1>3, <1>4, GivenStays
<1>6. Held'
  BY <1>1, <1>3 DEF Held, LockOf
<1>7. \A j : Real(j)' = Real(j)
  BY <1>1 DEF Real, Those
<1>8. \A j, c : Connects(j, c)' = Connects(j, c)
  BY <1>7 DEF Connects
<1>9. \A j, m : (CanResolve(j, m)' <=> CanResolve(j, m)) /\ Resolve(j, m)' = Resolve(j, m)
  BY <1>1 DEF CanResolve, Resolve
<1> DEFINE Specified(j, pod) ==
              /\ CanResolve(j, pod.node)
              /\ pod.volumes = {Identity(Real(j)[k]) : k \in DOMAIN Real(j)}
              /\ pod.usb = Connects(j, {"usb"}) /\ pod.pci = Connects(j, {"pci"})
              /\ Connects(j, {"network", "pci"}) => pod.network
              /\ pod.cpu = Resolve(j, pod.node)
<1>10. ASSUME NEW j \in DOMAIN pool, specs'[j] # <<>> PROVE Specified(j, specs'[j][1])
  <2>1. CASE j = i
    <3> DEFINE pod == PodSpec(i, n)
    <3>1. specs'[j][1] = pod
      BY <1>4, <2>1
    <3>2. /\ pod.node = n /\ pod.volumes = {Identity(Real(i)[k]) : k \in DOMAIN Real(i)}
          /\ pod.usb = Connects(i, {"usb"}) /\ pod.pci = Connects(i, {"pci"})
          /\ (Connects(i, {"network", "pci"}) => pod.network) /\ pod.cpu = Resolve(i, n)
      BY DEF PodSpec
    <3> HIDE DEF pod
    <3> QED BY <3>1, <3>2, <2>1, <1>2
  <2>2. CASE j # i
    BY <2>2, <1>3, <1>4, <1>10 DEF PodsAreSpecified
  <2> QED BY <2>1, <2>2
<1>11. ASSUME NEW j \in DOMAIN pool, specs'[j] # <<>>
       PROVE  /\ CanResolve(j, specs[j][1].node)'
              /\ (specs[j][1].volumes = {Identity(Real(j)[k]) : k \in DOMAIN Real(j)})'
              /\ (specs[j][1].usb = Connects(j, {"usb"}))' /\ (specs[j][1].pci = Connects(j, {"pci"}))'
              /\ (Connects(j, {"network", "pci"}) => specs[j][1].network)'
              /\ (specs[j][1].cpu = Resolve(j, specs[j][1].node))'
  <2> DEFINE pod == specs[j][1]
  <2>1. Specified(j, pod')
    BY <1>10, <1>11
  <2>2. (CanResolve(j, pod.node)' <=> CanResolve(j, pod'.node)) /\ Resolve(j, pod.node)' = Resolve(j, pod'.node)
    BY <1>1 DEF CanResolve, Resolve
  <2>3. /\ Connects(j, {"usb"})' = Connects(j, {"usb"}) /\ Connects(j, {"pci"})' = Connects(j, {"pci"})
        /\ Connects(j, {"network", "pci"})' = Connects(j, {"network", "pci"}) /\ Real(j)' = Real(j)
    BY <1>7, <1>8
  <2> QED BY <2>1, <2>2, <2>3
<1>12. PodsAreSpecified'
  BY <1>1, <1>11 DEF PodsAreSpecified, ToPods
<1> QED BY <1>5, <1>6, <1>12 DEF IInv

\* Every step keeps the invariant.
LEMMA NextInv == ASSUME PoolsAreRequests, IInv, [MatchingNext]_matchingVars PROVE IInv'
<1>1. Types /\ Held /\ Len(pool) \in Nat /\ DOMAIN specs = DOMAIN pool
  BY PoolIsRequests DEF IInv, Types
\* What leaves the requests, the resources and the pods alone.
<1>2. ASSUME UNCHANGED <<info, pool, given, specs>>, place' \in {place, Failed}, Held' PROVE IInv'
  <2>1. Types' /\ Serving' /\ DistinctInRequest' /\ Apart' /\ OneSpace'
    BY <1>1, <1>2, GivenStays
  <2>2. PodsAreSpecified'
    BY <1>2, PodsStay
  <2> QED BY <2>1, <2>2, <1>2 DEF IInv
<1>3. ASSUME Raise PROVE IInv'
  <2>1. UNCHANGED <<info, pool, given, specs>> /\ place' = Failed
    BY <1>3 DEF Raise, Unchanged
  <2>2. Held'
    BY <2>1 DEF Held, Failed
  <2> QED BY <2>1, <2>2, <1>2
<1>4. ASSUME UNCHANGED <<info, pool, given, specs, place, locks>>, locks \intersect others' = {} PROVE IInv'
  <2>1. Held'
    BY <1>1, <1>4 DEF Held, LockOf
  <2> QED BY <2>1, <1>2, <1>4
<1>5. CASE ClusterPass
  BY <1>5, ClusterKeeps
<1>6. CASE NodePass
  BY <1>6, NodesKeep
<1>7. CASE Expire
  BY <1>3, <1>7 DEF Expire
<1>8. ASSUME NEW i \in DOMAIN pool, CreatePod(i) PROVE IInv'
  BY <1>8, PodKeeps
<1>9. ASSUME NEW i \in DOMAIN pool, CannotPlace(i) PROVE IInv'
  BY <1>3, <1>9 DEF CannotPlace
<1>10. ASSUME place # Failed, UNCHANGED <<info, pool, given, specs, place, locks>>,
              OthersLock \/ OthersUnlock \/ NodeTainted \/ NodeLeaves
       PROVE  IInv'
  <2>1. locks \intersect others = {}
    BY <1>1, <1>10 DEF Held
  <2>2. locks \intersect others' = {}
    BY <2>1, <1>10 DEF OthersLock, OthersUnlock, NodeTainted, NodeLeaves, Taken
  <2> QED BY <2>2, <1>4, <1>10
<1>11. CASE Change(OthersLock) \/ Change(OthersUnlock) \/ Change(NodeTainted) \/ Change(NodeLeaves)
  <2>1. /\ place # Failed /\ UNCHANGED <<info, pool, given, specs, place, locks>>
        /\ OthersLock \/ OthersUnlock \/ NodeTainted \/ NodeLeaves
    BY <1>11 DEF Change
  <2> QED BY <2>1, <1>10
<1>12. CASE UNCHANGED matchingVars
  <2>1. Held'
    BY <1>1, <1>12 DEF matchingVars, Held, LockOf
  <2> QED BY <2>1, <1>2, <1>12 DEF matchingVars
<1> QED BY <1>5, <1>6, <1>7, <1>8, <1>9, <1>11, <1>12 DEF MatchingNext

\* The invariant holds whatever the requests, the cluster and the locks of the others.
THEOREM MatchingInvariant == MatchingSpec => []IInv
<1>1. MatchingInit => IInv
  BY InitInv, FilesAssumption
<1>2. IInv /\ [MatchingNext]_matchingVars => IInv'
  BY NextInv, FilesAssumption
<1> QED BY <1>1, <1>2, PTL DEF MatchingSpec

-----------------------------------------------------------------------------
(* What follows from it.                                                   *)

\* Once the passes are over, everything that was owed has been given.
LEMMA InvServes == ASSUME PoolsAreRequests, IInv PROVE ServedAsAsked
<1> SUFFICES ASSUME place = ToPods PROVE
    /\ \A i \in DOMAIN pool :
          LET asked == OfTypes(ClusterTypes, Inputs(pool[i])) \o OfTypes(NodeTypes, Inputs(pool[i]))
          IN  /\ Len(given[i]) = Len(asked)
              /\ \A k \in DOMAIN asked : /\ Serves(asked[k], given[i][k].device)
                                         /\ asked[k].capacity = 1 => given[i][k].capacity = 1
    /\ \A a, b \in Slots :
          a # b /\ At(a).capacity = 1 /\ At(b).capacity = 1 => At(a).device # At(b).device
    /\ Cardinality(InSpaces) <= 1
    /\ \A a \in Slots : LockOf(At(a).device) \in locks /\ LockOf(At(a).device) \notin others
  BY DEF ServedAsAsked
<1>1. /\ Serving /\ Apart /\ Held /\ OneSpace /\ \A i \in DOMAIN pool : given[i] \in Seq(Reserved)
      /\ pool \in Pools
  BY DEF IInv, Types
<1>2. place # Failed
  BY <1>1, PoolIsRequests DEF ToPods, Failed
<1>3. ASSUME NEW i \in DOMAIN pool,
             NEW asked, asked = OfTypes(ClusterTypes, Inputs(pool[i])) \o OfTypes(NodeTypes, Inputs(pool[i]))
      PROVE  /\ Len(given[i]) = Len(asked)
             /\ \A k \in DOMAIN asked : /\ Serves(asked[k], given[i][k].device)
                                        /\ asked[k].capacity = 1 => given[i][k].capacity = 1
  <2>1. Owed(i) = asked
    BY <1>3 DEF Owed
  <2>2. Len(given[i]) = Len(asked) /\ \A k \in DOMAIN given[i] : Fits(asked[k], given[i][k])
    BY <2>1, <1>1, <1>2 DEF Serving
  <2>3. asked \in Seq(Asked)
    BY <1>1, <1>3, PoolIsRequests, PartIsTyped, ConcatProperties
  <2>4. DOMAIN asked = DOMAIN given[i]
    BY <2>2, <2>3, <1>1, LenProperties
  <2> QED BY <2>2, <2>4 DEF Fits
<1>4. ASSUME NEW a \in Slots
      PROVE  \E i \in DOMAIN pool : \E k \in DOMAIN given[i] : a = <<i, k>> /\ At(a) = given[i][k]
  BY DEF Slots, At
<1>5. ASSUME NEW a \in Slots, NEW b \in Slots, a # b, At(a).capacity = 1, At(b).capacity = 1
      PROVE  At(a).device # At(b).device
  <2>1. PICK i \in DOMAIN pool : \E k \in DOMAIN given[i] : a = <<i, k>> /\ At(a) = given[i][k]
    BY <1>4
  <2>2. PICK k \in DOMAIN given[i] : a = <<i, k>> /\ At(a) = given[i][k]
    BY <2>1
  <2>3. PICK j \in DOMAIN pool : \E l \in DOMAIN given[j] : b = <<j, l>> /\ At(b) = given[j][l]
    BY <1>4
  <2>4. PICK l \in DOMAIN given[j] : b = <<j, l>> /\ At(b) = given[j][l]
    BY <2>3
  <2> QED BY <2>2, <2>4, <1>1, <1>2, <1>5 DEF Apart
<1>6. \A a \in Slots : LockOf(At(a).device) \in locks /\ LockOf(At(a).device) \notin others
  BY <1>1, <1>2, <1>4 DEF Held
<1>7. \A s, t \in InSpaces : s = t
  BY <1>1, <1>2 DEF InSpaces, OneSpace
<1>8. Cardinality(InSpaces) <= 1
  <2>1. CASE InSpaces = {}
    BY <2>1, FS_EmptySet
  <2>2. CASE InSpaces # {}
    <3>1. PICK s : s \in InSpaces
      BY <2>2
    <3>2. InSpaces = {s}
      BY <3>1, <1>7
    <3> QED BY <3>2, FS_Singleton
  <2> QED BY <2>1, <2>2
<1> QED BY <1>3, <1>5, <1>6, <1>8

\* What the provers are told of the rounding of parts that are more than a core.
LEMMA PartsAreNoMore ==
  ASSUME NEW c \in Nat, NEW p \in Nat, NEW q \in Nat, p + q <= 100, Scale(c, p) >= 100, Scale(c, q) >= 100
  PROVE  RoundCpu(Scale(c, p), "truncate") + RoundCpu(Scale(c, q), "round") <= 100 * c
<1> DEFINE x == Scale(c, p)
           y == Scale(c, q)
           a == x \div 100
           b == (y + 50) \div 100
<1>1. x \in Nat /\ y \in Nat /\ x + y <= 100 * c
  <2>1. x = c * p /\ y = c * q
    BY DEF Scale
  <2>2. c * p \in Nat /\ c * q \in Nat /\ c * p + c * q = c * (p + q)
    OBVIOUS
  <2>3. \A m, n \in Nat : m <= n => c * m <= c * n
    OBVIOUS
  <2>4. c * (p + q) <= c * 100
    BY <2>3
  <2> QED BY <2>1, <2>2, <2>4
<1>2. x >= 100 /\ y >= 100
  OBVIOUS
<1> HIDE DEF x, y
<1>3. /\ a \in Int /\ b \in Int /\ 100 * a <= x /\ 100 * b <= y + 50 /\ a >= 1 /\ b >= 1
  BY <1>1, <1>2
<1>4. RoundCpu(x, "truncate") = 100 * a /\ RoundCpu(y, "round") = 100 * b
  BY <1>3 DEF RoundCpu
<1> HIDE DEF a, b
<1>5. 100 * a + 100 * b <= 100 * c
  BY <1>1, <1>3
<1> QED BY <1>4, <1>5 DEF x, y

\* The specification of a pod says what its node and its devices need.
LEMMA InvPods == ASSUME PoolsAreRequests, InfosAreDefinitions, IInv PROVE PodFits
<1>1. /\ Types /\ PodsAreSpecified /\ DistinctInRequest
      /\ pool \in Pools /\ info \in Infos /\ \A i \in DOMAIN pool : given[i] \in Seq(Reserved)
  BY DEF IInv, Types
<1> SUFFICES ASSUME NEW i \in DOMAIN pool, specs[i] # <<>>, NEW pod, pod = specs[i][1],
                    NEW shares, shares = pool[i].shares
             PROVE
        /\ (/\ Len(shares) = 2 /\ shares[1].rounding = "truncate" /\ shares[2].rounding = "round"
            /\ shares[1].percentage + shares[2].percentage <= 100
            /\ \A k \in 1 .. 2 : Scale(info.nodes[pod.node].cores, shares[k].percentage) >= 100)
           => pod.cpu[1] + pod.cpu[2] <= 100 * info.nodes[pod.node].cores
        /\ Cardinality(pod.volumes) = Len(Real(i))
        /\ \A k \in DOMAIN Real(i) : Real(i)[k].device.type \in NodeTypes =>
              /\ Real(i)[k].device.connection = "usb" => pod.usb
              /\ Real(i)[k].device.connection = "pci" => pod.pci /\ pod.network
              /\ Real(i)[k].device.connection = "network" => pod.network
  BY DEF PodFits
<1>2. /\ CanResolve(i, pod.node)
      /\ pod.volumes = {Identity(Real(i)[k]) : k \in DOMAIN Real(i)}
      /\ pod.usb = Connects(i, {"usb"}) /\ pod.pci = Connects(i, {"pci"})
      /\ Connects(i, {"network", "pci"}) => pod.network
      /\ pod.cpu = Resolve(i, pod.node)
  BY <1>1 DEF PodsAreSpecified
<1>3. ASSUME Len(shares) = 2, shares[1].rounding = "truncate", shares[2].rounding = "round",
             shares[1].percentage + shares[2].percentage <= 100,
             \A k \in 1 .. 2 : Scale(info.nodes[pod.node].cores, shares[k].percentage) >= 100
      PROVE  pod.cpu[1] + pod.cpu[2] <= 100 * info.nodes[pod.node].cores
  <2> DEFINE S == [percentage : Nat, rounding : STRING]
             c == info.nodes[pod.node].cores
  <2>1. shares \in Seq(S) /\ shares # <<>>
    <3>1. pool[i] \in Requests
      BY <1>1, PoolIsRequests
    <3> QED BY <3>1, <1>3 DEF Requests
  <2>2. DOMAIN shares = 1 .. 2 /\ shares[1] \in S /\ shares[2] \in S
    <3> HIDE DEF S
    <3> QED BY <2>1, <1>3, LenProperties, ElementOfSeq
  <2>3. c \in Nat
    <3>1. pod.node \in DOMAIN info.nodes
      BY <2>1, <1>2 DEF CanResolve
    <3> QED BY <3>1, <1>1 DEF InfosAreDefinitions
  <2>4. /\ pod.cpu[1] = RoundCpu(Scale(c, shares[1].percentage), "truncate")
        /\ pod.cpu[2] = RoundCpu(Scale(c, shares[2].percentage), "round")
    BY <1>2, <1>3, <2>2 DEF Resolve
  <2>5. shares[1].percentage \in Nat /\ shares[2].percentage \in Nat
    BY <2>2
  <2>6. Scale(c, shares[1].percentage) >= 100 /\ Scale(c, shares[2].percentage) >= 100
    BY <1>3
  <2> HIDE DEF c
  <2>7. RoundCpu(Scale(c, shares[1].percentage), "truncate") + RoundCpu(Scale(c, shares[2].percentage), "round")
          <= 100 * c
    BY <1>3, <2>3, <2>5, <2>6, PartsAreNoMore
  <2> QED BY <2>4, <2>7 DEF c
<1> DEFINE A == {r \in Reserved : r.device.type # "zmq" /\ r.capacity > 0}
           g == given[i]
           f == Real(i)
<1>4. f = Filter(g, A) /\ g \in Seq(Reserved)
  <2>1. \A k \in DOMAIN g : (g[k].device.type # "zmq" /\ g[k].capacity > 0) <=> g[k] \in A
    BY <1>1, ElementOfSeq
  <2> QED BY <2>1, <1>1 DEF Real, Those, Filter
<1>5. f \in Seq(Reserved)
  <2> HIDE DEF A, f, g
  <2>1. Filter(g, A) \in Seq(Reserved \cap A)
    BY <1>4, FilterOfAppended
  <2> QED BY <1>4, <2>1
<1>6. \A k, l \in DOMAIN f : k # l => Identity(f[k]) # Identity(f[l])
  <2>1. \A k, l \in DOMAIN g : k # l => Identity(g[k]) # Identity(g[l])
    BY <1>1 DEF DistinctInRequest
  <2> HIDE DEF A, f, g
  <2>2. PICK m \in [DOMAIN Filter(g, A) -> DOMAIN g] :
            /\ \A k, l \in DOMAIN Filter(g, A) : k # l => m[k] # m[l]
            /\ \A k \in DOMAIN Filter(g, A) : Filter(g, A)[k] = g[m[k]] /\ g[m[k]] \in A
    BY <1>4, FilterPicks
  <2> QED BY <1>4, <2>1, <2>2
<1>7. Cardinality(pod.volumes) = Len(f)
  <2> DEFINE h == [k \in 1 .. Len(f) |-> Identity(f[k])]
  <2>1. Len(f) \in Nat /\ DOMAIN f = 1 .. Len(f)
    <3> HIDE DEF f
    <3> QED BY <1>5, LenProperties
  <2>2. pod.volumes = {Identity(f[k]) : k \in 1 .. Len(f)}
    BY <1>2, <2>1
  <2> HIDE DEF f
  <2>3. h \in Bijection(1 .. Len(f), pod.volumes)
    <3>1. h \in [1 .. Len(f) -> pod.volumes]
      BY <2>2
    <3>2. \A k, l \in 1 .. Len(f) : h[k] = h[l] => k = l
      BY <1>6, <2>1
    <3>3. \A v \in pod.volumes : \E k \in 1 .. Len(f) : h[k] = v
      BY <2>2
    <3> HIDE DEF h
    <3> QED BY <3>1, <3>2, <3>3 DEF Bijection, Injection, Surjection, IsInjective
  <2> HIDE DEF h
  <2> QED BY <2>1, <2>3, FS_CountingElements DEF ExistsBijection
<1>8. ASSUME NEW k \in DOMAIN f, f[k].device.type \in NodeTypes
      PROVE  /\ f[k].device.connection = "usb" => pod.usb
             /\ f[k].device.connection = "pci" => pod.pci /\ pod.network
             /\ f[k].device.connection = "network" => pod.network
  <2>1. \A c : f[k].device.connection \in c => Connects(i, c)
    BY <1>8 DEF Connects
  <2> HIDE DEF f
  <2>2. /\ f[k].device.connection = "usb" => Connects(i, {"usb"})
        /\ f[k].device.connection = "pci" => Connects(i, {"pci"}) /\ Connects(i, {"network", "pci"})
        /\ f[k].device.connection = "network" => Connects(i, {"network", "pci"})
    BY <2>1
  <2> QED BY <2>2, <1>2
<1> HIDE DEF A, g
<1> QED BY <1>3, <1>7, <1>8

\* What a process is given is what its requests asked for (ServedAsAsked), for any requests of
\* different names, any cluster and whatever the other processes lock and the nodes do.
THEOREM ServedIsAsAsked == MatchingSpec => []ServedAsAsked
<1>1. IInv => ServedAsAsked
  BY InvServes, FilesAssumption
<1> QED BY <1>1, MatchingInvariant, PTL

\* The pass over the nodes finds a space whenever one can serve the pool (MatchIsComplete).
THEOREM SpacesAreFound == MatchingSpec => []MatchIsComplete
<1>1. IInv => MatchIsComplete
  BY MatchOfRequestsIsComplete, FilesAssumption DEF IInv, Types
<1> QED BY <1>1, MatchingInvariant, PTL

\* The pods fit their node and mount what was written for them (PodFits), whatever its cores are.
THEOREM PodsFit == MatchingSpec => []PodFits
<1>1. IInv => PodFits
  BY InvPods, FilesAssumption
<1> QED BY <1>1, MatchingInvariant, PTL
=============================================================================
