------------------------------- MODULE FoldProofs -------------------------------
(***************************************************************************)
(* What FlattenSeq does with a sequence that grows by one element.  It is  *)
(* defined by a recursive function, so its facts are inductions over the   *)
(* length; they are made from the well-foundedness of < because the        *)
(* provers cannot instantiate the induction theorem of the library.        *)
(***************************************************************************)
EXTENDS Integers, SequencesExt, SequenceTheorems, WellFoundedInduction, TLAPS

------------------------------------------------------------------------------
(* Induction                                                                 *)

\* A set of numbers with 0 and the successor of each member has all of them.
LEMMA CountingUp ==
  ASSUME NEW T, T \subseteq Nat, 0 \in T, \A n \in T : n + 1 \in T
  PROVE  \A n \in Nat : n \in T
<1> SUFFICES ASSUME NEW m \in Nat, m \notin T PROVE FALSE
  OBVIOUS
<1> DEFINE U == Nat \ T
<1>1. U \subseteq Nat /\ U # {}
  OBVIOUS
<1>2. PICK t \in U : \A u \in U : ~ (<<u, t>> \in OpToRel(<, Nat))
  <2> HIDE DEF U
  <2> QED
    BY <1>1, WFMin, NatLessThanWellFounded, Zenon
<1>3. \A u \in U : ~ (u < t)
  BY <1>2 DEF OpToRel
<1>4. t \in Nat /\ t # 0 /\ t \notin T
  OBVIOUS
<1>5. t - 1 \in Nat /\ t - 1 < t
  BY <1>4
<1>6. t - 1 \in T
  BY <1>3, <1>5
<1>7. (t - 1) + 1 \in T
  BY <1>6
<1> QED
  BY <1>4, <1>7

------------------------------------------------------------------------------
(* Putting sequences together                                                *)

\* The function that FlattenSeq defines for the first n elements.
Chain(s, n, f) == f = [i \in 1..n |-> IF i = 1 THEN s[i] ELSE f[i - 1] \o s[i]]

\* Two sequences or functions have the same first m elements.
Agree(s, t, m) == \A i \in 1..m : s[i] = t[i]

\* FlattenSeq is the last value of a chain.
LEMMA FlattenIsChain ==
  ASSUME NEW s, Len(s) # 0
  PROVE  FlattenSeq(s) = (CHOOSE f : Chain(s, Len(s), f))[Len(s)]
BY DEF FlattenSeq, Chain

\* Nothing put together is nothing.
LEMMA FlattenEmpty == FlattenSeq(<< >>) = << >>
BY DEF FlattenSeq

\* Chains exist, and their values are sequences.
LEMMA ChainExists ==
  ASSUME NEW S, NEW s \in Seq(Seq(S)), NEW n \in Nat, n <= Len(s)
  PROVE  \E f : Chain(s, n, f) /\ \A i \in 1..n : f[i] \in Seq(S)
<1> DEFINE Has(m) == \E f : Chain(s, m, f) /\ \A i \in 1..m : f[i] \in Seq(S)
           T == {m \in Nat : m <= Len(s) => Has(m)}
<1>1. Len(s) \in Nat /\ \A i \in 1..Len(s) : s[i] \in Seq(S)
  BY LenProperties, ElementOfSeq
<1>2. 0 \in T
  <2> DEFINE f == [i \in 1..0 |-> s[i]]
  <2>1. Chain(s, 0, f) /\ \A i \in 1..0 : f[i] \in Seq(S)
    BY DEF Chain
  <2> QED
    BY <2>1
<1>3. ASSUME NEW m \in T PROVE m + 1 \in T
  <2> SUFFICES ASSUME m + 1 <= Len(s) PROVE Has(m + 1)
    OBVIOUS
  <2>1. m \in Nat /\ m + 1 \in 1..Len(s)
    BY <1>1
  <2>2. PICK f : Chain(s, m, f) /\ \A i \in 1..m : f[i] \in Seq(S)
    BY <1>1, <2>1
  <2> DEFINE g == [i \in 1..m + 1 |->
                     IF i = m + 1 THEN IF m = 0 THEN s[i] ELSE f[m] \o s[i] ELSE f[i]]
  <2>3. ASSUME NEW i \in 1..m + 1
        PROVE  g[i] = (IF i = 1 THEN s[i] ELSE g[i - 1] \o s[i]) /\ g[i] \in Seq(S)
    <3>1. CASE i = m + 1
      <4>1. CASE m = 0
        BY <1>1, <2>1, <3>1, <4>1
      <4>2. CASE m # 0
        <5>1. m \in 1..m /\ m \in 1..m + 1 /\ m # m + 1 /\ i # 1 /\ i - 1 = m
          BY <2>1, <3>1, <4>2
        <5>2. g[i] = f[m] \o s[i] /\ g[i - 1] = f[m]
          BY <3>1, <4>2, <5>1
        <5>3. f[m] \o s[i] \in Seq(S)
          BY <1>1, <2>1, <2>2, <3>1, <5>1, ConcatProperties
        <5> QED
          BY <5>1, <5>2, <5>3
      <4> QED
        BY <4>1, <4>2
    <3>2. CASE i # m + 1
      <4>1. i \in 1..m /\ g[i] = f[i] /\ i <= Len(s)
        BY <1>1, <2>1, <3>2
      <4>2. f[i] = IF i = 1 THEN s[i] ELSE f[i - 1] \o s[i]
        BY <2>2, <4>1 DEF Chain
      <4>3. i # 1 => g[i - 1] = f[i - 1]
        BY <2>1, <4>1
      <4> QED
        BY <2>2, <4>1, <4>2, <4>3
    <3> QED
      BY <3>1, <3>2
  <2>4. Chain(s, m + 1, g)
    <3>1. g = [i \in 1..m + 1 |-> g[i]]
      OBVIOUS
    <3> HIDE DEF g
    <3> QED
      BY <2>3, <3>1 DEF Chain
  <2> QED
    BY <2>3, <2>4
<1>4. \A m \in Nat : m \in T
  <2>1. T \subseteq Nat
    OBVIOUS
  <2>2. \A m \in T : m + 1 \in T
    BY <1>3
  <2> HIDE DEF T
  <2> QED
    BY <1>2, <2>1, <2>2, CountingUp
<1> QED
  BY <1>4

\* Chains of sequences that agree agree.
LEMMA ChainsAgree ==
  ASSUME NEW s, NEW t, NEW m \in Nat, NEW n \in Nat, m <= n,
         Agree(s, t, m), NEW f, Chain(s, m, f), NEW g, Chain(t, n, g)
  PROVE  Agree(f, g, m)
<1> DEFINE T == {k \in Nat : k \in 1..m => f[k] = g[k]}
<1>1. 0 \in T
  OBVIOUS
<1>2. ASSUME NEW k \in T PROVE k + 1 \in T
  <2> SUFFICES ASSUME k + 1 \in 1..m PROVE f[k + 1] = g[k + 1]
    OBVIOUS
  <2>1. k \in Nat /\ k + 1 \in 1..n /\ s[k + 1] = t[k + 1] /\ (k + 1) - 1 = k
    BY DEF Agree
  <2>2. f[k + 1] = IF k + 1 = 1 THEN s[k + 1] ELSE f[k] \o s[k + 1]
    BY <2>1 DEF Chain
  <2>3. g[k + 1] = IF k + 1 = 1 THEN t[k + 1] ELSE g[k] \o t[k + 1]
    BY <2>1 DEF Chain
  <2>4. k + 1 # 1 => f[k] = g[k]
    BY <2>1
  <2> QED
    BY <2>1, <2>2, <2>3, <2>4
<1>3. \A k \in Nat : k \in T
  <2>1. T \subseteq Nat
    OBVIOUS
  <2>2. \A k \in T : k + 1 \in T
    BY <1>2
  <2> HIDE DEF T
  <2> QED
    BY <1>1, <2>1, <2>2, CountingUp
<1> QED
  BY <1>3 DEF Agree

\* Sequences put together are a sequence.
LEMMA FlattenType ==
  ASSUME NEW S, NEW s \in Seq(Seq(S))
  PROVE  FlattenSeq(s) \in Seq(S)
<1>1. Len(s) \in Nat
  BY LenProperties
<1>2. CASE Len(s) = 0
  <2>1. s = << >>
    BY <1>2, EmptySeq
  <2> QED
    BY <2>1, FlattenEmpty, EmptySeq
<1>3. CASE Len(s) # 0
  <2> DEFINE f == CHOOSE h : Chain(s, Len(s), h)
  <2>1. PICK g : Chain(s, Len(s), g) /\ \A i \in 1..Len(s) : g[i] \in Seq(S)
    BY <1>1, ChainExists
  <2>2. Chain(s, Len(s), f)
    BY <2>1
  <2>3. \A i \in 1..Len(s) : f[i] = g[i]
    <3>1. Agree(s, s, Len(s))
      BY DEF Agree
    <3> HIDE DEF f
    <3>2. Agree(f, g, Len(s))
      BY <1>1, <2>1, <2>2, <3>1, ChainsAgree
    <3> QED
      BY <3>2 DEF Agree
  <2>4. Len(s) \in 1..Len(s)
    BY <1>1, <1>3
  <2> QED
    BY <1>3, <2>1, <2>3, <2>4, FlattenIsChain
<1> QED
  BY <1>2, <1>3

\* One more sequence goes to the end.
LEMMA FlattenAppend ==
  ASSUME NEW S, NEW s \in Seq(Seq(S)), NEW x \in Seq(S)
  PROVE  FlattenSeq(Append(s, x)) = FlattenSeq(s) \o x
<1> DEFINE t == Append(s, x)
           n == Len(s)
<1>1. /\ n \in Nat /\ t \in Seq(Seq(S)) /\ Len(t) = n + 1
      /\ \A i \in 1..n : t[i] = s[i]
      /\ t[n + 1] = x
  BY LenProperties, AppendProperties
<1> DEFINE g == CHOOSE h : Chain(t, n + 1, h)
<1>2. Chain(t, n + 1, g)
  <2>1. n + 1 \in Nat /\ n + 1 <= Len(t)
    BY <1>1
  <2>2. \E h : Chain(t, n + 1, h)
    <3> HIDE DEF t, n
    <3> QED
      BY <1>1, <2>1, ChainExists
  <2> QED
    BY <2>2
<1>3. FlattenSeq(t) = g[n + 1]
  <2>1. Len(t) # 0
    BY <1>1
  <2> QED
    BY <1>1, <2>1, FlattenIsChain
<1>4. g[n + 1] = IF n + 1 = 1 THEN x ELSE g[n] \o x
  <2>1. n + 1 \in 1..n + 1 /\ (n + 1) - 1 = n
    BY <1>1
  <2> HIDE DEF g, t, n
  <2> QED
    BY <1>1, <1>2, <2>1 DEF Chain
<1>5. CASE n = 0
  <2>1. s = << >>
    BY <1>5, EmptySeq
  <2>2. << >> \o x = x
    BY ConcatEmptySeq
  <2>3. FlattenSeq(s) = << >>
    BY <2>1, FlattenEmpty
  <2>4. FlattenSeq(t) = x
    BY <1>3, <1>4, <1>5
  <2> QED
    BY <2>2, <2>3, <2>4
<1>6. CASE n # 0
  <2> DEFINE f == CHOOSE h : Chain(s, n, h)
  <2>1. Chain(s, n, f)
    <3>1. \E h : Chain(s, n, h)
      BY <1>1, ChainExists
    <3> QED
      BY <3>1
  <2>2. FlattenSeq(s) = f[n]
    BY <1>6, FlattenIsChain
  <2>3. \A i \in 1..n : f[i] = g[i]
    <3>1. Agree(s, t, n) /\ n \in Nat /\ n + 1 \in Nat /\ n <= n + 1
      BY <1>1 DEF Agree
    <3> HIDE DEF f, g, t, n
    <3>2. Agree(f, g, n)
      BY <1>2, <2>1, <3>1, ChainsAgree
    <3> QED
      BY <3>2 DEF Agree
  <2>4. n \in 1..n /\ n + 1 # 1
    BY <1>1, <1>6
  <2>5. g[n + 1] = f[n] \o x
    BY <1>4, <2>3, <2>4
  <2> QED
    BY <1>3, <2>2, <2>5
<1> QED
  BY <1>5, <1>6
==============================================================================
