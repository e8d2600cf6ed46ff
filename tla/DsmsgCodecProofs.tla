-------------------------- MODULE DsmsgCodecProofs --------------------------
(***************************************************************************)
(* Proofs about DsmsgCodec, for texts of any length: a frame is read back  *)
(* as it was sent, and a FrameScanner finds the frames of a stream however *)
(* the stream is cut.  The loops are recursive functions, so the proofs    *)
(* start with induction, stated for sets in place of predicates.           *)
(***************************************************************************)
EXTENDS DsmsgCodec, SequenceTheorems, WellFoundedInduction, TLAPS

-----------------------------------------------------------------------------
(* Induction *)

\* Every non-empty set of natural numbers has a least element.
LEMMA LeastNumber ==
  ASSUME NEW T \in SUBSET Nat, T # {}
  PROVE  \E x \in T : \A y \in T : x <= y
<1> DEFINE R == {ss \in Nat \X Nat : ss[1] < ss[2]}
<1>1. IsWellFoundedOn(R, Nat)
  BY NatLessThanWellFounded DEF OpToRel
<1>2. \A x, y \in Nat : y < x => <<y, x>> \in R
  OBVIOUS
<1> HIDE DEF R
<1>3. PICK x \in T : \A y \in T : ~(<<y, x>> \in R)
  BY <1>1, WFMin, Zenon
<1>4. \A y \in T : ~(y < x)
  BY <1>2, <1>3, Zenon
<1> QED
  BY <1>4

\* Induction, for a set in place of a predicate.
LEMMA SetInduction ==
  ASSUME NEW T \in SUBSET Nat, 0 \in T, \A n \in T : n + 1 \in T
  PROVE  T = Nat
<1> DEFINE U == Nat \ T
<1>1. SUFFICES ASSUME U # {} PROVE FALSE
  BY Zenon
<1>2. PICK x \in U : \A y \in U : x <= y
  BY <1>1, LeastNumber, Zenon
<1> QED
  BY <1>2, x = 0 \/ x - 1 \in Nat

\* Induction over sequences, for a set in place of a predicate.
LEMMA SeqInduction ==
  ASSUME NEW S, NEW P \in SUBSET Seq(S), <<>> \in P, \A s \in P, e \in S : Append(s, e) \in P
  PROVE  P = Seq(S)
<1> DEFINE T == {n \in Nat : \A s \in Seq(S) : Len(s) = n => s \in P}
<1>1. 0 \in T
  BY EmptySeq
<1>2. ASSUME NEW n \in Nat, n \in T PROVE n + 1 \in T
  <2>1. SUFFICES ASSUME NEW s \in Seq(S), Len(s) = n + 1 PROVE s \in P
    OBVIOUS
  <2>2. s # <<>>
    BY <2>1, EmptySeq
  <2>3. PICK r \in Seq(S), e \in S : s = Append(r, e)
    BY <2>2, SequenceEmptyOrAppend
  <2>4. Len(r) = n
    BY <2>1, <2>3, AppendProperties, LenProperties
  <2> QED
    BY <1>2, <2>3, <2>4
<1> HIDE DEF T
<1>3. T = Nat
  BY <1>1, <1>2, SetInduction, Zenon DEF T
<1>4. \A s \in Seq(S) : Len(s) \in Nat
  BY LenProperties
<1> QED
  BY <1>3, <1>4, Zenon DEF T

\* A bounded set of natural numbers that is not empty has a greatest element.
LEMMA GreatestNumber ==
  ASSUME NEW n \in Nat, NEW T \in SUBSET (0..n), T # {}
  PROVE  \E x \in T : \A y \in T : y <= x
<1> DEFINE U == {n - y : y \in T}
<1>1. U \in SUBSET Nat /\ U # {}
  <2>1. \A y \in T : y \in 0..n /\ n - y \in Nat
    OBVIOUS
  <2> QED
    BY <2>1, Zenon
<1>2. PICK u \in U : \A v \in U : u <= v
  <2> HIDE DEF U
  <2> QED
    BY <1>1, LeastNumber
<1>3. PICK x \in T : u = n - x
  BY <1>2
<1>4. \A y \in T : n - x <= n - y
  BY <1>2, <1>3, Zenon
<1>5. \A y \in T : y <= x
  BY <1>4
<1> QED
  BY <1>5, Zenon

\* Induction from the end of an interval to its start.
LEMMA Descends ==
  ASSUME NEW n \in Nat, NEW P, \A i \in 1..n : (\A j \in (i + 1)..n : j \in P) => i \in P
  PROVE  \A i \in 1..n : i \in P
<1> DEFINE U == {i \in 1..n : i \notin P}
<1>1. SUFFICES ASSUME U # {} PROVE FALSE
  OBVIOUS
<1>2. U \in SUBSET (0..n)
  OBVIOUS
<1>3. PICK x \in U : \A y \in U : y <= x
  <2> HIDE DEF U
  <2> QED
    BY <1>1, <1>2, GreatestNumber, Zenon
<1>4. \A j \in (x + 1)..n : j \in P
  BY <1>3
<1> QED
  BY <1>3, <1>4

-----------------------------------------------------------------------------
(* Loops *)

\* A step function on S: from a position in 1..n and a value to the next value.
IsStep(step, S, n) == step \in [(1..n) \X S -> S]

\* f lists the values that step goes through from base.
Iteration(f, S, n, base, step) ==
  /\ f \in [0..n -> S]
  /\ f[0] = base
  /\ \A i \in 1..n : f[i] = step[<<i, f[i - 1]>>]

\* A step function can be iterated as often as it has positions.
LEMMA Iterates ==
  ASSUME NEW S, NEW n \in Nat, NEW base \in S, NEW step, IsStep(step, S, n)
  PROVE  \E f : Iteration(f, S, n, base, step)
<1> DEFINE T == {k \in Nat : k <= n => \E f : Iteration(f, S, k, base, step)}
<1>1. 0 \in T
  <2>1. Iteration([i \in 0..0 |-> base], S, 0, base, step)
    BY DEF Iteration
  <2> QED
    BY <2>1
<1>2. ASSUME NEW k \in Nat, k \in T PROVE k + 1 \in T
  <2>1. SUFFICES ASSUME k + 1 <= n
                 PROVE  \E f : Iteration(f, S, k + 1, base, step)
    OBVIOUS
  <2>2. PICK f : Iteration(f, S, k, base, step)
    BY <1>2, <2>1
  <2> DEFINE g == [i \in 0..(k + 1) |-> IF i <= k THEN f[i] ELSE step[<<k + 1, f[k]>>]]
  <2>3. step[<<k + 1, f[k]>>] \in S
    BY <2>1, <2>2, k + 1 \in 1..n, f[k] \in S DEF Iteration, IsStep
  <2>4. g \in [0..(k + 1) -> S]
    BY <2>2, <2>3 DEF Iteration
  <2>5. g[0] = base
    BY <2>2 DEF Iteration
  <2>6. ASSUME NEW i \in 1..(k + 1) PROVE g[i] = step[<<i, g[i - 1]>>]
    <3>1. CASE i <= k
      BY <2>2, <3>1 DEF Iteration
    <3>2. CASE i = k + 1
      <4>1. g[k + 1] = step[<<k + 1, f[k]>>] /\ g[k] = f[k] /\ i - 1 = k
        BY <3>2
      <4> HIDE DEF g
      <4> QED
        BY <3>2, <4>1
    <3> QED
      BY <3>1, <3>2
  <2> HIDE DEF g
  <2>7. Iteration(g, S, k + 1, base, step)
    BY <2>4, <2>5, <2>6 DEF Iteration
  <2> QED
    BY <2>7
<1> HIDE DEF T
<1>3. T = Nat
  BY <1>1, <1>2, SetInduction, Zenon DEF T
<1> QED
  BY <1>3 DEF T

-----------------------------------------------------------------------------
(* Concatenations *)

\* The running concatenations of a sequence of sequences.
Chains(f, ss) == f[0] = <<>> /\ \A i \in 1..Len(ss) : f[i] = f[i - 1] \o ss[i]

\* A concatenation has a history, from the empty sequence on.
LEMMA ChainHistory ==
  ASSUME NEW S, NEW ss \in Seq(Seq(S))
  PROVE  \E f \in [0..Len(ss) -> Seq(S)] : Chains(f, ss) /\ Chain(ss) = f[Len(ss)]
<1> DEFINE n == Len(ss)
           Q == Seq(S)
           step == [x \in (1..n) \X Q |-> x[2] \o ss[x[1]]]
           c[i \in 0..Len(ss)] == IF i = 0 THEN <<>> ELSE c[i - 1] \o ss[i]
<1>1. n \in Nat /\ ss \in [1..n -> Q]
  BY LenProperties
<1>2. <<>> \in Q /\ \A s, t \in Q : s \o t \in Q
  OBVIOUS
<1>3. Chain(ss) = c[n]
  BY DEF Chain, c, n
<1> HIDE DEF n, Q
<1>4. IsStep(step, Q, n)
  BY <1>1, <1>2 DEF IsStep
<1>5. PICK f : Iteration(f, Q, n, <<>>, step)
  <2> HIDE DEF step
  <2> QED
    BY <1>1, <1>2, <1>4, Iterates
<1>6. f \in [0..n -> Q] /\ f[0] = <<>> /\ \A i \in 1..n : f[i] = step[<<i, f[i - 1]>>]
  BY <1>5, Zenon DEF Iteration
<1>7. ASSUME NEW i \in 1..n PROVE f[i] = f[i - 1] \o ss[i]
  <2>1. <<i, f[i - 1]>> \in (1..n) \X Q
    BY <1>1, <1>6, i - 1 \in 0..n
  <2>2. step[<<i, f[i - 1]>>] = f[i - 1] \o ss[i]
    BY <2>1, Zenon
  <2> QED
    BY <1>6, <2>2, Zenon
<1>8. Chains(f, ss)
  BY <1>6, <1>7 DEF Chains, n
<1>9. f = [i \in 0..n |-> IF i = 0 THEN <<>> ELSE f[i - 1] \o ss[i]]
  <2>1. \A i \in 0..n : i = 0 \/ i \in 1..n
    BY <1>1
  <2> QED
    BY <1>6, <1>7, <2>1, Zenon
<1>10. c = [i \in 0..n |-> IF i = 0 THEN <<>> ELSE c[i - 1] \o ss[i]]
  <2> HIDE DEF step
  <2> QED
    BY <1>9, Zenon DEF c, n
<1> HIDE DEF c, step
<1> DEFINE T == {i \in Nat : i <= n => c[i] = f[i]}
<1>11. 0 \in T
  BY <1>1, <1>6, <1>10
<1>12. ASSUME NEW i \in Nat, i \in T PROVE i + 1 \in T
  <2> SUFFICES ASSUME i + 1 <= n PROVE c[i + 1] = f[i + 1]
    OBVIOUS
  <2>1. i + 1 \in 1..n /\ i + 1 \in 0..n /\ i + 1 # 0 /\ (i + 1) - 1 = i /\ i <= n
    BY <1>1
  <2>2. c[i + 1] = c[i] \o ss[i + 1]
    BY <1>10, <2>1, Zenon
  <2>3. f[i + 1] = f[i] \o ss[i + 1]
    BY <1>7, <2>1, Zenon
  <2>4. c[i] = f[i]
    BY <1>12, <2>1
  <2> QED
    BY <2>2, <2>3, <2>4
<1> HIDE DEF T
<1>13. T = Nat
  BY <1>11, <1>12, SetInduction, Zenon DEF T
<1>14. c[n] = f[n]
  BY <1>1, <1>13 DEF T
<1> QED
  BY <1>3, <1>6, <1>8, <1>14, Zenon DEF n, Q

\* Nothing concatenated is nothing.
LEMMA ChainEmpty == Chain(<<>>) = <<>>
<1>1. PICK f \in [0..Len(<<>>) -> Seq({})] : Chains(f, <<>>) /\ Chain(<<>>) = f[Len(<<>>)]
  BY <<>> \in Seq(Seq({})), ChainHistory, Zenon
<1>2. Len(<<>>) = 0
  OBVIOUS
<1> QED
  BY <1>1, <1>2 DEF Chains

\* tt begins with ss.
SameStart(ss, tt) ==
  /\ Len(ss) \in Nat /\ Len(tt) \in Nat /\ Len(ss) <= Len(tt)
  /\ \A i \in 1..Len(ss) : ss[i] = tt[i]

\* Two running concatenations of the same beginning agree on it.
LEMMA ChainsAgree ==
  ASSUME NEW ss, NEW tt, NEW f, NEW g, SameStart(ss, tt), Chains(f, ss), Chains(g, tt)
  PROVE  f[Len(ss)] = g[Len(ss)]
<1> DEFINE n == Len(ss)
<1>0. n \in Nat /\ Len(tt) \in Nat /\ n <= Len(tt) /\ \A i \in 1..n : ss[i] = tt[i]
  BY DEF SameStart
<1> DEFINE T == {i \in Nat : i <= n => f[i] = g[i]}
<1>1. 0 \in T
  BY DEF Chains
<1>2. ASSUME NEW i \in Nat, i \in T PROVE i + 1 \in T
  <2>1. SUFFICES ASSUME i + 1 <= n PROVE f[i + 1] = g[i + 1]
    OBVIOUS
  <2>2. /\ i + 1 \in 1..Len(ss) /\ i + 1 \in 1..Len(tt) /\ i + 1 \in 1..n
        /\ (i + 1) - 1 = i
    BY <1>0, <2>1
  <2>3. f[i + 1] = f[i] \o ss[i + 1] /\ g[i + 1] = g[i] \o tt[i + 1]
    BY <2>2, Zenon DEF Chains
  <2>4. f[i] = g[i]
    BY <1>2, <2>1
  <2> QED
    BY <1>0, <2>2, <2>3, <2>4, Zenon
<1> HIDE DEF T, n
<1>3. T = Nat
  BY <1>1, <1>2, SetInduction, Zenon DEF T
<1>4. f[n] = g[n]
  BY <1>0, <1>3 DEF T
<1> QED
  BY <1>4 DEF n

\* Appending to what is concatenated appends to the concatenation.
LEMMA ChainAppend ==
  ASSUME NEW S, NEW ss \in Seq(Seq(S)), NEW t \in Seq(S)
  PROVE  Chain(Append(ss, t)) = Chain(ss) \o t
<1> DEFINE n == Len(ss)
           tt == Append(ss, t)
<1>1. n \in Nat /\ tt \in Seq(Seq(S)) /\ Len(tt) = n + 1 /\ tt[n + 1] = t
      /\ \A i \in 1..n : ss[i] = tt[i]
  BY AppendProperties, LenProperties
<1>2. PICK f \in [0..n -> Seq(S)] : Chains(f, ss) /\ Chain(ss) = f[n]
  BY ChainHistory
<1> HIDE DEF tt, n
<1>3. PICK g \in [0..Len(tt) -> Seq(S)] : Chains(g, tt) /\ Chain(tt) = g[Len(tt)]
  BY <1>1, ChainHistory, Zenon
<1>4. f[n] = g[n]
  <2>1. SameStart(ss, tt)
    <3>1. Len(ss) = n
      BY DEF n
    <3>2. Len(ss) \in Nat /\ Len(tt) \in Nat /\ Len(ss) <= Len(tt)
      BY <1>1, <3>1
    <3> QED
      BY <1>1, <3>1, <3>2 DEF SameStart
  <2> QED
    BY <1>2, <1>3, <2>1, ChainsAgree, Zenon DEF n
<1>5. g[n + 1] = g[n] \o t
  BY <1>1, <1>3, n + 1 \in 1..Len(tt), (n + 1) - 1 = n, Zenon DEF Chains
<1> QED
  BY <1>1, <1>2, <1>3, <1>4, <1>5 DEF tt

-----------------------------------------------------------------------------
(* Texts *)

\* The first elements of a sequence.
LEMMA FirstFew ==
  ASSUME NEW S, NEW s \in Seq(S)
  PROVE  /\ \A n \in 0..Len(s) : SubSeq(s, 1, n) \in Seq(S) /\ Len(SubSeq(s, 1, n)) = n
         /\ \A n \in 0..Len(s) : \A i \in 1..n : SubSeq(s, 1, n)[i] = s[i] /\ s[i] \in S
         /\ SubSeq(s, 1, Len(s)) = s
         /\ \A n \in 0..(Len(s) - 1) : SubSeq(s, 1, n + 1) = Append(SubSeq(s, 1, n), s[n + 1])
         /\ \A e \in S : \A n \in 0..Len(s) : SubSeq(Append(s, e), 1, n) = SubSeq(s, 1, n)
<1>1. Len(s) \in Nat /\ \A i \in 1..Len(s) : s[i] \in S
  BY LenProperties
<1>2. ASSUME NEW t \in Seq(S), NEW n \in 0..Len(t)
      PROVE  /\ SubSeq(t, 1, n) \in Seq(S) /\ Len(SubSeq(t, 1, n)) = n
             /\ \A i \in 1..n : SubSeq(t, 1, n)[i] = t[i] /\ t[i] \in S
  <2>1. Len(t) \in Nat /\ n \in Nat /\ \A i \in 1..n : t[i] \in S
    BY LenProperties
  <2> DEFINE u == SubSeq(t, 1, n)
  <2>2. /\ u \in Seq(S)
        /\ Len(u) = IF 1 <= n THEN n - 1 + 1 ELSE 0
        /\ \A i \in 1..(n - 1 + 1) : u[i] = t[1 + i - 1]
    BY <2>1, SubSeqProperties
  <2> HIDE DEF u
  <2>3. Len(u) = n /\ \A i \in 1..n : u[i] = t[i]
    BY <2>1, <2>2
  <2> QED
    BY <2>1, <2>2, <2>3 DEF u
<1>3. SubSeq(s, 1, Len(s)) = s
  BY SubSeqFull
<1>4. ASSUME NEW n \in 0..(Len(s) - 1)
      PROVE  SubSeq(s, 1, n + 1) = Append(SubSeq(s, 1, n), s[n + 1])
  <2> DEFINE u == SubSeq(s, 1, n)
             v == SubSeq(s, 1, n + 1)
             t == Append(u, s[n + 1])
  <2>1. n \in 0..Len(s) /\ n + 1 \in 0..Len(s) /\ n \in Nat /\ n + 1 \in 1..Len(s)
    BY <1>1
  <2>2. u \in Seq(S) /\ Len(u) = n /\ (\A i \in 1..n : u[i] = s[i])
    BY <1>2, <2>1
  <2>3. v \in Seq(S) /\ Len(v) = n + 1 /\ (\A i \in 1..(n + 1) : v[i] = s[i])
    BY <1>2, <2>1
  <2> HIDE DEF u, v
  <2>4. s[n + 1] \in S
    BY <1>1, <2>1
  <2>5. t \in Seq(S) /\ Len(t) = n + 1 /\ (\A i \in 1..n : t[i] = u[i]) /\ t[n + 1] = s[n + 1]
    BY <2>2, <2>4, AppendProperties
  <2> HIDE DEF t
  <2>6. \A i \in 1..(n + 1) : i \in 1..n \/ i = n + 1
    BY <2>1
  <2>7. \A i \in 1..(n + 1) : v[i] = t[i]
    BY <2>2, <2>3, <2>5, <2>6
  <2>8. v = t
    BY <2>3, <2>5, <2>7, SeqEqual
  <2> QED
    BY <2>8 DEF u, v, t
<1>5. ASSUME NEW e \in S, NEW n \in 0..Len(s) PROVE SubSeq(Append(s, e), 1, n) = SubSeq(s, 1, n)
  <2> DEFINE t == Append(s, e)
             u == SubSeq(s, 1, n)
             v == SubSeq(t, 1, n)
  <2>1. t \in Seq(S) /\ Len(t) = Len(s) + 1 /\ (\A i \in 1..Len(s) : t[i] = s[i])
    BY AppendProperties
  <2> HIDE DEF t
  <2>2. n \in 0..Len(t) /\ n \in Nat
    BY <1>1, <2>1
  <2>3. u \in Seq(S) /\ Len(u) = n /\ (\A i \in 1..n : u[i] = s[i])
    BY <1>2
  <2>4. v \in Seq(S) /\ Len(v) = n /\ (\A i \in 1..n : v[i] = t[i])
    BY <1>2, <2>1, <2>2
  <2> HIDE DEF u, v
  <2>5. \A i \in 1..n : i \in 1..Len(s)
    BY <1>1
  <2>6. \A i \in 1..n : v[i] = u[i]
    BY <2>1, <2>3, <2>4, <2>5
  <2>7. v = u
    BY <2>3, <2>4, <2>6, SeqEqual
  <2> QED
    BY <2>7 DEF t, u, v
<1> QED
  BY <1>2, <1>3, <1>4, <1>5

Octet == 0..255
Text == Seq(Octet)

\* Concatenation, under a name that the provers do not expand.
Cat(a, b) == a \o b

\* a is how b begins.
Before(a, b) == \E r \in Text : b = Cat(a, r)

\* Concatenation of sequences: type, unit, associativity.
LEMMA CatSeq ==
  ASSUME NEW S
  PROVE  /\ \A a, b \in Seq(S) : Cat(a, b) \in Seq(S)
         /\ \A a \in Seq(S) : Cat(a, <<>>) = a /\ Cat(<<>>, a) = a
         /\ \A a, b, c \in Seq(S) : Cat(Cat(a, b), c) = Cat(a, Cat(b, c))
<1>1. \A a, b \in Seq(S) : a \o b \in Seq(S)
  BY ConcatProperties
<1>2. \A a \in Seq(S) : a \o <<>> = a /\ <<>> \o a = a
  BY ConcatEmptySeq
<1>3. \A a, b, c \in Seq(S) : (a \o b) \o c = a \o (b \o c)
  BY ConcatAssociative, SMTT(30)
<1> QED
  BY <1>1, <1>2, <1>3, SMTT(30) DEF Cat

\* The same, of texts.
LEMMA CatText ==
  /\ \A a, b \in Text : Cat(a, b) \in Text
  /\ \A a \in Text : Cat(a, <<>>) = a /\ Cat(<<>>, a) = a
  /\ \A a, b, c \in Text : Cat(Cat(a, b), c) = Cat(a, Cat(b, c))
BY CatSeq DEF Text

\* The empty sequence is a text.
LEMMA EmptyText == <<>> \in Text
BY DEF Text

\* A longer text begins in the same way.
LEMMA BeforeExtend ==
  ASSUME NEW a \in Text, NEW b \in Text, NEW c \in Text, Before(a, b)
  PROVE  Before(a, Cat(b, c))
<1>1. PICK r \in Text : b = Cat(a, r)
  BY DEF Before
<1>2. Cat(b, c) = Cat(a, Cat(r, c)) /\ Cat(r, c) \in Text
  BY <1>1, CatText
<1> QED
  BY <1>2 DEF Before

\* A shorter beginning is a beginning.
LEMMA BeforeCut ==
  ASSUME NEW a \in Text, NEW b \in Text, NEW c \in Text, Before(Cat(a, c), b)
  PROVE  Before(a, b)
<1>1. PICK r \in Text : b = Cat(Cat(a, c), r)
  BY DEF Before
<1>2. b = Cat(a, Cat(c, r)) /\ Cat(c, r) \in Text
  BY <1>1, CatText
<1> QED
  BY <1>2 DEF Before

\* A text begins with itself.
LEMMA BeforeSelf == ASSUME NEW a \in Text PROVE Before(a, a)
BY EmptyText, CatText DEF Before

\* A piece of a text is what stands there.
LEMMA PieceIs ==
  ASSUME NEW w, NEW x \in Text, NEW a \in Nat, \A i \in 1..Len(x) : w[a + i] = x[i]
  PROVE  SubSeq(w, a + 1, a + Len(x)) = x
<1> DEFINE t == SubSeq(w, a + 1, a + Len(x))
<1>1. Len(x) \in Nat /\ \A i \in 1..Len(x) : x[i] \in Octet
  BY LenProperties DEF Text
<1>2. \A i \in (a + 1)..(a + Len(x)) : w[i] \in Octet
  <2> TAKE i \in (a + 1)..(a + Len(x))
  <2>1. i - a \in 1..Len(x) /\ a + (i - a) = i
    BY <1>1
  <2> QED
    BY <1>1, <2>1, Zenon
<1>3. /\ t \in Text
      /\ Len(t) = IF a + 1 <= a + Len(x) THEN (a + Len(x)) - (a + 1) + 1 ELSE 0
      /\ \A i \in 1..((a + Len(x)) - (a + 1) + 1) : t[i] = w[(a + 1) + i - 1]
  BY <1>1, <1>2, SubSeqProperties DEF Text
<1> HIDE DEF t
<1>4. Len(t) = Len(x)
  BY <1>1, <1>3
<1>5. \A i \in 1..Len(x) : t[i] = x[i]
  <2> TAKE i \in 1..Len(x)
  <2>1. i \in 1..((a + Len(x)) - (a + 1) + 1) /\ (a + 1) + i - 1 = a + i
    BY <1>1
  <2> QED
    BY <1>3, <2>1, Zenon
<1>6. t = x
  BY <1>3, <1>4, <1>5, SeqEqual DEF Text
<1> QED
  BY <1>6 DEF t

\* A piece of a text is a text.
LEMMA PieceType ==
  ASSUME NEW w \in Text, NEW a \in 1..(Len(w) + 1), NEW b \in 0..Len(w)
  PROVE  SubSeq(w, a, b) \in Text
<1>1. Len(w) \in Nat /\ \A k \in 1..Len(w) : w[k] \in Octet
  BY LenProperties DEF Text
<1>2. a \in Int /\ b \in Int /\ \A k \in a..b : w[k] \in Octet
  BY <1>1
<1> QED
  BY <1>2, SubSeqProperties DEF Text

\* The bytes of a concatenation.
LEMMA CatBytes ==
  ASSUME NEW x \in Text, NEW y \in Text
  PROVE  /\ Cat(x, y) \in Text /\ Len(Cat(x, y)) = Len(x) + Len(y)
         /\ Len(x) \in Nat /\ Len(y) \in Nat
         /\ \A k \in 1..Len(x) : Cat(x, y)[k] = x[k] /\ x[k] \in Octet
         /\ \A k \in 1..Len(y) : Cat(x, y)[Len(x) + k] = y[k] /\ y[k] \in Octet
<1>1. Len(x) \in Nat /\ Len(y) \in Nat /\ (\A k \in 1..Len(x) : x[k] \in Octet)
      /\ \A k \in 1..Len(y) : y[k] \in Octet
  BY LenProperties DEF Text
<1>2. /\ Cat(x, y) \in Text /\ Len(Cat(x, y)) = Len(x) + Len(y)
      /\ \A k \in 1..(Len(x) + Len(y)) : Cat(x, y)[k] = IF k <= Len(x) THEN x[k] ELSE y[k - Len(x)]
  BY ConcatProperties DEF Cat, Text
<1>3. ASSUME NEW k \in 1..Len(y) PROVE Cat(x, y)[Len(x) + k] = y[k]
  <2>1. Len(x) + k \in 1..(Len(x) + Len(y)) /\ ~(Len(x) + k <= Len(x)) /\ (Len(x) + k) - Len(x) = k
    BY <1>1
  <2> QED
    BY <1>2, <2>1
<1>4. ASSUME NEW k \in 1..Len(x) PROVE Cat(x, y)[k] = x[k]
  <2>1. k \in 1..(Len(x) + Len(y)) /\ k <= Len(x)
    BY <1>1
  <2> QED
    BY <1>2, <2>1
<1> QED
  BY <1>1, <1>2, <1>3, <1>4

\* Two pieces of equal length with the same bytes are equal.
LEMMA SamePiece ==
  ASSUME NEW w, NEW v, NEW a \in Int, NEW b \in Int, NEW d \in Int,
         \A k \in a..b : w[k + d] = v[k] /\ v[k] \in Octet
  PROVE  SubSeq(w, a + d, b + d) = SubSeq(v, a, b)
<1> DEFINE s == SubSeq(w, a + d, b + d)
           t == SubSeq(v, a, b)
<1>1. /\ t \in Text
      /\ Len(t) = IF a <= b THEN b - a + 1 ELSE 0
      /\ \A i \in 1..(b - a + 1) : t[i] = v[a + i - 1]
  BY SubSeqProperties DEF Text
<1>2. \A k \in (a + d)..(b + d) : w[k] \in Octet
  <2> TAKE k \in (a + d)..(b + d)
  <2>1. k - d \in a..b /\ (k - d) + d = k
    OBVIOUS
  <2> QED
    BY <2>1
<1>3. a + d \in Int /\ b + d \in Int
  OBVIOUS
<1>4. /\ s \in Text
      /\ Len(s) = IF a + d <= b + d THEN (b + d) - (a + d) + 1 ELSE 0
      /\ \A i \in 1..((b + d) - (a + d) + 1) : s[i] = w[(a + d) + i - 1]
  BY <1>2, <1>3, SubSeqProperties DEF Text
<1> HIDE DEF s, t
<1>5. Len(s) = Len(t)
  BY <1>1, <1>4
<1>6. \A i \in 1..Len(s) : s[i] = t[i]
  <2> TAKE i \in 1..Len(s)
  <2>1. /\ i \in 1..(b - a + 1) /\ i \in 1..((b + d) - (a + d) + 1)
        /\ (a + d) + i - 1 = (a + i - 1) + d /\ a + i - 1 \in a..b
    BY <1>1, <1>4
  <2> QED
    BY <1>1, <1>4, <2>1
<1>7. s = t
  BY <1>1, <1>4, <1>5, <1>6, SeqEqual, Zenon DEF Text
<1> QED
  BY <1>7 DEF s, t

\* Of two beginnings of a text, the shorter one is how the longer one begins.
LEMMA BeforeShorter ==
  ASSUME NEW a \in Text, NEW b \in Text, NEW c \in Text,
         Before(a, c), Before(b, c), Len(a) <= Len(b)
  PROVE  /\ \E r \in Text : b = Cat(a, r) /\ Len(b) = Len(a) + Len(r)
         /\ Len(a) = Len(b) => a = b
<1>1. PICK p \in Text : c = Cat(a, p)
  BY Zenon DEF Before
<1>2. PICK q \in Text : c = Cat(b, q)
  BY DEF Before
<1>3. /\ Len(a) \in Nat /\ Len(b) \in Nat
      /\ \A k \in 1..Len(a) : c[k] = a[k]
      /\ \A k \in 1..Len(b) : c[k] = b[k] /\ b[k] \in Octet
  <2>1. Len(a) \in Nat /\ \A k \in 1..Len(a) : Cat(a, p)[k] = a[k]
    BY CatBytes, SMTT(30), Zenon
  <2>2. Len(b) \in Nat /\ \A k \in 1..Len(b) : Cat(b, q)[k] = b[k] /\ b[k] \in Octet
    BY CatBytes, Zenon
  <2> QED
    BY <1>1, <1>2, <2>1, <2>2
<1>4. \A k \in 1..Len(a) : a[k] = b[k]
  BY <1>3
<1> DEFINE r == SubSeq(b, Len(a) + 1, Len(b))
<1>5. SubSeq(b, 1, Len(a)) = a
  <2>1. \A i \in 1..Len(a) : b[0 + i] = a[i]
    BY <1>3, <1>4
  <2>2. SubSeq(b, 0 + 1, 0 + Len(a)) = a
    BY <2>1, PieceIs, Zenon
  <2> QED
    BY <1>3, <2>2
<1>6. r \in Text
  BY <1>3, SubSeqProperties DEF Text
<1>7. SubSeq(b, 1, Len(a)) \o r = SubSeq(b, 1, Len(b))
  BY <1>3, ConcatAdjacentSubSeq, 1 \in 1..Len(b) + 1, Len(a) \in 1 - 1..Len(b),
     Len(b) \in Len(a)..Len(b), Zenon DEF Text
<1>8. SubSeq(b, 1, Len(b)) = b
  BY SubSeqFull DEF Text
<1>9. b = Cat(a, r)
  BY <1>5, <1>7, <1>8, Zenon DEF Cat
<1> HIDE DEF r
<1>10. Len(b) = Len(a) + Len(r)
  BY <1>6, <1>9, CatBytes
<1>11. Len(a) = Len(b) => a = b
  BY <1>3, <1>4, SeqEqual DEF Text
<1> QED
  BY <1>6, <1>9, <1>10, <1>11

\* What follows the same beginning is the same.
LEMMA CatCancel ==
  ASSUME NEW a \in Text, NEW b \in Text, NEW c \in Text, Cat(a, b) = Cat(a, c)
  PROVE  b = c
<1>1. /\ Len(Cat(a, b)) = Len(a) + Len(b) /\ Len(a) \in Nat /\ Len(b) \in Nat
      /\ \A k \in 1..Len(b) : Cat(a, b)[Len(a) + k] = b[k]
  BY CatBytes, Zenon
<1>2. /\ Len(Cat(a, c)) = Len(a) + Len(c) /\ Len(c) \in Nat
      /\ \A k \in 1..Len(c) : Cat(a, c)[Len(a) + k] = c[k]
  BY CatBytes
<1>3. Len(b) = Len(c)
  BY <1>1, <1>2
<1>4. \A k \in 1..Len(b) : b[k] = c[k]
  BY <1>1, <1>2, <1>3
<1> QED
  BY <1>3, <1>4, SeqEqual DEF Text

-----------------------------------------------------------------------------
(* The codec *)

\* Sums modulo 256, and complements, are bytes.
LEMMA ByteSum ==
  /\ \A x, y \in Octet : (x + y) % 256 \in Octet
  /\ \A x \in Octet : 255 - x \in Octet
<1>1. \A z \in Nat : z % 256 \in 0..255
  OBVIOUS
<1>2. ASSUME NEW x \in Octet, NEW y \in Octet PROVE (x + y) % 256 \in Octet
  <2>1. x + y \in Nat
    BY DEF Octet
  <2> QED
    BY <1>1, <2>1 DEF Octet
<1>3. ASSUME NEW x \in Octet PROVE 255 - x \in Octet
  BY DEF Octet
<1> QED
  BY <1>2, <1>3

\* A checksum is a byte.
LEMMA ChecksumType ==
  ASSUME NEW b \in Text
  PROVE  checksum(b) \in Octet
<1> DEFINE n == Len(b)
           step == [x \in (1..n) \X Octet |-> (x[2] + b[x[1]]) % 256]
           sum[i \in 0..Len(b)] == IF i = 0 THEN 0 ELSE (sum[i - 1] + b[i]) % 256
<1>1. n \in Nat /\ \A i \in 1..n : b[i] \in Octet
  BY LenProperties DEF Text
<1>2. IsStep(step, Octet, n)
  <2>1. ASSUME NEW x \in (1..n) \X Octet PROVE (x[2] + b[x[1]]) % 256 \in Octet
    <3>1. x[2] \in Octet /\ b[x[1]] \in Octet
      BY <1>1
    <3> QED
      BY <3>1, ByteSum
  <2> QED
    BY <2>1 DEF IsStep
<1>3. PICK g : Iteration(g, Octet, n, 0, step)
  <2> HIDE DEF n, step
  <2> QED
    BY <1>1, <1>2, 0 \in Octet, Iterates, Zenon DEF Octet
<1>4. \A i \in 0..n : g[i] \in Octet /\ g[i] = IF i = 0 THEN 0 ELSE (g[i - 1] + b[i]) % 256
  <2> TAKE i \in 0..n
  <2>1. g[i] \in Octet
    BY <1>3 DEF Iteration
  <2>2. CASE i = 0
    BY <1>3, <2>1, <2>2 DEF Iteration
  <2>3. CASE i # 0
    <3>1. i \in 1..n /\ i - 1 \in 0..n
      BY <1>1, <2>3
    <3>2. <<i, g[i - 1]>> \in (1..n) \X Octet
      BY <1>3, <3>1 DEF Iteration
    <3>3. step[<<i, g[i - 1]>>] = (g[i - 1] + b[i]) % 256
      BY <3>2
    <3> QED
      BY <1>3, <2>1, <2>3, <3>1, <3>3, Zenon DEF Iteration
  <2> QED
    BY <2>2, <2>3
<1>5. g = [i \in 0..n |-> IF i = 0 THEN 0 ELSE (g[i - 1] + b[i]) % 256]
  <2>1. g \in [0..n -> Octet]
    BY <1>3 DEF Iteration
  <2> QED
    BY <1>4, <2>1
<1>6. sum = [i \in 0..n |-> IF i = 0 THEN 0 ELSE (sum[i - 1] + b[i]) % 256]
  <2> HIDE DEF step
  <2> QED
    BY <1>5, ZenonT(30) DEF sum
<1> HIDE DEF sum, n
<1>7. \A i \in 0..n : sum[i] \in Octet
  <2> DEFINE T == {i \in Nat : i \in 0..n => sum[i] \in Octet}
  <2>1. 0 \in T
    BY <1>1, <1>6 DEF Octet
  <2>2. ASSUME NEW i \in Nat, i \in T PROVE i + 1 \in T
    <3>1. SUFFICES ASSUME i + 1 \in 0..n PROVE sum[i + 1] \in Octet
      OBVIOUS
    <3>2. sum[i] \in Octet /\ b[i + 1] \in Octet
      BY <1>1, <2>2, <3>1
    <3>3. sum[i + 1] = (sum[i] + b[i + 1]) % 256
      BY <1>6, <3>1, i + 1 # 0, (i + 1) - 1 = i, Zenon
    <3> QED
      BY <3>2, <3>3, ByteSum
  <2> HIDE DEF T
  <2>3. T = Nat
    BY <2>1, <2>2, SetInduction, Zenon DEF T
  <2> QED
    BY <1>1, <2>3 DEF T
<1>8. checksum(b) = 255 - sum[n]
  BY DEF checksum, sum, n
<1> QED
  BY <1>1, <1>7, <1>8, n \in 0..n, ByteSum

\* What becomes of one byte.
Escaped(c) == IF c \in {frameChar, escChar} THEN <<escChar, Xor(c)>> ELSE <<c>>

\* What an escaped text is made of.
Clean == Octet \ {frameChar}

\* An escaped byte is one or two bytes, none of them a delimiter.
LEMMA EscapedType ==
  ASSUME NEW c \in Octet
  PROVE  Escaped(c) \in Seq(Clean) \ {<<>>}
<1>1. CASE c \in {126, 125}
  <2>1. Xor(c) \in Clean /\ 125 \in Clean
    BY <1>1 DEF Xor, Clean, Octet, frameChar
  <2> QED
    BY <1>1, <2>1 DEF Escaped, frameChar, escChar
<1>2. CASE c \notin {126, 125}
  <2>1. c \in Clean
    BY <1>2 DEF Clean, frameChar
  <2> QED
    BY <1>2, <2>1 DEF Escaped, frameChar, escChar
<1> QED
  BY <1>1, <1>2

\* escape, one byte at a time.
LEMMA EscapeAppend ==
  /\ escape(<<>>) = <<>>
  /\ \A b \in Text : escape(b) \in Seq(Clean)
  /\ \A b \in Text, c \in Octet : escape(Append(b, c)) = escape(b) \o Escaped(c)
  /\ \A c \in Octet : escape(<<c>>) = Escaped(c)
<1> DEFINE m(b) == [i \in DOMAIN b |-> Escaped(b[i])]
<1>1. \A b : escape(b) = Chain(m(b))
  BY DEF escape, Escaped
<1>2. m(<<>>) = <<>>
  OBVIOUS
<1>3. ASSUME NEW b \in Text PROVE m(b) \in Seq(Seq(Clean)) /\ Len(m(b)) = Len(b)
  <2>1. \A i \in 1..Len(b) : Escaped(b[i]) \in Seq(Clean)
    BY EscapedType, LenProperties DEF Text
  <2>2. m(b) \in [1..Len(b) -> Seq(Clean)] /\ Len(b) \in Nat
    BY <2>1, LenProperties DEF Text
  <2> QED
    BY <2>2, IsASeq, SeqDef
<1>4. ASSUME NEW b \in Text, NEW c \in Octet PROVE m(Append(b, c)) = Append(m(b), Escaped(c))
  <2> DEFINE d == Append(b, c)
  <2>1. d \in Text /\ Len(d) = Len(b) + 1 /\ Len(b) \in Nat
        /\ d[Len(b) + 1] = c /\ \A i \in 1..Len(b) : d[i] = b[i]
    BY AppendProperties, LenProperties DEF Text
  <2>2. DOMAIN b = 1..Len(b) /\ DOMAIN d = 1..Len(b) + 1
    BY <2>1, LenProperties DEF Text
  <2> HIDE DEF d
  <2>3. m(d) \in Seq(Seq(Clean)) /\ m(b) \in Seq(Seq(Clean)) /\ Escaped(c) \in Seq(Clean)
        /\ Len(m(d)) = Len(b) + 1 /\ Len(m(b)) = Len(b)
    BY <1>3, <2>1, EscapedType, Zenon
  <2>4. \A i \in 1..Len(b) : m(d)[i] = m(b)[i]
    BY <2>1, <2>2
  <2>5. m(d)[Len(b) + 1] = Escaped(c)
    BY <2>1, <2>2
  <2> HIDE DEF m
  <2> DEFINE e == Append(m(b), Escaped(c))
  <2>6. e \in Seq(Seq(Clean)) /\ Len(e) = Len(b) + 1 /\ e[Len(b) + 1] = Escaped(c)
        /\ \A i \in 1..Len(b) : e[i] = m(b)[i]
    BY <2>3, AppendProperties
  <2> HIDE DEF e
  <2>7. \A i \in 1..Len(m(d)) : m(d)[i] = e[i]
    <3> TAKE i \in 1..Len(m(d))
    <3>1. i \in 1..Len(b) \/ i = Len(b) + 1
      BY <2>1, <2>3
    <3> QED
      BY <2>4, <2>5, <2>6, <3>1
  <2>8. m(d) = e
    BY <2>3, <2>6, <2>7, SeqEqual
  <2> QED
    BY <2>8 DEF d, e
<1> HIDE DEF m
<1>5. escape(<<>>) = <<>>
  BY <1>1, <1>2, ChainEmpty
<1>6. ASSUME NEW b \in Text PROVE escape(b) \in Seq(Clean)
  <2>1. PICK f \in [0..Len(m(b)) -> Seq(Clean)] : Chain(m(b)) = f[Len(m(b))]
    BY <1>3, ChainHistory
  <2> QED
    BY <1>1, <1>3, <2>1, LenProperties DEF Text
<1>7. ASSUME NEW b \in Text, NEW c \in Octet PROVE escape(Append(b, c)) = escape(b) \o Escaped(c)
  BY <1>1, <1>3, <1>4, EscapedType, ChainAppend, Zenon
<1>8. ASSUME NEW c \in Octet PROVE escape(<<c>>) = Escaped(c)
  <2>1. <<>> \in Text /\ Append(<<>>, c) = <<c>>
    BY DEF Text
  <2>2. escape(<<c>>) = <<>> \o Escaped(c)
    BY <1>5, <1>7, <2>1, Zenon
  <2> QED
    BY <2>2, EscapedType, ConcatEmptySeq
<1> QED
  BY <1>5, <1>6, <1>7, <1>8

\* The loop of unescape: its state after each byte.
Loop == [out : Text, esc : BOOLEAN]

After(w, v, i) ==
  IF v.esc THEN [out |-> Append(v.out, Xor(w[i])), esc |-> FALSE]
  ELSE IF w[i] = escChar /\ i < Len(w) THEN [out |-> v.out, esc |-> TRUE]
  ELSE [out |-> Append(v.out, w[i]), esc |-> FALSE]

Unescaping(w) ==
  LET u[i \in 0..Len(w)] ==
        IF i = 0 THEN [out |-> <<>>, esc |-> FALSE]
        ELSE LET v == u[i - 1] IN
             IF v.esc THEN [out |-> Append(v.out, Xor(w[i])), esc |-> FALSE]
             ELSE IF w[i] = escChar /\ i < Len(w) THEN [out |-> v.out, esc |-> TRUE]
             ELSE [out |-> Append(v.out, w[i]), esc |-> FALSE]
  IN u

\* Xor takes bytes to bytes, the two special ones to others and back.
LEMMA XorFacts ==
  /\ \A c \in Octet : Xor(c) \in Octet
  /\ \A c \in {frameChar, escChar} : Xor(c) \notin {frameChar, escChar} /\ Xor(Xor(c)) = c
<1>1. \A c \in 0..255 : Xor(c) \in 0..255
  BY DEF Xor
<1>2. Xor(126) = 94 /\ Xor(125) = 93 /\ Xor(94) = 126 /\ Xor(93) = 125
  BY DEF Xor
<1>3. ASSUME NEW c \in {126, 125} PROVE Xor(c) \notin {126, 125} /\ Xor(Xor(c)) = c
  BY <1>2, c = 126 \/ c = 125
<1> QED
  BY <1>1, <1>3, Zenon DEF Octet, frameChar, escChar

\* unescape is the last state of its loop.
LEMMA UnescapeSteps ==
  ASSUME NEW w \in Text
  PROVE  /\ Unescaping(w)[0] = [out |-> <<>>, esc |-> FALSE]
         /\ \A i \in 1..Len(w) : Unescaping(w)[i] = After(w, Unescaping(w)[i - 1], i)
         /\ unescape(w) = Unescaping(w)[Len(w)].out
<1> DEFINE n == Len(w)
           start == [out |-> <<>>, esc |-> FALSE]
           step == [x \in (1..n) \X Loop |-> After(w, x[2], x[1])]
           u[i \in 0..Len(w)] ==
             IF i = 0 THEN [out |-> <<>>, esc |-> FALSE]
             ELSE LET v == u[i - 1] IN
                  IF v.esc THEN [out |-> Append(v.out, Xor(w[i])), esc |-> FALSE]
                  ELSE IF w[i] = escChar /\ i < Len(w) THEN [out |-> v.out, esc |-> TRUE]
                  ELSE [out |-> Append(v.out, w[i]), esc |-> FALSE]
<1>1. n \in Nat /\ \A i \in 1..n : w[i] \in Octet
  BY LenProperties DEF Text
<1>2. start \in Loop
  BY DEF Loop, Text
<1>3. IsStep(step, Loop, n)
  <2>1. ASSUME NEW i \in 1..n, NEW v \in Loop PROVE After(w, v, i) \in Loop
    <3>1. v.out \in Text /\ w[i] \in Octet /\ Xor(w[i]) \in Octet
      BY <1>1, XorFacts DEF Loop
    <3>2. Append(v.out, w[i]) \in Text /\ Append(v.out, Xor(w[i])) \in Text
      BY <3>1 DEF Text
    <3> QED
      BY <3>1, <3>2 DEF After, Loop
  <2> QED
    BY <2>1 DEF IsStep
<1>4. PICK g : Iteration(g, Loop, n, start, step)
  <2> HIDE DEF n, step, start
  <2> QED
    BY <1>1, <1>2, <1>3, Iterates
<1>5. g = [i \in 0..n |-> IF i = 0 THEN start ELSE After(w, g[i - 1], i)]
  <2>1. g \in [0..n -> Loop] /\ g[0] = start
    BY <1>4 DEF Iteration
  <2>2. ASSUME NEW i \in 0..n, i # 0 PROVE g[i] = After(w, g[i - 1], i)
    <3>1. i \in 1..n /\ i - 1 \in 0..n
      BY <1>1, <2>2
    <3>2. <<i, g[i - 1]>> \in (1..n) \X Loop
      BY <2>1, <3>1
    <3>3. step[<<i, g[i - 1]>>] = After(w, g[i - 1], i)
      BY <3>2
    <3> QED
      BY <1>4, <3>1, <3>3, Zenon DEF Iteration
  <2> QED
    BY <2>1, <2>2
<1>6. u = [i \in 0..n |-> IF i = 0 THEN start ELSE After(w, u[i - 1], i)]
  <2> HIDE DEF step
  <2> QED
    BY <1>5, Zenon DEF u, After
<1>7. u = Unescaping(w)
  BY DEF u, Unescaping
<1>8. unescape(w) = u[n].out
  BY DEF u, unescape
<1> HIDE DEF u, n, start
<1>9. u[0] = start /\ \A i \in 1..n : u[i] = After(w, u[i - 1], i)
  BY <1>1, <1>6
<1> QED
  BY <1>7, <1>8, <1>9 DEF n, start

\* The loop of unescape, over an escaped text with anything behind it.
Recovers(b, w) ==
  Unescaping(w)[Len(escape(b))] = [out |-> b, esc |-> FALSE]

\* An escaped text is a text.
LEMMA CleanText == Seq(Clean) \subseteq Text
BY SeqMonotonic DEF Clean, Text

\* At the end of an escaped text the loop of unescape has recovered the text,
\* whatever follows.
LEMMA UnescapeLoop ==
  ASSUME NEW b \in Text, NEW r \in Text
  PROVE  Recovers(b, escape(b) \o r)
<1> DEFINE P == {x \in Text : \A y \in Text : Recovers(x, escape(x) \o y)}
<1>1. <<>> \in P
  <2>1. <<>> \in Text
    BY DEF Text
  <2>2. ASSUME NEW y \in Text PROVE Recovers(<<>>, escape(<<>>) \o y)
    <3>1. escape(<<>>) \o y = y /\ Len(escape(<<>>)) = 0
      BY EscapeAppend, ConcatEmptySeq, Zenon DEF Text
    <3>2. Unescaping(y)[0] = [out |-> <<>>, esc |-> FALSE]
      BY UnescapeSteps
    <3> QED
      BY <3>1, <3>2, Zenon DEF Recovers
  <2> QED
    BY <2>1, <2>2
<1>2. ASSUME NEW x \in Text, x \in P, NEW c \in Octet PROVE Append(x, c) \in P
  <2>1. Append(x, c) \in Text
    BY DEF Text
  <2>2. ASSUME NEW y \in Text PROVE Recovers(Append(x, c), escape(Append(x, c)) \o y)
    <3> DEFINE e == escape(x)
               d == Escaped(c)
               w == escape(Append(x, c)) \o y
               l == Len(e)
    <3>1. e \in Text /\ d \in Text /\ escape(Append(x, c)) = e \o d
      BY EscapeAppend, EscapedType, CleanText, Zenon
    <3>2. d \o y \in Text /\ w = e \o (d \o y)
      <4>1. d \o y \in Text
        BY <3>1, ConcatProperties DEF Text
      <4>2. (e \o d) \o y = e \o (d \o y)
        <5>1. e \in Text /\ d \in Text
          BY <3>1
        <5> HIDE DEF e, d
        <5> QED
          BY <5>1, CatText, ZenonT(30) DEF Cat
      <4> QED
        BY <3>1, <4>1, <4>2
    <3>3. w \in Text /\ l \in Nat /\ Len(w) = l + Len(d \o y)
          /\ \A i \in 1..(l + Len(d \o y)) : w[i] = IF i <= l THEN e[i] ELSE (d \o y)[i - l]
      BY <3>1, <3>2, ConcatProperties, LenProperties DEF Text
    <3>4. Len(d \o y) = Len(d) + Len(y) /\ Len(d) \in Nat /\ Len(y) \in Nat
          /\ \A i \in 1..Len(d) + Len(y) : (d \o y)[i] = IF i <= Len(d) THEN d[i] ELSE y[i - Len(d)]
      BY <3>1, ConcatProperties, LenProperties DEF Text
    <3>5. Unescaping(w)[l] = [out |-> x, esc |-> FALSE]
      BY <1>2, <3>2, Zenon DEF Recovers
    <3>6. Len(escape(Append(x, c))) = l + Len(d)
      BY <3>1, ConcatProperties DEF Text
    <3>7. \A i \in 1..Len(w) : Unescaping(w)[i] = After(w, Unescaping(w)[i - 1], i)
      BY <3>3, UnescapeSteps, Zenon
    <3> HIDE DEF w, e, l, d
    <3>8. CASE c \in {frameChar, escChar}
      <4>1. d = <<escChar, Xor(c)>> /\ Len(d) = 2 /\ d[1] = escChar /\ d[2] = Xor(c)
        BY <3>8 DEF d, Escaped
      <4>2. l + 1 \in 1..Len(w) /\ l + 2 \in 1..Len(w) /\ l + 1 < Len(w)
        BY <3>3, <3>4, <4>1
      <4>3. w[l + 1] = escChar
        BY <3>3, <3>4, <4>1, <4>2, (l + 1) - l = 1, ~(l + 1 <= l)
      <4>4. w[l + 2] = Xor(c)
        BY <3>3, <3>4, <4>1, <4>2, (l + 2) - l = 2, ~(l + 2 <= l)
      <4>5. Unescaping(w)[l + 1] = [out |-> x, esc |-> TRUE]
        <5>1. Unescaping(w)[l + 1] = After(w, [out |-> x, esc |-> FALSE], l + 1)
          BY <3>3, <3>5, <3>7, <4>2, (l + 1) - 1 = l
        <5> QED
          BY <4>2, <4>3, <5>1 DEF After
      <4>6. Unescaping(w)[l + 2] = [out |-> Append(x, Xor(Xor(c))), esc |-> FALSE]
        <5>1. Unescaping(w)[l + 2] = After(w, [out |-> x, esc |-> TRUE], l + 2)
          BY <3>3, <3>7, <4>2, <4>5, (l + 2) - 1 = l + 1
        <5> QED
          BY <4>4, <5>1 DEF After
      <4>7. Xor(Xor(c)) = c
        BY <3>8, XorFacts
      <4> QED
        BY <3>6, <4>1, <4>6, <4>7 DEF Recovers, w
    <3>9. CASE c \notin {frameChar, escChar}
      <4>1. d = <<c>> /\ Len(d) = 1 /\ d[1] = c
        BY <3>9 DEF d, Escaped
      <4>2. l + 1 \in 1..Len(w)
        BY <3>3, <3>4, <4>1
      <4>3. w[l + 1] = c
        BY <3>3, <3>4, <4>1, <4>2, (l + 1) - l = 1, ~(l + 1 <= l)
      <4>4. Unescaping(w)[l + 1] = [out |-> Append(x, c), esc |-> FALSE]
        <5>1. Unescaping(w)[l + 1] = After(w, [out |-> x, esc |-> FALSE], l + 1)
          BY <3>3, <3>5, <3>7, <4>2, (l + 1) - 1 = l
        <5> QED
          BY <3>9, <4>3, <5>1 DEF After
      <4> QED
        BY <3>6, <4>1, <4>4 DEF Recovers, w
    <3> QED
      BY <3>8, <3>9
  <2> QED
    BY <2>1, <2>2
<1> HIDE DEF P
<1>3. P = Text
  BY <1>1, <1>2, SeqInduction, Zenon DEF P, Text
<1> QED
  BY <1>3 DEF P

\* Nothing is lost or changed by escaping (escape, unescape).
THEOREM UnescapeEscape == \A b \in Text : unescape(escape(b)) = b
<1> TAKE b \in Text
<1>1. <<>> \in Text /\ escape(b) \in Text
  BY EscapeAppend, CleanText DEF Text
<1>2. escape(b) \o <<>> = escape(b)
  BY <1>1, ConcatEmptySeq DEF Text
<1>3. Recovers(b, escape(b))
  BY <1>1, <1>2, UnescapeLoop, Zenon
<1>4. unescape(escape(b)) = Unescaping(escape(b))[Len(escape(b))].out
  BY <1>1, UnescapeSteps
<1> QED
  BY <1>3, <1>4 DEF Recovers

-----------------------------------------------------------------------------
(* Frames *)

\* The two parts of an unescaped frame.
LEMMA BodyCheck ==
  ASSUME NEW p \in Text, NEW c \in Octet
  PROVE  Body(Append(p, c)) = p /\ Check(Append(p, c)) = c
<1> DEFINE d == Append(p, c)
           t == SubSeq(d, 1, Len(p))
<1>1. d \in Text /\ Len(d) = Len(p) + 1 /\ d[Len(p) + 1] = c /\ Len(p) \in Nat
      /\ \A i \in 1..Len(p) : d[i] = p[i] /\ p[i] \in Octet
  BY AppendProperties, LenProperties DEF Text
<1>2. Body(d) = t /\ Check(d) = c
  BY <1>1, (Len(p) + 1) - 1 = Len(p) DEF Body, Check
<1> HIDE DEF d
<1>3. t \in Text /\ Len(t) = Len(p) /\ \A i \in 1..Len(p) : t[i] = d[i]
  <2>1. /\ t \in Text
        /\ Len(t) = IF 1 <= Len(p) THEN Len(p) - 1 + 1 ELSE 0
        /\ \A i \in 1..(Len(p) - 1 + 1) : t[i] = d[1 + i - 1]
    BY <1>1, SubSeqProperties DEF Text
  <2> HIDE DEF t
  <2> QED
    BY <1>1, <2>1
<1> HIDE DEF t
<1>4. t = p
  BY <1>1, <1>3, SeqEqual DEF Text
<1> QED
  BY <1>2, <1>4 DEF d

\* Find finds the first one.
LEMMA FindDelimiter ==
  ASSUME NEW w, NEW i \in Nat, NEW j \in Nat, Len(w) \in Nat, i <= j, j <= Len(w),
         w[j] = frameChar, \A k \in i..(j - 1) : w[k] # frameChar
  PROVE  Find(w, i, TRUE) = j
<1> DEFINE at == {k \in i..Len(w) : (w[k] = frameChar) = TRUE}
<1>1. j \in at /\ \A k \in at : j <= k /\ k \in Nat
  OBVIOUS
<1>2. Find(w, i, TRUE) = IF at = {} THEN Len(w) + 1 ELSE CHOOSE k \in at : \A m \in at : k <= m
  BY DEF Find
<1> HIDE DEF at
<1>3. \A k \in at : (\A m \in at : k <= m) => k = j
  BY <1>1
<1> QED
  BY <1>1, <1>2, <1>3, Zenon

\* The same, for the first byte that is no delimiter.
LEMMA FindContent ==
  ASSUME NEW w, NEW i \in Nat, NEW j \in Nat, Len(w) \in Nat, i <= j, j <= Len(w),
         w[j] # frameChar, \A k \in i..(j - 1) : w[k] = frameChar
  PROVE  Find(w, i, FALSE) = j
<1> DEFINE at == {k \in i..Len(w) : (w[k] = frameChar) = FALSE}
<1>1. j \in at /\ \A k \in at : j <= k /\ k \in Nat
  OBVIOUS
<1>2. Find(w, i, FALSE) = IF at = {} THEN Len(w) + 1 ELSE CHOOSE k \in at : \A m \in at : k <= m
  BY DEF Find
<1> HIDE DEF at
<1>3. \A k \in at : (\A m \in at : k <= m) => k = j
  BY <1>1
<1> QED
  BY <1>1, <1>2, <1>3, Zenon

\* A frame is its delimiters and, between them, the escaped payload and checksum.
LEMMA FrameShape ==
  ASSUME NEW p \in Text
  PROVE  /\ Append(p, checksum(p)) \in Text
         /\ escape(Append(p, checksum(p))) \in Seq(Clean) \ {<<>>}
         /\ frame(p) = <<frameChar>> \o escape(Append(p, checksum(p))) \o <<frameChar>>
         /\ frame(p) \in Text
<1> DEFINE c == checksum(p)
           e == escape(p)
           x == escape(Append(p, c))
<1>1. c \in Octet
  BY ChecksumType
<1>2. Append(p, c) \in Text
  BY <1>1 DEF Text
<1>3. e \in Text /\ x \in Seq(Clean) /\ x \in Text /\ Escaped(c) \in Text /\ Escaped(c) # <<>>
  BY <1>1, <1>2, EscapeAppend, EscapedType, CleanText
<1>4. x = e \o Escaped(c) /\ escape(<<c>>) = Escaped(c)
  BY <1>1, EscapeAppend
<1>5. <<frameChar>> \in Text
  BY DEF Text, Octet, frameChar
<1>6. frame(p) = <<frameChar>> \o e \o Escaped(c) \o <<frameChar>>
  BY <1>4, SMTT(30) DEF frame
<1> HIDE DEF x, e, c
<1>7. (<<frameChar>> \o e) \o Escaped(c) = <<frameChar>> \o (e \o Escaped(c))
  BY <1>3, <1>5, ConcatAssociative, SMTT(30) DEF Text
<1>8. x # <<>>
  BY <1>3, <1>4, ConcatEqualIffEmpty DEF Text
<1>9. frame(p) = <<frameChar>> \o x \o <<frameChar>>
  BY <1>4, <1>6, <1>7
<1>10. frame(p) \in Text
  <2>1. <<frameChar>> \o x \in Text
    BY <1>3, <1>5, ConcatProperties DEF Text
  <2> QED
    BY <1>5, <1>9, <2>1, ConcatProperties DEF Text
<1> QED
  BY <1>2, <1>3, <1>8, <1>9, <1>10 DEF x, c

\* The bytes of a delimited content with anything behind it.
LEMMA FrameBytes ==
  ASSUME NEW x \in Text, NEW r \in Text
  PROVE  LET w == (<<frameChar>> \o x \o <<frameChar>>) \o r
         IN  /\ w \in Text /\ Len(w) = Len(x) + 2 + Len(r)
             /\ w[1] = frameChar /\ w[Len(x) + 2] = frameChar
             /\ \A i \in 1..Len(x) : w[i + 1] = x[i]
             /\ \A i \in 1..Len(r) : w[Len(x) + 2 + i] = r[i]
<1> DEFINE f == <<frameChar>>
           y == f \o x
           z == y \o f
           w == z \o r
           n == Len(x)
<1>1. n \in Nat /\ Len(r) \in Nat /\ f \in Text /\ Len(f) = 1 /\ f[1] = frameChar
  BY LenProperties DEF Text, Octet, frameChar
<1>2. y \in Text /\ Len(y) = n + 1
      /\ \A i \in 1..(1 + n) : y[i] = IF i <= 1 THEN f[i] ELSE x[i - 1]
  BY <1>1, ConcatProperties DEF Text
<1> HIDE DEF y
<1>3. z \in Text /\ Len(z) = n + 1 + 1
      /\ \A i \in 1..(n + 1 + 1) : z[i] = IF i <= n + 1 THEN y[i] ELSE f[i - (n + 1)]
  BY <1>1, <1>2, ConcatProperties DEF Text
<1> HIDE DEF z, f
<1>4. w \in Text /\ Len(w) = n + 2 + Len(r)
      /\ \A i \in 1..(n + 2 + Len(r)) : w[i] = IF i <= n + 2 THEN z[i] ELSE r[i - (n + 2)]
  <2>1. Len(z) = n + 2
    BY <1>1, <1>3
  <2>2. w \in Text /\ Len(w) = Len(z) + Len(r)
        /\ \A i \in 1..(Len(z) + Len(r)) : w[i] = IF i <= Len(z) THEN z[i] ELSE r[i - Len(z)]
    BY <1>3, ConcatProperties, Zenon DEF Text
  <2> HIDE DEF w, n
  <2> QED
    BY <2>1, <2>2
<1> HIDE DEF w, n
<1>5. w[1] = frameChar
  BY <1>1, <1>2, <1>3, <1>4
<1>6. w[n + 2] = frameChar
  <2>1. /\ n + 2 \in 1..(n + 2 + Len(r)) /\ n + 2 <= n + 2
        /\ n + 2 \in 1..(n + 1 + 1) /\ ~(n + 2 <= n + 1) /\ (n + 2) - (n + 1) = 1
    BY <1>1
  <2>2. w[n + 2] = z[n + 2]
    BY <1>4, <2>1, Zenon
  <2>3. z[n + 2] = f[1]
    BY <1>3, <2>1, Zenon
  <2> QED
    BY <1>1, <2>2, <2>3
<1>7. ASSUME NEW i \in 1..n PROVE w[i + 1] = x[i]
  <2>1. i + 1 \in 1..(n + 2 + Len(r)) /\ i + 1 \in 1..(n + 1 + 1) /\ i + 1 \in 1..(1 + n)
        /\ i + 1 <= n + 2 /\ i + 1 <= n + 1 /\ ~(i + 1 <= 1) /\ (i + 1) - 1 = i
    BY <1>1
  <2>2. w[i + 1] = z[i + 1]
    BY <1>4, <2>1
  <2>3. z[i + 1] = y[i + 1]
    BY <1>3, <2>1
  <2>4. y[i + 1] = x[(i + 1) - 1]
    BY <1>2, <2>1
  <2> QED
    BY <2>1, <2>2, <2>3, <2>4
<1>8. ASSUME NEW i \in 1..Len(r) PROVE w[n + 2 + i] = r[i]
  <2>1. n + 2 + i \in 1..(n + 2 + Len(r)) /\ ~(n + 2 + i <= n + 2) /\ (n + 2 + i) - (n + 2) = i
    BY <1>1
  <2> QED
    BY <1>4, <2>1
<1> QED
  BY <1>4, <1>5, <1>6, <1>7, <1>8 DEF w, z, y, f, n

\* Whatever follows it, a frame that is sent is read back: the payload is the one
\* that was framed, the checksum fits, and exactly the frame is consumed
\* (writeFrame and readFrame, protocol.go and client.go).
THEOREM FrameReadBack ==
  \A p \in Text, r \in Text : readFrame(frame(p) \o r) = [ok |-> TRUE, payload |-> p, rest |-> r]
<1> TAKE p \in Text, r \in Text
<1> DEFINE d == Append(p, checksum(p))
           x == escape(d)
           n == Len(x)
           w == (<<frameChar>> \o x \o <<frameChar>>) \o r
<1>1. d \in Text /\ x \in Seq(Clean) /\ x # <<>> /\ x \in Text /\ frame(p) \o r = w
  BY FrameShape, CleanText, Zenon
<1>2. unescape(x) = d
  BY <1>1, UnescapeEscape, Zenon
<1>3. Body(d) = p /\ Check(d) = checksum(p)
  BY ChecksumType, BodyCheck
<1>4. n \in Nat /\ n > 0 /\ Len(r) \in Nat /\ \A i \in 1..n : x[i] # frameChar
  BY <1>1, EmptySeq, LenProperties DEF Text, Clean
<1> HIDE DEF x, d
<1>5. /\ w \in Text /\ Len(w) = n + 2 + Len(r)
      /\ w[1] = frameChar /\ w[n + 2] = frameChar
      /\ \A i \in 1..n : w[i + 1] = x[i]
      /\ \A i \in 1..Len(r) : w[n + 2 + i] = r[i]
  BY <1>1, FrameBytes, Zenon
<1> HIDE DEF w
<1>6. \A k \in 2..(n + 1) : w[k] # frameChar
  <2> TAKE k \in 2..(n + 1)
  <2>1. k - 1 \in 1..n /\ (k - 1) + 1 = k
    BY <1>4
  <2>2. w[(k - 1) + 1] = x[k - 1] /\ x[k - 1] # frameChar
    BY <1>4, <1>5, <2>1
  <2> QED
    BY <2>1, <2>2
<1> HIDE DEF n
<1>7. Find(w, 1, FALSE) = 2
  <2>1. Len(w) \in Nat /\ 1 <= 2 /\ 2 <= Len(w) /\ w[2] # frameChar
        /\ \A k \in 1..(2 - 1) : w[k] = frameChar
    BY <1>4, <1>5, <1>6
  <2> QED
    BY <2>1, FindContent, Zenon
<1>8. Find(w, 2, TRUE) = n + 2
  <2>1. Len(w) \in Nat /\ 2 <= n + 2 /\ n + 2 <= Len(w) /\ w[n + 2] = frameChar
        /\ n + 2 \in Nat /\ \A k \in 2..((n + 2) - 1) : w[k] # frameChar
    BY <1>4, <1>5, <1>6
  <2> QED
    BY <2>1, FindDelimiter, Zenon
<1>9. SubSeq(w, 2, (n + 2) - 1) = x
  <2>1. \A i \in 1..Len(x) : w[1 + i] = x[i]
    BY <1>4, <1>5 DEF n
  <2>2. SubSeq(w, 1 + 1, 1 + Len(x)) = x
    BY <1>1, <2>1, PieceIs
  <2>3. 1 + 1 = 2 /\ 1 + Len(x) = (n + 2) - 1
    BY <1>4 DEF n
  <2> QED
    BY <2>2, <2>3
<1>10. SubSeq(w, (n + 2) + 1, Len(w)) = r
  <2>1. n + 2 \in Nat /\ \A i \in 1..Len(r) : w[(n + 2) + i] = r[i]
    BY <1>4, <1>5
  <2>2. SubSeq(w, (n + 2) + 1, (n + 2) + Len(r)) = r
    <3> DEFINE a == n + 2
    <3> HIDE DEF a
    <3>1. a \in Nat /\ \A i \in 1..Len(r) : w[a + i] = r[i]
      BY <2>1 DEF a
    <3>2. SubSeq(w, a + 1, a + Len(r)) = r
      BY <3>1, PieceIs
    <3> QED
      BY <3>2 DEF a
  <2> QED
    BY <1>5, <2>2
<1>11. readFrame(w) = [ok |-> checksum(Body(unescape(x))) = Check(unescape(x)),
                       payload |-> Body(unescape(x)), rest |-> r]
  BY <1>7, <1>8, <1>9, <1>10, Zenon DEF readFrame
<1> QED
  BY <1>1, <1>2, <1>3, <1>11, Zenon

-----------------------------------------------------------------------------
(* The scanner *)

\* j is where the search for content, or for a delimiter, that starts at i ends.
IsContent(w, i, j) ==
  /\ j \in i..(Len(w) + 1)
  /\ \A k \in i..(j - 1) : w[k] = frameChar
  /\ j <= Len(w) => w[j] # frameChar

IsDelimiter(w, i, j) ==
  /\ j \in i..(Len(w) + 1)
  /\ \A k \in i..(j - 1) : w[k] # frameChar
  /\ j <= Len(w) => w[j] = frameChar

\* The search for a member of `at' from i on, in 1..n.
First(at, n) == IF at = {} THEN n + 1 ELSE CHOOSE j \in at : \A k \in at : j <= k

\* The search finds the first member, or runs to the end.
LEMMA FirstFound ==
  ASSUME NEW n \in Nat, NEW i \in 1..(n + 1), NEW at \in SUBSET (i..n)
  PROVE  /\ First(at, n) \in i..(n + 1)
         /\ \A k \in i..(First(at, n) - 1) : k \notin at
         /\ First(at, n) <= n => First(at, n) \in at
<1>1. CASE at = {}
  BY <1>1 DEF First
<1>2. CASE at # {}
  <2> DEFINE j == CHOOSE k \in at : \A m \in at : k <= m
  <2>1. at \in SUBSET Nat /\ \A k \in at : k \in i..n
    OBVIOUS
  <2>2. j \in at /\ \A m \in at : j <= m
    <3>1. \E k \in at : \A m \in at : k <= m
      BY <1>2, <2>1, LeastNumber
    <3> QED
      BY <3>1, Zenon
  <2>3. First(at, n) = j
    BY <1>2, Zenon DEF First
  <2> HIDE DEF j
  <2>4. \A k \in i..(j - 1) : k \notin at
    BY <2>1, <2>2
  <2> QED
    BY <2>1, <2>2, <2>3, <2>4
<1> QED
  BY <1>1, <1>2

\* Find, looking for content.
LEMMA FindsContent ==
  ASSUME NEW w \in Text, NEW i \in 1..(Len(w) + 1)
  PROVE  /\ IsContent(w, i, Find(w, i, FALSE))
         /\ \A j : IsContent(w, i, j) => Find(w, i, FALSE) = j
<1> DEFINE at == {k \in i..Len(w) : (w[k] = frameChar) = FALSE}
           f == First(at, Len(w))
<1>1. Len(w) \in Nat
  BY LenProperties DEF Text
<1>2. Find(w, i, FALSE) = f
  BY DEF Find, First
<1>3. at \in SUBSET (i..Len(w)) /\ \A k \in i..Len(w) : k \in at <=> w[k] # frameChar
  BY <1>1
<1> HIDE DEF at
<1>4. f \in i..(Len(w) + 1) /\ (\A k \in i..(f - 1) : k \notin at) /\ (f <= Len(w) => f \in at)
  BY <1>1, <1>3, FirstFound
<1> HIDE DEF f
<1>5. IsContent(w, i, f)
  <2>1. \A k \in i..(f - 1) : w[k] = frameChar
    BY <1>1, <1>3, <1>4
  <2>2. f <= Len(w) => w[f] # frameChar
    BY <1>1, <1>3, <1>4
  <2> QED
    BY <1>4, <2>1, <2>2 DEF IsContent
<1>6. ASSUME NEW j, IsContent(w, i, j) PROVE f = j
  BY <1>1, <1>5, <1>6 DEF IsContent
<1> QED
  BY <1>2, <1>5, <1>6, Zenon

\* Find, looking for a delimiter.
LEMMA FindsDelimiter ==
  ASSUME NEW w \in Text, NEW i \in 1..(Len(w) + 1)
  PROVE  /\ IsDelimiter(w, i, Find(w, i, TRUE))
         /\ \A j : IsDelimiter(w, i, j) => Find(w, i, TRUE) = j
<1> DEFINE at == {k \in i..Len(w) : (w[k] = frameChar) = TRUE}
           f == First(at, Len(w))
<1>1. Len(w) \in Nat
  BY LenProperties DEF Text
<1>2. Find(w, i, TRUE) = f
  BY DEF Find, First
<1>3. at \in SUBSET (i..Len(w)) /\ \A k \in i..Len(w) : k \in at <=> w[k] = frameChar
  BY <1>1
<1> HIDE DEF at
<1>4. f \in i..(Len(w) + 1) /\ (\A k \in i..(f - 1) : k \notin at) /\ (f <= Len(w) => f \in at)
  BY <1>1, <1>3, FirstFound
<1> HIDE DEF f
<1>5. IsDelimiter(w, i, f)
  <2>1. \A k \in i..(f - 1) : w[k] # frameChar
    BY <1>1, <1>3, <1>4
  <2>2. f <= Len(w) => w[f] = frameChar
    BY <1>1, <1>3, <1>4
  <2> QED
    BY <1>4, <2>1, <2>2 DEF IsDelimiter
<1>6. ASSUME NEW j, IsDelimiter(w, i, j) PROVE f = j
  BY <1>1, <1>5, <1>6 DEF IsDelimiter
<1> QED
  BY <1>2, <1>5, <1>6, Zenon

-----------------------------------------------------------------------------

Result == [buf : Text, raws : Seq(Text)]

\* Where the search from i on finds content, and where that ends.
Begin(w, i) == Find(w, i, FALSE)
End(w, i) == Find(w, Begin(w, i), TRUE)

\* Where the next content begins and ends.
LEMMA BeginEnd ==
  ASSUME NEW w \in Text, NEW i \in 1..(Len(w) + 1)
  PROVE  /\ Len(w) \in Nat /\ \A k \in 1..Len(w) : w[k] \in Octet
         /\ Begin(w, i) \in i..(Len(w) + 1) /\ End(w, i) \in Begin(w, i)..(Len(w) + 1)
         /\ IsContent(w, i, Begin(w, i)) /\ IsDelimiter(w, Begin(w, i), End(w, i))
         /\ End(w, i) <= Len(w) => End(w, i) > Begin(w, i)
         /\ \A a, z : IsContent(w, i, a) /\ IsDelimiter(w, a, z) => Begin(w, i) = a /\ End(w, i) = z
<1>1. Len(w) \in Nat /\ \A k \in 1..Len(w) : w[k] \in Octet
  BY LenProperties DEF Text
<1>2. IsContent(w, i, Begin(w, i)) /\ \A a : IsContent(w, i, a) => Begin(w, i) = a
  BY FindsContent, Zenon DEF Begin
<1>3. Begin(w, i) \in i..(Len(w) + 1) /\ Begin(w, i) \in 1..(Len(w) + 1)
  BY <1>1, <1>2 DEF IsContent
<1>4. IsDelimiter(w, Begin(w, i), End(w, i))
      /\ \A z : IsDelimiter(w, Begin(w, i), z) => End(w, i) = z
  BY <1>3, FindsDelimiter, Zenon DEF End
<1>5. End(w, i) \in Begin(w, i)..(Len(w) + 1)
  BY <1>4 DEF IsDelimiter
<1>6. End(w, i) <= Len(w) => End(w, i) > Begin(w, i)
  BY <1>1, <1>2, <1>3, <1>4, <1>5 DEF IsContent, IsDelimiter
<1> QED
  BY <1>1, <1>2, <1>3, <1>4, <1>5, <1>6

\* One round of Feed's loop.
Round(w, g, i) ==
  IF End(w, i) > Len(w) THEN [buf |-> SubSeq(w, Begin(w, i), Len(w)), raws |-> <<>>]
  ELSE [g[End(w, i)] EXCEPT !.raws = <<SubSeq(w, Begin(w, i), End(w, i) - 1)>> \o @]

\* The rounds from m on.
Rounds(g, w, m) ==
  /\ g \in [m..(Len(w) + 1) -> Result]
  /\ \A i \in m..(Len(w) + 1) : g[i] = Round(w, g, i)

\* A round of Feed gives a result.
LEMMA RoundType ==
  ASSUME NEW w \in Text, NEW i \in 1..(Len(w) + 1), NEW g,
         \A j \in (i + 1)..(Len(w) + 1) : g[j] \in Result
  PROVE  Round(w, g, i) \in Result
<1> DEFINE a == Begin(w, i)
           z == End(w, i)
           L == Len(w)
<1>1. L \in Nat /\ a \in i..(L + 1) /\ z \in a..(L + 1) /\ (z <= L => z > a)
  BY BeginEnd
<1>2. CASE z > L
  <2>1. SubSeq(w, a, L) \in Text
    BY <1>1, PieceType
  <2> QED
    BY <1>2, <2>1 DEF Round, Result
<1>3. CASE ~(z > L)
  <2> HIDE DEF a, z, L
  <2>1. z \in (i + 1)..(L + 1) /\ z - 1 \in 0..L /\ a \in 1..(L + 1)
    BY <1>1, <1>3 DEF L
  <2>2. SubSeq(w, a, z - 1) \in Text
    BY <2>1, PieceType DEF L
  <2>3. g[z] \in Result
    BY <2>1 DEF L
  <2>4. <<SubSeq(w, a, z - 1)>> \in Seq(Text)
    BY <2>2
  <2>5. <<SubSeq(w, a, z - 1)>> \o g[z].raws \in Seq(Text)
    BY <2>3, <2>4, ConcatProperties DEF Result
  <2>6. Round(w, g, i) = [g[z] EXCEPT !.raws = <<SubSeq(w, a, z - 1)>> \o @]
    BY <1>3 DEF Round, a, z, L
  <2> QED
    BY <2>3, <2>5, <2>6, Zenon DEF Result
<1> QED
  BY <1>2, <1>3

\* A round looks only at later ones.
LEMMA RoundLooksAhead ==
  ASSUME NEW w \in Text, NEW i \in 1..(Len(w) + 1), NEW g, NEW h,
         \A j \in (i + 1)..(Len(w) + 1) : g[j] = h[j]
  PROVE  Round(w, g, i) = Round(w, h, i)
<1>1. Len(w) \in Nat /\ Begin(w, i) \in i..(Len(w) + 1) /\ End(w, i) \in Begin(w, i)..(Len(w) + 1)
      /\ (End(w, i) <= Len(w) => End(w, i) > Begin(w, i))
  BY BeginEnd
<1>2. End(w, i) > Len(w) \/ End(w, i) \in (i + 1)..(Len(w) + 1)
  BY <1>1
<1>3. End(w, i) > Len(w) \/ g[End(w, i)] = h[End(w, i)]
  BY <1>2
<1> QED
  BY <1>3, Zenon DEF Round

\* The rounds of Feed, from the end of the text back to any start, exist.
LEMMA RoundsExist ==
  ASSUME NEW w \in Text
  PROVE  \E g : Rounds(g, w, 1)
<1> DEFINE n == Len(w) + 1
           P == {i \in 1..n : \E g : Rounds(g, w, i)}
<1>1. Len(w) \in Nat /\ n \in Nat /\ 1 \in 1..n
  BY LenProperties DEF Text
<1>2. ASSUME NEW i \in 1..n, \A j \in (i + 1)..n : j \in P PROVE i \in P
  <2>1. PICK h : /\ \A j \in (i + 1)..n : h[j] \in Result
                 /\ \A j \in (i + 1)..n : h[j] = Round(w, h, j)
    <3>1. CASE i = n
      <4>1. \A j \in (i + 1)..n : FALSE
        BY <1>1, <3>1
      <4> QED
        BY <4>1
    <3>2. CASE i # n
      <4>1. i + 1 \in (i + 1)..n
        BY <1>1, <3>2
      <4>2. PICK h : Rounds(h, w, i + 1)
        BY <1>2, <4>1
      <4> QED
        BY <4>2 DEF Rounds
    <3> QED
      BY <3>1, <3>2
  <2> DEFINE g == [j \in i..n |-> IF j = i THEN Round(w, h, i) ELSE h[j]]
  <2>2. \A j \in (i + 1)..n : g[j] = h[j]
    BY <1>1
  <2>3. g[i] = Round(w, h, i)
    BY <1>1
  <2>4. Round(w, h, i) \in Result
    BY <2>1, RoundType
  <2>5. g \in [i..n -> Result]
    <3>1. \A j \in i..n : j = i \/ j \in (i + 1)..n
      BY <1>1
    <3> QED
      BY <2>1, <2>4, <3>1
  <2> HIDE DEF g
  <2>6. ASSUME NEW j \in i..n PROVE g[j] = Round(w, g, j)
    <3>1. \A k \in (j + 1)..n : g[k] = h[k]
      BY <1>1, <2>2
    <3>2. j \in 1..n
      BY <1>1
    <3>3. Round(w, g, j) = Round(w, h, j)
      BY <3>1, <3>2, RoundLooksAhead
    <3>4. j = i \/ j \in (i + 1)..n
      BY <1>1
    <3> QED
      BY <2>1, <2>2, <2>3, <3>3, <3>4
  <2>7. Rounds(g, w, i)
    BY <2>5, <2>6 DEF Rounds
  <2> QED
    BY <2>7
<1> HIDE DEF n, P
<1>3. \A i \in 1..n : i \in P
  BY <1>1, <1>2, Descends, Zenon
<1> QED
  BY <1>1, <1>3 DEF P

\* What Feed's loop has found when it is at i.
Scanning(w) ==
  LET scan[i \in 1..Len(w) + 1] ==
        LET a == Find(w, i, FALSE)
            z == Find(w, a, TRUE)
        IN IF z > Len(w) THEN [buf |-> SubSeq(w, a, Len(w)), raws |-> <<>>]
           ELSE [scan[z] EXCEPT !.raws = <<SubSeq(w, a, z - 1)>> \o @]
  IN scan

\* Feed is its rounds from the start of the text on.
LEMMA FeedRounds ==
  ASSUME NEW w \in Text
  PROVE  Rounds(Scanning(w), w, 1) /\ Feed(w) = Scanning(w)[1]
<1> DEFINE n == Len(w) + 1
           scan[i \in 1..Len(w) + 1] ==
             LET a == Find(w, i, FALSE)
                 z == Find(w, a, TRUE)
             IN IF z > Len(w) THEN [buf |-> SubSeq(w, a, Len(w)), raws |-> <<>>]
                ELSE [scan[z] EXCEPT !.raws = <<SubSeq(w, a, z - 1)>> \o @]
<1>0. n \in Nat
  BY LenProperties DEF Text
<1>1. PICK g : Rounds(g, w, 1)
  BY RoundsExist
<1>2. g = [i \in 1..n |-> Round(w, g, i)]
  BY <1>1 DEF Rounds
<1>3. scan = [i \in 1..n |-> Round(w, scan, i)]
  BY <1>2, Zenon DEF scan, Round, Begin, End
<1>4. Scanning(w) = scan /\ Feed(w) = scan[1]
  BY DEF Scanning, scan, Feed
<1> HIDE DEF scan, n
<1> DEFINE P == {i \in 1..n : scan[i] = g[i]}
<1>5. ASSUME NEW i \in 1..n, \A j \in (i + 1)..n : j \in P PROVE i \in P
  <2>1. Round(w, scan, i) = Round(w, g, i)
    BY <1>5, RoundLooksAhead DEF n
  <2>2. scan[i] = Round(w, scan, i) /\ g[i] = Round(w, g, i)
    BY <1>2, <1>3, Zenon
  <2> QED
    BY <2>1, <2>2
<1> HIDE DEF P
<1>6. \A i \in 1..n : i \in P
  BY <1>0, <1>5, Descends
<1>7. scan = g
  BY <1>2, <1>3, <1>6 DEF P
<1> QED
  BY <1>1, <1>4, <1>7

\* A result with other frames in it.
LEMMA ResultExcept ==
  ASSUME NEW r \in Result, NEW y
  PROVE  [r EXCEPT !.raws = y] = [buf |-> r.buf, raws |-> y]
<1>1. PICK b \in Text, c \in Seq(Text) : r = [buf |-> b, raws |-> c]
  BY DEF Result
<1>2. [[buf |-> b, raws |-> c] EXCEPT !.raws = y] = [buf |-> b, raws |-> y]
  OBVIOUS
<1> QED
  BY <1>1, <1>2

\* A result with one more frame in front.
Found(raw, r) == [buf |-> r.buf, raws |-> Cat(<<raw>>, r.raws)]

\* What the loop does at i: it ends, or goes on behind the frame it has found.
LEMMA RoundEnds ==
  ASSUME NEW w \in Text, NEW i \in 1..(Len(w) + 1), NEW a, NEW z,
         IsContent(w, i, a), IsDelimiter(w, a, z), z > Len(w)
  PROVE  Scanning(w)[i] = [buf |-> SubSeq(w, a, Len(w)), raws |-> <<>>]
<1>1. Begin(w, i) = a /\ End(w, i) = z
  BY BeginEnd
<1>2. Scanning(w)[i] = Round(w, Scanning(w), i)
  BY FeedRounds DEF Rounds
<1> QED
  BY <1>1, <1>2 DEF Round

\* A round that finds a frame adds its content to what the rest gives.
LEMMA RoundFinds ==
  ASSUME NEW w \in Text, NEW i \in 1..(Len(w) + 1), NEW a, NEW z,
         IsContent(w, i, a), IsDelimiter(w, a, z), z <= Len(w)
  PROVE  /\ z \in (i + 1)..Len(w) /\ a \in i..(z - 1) /\ Scanning(w)[z] \in Result
         /\ Scanning(w)[i] = Found(SubSeq(w, a, z - 1), Scanning(w)[z])
<1>1. /\ Begin(w, i) = a /\ End(w, i) = z /\ Len(w) \in Nat /\ a \in i..(Len(w) + 1)
      /\ z \in a..(Len(w) + 1) /\ z > a
  BY BeginEnd
<1>2. Scanning(w) \in [1..(Len(w) + 1) -> Result] /\ Scanning(w)[i] = Round(w, Scanning(w), i)
  BY FeedRounds DEF Rounds
<1>3. z \in (i + 1)..Len(w) /\ a \in i..(z - 1) /\ z \in 1..(Len(w) + 1) /\ ~(z > Len(w))
  BY <1>1
<1> DEFINE r == Scanning(w)[z]
<1>4. r \in Result
  BY <1>2, <1>3
<1>5. Scanning(w)[i] = [r EXCEPT !.raws = <<SubSeq(w, a, z - 1)>> \o @]
  BY <1>1, <1>2, <1>3 DEF Round
<1> HIDE DEF r
<1>6. [r EXCEPT !.raws = <<SubSeq(w, a, z - 1)>> \o @]
        = [buf |-> r.buf, raws |-> <<SubSeq(w, a, z - 1)>> \o r.raws]
  BY <1>4, ResultExcept, Zenon
<1> QED
  BY <1>3, <1>4, <1>5, <1>6 DEF r, Found, Cat

\* Delimiters in front of a round make no difference.
LEMMA SkipDelimiters ==
  ASSUME NEW w \in Text, NEW i \in 1..(Len(w) + 1), NEW a \in i..(Len(w) + 1),
         \A k \in i..(a - 1) : w[k] = frameChar
  PROVE  Scanning(w)[i] = Scanning(w)[a]
<1>1. Len(w) \in Nat /\ a \in 1..(Len(w) + 1)
  BY LenProperties DEF Text
<1>2. IsContent(w, a, Begin(w, a)) /\ IsDelimiter(w, Begin(w, a), End(w, a))
  BY <1>1, BeginEnd
<1> DEFINE b == Begin(w, a)
<1> HIDE DEF b
<1>3. IsContent(w, i, b)
  <2>1. IsContent(w, a, b)
    BY <1>2 DEF b
  <2>2. b \in a..(Len(w) + 1) /\ b \in i..(Len(w) + 1)
    BY <1>1, <2>1 DEF IsContent
  <2>3. ASSUME NEW k \in i..(b - 1) PROVE w[k] = frameChar
    <3>1. k \in i..(a - 1) \/ k \in a..(b - 1)
      BY <1>1, <2>2
    <3> QED
      BY <2>1, <3>1 DEF IsContent
  <2> QED
    BY <2>1, <2>2, <2>3 DEF IsContent
<1>4. Begin(w, i) = Begin(w, a) /\ End(w, i) = End(w, a)
  BY <1>2, <1>3, BeginEnd DEF b
<1>5. Scanning(w)[i] = Round(w, Scanning(w), i) /\ Scanning(w)[a] = Round(w, Scanning(w), a)
  BY <1>1, FeedRounds DEF Rounds
<1> QED
  BY <1>4, <1>5 DEF Round

\* What is in front of a round makes no difference.
LEMMA SkipContent ==
  ASSUME NEW x \in Text, NEW y \in Text, NEW l \in 1..(Len(y) + 1)
  PROVE  Scanning(Cat(x, y))[Len(x) + l] = Scanning(y)[l]
<1> DEFINE w == Cat(x, y)
           m == Len(x)
           n == Len(y) + 1
           P == {k \in 1..n : Scanning(w)[m + k] = Scanning(y)[k]}
<1>1. /\ w \in Text /\ Len(w) = m + Len(y) /\ m \in Nat /\ Len(y) \in Nat
      /\ \A k \in 1..Len(y) : w[m + k] = y[k] /\ y[k] \in Octet
  BY CatBytes
<1> HIDE DEF w, m
<1>2. ASSUME NEW k \in 1..n, \A j \in (k + 1)..n : j \in P PROVE k \in P
  <2> DEFINE a == Begin(y, k)
             z == End(y, k)
  <2>1. /\ IsContent(y, k, a) /\ IsDelimiter(y, a, z)
        /\ a \in k..(Len(y) + 1) /\ z \in a..(Len(y) + 1)
    BY BeginEnd
  <2> HIDE DEF a, z
  <2>2. m + k \in 1..(Len(w) + 1)
    BY <1>1
  <2>3. IsContent(w, m + k, m + a)
    <3>1. m + a \in (m + k)..(Len(w) + 1)
      BY <1>1, <2>1
    <3>2. ASSUME NEW j \in (m + k)..((m + a) - 1) PROVE w[j] = frameChar
      <4>1. j - m \in k..(a - 1) /\ j - m \in 1..Len(y) /\ m + (j - m) = j
        BY <1>1, <2>1
      <4> QED
        BY <1>1, <2>1, <4>1, Zenon DEF IsContent
    <3>3. ASSUME m + a <= Len(w) PROVE w[m + a] # frameChar
      <4>1. a <= Len(y) /\ a \in 1..Len(y)
        BY <1>1, <2>1, <3>3
      <4> QED
        BY <1>1, <2>1, <4>1 DEF IsContent
    <3> QED
      BY <3>1, <3>2, <3>3 DEF IsContent
  <2>4. IsDelimiter(w, m + a, m + z)
    <3>1. m + z \in (m + a)..(Len(w) + 1)
      BY <1>1, <2>1
    <3>2. ASSUME NEW j \in (m + a)..((m + z) - 1) PROVE w[j] # frameChar
      <4>1. j - m \in a..(z - 1) /\ j - m \in 1..Len(y) /\ m + (j - m) = j
        BY <1>1, <2>1
      <4> QED
        BY <1>1, <2>1, <4>1, Zenon DEF IsDelimiter
    <3>3. ASSUME m + z <= Len(w) PROVE w[m + z] = frameChar
      <4>1. z <= Len(y) /\ z \in 1..Len(y)
        BY <1>1, <2>1, <3>3
      <4> QED
        BY <1>1, <2>1, <4>1 DEF IsDelimiter
    <3> QED
      BY <3>1, <3>2, <3>3 DEF IsDelimiter
  <2>5. \A j \in a..Len(y) : w[j + m] = y[j] /\ y[j] \in Octet
    BY <1>1, <2>1
  <2>6. CASE z > Len(y)
    <3>1. m + z > Len(w)
      BY <1>1, <2>1, <2>6
    <3>2. Scanning(w)[m + k] = [buf |-> SubSeq(w, m + a, Len(w)), raws |-> <<>>]
      BY <1>1, <2>2, <2>3, <2>4, <3>1, RoundEnds, Zenon
    <3>3. Scanning(y)[k] = [buf |-> SubSeq(y, a, Len(y)), raws |-> <<>>]
      BY <2>1, <2>6, RoundEnds, Zenon
    <3>4. SubSeq(w, a + m, Len(y) + m) = SubSeq(y, a, Len(y))
      <4>1. a \in Int /\ Len(y) \in Int /\ m \in Int
        BY <1>1, <2>1
      <4> QED
        BY <2>5, <4>1, SamePiece
    <3>5. a + m = m + a /\ Len(y) + m = Len(w)
      BY <1>1, <2>1
    <3> QED
      BY <3>2, <3>3, <3>4, <3>5, Zenon
  <2>7. CASE z <= Len(y)
    <3>1. m + z <= Len(w)
      BY <1>1, <2>1, <2>7
    <3>2. Scanning(w)[m + k] = Found(SubSeq(w, m + a, (m + z) - 1), Scanning(w)[m + z])
      <4> DEFINE mk == m + k
                 ma == m + a
                 mz == m + z
      <4>0. w \in Text
        BY <1>1
      <4>1. mk \in 1..(Len(w) + 1) /\ IsContent(w, mk, ma) /\ IsDelimiter(w, ma, mz) /\ mz <= Len(w)
        BY <2>2, <2>3, <2>4, <3>1
      <4> HIDE DEF mk, ma, mz
      <4>2. Scanning(w)[mk] = Found(SubSeq(w, ma, mz - 1), Scanning(w)[mz])
        BY <4>0, <4>1, RoundFinds
      <4> QED
        BY <4>2 DEF mk, ma, mz
    <3>3. z \in (k + 1)..Len(y) /\ Scanning(y)[k] = Found(SubSeq(y, a, z - 1), Scanning(y)[z])
      BY <2>1, <2>7, RoundFinds
    <3>4. Scanning(w)[m + z] = Scanning(y)[z]
      BY <1>1, <1>2, <3>3
    <3>5. SubSeq(w, a + m, (z - 1) + m) = SubSeq(y, a, z - 1)
      <4>1. \A j \in a..(z - 1) : w[j + m] = y[j] /\ y[j] \in Octet
        BY <1>1, <2>1, <2>5, <2>7
      <4>2. a \in Int /\ z - 1 \in Int /\ m \in Int
        BY <1>1, <2>1
      <4> QED
        BY <4>1, <4>2, SamePiece, SMTT(30)
    <3>6. a + m = m + a /\ (z - 1) + m = (m + z) - 1
      BY <1>1, <2>1
    <3> QED
      BY <3>2, <3>3, <3>4, <3>5, <3>6, Zenon
  <2> QED
    BY <1>1, <2>1, <2>6, <2>7
<1>3. n \in Nat /\ l \in 1..n
  BY <1>1
<1> HIDE DEF P, n
<1>4. l \in P
  BY <1>2, <1>3, Descends, SMTT(30)
<1> QED
  BY <1>4 DEF P, w, m

\* Two results, one after the other.
Then(r, f) == [buf |-> f.buf, raws |-> Cat(r.raws, f.raws)]

\* Feed gives a rest and a sequence of contents.
LEMMA FeedType == ASSUME NEW w \in Text PROVE Feed(w) \in Result
<1>1. 1 \in 1..(Len(w) + 1)
  BY LenProperties DEF Text
<1> QED
  BY <1>1, FeedRounds DEF Rounds

\* Feed may be given a text in one piece or in two: the frames are the same, and
\* so is what is kept (FrameScanner.Feed).
THEOREM FeedInPieces ==
  \A x, y \in Text : Feed(Cat(x, y)) = Then(Feed(x), Feed(Cat(Feed(x).buf, y)))
<1> TAKE x, y \in Text
<1> DEFINE w == Cat(x, y)
           n == Len(x) + 1
           Rest(r) == Then(r, Feed(Cat(r.buf, y)))
           P == {i \in 1..n : Scanning(w)[i] = Rest(Scanning(x)[i])}
<1>1. /\ w \in Text /\ Len(w) = Len(x) + Len(y) /\ Len(x) \in Nat /\ Len(y) \in Nat
      /\ \A k \in 1..Len(x) : w[k] = x[k] /\ x[k] \in Octet
  BY CatBytes
<1> HIDE DEF w
<1>2. ASSUME NEW i \in 1..n, \A j \in (i + 1)..n : j \in P PROVE i \in P
  <2> DEFINE a == Begin(x, i)
             z == End(x, i)
  <2>1. /\ IsContent(x, i, a) /\ IsDelimiter(x, a, z)
        /\ a \in i..(Len(x) + 1) /\ z \in a..(Len(x) + 1)
    BY BeginEnd
  <2> HIDE DEF a, z, Rest
  <2>2. i \in 1..(Len(w) + 1)
    BY <1>1
  <2>3. CASE z > Len(x)
    <3> DEFINE b == SubSeq(x, a, Len(x))
               pre == SubSeq(x, 1, a - 1)
    <3>1. Scanning(x)[i] = [buf |-> b, raws |-> <<>>]
      BY <2>1, <2>3, RoundEnds, Zenon
    <3>2. pre \in Text /\ b \in Text /\ Len(pre) = a - 1
      <4>1. /\ a \in 1..(Len(x) + 1) /\ a - 1 \in 0..Len(x)
            /\ Len(x) \in 0..Len(x) /\ 1 \in 1..(Len(x) + 1)
        BY <1>1, <2>1
      <4>2. pre \in Text /\ b \in Text
        BY <4>1, PieceType
      <4>3. \A k \in 1..(a - 1) : x[k] \in Octet
        BY <1>1, <4>1
      <4>4. Len(pre) = IF 1 <= a - 1 THEN (a - 1) - 1 + 1 ELSE 0
        BY <4>1, <4>3, SubSeqProperties
      <4> QED
        BY <4>1, <4>2, <4>4
    <3>3. x = Cat(pre, b)
      <4>1. 1 \in 1..(Len(x) + 1) /\ a - 1 \in (1 - 1)..Len(x) /\ Len(x) \in (a - 1)..Len(x)
            /\ (a - 1) + 1 = a
        BY <1>1, <2>1
      <4>2. SubSeq(x, 1, a - 1) \o SubSeq(x, (a - 1) + 1, Len(x)) = SubSeq(x, 1, Len(x))
        BY <4>1, ConcatAdjacentSubSeq, Zenon DEF Text
      <4>3. SubSeq(x, 1, Len(x)) = x
        BY SubSeqFull DEF Text
      <4> QED
        BY <4>1, <4>2, <4>3, Zenon DEF Cat
    <3> HIDE DEF b, pre
    <3>4. w = Cat(pre, Cat(b, y)) /\ Cat(b, y) \in Text
      BY <3>2, <3>3, CatText DEF w
    <3>5. Scanning(w)[i] = Scanning(w)[a]
      <4>1. a \in i..(Len(w) + 1)
        BY <1>1, <2>1
      <4>2. ASSUME NEW k \in i..(a - 1) PROVE w[k] = frameChar
        <5>1. k \in 1..Len(x)
          BY <1>1, <2>1
        <5> QED
          BY <1>1, <2>1, <5>1 DEF IsContent
      <4> QED
        BY <1>1, <2>2, <4>1, <4>2, SkipDelimiters, Zenon
    <3>6. Scanning(w)[a] = Feed(Cat(b, y))
      <4>1. 1 \in 1..(Len(Cat(b, y)) + 1) /\ Len(pre) + 1 = a
        BY <1>1, <2>1, <3>2, <3>4, LenProperties DEF Text
      <4>2. Scanning(Cat(pre, Cat(b, y)))[Len(pre) + 1] = Scanning(Cat(b, y))[1]
        BY <3>2, <3>4, <4>1, SkipContent, Zenon
      <4> QED
        BY <3>4, <4>1, <4>2, FeedRounds
    <3>7. Rest(Scanning(x)[i]) = Feed(Cat(b, y))
      <4> DEFINE f == Feed(Cat(b, y))
      <4>1. f \in Result
        BY <3>4, FeedType
      <4> HIDE DEF f
      <4>2. f = [buf |-> f.buf, raws |-> f.raws] /\ f.raws \in Seq(Text)
        BY <4>1 DEF Result
      <4>3. Cat(<<>>, f.raws) = f.raws
        BY <4>2, ConcatEmptySeq DEF Cat
      <4>4. Rest(Scanning(x)[i]) = Then([buf |-> b, raws |-> <<>>], f)
        BY <3>1 DEF Rest, f
      <4>5. Then([buf |-> b, raws |-> <<>>], f) = f
        BY <4>2, <4>3 DEF Then
      <4> QED
        BY <4>4, <4>5 DEF f
    <3> QED
      BY <3>5, <3>6, <3>7
  <2>4. CASE z <= Len(x)
    <3>1. /\ z \in (i + 1)..Len(x) /\ a \in i..(z - 1) /\ Scanning(x)[z] \in Result
          /\ Scanning(x)[i] = Found(SubSeq(x, a, z - 1), Scanning(x)[z])
      BY <2>1, <2>4, RoundFinds
    <3>2. IsContent(w, i, a)
      <4>1. a \in i..(Len(w) + 1) /\ a \in 1..Len(x) /\ a <= Len(x)
        BY <1>1, <2>1, <3>1
      <4>2. ASSUME NEW k \in i..(a - 1) PROVE w[k] = frameChar
        <5>1. k \in 1..Len(x)
          BY <1>1, <4>1
        <5> QED
          BY <1>1, <2>1, <5>1 DEF IsContent
      <4>3. w[a] # frameChar
        BY <1>1, <2>1, <4>1 DEF IsContent
      <4> QED
        BY <4>1, <4>2, <4>3 DEF IsContent
    <3>3. IsDelimiter(w, a, z)
      <4>1. z \in a..(Len(w) + 1) /\ z \in 1..Len(x) /\ a \in 1..Len(x)
        BY <1>1, <2>1, <3>1
      <4>2. ASSUME NEW k \in a..(z - 1) PROVE w[k] # frameChar
        <5>1. k \in 1..Len(x)
          BY <1>1, <4>1
        <5> QED
          BY <1>1, <2>1, <5>1 DEF IsDelimiter
      <4>3. w[z] = frameChar
        BY <1>1, <2>1, <2>4, <4>1 DEF IsDelimiter
      <4> QED
        BY <4>1, <4>2, <4>3 DEF IsDelimiter
    <3>4. Scanning(w)[i] = Found(SubSeq(w, a, z - 1), Scanning(w)[z])
      <4>1. z <= Len(w)
        BY <1>1, <3>1
      <4>2. w \in Text
        BY <1>1
      <4> QED
        BY <2>2, <3>2, <3>3, <4>1, <4>2, RoundFinds
    <3>5. SubSeq(w, a, z - 1) = SubSeq(x, a, z - 1)
      <4>1. \A k \in a..(z - 1) : w[k + 0] = x[k] /\ x[k] \in Octet
        BY <1>1, <2>1, <3>1
      <4>2. a \in Int /\ z - 1 \in Int /\ 0 \in Int /\ a + 0 = a /\ (z - 1) + 0 = z - 1
        BY <1>1, <2>1
      <4>3. SubSeq(w, a + 0, (z - 1) + 0) = SubSeq(x, a, z - 1)
        BY <4>1, <4>2, SamePiece
      <4> QED
        BY <4>2, <4>3
    <3>6. Scanning(w)[z] = Rest(Scanning(x)[z])
      <4>1. z \in (i + 1)..n
        BY <1>1, <3>1
      <4> QED
        BY <1>2, <4>1
    <3> DEFINE raw == SubSeq(x, a, z - 1)
               r == Scanning(x)[z]
               f == Feed(Cat(r.buf, y))
    <3>7. raw \in Text
      <4>1. a \in 1..(Len(x) + 1) /\ z - 1 \in 0..Len(x)
        BY <1>1, <2>1, <3>1
      <4> QED
        BY <4>1, PieceType
    <3>8. r \in Result /\ f \in Result
      <4>1. r \in Result /\ r.buf \in Text
        BY <3>1 DEF Result
      <4>2. Cat(r.buf, y) \in Text
        BY <4>1, CatText, Zenon
      <4> QED
        BY <4>1, <4>2, FeedType
    <3>9. Scanning(w)[i] = Found(raw, Then(r, f))
      BY <3>4, <3>5, <3>6, Zenon DEF Rest
    <3>10. Scanning(x)[i] = Found(raw, r)
      BY <3>1
    <3>11. Rest(Found(raw, r)) = Then(Found(raw, r), f)
      BY DEF Rest, Found
    <3> HIDE DEF raw, r, f
    <3>12. Cat(<<raw>>, Cat(r.raws, f.raws)) = Cat(Cat(<<raw>>, r.raws), f.raws)
      <4>1. <<raw>> \in Seq(Text) /\ r.raws \in Seq(Text) /\ f.raws \in Seq(Text)
        BY <3>7, <3>8 DEF Result
      <4>2. \A a1, b1, c1 \in Seq(Text) : Cat(Cat(a1, b1), c1) = Cat(a1, Cat(b1, c1))
        BY CatSeq
      <4> QED
        BY <4>1, <4>2, Zenon
    <3>13. Found(raw, Then(r, f)) = Then(Found(raw, r), f)
      BY <3>12 DEF Found, Then
    <3> QED
      BY <3>9, <3>10, <3>11, <3>13
  <2> QED
    BY <1>1, <2>1, <2>3, <2>4
<1>3. n \in Nat /\ 1 \in 1..n
  BY <1>1
<1> HIDE DEF P, n
<1>4. 1 \in P
  BY <1>2, <1>3, Descends, Zenon
<1> QED
  BY <1>1, <1>4, FeedRounds DEF P, w

-----------------------------------------------------------------------------
(* The scanner and the frames *)

\* What stands between the delimiters of a payload's frame.
Inside(p) == escape(Append(p, checksum(p)))

\* What stands between the delimiters of a frame, and what it decodes to.
LEMMA InsideType ==
  ASSUME NEW p \in Text
  PROVE  /\ Inside(p) \in Text /\ Len(Inside(p)) \in Nat \ {0}
         /\ \A i \in 1..Len(Inside(p)) : Inside(p)[i] # frameChar
         /\ payload(Inside(p)) = p
         /\ frame(p) \in Text /\ Len(frame(p)) = Len(Inside(p)) + 2
         /\ frame(p)[1] = frameChar /\ frame(p)[Len(Inside(p)) + 2] = frameChar
         /\ \A i \in 1..Len(Inside(p)) : frame(p)[i + 1] = Inside(p)[i]
<1> DEFINE d == Append(p, checksum(p))
           x == escape(d)
<1>1. d \in Text /\ x \in Seq(Clean) /\ x # <<>> /\ x \in Text /\ frame(p) \in Text
      /\ frame(p) = <<frameChar>> \o x \o <<frameChar>>
  BY FrameShape, CleanText
<1>2. unescape(x) = d
  BY <1>1, UnescapeEscape, Zenon
<1>3. Body(d) = p
  BY ChecksumType, BodyCheck
<1>4. x = Inside(p) /\ payload(x) = p
  BY <1>2, <1>3 DEF payload, Inside
<1> HIDE DEF x, d
<1>5. Len(x) \in Nat \ {0} /\ \A i \in 1..Len(x) : x[i] # frameChar
  BY <1>1, EmptySeq, LenProperties DEF Clean
<1>6. /\ Len(frame(p)) = Len(x) + 2 /\ frame(p)[1] = frameChar /\ frame(p)[Len(x) + 2] = frameChar
      /\ \A i \in 1..Len(x) : frame(p)[i + 1] = x[i]
  <2> DEFINE w == (<<frameChar>> \o x \o <<frameChar>>) \o <<>>
  <2>1. /\ Len(w) = Len(x) + 2 + Len(<<>>) /\ w[1] = frameChar /\ w[Len(x) + 2] = frameChar
        /\ \A i \in 1..Len(x) : w[i + 1] = x[i]
    BY <1>1, EmptyText, FrameBytes, ZenonT(30)
  <2>2. w = frame(p)
    BY <1>1, ConcatEmptySeq DEF Text
  <2>3. Len(x) + 2 + Len(<<>>) = Len(x) + 2
    BY <1>5
  <2> HIDE DEF w
  <2> QED
    BY <2>1, <2>2, <2>3
<1> QED
  BY <1>1, <1>4, <1>5, <1>6

\* A whole frame is found, and nothing is kept.
LEMMA FeedFrame ==
  ASSUME NEW p \in Text
  PROVE  Feed(frame(p)) = [buf |-> <<>>, raws |-> <<Inside(p)>>]
<1> DEFINE w == frame(p)
           x == Inside(p)
           n == Len(x)
<1>1. /\ x \in Text /\ n \in Nat \ {0} /\ \A i \in 1..n : x[i] # frameChar
  BY InsideType
<1>2. w \in Text /\ Len(w) = n + 2 /\ w[1] = frameChar /\ w[n + 2] = frameChar
      /\ \A i \in 1..n : w[i + 1] = x[i]
  BY InsideType
<1> HIDE DEF w, x
<1>3. \A k \in 2..(n + 1) : w[k] = x[k - 1] /\ w[k] # frameChar
  <2> TAKE k \in 2..(n + 1)
  <2>1. k - 1 \in 1..n /\ (k - 1) + 1 = k
    BY <1>1
  <2>2. w[(k - 1) + 1] = x[k - 1] /\ x[k - 1] # frameChar
    BY <1>1, <1>2, <2>1
  <2> QED
    BY <2>1, <2>2
<1> HIDE DEF n
<1>4. 1 \in 1..(Len(w) + 1) /\ n + 2 \in 1..(Len(w) + 1) /\ n + 3 \in 1..(Len(w) + 1)
  BY <1>1, <1>2
<1>5. IsContent(w, 1, 2) /\ IsDelimiter(w, 2, n + 2) /\ n + 2 <= Len(w)
  BY <1>1, <1>2, <1>3 DEF IsContent, IsDelimiter
<1>6. Scanning(w)[1] = Found(SubSeq(w, 2, (n + 2) - 1), Scanning(w)[n + 2])
  <2> DEFINE z == n + 2
  <2>1. IsContent(w, 1, 2) /\ IsDelimiter(w, 2, z) /\ z <= Len(w)
    BY <1>5
  <2> HIDE DEF z
  <2>2. Scanning(w)[1] = Found(SubSeq(w, 2, z - 1), Scanning(w)[z])
    BY <1>2, <1>4, <2>1, RoundFinds
  <2> QED
    BY <2>2 DEF z
<1>7. IsContent(w, n + 2, n + 3) /\ IsDelimiter(w, n + 3, n + 3) /\ n + 3 > Len(w)
  BY <1>1, <1>2 DEF IsContent, IsDelimiter
<1>8. Scanning(w)[n + 2] = [buf |-> SubSeq(w, n + 3, Len(w)), raws |-> <<>>]
  BY <1>2, <1>4, <1>7, RoundEnds
<1>9. SubSeq(w, n + 3, Len(w)) = <<>>
  BY <1>1, <1>2, SubSeqEmpty
<1>10. SubSeq(w, 2, (n + 2) - 1) = x
  <2>1. \A i \in 1..Len(x) : w[1 + i] = x[i]
    BY <1>1, <1>2 DEF n
  <2>2. SubSeq(w, 1 + 1, 1 + Len(x)) = x
    BY <1>1, <2>1, PieceIs
  <2>3. 1 + 1 = 2 /\ 1 + Len(x) = (n + 2) - 1
    BY <1>1 DEF n
  <2> QED
    BY <2>2, <2>3
<1>11. Scanning(w)[1] = [buf |-> <<>>, raws |-> Cat(<<x>>, <<>>)]
  <2>1. Scanning(w)[1] = Found(x, [buf |-> <<>>, raws |-> <<>>])
    BY <1>6, <1>8, <1>9, <1>10, Zenon
  <2> QED
    BY <2>1 DEF Found
<1>12. Cat(<<x>>, <<>>) = <<x>>
  <2>1. <<x>> \in Seq(Text)
    BY <1>1
  <2> QED
    BY <2>1, ConcatEmptySeq DEF Cat
<1> QED
  BY <1>2, <1>11, <1>12, FeedRounds DEF w, x

\* In a part of a frame none is found.
LEMMA FeedPart ==
  ASSUME NEW p \in Text, NEW y \in Text, NEW r \in Text, frame(p) = Cat(y, r), r # <<>>
  PROVE  Feed(y).raws = <<>>
<1> DEFINE n == Len(Inside(p))
<1>1. /\ n \in Nat /\ (\A i \in 1..n : Inside(p)[i] # frameChar)
      /\ Len(frame(p)) = n + 2 /\ frame(p)[1] = frameChar
      /\ \A i \in 1..n : frame(p)[i + 1] = Inside(p)[i]
  BY InsideType
<1> HIDE DEF n
<1>2. /\ Len(frame(p)) = Len(y) + Len(r) /\ Len(y) \in Nat
      /\ \A k \in 1..Len(y) : frame(p)[k] = y[k]
  BY CatBytes
<1>3. Len(r) \in Nat \ {0}
  BY EmptySeq DEF Text
<1>4. Len(y) <= n + 1
  BY <1>1, <1>2, <1>3
<1>5. \A k \in 2..Len(y) : y[k] # frameChar
  <2> TAKE k \in 2..Len(y)
  <2>1. k \in 1..Len(y) /\ k - 1 \in 1..n /\ (k - 1) + 1 = k
    BY <1>1, <1>2, <1>4
  <2>2. frame(p)[(k - 1) + 1] = Inside(p)[k - 1] /\ Inside(p)[k - 1] # frameChar
    BY <1>1, <2>1
  <2> QED
    BY <1>2, <2>1, <2>2
<1> DEFINE L == Len(y)
           a == IF L = 0 THEN 1 ELSE 2
<1>6. 1 \in 1..(L + 1) /\ IsContent(y, 1, a)
  <2>1. CASE L = 0
    BY <2>1 DEF IsContent
  <2>2. CASE L # 0
    <3>1. y[1] = frameChar
      BY <1>1, <1>2, <2>2
    <3>2. \A k \in 1..(2 - 1) : y[k] = frameChar
      BY <3>1
    <3>3. 2 <= L => y[2] # frameChar
      BY <1>2, <1>5
    <3> QED
      BY <1>2, <2>2, <3>2, <3>3 DEF IsContent
  <2> QED
    BY <2>1, <2>2
<1>7. IsDelimiter(y, a, L + 1) /\ L + 1 > L
  BY <1>2, <1>5 DEF IsDelimiter
<1> HIDE DEF a
<1>8. Scanning(y)[1] = [buf |-> SubSeq(y, a, L), raws |-> <<>>]
  BY <1>6, <1>7, RoundEnds
<1> QED
  BY <1>8, FeedRounds

\* The frames of payloads, one behind the other, and their contents.
Stream(ps) == Chain([i \in DOMAIN ps |-> frame(ps[i])])
Contents(ps) == [i \in DOMAIN ps |-> Inside(ps[i])]

\* Contents, one payload at a time.
LEMMA MapAppend ==
  ASSUME NEW ps \in Seq(Text), NEW p \in Text
  PROVE  /\ [i \in DOMAIN ps |-> frame(ps[i])] \in Seq(Text)
         /\ Contents(ps) \in Seq(Text)
         /\ [i \in DOMAIN Append(ps, p) |-> frame(Append(ps, p)[i])]
              = Append([i \in DOMAIN ps |-> frame(ps[i])], frame(p))
         /\ Contents(Append(ps, p)) = Append(Contents(ps), Inside(p))
<1> DEFINE qs == Append(ps, p)
           n == Len(ps)
<1>1. /\ n \in Nat /\ DOMAIN ps = 1..n /\ (\A i \in 1..n : ps[i] \in Text)
      /\ qs \in Seq(Text) /\ DOMAIN qs = 1..(n + 1) /\ qs[n + 1] = p
      /\ \A i \in 1..n : qs[i] = ps[i]
  BY AppendProperties, LenProperties
<1>2. \A q \in Text : frame(q) \in Text /\ Inside(q) \in Text
  BY InsideType
<1> HIDE DEF qs, n
<1>3. \A i \in 1..(n + 1) : i \in 1..n \/ i = n + 1
  BY <1>1
<1> DEFINE f == [i \in 1..n |-> frame(ps[i])]
           c == [i \in 1..n |-> Inside(ps[i])]
           f1 == [i \in 1..(n + 1) |-> frame(qs[i])]
           c1 == [i \in 1..(n + 1) |-> Inside(qs[i])]
<1>4. f \in Seq(Text) /\ c \in Seq(Text) /\ Len(f) = n /\ Len(c) = n
  <2>1. f \in [1..n -> Text] /\ c \in [1..n -> Text]
    BY <1>1, <1>2
  <2> QED
    BY <1>1, <2>1, SeqDef
<1>5. f1 = Append(f, frame(p))
  <2>1. frame(p) \in Text
    BY <1>2
  <2>2. /\ Append(f, frame(p)) \in Seq(Text) /\ Len(Append(f, frame(p))) = n + 1
        /\ (\A i \in 1..n : Append(f, frame(p))[i] = f[i])
        /\ Append(f, frame(p))[n + 1] = frame(p)
    <3> HIDE DEF f
    <3> QED
      BY <1>4, <2>1, AppendProperties
  <2>3. f1 \in [1..(n + 1) -> Text]
    BY <1>1, <1>2, <1>3
  <2>4. f1 \in Seq(Text) /\ Len(f1) = n + 1
    BY <1>1, <2>3, SeqDef
  <2>5. \A i \in 1..(n + 1) : f1[i] = Append(f, frame(p))[i]
    BY <1>1, <1>3, <2>2
  <2> HIDE DEF f, f1
  <2> QED
    BY <2>2, <2>4, <2>5, SeqEqual
<1>6. c1 = Append(c, Inside(p))
  <2>1. Inside(p) \in Text
    BY <1>2
  <2>2. /\ Append(c, Inside(p)) \in Seq(Text) /\ Len(Append(c, Inside(p))) = n + 1
        /\ (\A i \in 1..n : Append(c, Inside(p))[i] = c[i])
        /\ Append(c, Inside(p))[n + 1] = Inside(p)
    <3> HIDE DEF c
    <3> QED
      BY <1>4, <2>1, AppendProperties
  <2>3. c1 \in [1..(n + 1) -> Text]
    BY <1>1, <1>2, <1>3
  <2>4. c1 \in Seq(Text) /\ Len(c1) = n + 1
    BY <1>1, <2>3, SeqDef
  <2>5. \A i \in 1..(n + 1) : c1[i] = Append(c, Inside(p))[i]
    BY <1>1, <1>3, <2>2
  <2> HIDE DEF c, c1
  <2> QED
    BY <2>2, <2>4, <2>5, SeqEqual
<1> QED
  BY <1>1, <1>4, <1>5, <1>6 DEF Contents, qs

\* Stream, one payload at a time.
LEMMA StreamAppend ==
  /\ Stream(<<>>) = <<>>
  /\ \A ps \in Seq(Text) : Stream(ps) \in Text
  /\ \A ps \in Seq(Text), p \in Text : Stream(Append(ps, p)) = Cat(Stream(ps), frame(p))
<1> DEFINE m(ps) == [i \in DOMAIN ps |-> frame(ps[i])]
<1>1. m(<<>>) = <<>> /\ \A ps : Stream(ps) = Chain(m(ps))
  BY DEF Stream
<1>2. \A ps \in Seq(Text), p \in Text :
        m(ps) \in Seq(Text) /\ m(Append(ps, p)) = Append(m(ps), frame(p))
  BY MapAppend, Zenon
<1> HIDE DEF m
<1>3. Stream(<<>>) = <<>>
  BY <1>1, ChainEmpty
<1>4. ASSUME NEW ps \in Seq(Text) PROVE Stream(ps) \in Text
  <2>0. m(ps) \in Seq(Seq(Octet))
    BY <1>2, EmptyText, Zenon DEF Text
  <2>1. PICK f \in [0..Len(m(ps)) -> Seq(Octet)] : Chain(m(ps)) = f[Len(m(ps))]
    BY <2>0, ChainHistory
  <2>2. Len(m(ps)) \in 0..Len(m(ps))
    BY <2>0, LenProperties
  <2> QED
    BY <1>1, <2>1, <2>2, Zenon DEF Text
<1>5. ASSUME NEW ps \in Seq(Text), NEW p \in Text
      PROVE  Stream(Append(ps, p)) = Cat(Stream(ps), frame(p))
  <2>1. m(ps) \in Seq(Seq(Octet)) /\ frame(p) \in Seq(Octet)
    BY <1>2, InsideType DEF Text
  <2>2. Chain(Append(m(ps), frame(p))) = Chain(m(ps)) \o frame(p)
    BY <2>1, ChainAppend
  <2> QED
    BY <1>1, <1>2, <2>2, Zenon DEF Cat
<1> QED
  BY <1>3, <1>4, <1>5

\* All the frames of a stream are found, and nothing is kept.
LEMMA FeedStream ==
  ASSUME NEW ps \in Seq(Text)
  PROVE  Feed(Stream(ps)) = [buf |-> <<>>, raws |-> Contents(ps)]
<1> DEFINE P == {qs \in Seq(Text) : Feed(Stream(qs)) = [buf |-> <<>>, raws |-> Contents(qs)]}
<1>1. <<>> \in P
  <2>1. Contents(<<>>) = <<>> /\ Stream(<<>>) = <<>>
    BY StreamAppend DEF Contents
  <2>2. Len(<<>>) = 0 /\ 1 \in 1..(Len(<<>>) + 1)
    OBVIOUS
  <2>3. IsContent(<<>>, 1, 1) /\ IsDelimiter(<<>>, 1, 1)
    BY <2>2 DEF IsContent, IsDelimiter
  <2>4. Scanning(<<>>)[1] = [buf |-> SubSeq(<<>>, 1, 0), raws |-> <<>>]
    BY <2>2, <2>3, EmptyText, RoundEnds
  <2>5. SubSeq(<<>>, 1, 0) = <<>>
    BY SubSeqEmpty
  <2>6. Feed(<<>>) = [buf |-> <<>>, raws |-> <<>>]
    BY <2>4, <2>5, EmptyText, FeedRounds
  <2>7. <<>> \in Seq(Text)
    OBVIOUS
  <2> QED
    BY <2>1, <2>6, <2>7
<1>2. ASSUME NEW qs \in Seq(Text), qs \in P, NEW p \in Text PROVE Append(qs, p) \in P
  <2>1. Append(qs, p) \in Seq(Text)
    OBVIOUS
  <2>2. Feed(Stream(qs)) = [buf |-> <<>>, raws |-> Contents(qs)]
    BY <1>2
  <2>3. Stream(qs) \in Text /\ frame(p) \in Text /\ Stream(Append(qs, p)) = Cat(Stream(qs), frame(p))
    BY StreamAppend, InsideType
  <2>4. Feed(Stream(Append(qs, p)))
          = Then(Feed(Stream(qs)), Feed(Cat(Feed(Stream(qs)).buf, frame(p))))
    BY <2>3, FeedInPieces
  <2>5. Cat(Feed(Stream(qs)).buf, frame(p)) = frame(p)
    BY <2>2, <2>3, CatText
  <2>6. Feed(Stream(Append(qs, p)))
          = Then([buf |-> <<>>, raws |-> Contents(qs)], [buf |-> <<>>, raws |-> <<Inside(p)>>])
    BY <2>2, <2>4, <2>5, FeedFrame
  <2>7. Feed(Stream(Append(qs, p))) = [buf |-> <<>>, raws |-> Cat(Contents(qs), <<Inside(p)>>)]
    BY <2>6 DEF Then
  <2>8. Cat(Contents(qs), <<Inside(p)>>) = Contents(Append(qs, p))
    <3>1. Contents(qs) \in Seq(Text) /\ Inside(p) \in Text
      BY MapAppend, InsideType, Zenon
    <3>2. Append(Contents(qs), Inside(p)) = Cat(Contents(qs), <<Inside(p)>>)
      BY <3>1, AppendIsConcat DEF Cat
    <3> QED
      BY <3>2, MapAppend, Zenon
  <2> QED
    BY <2>1, <2>7, <2>8
<1> HIDE DEF P
<1>3. P = Seq(Text)
  BY <1>1, <1>2, SeqInduction, Zenon DEF P
<1> QED
  BY <1>3 DEF P

\* The stream of the first payloads is how the whole stream begins.
LEMMA StreamBegins ==
  ASSUME NEW ps \in Seq(Text)
  PROVE  \A n \in 0..Len(ps) : Before(Stream(SubSeq(ps, 1, n)), Stream(ps))
<1> DEFINE P == {qs \in Seq(Text) :
                   \A n \in 0..Len(qs) : Before(Stream(SubSeq(qs, 1, n)), Stream(qs))}
<1>1. <<>> \in P
  <2>1. ASSUME NEW n \in 0..Len(<<>>) PROVE Before(Stream(SubSeq(<<>>, 1, n)), Stream(<<>>))
    <3>1. n = 0 /\ SubSeq(<<>>, 1, 0) = <<>>
      BY SubSeqEmpty
    <3> QED
      BY <3>1, StreamAppend, EmptyText, BeforeSelf, Zenon
  <2> QED
    BY <2>1
<1>2. ASSUME NEW qs \in P, NEW p \in Text PROVE Append(qs, p) \in P
  <2> DEFINE rs == Append(qs, p)
  <2>1. qs \in Seq(Text) /\ \A n \in 0..Len(qs) : Before(Stream(SubSeq(qs, 1, n)), Stream(qs))
    BY <1>2
  <2>2. rs \in Seq(Text) /\ Len(rs) = Len(qs) + 1 /\ Len(qs) \in Nat
    BY <2>1, AppendProperties, LenProperties
  <2>3. /\ Stream(rs) = Cat(Stream(qs), frame(p))
        /\ Stream(qs) \in Text /\ frame(p) \in Text /\ Stream(rs) \in Text
    BY <2>1, <2>2, StreamAppend, InsideType, Zenon
  <2>4. ASSUME NEW n \in 0..Len(rs) PROVE Before(Stream(SubSeq(rs, 1, n)), Stream(rs))
    <3>1. CASE n \in 0..Len(qs)
      <4>1. SubSeq(rs, 1, n) = SubSeq(qs, 1, n) /\ SubSeq(qs, 1, n) \in Seq(Text)
        BY <2>1, <3>1, FirstFew
      <4>2. Stream(SubSeq(qs, 1, n)) \in Text /\ Before(Stream(SubSeq(qs, 1, n)), Stream(qs))
        BY <2>1, <3>1, <4>1, StreamAppend, Zenon
      <4>3. Before(Stream(SubSeq(qs, 1, n)), Cat(Stream(qs), frame(p)))
        BY <2>3, <4>2, BeforeExtend
      <4> QED
        BY <2>3, <4>1, <4>3, Zenon
    <3>2. CASE n = Len(rs)
      <4> HIDE DEF rs
      <4>1. SubSeq(rs, 1, n) = rs
        BY <2>2, <3>2, FirstFew
      <4> QED
        BY <2>3, <4>1, BeforeSelf, Zenon
    <3> QED
      BY <2>2, <3>1, <3>2
  <2> QED
    BY <2>2, <2>4
<1> HIDE DEF P
<1>3. P = Seq(Text)
  BY <1>1, <1>2, SeqInduction, Zenon DEF P
<1> QED
  BY <1>3 DEF P

\* A stream that breaks off gives the contents of the frames that are whole.
LEMMA FeedCut ==
  ASSUME NEW ps \in Seq(Text), NEW x \in Text, Before(x, Stream(ps)), NEW n \in 0..Len(ps),
         Len(Stream(SubSeq(ps, 1, n))) <= Len(x),
         n < Len(ps) => Len(x) < Len(Stream(SubSeq(ps, 1, n + 1)))
  PROVE  Feed(x).raws = Contents(SubSeq(ps, 1, n))
<1> DEFINE qs == SubSeq(ps, 1, n)
<1>1. Len(ps) \in Nat /\ n \in Nat
  BY LenProperties
<1>2. qs \in Seq(Text) /\ Before(Stream(qs), Stream(ps)) /\ SubSeq(ps, 1, Len(ps)) = ps
  BY FirstFew, StreamBegins
<1> HIDE DEF qs
<1>3. Stream(qs) \in Text /\ Stream(ps) \in Text
  BY <1>2, StreamAppend
<1>4. Feed(Stream(qs)) = [buf |-> <<>>, raws |-> Contents(qs)]
  BY <1>2, FeedStream
<1>5. CASE n = Len(ps)
  <2>1. qs = ps
    BY <1>2, <1>5 DEF qs
  <2>2. Before(Stream(ps), Stream(ps))
    BY <1>3, BeforeSelf
  <2>3. Len(Stream(ps)) <= Len(x)
    BY <1>2, <1>5, Zenon
  <2>4. Len(x) <= Len(Stream(ps))
    <3>1. PICK r \in Text : Stream(ps) = Cat(x, r)
      BY DEF Before
    <3> QED
      BY <3>1, CatBytes
  <2>5. Len(x) \in Nat /\ Len(Stream(ps)) \in Nat
    BY <1>3, LenProperties DEF Text
  <2>6. Len(Stream(ps)) = Len(x)
    BY <2>3, <2>4, <2>5
  <2>7. x = Stream(ps)
    BY <1>3, <2>2, <2>4, <2>6, BeforeShorter
  <2> QED
    <3>1. Feed(x).raws = Contents(qs)
      BY <1>4, <2>1, <2>7
    <3> QED
      BY <3>1 DEF qs
<1>6. CASE n # Len(ps)
  <2> DEFINE p == ps[n + 1]
  <2>1. n \in 0..(Len(ps) - 1) /\ n + 1 \in 0..Len(ps) /\ n + 1 \in 1..Len(ps)
    BY <1>1, <1>6
  <2>2. p \in Text
    BY <2>1, LenProperties
  <2>3. SubSeq(ps, 1, n + 1) = Append(qs, p)
    BY <2>1, FirstFew DEF qs
  <2> HIDE DEF p
  <2>4. Stream(SubSeq(ps, 1, n + 1)) = Cat(Stream(qs), frame(p)) /\ frame(p) \in Text
    BY <1>2, <2>2, <2>3, StreamAppend, InsideType, Zenon
  <2> DEFINE v == Cat(Stream(qs), frame(p))
  <2>5. v \in Text /\ Before(v, Stream(ps))
    <3>1. v \in Text
      BY <1>3, <2>4, CatText
    <3>2. Before(Stream(SubSeq(ps, 1, n + 1)), Stream(ps))
      BY <2>1, StreamBegins
    <3> QED
      BY <2>4, <3>1, <3>2
  <2>6. Len(x) < Len(v) /\ Len(Stream(qs)) <= Len(x)
    BY <1>1, <1>6, <2>4 DEF qs
  <2> HIDE DEF v
  <2>7. PICK y \in Text : x = Cat(Stream(qs), y)
    BY <1>2, <1>3, <2>6, BeforeShorter
  <2>8. Len(x) \in Nat /\ Len(v) \in Nat /\ Len(x) <= Len(v)
    BY <2>5, <2>6, LenProperties DEF Text
  <2>9. PICK r \in Text : v = Cat(x, r) /\ Len(v) = Len(x) + Len(r)
    BY <1>3, <2>5, <2>8, BeforeShorter
  <2>10. r # <<>>
    BY <2>6, <2>8, <2>9
  <2>11. frame(p) = Cat(y, r)
    <3>1. Cat(Stream(qs), frame(p)) = Cat(Stream(qs), Cat(y, r)) /\ Cat(y, r) \in Text
      BY <1>3, <2>7, <2>9, CatText DEF v
    <3> QED
      BY <1>3, <2>4, <3>1, CatCancel
  <2>12. Feed(y).raws = <<>>
    BY <2>2, <2>10, <2>11, FeedPart
  <2>13. Feed(x) = Then(Feed(Stream(qs)), Feed(Cat(Feed(Stream(qs)).buf, y)))
    BY <1>3, <2>7, FeedInPieces
  <2>14. Cat(Feed(Stream(qs)).buf, y) = y
    BY <1>4, CatText
  <2>15. Feed(x) = Then([buf |-> <<>>, raws |-> Contents(qs)], Feed(y))
    BY <1>4, <2>13, <2>14
  <2>16. Feed(x).raws = Cat(Contents(qs), <<>>)
    BY <2>12, <2>15 DEF Then
  <2>17. Contents(qs) \in Seq(Text)
    BY <1>2, <2>2, MapAppend, Zenon
  <2>18. Cat(Contents(qs), <<>>) = Contents(qs)
    BY <2>17, CatSeq
  <2> QED
    BY <2>16, <2>18 DEF qs
<1> QED
  BY <1>5, <1>6

=============================================================================
