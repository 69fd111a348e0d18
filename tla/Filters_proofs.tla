--------------------------- MODULE Filters_proofs ---------------------------
(***************************************************************************)
(* What Filter returns, by induction.  The induction theorems of the        *)
(* library take an operator; those here take a set, and are derived from    *)
(* its theorem that a set of naturals has a least element.                  *)
(***************************************************************************)
EXTENDS Filters, WellFoundedInduction, TLAPS

\* A set that holds zero and with every natural the next one holds them all.
THEOREM NatSetInduction ==
    ASSUME NEW P, 0 \in P, \A n \in Nat : n \in P => n + 1 \in P
    PROVE  Nat \subseteq P
  <1> SUFFICES ASSUME Nat \ P # {} PROVE FALSE
    OBVIOUS
  <1>1. PICK x \in Nat \ P : \A y \in Nat \ P : ~ (<<y, x>> \in OpToRel(<, Nat))
    BY NatLessThanWellFounded, WFMin
  <1>2. x # 0 /\ x - 1 \in Nat /\ x - 1 < x /\ (x - 1) + 1 = x
    <2>1. x \in Nat /\ x # 0
      OBVIOUS
    <2> QED BY ONLY <2>1
  <1>3. <<x - 1, x>> \in OpToRel(<, Nat)
    BY <1>1, <1>2 DEF OpToRel
  <1> QED BY <1>1, <1>2, <1>3

\* A set that holds the empty sequence and with every sequence all that are longer by one
\* holds them all.
THEOREM SeqSetInduction ==
    ASSUME NEW S, NEW P, <<>> \in P, \A s \in Seq(S), e \in S : s \in P => Append(s, e) \in P
    PROVE  Seq(S) \subseteq P
  <1> DEFINE Q == {n \in Nat : \A s \in Seq(S) : Len(s) = n => s \in P}
  <1>1. 0 \in Q
    BY \A s \in Seq(S) : Len(s) = 0 => s = <<>>
  <1>2. ASSUME NEW n \in Nat, n \in Q PROVE n + 1 \in Q
    <2>1. ASSUME NEW s \in Seq(S), Len(s) = n + 1 PROVE s \in P
      <3> DEFINE t == [i \in 1 .. n |-> s[i]]
      <3>1. t \in Seq(S) /\ Len(t) = n /\ s[n + 1] \in S
        BY <2>1
      <3>2. Append(t, s[n + 1]) = s
        BY <2>1, <3>1
      <3>3. t \in P
        BY <1>2, <3>1
      <3> QED BY <3>1, <3>2, <3>3
    <2> QED BY <2>1
  <1> HIDE DEF Q
  <1>3. Nat \subseteq Q
    BY <1>1, <1>2, NatSetInduction
  <1> QED BY <1>3 DEF Q

-----------------------------------------------------------------------------

\* The values of `kept` up to n.
IsKept(f, s, T, n) ==
    f = [i \in 0 .. n |-> IF i = 0 THEN <<>>
                          ELSE IF s[i] \in T THEN Append(f[i - 1], s[i]) ELSE f[i - 1]]

\* There is such a function.
LEMMA KeptExists == ASSUME NEW s, NEW T PROVE \A n \in Nat : \E f : IsKept(f, s, T, n)
  <1> DEFINE P == {n \in Nat : \E f : IsKept(f, s, T, n)}
  <1>1. 0 \in P
    <2>1. IsKept([i \in 0 .. 0 |-> <<>>], s, T, 0)
      BY DEF IsKept
    <2> QED BY <2>1
  <1>2. ASSUME NEW n \in Nat, n \in P PROVE n + 1 \in P
    <2>1. PICK f : IsKept(f, s, T, n)
      BY <1>2
    <2> DEFINE new == IF s[n + 1] \in T THEN Append(f[n], s[n + 1]) ELSE f[n]
               g == [i \in 0 .. n + 1 |-> IF i = n + 1 THEN new ELSE f[i]]
    <2>2. ASSUME NEW i \in 0 .. n + 1
          PROVE  g[i] = IF i = 0 THEN <<>>
                        ELSE IF s[i] \in T THEN Append(g[i - 1], s[i]) ELSE g[i - 1]
      <3>1. CASE i = n + 1
        BY <3>1
      <3>2. CASE i # n + 1
        <4>1. i \in 0 .. n /\ g[i] = f[i] /\ (i # 0 => g[i - 1] = f[i - 1])
          BY <3>2
        <4> HIDE DEF g
        <4> QED BY <2>1, <4>1 DEF IsKept
      <3> QED BY <3>1, <3>2
    <2>3. IsKept(g, s, T, n + 1)
      BY <2>2 DEF IsKept
    <2> QED BY <2>3
  <1> HIDE DEF P
  <1>3. Nat \subseteq P
    BY <1>1, <1>2, NatSetInduction
  <1> QED BY <1>3 DEF P

\* Its values depend on the sequence up to there only.
LEMMA KeptAgrees ==
    ASSUME NEW s, NEW t, NEW T, NEW f, NEW g, NEW m \in Nat, NEW n \in Nat,
           IsKept(f, s, T, m), IsKept(g, t, T, n),
           NEW k \in Nat, k <= m, k <= n, \A i \in 1 .. k : s[i] = t[i]
    PROVE  f[k] = g[k]
  <1> DEFINE P == {i \in Nat : i <= k => f[i] = g[i]}
  <1>1. 0 \in P
    BY DEF IsKept
  <1>2. ASSUME NEW i \in Nat, i \in P PROVE i + 1 \in P
    <2> SUFFICES ASSUME i + 1 <= k PROVE f[i + 1] = g[i + 1]
      OBVIOUS
    <2>1. f[i] = g[i] /\ s[i + 1] = t[i + 1]
      BY <1>2
    <2>2. i + 1 \in 0 .. m /\ i + 1 \in 0 .. n /\ i + 1 # 0 /\ (i + 1) - 1 = i
      OBVIOUS
    <2>3. f[i + 1] = IF s[i + 1] \in T THEN Append(f[i], s[i + 1]) ELSE f[i]
      BY <2>2 DEF IsKept
    <2>4. g[i + 1] = IF t[i + 1] \in T THEN Append(g[i], t[i + 1]) ELSE g[i]
      BY <2>2 DEF IsKept
    <2> QED BY <2>1, <2>3, <2>4
  <1> HIDE DEF P
  <1>3. Nat \subseteq P
    BY <1>1, <1>2, NatSetInduction
  <1> QED BY <1>3 DEF P

\* The filter is the last value of any such function.
LEMMA FilterIsKept ==
    ASSUME NEW s, Len(s) \in Nat, NEW T, NEW f, IsKept(f, s, T, Len(s))
    PROVE  Filter(s, T) = f[Len(s)]
  <1> DEFINE c == CHOOSE g : IsKept(g, s, T, Len(s))
  <1>1. IsKept(c, s, T, Len(s))
    OBVIOUS
  <1>2. Filter(s, T) = c[Len(s)]
    BY DEF Filter, IsKept
  <1> HIDE DEF c
  <1> QED BY <1>1, <1>2, KeptAgrees

\* Nothing is kept of nothing.
THEOREM FilterOfEmpty == \A T : Filter(<<>>, T) = <<>>
  <1> TAKE T
  <1>1. PICK f : IsKept(f, <<>>, T, 0)
    BY KeptExists
  <1> QED BY <1>1, FilterIsKept DEF IsKept

\* An element at the end is kept at the end if it is in the set.
THEOREM FilterOfAppend ==
    ASSUME NEW S, NEW s \in Seq(S), NEW e \in S, NEW T
    PROVE  Filter(Append(s, e), T) = IF e \in T THEN Append(Filter(s, T), e) ELSE Filter(s, T)
  <1> DEFINE t == Append(s, e)
             n == Len(s)
  <1>1. n \in Nat /\ Len(t) = n + 1 /\ t[n + 1] = e /\ \A i \in 1 .. n : s[i] = t[i]
    OBVIOUS
  <1>2. PICK f : IsKept(f, s, T, n)
    BY <1>1, KeptExists
  <1>3. PICK g : IsKept(g, t, T, n + 1)
    BY <1>1, KeptExists
  <1> HIDE DEF t, n
  <1>4. f[n] = g[n]
    BY <1>1, <1>2, <1>3, KeptAgrees
  <1>5. g[n + 1] = IF t[n + 1] \in T THEN Append(g[n], t[n + 1]) ELSE g[n]
    <2>1. n + 1 \in 0 .. n + 1 /\ n + 1 # 0 /\ (n + 1) - 1 = n
      BY <1>1
    <2> QED BY <1>3, <2>1 DEF IsKept
  <1>6. Filter(s, T) = f[n] /\ Filter(t, T) = g[n + 1]
    BY <1>1, <1>2, <1>3, FilterIsKept DEF n
  <1> QED BY <1>1, <1>4, <1>5, <1>6 DEF t

-----------------------------------------------------------------------------

\* What is kept is of the sequence and in the set, and no longer than it.
THEOREM FilterKeepsType ==
    ASSUME NEW S, NEW T
    PROVE  \A s \in Seq(S) :
               Filter(s, T) \in Seq(S) /\ Filter(s, T) \in Seq(T) /\ Len(Filter(s, T)) <= Len(s)
  <1> DEFINE P == {s \in Seq(S) : /\ Filter(s, T) \in Seq(S) /\ Filter(s, T) \in Seq(T)
                                  /\ Len(Filter(s, T)) <= Len(s)}
  <1>1. <<>> \in P
    <2>1. Filter(<<>>, T) = <<>> /\ Len(<<>>) = 0 /\ <<>> \in Seq(S) /\ <<>> \in Seq(T)
      BY FilterOfEmpty
    <2>2. Len(Filter(<<>>, T)) <= Len(<<>>)
      BY <2>1
    <2> QED BY <2>1, <2>2
  <1>2. ASSUME NEW s \in Seq(S), NEW e \in S, s \in P PROVE Append(s, e) \in P
    <2>1. Filter(Append(s, e), T) = IF e \in T THEN Append(Filter(s, T), e) ELSE Filter(s, T)
      BY FilterOfAppend
    <2> HIDE DEF P
    <2>2. /\ Filter(s, T) \in Seq(S) /\ Filter(s, T) \in Seq(T) /\ Len(Filter(s, T)) <= Len(s)
          /\ Append(s, e) \in Seq(S) /\ Len(Append(s, e)) = Len(s) + 1 /\ Len(s) \in Nat
      BY <1>2 DEF P
    <2>3. CASE e \in T
      <3>1. /\ Append(Filter(s, T), e) \in Seq(S) /\ Append(Filter(s, T), e) \in Seq(T)
            /\ Len(Append(Filter(s, T), e)) = Len(Filter(s, T)) + 1 /\ Len(Filter(s, T)) \in Nat
        BY <2>2, <2>3
      <3> QED BY <2>1, <2>2, <2>3, <3>1 DEF P
    <2>4. CASE e \notin T
      <3>1. Len(Filter(s, T)) \in Nat
        BY <2>2
      <3> QED BY <2>1, <2>2, <2>4, <3>1 DEF P
    <2> QED BY <2>3, <2>4
  <1> HIDE DEF P
  <1>3. Seq(S) \subseteq P
    BY <1>1, <1>2, SeqSetInduction
  <1> QED BY <1>3 DEF P

\* An element of the sequence that is in the set is kept.
THEOREM FilterKeepsElements ==
    ASSUME NEW S, NEW T
    PROVE  \A s \in Seq(S) : \A x :
               (\E i \in DOMAIN Filter(s, T) : Filter(s, T)[i] = x)
                   <=> x \in T /\ \E i \in DOMAIN s : s[i] = x
  <1> DEFINE In(s, x) == \E i \in DOMAIN s : s[i] = x
             P == {s \in Seq(S) : \A x : In(Filter(s, T), x) <=> x \in T /\ In(s, x)}
  <1>0. ASSUME NEW R, NEW s \in Seq(R), NEW e \in R
        PROVE  \A x : In(Append(s, e), x) <=> In(s, x) \/ x = e
    <2>1. /\ Len(s) \in Nat /\ DOMAIN s = 1 .. Len(s) /\ DOMAIN Append(s, e) = 1 .. Len(s) + 1
          /\ Append(s, e)[Len(s) + 1] = e /\ \A i \in 1 .. Len(s) : Append(s, e)[i] = s[i]
      OBVIOUS
    <2> QED BY <2>1
  <1>1. <<>> \in P
    BY FilterOfEmpty
  <1>2. ASSUME NEW s \in Seq(S), NEW e \in S, s \in P PROVE Append(s, e) \in P
    <2>1. Filter(Append(s, e), T) = IF e \in T THEN Append(Filter(s, T), e) ELSE Filter(s, T)
      BY FilterOfAppend
    <2>2. Filter(s, T) \in Seq(T) /\ Append(s, e) \in Seq(S)
      BY FilterKeepsType
    <2>3. \A x : In(Append(s, e), x) <=> In(s, x) \/ x = e
      BY <1>0
    <2>4. e \in T => \A x : In(Append(Filter(s, T), e), x) <=> In(Filter(s, T), x) \/ x = e
      BY <1>0, <2>2
    <2> HIDE DEF In
    <2> QED BY <1>2, <2>1, <2>2, <2>3, <2>4
  <1> HIDE DEF P
  <1>3. Seq(S) \subseteq P
    BY <1>1, <1>2, SeqSetInduction
  <1> QED BY <1>3 DEF P

\* To filter twice is to filter once by both sets.
THEOREM FilterTwice ==
    ASSUME NEW S, NEW T, NEW U
    PROVE  \A s \in Seq(S) : Filter(Filter(s, T), U) = Filter(s, T \cap U)
  <1> DEFINE P == {s \in Seq(S) : Filter(Filter(s, T), U) = Filter(s, T \cap U)}
  <1>1. <<>> \in P
    BY FilterOfEmpty
  <1>2. ASSUME NEW s \in Seq(S), NEW e \in S, s \in P PROVE Append(s, e) \in P
    <2>1. Filter(Append(s, e), T) = IF e \in T THEN Append(Filter(s, T), e) ELSE Filter(s, T)
      BY FilterOfAppend
    <2>2. Filter(Append(s, e), T \cap U)
              = IF e \in T \cap U THEN Append(Filter(s, T \cap U), e) ELSE Filter(s, T \cap U)
      BY FilterOfAppend
    <2>3. Filter(s, T) \in Seq(S)
      BY FilterKeepsType
    <2>4. Filter(Append(Filter(s, T), e), U)
              = IF e \in U THEN Append(Filter(Filter(s, T), U), e) ELSE Filter(Filter(s, T), U)
      BY <2>3, FilterOfAppend
    <2>5. Append(s, e) \in Seq(S)
      OBVIOUS
    <2>6. Filter(Append(s, e), T \cap U) = Filter(Filter(Append(s, e), T), U)
      BY <1>2, <2>1, <2>2, <2>4
    <2> QED BY <2>5, <2>6
  <1> HIDE DEF P
  <1>3. Seq(S) \subseteq P
    BY <1>1, <1>2, SeqSetInduction
  <1> QED BY <1>3 DEF P

\* Each element kept is one of the sequence and of the set.
THEOREM FilterTakes ==
    ASSUME NEW S, NEW T
    PROVE  \A s \in Seq(S) : \A i \in DOMAIN Filter(s, T) :
               \E j \in DOMAIN s : s[j] = Filter(s, T)[i] /\ s[j] \in T
  <1> TAKE s \in Seq(S)
  <1> TAKE i \in DOMAIN Filter(s, T)
  <1> DEFINE x == Filter(s, T)[i]
  <1>1. \A y : (\E j \in DOMAIN Filter(s, T) : Filter(s, T)[j] = y) <=> y \in T /\ \E j \in DOMAIN s : s[j] = y
    BY FilterKeepsElements
  <1>2. \E j \in DOMAIN Filter(s, T) : Filter(s, T)[j] = x
    OBVIOUS
  <1>3. x \in T /\ \E j \in DOMAIN s : s[j] = x
    BY ONLY <1>1, <1>2
  <1> QED BY <1>3

\* Nothing is kept of a sequence that has no element in the set.
THEOREM FilterOfNone ==
    ASSUME NEW S, NEW T
    PROVE  \A s \in Seq(S) : (\A i \in 1 .. Len(s) : s[i] \notin T) => Filter(s, T) = <<>>
  <1> TAKE s \in Seq(S)
  <1> HAVE \A i \in 1 .. Len(s) : s[i] \notin T
  <1>1. Filter(s, T) \in Seq(S)
    BY FilterKeepsType
  <1>2. ASSUME NEW i \in DOMAIN Filter(s, T) PROVE FALSE
    <2>1. \E j \in DOMAIN s : s[j] = Filter(s, T)[i] /\ s[j] \in T
      BY FilterTakes
    <2> QED BY <2>1
  <1> DEFINE f == Filter(s, T)
  <1>3. f \in Seq(S) /\ DOMAIN f = {}
    BY <1>1, <1>2
  <1> HIDE DEF f
  <1>4. f = <<>>
    BY <1>3
  <1> QED BY <1>4 DEF f

\* The beginning of what is kept is what is kept of a beginning.
THEOREM FilterOfBeginning ==
    ASSUME NEW S, NEW T
    PROVE  \A s \in Seq(S) : \A k \in 0 .. Len(Filter(s, T)) :
               \E m \in 0 .. Len(s) : SubSeq(Filter(s, T), 1, k) = Filter(SubSeq(s, 1, m), T)
  <1> DEFINE P == {s \in Seq(S) : \A k \in 0 .. Len(Filter(s, T)) :
                   \E m \in 0 .. Len(s) : SubSeq(Filter(s, T), 1, k) = Filter(SubSeq(s, 1, m), T)}
  <1>1. <<>> \in P
    <2>1. Filter(<<>>, T) = <<>> /\ <<>> \in Seq(S) /\ SubSeq(<<>>, 1, 0) = <<>> /\ Len(<<>>) = 0
      BY FilterOfEmpty
    <2>2. \A k \in 0 .. Len(Filter(<<>>, T)) :
             SubSeq(Filter(<<>>, T), 1, k) = Filter(SubSeq(<<>>, 1, 0), T)
      <3> TAKE k \in 0 .. Len(Filter(<<>>, T))
      <3>1. k = 0
        BY <2>1
      <3> QED BY <2>1, <3>1
    <2>3. 0 \in 0 .. Len(<<>>)
      BY <2>1
    <2> QED BY <2>1, <2>2, <2>3
  <1>2. ASSUME NEW s \in Seq(S), NEW e \in S, s \in P PROVE Append(s, e) \in P
    <2> DEFINE t == Append(s, e)
    <2>1. t \in Seq(S) /\ Len(t) = Len(s) + 1 /\ Len(s) \in Nat
      OBVIOUS
    <2>2. Filter(s, T) \in Seq(S) /\ Filter(t, T) \in Seq(S)
      BY <2>1, FilterKeepsType
    <2>3. ASSUME NEW k \in 0 .. Len(Filter(t, T))
          PROVE  \E m \in 0 .. Len(t) : SubSeq(Filter(t, T), 1, k) = Filter(SubSeq(t, 1, m), T)
      <3>1. CASE k <= Len(Filter(s, T))
        <4>1. SubSeq(Filter(t, T), 1, k) = SubSeq(Filter(s, T), 1, k)
          <5>1. Filter(t, T) = Filter(s, T) \/ Filter(t, T) = Append(Filter(s, T), e)
            BY FilterOfAppend
          <5> QED BY <2>2, <3>1, <5>1
        <4>2. PICK m \in 0 .. Len(s) : SubSeq(Filter(s, T), 1, k) = Filter(SubSeq(s, 1, m), T)
          BY <1>2, <3>1, <2>2
        <4>3. SubSeq(t, 1, m) = SubSeq(s, 1, m)
          BY <2>1
        <4>4. m \in 0 .. Len(t)
          BY <2>1
        <4>5. SubSeq(Filter(t, T), 1, k) = Filter(SubSeq(t, 1, m), T)
          BY <4>1, <4>2, <4>3
        <4> QED BY <4>4, <4>5
      <3>2. CASE k > Len(Filter(s, T))
        <4>1. k = Len(Filter(t, T))
          <5>1. Len(Filter(t, T)) <= Len(Filter(s, T)) + 1
            BY <2>2, FilterOfAppend
          <5> QED BY <2>2, <3>2, <5>1
        <4>2. SubSeq(Filter(t, T), 1, k) = Filter(t, T)
          BY <2>2, <4>1
        <4>3. SubSeq(t, 1, Len(t)) = t
          BY <2>1
        <4>4. Len(t) \in 0 .. Len(t)
          BY <2>1
        <4>5. SubSeq(Filter(t, T), 1, k) = Filter(SubSeq(t, 1, Len(t)), T)
          BY <4>2, <4>3
        <4> QED BY <4>4, <4>5
      <3> QED BY <2>2, <3>1, <3>2
    <2> QED BY <2>1, <2>3
  <1> HIDE DEF P
  <1>3. Seq(S) \subseteq P
    BY <1>1, <1>2, SeqSetInduction
  <1> QED BY <1>3 DEF P

\* Of a sequence without repetitions, less the elements at its beginning, the rest is kept.
THEOREM FilterOfRest ==
    ASSUME NEW S
    PROVE  \A s \in Seq(S) : (\A i, j \in 1 .. Len(s) : s[i] = s[j] => i = j) =>
               \A n \in 0 .. Len(s) :
                   Filter(s, S \ {s[i] : i \in 1 .. n}) = SubSeq(s, n + 1, Len(s))
  <1> DEFINE Once(s) == \A i, j \in 1 .. Len(s) : s[i] = s[j] => i = j
             Front(s, n) == {s[i] : i \in 1 .. n}
             P == {s \in Seq(S) : Once(s) => \A n \in 0 .. Len(s) :
                                     Filter(s, S \ Front(s, n)) = SubSeq(s, n + 1, Len(s))}
  <1>1. <<>> \in P
    <2>1. \A T : Filter(<<>>, T) = <<>>
      BY FilterOfEmpty
    <2>2. <<>> \in Seq(S) /\ Len(<<>>) = 0 /\ SubSeq(<<>>, 1, 0) = <<>>
      OBVIOUS
    <2>3. ASSUME NEW n \in 0 .. Len(<<>>)
          PROVE  Filter(<<>>, S \ Front(<<>>, n)) = SubSeq(<<>>, n + 1, Len(<<>>))
      <3>1. n = 0
        BY <2>2
      <3>2. SubSeq(<<>>, n + 1, Len(<<>>)) = <<>>
        BY <3>1
      <3>3. Filter(<<>>, S \ Front(<<>>, n)) = <<>>
        BY FilterOfEmpty
      <3> QED BY <3>2, <3>3
    <2> QED BY <2>2, <2>3
  <1>2. ASSUME NEW s \in Seq(S), NEW e \in S, s \in P PROVE Append(s, e) \in P
    <2> DEFINE t == Append(s, e)
    <2>1. t \in Seq(S) /\ Len(t) = Len(s) + 1 /\ Len(s) \in Nat /\ t[Len(s) + 1] = e
          /\ \A i \in 1 .. Len(s) : t[i] = s[i]
      OBVIOUS
    <2> SUFFICES ASSUME Once(t), NEW n \in 0 .. Len(t)
                 PROVE  Filter(t, S \ Front(t, n)) = SubSeq(t, n + 1, Len(t))
      BY <2>1
    <2>2. CASE n <= Len(s)
      <3>1. Front(t, n) = Front(s, n)
        BY <2>1, <2>2
      <3>2. Filter(s, S \ Front(s, n)) = SubSeq(s, n + 1, Len(s))
        <4>1. Once(s)
          BY <2>1
        <4>2. n \in 0 .. Len(s)
          BY <2>1, <2>2
        <4> QED BY <1>2, <4>1, <4>2
      <3>3. e \notin Front(t, n)
        BY <2>1, <2>2
      <3>4. Filter(t, S \ Front(s, n)) = Append(Filter(s, S \ Front(s, n)), e)
        <4> DEFINE T == S \ Front(s, n)
        <4>1. e \in T
          BY <3>1, <3>3
        <4> HIDE DEF T
        <4>2. Filter(Append(s, e), T) = IF e \in T THEN Append(Filter(s, T), e) ELSE Filter(s, T)
          BY FilterOfAppend
        <4> QED BY <4>1, <4>2 DEF T
      <3>5. Append(SubSeq(s, n + 1, Len(s)), e) = SubSeq(t, n + 1, Len(t))
        BY <2>1, <2>2
      <3> QED BY <3>1, <3>2, <3>4, <3>5
    <2>3. CASE n = Len(s) + 1
      <3>1. \A i \in 1 .. Len(t) : t[i] \notin S \ Front(t, n)
        BY <2>1, <2>3
      <3>2. Filter(t, S \ Front(t, n)) = <<>>
        <4> DEFINE T == S \ Front(t, n)
        <4>1. \A i \in 1 .. Len(t) : t[i] \notin T
          BY <3>1
        <4> HIDE DEF T
        <4>2. Filter(t, T) = <<>>
          BY <2>1, <4>1, FilterOfNone
        <4> QED BY <4>2 DEF T
      <3>3. SubSeq(t, n + 1, Len(t)) = <<>>
        BY <2>1, <2>3
      <3> QED BY <3>2, <3>3
    <2>4. n <= Len(s) \/ n = Len(s) + 1
      BY <2>1
    <2> QED BY <2>2, <2>3, <2>4
  <1> HIDE DEF P
  <1>3. Seq(S) \subseteq P
    BY <1>1, <1>2, SeqSetInduction
  <1> QED BY <1>3 DEF P

\* The elements of f come in the order of s.
InOrder(s, f) ==
    \A i, j \in DOMAIN f : i < j =>
        \E k, l \in DOMAIN s : k < l /\ s[k] = f[i] /\ s[l] = f[j]

\* What is kept is kept in order: two that are kept come one after the other in the
\* sequence too.
THEOREM FilterKeepsOrder ==
    ASSUME NEW S, NEW T
    PROVE  \A s \in Seq(S) : InOrder(s, Filter(s, T))
  <1> DEFINE P == {s \in Seq(S) : InOrder(s, Filter(s, T))}
  <1>1. <<>> \in P
    BY FilterOfEmpty DEF InOrder
  <1>2. ASSUME NEW s \in Seq(S), NEW e \in S, s \in P PROVE Append(s, e) \in P
    <2> DEFINE f == Filter(s, T)
               t == Append(s, e)
    <2>1. Filter(t, T) = IF e \in T THEN Append(f, e) ELSE f
      BY FilterOfAppend
    <2>2. f \in Seq(S) /\ InOrder(s, f)
      BY <1>2, FilterKeepsType
    <2>3. \A i \in DOMAIN f : \E k \in DOMAIN s : s[k] = f[i]
      BY FilterTakes
    <2>4. /\ t \in Seq(S) /\ DOMAIN s = 1 .. Len(s) /\ Len(s) \in Nat /\ DOMAIN t = 1 .. Len(s) + 1
          /\ t[Len(s) + 1] = e /\ \A k \in DOMAIN s : t[k] = s[k]
      OBVIOUS
    <2> HIDE DEF f, t
    <2>5. InOrder(t, f)
      BY <2>2, <2>4 DEF InOrder
    <2>6. InOrder(t, Append(f, e))
      <3> DEFINE g == Append(f, e)
      <3>1. /\ DOMAIN f = 1 .. Len(f) /\ Len(f) \in Nat /\ DOMAIN g = 1 .. Len(f) + 1
            /\ g[Len(f) + 1] = e /\ \A i \in DOMAIN f : g[i] = f[i]
        BY <2>2
      <3> HIDE DEF g
      <3> SUFFICES ASSUME NEW i \in DOMAIN g, NEW j \in DOMAIN g, i < j
                   PROVE  \E k, l \in DOMAIN t : k < l /\ t[k] = g[i] /\ t[l] = g[j]
        BY DEF InOrder, g
      <3>2. CASE j \in DOMAIN f
        <4>1. i \in DOMAIN f
          BY <3>1, <3>2
        <4>2. \E k, l \in DOMAIN t : k < l /\ t[k] = f[i] /\ t[l] = f[j]
          BY <2>5, <3>2, <4>1 DEF InOrder
        <4> QED BY <3>1, <3>2, <4>1, <4>2
      <3>3. CASE j = Len(f) + 1
        <4>1. i \in DOMAIN f
          BY <3>1, <3>3
        <4>2. PICK k \in DOMAIN s : s[k] = f[i]
          BY <2>3, <4>1
        <4>3. k \in DOMAIN t /\ Len(s) + 1 \in DOMAIN t /\ k < Len(s) + 1
          BY <2>4
        <4>4. t[k] = g[i] /\ t[Len(s) + 1] = g[j]
          BY <2>4, <3>1, <3>3, <4>1, <4>2
        <4> QED BY <4>3, <4>4
      <3> QED BY <3>1, <3>2, <3>3
    <2>7. InOrder(t, Filter(t, T))
      BY <2>1, <2>5, <2>6
    <2> QED BY <2>4, <2>7 DEF t
  <1> HIDE DEF P
  <1>3. Seq(S) \subseteq P
    BY <1>1, <1>2, SeqSetInduction
  <1> QED BY <1>3 DEF P

=============================================================================
