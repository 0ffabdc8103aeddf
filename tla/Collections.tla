---------------------------- MODULE Collections -----------------------------
(***************************************************************************)
(* Filters, repetitions and sums, defined so that facts about them can be  *)
(* proved, and those facts.  The prover knows nothing of SelectSeq, and    *)
(* its library proves what a recursion computes by theorems with an        *)
(* operator as a parameter; here a test is the set of what passes it and a *)
(* step is a function, so that induction is an argument about sets.        *)
(***************************************************************************)
EXTENDS Integers, Sequences, FiniteSets, FiniteSetTheorems, NaturalsInduction,
        SequenceTheorems, TLAPS

\* Sequences!SelectSeq, with the elements that pass as a set.
Passing(s, T) ==
  LET sel[n \in 0 .. Len(s)] ==
        IF n = 0 THEN <<>>
        ELSE IF s[n] \in T THEN Append(sel[n - 1], s[n]) ELSE sel[n - 1]
  IN  sel[Len(s)]

\* The sum of the natural numbers f[x] over a finite set: as many pairs as
\* there are units to add up.
UnitsOf(f, S) == UNION {{x} \X (1 .. f[x]) : x \in S}
SumOver(f, S) == Cardinality(UnitsOf(f, S))

\* The sum of the integers f[1] to f[n].
Total(f, n) == LET sum[k \in 0 .. n] == IF k = 0 THEN 0 ELSE sum[k - 1] + f[k] IN sum[n]

\* What steps st[1] to st[n] make of b.
Iterated(st, b, n) == LET run[k \in 0 .. n] == IF k = 0 THEN b ELSE st[k][run[k - 1]] IN run[n]

-----------------------------------------------------------------------------
(* Induction.  A set that has 0 and the successors of its members has every*)
(* number up to N.                                                         *)
LEMMA UpTo ==
  ASSUME NEW N \in Nat, NEW S, 0 \in S,
         \A n \in 0 .. N : n < N /\ n \in S => n + 1 \in S
  PROVE  \A n \in 0 .. N : n \in S
<1> SUFFICES ASSUME \E n \in 0 .. N : n \notin S PROVE FALSE
  OBVIOUS
<1> DEFINE C == {n \in Nat : n <= N /\ n \notin S}
<1>1. C # {} /\ C \in SUBSET Nat
  OBVIOUS
<1>2. \A n \in C : n \in Nat /\ n <= N /\ n \notin S
  OBVIOUS
<1>3. \A n \in Nat : n <= N /\ n \notin S => n \in C
  OBVIOUS
<1> HIDE DEF C
<1>4. PICK m \in C : \A n \in C : ~(<<n, m>> \in OpToRel(<, Nat))
  BY <1>1, NatLessThanWellFounded, WFMin
<1>5. m \in Nat /\ m <= N /\ m \notin S /\ m # 0
  BY <1>2
<1>6. m - 1 \in 0 .. N /\ m - 1 < N /\ (m - 1) + 1 = m
  BY <1>5
<1>7. \A n \in C : ~(n < m)
  BY <1>2, <1>4, <1>5 DEF OpToRel
<1>8. m - 1 \in S
  BY <1>3, <1>5, <1>6, <1>7
<1> QED BY <1>5, <1>6, <1>8

(* A recursion over 0 .. N with start b and steps st has a solution.       *)
Solves(f, N, b, st) == f[0] = b /\ \A n \in 1 .. N : f[n] = st[n][f[n - 1]]

LEMMA Recursion ==
  ASSUME NEW N \in Nat, NEW X, NEW b \in X, NEW st \in [1 .. N -> [X -> X]]
  PROVE  \E f \in [0 .. N -> X] : Solves(f, N, b, st)
<1> DEFINE Good(f, k) == f[0] = b /\ \A n \in 1 .. k : f[n] = st[n][f[n - 1]]
           S == {k \in 0 .. N : \E f \in [0 .. k -> X] : Good(f, k)}
<1>1. 0 \in S
  <2> DEFINE f == [n \in 0 .. 0 |-> b]
  <2>1. f \in [0 .. 0 -> X] /\ Good(f, 0)
    OBVIOUS
  <2> HIDE DEF f, Good
  <2> QED BY <2>1
<1>2. ASSUME NEW k \in 0 .. N, k < N, k \in S PROVE k + 1 \in S
  <2>1. PICK f \in [0 .. k -> X] : Good(f, k)
    BY <1>2
  <2> DEFINE g == [n \in 0 .. k + 1 |-> IF n <= k THEN f[n] ELSE st[k + 1][f[k]]]
  <2>2. f[k] \in X /\ k + 1 \in 1 .. N
    BY <1>2
  <2>3. st[k + 1][f[k]] \in X
    BY <2>2
  <2>4. g \in [0 .. k + 1 -> X]
    BY <2>3
  <2>5. g[0] = b
    BY <2>1
  <2>6. ASSUME NEW n \in 1 .. k + 1 PROVE g[n] = st[n][g[n - 1]]
    <3>1. CASE n <= k
      <4>1. n \in 0 .. k + 1 /\ n - 1 \in 0 .. k + 1 /\ n - 1 <= k
        BY <3>1
      <4>2. g[n] = f[n] /\ g[n - 1] = f[n - 1]
        BY <3>1, <4>1
      <4>3. n \in 1 .. k
        BY <3>1
      <4> QED BY <2>1, <4>2, <4>3
    <3>2. CASE n = k + 1
      <4>1. g[n] = st[k + 1][f[k]]
        BY <3>2
      <4>2. g[n - 1] = f[k] /\ n - 1 = k
        BY <3>2
      <4> QED BY <3>2, <4>1, <4>2
    <3> QED BY <3>1, <3>2
  <2> HIDE DEF g
  <2>7. Good(g, k + 1)
    BY <2>5, <2>6
  <2> HIDE DEF Good
  <2>8. k + 1 \in 0 .. N
    BY <1>2
  <2> QED BY <2>4, <2>7, <2>8
<1> HIDE DEF S
<1>3. \A k \in 0 .. N : k \in S
  BY <1>1, <1>2, UpTo, Zenon
<1> QED BY <1>3 DEF S, Solves

(* A set that has the empty sequence and, with a sequence over X, those    *)
(* with one element more has all sequences over X.                         *)
LEMMA BySequence ==
  ASSUME NEW X, NEW S, <<>> \in S,
         \A s \in Seq(X), x \in X : s \in S => Append(s, x) \in S
  PROVE  \A s \in Seq(X) : s \in S
<1> SUFFICES ASSUME NEW s \in Seq(X) PROVE s \in S
  OBVIOUS
<1> DEFINE N == Len(s)
           P == [n \in 0 .. N |-> SubSeq(s, 1, n)]
           U == {n \in 0 .. N : P[n] \in S}
<1>1. N \in Nat /\ P[0] = <<>> /\ P[N] = s
  OBVIOUS
<1>2. \A n \in 0 .. N : P[n] \in Seq(X)
  OBVIOUS
<1>3. \A n \in 0 .. N : n < N => s[n + 1] \in X /\ P[n + 1] = Append(P[n], s[n + 1])
  OBVIOUS
<1> HIDE DEF P, N
<1>4. 0 \in U
  BY <1>1
<1>5. ASSUME NEW n \in 0 .. N, n < N, n \in U PROVE n + 1 \in U
  <2>1. n + 1 \in 0 .. N
    BY <1>1, <1>5
  <2>2. Append(P[n], s[n + 1]) \in S
    BY <1>2, <1>3, <1>5
  <2> QED BY <1>3, <1>5, <2>1, <2>2
<1> HIDE DEF U
<1>6. \A n \in 0 .. N : n \in U
  BY <1>1, <1>4, <1>5, UpTo, Zenon
<1>7. N \in U
  BY <1>1, <1>6
<1> QED BY <1>1, <1>7 DEF U

-----------------------------------------------------------------------------
\* What the recursion of Passing computes up to place N.
PassingUpTo(f, s, T, N) ==
  /\ f[0] = <<>>
  /\ \A n \in 1 .. N : f[n] = IF s[n] \in T THEN Append(f[n - 1], s[n]) ELSE f[n - 1]

LEMMA PassingOnce ==
  ASSUME NEW s, NEW T, NEW f, NEW g, NEW N \in Nat, PassingUpTo(f, s, T, N), PassingUpTo(g, s, T, N)
  PROVE  \A n \in 0 .. N : f[n] = g[n]
<1> DEFINE U == {n \in 0 .. N : f[n] = g[n]}
<1>1. 0 \in U
  BY DEF PassingUpTo
<1>2. ASSUME NEW n \in 0 .. N, n < N, n \in U PROVE n + 1 \in U
  <2>1. n + 1 \in 1 .. N /\ (n + 1) - 1 = n
    BY <1>2
  <2>2. f[n] = g[n]
    BY <1>2
  <2>3. f[n + 1] = g[n + 1]
    BY <2>1, <2>2 DEF PassingUpTo
  <2> QED BY <2>1, <2>3
<1> HIDE DEF U
<1>3. \A n \in 0 .. N : n \in U
  BY <1>1, <1>2, UpTo, Zenon
<1> QED BY <1>3 DEF U

(* The recursion has a solution, and Passing is what it ends in.          *)
LEMMA PassingRuns ==
  ASSUME NEW X, NEW s \in Seq(X), NEW T
  PROVE  \E f \in [0 .. Len(s) -> Seq(X)] : PassingUpTo(f, s, T, Len(s)) /\ Passing(s, T) = f[Len(s)]
<1> DEFINE N == Len(s)
           st == [n \in 1 .. N |-> [x \in Seq(X) |-> IF s[n] \in T THEN Append(x, s[n]) ELSE x]]
           Body(sel) == [n \in 0 .. N |-> IF n = 0 THEN <<>>
                           ELSE IF s[n] \in T THEN Append(sel[n - 1], s[n]) ELSE sel[n - 1]]
<1>0. N \in Nat
  OBVIOUS
<1>1. st \in [1 .. N -> [Seq(X) -> Seq(X)]]
  OBVIOUS
<1>2. <<>> \in Seq(X)
  OBVIOUS
<1>3. \A n \in 1 .. N, x \in Seq(X) : st[n][x] = IF s[n] \in T THEN Append(x, s[n]) ELSE x
  OBVIOUS
<1>3a. Passing(s, T) = (CHOOSE sel : sel = Body(sel))[N]
  BY DEF Passing
<1> DEFINE Y == Seq(X)
           e == <<>>
<1>3b. st \in [1 .. N -> [Y -> Y]] /\ e \in Y
  BY <1>1, <1>2
<1> HIDE DEF st, N, Y, e
<1>3c. \E f \in [0 .. N -> Y] : Solves(f, N, e, st)
  BY <1>0, <1>3b, Recursion, Zenon
<1>4. PICK f \in [0 .. N -> Seq(X)] : f[0] = <<>> /\ \A n \in 1 .. N : f[n] = st[n][f[n - 1]]
  BY <1>3c DEF Y, e, Solves
<1>5. \A n \in 1 .. N : n - 1 \in 0 .. N /\ f[n - 1] \in Seq(X)
  BY <1>0, <1>4
<1>6. PassingUpTo(f, s, T, N)
  BY <1>3, <1>4, <1>5 DEF PassingUpTo
<1>7. f = Body(f)
  <2>1. \A n \in 0 .. N : n # 0 => n \in 1 .. N
    BY <1>0
  <2>2. \A n \in 0 .. N : f[n] = Body(f)[n]
    BY <1>6, <2>1 DEF PassingUpTo
  <2>3. f = [n \in 0 .. N |-> f[n]]
    BY <1>4
  <2> QED BY <2>2, <2>3
<1>8. \A g : g = Body(g) => PassingUpTo(g, s, T, N)
  <2> SUFFICES ASSUME NEW g, g = Body(g) PROVE PassingUpTo(g, s, T, N)
    OBVIOUS
  <2>1. g[0] = <<>>
    BY <1>0
  <2>2. \A n \in 1 .. N : n \in 0 .. N /\ n # 0
    BY <1>0
  <2>3. \A n \in 1 .. N : g[n] = IF s[n] \in T THEN Append(g[n - 1], s[n]) ELSE g[n - 1]
    BY <2>2
  <2> QED BY <2>1, <2>3 DEF PassingUpTo
<1> DEFINE h == CHOOSE sel : sel = Body(sel)
<1>9. h = Body(h)
  BY <1>7
<1> HIDE DEF h, Body
<1>10. h[N] = f[N]
  BY <1>0, <1>6, <1>8, <1>9, PassingOnce
<1> QED BY <1>3a, <1>6, <1>10 DEF h, N

LEMMA PassingNone == ASSUME NEW T PROVE Passing(<<>>, T) = <<>>
<1>1. <<>> \in Seq({}) /\ Len(<<>>) = 0
  OBVIOUS
<1>2. PICK f : PassingUpTo(f, <<>>, T, 0) /\ Passing(<<>>, T) = f[0]
  BY <1>1, PassingRuns
<1> QED BY <1>2 DEF PassingUpTo

(* One element more: it passes or not.                                     *)
LEMMA PassingAppend ==
  ASSUME NEW X, NEW s \in Seq(X), NEW x \in X, NEW T
  PROVE  Passing(Append(s, x), T)
         = IF x \in T THEN Append(Passing(s, T), x) ELSE Passing(s, T)
<1> DEFINE t == Append(s, x)
           N == Len(s)
<1>1. t \in Seq(X) /\ Len(t) = N + 1 /\ N \in Nat /\ t[N + 1] = x
  OBVIOUS
<1>2. \A n \in 1 .. N : t[n] = s[n]
  OBVIOUS
<1>3. PICK f : PassingUpTo(f, s, T, N) /\ Passing(s, T) = f[N]
  BY PassingRuns
<1> HIDE DEF t, N
<1>4. PICK g : PassingUpTo(g, t, T, N + 1) /\ Passing(t, T) = g[N + 1]
  BY <1>1, PassingRuns
<1>5. PassingUpTo(g, s, T, N)
  <2>1. \A n \in 1 .. N : n \in 1 .. N + 1
    BY <1>1
  <2> QED BY <1>2, <1>4, <2>1 DEF PassingUpTo
<1>6. g[N] = f[N]
  BY <1>1, <1>3, <1>5, PassingOnce
<1>7. N + 1 \in 1 .. N + 1 /\ (N + 1) - 1 = N
  BY <1>1
<1>8. g[N + 1] = IF x \in T THEN Append(g[N], x) ELSE g[N]
  BY <1>1, <1>4, <1>7 DEF PassingUpTo
<1> QED BY <1>3, <1>4, <1>6, <1>8 DEF t

-----------------------------------------------------------------------------
Elems(s) == {s[i] : i \in DOMAIN s}

LEMMA ElemsNone == Elems(<<>>) = {}
BY DEF Elems

LEMMA ElemsAppend ==
  ASSUME NEW X, NEW s \in Seq(X), NEW x \in X
  PROVE  Elems(Append(s, x)) = Elems(s) \cup {x}
<1> DEFINE t == Append(s, x)
           n == Len(s) + 1
<1>1. /\ DOMAIN t = DOMAIN s \cup {n} /\ t[n] = x
      /\ \A i \in DOMAIN s : t[i] = s[i]
  OBVIOUS
<1> HIDE DEF t, n
<1>2. Elems(t) = Elems(s) \cup {x}
  BY <1>1 DEF Elems
<1> QED BY <1>2 DEF t

LEMMA ElemsIn ==
  ASSUME NEW X, NEW s \in Seq(X)
  PROVE  Elems(s) \subseteq X /\ \A i \in 1 .. Len(s) : s[i] \in Elems(s)
<1>1. \A i \in DOMAIN s : s[i] \in X
  OBVIOUS
<1>2. DOMAIN s = 1 .. Len(s)
  OBVIOUS
<1> QED BY <1>1, <1>2 DEF Elems

LEMMA ElemsConcat ==
  ASSUME NEW X, NEW s \in Seq(X), NEW t \in Seq(X)
  PROVE  Elems(s \o t) = Elems(s) \cup Elems(t)
<1>1. Elems(s \o t) \subseteq Elems(s) \cup Elems(t)
  BY DEF Elems
<1>2. Elems(s) \subseteq Elems(s \o t)
  BY DEF Elems
<1>3. ASSUME NEW i \in DOMAIN t PROVE t[i] \in Elems(s \o t)
  <2>1. Len(s) + i \in DOMAIN (s \o t) /\ (s \o t)[Len(s) + i] = t[i]
    BY <1>3
  <2> QED BY <2>1 DEF Elems
<1> QED BY <1>1, <1>2, <1>3 DEF Elems

LEMMA PassingType ==
  ASSUME NEW X, NEW s \in Seq(X), NEW T
  PROVE  Passing(s, T) \in Seq(X)
<1>1. PICK f \in [0 .. Len(s) -> Seq(X)] : Passing(s, T) = f[Len(s)]
  BY PassingRuns
<1>2. Len(s) \in 0 .. Len(s)
  OBVIOUS
<1> QED BY <1>1, <1>2

(* What passes, and nothing else, is selected.                             *)
LEMMA PassingElems ==
  ASSUME NEW X, NEW T
  PROVE  \A s \in Seq(X) : Elems(Passing(s, T)) = Elems(s) \cap T
<1> DEFINE D == {s \in Seq(X) : Elems(Passing(s, T)) = Elems(s) \cap T}
<1>1. <<>> \in D
  BY PassingNone, ElemsNone
<1>2. ASSUME NEW s \in Seq(X), NEW x \in X, s \in D PROVE Append(s, x) \in D
  <2>1. Append(s, x) \in Seq(X) /\ Passing(s, T) \in Seq(X)
    BY PassingType
  <2>2. /\ Elems(Append(s, x)) = Elems(s) \cup {x}
        /\ Elems(Append(Passing(s, T), x)) = Elems(Passing(s, T)) \cup {x}
    BY <2>1, ElemsAppend
  <2>3. Passing(Append(s, x), T) = IF x \in T THEN Append(Passing(s, T), x) ELSE Passing(s, T)
    BY PassingAppend
  <2>4. Elems(Passing(Append(s, x), T)) = Elems(Append(s, x)) \cap T
    BY <1>2, <2>2, <2>3
  <2> QED BY <2>1, <2>4
<1> HIDE DEF D
<1>3. \A s \in Seq(X) : s \in D
  BY <1>1, <1>2, BySequence, Zenon
<1> QED BY <1>3 DEF D

(* The selection is no longer than the sequence, as long only if all pass. *)
LEMMA PassingLen ==
  ASSUME NEW X, NEW T
  PROVE  \A s \in Seq(X) :
           /\ Len(Passing(s, T)) <= Len(s)
           /\ Elems(s) \subseteq T => Passing(s, T) = s
           /\ Elems(s) \cap T = {} => Passing(s, T) = <<>>
<1> DEFINE D == {s \in Seq(X) : /\ Len(Passing(s, T)) <= Len(s)
                                /\ Elems(s) \subseteq T => Passing(s, T) = s
                                /\ Elems(s) \cap T = {} => Passing(s, T) = <<>>}
<1>1. <<>> \in D
  BY PassingNone
<1>2. ASSUME NEW s \in Seq(X), NEW x \in X, s \in D PROVE Append(s, x) \in D
  <2>1. Append(s, x) \in Seq(X) /\ Passing(s, T) \in Seq(X) /\ Len(Append(s, x)) = Len(s) + 1
    BY PassingType
  <2>2. Elems(Append(s, x)) = Elems(s) \cup {x}
    BY ElemsAppend
  <2>3. Passing(Append(s, x), T) = IF x \in T THEN Append(Passing(s, T), x) ELSE Passing(s, T)
    BY PassingAppend
  <2>4. Len(Append(Passing(s, T), x)) = Len(Passing(s, T)) + 1
    BY <2>1
  <2>5. Len(Passing(Append(s, x), T)) <= Len(Append(s, x))
    BY <1>2, <2>1, <2>3, <2>4, LenProperties
  <2>6. Elems(Append(s, x)) \subseteq T => Passing(Append(s, x), T) = Append(s, x)
    BY <1>2, <2>2, <2>3
  <2>7. Elems(Append(s, x)) \cap T = {} => Passing(Append(s, x), T) = <<>>
    BY <1>2, <2>2, <2>3
  <2> QED BY <2>1, <2>5, <2>6, <2>7
<1> HIDE DEF D
<1>3. \A s \in Seq(X) : s \in D
  BY <1>1, <1>2, BySequence, Zenon
<1> QED BY <1>3 DEF D

LEMMA PassingConcat ==
  ASSUME NEW X, NEW s \in Seq(X), NEW T
  PROVE  \A t \in Seq(X) : Passing(s \o t, T) = Passing(s, T) \o Passing(t, T)
<1> DEFINE D == {t \in Seq(X) : Passing(s \o t, T) = Passing(s, T) \o Passing(t, T)}
<1>0. Passing(s, T) \in Seq(X)
  BY PassingType
<1>1. <<>> \in D
  <2>1. s \o <<>> = s /\ Passing(s, T) \o <<>> = Passing(s, T) /\ <<>> \in Seq(X)
    BY <1>0
  <2> QED BY <2>1, PassingNone
<1>2. ASSUME NEW t \in Seq(X), NEW x \in X, t \in D PROVE Append(t, x) \in D
  <2>1. Append(t, x) \in Seq(X) /\ s \o t \in Seq(X) /\ Passing(t, T) \in Seq(X)
    BY PassingType
  <2>2. /\ s \o Append(t, x) = Append(s \o t, x)
        /\ Passing(s, T) \o Append(Passing(t, T), x) = Append(Passing(s, T) \o Passing(t, T), x)
    BY <1>0, <2>1
  <2>3. /\ Passing(Append(t, x), T) = IF x \in T THEN Append(Passing(t, T), x) ELSE Passing(t, T)
        /\ Passing(Append(s \o t, x), T)
           = IF x \in T THEN Append(Passing(s \o t, T), x) ELSE Passing(s \o t, T)
    BY <2>1, PassingAppend
  <2>4. Passing(s \o t, T) = Passing(s, T) \o Passing(t, T)
    BY <1>2
  <2>5. Passing(s \o Append(t, x), T) = Passing(s, T) \o Passing(Append(t, x), T)
    BY <2>2, <2>3, <2>4
  <2> QED BY <2>1, <2>5
<1> HIDE DEF D
<1>3. \A t \in Seq(X) : t \in D
  BY <1>1, <1>2, BySequence, Zenon
<1> QED BY <1>3 DEF D

(* Filtering twice, and tests that agree on what the sequence has.         *)
LEMMA PassingTwice ==
  ASSUME NEW X, NEW T, NEW U
  PROVE  \A s \in Seq(X) : Passing(Passing(s, T), U) = Passing(s, T \cap U)
<1> DEFINE D == {s \in Seq(X) : Passing(Passing(s, T), U) = Passing(s, T \cap U)}
<1>1. <<>> \in D
  BY PassingNone
<1>2. ASSUME NEW s \in Seq(X), NEW x \in X, s \in D PROVE Append(s, x) \in D
  <2>1. Append(s, x) \in Seq(X) /\ Passing(s, T) \in Seq(X)
    BY PassingType
  <2>2. /\ Passing(Append(s, x), T) = IF x \in T THEN Append(Passing(s, T), x) ELSE Passing(s, T)
        /\ Passing(Append(s, x), T \cap U)
           = IF x \in T \cap U THEN Append(Passing(s, T \cap U), x) ELSE Passing(s, T \cap U)
        /\ Passing(Append(Passing(s, T), x), U)
           = IF x \in U THEN Append(Passing(Passing(s, T), U), x) ELSE Passing(Passing(s, T), U)
    BY <2>1, PassingAppend
  <2>3. Passing(Passing(s, T), U) = Passing(s, T \cap U)
    BY <1>2
  <2>4. Passing(Passing(Append(s, x), T), U) = Passing(Append(s, x), T \cap U)
    <3>1. CASE x \in T
      <4>1. Passing(Append(s, x), T) = Append(Passing(s, T), x)
        BY <2>2, <3>1
      <4> QED BY <2>2, <2>3, <3>1, <4>1
    <3>2. CASE x \notin T
      <4>1. Passing(Append(s, x), T) = Passing(s, T)
        BY <2>2, <3>2
      <4> QED BY <2>2, <2>3, <3>2, <4>1
    <3> QED BY <3>1, <3>2
  <2> QED BY <2>1, <2>4
<1> HIDE DEF D
<1>3. \A s \in Seq(X) : s \in D
  BY <1>1, <1>2, BySequence, Zenon
<1> QED BY <1>3 DEF D

LEMMA PassingAlike ==
  ASSUME NEW X, NEW T, NEW U
  PROVE  \A s \in Seq(X) : Elems(s) \cap T = Elems(s) \cap U => Passing(s, T) = Passing(s, U)
<1> DEFINE D == {s \in Seq(X) : Elems(s) \cap T = Elems(s) \cap U => Passing(s, T) = Passing(s, U)}
<1>1. <<>> \in D
  BY PassingNone
<1>2. ASSUME NEW s \in Seq(X), NEW x \in X, s \in D PROVE Append(s, x) \in D
  <2>1. Append(s, x) \in Seq(X) /\ Elems(Append(s, x)) = Elems(s) \cup {x}
    BY ElemsAppend
  <2>2. /\ Passing(Append(s, x), T) = IF x \in T THEN Append(Passing(s, T), x) ELSE Passing(s, T)
        /\ Passing(Append(s, x), U) = IF x \in U THEN Append(Passing(s, U), x) ELSE Passing(s, U)
    BY PassingAppend
  <2>3. ASSUME Elems(Append(s, x)) \cap T = Elems(Append(s, x)) \cap U
        PROVE  Passing(Append(s, x), T) = Passing(Append(s, x), U)
    <3>1. x \in T <=> x \in U
      BY <2>1, <2>3
    <3>2. Elems(s) \cap T = Elems(s) \cap U
      BY <2>1, <2>3
    <3>3. Passing(s, T) = Passing(s, U)
      BY <1>2, <3>2
    <3> QED BY <2>2, <3>1, <3>3
  <2> QED BY <2>1, <2>3
<1> HIDE DEF D
<1>3. \A s \in Seq(X) : s \in D
  BY <1>1, <1>2, BySequence, Zenon
<1> QED BY <1>3 DEF D

(* How many pass: as many as there are places whose element passes.        *)
PlacesIn(s, T) == {n \in 1 .. Len(s) : s[n] \in T}

LEMMA PassingCount ==
  ASSUME NEW X, NEW T
  PROVE  \A s \in Seq(X) :
           /\ IsFiniteSet(PlacesIn(s, T))
           /\ Len(Passing(s, T)) = Cardinality(PlacesIn(s, T))
<1> DEFINE D == {s \in Seq(X) : /\ IsFiniteSet(PlacesIn(s, T))
                                /\ Len(Passing(s, T)) = Cardinality(PlacesIn(s, T))}
<1>1. <<>> \in D
  <2>1. PlacesIn(<<>>, T) = {}
    BY DEF PlacesIn
  <2> QED BY <2>1, PassingNone, FS_EmptySet
<1>2. ASSUME NEW s \in Seq(X), NEW x \in X, s \in D PROVE Append(s, x) \in D
  <2> DEFINE P == PlacesIn(s, T)
             n == Len(s)
             t == Append(s, x)
  <2>1. n \in Nat /\ t \in Seq(X) /\ Len(t) = n + 1 /\ t[n + 1] = x /\ \A i \in 1 .. n : t[i] = s[i]
    OBVIOUS
  <2>2. \A i : i \in PlacesIn(t, T) <=> i \in P \/ (i = n + 1 /\ x \in T)
    BY <2>1 DEF PlacesIn
  <2>3. n + 1 \notin P
    BY <2>1 DEF PlacesIn
  <2>4. Passing(s, T) \in Seq(X)
        /\ Passing(t, T) = IF x \in T THEN Append(Passing(s, T), x) ELSE Passing(s, T)
    BY PassingType, PassingAppend
  <2>5. IsFiniteSet(P) /\ Len(Passing(s, T)) = Cardinality(P)
    BY <1>2
  <2>6. CASE x \in T
    <3>1. PlacesIn(t, T) = P \cup {n + 1}
      BY <2>2, <2>6
    <3>2. IsFiniteSet(P \cup {n + 1}) /\ Cardinality(P \cup {n + 1}) = Cardinality(P) + 1
      BY <2>3, <2>5, FS_AddElement
    <3>3. Len(Passing(t, T)) = Len(Passing(s, T)) + 1
      BY <2>4, <2>6
    <3> QED BY <2>1, <2>5, <3>1, <3>2, <3>3
  <2>7. CASE x \notin T
    <3>1. PlacesIn(t, T) = P
      BY <2>2, <2>7
    <3> QED BY <2>1, <2>4, <2>5, <2>7, <3>1
  <2> QED BY <2>6, <2>7
<1> HIDE DEF D
<1>3. \A s \in Seq(X) : s \in D
  BY <1>1, <1>2, BySequence, Zenon
<1> QED BY <1>3 DEF D

LEMMA PassingFewer ==
  ASSUME NEW X, NEW T, NEW U, T \subseteq U
  PROVE  \A s \in Seq(X) : Len(Passing(s, T)) <= Len(Passing(s, U))
<1> TAKE s \in Seq(X)
<1>1. U \cap T = T
  OBVIOUS
<1>2. Passing(Passing(s, U), T) = Passing(s, T)
  BY <1>1, PassingTwice
<1>3. Passing(s, U) \in Seq(X)
  BY PassingType
<1> QED BY <1>2, <1>3, PassingLen

Splits(a, b, s, k) ==
  /\ s = a \o b /\ Len(a) = k /\ Len(b) = Len(s) - k /\ Len(s) \in Nat
  /\ \A i \in 1 .. k : a[i] = s[i]
  /\ \A i \in 1 .. Len(s) - k : b[i] = s[k + i]

LEMMA TwoParts ==
  ASSUME NEW X, NEW s \in Seq(X), NEW k \in 0 .. Len(s)
  PROVE  \E a \in Seq(X), b \in Seq(X) : Splits(a, b, s, k)
<1> DEFINE n == Len(s)
           a == [i \in 1 .. k |-> s[i]]
           b == [i \in 1 .. n - k |-> s[k + i]]
<1>1. n \in Nat /\ k \in Nat /\ n - k \in Nat
  OBVIOUS
<1>2. \A i \in 1 .. n : s[i] \in X
  OBVIOUS
<1>3. \A i \in 1 .. k : s[i] \in X
  BY <1>1, <1>2
<1>4. \A i \in 1 .. n - k : s[k + i] \in X
  BY <1>1, <1>2
<1>5. a \in Seq(X) /\ Len(a) = k
  BY <1>1, <1>3
<1>6. b \in Seq(X) /\ Len(b) = n - k
  BY <1>1, <1>4
<1>7. (\A i \in 1 .. k : a[i] = s[i]) /\ \A i \in 1 .. n - k : b[i] = s[k + i]
  OBVIOUS
<1>8. s = a \o b
  <2> HIDE DEF a, b
  <2>1. a \o b \in Seq(X) /\ Len(a \o b) = n
    BY <1>1, <1>5, <1>6
  <2>2. \A i \in 1 .. n : (a \o b)[i] = s[i]
    <3> SUFFICES ASSUME NEW i \in 1 .. n PROVE (a \o b)[i] = s[i]
      OBVIOUS
    <3>1. CASE i <= k
      BY <1>1, <1>5, <1>6, <1>7, <3>1
    <3>2. CASE i > k
      <4>1. i - k \in 1 .. n - k /\ k + (i - k) = i
        BY <1>1, <3>2
      <4>2. (a \o b)[i] = b[i - k]
        BY <1>1, <1>5, <1>6, <3>2
      <4> QED BY <1>7, <4>1, <4>2
    <3>3. i <= k \/ i > k
      BY <1>1
    <3> QED BY <3>1, <3>2, <3>3
  <2> QED BY <2>1, <2>2, SeqEqual
<1> HIDE DEF a, b
<1>9. Splits(a, b, s, k)
  BY <1>1, <1>5, <1>6, <1>7, <1>8 DEF Splits
<1> QED BY <1>5, <1>6, <1>9

(* What passes of a sequence of two parts that pass or do not pass.        *)
LEMMA PassingSuffix ==
  ASSUME NEW X, NEW s \in Seq(X), NEW k \in 0 .. Len(s), NEW T,
         \A i \in 1 .. Len(s) : s[i] \in T <=> i > k
  PROVE  /\ Passing(s, T) \in Seq(X) /\ Len(Passing(s, T)) = Len(s) - k
         /\ \A i \in 1 .. Len(s) - k : Passing(s, T)[i] = s[k + i]
<1>0. PICK a \in Seq(X), b \in Seq(X) : Splits(a, b, s, k)
  BY TwoParts, Zenon
<1>1. /\ s = a \o b /\ Len(a) = k /\ Len(b) = Len(s) - k /\ Len(s) \in Nat
      /\ \A i \in 1 .. k : a[i] = s[i]
      /\ \A i \in 1 .. Len(s) - k : b[i] = s[k + i]
  BY <1>0 DEF Splits
<1>2. Elems(a) \cap T = {}
  <2>1. \A i \in 1 .. k : i \in 1 .. Len(s) /\ ~(i > k)
    BY <1>1
  <2> QED BY <1>1, <2>1 DEF Elems
<1>3. Elems(b) \subseteq T
  <2>1. \A i \in 1 .. Len(s) - k : k + i \in 1 .. Len(s) /\ k + i > k
    BY <1>1
  <2> QED BY <1>1, <2>1 DEF Elems
<1>4. Passing(a, T) = <<>> /\ Passing(b, T) = b
  BY <1>1, <1>2, <1>3, PassingLen
<1>5. Passing(a \o b, T) = <<>> \o b
  <2>1. Passing(a \o b, T) = Passing(a, T) \o Passing(b, T)
    BY <1>1, PassingConcat
  <2> QED BY <1>4, <2>1
<1>6. <<>> \o b = b
  BY <1>1
<1> QED BY <1>1, <1>5, <1>6

LEMMA PassingPrefix ==
  ASSUME NEW X, NEW s \in Seq(X), NEW k \in 0 .. Len(s), NEW T,
         \A i \in 1 .. Len(s) : s[i] \in T <=> i <= k
  PROVE  /\ Passing(s, T) \in Seq(X) /\ Len(Passing(s, T)) = k
         /\ \A i \in 1 .. k : Passing(s, T)[i] = s[i]
<1>0. PICK a \in Seq(X), b \in Seq(X) : Splits(a, b, s, k)
  BY TwoParts, Zenon
<1>1. /\ s = a \o b /\ Len(a) = k /\ Len(b) = Len(s) - k /\ Len(s) \in Nat
      /\ \A i \in 1 .. k : a[i] = s[i]
      /\ \A i \in 1 .. Len(s) - k : b[i] = s[k + i]
  BY <1>0 DEF Splits
<1>2. Elems(a) \subseteq T
  <2>1. \A i \in 1 .. k : i \in 1 .. Len(s) /\ i <= k
    BY <1>1
  <2> QED BY <1>1, <2>1 DEF Elems
<1>3. Elems(b) \cap T = {}
  <2>1. \A i \in 1 .. Len(s) - k : k + i \in 1 .. Len(s) /\ ~(k + i <= k)
    BY <1>1
  <2> QED BY <1>1, <2>1 DEF Elems
<1>4. Passing(a, T) = a /\ Passing(b, T) = <<>>
  BY <1>1, <1>2, <1>3, PassingLen
<1>5. Passing(a \o b, T) = a \o <<>>
  <2>1. Passing(a \o b, T) = Passing(a, T) \o Passing(b, T)
    BY <1>1, PassingConcat
  <2> QED BY <1>4, <2>1
<1>6. a \o <<>> = a
  BY <1>1
<1> QED BY <1>1, <1>5, <1>6

(* A sequence without repetitions keeps none.                              *)
Distinct(s) == \A i, j \in 1 .. Len(s) : s[i] = s[j] => i = j

LEMMA DistinctAppend ==
  ASSUME NEW X, NEW s \in Seq(X), NEW x \in X
  PROVE  Distinct(Append(s, x)) <=> Distinct(s) /\ x \notin Elems(s)
<1> DEFINE t == Append(s, x)
           n == Len(s)
<1>1. n \in Nat /\ Len(t) = n + 1 /\ t[n + 1] = x /\ \A i \in 1 .. n : t[i] = s[i]
  OBVIOUS
<1>2. \A i : i \in 1 .. n + 1 <=> i \in 1 .. n \/ i = n + 1
  BY <1>1
<1>3. \A y : y \in Elems(s) <=> \E i \in 1 .. n : y = s[i]
  <2>1. DOMAIN s = 1 .. n
    OBVIOUS
  <2> QED BY <2>1 DEF Elems
<1>4. n + 1 \notin 1 .. n
  BY <1>1
<1> HIDE DEF t, n
<1>5. ASSUME Distinct(t) PROVE Distinct(s) /\ x \notin Elems(s)
  BY <1>1, <1>2, <1>3, <1>4, <1>5 DEF Distinct, n
<1>6. ASSUME Distinct(s), x \notin Elems(s) PROVE Distinct(t)
  BY <1>1, <1>2, <1>3, <1>4, <1>6 DEF Distinct, n
<1> QED BY <1>5, <1>6 DEF t

LEMMA PassingDistinct ==
  ASSUME NEW X, NEW T
  PROVE  \A s \in Seq(X) : Distinct(s) => Distinct(Passing(s, T))
<1> DEFINE D == {s \in Seq(X) : Distinct(s) => Distinct(Passing(s, T))}
<1>1. <<>> \in D
  BY PassingNone
<1>2. ASSUME NEW s \in Seq(X), NEW x \in X, s \in D PROVE Append(s, x) \in D
  <2>1. Append(s, x) \in Seq(X) /\ Passing(s, T) \in Seq(X)
    BY PassingType
  <2>2. ASSUME Distinct(Append(s, x)) PROVE Distinct(Passing(Append(s, x), T))
    <3>1. Distinct(s) /\ x \notin Elems(s)
      BY <2>2, DistinctAppend
    <3>2. Distinct(Passing(s, T)) /\ x \notin Elems(Passing(s, T))
      BY <1>2, <3>1, PassingElems
    <3>3. Distinct(Append(Passing(s, T), x))
      BY <2>1, <3>2, DistinctAppend
    <3> QED BY <3>2, <3>3, PassingAppend
  <2> QED BY <2>1, <2>2
<1> HIDE DEF D
<1>3. \A s \in Seq(X) : s \in D
  BY <1>1, <1>2, BySequence, Zenon
<1> QED BY <1>3 DEF D

(* One of finitely many numbers is the greatest.                           *)
LEMMA Greatest ==
  ASSUME NEW N \in Nat \ {0}, NEW f, \A i \in 1 .. N : f[i] \in Int
  PROVE  \E i \in 1 .. N : \A j \in 1 .. N : f[j] <= f[i]
<1> DEFINE Top(n, i) == i \in 1 .. n /\ \A j \in 1 .. n : f[j] <= f[i]
           U == {n \in 0 .. N : n = 0 \/ \E i \in 1 .. N : Top(n, i)}
<1>1. 0 \in U
  OBVIOUS
<1>2. ASSUME NEW n \in 0 .. N, n < N, n \in U PROVE n + 1 \in U
  <2>1. n + 1 \in 0 .. N /\ n + 1 \in 1 .. N /\ f[n + 1] \in Int
    BY <1>2
  <2>2. \A j \in 1 .. n + 1 : j = n + 1 \/ j \in 1 .. n
    BY <2>1
  <2>3. CASE n = 0
    <3>1. Top(n + 1, n + 1)
      BY <2>1, <2>2, <2>3
    <3> QED BY <2>1, <3>1
  <2>4. CASE n # 0
    <3>1. PICK i \in 1 .. N : Top(n, i)
      BY <1>2, <2>4
    <3>2. f[i] \in Int /\ \A j \in 1 .. n : f[j] \in Int
      OBVIOUS
    <3>3. CASE f[n + 1] <= f[i]
      <4>1. Top(n + 1, i)
        BY <2>1, <2>2, <3>1, <3>3
      <4> QED BY <2>1, <4>1
    <3>4. CASE ~(f[n + 1] <= f[i])
      <4>1. \A j \in 1 .. n : f[j] <= f[n + 1]
        BY <2>1, <3>1, <3>2, <3>4
      <4>2. Top(n + 1, n + 1)
        BY <2>1, <2>2, <4>1
      <4> QED BY <2>1, <4>2
    <3> QED BY <3>3, <3>4
  <2> QED BY <2>3, <2>4
<1> HIDE DEF U
<1>3. \A n \in 0 .. N : n \in U
  BY <1>1, <1>2, UpTo, Zenon
<1>4. N \in U
  BY <1>3
<1> QED BY <1>4 DEF U

-----------------------------------------------------------------------------
(* Sums.                                                                   *)
LEMMA UnitsIn ==
  ASSUME NEW f, NEW S, NEW p
  PROVE  p \in UnitsOf(f, S) <=> \E x \in S : \E n \in 1 .. f[x] : p = <<x, n>>
BY DEF UnitsOf

LEMMA UnitsBounded ==
  ASSUME NEW S, IsFiniteSet(S), NEW m \in Nat, NEW f, \A x \in S : f[x] \in 0 .. m
  PROVE  IsFiniteSet(UnitsOf(f, S)) /\ SumOver(f, S) \in Nat /\ SumOver(f, S) <= Cardinality(S) * m
<1>1. IsFiniteSet(1 .. m) /\ Cardinality(1 .. m) = m
  BY FS_Interval
<1>2. IsFiniteSet(S \X (1 .. m)) /\ Cardinality(S \X (1 .. m)) = Cardinality(S) * m
  BY <1>1, FS_Product
<1>3. ASSUME NEW p \in UnitsOf(f, S) PROVE p \in S \X (1 .. m)
  <2>1. PICK x \in S : \E n \in 1 .. f[x] : p = <<x, n>>
    BY UnitsIn
  <2>2. \E n \in 1 .. m : p = <<x, n>>
    BY <2>1
  <2> QED BY <2>1, <2>2
<1>4. UnitsOf(f, S) \in SUBSET (S \X (1 .. m))
  BY <1>3
<1>5. IsFiniteSet(UnitsOf(f, S)) /\ Cardinality(UnitsOf(f, S)) <= Cardinality(S) * m
  BY <1>2, <1>4, FS_Subset
<1> QED BY <1>5, FS_CardinalityType DEF SumOver

LEMMA GreatestOf ==
  ASSUME NEW S, IsFiniteSet(S), S # {}, S \subseteq Int
  PROVE  \E x \in S : \A y \in S : y <= x
<1> DEFINE N == Cardinality(S)
<1>1. N \in Nat \ {0}
  BY FS_CardinalityType, FS_EmptySet
<1>2. PICK b : b \in Bijection(1 .. N, S)
  BY FS_CardinalityType DEF ExistsBijection
<1>3. b \in [1 .. N -> S] /\ \A x \in S : \E i \in 1 .. N : b[i] = x
  BY <1>2 DEF Bijection, Surjection, Injection
<1> HIDE DEF N
<1>4. \A i \in 1 .. N : b[i] \in S /\ b[i] \in Int
  BY <1>3
<1>5. PICK k \in 1 .. N : \A i \in 1 .. N : b[i] <= b[k]
  BY <1>1, <1>4, Greatest
<1> QED BY <1>3, <1>4, <1>5

LEMMA LeastOf ==
  ASSUME NEW S, S # {}, \A x \in S : x \in Nat
  PROVE  \E x \in S : \A y \in S : x <= y
<1>1. S \in SUBSET Nat
  OBVIOUS
<1>2. PICK x \in S : \A y \in S : ~(<<y, x>> \in OpToRel(<, Nat))
  BY <1>1, NatLessThanWellFounded, WFMin
<1>3. \A y \in S : ~(y < x)
  BY <1>2 DEF OpToRel
<1> QED BY <1>3

(* Some number is at least every number of a finite set's elements.        *)
LEMMA Bounded ==
  ASSUME NEW S, IsFiniteSet(S), NEW f, \A x \in S : f[x] \in Nat
  PROVE  \E m \in Nat : \A x \in S : f[x] \in 0 .. m
<1> DEFINE N == Cardinality(S)
<1>1. CASE S = {}
  BY <1>1
<1>2. CASE S # {}
  <2>1. N \in Nat \ {0}
    BY <1>2, FS_CardinalityType, FS_EmptySet
  <2>2. PICK b : b \in Bijection(1 .. N, S)
    BY FS_CardinalityType DEF ExistsBijection
  <2>3. b \in [1 .. N -> S] /\ \A x \in S : \E i \in 1 .. N : b[i] = x
    BY <2>2 DEF Bijection, Surjection, Injection
  <2> DEFINE g == [i \in 1 .. N |-> f[b[i]]]
  <2>4. \A i \in 1 .. N : g[i] = f[b[i]] /\ g[i] \in Nat
    BY <2>3
  <2> HIDE DEF g, N
  <2>5. \A i \in 1 .. N : g[i] \in Int
    BY <2>4
  <2>6. PICK k \in 1 .. N : \A i \in 1 .. N : g[i] <= g[k]
    BY <2>1, <2>5, Greatest
  <2>7. g[k] \in Nat
    BY <2>4
  <2>8. \A x \in S : f[x] \in 0 .. g[k]
    <3> SUFFICES ASSUME NEW x \in S PROVE f[x] \in 0 .. g[k]
      OBVIOUS
    <3>1. PICK i \in 1 .. N : b[i] = x
      BY <2>3
    <3>2. g[i] = f[x] /\ g[i] <= g[k]
      BY <2>4, <2>6, <3>1
    <3> QED BY <2>7, <3>2
  <2> QED BY <2>7, <2>8
<1> QED BY <1>1, <1>2

LEMMA SumType ==
  ASSUME NEW S, IsFiniteSet(S), NEW f, \A x \in S : f[x] \in Nat
  PROVE  IsFiniteSet(UnitsOf(f, S)) /\ SumOver(f, S) \in Nat
<1>1. PICK m \in Nat : \A x \in S : f[x] \in 0 .. m
  BY Bounded
<1> QED BY <1>1, UnitsBounded

LEMMA SumNone == ASSUME NEW f PROVE SumOver(f, {}) = 0
<1>1. UnitsOf(f, {}) = {}
  BY UnitsIn
<1> QED BY <1>1, FS_EmptySet DEF SumOver

LEMMA SumAlike ==
  ASSUME NEW S, NEW f, NEW g, \A x \in S : f[x] = g[x]
  PROVE  SumOver(f, S) = SumOver(g, S)
<1>1. \A p : p \in UnitsOf(f, S) <=> p \in UnitsOf(g, S)
  BY UnitsIn
<1>2. UnitsOf(f, S) = UnitsOf(g, S)
  BY <1>1
<1> QED BY <1>2 DEF SumOver

LEMMA SumWith ==
  ASSUME NEW S, IsFiniteSet(S), NEW y, y \notin S, NEW f, \A x \in S \cup {y} : f[x] \in Nat
  PROVE  SumOver(f, S \cup {y}) = SumOver(f, S) + f[y]
<1> DEFINE U == UnitsOf(f, S)
           n == f[y]
           V == {y} \X (1 .. n)
<1>1. IsFiniteSet(U) /\ Cardinality(U) \in Nat
  BY SumType DEF SumOver
<1>2. IsFiniteSet(V) /\ Cardinality(V) = n
  <2>1. n \in Nat
    OBVIOUS
  <2>2. IsFiniteSet(1 .. n) /\ Cardinality(1 .. n) = n
    BY <2>1, FS_Interval
  <2>3. IsFiniteSet({y}) /\ Cardinality({y}) = 1
    BY FS_Singleton
  <2> DEFINE A == {y}
             B == 1 .. n
  <2> HIDE DEF A, B
  <2>4. IsFiniteSet(A \X B) /\ Cardinality(A \X B) = Cardinality(A) * Cardinality(B)
    BY <2>2, <2>3, FS_Product, Zenon DEF A, B
  <2>5. V = A \X B
    BY DEF A, B
  <2> HIDE DEF V
  <2> QED BY <2>1, <2>2, <2>3, <2>4, <2>5 DEF A, B
<1>3. \A p : p \in V <=> \E k \in 1 .. n : p = <<y, k>>
  OBVIOUS
<1>4. \A p : p \in UnitsOf(f, S \cup {y}) <=> p \in U \/ p \in V
  BY <1>3, UnitsIn
<1>5. \A p : ~(p \in U /\ p \in V)
  BY <1>3, UnitsIn
<1> HIDE DEF U, V
<1>6. UnitsOf(f, S \cup {y}) = U \cup V /\ U \cap V = {}
  BY <1>4, <1>5
<1>7. Cardinality(U \cup V) = Cardinality(U) + Cardinality(V) - Cardinality({})
  BY <1>1, <1>2, <1>6, FS_Union
<1>8. Cardinality({}) = 0
  BY FS_EmptySet
<1>9. f[y] \in Nat
  OBVIOUS
<1>10. Cardinality(U \cup V) = Cardinality(U) + f[y]
  BY <1>1, <1>2, <1>7, <1>8, <1>9
<1> QED BY <1>6, <1>10 DEF SumOver, U

LEMMA SumWithout ==
  ASSUME NEW S, IsFiniteSet(S), NEW y \in S, NEW f, \A x \in S : f[x] \in Nat
  PROVE  IsFiniteSet(S \ {y}) /\ SumOver(f, S) = SumOver(f, S \ {y}) + f[y]
<1>1. IsFiniteSet(S \ {y}) /\ S = (S \ {y}) \cup {y} /\ y \notin S \ {y}
  BY FS_RemoveElement
<1> QED BY <1>1, SumWith
-----------------------------------------------------------------------------
\* What the recursion of Total computes up to n.
TotalUpTo(g, f, n) == g[0] = 0 /\ \A k \in 1 .. n : g[k] = g[k - 1] + f[k]

LEMMA TotalOnce ==
  ASSUME NEW f, NEW g, NEW h, NEW n \in Nat, TotalUpTo(g, f, n), TotalUpTo(h, f, n)
  PROVE  \A k \in 0 .. n : g[k] = h[k]
<1> DEFINE U == {k \in 0 .. n : g[k] = h[k]}
<1>1. 0 \in U
  BY DEF TotalUpTo
<1>2. ASSUME NEW k \in 0 .. n, k < n, k \in U PROVE k + 1 \in U
  <2>1. k + 1 \in 1 .. n /\ (k + 1) - 1 = k
    BY <1>2
  <2>2. g[k] = h[k]
    BY <1>2
  <2>3. g[k + 1] = h[k + 1]
    BY <2>1, <2>2 DEF TotalUpTo
  <2> QED BY <2>1, <2>3
<1> HIDE DEF U
<1>3. \A k \in 0 .. n : k \in U
  BY <1>1, <1>2, UpTo, Zenon
<1> QED BY <1>3 DEF U

\* A function whose first n values are numbers, one that is nowhere above
\* another, and one that is a sum of multiples of two.
AllInts(f, n) == \A k \in 1 .. n : f[k] \in Int
NowhereAbove(f, g, n) == \A k \in 1 .. n : f[k] <= g[k]
Mixes(h, a, f, b, g, n) == \A k \in 1 .. n : h[k] = a * f[k] + b * g[k]

LEMMA TotalRuns ==
  ASSUME NEW n \in Nat, NEW f, \A k \in 1 .. n : f[k] \in Int
  PROVE  \E g \in [0 .. n -> Int] : TotalUpTo(g, f, n) /\ Total(f, n) = g[n]
<1> DEFINE st == [k \in 1 .. n |-> [x \in Int |-> x + f[k]]]
           Body(sum) == [k \in 0 .. n |-> IF k = 0 THEN 0 ELSE sum[k - 1] + f[k]]
<1>1. st \in [1 .. n -> [Int -> Int]]
  OBVIOUS
<1>2. \A k \in 1 .. n, x \in Int : st[k][x] = x + f[k]
  OBVIOUS
<1>3. Total(f, n) = (CHOOSE sum : sum = Body(sum))[n]
  BY DEF Total
<1> HIDE DEF st
<1>4. \E g \in [0 .. n -> Int] : Solves(g, n, 0, st)
  BY <1>1, 0 \in Int, Recursion, Zenon
<1>5. PICK g \in [0 .. n -> Int] : g[0] = 0 /\ \A k \in 1 .. n : g[k] = st[k][g[k - 1]]
  BY <1>4 DEF Solves
<1>6. \A k \in 1 .. n : k - 1 \in 0 .. n /\ g[k - 1] \in Int
  BY <1>5
<1>7. TotalUpTo(g, f, n)
  BY <1>2, <1>5, <1>6 DEF TotalUpTo
<1>8. g = Body(g)
  <2>1. \A k \in 0 .. n : k # 0 => k \in 1 .. n
    OBVIOUS
  <2>2. \A k \in 0 .. n : g[k] = Body(g)[k]
    BY <1>7, <2>1 DEF TotalUpTo
  <2>3. g = [k \in 0 .. n |-> g[k]]
    BY <1>5
  <2> QED BY <2>2, <2>3
<1>9. \A h : h = Body(h) => TotalUpTo(h, f, n)
  <2> SUFFICES ASSUME NEW h, h = Body(h) PROVE TotalUpTo(h, f, n)
    OBVIOUS
  <2>1. h[0] = 0
    OBVIOUS
  <2>2. \A k \in 1 .. n : k \in 0 .. n /\ k # 0
    OBVIOUS
  <2>3. \A k \in 1 .. n : h[k] = h[k - 1] + f[k]
    BY <2>2
  <2> QED BY <2>1, <2>3 DEF TotalUpTo
<1> DEFINE t == CHOOSE sum : sum = Body(sum)
<1>10. t = Body(t)
  BY <1>8
<1> HIDE DEF t, Body
<1>11. t[n] = g[n]
  BY <1>7, <1>9, <1>10, TotalOnce
<1> QED BY <1>3, <1>7, <1>11 DEF t

(* Nothing adds up to 0; one more number is added last.                    *)
LEMMA TotalNone == ASSUME NEW f PROVE Total(f, 0) = 0
<1>0. 0 \in Nat /\ \A k \in 1 .. 0 : f[k] \in Int
  OBVIOUS
<1>1. PICK g : TotalUpTo(g, f, 0) /\ Total(f, 0) = g[0]
  BY <1>0, TotalRuns, Zenon
<1> QED BY <1>1 DEF TotalUpTo

LEMMA TotalStep ==
  ASSUME NEW n \in Nat, NEW f, \A k \in 1 .. n + 1 : f[k] \in Int
  PROVE  Total(f, n) \in Int /\ Total(f, n + 1) = Total(f, n) + f[n + 1]
<1>0. \A k \in 1 .. n : k \in 1 .. n + 1 /\ f[k] \in Int
  OBVIOUS
<1>1. PICK g \in [0 .. n -> Int] : TotalUpTo(g, f, n) /\ Total(f, n) = g[n]
  BY <1>0, TotalRuns
<1>2. PICK h : TotalUpTo(h, f, n + 1) /\ Total(f, n + 1) = h[n + 1]
  BY TotalRuns
<1>3. TotalUpTo(h, f, n)
  BY <1>0, <1>2 DEF TotalUpTo
<1>4. h[n] = g[n] /\ g[n] \in Int
  BY <1>1, <1>3, TotalOnce
<1>5. h[n + 1] = h[n] + f[n + 1]
  <2>1. n + 1 \in 1 .. n + 1 /\ (n + 1) - 1 = n
    OBVIOUS
  <2> QED BY <1>2, <2>1 DEF TotalUpTo
<1> QED BY <1>1, <1>2, <1>4, <1>5

LEMMA TotalType ==
  ASSUME NEW n \in Nat, NEW f, AllInts(f, n)
  PROVE  Total(f, n) \in Int
BY TotalRuns DEF AllInts

(* Totals of sums and differences, of one function below another, of       *)
(* nothing negative, and of nothing but ones.                              *)
LEMMA TotalSum ==
  ASSUME NEW n \in Nat, NEW f, NEW g, NEW h, NEW a \in Int, NEW b \in Int,
         AllInts(f, n), AllInts(g, n), Mixes(h, a, f, b, g, n)
  PROVE  Total(h, n) = a * Total(f, n) + b * Total(g, n)
<1> DEFINE U == {m \in 0 .. n : Total(h, m) = a * Total(f, m) + b * Total(g, m)}
<1>0. \A k \in 1 .. n : f[k] \in Int /\ g[k] \in Int /\ h[k] = a * f[k] + b * g[k]
  BY DEF AllInts, Mixes
<1>1. 0 \in U
  BY TotalNone
<1>2. ASSUME NEW m \in 0 .. n, m < n, m \in U PROVE m + 1 \in U
  <2>1. m \in Nat /\ m + 1 \in 1 .. n /\ \A k \in 1 .. m + 1 : k \in 1 .. n
    BY <1>2
  <2>2. \A k \in 1 .. n : h[k] \in Int
    BY <1>0
  <2> DEFINE x == Total(f, m)
             y == Total(g, m)
             p == f[m + 1]
             q == g[m + 1]
  <2>3. x \in Int /\ y \in Int /\ p \in Int /\ q \in Int /\ h[m + 1] = a * p + b * q
    BY <1>0, <2>1, TotalStep
  <2>4. Total(f, m + 1) = x + p /\ Total(g, m + 1) = y + q
    BY <1>0, <2>1, TotalStep
  <2>5. Total(h, m + 1) = (a * x + b * y) + (a * p + b * q)
    BY <1>2, <2>1, <2>2, <2>3, TotalStep
  <2> HIDE DEF x, y, p, q
  <2>6. (a * x + b * y) + (a * p + b * q) = a * (x + p) + b * (y + q)
    BY <2>3
  <2> QED BY <2>1, <2>4, <2>5, <2>6
<1> HIDE DEF U
<1>3. \A m \in 0 .. n : m \in U
  BY <1>1, <1>2, UpTo, Zenon
<1> QED BY <1>3 DEF U

LEMMA TotalOrder ==
  ASSUME NEW n \in Nat, NEW f, NEW g, AllInts(f, n), AllInts(g, n), NowhereAbove(f, g, n)
  PROVE  Total(f, n) <= Total(g, n)
<1> DEFINE U == {m \in 0 .. n : Total(f, m) <= Total(g, m)}
<1>0. \A k \in 1 .. n : f[k] \in Int /\ g[k] \in Int /\ f[k] <= g[k]
  BY DEF AllInts, NowhereAbove
<1>1. 0 \in U
  BY TotalNone
<1>2. ASSUME NEW m \in 0 .. n, m < n, m \in U PROVE m + 1 \in U
  <2>1. m \in Nat /\ m + 1 \in 1 .. n /\ \A k \in 1 .. m + 1 : k \in 1 .. n
    BY <1>2
  <2>2. Total(f, m + 1) = Total(f, m) + f[m + 1] /\ Total(f, m) \in Int
    BY <1>0, <2>1, TotalStep
  <2>3. Total(g, m + 1) = Total(g, m) + g[m + 1] /\ Total(g, m) \in Int
    BY <1>0, <2>1, TotalStep
  <2>4. f[m + 1] \in Int /\ g[m + 1] \in Int /\ f[m + 1] <= g[m + 1]
    BY <1>0, <2>1
  <2> QED BY <1>2, <2>1, <2>2, <2>3, <2>4
<1> HIDE DEF U
<1>3. \A m \in 0 .. n : m \in U
  BY <1>1, <1>2, UpTo, Zenon
<1> QED BY <1>3 DEF U

LEMMA TotalNatural ==
  ASSUME NEW n \in Nat, NEW f, \A k \in 1 .. n : f[k] \in Nat
  PROVE  Total(f, n) \in Nat
<1> DEFINE z == [k \in 1 .. n |-> 0]
<1>1. AllInts(z, n) /\ AllInts(f, n) /\ NowhereAbove(z, f, n) /\ Mixes(z, 0, z, 0, z, n)
  BY DEF AllInts, NowhereAbove, Mixes
<1> HIDE DEF z
<1>2. Total(z, n) \in Int /\ Total(f, n) \in Int
  BY <1>1, TotalType
<1>3. Total(z, n) = 0 * Total(z, n) + 0 * Total(z, n)
  BY <1>1, TotalSum, 0 \in Int
<1>4. Total(z, n) <= Total(f, n)
  BY <1>1, TotalOrder
<1> QED BY <1>2, <1>3, <1>4

LEMMA TotalOnes ==
  ASSUME NEW n \in Nat, NEW f, \A k \in 1 .. n : f[k] = 1
  PROVE  Total(f, n) = n
<1> DEFINE U == {m \in 0 .. n : Total(f, m) = m}
<1>1. 0 \in U
  BY TotalNone
<1>2. ASSUME NEW m \in 0 .. n, m < n, m \in U PROVE m + 1 \in U
  <2>1. m \in Nat /\ m + 1 \in 1 .. n /\ \A k \in 1 .. m + 1 : k \in 1 .. n
    BY <1>2
  <2>2. Total(f, m + 1) = Total(f, m) + f[m + 1]
    BY <2>1, TotalStep
  <2> QED BY <1>2, <2>1, <2>2
<1> HIDE DEF U
<1>3. \A m \in 0 .. n : m \in U
  BY <1>1, <1>2, UpTo, Zenon
<1> QED BY <1>3 DEF U
-----------------------------------------------------------------------------
LEMMA SolvesOnce ==
  ASSUME NEW N \in Nat, NEW b, NEW st, NEW f, NEW g, Solves(f, N, b, st), Solves(g, N, b, st)
  PROVE  \A n \in 0 .. N : f[n] = g[n]
<1> DEFINE U == {n \in 0 .. N : f[n] = g[n]}
<1>1. 0 \in U
  BY DEF Solves
<1>2. ASSUME NEW n \in 0 .. N, n < N, n \in U PROVE n + 1 \in U
  <2>1. n + 1 \in 1 .. N /\ (n + 1) - 1 = n
    BY <1>2
  <2>2. f[n] = g[n]
    BY <1>2
  <2>3. f[n + 1] = g[n + 1]
    BY <2>1, <2>2 DEF Solves
  <2> QED BY <2>1, <2>3
<1> HIDE DEF U
<1>3. \A n \in 0 .. N : n \in U
  BY <1>1, <1>2, UpTo, Zenon
<1> QED BY <1>3 DEF U

StepsOver(st, N, X) == \A n \in 1 .. N : st[n] \in [X -> X]
RunsTo(st, b, N, X) ==
  \E f \in [0 .. N -> X] : Solves(f, N, b, st) /\ Iterated(st, b, N) = f[N]

LEMMA IteratedRuns ==
  ASSUME NEW N \in Nat, NEW X, NEW b \in X, NEW st, StepsOver(st, N, X)
  PROVE  RunsTo(st, b, N, X)
<1> DEFINE sd == [n \in 1 .. N |-> st[n]]
           Body(run) == [n \in 0 .. N |-> IF n = 0 THEN b ELSE st[n][run[n - 1]]]
<1>1. sd \in [1 .. N -> [X -> X]] /\ \A n \in 1 .. N : sd[n] = st[n]
  BY DEF StepsOver
<1>2. Iterated(st, b, N) = (CHOOSE run : run = Body(run))[N]
  BY DEF Iterated
<1> HIDE DEF sd
<1>3. PICK f \in [0 .. N -> X] : Solves(f, N, b, sd)
  BY <1>1, Recursion, Zenon
<1>4. Solves(f, N, b, st)
  BY <1>1, <1>3 DEF Solves
<1>5. f = Body(f)
  <2>1. \A n \in 0 .. N : n # 0 => n \in 1 .. N
    OBVIOUS
  <2>2. \A n \in 0 .. N : f[n] = Body(f)[n]
    BY <1>4, <2>1 DEF Solves
  <2>3. f = [n \in 0 .. N |-> f[n]]
    OBVIOUS
  <2> QED BY <2>2, <2>3
<1>6. \A g : g = Body(g) => Solves(g, N, b, st)
  <2> SUFFICES ASSUME NEW g, g = Body(g) PROVE Solves(g, N, b, st)
    OBVIOUS
  <2>1. g[0] = b
    OBVIOUS
  <2>2. \A n \in 1 .. N : n \in 0 .. N /\ n # 0
    OBVIOUS
  <2>3. \A n \in 1 .. N : g[n] = st[n][g[n - 1]]
    BY <2>2
  <2> QED BY <2>1, <2>3 DEF Solves
<1> DEFINE h == CHOOSE run : run = Body(run)
<1>7. h = Body(h)
  BY <1>5
<1> HIDE DEF h, Body
<1>8. h[N] = f[N]
  BY <1>4, <1>6, <1>7, SolvesOnce
<1> QED BY <1>2, <1>4, <1>8 DEF h, RunsTo

(* No step leaves what there is; the last step is made last.               *)
LEMMA IteratedNone == ASSUME NEW st, NEW b PROVE Iterated(st, b, 0) = b
<1> DEFINE X == {b}
<1>1. 0 \in Nat /\ b \in X /\ StepsOver(st, 0, X)
  BY DEF StepsOver
<1> HIDE DEF X
<1>2. RunsTo(st, b, 0, X)
  BY <1>1, IteratedRuns
<1> QED BY <1>2 DEF RunsTo, Solves

LEMMA IteratedStep ==
  ASSUME NEW n \in Nat, NEW X, NEW b \in X, NEW st, StepsOver(st, n + 1, X)
  PROVE  Iterated(st, b, n) \in X /\ Iterated(st, b, n + 1) = st[n + 1][Iterated(st, b, n)]
<1>0. StepsOver(st, n, X) /\ n + 1 \in Nat /\ \A k \in 1 .. n : k \in 1 .. n + 1
  BY DEF StepsOver
<1>1. PICK g \in [0 .. n -> X] : Solves(g, n, b, st) /\ Iterated(st, b, n) = g[n]
  BY <1>0, IteratedRuns DEF RunsTo
<1>2. PICK h : Solves(h, n + 1, b, st) /\ Iterated(st, b, n + 1) = h[n + 1]
  BY <1>0, IteratedRuns DEF RunsTo
<1>3. Solves(h, n, b, st)
  BY <1>0, <1>2 DEF Solves
<1>4. h[n] = g[n] /\ g[n] \in X
  BY <1>1, <1>3, SolvesOnce
<1>5. h[n + 1] = st[n + 1][h[n]]
  <2>1. n + 1 \in 1 .. n + 1 /\ (n + 1) - 1 = n
    OBVIOUS
  <2> QED BY <1>2, <2>1 DEF Solves
<1> QED BY <1>1, <1>2, <1>4, <1>5
(* One element more at the end: it is added last, and its step made last.  *)
LEMMA TotalAppend ==
  ASSUME NEW s \in Seq(Int), NEW x \in Int
  PROVE  /\ Total(s, Len(s)) \in Int
         /\ Total(Append(s, x), Len(Append(s, x))) = Total(s, Len(s)) + x
<1> DEFINE t == Append(s, x)
           n == Len(s)
<1>1. n \in Nat /\ Len(t) = n + 1 /\ t[n + 1] = x /\ \A k \in 1 .. n : t[k] = s[k] /\ s[k] \in Int
  OBVIOUS
<1> HIDE DEF t, n
<1>2. (\A k \in 1 .. n + 1 : t[k] \in Int) /\ AllInts(s, n) /\ AllInts(t, n)
      /\ NowhereAbove(s, t, n) /\ NowhereAbove(t, s, n)
  BY <1>1 DEF AllInts, NowhereAbove
<1>3. Total(t, n + 1) = Total(t, n) + x
  BY <1>1, <1>2, TotalStep
<1>4. Total(s, n) \in Int /\ Total(t, n) \in Int
  BY <1>1, <1>2, TotalType
<1>5. Total(s, n) <= Total(t, n) /\ Total(t, n) <= Total(s, n)
  BY <1>1, <1>2, TotalOrder
<1> QED BY <1>1, <1>3, <1>4, <1>5 DEF t, n

LEMMA IteratedAlike ==
  ASSUME NEW n \in Nat, NEW X, NEW b \in X, NEW st, NEW su, StepsOver(st, n, X),
         \A k \in 1 .. n : su[k] = st[k]
  PROVE  Iterated(su, b, n) = Iterated(st, b, n)
<1>1. StepsOver(su, n, X)
  BY DEF StepsOver
<1>2. PICK f \in [0 .. n -> X] : Solves(f, n, b, st) /\ Iterated(st, b, n) = f[n]
  BY IteratedRuns DEF RunsTo
<1>3. PICK g \in [0 .. n -> X] : Solves(g, n, b, su) /\ Iterated(su, b, n) = g[n]
  BY <1>1, IteratedRuns DEF RunsTo
<1>4. Solves(g, n, b, st)
  BY <1>3 DEF Solves
<1> QED BY <1>2, <1>3, <1>4, SolvesOnce

(* A sequence is its parts before, from and after some of its elements.    *)
Surround(a, c, b, s, m, n) ==
  /\ c = SubSeq(s, m, n) /\ s = a \o (c \o b)
  /\ Len(a) = m - 1 /\ \A i \in 1 .. m - 1 : a[i] = s[i]
  /\ Len(b) = Len(s) - n /\ \A i \in 1 .. Len(s) - n : b[i] = s[n + i]

LEMMA ThreeParts ==
  ASSUME NEW X, NEW s \in Seq(X), NEW m \in 1 .. Len(s), NEW n \in m .. Len(s)
  PROVE  \E a \in Seq(X), c \in Seq(X), b \in Seq(X) : Surround(a, c, b, s, m, n)
<1> DEFINE N == Len(s)
<1>1. N \in Nat /\ m \in Nat /\ n \in Nat /\ 1 <= m /\ m <= n /\ n <= N
  OBVIOUS
<1> HIDE DEF N
<1>2. m - 1 \in 0 .. N
  BY <1>1
<1>3. PICK a \in Seq(X), r \in Seq(X) : Splits(a, r, s, m - 1)
  BY <1>2, TwoParts DEF N
<1>4. Len(r) = N - (m - 1) /\ \A i \in 1 .. N - (m - 1) : r[i] = s[(m - 1) + i]
  BY <1>3 DEF Splits, N
<1>5. n - m + 1 \in 0 .. Len(r)
  BY <1>1, <1>4
<1>6. PICK c \in Seq(X), b \in Seq(X) : Splits(c, b, r, n - m + 1)
  BY <1>5, TwoParts
<1>7. Len(c) = n - m + 1 /\ \A i \in 1 .. n - m + 1 : c[i] = s[m + i - 1]
  <2>1. \A i \in 1 .. n - m + 1 : i \in 1 .. N - (m - 1) /\ (m - 1) + i = m + i - 1
    BY <1>1
  <2> QED BY <1>4, <1>6, <2>1 DEF Splits
<1>8. /\ SubSeq(s, m, n) \in Seq(X) /\ Len(SubSeq(s, m, n)) = n - m + 1
      /\ \A i \in 1 .. n - m + 1 : SubSeq(s, m, n)[i] = s[m + i - 1]
  <2>1. \A i \in m .. n : s[i] \in X
    BY <1>1
  <2> QED BY <1>1, <2>1, SubSeqProperties
<1>9. c = SubSeq(s, m, n)
  BY <1>7, <1>8, SeqEqual
<1>10. Len(b) = N - n /\ \A i \in 1 .. N - n : b[i] = s[n + i]
  <2>1. \A i \in 1 .. N - n : (n - m + 1) + i \in 1 .. N - (m - 1) /\ (m - 1) + ((n - m + 1) + i) = n + i
    BY <1>1
  <2>2. Len(b) = Len(r) - (n - m + 1) /\ \A i \in 1 .. Len(r) - (n - m + 1) : b[i] = r[(n - m + 1) + i]
    BY <1>6 DEF Splits
  <2>3. Len(r) - (n - m + 1) = N - n
    BY <1>1, <1>4
  <2> QED BY <1>4, <2>1, <2>2, <2>3
<1>11. s = a \o (c \o b) /\ Len(a) = m - 1 /\ \A i \in 1 .. m - 1 : a[i] = s[i]
  BY <1>3, <1>6 DEF Splits
<1> QED BY <1>9, <1>10, <1>11 DEF N, Surround
=============================================================================
