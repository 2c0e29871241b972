------------------------------ MODULE FoldProofs ------------------------------
(***************************************************************************)
(* Induction over the natural numbers, and the equations of a fold over a  *)
(* sequence.  Both are stated for sets and functions: an induction is over  *)
(* the set of the numbers it holds of, and the step of a fold is a          *)
(* function, so that no fact has an operator for a parameter.              *)
(***************************************************************************)
EXTENDS Integers, Sequences, SequencesExt, WellFoundedInduction, TLAPS

Below == {p \in Nat \X Nat : p[1] < p[2]}

\* The order of the natural numbers.
LEMMA BelowWellFounded == IsWellFoundedOn(Below, Nat)
<1>1. OpToRel(<, Nat) = Below
  BY DEF OpToRel, Below
<1>2. QED
  BY <1>1, NatLessThanWellFounded, Zenon

\* A set of natural numbers has a least one.
LEMMA LeastOf ==
  ASSUME NEW S, S \subseteq Nat, S # {}
  PROVE  \E x \in S : \A y \in S : x <= y
<1>1. PICK x \in S : \A y \in S : ~(<<y, x>> \in Below)
  BY BelowWellFounded, WFMin, Zenon
<1>2. ASSUME NEW y \in S PROVE x <= y
  <2>1. <<y, x>> \notin Below /\ x \in Nat /\ y \in Nat
    BY <1>1
  <2>2. QED
    BY <2>1, SMT DEF Below
<1>3. QED
  BY <1>2, Zenon

\* A set that has 0 and with each number its successor has every number.
LEMMA NatSetInduction ==
  ASSUME NEW S, 0 \in S, \A n \in Nat : n \in S => n + 1 \in S
  PROVE  \A n \in Nat : n \in S
<1> DEFINE T == Nat \ S
<1>1. SUFFICES ASSUME T # {} PROVE FALSE
  BY Zenon
<1>2. PICK x \in T : \A y \in T : x <= y
  BY <1>1, LeastOf, Zenon
<1>3. x \in Nat /\ x \notin S /\ x # 0
  BY <1>2
<1>4. x - 1 \in Nat /\ (x - 1) + 1 = x /\ ~(x <= x - 1)
  BY <1>3, SMT
<1>5. x - 1 \in S
  BY <1>2, <1>4, Zenon
<1>6. (x - 1) + 1 \in S
  BY <1>4, <1>5, Zenon
<1>7. QED
  BY <1>3, <1>4, <1>6, Zenon

\* The same for the numbers up to n.
LEMMA UpToInduction ==
  ASSUME NEW n \in Nat, NEW S, 0 \in S,
         \A k \in 0..(n - 1) : k \in S => k + 1 \in S
  PROVE  \A k \in 0..n : k \in S
<1> DEFINE T == {k \in Nat : k <= n => k \in S}
<1>1. 0 \in T
  BY SMT
<1>2. ASSUME NEW k \in Nat, k \in T PROVE k + 1 \in T
  <2>1. CASE k + 1 <= n
    <3>1. k \in S /\ k \in 0..(n - 1)
      BY <1>2, <2>1, SMT
    <3>2. k + 1 \in S /\ k + 1 \in Nat
      BY <3>1, <1>2, SMT
    <3>3. QED
      BY <3>2
  <2>2. CASE ~(k + 1 <= n)
    BY <2>2, SMT
  <2>3. QED
    BY <2>1, <2>2, Zenon
<1> HIDE DEF T
<1>3. \A k \in Nat : k \in T
  BY <1>1, <1>2, NatSetInduction, Zenon
<1>4. QED
  BY <1>3, SMT DEF T

\* Max is what FoldLeft takes off a set of positions.
LEMMA GreatestOf ==
  ASSUME NEW n \in Nat, NEW S \in SUBSET (1..n), S # {}
  PROVE  Max(S) \in S /\ \A y \in S : y <= Max(S)
<1> DEFINE U == {k \in Nat : \A y \in S : y <= k}
<1>1. n \in U
  BY SMT
<1>2. PICK k \in U : \A j \in U : k <= j
  <2>1. U \subseteq Nat /\ U # {}
    BY <1>1, Zenon
  <2> HIDE DEF U
  <2>2. QED
    BY <2>1, LeastOf, Zenon
<1>3. k \in S
  <2>1. SUFFICES ASSUME k \notin S PROVE FALSE
    OBVIOUS
  <2>2. PICK z \in S : TRUE
    BY Zenon
  <2>3. k \in Nat /\ k # 0
    BY <1>2, <2>1, <2>2, SMT
  <2>4. k - 1 \in U
    <3>1. ASSUME NEW y \in S PROVE y <= k - 1
      BY <1>2, <2>1, <2>3, SMT
    <3>2. QED
      BY <3>1, <2>3, SMT
  <2>5. k <= k - 1
    BY <1>2, <2>4, Zenon
  <2>6. QED
    BY <2>5, <2>3, SMT
<1>4. \A y \in S : k >= y
  BY <1>2, SMT
<1>5. Max(S) \in S /\ \A y \in S : Max(S) >= y
  BY <1>3, <1>4, Zenon DEF Max
<1>6. QED
  BY <1>5, SMT

LEMMA LeastIs ==
  ASSUME NEW S, S \subseteq Nat, S # {}
  PROVE  Min(S) \in S /\ \A y \in S : Min(S) <= y
BY LeastOf, Zenon DEF Min

-----------------------------------------------------------------------------
(* Folds.  FoldLeft walks through the sets of positions, from the greatest  *)
(* position down.                                                          *)

\* f is the function that FoldLeft defines on the sets of the first n
\* positions; F[t, i] is the step from t at the position i.
Walks(f, F, base, n) ==
  \A s \in SUBSET (1..n) :
    f[s] = IF s = {} THEN base ELSE F[<<f[s \ {Max(s)}], Max(s)>>]

LEMMA WalkExists ==
  ASSUME NEW n \in Nat, NEW T, NEW base \in T, NEW F \in [T \X (1..n) -> T]
  PROVE  \E f \in [SUBSET (1..n) -> T] : Walks(f, F, base, n)
<1> DEFINE S == {k \in Nat : \E f \in [SUBSET (1..k) -> T] : Walks(f, F, base, k)}
<1>1. 0 \in S
  <2> DEFINE f == [s \in SUBSET (1..0) |-> base]
  <2>1. 1..0 = {}
    BY SMT
  <2>2. f \in [SUBSET (1..0) -> T] /\ \A s \in SUBSET (1..0) : f[s] = base /\ s = {}
    BY <2>1, Zenon
  <2>3. Walks(f, F, base, 0)
    BY <2>2, Zenon DEF Walks
  <2>4. QED
    BY <2>2, <2>3, SMT
<1>2. ASSUME NEW k \in 0..(n - 1), k \in S PROVE k + 1 \in S
  <2>1. PICK g \in [SUBSET (1..k) -> T] : Walks(g, F, base, k)
    BY <1>2, Zenon
  <2> DEFINE f == [s \in SUBSET (1..(k + 1)) |->
                     IF s \in SUBSET (1..k) THEN g[s] ELSE F[<<g[s \ {k + 1}], k + 1>>]]
  <2>2. ASSUME NEW s \in SUBSET (1..(k + 1)), s \in SUBSET (1..k)
        PROVE  /\ f[s] = g[s] /\ f[s] \in T
               /\ f[s] = IF s = {} THEN base ELSE F[<<f[s \ {Max(s)}], Max(s)>>]
    <3>1. f[s] = g[s] /\ g[s] \in T
      BY <2>2, <2>1, Zenon
    <3>2. g[s] = IF s = {} THEN base ELSE F[<<g[s \ {Max(s)}], Max(s)>>]
      BY <2>1, <2>2, Zenon DEF Walks
    <3>3. s \ {Max(s)} \in SUBSET (1..k) /\ s \ {Max(s)} \in SUBSET (1..(k + 1))
      BY <2>2, Zenon
    <3>4. f[s \ {Max(s)}] = g[s \ {Max(s)}]
      BY <3>3, Zenon
    <3> HIDE DEF f
    <3>5. QED
      BY <3>1, <3>2, <3>4, Zenon
  <2>3. ASSUME NEW s \in SUBSET (1..(k + 1)), s \notin SUBSET (1..k)
        PROVE  /\ f[s] \in T
               /\ f[s] = IF s = {} THEN base ELSE F[<<f[s \ {Max(s)}], Max(s)>>]
    <3>1. k + 1 \in s /\ s # {} /\ k + 1 \in Nat /\ k + 1 \in 1..n
      BY <2>3, SMT
    <3>2. Max(s) \in s /\ \A y \in s : y <= Max(s)
      BY <3>1, GreatestOf, Zenon
    <3>3. Max(s) = k + 1
      <4>1. Max(s) \in 1..(k + 1) /\ k + 1 <= Max(s)
        BY <3>1, <3>2, Zenon
      <4>2. QED
        BY <4>1, SMT
    <3>4. s \ {k + 1} \in SUBSET (1..k) /\ s \ {k + 1} \in SUBSET (1..(k + 1))
      BY <2>3, SMT
    <3>5. f[s \ {k + 1}] = g[s \ {k + 1}] /\ g[s \ {k + 1}] \in T
      BY <3>4, <2>1, Zenon
    <3>6. f[s] = F[<<g[s \ {k + 1}], k + 1>>]
      BY <2>3, Zenon
    <3>7. F[<<g[s \ {k + 1}], k + 1>>] \in T
      BY <3>5, <3>1, Zenon
    <3> HIDE DEF f
    <3>8. QED
      BY <3>1, <3>3, <3>5, <3>6, <3>7, Zenon
  <2>4. f \in [SUBSET (1..(k + 1)) -> T]
    <3>1. \A s \in SUBSET (1..(k + 1)) : f[s] \in T
      BY <2>2, <2>3, Zenon
    <3>2. f = [s \in SUBSET (1..(k + 1)) |-> f[s]]
      BY Zenon
    <3> HIDE DEF f
    <3>3. QED
      BY <3>1, <3>2, Zenon
  <2>5. Walks(f, F, base, k + 1)
    <3> HIDE DEF f
    <3>1. QED
      BY <2>2, <2>3, Zenon DEF Walks
  <2>6. k + 1 \in Nat
    BY SMT
  <2> HIDE DEF f
  <2>7. QED
    BY <2>4, <2>5, <2>6, Zenon
<1> HIDE DEF S
<1>3. n \in S
  <2>1. \A k \in 0..n : k \in S
    BY <1>1, <1>2, UpToInduction, Zenon
  <2>2. n \in 0..n
    BY SMT
  <2>3. QED
    BY <2>1, <2>2, Zenon
<1>4. QED
  BY <1>3, Zenon DEF S

\* The sets a walk goes through.
LEMMA UpToNext ==
  ASSUME NEW n \in Nat, NEW k \in 0..(n - 1)
  PROVE  /\ 1..(k + 1) \in SUBSET (1..n) /\ 1..(k + 1) # {}
         /\ Max(1..(k + 1)) = k + 1
         /\ (1..(k + 1)) \ {k + 1} = 1..k
<1> DEFINE s == 1..(k + 1)
<1>1. /\ s \in SUBSET (1..n) /\ k + 1 \in s /\ s # {} /\ s \ {k + 1} = 1..k
      /\ \A y \in s : y <= k + 1 /\ y \in Nat
  BY SMT
<1> HIDE DEF s
<1>2. Max(s) \in s /\ \A y \in s : y <= Max(s)
  BY <1>1, GreatestOf, Zenon
<1>3. Max(s) = k + 1
  BY <1>1, <1>2, SMT
<1>4. QED
  BY <1>1, <1>3, Zenon DEF s

\* r takes n steps from base.
Steps(r, F, base, n) ==
  /\ r[0] = base
  /\ \A k \in 0..(n - 1) : r[k + 1] = F[<<r[k], k + 1>>]

LEMMA StepsExist ==
  ASSUME NEW n \in Nat, NEW T, NEW base \in T, NEW F \in [T \X (1..n) -> T]
  PROVE  \E r \in [0..n -> T] : Steps(r, F, base, n)
<1>1. PICK f \in [SUBSET (1..n) -> T] : Walks(f, F, base, n)
  BY WalkExists, Zenon
<1> DEFINE r == [k \in 0..n |-> f[1..k]]
<1>2. \A k \in 0..n : 1..k \in SUBSET (1..n) /\ r[k] = f[1..k]
  BY SMT
<1>3. r \in [0..n -> T]
  BY <1>2, Zenon
<1>4. r[0] = base
  <2>1. 0 \in 0..n /\ 1..0 = {}
    BY SMT
  <2>2. f[{}] = base
    BY <1>1, Zenon DEF Walks
  <2>3. QED
    BY <1>2, <2>1, <2>2, Zenon
<1>5. ASSUME NEW k \in 0..(n - 1) PROVE r[k + 1] = F[<<r[k], k + 1>>]
  <2>1. k \in 0..n /\ k + 1 \in 0..n
    BY SMT
  <2>2. f[1..(k + 1)] = F[<<f[1..k], k + 1>>]
    BY <1>1, UpToNext, Zenon DEF Walks
  <2> HIDE DEF r
  <2>3. QED
    BY <1>2, <2>1, <2>2, Zenon
<1> HIDE DEF r
<1>6. QED
  BY <1>3, <1>4, <1>5, Zenon DEF Steps

\* Two walks with the same steps are the same.
LEMMA SameSteps ==
  ASSUME NEW n \in Nat, NEW r, NEW q, r[0] = q[0],
         \A k \in 0..(n - 1) : r[k] = q[k] => r[k + 1] = q[k + 1]
  PROVE  \A k \in 0..n : r[k] = q[k]
<1> DEFINE S == {k \in Nat : r[k] = q[k]}
<1>1. 0 \in S
  BY SMT
<1>2. \A k \in 0..(n - 1) : k \in S => k + 1 \in S
  BY SMT
<1> HIDE DEF S
<1>3. \A k \in 0..n : k \in S
  BY <1>1, <1>2, UpToInduction, Zenon
<1>4. QED
  BY <1>3, Zenon DEF S

-----------------------------------------------------------------------------
(* Sequences.                                                              *)

LEMMA ConcatIs ==
  ASSUME NEW S, NEW s \in Seq(S), NEW t \in Seq(S)
  PROVE  /\ s \o t \in Seq(S) /\ Len(s \o t) = Len(s) + Len(t)
         /\ \A i \in 1..Len(s) : (s \o t)[i] = s[i]
         /\ \A i \in 1..Len(t) : (s \o t)[Len(s) + i] = t[i]
BY SMT

LEMMA SubSeqIs ==
  ASSUME NEW S, NEW s \in Seq(S), NEW a \in Nat, NEW b \in Nat, a <= b, b <= Len(s)
  PROVE  /\ SubSeq(s, a + 1, b) \in Seq(S) /\ Len(SubSeq(s, a + 1, b)) = b - a
         /\ \A i \in 1..(b - a) : SubSeq(s, a + 1, b)[i] = s[a + i]
BY SMT

LEMMA SameSeq ==
  ASSUME NEW S, NEW s \in Seq(S), NEW t \in Seq(S), Len(s) = Len(t),
         \A i \in 1..Len(s) : s[i] = t[i]
  PROVE  s = t
BY SMT

LEMMA AppendIs ==
  ASSUME NEW S, NEW s \in Seq(S), NEW c \in S
  PROVE  /\ Append(s, c) \in Seq(S) /\ Len(Append(s, c)) = Len(s) + 1 /\ Len(s) \in Nat
         /\ \A i \in 1..Len(s) : Append(s, c)[i] = s[i]
         /\ Append(s, c)[Len(s) + 1] = c
BY SMT

\* A sequence cut anywhere.
LEMMA ConcatCut ==
  ASSUME NEW S, NEW b \in Seq(S), NEW w \in Seq(S), NEW n \in 0..Len(w)
  PROVE  /\ SubSeq(w, 1, n) \in Seq(S) /\ SubSeq(w, n + 1, Len(w)) \in Seq(S)
         /\ (b \o SubSeq(w, 1, n)) \o SubSeq(w, n + 1, Len(w)) = b \o w
         /\ Len(b \o SubSeq(w, 1, n)) <= Len(b \o w)
         /\ \A i \in 1..Len(b \o SubSeq(w, 1, n)) : (b \o SubSeq(w, 1, n))[i] = (b \o w)[i]
<1> DEFINE h == SubSeq(w, 1, n)
           t == SubSeq(w, n + 1, Len(w))
           x == b \o h
           y == b \o w
           z == x \o t
<1>1. h \in Seq(S) /\ Len(h) = n /\ \A i \in 1..n : h[i] = w[i]
  BY SMT
<1>2. t \in Seq(S) /\ Len(t) = Len(w) - n /\ \A i \in 1..(Len(w) - n) : t[i] = w[n + i]
  BY SMT
<1>t. h = SubSeq(w, 1, n) /\ t = SubSeq(w, n + 1, Len(w))
  OBVIOUS
<1> HIDE DEF h, t
<1>3. /\ x \in Seq(S) /\ Len(x) = Len(b) + Len(h) /\ Len(b) \in Nat
      /\ (\A i \in 1..Len(b) : x[i] = b[i]) /\ \A i \in 1..Len(h) : x[Len(b) + i] = h[i]
  <2>1. h \in Seq(S)
    BY <1>1
  <2>2. QED
    BY <2>1, SMT
<1>4. /\ y \in Seq(S) /\ Len(y) = Len(b) + Len(w)
      /\ (\A i \in 1..Len(b) : y[i] = b[i]) /\ \A i \in 1..Len(w) : y[Len(b) + i] = w[i]
  BY SMT
<1>x. x = b \o h /\ y = b \o w
  OBVIOUS
<1> HIDE DEF x, y
<1>5. /\ z \in Seq(S) /\ Len(z) = Len(x) + Len(t)
      /\ (\A i \in 1..Len(x) : z[i] = x[i]) /\ \A i \in 1..Len(t) : z[Len(x) + i] = t[i]
  <2>1. x \in Seq(S) /\ t \in Seq(S)
    BY <1>2, <1>3
  <2>2. QED
    BY <2>1, SMT
<1>z. z = x \o t
  OBVIOUS
<1> HIDE DEF z
<1>6. Len(x) <= Len(y) /\ Len(z) = Len(y) /\ Len(x) = Len(b) + n /\ Len(w) \in Nat
  BY <1>1, <1>2, <1>3, <1>4, <1>5, SMT
<1>7. ASSUME NEW i \in 1..Len(x) PROVE x[i] = y[i]
  <2>1. CASE i <= Len(b)
    <3>1. i \in 1..Len(b)
      BY <2>1, <1>3, <1>6, SMT
    <3>2. QED
      BY <3>1, <1>3, <1>4, Zenon
  <2>2. CASE ~(i <= Len(b))
    <3> DEFINE j == i - Len(b)
    <3>1. j \in 1..n /\ j \in 1..Len(w) /\ j \in 1..Len(h) /\ Len(b) + j = i
      BY <2>2, <1>1, <1>3, <1>6, SMT
    <3> HIDE DEF j
    <3>2. QED
      BY <3>1, <1>1, <1>3, <1>4, Zenon
  <2>3. QED
    BY <2>1, <2>2, Zenon
<1>8. ASSUME NEW i \in 1..Len(z) PROVE z[i] = y[i]
  <2>1. CASE i <= Len(x)
    <3>1. i \in 1..Len(x)
      BY <2>1, <1>3, <1>6, SMT
    <3>2. QED
      BY <3>1, <1>5, <1>7, Zenon
  <2>2. CASE ~(i <= Len(x))
    <3> DEFINE j == i - Len(x)
    <3>1. j \in 1..Len(t) /\ j \in 1..(Len(w) - n) /\ n + j \in 1..Len(w) /\ Len(x) + j = i
          /\ Len(b) + (n + j) = i
      <4> DEFINE lb == Len(b)
                 lw == Len(w)
                 lt == Len(t)
                 lx == Len(x)
      <4>1. /\ lb \in Nat /\ lw \in Nat /\ n \in 0..lw /\ lt = lw - n /\ lx = lb + n
            /\ i \in 1..(lb + lw) /\ ~(i <= lx)
        BY <2>2, <1>2, <1>3, <1>4, <1>6, Zenon
      <4> HIDE DEF lb, lw, lt, lx
      <4>2. j \in 1..lt /\ j \in 1..(lw - n) /\ n + j \in 1..lw /\ lx + j = i /\ lb + (n + j) = i
        <5> DEFINE a == i - lx
        <5>1. a \in 1..lt /\ a \in 1..(lw - n) /\ n + a \in 1..lw /\ lx + a = i /\ lb + (n + a) = i
          BY <4>1, SMT
        <5>2. a = j
          BY Zenon DEF lx
        <5>3. QED
          BY <5>1, <5>2, Zenon
      <4>3. QED
        BY <4>2, Zenon DEF lb, lw, lt, lx
    <3> HIDE DEF j
    <3>2. z[Len(x) + j] = t[j] /\ t[j] = w[n + j] /\ y[Len(b) + (n + j)] = w[n + j]
      BY <3>1, <1>2, <1>4, <1>5, Zenon
    <3>3. QED
      BY <3>1, <3>2, Zenon
  <2>3. QED
    BY <2>1, <2>2, Zenon
<1>9. z = y
  BY <1>4, <1>5, <1>6, <1>8, SameSeq, Zenon
<1>10. QED
  BY <1>1, <1>2, <1>6, <1>7, <1>9, <1>t, <1>x, <1>z, Zenon
=============================================================================
