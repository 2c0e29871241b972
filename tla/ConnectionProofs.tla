--------------------------- MODULE ConnectionProofs ---------------------------
(***************************************************************************)
(* A connection, for any messages, limits and lengths: its life cycle, that *)
(* a message is read off the bytes it was written as, and that the handlers *)
(* get what was sent however the bytes are cut.                            *)
(***************************************************************************)
EXTENDS Connection, FoldProofs

-----------------------------------------------------------------------------
(* Integers.                                                               *)

\* What the proofs use of the constants.
LEMMA Constants ==
  /\ Base \in Nat /\ Base > 1 /\ IntLen \in Nat /\ IntLen > 0
  /\ MaxLen \in Nat
BY ConnectionAssumption, SMT

\* Power is what its definition says.
LEMMA PowerIs ==
  /\ Power[0] = 1
  /\ \A k \in 0..(IntLen - 1) : Power[k + 1] = Base * Power[k]
  /\ \A k \in 0..IntLen : Power[k] \in Nat \ {0}
<1> DEFINE T == Nat \ {0}
           F == [p \in T \X (1..IntLen) |-> Base * p[1]]
<1>1. F \in [T \X (1..IntLen) -> T]
  BY Constants, SMT
<1>2. \A t \in T, i \in 1..IntLen : F[<<t, i>>] = Base * t
  BY Zenon
<1>a. 1 \in T
  BY SMT
<1> HIDE DEF F, T
<1>3. PICK r \in [0..IntLen -> T] :
        /\ r[0] = 1
        /\ \A k \in 0..(IntLen - 1) : r[k + 1] = F[<<r[k], k + 1>>]
  <2>1. IntLen \in Nat
    BY Constants, SMT
  <2>2. \E r \in [0..IntLen -> T] : Steps(r, F, 1, IntLen)
    BY <1>1, <1>a, <2>1, StepsExist, Zenon
  <2>3. QED
    BY <2>2, Zenon DEF Steps
<1>4. \A k \in 0..(IntLen - 1) : r[k + 1] = Base * r[k]
  <2>1. \A k \in 0..(IntLen - 1) : k + 1 \in 1..IntLen /\ k \in 0..IntLen
    BY Constants, SMT
  <2>2. QED
    BY <1>2, <1>3, <2>1, Zenon
<1>5. r = [n \in 0..IntLen |-> IF n = 0 THEN 1 ELSE Base * r[n - 1]]
  <2>1. ASSUME NEW n \in 0..IntLen PROVE r[n] = IF n = 0 THEN 1 ELSE Base * r[n - 1]
    <3>1. n # 0 => n - 1 \in 0..(IntLen - 1) /\ (n - 1) + 1 = n
      BY Constants, SMT
    <3>2. QED
      BY <1>3, <1>4, <3>1, Zenon
  <2>2. QED
    BY <2>1, <1>3, Zenon
<1>6. Power = [n \in 0..IntLen |-> IF n = 0 THEN 1 ELSE Base * Power[n - 1]]
  BY <1>5, Zenon DEF Power
<1>7. \A n \in 0..IntLen : Power[n] = IF n = 0 THEN 1 ELSE Base * Power[n - 1]
  BY <1>6, Zenon
<1>8. Power[0] = 1
  BY <1>7, Constants, SMT
<1>9. ASSUME NEW k \in 0..(IntLen - 1) PROVE Power[k + 1] = Base * Power[k]
  <2>1. k + 1 \in 0..IntLen /\ k + 1 # 0 /\ (k + 1) - 1 = k
    BY Constants, SMT
  <2>2. QED
    BY <1>7, <2>1, Zenon
<1>10. \A k \in 0..IntLen : Power[k] = r[k]
  <2>1. \A k \in 0..(IntLen - 1) : Power[k] = r[k] => Power[k + 1] = r[k + 1]
    BY <1>4, <1>9, Zenon
  <2>2. IntLen \in Nat /\ Power[0] = r[0]
    BY <1>3, <1>8, Constants, Zenon
  <2>3. QED
    BY <2>1, <2>2, SameSteps, Zenon
<1>11. QED
  BY <1>3, <1>8, <1>9, <1>10, Zenon DEF T

\* An integer takes IntLen bytes.
LEMMA Int32Is ==
  ASSUME NEW n \in Nat
  PROVE  /\ Int32(n) \in Seq(Byte) /\ Len(Int32(n)) = IntLen
         /\ \A i \in 1..IntLen : Int32(n)[i] = (n \div Power[IntLen - i]) % Base
<1>1. ASSUME NEW i \in 1..IntLen PROVE (n \div Power[IntLen - i]) % Base \in Byte
  <2>1. IntLen - i \in 0..IntLen
    BY Constants, SMT
  <2>2. Power[IntLen - i] \in Nat /\ Power[IntLen - i] > 0
    BY <2>1, PowerIs, SMT
  <2>3. QED
    BY <2>2, Constants, SMT DEF Byte
<1>2. QED
  BY <1>1, Constants, SMT DEF Int32

\* The number that a sequence of bytes stands for.
Value(d) == FoldLeft(LAMBDA n, b : n * Base + b, 0, d)

\* A field stands for the number its bytes stand for.
LEMMA FieldIs == \A buf, i : Field(buf, i) = Value(SubSeq(buf, i * IntLen + 1, (i + 1) * IntLen))
BY Zenon DEF Field, Value

\* What FoldLeft asks of the function it chooses.
ValueWalk(g, d) ==
  g = [s \in SUBSET (DOMAIN d) |-> IF s = {} THEN 0 ELSE g[s \ {Max(s)}] * Base + d[Max(s)]]

\* The number grows digit by digit.
LEMMA ValueSteps ==
  ASSUME NEW d \in Seq(Byte)
  PROVE  \E r \in [0..Len(d) -> Nat] :
           /\ r[0] = 0
           /\ \A k \in 0..(Len(d) - 1) : r[k + 1] = r[k] * Base + d[k + 1]
           /\ Value(d) = r[Len(d)]
<1> DEFINE n == Len(d)
           F == [p \in Nat \X (1..n) |-> p[1] * Base + d[p[2]]]
<1>1. n \in Nat /\ DOMAIN d = 1..n /\ 0 \in Nat
  BY SMT
<1>2. F \in [Nat \X (1..n) -> Nat]
  <2>1. ASSUME NEW t \in Nat, NEW i \in 1..n PROVE t * Base + d[i] \in Nat
    <3>1. d[i] \in Nat
      <4>1. d[i] \in Byte
        BY <1>1
      <4>2. QED
        BY <4>1, SMT DEF Byte
    <3>2. QED
      BY <3>1, Constants, SMT
  <2>2. QED
    BY <2>1, Zenon
<1>3. \A t \in Nat, i \in 1..n : F[<<t, i>>] = t * Base + d[i]
  BY Zenon
<1> HIDE DEF F, n
<1>4. PICK f \in [SUBSET (1..n) -> Nat] : Walks(f, F, 0, n)
  BY <1>1, <1>2, WalkExists, Zenon
<1>5. ASSUME NEW s \in SUBSET (1..n)
      PROVE  f[s] = IF s = {} THEN 0 ELSE f[s \ {Max(s)}] * Base + d[Max(s)]
  <2>1. CASE s = {}
    BY <1>4, <2>1, Zenon DEF Walks
  <2>2. CASE s # {}
    <3>1. Max(s) \in s
      BY <2>2, <1>1, GreatestOf, Zenon
    <3>2. Max(s) \in 1..n /\ f[s \ {Max(s)}] \in Nat
      BY <3>1, <1>4, Zenon
    <3>3. f[s] = F[<<f[s \ {Max(s)}], Max(s)>>]
      BY <1>4, <2>2, Zenon DEF Walks
    <3>4. QED
      BY <1>3, <2>2, <3>2, <3>3, Zenon
  <2>3. QED
    BY <2>1, <2>2, Zenon
<1>6. ValueWalk(f, d)
  BY <1>1, <1>4, <1>5, Zenon DEF ValueWalk
<1>7. PICK g : ValueWalk(g, d) /\ Value(d) = g[DOMAIN d]
  BY <1>6, Zenon DEF ValueWalk, Value, FoldLeft, MapThenFoldSet
<1>8. \A s \in SUBSET (1..n) :
        g[s] = IF s = {} THEN 0 ELSE g[s \ {Max(s)}] * Base + d[Max(s)]
  BY <1>1, <1>7, Zenon DEF ValueWalk
<1> DEFINE r == [k \in 0..n |-> g[1..k]]
<1>9. r[0] = 0
  <2>1. 0 \in 0..n /\ 1..0 = {} /\ {} \in SUBSET (1..n)
    BY <1>1, SMT
  <2>2. QED
    BY <1>8, <2>1, Zenon
<1>10. ASSUME NEW k \in 0..(n - 1) PROVE r[k + 1] = r[k] * Base + d[k + 1]
  <2>1. k \in 0..n /\ k + 1 \in 0..n
    BY <1>1, SMT
  <2>2. g[1..(k + 1)] = g[1..k] * Base + d[k + 1]
    <3> DEFINE s == 1..(k + 1)
    <3>1. s \in SUBSET (1..n) /\ s # {} /\ Max(s) = k + 1 /\ s \ {k + 1} = 1..k
      BY <1>1, UpToNext, Zenon
    <3> HIDE DEF s
    <3>2. g[s] = g[s \ {Max(s)}] * Base + d[Max(s)]
      BY <1>8, <3>1, Zenon
    <3>3. QED
      BY <3>1, <3>2, Zenon DEF s
  <2>3. QED
    BY <2>1, <2>2, Zenon
<1>11. n \in 0..n /\ r[n] = Value(d)
  <2>1. n \in 0..n
    BY <1>1, SMT
  <2>2. QED
    BY <2>1, <1>1, <1>7, Zenon
<1>12. r \in [0..n -> Nat]
  <2> DEFINE S == {k \in Nat : r[k] \in Nat}
  <2>1. 0 \in S
    BY <1>9, SMT
  <2>2. ASSUME NEW k \in 0..(n - 1), k \in S PROVE k + 1 \in S
    <3>1. k + 1 \in 1..n /\ k + 1 \in Nat
      BY <1>1, SMT
    <3>2. d[k + 1] \in Nat
      <4>1. d[k + 1] \in Byte
        BY <1>1, <3>1
      <4>2. QED
        BY <4>1, SMT DEF Byte
    <3>3. r[k] \in Nat
      BY <2>2, Zenon
    <3> HIDE DEF r
    <3>4. r[k] * Base + d[k + 1] \in Nat
      BY <3>2, <3>3, Constants, SMT
    <3>5. QED
      BY <3>1, <3>4, <1>10, Zenon
  <2> HIDE DEF S
  <2>3. \A k \in 0..n : k \in S
    BY <1>1, <2>1, <2>2, UpToInduction, Zenon
  <2>4. \A k \in 0..n : r[k] \in Nat
    BY <2>3, Zenon DEF S
  <2>5. r = [k \in 0..n |-> r[k]]
    BY Zenon
  <2> HIDE DEF r
  <2>6. QED
    BY <2>4, <2>5, Zenon
<1> HIDE DEF r
<1>13. QED
  BY <1>9, <1>10, <1>11, <1>12, Zenon DEF n

\* An integer is read as it was written (MuduoBuffer::readInt32 of htonl).
LEMMA ValueOfInt32 ==
  ASSUME NEW n \in Nat, n < Power[IntLen]
  PROVE  Value(Int32(n)) = n
<1> DEFINE d == Int32(n)
           q == [k \in 0..IntLen |-> n \div Power[IntLen - k]]
<1>1. /\ d \in Seq(Byte) /\ Len(d) = IntLen
      /\ \A i \in 1..IntLen : d[i] = (n \div Power[IntLen - i]) % Base
  BY Int32Is, Zenon
<1> HIDE DEF d
<1>2. PICK r \in [0..IntLen -> Nat] :
           /\ r[0] = 0
           /\ \A k \in 0..(IntLen - 1) : r[k + 1] = r[k] * Base + d[k + 1]
           /\ Value(d) = r[IntLen]
  BY <1>1, ValueSteps, Zenon
<1>3. \A k \in 0..IntLen : q[k] = n \div Power[IntLen - k]
  BY Zenon
<1> HIDE DEF q
<1>4. q[0] = 0
  <2>1. IntLen - 0 = IntLen /\ IntLen \in 0..IntLen /\ 0 \in 0..IntLen
    BY Constants, SMT
  <2>2. Power[IntLen] \in Nat /\ Power[IntLen] > 0
    BY <2>1, PowerIs, SMT
  <2>3. n \div Power[IntLen] = 0
    BY <2>2, SMT
  <2>4. QED
    BY <1>3, <2>1, <2>3, Zenon
<1>5. ASSUME NEW k \in 0..(IntLen - 1) PROVE q[k + 1] = q[k] * Base + d[k + 1]
  <2> DEFINE j == IntLen - (k + 1)
  <2>1. /\ j \in 0..(IntLen - 1) /\ j \in 0..IntLen /\ j + 1 = IntLen - k
        /\ k \in 0..IntLen /\ k + 1 \in 0..IntLen /\ k + 1 \in 1..IntLen
    BY Constants, SMT
  <2>2. Power[j + 1] = Base * Power[j] /\ Power[j] \in Nat /\ Power[j] > 0
    BY <2>1, PowerIs, SMT
  <2>3. q[k] = n \div Power[j + 1] /\ q[k + 1] = n \div Power[j]
    BY <1>3, <2>1, Zenon
  <2>4. d[k + 1] = (n \div Power[j]) % Base
    BY <1>1, <2>1, Zenon
  <2> HIDE DEF j
  <2> DEFINE p == Power[j]
             a == n \div p
  <2>5. p \in Nat /\ p > 0 /\ a \in Nat
    BY <2>2, SMT
  <2>6. n \div (Base * p) = a \div Base
    <3> HIDE DEF p
    <3>1. (n \div p) \div Base = n \div (p * Base)
      BY <2>5, Constants, SMTT(40)
    <3>2. p * Base = Base * p
      BY <2>5, Constants, SMT
    <3>3. QED
      BY <3>1, <3>2, Zenon
  <2>7. a = (a \div Base) * Base + (a % Base)
    <3> HIDE DEF a
    <3>1. QED
      BY <2>5, Constants, SMT
  <2>8. q[k] = a \div Base /\ q[k + 1] = a /\ d[k + 1] = a % Base
    BY <2>2, <2>3, <2>4, <2>6, Zenon
  <2>9. QED
    BY <2>7, <2>8, Zenon
<1>6. \A k \in 0..IntLen : r[k] = q[k]
  <2>1. \A k \in 0..(IntLen - 1) : r[k] = q[k] => r[k + 1] = q[k + 1]
    BY <1>2, <1>5, Zenon
  <2>2. IntLen \in Nat /\ r[0] = q[0]
    BY Constants, <1>2, <1>4, Zenon
  <2>3. QED
    BY <2>1, <2>2, SameSteps, Zenon
<1>7. q[IntLen] = n
  <2>1. IntLen \in 0..IntLen /\ IntLen - IntLen = 0
    BY Constants, SMT
  <2>2. q[IntLen] = n \div 1
    BY <1>3, <2>1, PowerIs, Zenon
  <2>3. n \div 1 = n
    BY SMT
  <2>4. QED
    BY <2>2, <2>3, Zenon
<1>8. IntLen \in 0..IntLen
  BY Constants, SMT
<1>9. Value(d) = n
  BY <1>2, <1>6, <1>7, <1>8, Zenon
<1>10. QED
  BY <1>9, Zenon DEF d

-----------------------------------------------------------------------------
(* A message and its bytes.                                                *)

\* What a message that may be sent is.
LEMMA MessageIs ==
  ASSUME NEW m \in Message
  PROVE  /\ m = [type |-> m.type, id |-> m.id, body |-> m.body]
         /\ m.type \in Nat /\ m.id \in Seq(Byte) /\ m.body \in Seq(Byte)
         /\ m.type < Power[IntLen] /\ Len(Serialize(m)) < Power[IntLen]
<1>1. m \in [type : Nat, id : Seq(Byte), body : Seq(Byte)]
  BY ConnectionAssumption
<1>2. QED
  BY <1>1, ConnectionAssumption, Zenon

\* Where in the bytes of a message its parts are.
LEMMA SerializeIs ==
  ASSUME NEW m \in Message
  PROVE  /\ Serialize(m) \in Seq(Byte)
         /\ Len(Serialize(m)) = 3 * IntLen + Len(m.id) + Len(m.body)
         /\ \A j \in 1..IntLen :
              /\ Serialize(m)[j] = Int32(2 * IntLen + Len(m.id) + Len(m.body))[j]
              /\ Serialize(m)[IntLen + j] = Int32(m.type)[j]
              /\ Serialize(m)[2 * IntLen + j] = Int32(Len(m.id))[j]
         /\ \A j \in 1..Len(m.id) : Serialize(m)[3 * IntLen + j] = m.id[j]
         /\ \A j \in 1..Len(m.body) : Serialize(m)[3 * IntLen + Len(m.id) + j] = m.body[j]
<1> DEFINE a == Int32(2 * IntLen + Len(m.id) + Len(m.body))
           b == Int32(m.type)
           c == Int32(Len(m.id))
           d == m.id
           e == m.body
           s == a \o b
           t == s \o c
           u == t \o d
           v == u \o e
<1>1. d \in Seq(Byte) /\ e \in Seq(Byte) /\ m.type \in Nat
  BY MessageIs, Zenon
<1>2. Len(d) \in Nat /\ Len(e) \in Nat
  BY <1>1, SMT
<1>3. 2 * IntLen + Len(d) + Len(e) \in Nat
  <2> HIDE DEF d, e
  <2>1. QED
    BY <1>2, Constants, SMT
<1>4. a \in Seq(Byte) /\ Len(a) = IntLen
  BY <1>3, Int32Is, Zenon
<1>5. b \in Seq(Byte) /\ Len(b) = IntLen
  BY <1>1, Int32Is, Zenon
<1>6. c \in Seq(Byte) /\ Len(c) = IntLen
  BY <1>2, Int32Is, Zenon
<1>7. Serialize(m) = v
  BY Zenon DEF Serialize
<1> HIDE DEF a, b, c, d, e
<1>8. /\ s \in Seq(Byte) /\ Len(s) = Len(a) + Len(b)
      /\ \A i \in 1..Len(a) : s[i] = a[i]
      /\ \A i \in 1..Len(b) : s[Len(a) + i] = b[i]
  BY <1>4, <1>5, SMT
<1> HIDE DEF s
<1>9. /\ t \in Seq(Byte) /\ Len(t) = Len(s) + Len(c)
      /\ \A i \in 1..Len(s) : t[i] = s[i]
      /\ \A i \in 1..Len(c) : t[Len(s) + i] = c[i]
  <2>1. s \in Seq(Byte) /\ c \in Seq(Byte)
    BY <1>6, <1>8
  <2>2. QED
    BY <2>1, SMT
<1> HIDE DEF t
<1>10. /\ u \in Seq(Byte) /\ Len(u) = Len(t) + Len(d)
       /\ \A i \in 1..Len(t) : u[i] = t[i]
       /\ \A i \in 1..Len(d) : u[Len(t) + i] = d[i]
  <2>1. t \in Seq(Byte) /\ d \in Seq(Byte)
    BY <1>1, <1>9
  <2>2. QED
    BY <2>1, SMT
<1> HIDE DEF u
<1>11. /\ v \in Seq(Byte) /\ Len(v) = Len(u) + Len(e)
       /\ \A i \in 1..Len(u) : v[i] = u[i]
       /\ \A i \in 1..Len(e) : v[Len(u) + i] = e[i]
  <2>1. u \in Seq(Byte) /\ e \in Seq(Byte)
    BY <1>1, <1>10
  <2>2. QED
    BY <2>1, SMT
<1> HIDE DEF v
<1>12. /\ Len(s) = 2 * IntLen /\ Len(t) = 3 * IntLen /\ Len(u) = 3 * IntLen + Len(d)
       /\ Len(v) = 3 * IntLen + Len(d) + Len(e)
  BY <1>2, <1>4, <1>5, <1>6, <1>8, <1>9, <1>10, <1>11, Constants, SMT
<1>13. ASSUME NEW j \in 1..IntLen
       PROVE  v[j] = a[j] /\ v[IntLen + j] = b[j] /\ v[2 * IntLen + j] = c[j]
  <2>1. /\ j \in 1..Len(a) /\ j \in 1..Len(b) /\ j \in 1..Len(c)
        /\ j \in 1..Len(s) /\ j \in 1..Len(t) /\ j \in 1..Len(u)
        /\ Len(a) + j \in 1..Len(s) /\ Len(a) + j \in 1..Len(t) /\ Len(a) + j \in 1..Len(u)
        /\ Len(s) + j \in 1..Len(t) /\ Len(s) + j \in 1..Len(u)
    BY <1>2, <1>4, <1>5, <1>6, <1>12, Constants, SMT
  <2>2. v[j] = a[j]
    BY <2>1, <1>8, <1>9, <1>10, <1>11, Zenon
  <2>3. v[Len(a) + j] = b[j]
    BY <2>1, <1>8, <1>9, <1>10, <1>11, ZenonT(40)
  <2>4. v[Len(s) + j] = c[j]
    BY <2>1, <1>9, <1>10, <1>11, Zenon
  <2>5. QED
    BY <2>2, <2>3, <2>4, <1>4, <1>12, Zenon
<1>14. ASSUME NEW j \in 1..Len(d) PROVE v[3 * IntLen + j] = d[j]
  <2>1. Len(t) + j \in 1..Len(u)
    BY <1>2, <1>12, Constants, SMT
  <2>2. v[Len(t) + j] = d[j]
    BY <2>1, <1>10, <1>11, Zenon
  <2>3. QED
    BY <2>2, <1>12, Zenon
<1>15. ASSUME NEW j \in 1..Len(e) PROVE v[3 * IntLen + Len(d) + j] = e[j]
  BY <1>11, <1>12, Zenon
<1>16. QED
  BY <1>7, <1>11, <1>12, <1>13, <1>14, <1>15, Zenon DEF a, b, c, d, e

\* A field whose bytes are those of n is n.
LEMMA FieldOfInt32 ==
  ASSUME NEW buf \in Seq(Byte), NEW i \in {0, 1, 2}, NEW n \in Nat, n < Power[IntLen],
         (i + 1) * IntLen <= Len(buf),
         \A j \in 1..IntLen : buf[i * IntLen + j] = Int32(n)[j]
  PROVE  Field(buf, i) = n
<1> DEFINE p == i * IntLen
           q == (i + 1) * IntLen
           s == SubSeq(buf, p + 1, q)
<1>1. p \in Nat /\ q \in Nat /\ q - p = IntLen /\ p <= q
  BY Constants, SMT
<1>2. q <= Len(buf) /\ \A j \in 1..IntLen : buf[p + j] = Int32(n)[j]
  BY Zenon
<1>3. Field(buf, i) = Value(s)
  BY FieldIs, Zenon
<1> HIDE DEF p, q
<1>4. s \in Seq(Byte) /\ Len(s) = q - p /\ \A j \in 1..(q - p) : s[j] = buf[p + j]
  BY <1>1, <1>2, SubSeqIs, SMT
<1> HIDE DEF s
<1>5. Int32(n) \in Seq(Byte) /\ Len(Int32(n)) = IntLen
  BY Int32Is, Zenon
<1>6. Len(s) = Len(Int32(n)) /\ \A j \in 1..Len(s) : s[j] = Int32(n)[j]
  BY <1>1, <1>2, <1>4, <1>5, Zenon
<1>7. s = Int32(n)
  BY <1>4, <1>5, <1>6, SameSeq, Zenon
<1>8. QED
  BY <1>3, <1>7, ValueOfInt32, Zenon

\* The buffer begins with the bytes of m, as far as it goes.
Starts(buf, m) ==
  \A j \in 1..Len(Serialize(m)) : j <= Len(buf) => buf[j] = Serialize(m)[j]

\* The first field tells how long the first message is, before all of it is
\* there.
LEMMA LengthRead ==
  ASSUME NEW m \in Message, NEW buf \in Seq(Byte), Starts(buf, m), Len(buf) >= IntLen
  PROVE  Field(buf, 0) = Len(Serialize(m)) - IntLen
<1> DEFINE L == Len(Serialize(m))
           k == Len(m.id)
           b == Len(m.body)
           n == 2 * IntLen + k + b
<1>1. m.id \in Seq(Byte) /\ m.body \in Seq(Byte) /\ L < Power[IntLen]
  BY MessageIs, Zenon
<1>2. k \in Nat /\ b \in Nat
  BY <1>1, SMT
<1>3. L = 3 * IntLen + k + b
  BY SerializeIs, Zenon
<1>4. \A j \in 1..IntLen : Serialize(m)[j] = Int32(n)[j]
  BY SerializeIs, Zenon
<1>5. Power[IntLen] \in Nat
  <2>1. IntLen \in 0..IntLen
    BY Constants, SMT
  <2>2. QED
    BY <2>1, PowerIs
<1> HIDE DEF L, k, b
<1>6. n \in Nat /\ n < Power[IntLen] /\ n = L - IntLen
  BY <1>1, <1>2, <1>3, <1>5, Constants, SMT
<1> HIDE DEF n
<1>7. \A j \in 1..IntLen : buf[0 * IntLen + j] = Int32(n)[j]
  <2>1. ASSUME NEW j \in 1..IntLen PROVE buf[0 * IntLen + j] = Int32(n)[j]
    <3>1. j \in 1..L /\ j <= Len(buf) /\ 0 * IntLen + j = j
      BY <1>2, <1>3, Constants, SMT
    <3>2. QED
      BY <3>1, <1>4, Zenon DEF Starts, L
  <2>2. QED
    BY <2>1, Zenon
<1>8. 0 \in {0, 1, 2} /\ (0 + 1) * IntLen <= Len(buf)
  BY Constants, SMT
<1>9. QED
  BY <1>6, <1>7, <1>8, FieldOfInt32, Zenon DEF L

\* A buffer that begins with a whole message gives that message.
LEMMA MessageRead ==
  ASSUME NEW m \in Message, NEW buf \in Seq(Byte), Starts(buf, m),
         Len(buf) >= Len(Serialize(m))
  PROVE  RecieveAmessage(buf) =
           [msg |-> m, rest |-> SubSeq(buf, Len(Serialize(m)) + 1, Len(buf))]
<1> DEFINE I == IntLen
           L == Len(Serialize(m))
           k == Len(m.id)
           b == Len(m.body)
<1>1. m.id \in Seq(Byte) /\ m.body \in Seq(Byte) /\ L < Power[I] /\ m.type \in Nat
      /\ m.type < Power[I] /\ m = [type |-> m.type, id |-> m.id, body |-> m.body]
  BY MessageIs, Zenon
<1>2. k \in Nat /\ b \in Nat /\ Len(buf) \in Nat
  BY <1>1, SMT
<1>3. L = 3 * I + k + b
  BY SerializeIs, Zenon
<1>L. L = Len(Serialize(m)) /\ k = Len(m.id) /\ b = Len(m.body)
  OBVIOUS
<1>B. Len(buf) >= L
  OBVIOUS
<1> HIDE DEF L, k, b
<1>4. \A j \in 1..L : buf[j] = Serialize(m)[j]
  <2>1. \A j \in 1..L : j <= Len(buf)
    BY <1>2, <1>3, <1>B, Constants, SMT
  <2>2. QED
    BY <2>1, <1>L, Zenon DEF Starts
<1>5. Power[I] \in Nat
  <2>1. I \in 0..IntLen
    BY Constants, SMT
  <2>2. QED
    BY <2>1, PowerIs
<1>6. I \in Nat /\ I > 0 /\ k < Power[I] /\ I <= Len(buf) /\ 2 * I <= Len(buf) /\ 3 * I <= Len(buf)
  BY <1>1, <1>2, <1>3, <1>5, <1>B, Constants, SMTT(40)
<1>7. Field(buf, 0) = L - I
  <2>1. Len(buf) >= IntLen
    BY <1>6, <1>2, SMT
  <2>2. QED
    BY <2>1, LengthRead, Zenon DEF L
<1>8. Field(buf, 1) = m.type
  <2>1. ASSUME NEW j \in 1..I PROVE buf[1 * I + j] = Int32(m.type)[j]
    <3>1. I + j \in 1..L /\ 1 * I + j = I + j
      BY <1>2, <1>3, <1>6, SMT
    <3>2. Serialize(m)[I + j] = Int32(m.type)[j]
      BY SerializeIs, <1>L, Zenon
    <3>3. QED
      BY <3>1, <3>2, <1>4, Zenon
  <2>2. 1 \in {0, 1, 2} /\ (1 + 1) * I <= Len(buf)
    BY <1>6, SMT
  <2>3. QED
    BY <2>1, <2>2, <1>1, FieldOfInt32, Zenon
<1>9. Field(buf, 2) = k
  <2>1. ASSUME NEW j \in 1..I PROVE buf[2 * I + j] = Int32(k)[j]
    <3>1. 2 * I + j \in 1..L
      BY <1>2, <1>3, <1>6, SMT
    <3>2. Serialize(m)[2 * I + j] = Int32(k)[j]
      BY SerializeIs, <1>L, Zenon
    <3>3. QED
      BY <3>1, <3>2, <1>4, Zenon
  <2>2. 2 \in {0, 1, 2} /\ (2 + 1) * I <= Len(buf)
    BY <1>6, SMT
  <2>3. QED
    BY <2>1, <2>2, <1>2, <1>6, FieldOfInt32, Zenon
<1> DEFINE start == 3 * I + k
           id == SubSeq(buf, 3 * I + 1, start)
           body == SubSeq(buf, start + 1, L)
<1>10. id = m.id
  <2>1. 3 * I \in Nat /\ start \in Nat /\ 3 * I <= start /\ start <= Len(buf) /\ start - 3 * I = k
    BY <1>2, <1>3, <1>6, <1>B, SMT
  <2> HIDE DEF start
  <2>2. id \in Seq(Byte) /\ Len(id) = start - 3 * I
        /\ \A j \in 1..(start - 3 * I) : id[j] = buf[3 * I + j]
    BY <2>1, SubSeqIs, Zenon
  <2>3. ASSUME NEW j \in 1..k PROVE buf[3 * I + j] = m.id[j]
    <3>1. 3 * I + j \in 1..L
      BY <1>2, <1>3, <1>6, SMT
    <3>2. Serialize(m)[3 * I + j] = m.id[j]
      BY SerializeIs, <1>L, Zenon
    <3>3. QED
      BY <3>1, <3>2, <1>4, Zenon
  <2> HIDE DEF id
  <2>4. Len(id) = Len(m.id) /\ \A j \in 1..Len(id) : id[j] = m.id[j]
    BY <2>1, <2>2, <2>3, <1>L, Zenon
  <2>5. QED
    BY <2>2, <2>4, <1>1, SameSeq, Zenon
<1>11. body = m.body
  <2>1. start \in Nat /\ L \in Nat /\ start <= L /\ L <= Len(buf) /\ L - start = b
    BY <1>2, <1>3, <1>6, <1>B, SMT
  <2>a. \A j \in 1..b : start + j \in 1..L
    BY <1>2, <1>3, <1>6, SMT
  <2>b. \A j \in 1..b : Serialize(m)[start + j] = m.body[j]
    BY SerializeIs, <1>L, Zenon
  <2> HIDE DEF start
  <2>2. body \in Seq(Byte) /\ Len(body) = L - start
        /\ \A j \in 1..(L - start) : body[j] = buf[start + j]
    BY <2>1, SubSeqIs, Zenon
  <2>3. ASSUME NEW j \in 1..b PROVE buf[start + j] = m.body[j]
    BY <2>a, <2>b, <1>4, Zenon
  <2> HIDE DEF body
  <2>4. Len(body) = Len(m.body) /\ \A j \in 1..Len(body) : body[j] = m.body[j]
    BY <2>1, <2>2, <2>3, <1>L, Zenon
  <2>5. QED
    BY <2>2, <2>4, <1>1, SameSeq, Zenon
<1>12. I + (L - I) = L
  BY <1>2, <1>3, <1>6, SMT
<1>13. RecieveAmessage(buf) =
         [msg  |-> [type |-> m.type, id |-> id, body |-> body],
          rest |-> SubSeq(buf, L + 1, Len(buf))]
  BY <1>7, <1>8, <1>9, <1>12, Zenon DEF RecieveAmessage
<1>14. QED
  BY <1>1, <1>10, <1>11, <1>13, <1>L, Zenon

\* A message is read off the bytes it was written as, whatever follows them
\* (RpcProtocol::serialize and recieveAmessage, network.hpp:80-131).
THEOREM FramingRoundTrip ==
  ASSUME NEW m \in Message, NEW rest \in Seq(Byte)
  PROVE  /\ CanProceed(Serialize(m) \o rest)
         /\ RecieveAmessage(Serialize(m) \o rest) = [msg |-> m, rest |-> rest]
<1> DEFINE s == Serialize(m)
           buf == s \o rest
           k == Len(m.id)
           b == Len(m.body)
<1>1. s \in Seq(Byte) /\ Len(s) = 3 * IntLen + k + b
  BY SerializeIs, Zenon
<1>2. k \in Nat /\ b \in Nat /\ Len(rest) \in Nat
  <2>1. m.id \in Seq(Byte) /\ m.body \in Seq(Byte)
    BY MessageIs, Zenon
  <2>2. QED
    BY <2>1, SMT
<1>s. s = Serialize(m)
  OBVIOUS
<1> HIDE DEF s, k, b
<1>3. /\ buf \in Seq(Byte) /\ Len(buf) = Len(s) + Len(rest)
      /\ \A i \in 1..Len(s) : buf[i] = s[i]
      /\ \A i \in 1..Len(rest) : buf[Len(s) + i] = rest[i]
  <2>1. s \in Seq(Byte)
    BY <1>1
  <2>2. QED
    BY <2>1, SMT
<1>4. Starts(buf, m)
  BY <1>3, <1>s, Zenon DEF Starts
<1> HIDE DEF buf
<1>5. Len(buf) >= IntLen /\ Len(buf) >= Len(s)
  BY <1>1, <1>2, <1>3, Constants, SMT
<1>6. CanProceed(buf)
  <2>1. Field(buf, 0) = Len(s) - IntLen
    BY <1>3, <1>4, <1>5, <1>s, LengthRead, Zenon
  <2>2. Len(buf) >= (Len(s) - IntLen) + IntLen
    BY <1>1, <1>2, <1>5, Constants, SMT
  <2>3. QED
    BY <2>1, <2>2, <1>5, Zenon DEF CanProceed
<1>7. RecieveAmessage(buf) = [msg |-> m, rest |-> SubSeq(buf, Len(s) + 1, Len(buf))]
  BY <1>3, <1>4, <1>5, <1>s, MessageRead, Zenon
<1>8. SubSeq(buf, Len(s) + 1, Len(buf)) = rest
  <2> DEFINE t == SubSeq(buf, Len(s) + 1, Len(buf))
             n == Len(s)
             l == Len(buf)
  <2>1. n \in Nat /\ l \in Nat /\ n <= l /\ l - n = Len(rest)
    BY <1>1, <1>2, <1>3, Constants, SMT
  <2>2. t \in Seq(Byte) /\ Len(t) = l - n /\ \A j \in 1..(l - n) : t[j] = buf[n + j]
    BY <2>1, <1>3, SubSeqIs, SMT
  <2> HIDE DEF t
  <2>3. Len(t) = Len(rest) /\ \A j \in 1..Len(t) : t[j] = rest[j]
    BY <2>1, <2>2, <1>3, Zenon
  <2>4. t = rest
    BY <2>2, <2>3, SameSeq, Zenon
  <2>5. QED
    BY <2>4, Zenon DEF t
<1>9. QED
  BY <1>6, <1>7, <1>8, <1>s, Zenon DEF buf

-----------------------------------------------------------------------------
(* Pieces put one after the other.                                         *)

\* off[i] is where the i-th of the pieces p ends when they are put one after
\* the other.
Offsets(off, p) ==
  /\ off \in [0..Len(p) -> Nat]
  /\ off[0] = 0
  /\ \A i \in 1..Len(p) : off[i] = off[i - 1] + Len(p[i])
  /\ \A i, j \in 0..Len(p) : i <= j => off[i] <= off[j]

\* x begins where the k-th piece ends and agrees with the pieces as far as it
\* goes.
Agree(x, off, n, p, k) ==
  \A i \in (k + 1)..n : \A j \in 1..(off[i] - off[i - 1]) :
    (off[i - 1] - off[k]) + j <= Len(x) => x[(off[i - 1] - off[k]) + j] = p[i][j]

\* x is a beginning of what follows the k-th piece, and if all, all of it.
Follows(x, p, k, all) ==
  /\ k \in 0..Len(p)
  /\ \E off : /\ Offsets(off, p)
              /\ Agree(x, off, Len(p), p, k)
              /\ off[k] + Len(x) <= off[Len(p)]
              /\ all => off[k] + Len(x) = off[Len(p)]

\* No pieces, no bytes.
LEMMA NothingFollows ==
  ASSUME NEW all
  PROVE  Follows(<<>>, <<>>, 0, all)
<1> DEFINE off == [i \in 0..0 |-> 0]
<1>1. Offsets(off, <<>>)
  BY SMT DEF Offsets
<1>2. Agree(<<>>, off, Len(<<>>), <<>>, 0)
  BY SMT DEF Agree
<1>3. off[0] + Len(<<>>) = off[Len(<<>>)] /\ off[0] + Len(<<>>) <= off[Len(<<>>)] /\ 0 \in 0..Len(<<>>)
  BY SMT
<1> HIDE DEF off
<1>4. QED
  BY <1>1, <1>2, <1>3, Zenon DEF Follows

\* One more piece, with or without its bytes.
LEMMA OneMore ==
  ASSUME NEW p \in Seq(Seq(Byte)), NEW c \in Seq(Byte), NEW q \in Seq(Seq(Byte)),
         Len(q) = Len(p) + 1, \A i \in 1..Len(p) : q[i] = p[i], q[Len(p) + 1] = c,
         NEW x \in Seq(Byte), NEW y \in Seq(Byte), NEW k, NEW all, Follows(x, p, k, all),
         \/ y = x /\ ~all
         \/ all /\ Len(y) = Len(x) + Len(c) /\ (\A i \in 1..Len(x) : y[i] = x[i])
                /\ \A i \in 1..Len(c) : y[Len(x) + i] = c[i]
  PROVE  Follows(y, q, k, all)
<1> DEFINE n == Len(p)
           lc == Len(c)
           lx == Len(x)
           ly == Len(y)
<1>1. PICK off : /\ Offsets(off, p)
                 /\ Agree(x, off, n, p, k)
                 /\ off[k] + lx <= off[n]
                 /\ all => off[k] + lx = off[n]
  BY Zenon DEF Follows
<1>2. k \in 0..n /\ n \in Nat /\ lc \in Nat /\ lx \in Nat /\ ly \in Nat
  BY SMT DEF Follows
<1>3. Len(q) = n + 1 /\ (\A i \in 1..n : q[i] = p[i]) /\ q[n + 1] = c
      /\ \/ y = x /\ ~all
         \/ all /\ ly = lx + lc /\ (\A i \in 1..lx : y[i] = x[i])
                /\ \A i \in 1..lc : y[lx + i] = c[i]
  BY Zenon
<1>lc. lc = Len(c)
  OBVIOUS
<1>lx. lx = Len(x)
  OBVIOUS
<1>ly. ly = Len(y)
  OBVIOUS
<1>4. /\ off \in [0..n -> Nat] /\ off[0] = 0
      /\ \A i \in 1..n : off[i] = off[i - 1] + Len(p[i])
      /\ \A i, j \in 0..n : i <= j => off[i] <= off[j]
  BY <1>1, Zenon DEF Offsets
<1> HIDE DEF n, lc, lx, ly
<1> DEFINE new == [i \in 0..(n + 1) |-> IF i <= n THEN off[i] ELSE off[n] + lc]
<1>5. new \in [0..(n + 1) -> Nat]
  <2>1. \A i \in 0..n : off[i] \in Nat
    BY <1>4, Zenon
  <2>2. \A i \in 0..(n + 1) : i <= n => i \in 0..n
    BY <1>2, SMT
  <2>3. off[n] + lc \in Nat
    BY <2>1, <1>2, SMT
  <2>4. QED
    BY <2>1, <2>2, <2>3, Zenon
<1>6. (\A i \in 0..n : new[i] = off[i]) /\ new[n + 1] = off[n] + lc
  <2>1. \A i \in 0..n : i \in 0..(n + 1) /\ i <= n
    BY <1>2, SMT
  <2>2. n + 1 \in 0..(n + 1) /\ ~(n + 1 <= n)
    BY <1>2, SMT
  <2>3. QED
    BY <2>1, <2>2, Zenon
<1> HIDE DEF new
<1>7. Offsets(new, q)
  <2>1. new[0] = 0
    BY <1>2, <1>4, <1>6, SMT
  <2>2. ASSUME NEW i \in 1..(n + 1) PROVE new[i] = new[i - 1] + Len(q[i])
    <3>1. CASE i = n + 1
      <4>1. q[i] = c /\ new[i] = off[n] + lc /\ i - 1 = n /\ n \in 0..n
        BY <3>1, <1>2, <1>3, <1>6, SMT
      <4>2. QED
        BY <4>1, <1>6, <1>lc, Zenon
    <3>2. CASE i # n + 1
      <4>0. i <= n /\ i >= 1 /\ i \in Int
        BY <3>2, <1>2, SMT
      <4>1. i \in 1..n /\ i - 1 \in 0..n /\ i \in 0..n
        BY <4>0, <1>2, SMT
      <4>2. QED
        BY <4>1, <1>3, <1>4, <1>6, Zenon
    <3>3. QED
      BY <3>1, <3>2, Zenon
  <2>3. ASSUME NEW i \in 0..(n + 1), NEW j \in 0..(n + 1), i <= j PROVE new[i] <= new[j]
    <3>1. CASE j = n + 1
      <4>1. CASE i = n + 1
        <5>1. new[i] \in Nat
          BY <1>5, Zenon
        <5>2. QED
          BY <3>1, <4>1, <5>1, SMT
      <4>2. CASE i # n + 1
        <5>1. i \in 0..n /\ n \in 0..n /\ i <= n
          BY <4>2, <1>2, SMT
        <5>2. off[i] <= off[n] /\ off[i] \in Nat /\ off[n] \in Nat /\ new[i] = off[i]
              /\ new[j] = off[n] + lc
          BY <5>1, <3>1, <1>4, <1>6, Zenon
        <5>3. QED
          BY <5>2, <1>2, SMT
      <4>3. QED
        BY <4>1, <4>2, Zenon
    <3>2. CASE j # n + 1
      <4>1. i \in 0..n /\ j \in 0..n
        BY <3>2, <2>3, <1>2, SMT
      <4>2. QED
        BY <4>1, <2>3, <1>4, <1>6, Zenon
    <3>3. QED
      BY <3>1, <3>2, Zenon
  <2>4. QED
    BY <1>3, <1>5, <2>1, <2>2, <2>3, Zenon DEF Offsets
<1>8. k \in 0..(n + 1) /\ k \in 0..n /\ n \in 0..n
  BY <1>2, SMT
<1>9. off[k] \in Nat /\ off[n] \in Nat /\ new[k] = off[k] /\ new[n + 1] = off[n] + lc
  BY <1>8, <1>4, <1>6, Zenon
<1>10. new[k] + ly <= new[n + 1] /\ (all => new[k] + ly = new[n + 1])
  <2>1. CASE y = x /\ ~all
    <3>1. ly = lx
      BY <2>1, <1>lx, <1>ly, Zenon
    <3>2. QED
      BY <2>1, <3>1, <1>1, <1>2, <1>9, SMT
  <2>2. CASE all /\ ly = lx + lc
    <3>1. off[k] + lx = off[n]
      BY <2>2, <1>1, Zenon
    <3>2. new[k] + ly = new[n + 1]
      BY <2>2, <3>1, <1>2, <1>9, SMT
    <3>3. new[k] + ly <= new[n + 1]
      BY <3>2, <1>2, <1>9, SMT
    <3>4. QED
      BY <3>2, <3>3, Zenon
  <2>3. QED
    BY <2>1, <2>2, <1>3, Zenon
<1>11. Agree(y, new, n + 1, q, k)
  <2> SUFFICES ASSUME NEW i \in (k + 1)..(n + 1), NEW j \in 1..(new[i] - new[i - 1]),
                      (new[i - 1] - new[k]) + j <= Len(y)
               PROVE  y[(new[i - 1] - new[k]) + j] = q[i][j]
    BY Zenon DEF Agree
  <2>1. CASE i \in (k + 1)..n
    <3>1. i \in 0..n /\ i - 1 \in 0..n /\ i \in 1..n /\ k <= i - 1
      BY <2>1, <1>2, SMT
    <3>2. new[i] = off[i] /\ new[i - 1] = off[i - 1] /\ off[i] \in Nat /\ off[i - 1] \in Nat
          /\ off[k] <= off[i - 1] /\ off[i] <= off[n]
      <4>1. i <= n
        BY <2>1, <1>2, SMT
      <4>2. QED
        BY <3>1, <4>1, <1>4, <1>6, <1>8, Zenon
    <3>3. (off[i - 1] - off[k]) + j \in 1..lx
      <4> DEFINE A == off[i - 1]
                 B == off[k]
                 C == off[i]
                 D == off[n]
      <4>0. A \in Nat /\ B \in Nat /\ C \in Nat /\ D \in Nat /\ B <= A /\ C <= D
            /\ j \in 1..(C - A) /\ B + lx <= D /\ lx \in Nat
        BY <3>2, <1>1, <1>2, <1>9, Zenon
      <4>h. (A - B) + j <= ly
        BY <3>2, <1>9, <1>ly, Zenon
      <4>g. (all => B + lx = D)
        BY <1>1, Zenon
      <4> HIDE DEF A, B, C, D
      <4>2. CASE y = x
        <5>1. (A - B) + j <= lx
          BY <4>2, <4>h, <1>lx, <1>ly, Zenon
        <5>2. (A - B) + j \in 1..lx
          BY <5>1, <4>0, SMT
        <5>3. QED
          BY <5>2, Zenon DEF A, B
      <4>3. CASE all
        <5>1. B + lx = D
          BY <4>3, <4>g, Zenon
        <5>2. (A - B) + j \in 1..lx
          BY <5>1, <4>0, SMT
        <5>3. QED
          BY <5>2, Zenon DEF A, B
      <4>4. QED
        BY <4>2, <4>3, <1>3, Zenon
    <3>4. y[(off[i - 1] - off[k]) + j] = x[(off[i - 1] - off[k]) + j]
      BY <3>3, <1>3, Zenon
    <3>5. (off[i - 1] - off[k]) + j <= lx /\ j \in 1..(off[i] - off[i - 1])
      BY <3>2, <3>3, <1>2, SMT
    <3>6. x[(off[i - 1] - off[k]) + j] = p[i][j]
      BY <2>1, <3>5, <1>1, <1>lx, Zenon DEF Agree
    <3>7. QED
      BY <3>1, <3>2, <3>4, <3>6, <1>3, <1>9, Zenon
  <2>2. CASE i = n + 1
    <3>1. i - 1 = n /\ new[i] = off[n] + lc /\ new[i - 1] = off[n]
      BY <2>2, <1>2, <1>6, <1>8, SMT
    <3>2. j \in Nat /\ j >= 1 /\ j <= lc
      BY <3>1, <1>2, <1>9, SMT
    <3>3. CASE y = x /\ ~all
      <4>1. (off[n] - off[k]) + j <= lx
        <5>1. ly = lx
          BY <3>3, <1>lx, <1>ly, Zenon
        <5>2. (new[i - 1] - new[k]) + j <= ly
          BY <1>ly, Zenon
        <5>3. QED
          BY <5>1, <5>2, <3>1, <1>9, Zenon
      <4>2. off[k] + lx <= off[n]
        BY <1>1, Zenon
      <4>3. FALSE
        <5> DEFINE A == off[n]
                   B == off[k]
        <5>1. /\ A \in Nat /\ B \in Nat /\ lx \in Nat /\ j \in Nat /\ j >= 1
              /\ (A - B) + j <= lx /\ B + lx <= A
          BY <4>1, <4>2, <3>2, <1>2, <1>9, Zenon
        <5> HIDE DEF A, B
        <5>2. QED
          BY <5>1, SMT
      <4>4. QED
        BY <4>3, Zenon
    <3>4. CASE all /\ ly = lx + lc /\ \A a \in 1..lc : y[lx + a] = c[a]
      <4>1. off[k] + lx = off[n]
        BY <3>4, <1>1, Zenon
      <4>2. (off[n] - off[k]) + j = lx + j /\ j \in 1..lc
        <5> DEFINE A == off[n]
                   B == off[k]
        <5>1. /\ A \in Nat /\ B \in Nat /\ lx \in Nat /\ lc \in Nat
              /\ j \in Nat /\ j >= 1 /\ j <= lc /\ B + lx = A
          BY <4>1, <3>2, <1>2, <1>9, Zenon
        <5> HIDE DEF A, B
        <5>2. (A - B) + j = lx + j /\ j \in 1..lc
          BY <5>1, SMT
        <5>3. QED
          BY <5>2, Zenon DEF A, B
      <4>3. y[lx + j] = c[j]
        BY <4>2, <3>4, Zenon
      <4>4. QED
        BY <4>2, <4>3, <3>1, <2>2, <1>3, <1>9, Zenon
    <3>5. QED
      BY <3>3, <3>4, <1>3, Zenon
  <2>3. QED
    BY <2>1, <2>2, <1>2, SMT
<1>12. QED
  BY <1>3, <1>7, <1>8, <1>10, <1>11, <1>ly, Zenon DEF Follows

\* A beginning of what follows.
LEMMA FollowsBeginning ==
  ASSUME NEW p \in Seq(Seq(Byte)), NEW x \in Seq(Byte), NEW y \in Seq(Byte), NEW k, NEW all,
         Follows(x, p, k, all), Len(y) <= Len(x), \A i \in 1..Len(y) : y[i] = x[i]
  PROVE  Follows(y, p, k, FALSE)
<1> DEFINE n == Len(p)
           lx == Len(x)
           ly == Len(y)
<1>1. PICK off : /\ Offsets(off, p)
                 /\ Agree(x, off, n, p, k)
                 /\ off[k] + lx <= off[n]
  BY Zenon DEF Follows
<1>2. k \in 0..n /\ n \in 0..n /\ lx \in Nat /\ ly \in Nat /\ n \in Nat
  BY SMT DEF Follows
<1>3. ly <= lx /\ \A i \in 1..ly : y[i] = x[i]
  BY Zenon
<1> HIDE DEF n, lx, ly
<1>4. off \in [0..n -> Nat] /\ \A i, j \in 0..n : i <= j => off[i] <= off[j]
  BY <1>1, Zenon DEF Offsets, n
<1>5. off[k] \in Nat /\ off[n] \in Nat
  BY <1>2, <1>4, Zenon
<1>6. off[k] + ly <= off[n]
  BY <1>1, <1>2, <1>3, <1>5, SMT
<1>7. Agree(y, off, n, p, k)
  <2> SUFFICES ASSUME NEW i \in (k + 1)..n, NEW j \in 1..(off[i] - off[i - 1]),
                      (off[i - 1] - off[k]) + j <= Len(y)
               PROVE  y[(off[i - 1] - off[k]) + j] = p[i][j]
    BY Zenon DEF Agree
  <2> DEFINE h == (off[i - 1] - off[k]) + j
  <2>1. i - 1 \in 0..n /\ i \in 0..n /\ k <= i - 1
    BY <1>2, SMT
  <2>2. off[k] <= off[i - 1] /\ off[i - 1] \in Nat /\ off[i] \in Nat
    BY <2>1, <1>2, <1>4, Zenon
  <2>3. h \in Int /\ h >= 1
    <3> DEFINE A == off[i - 1]
               B == off[k]
               C == off[i]
    <3>1. A \in Nat /\ B \in Nat /\ C \in Nat /\ B <= A /\ j \in 1..(C - A)
      BY <1>5, <2>2, Zenon
    <3> HIDE DEF A, B, C
    <3>2. (A - B) + j \in Int /\ (A - B) + j >= 1
      BY <3>1, SMT
    <3>3. QED
      BY <3>2, Zenon DEF A, B
  <2>4. h <= ly
    BY Zenon DEF ly
  <2>5. h = (off[i - 1] - off[k]) + j
    OBVIOUS
  <2> HIDE DEF h
  <2>6. h \in 1..ly /\ h <= lx
    BY <2>3, <2>4, <1>2, <1>3, SMT
  <2>7. y[h] = x[h]
    BY <2>6, <1>3, Zenon
  <2>8. x[h] = p[i][j]
    BY <2>5, <2>6, <1>1, Zenon DEF Agree, lx
  <2>9. QED
    BY <2>5, <2>7, <2>8, Zenon
<1>8. QED
  BY <1>1, <1>2, <1>6, <1>7, Zenon DEF Follows, n, ly

\* The next piece is where what follows begins.
LEMMA FollowsFirst ==
  ASSUME NEW p \in Seq(Seq(Byte)), NEW x \in Seq(Byte), NEW k, NEW all,
         Follows(x, p, k, all), Len(x) > 0
  PROVE  /\ k \in 0..(Len(p) - 1)
         /\ \A j \in 1..Len(p[k + 1]) : j <= Len(x) => x[j] = p[k + 1][j]
<1> DEFINE n == Len(p)
           lx == Len(x)
<1>1. PICK off : /\ Offsets(off, p)
                 /\ Agree(x, off, n, p, k)
                 /\ off[k] + lx <= off[n]
  BY Zenon DEF Follows
<1>2. k \in 0..n /\ n \in 0..n /\ lx \in Nat /\ lx > 0 /\ n \in Nat
  BY SMT DEF Follows
<1> HIDE DEF n, lx
<1>3. off \in [0..n -> Nat] /\ \A i \in 1..n : off[i] = off[i - 1] + Len(p[i])
  BY <1>1, Zenon DEF Offsets, n
<1>4. off[k] \in Nat /\ off[n] \in Nat
  BY <1>2, <1>3, Zenon
<1>5. k # n
  BY <1>1, <1>2, <1>4, SMT
<1>6. k \in 0..(n - 1) /\ k + 1 \in (k + 1)..n /\ k + 1 \in 1..n /\ (k + 1) - 1 = k
      /\ k + 1 \in 0..n
  BY <1>2, <1>5, SMT
<1> DEFINE c == p[k + 1]
           lc == Len(c)
<1>7. lc \in Nat
  <2>1. c \in Seq(Byte)
    <3>1. k + 1 \in 1..Len(p)
      BY <1>6, Zenon DEF n
    <3>2. QED
      BY <3>1
  <2>2. QED
    BY <2>1, SMT
<1>8. off[k + 1] = off[k] + lc
  BY <1>3, <1>6, Zenon
<1> HIDE DEF lc, c
<1>9. off[k + 1] - off[k] = lc
  BY <1>4, <1>7, <1>8, SMT
<1>10. ASSUME NEW j \in 1..lc, j <= lx PROVE x[j] = c[j]
  <2>1. off[k] - off[k] = 0 /\ 0 + j = j
    BY <1>4, <1>7, SMT
  <2>2. (off[(k + 1) - 1] - off[k]) + j = j
    BY <2>1, <1>6, Zenon
  <2>3. j \in 1..(off[k + 1] - off[(k + 1) - 1])
    BY <1>6, <1>9, Zenon
  <2>4. x[(off[(k + 1) - 1] - off[k]) + j] = p[k + 1][j]
    BY <1>1, <1>6, <1>10, <2>2, <2>3, Zenon DEF Agree, lx
  <2>5. QED
    BY <2>2, <2>4, Zenon DEF c
<1>11. QED
  BY <1>6, <1>10, Zenon DEF n, lx, lc, c

\* What follows the next piece.
LEMMA FollowsNext ==
  ASSUME NEW p \in Seq(Seq(Byte)), NEW x \in Seq(Byte), NEW y \in Seq(Byte), NEW k, NEW all,
         Follows(x, p, k, all), k \in 0..(Len(p) - 1),
         Len(x) = Len(p[k + 1]) + Len(y), \A i \in 1..Len(y) : y[i] = x[Len(p[k + 1]) + i]
  PROVE  Follows(y, p, k + 1, all)
<1> DEFINE n == Len(p)
           lx == Len(x)
           ly == Len(y)
           c == p[k + 1]
           lc == Len(c)
<1>1. PICK off : /\ Offsets(off, p)
                 /\ Agree(x, off, n, p, k)
                 /\ off[k] + lx <= off[n]
                 /\ all => off[k] + lx = off[n]
  BY Zenon DEF Follows
<1>2. k \in 0..n /\ n \in 0..n /\ lx \in Nat /\ ly \in Nat /\ n \in Nat
  BY SMT DEF Follows
<1>3. lx = lc + ly /\ k \in 0..(n - 1) /\ \A i \in 1..ly : y[i] = x[lc + i]
  BY Zenon
<1>4. lc \in Nat
  <2>1. k + 1 \in 1..Len(p)
    BY SMT
  <2>2. c \in Seq(Byte)
    BY <2>1
  <2>3. QED
    BY <2>2, SMT
<1>c. lc = Len(c) /\ c = p[k + 1]
  OBVIOUS
<1> HIDE DEF n, lx, ly, lc, c
<1>5. off \in [0..n -> Nat] /\ (\A i \in 1..n : off[i] = off[i - 1] + Len(p[i]))
      /\ \A i, j \in 0..n : i <= j => off[i] <= off[j]
  BY <1>1, Zenon DEF Offsets, n
<1>6. k + 1 \in 0..n /\ k + 1 \in 1..n /\ (k + 1) - 1 = k
  BY <1>2, <1>3, SMT
<1>7. off[k] \in Nat /\ off[n] \in Nat /\ off[k + 1] \in Nat /\ off[k + 1] = off[k] + lc
  BY <1>2, <1>5, <1>6, <1>c, Zenon
<1>8. off[k + 1] + ly <= off[n] /\ (all => off[k + 1] + ly = off[n])
  <2>1. off[k + 1] + ly = off[k] + lx
    BY <1>2, <1>3, <1>4, <1>7, SMT
  <2>2. QED
    BY <2>1, <1>1, Zenon
<1>9. Agree(y, off, n, p, k + 1)
  <2> SUFFICES ASSUME NEW i \in ((k + 1) + 1)..n, NEW j \in 1..(off[i] - off[i - 1]),
                      (off[i - 1] - off[k + 1]) + j <= Len(y)
               PROVE  y[(off[i - 1] - off[k + 1]) + j] = p[i][j]
    BY Zenon DEF Agree
  <2>1. i - 1 \in 0..n /\ i \in 0..n /\ k + 1 <= i - 1 /\ i \in (k + 1)..n
    BY <1>2, SMT
  <2>2. off[k + 1] <= off[i - 1] /\ off[i - 1] \in Nat /\ off[i] \in Nat
    BY <2>1, <1>5, <1>6, Zenon
  <2> DEFINE A == off[i - 1]
             B == off[k]
             C == off[i]
             E == off[k + 1]
             h == (A - E) + j
             g == (A - B) + j
  <2>3. A \in Nat /\ B \in Nat /\ C \in Nat /\ E \in Nat /\ E <= A /\ E = B + lc /\ j \in 1..(C - A)
    BY <1>7, <2>2, Zenon
  <2>4. (A - E) + j <= ly
    BY Zenon DEF ly
  <2> HIDE DEF A, B, C, E
  <2>5. h \in 1..ly /\ g = lc + h /\ g <= lx
    BY <2>3, <2>4, <1>2, <1>3, <1>4, SMT
  <2>6. x[g] = p[i][j]
    <3>1. x[(off[i - 1] - off[k]) + j] = p[i][j]
      <4>1. (off[i - 1] - off[k]) + j <= Len(x)
        BY <2>5, Zenon DEF A, B, lx
      <4>2. QED
        BY <4>1, <2>1, <1>1, Zenon DEF Agree
    <3>2. QED
      BY <3>1, Zenon DEF A, B
  <2>7. y[h] = x[lc + h]
    BY <2>5, <1>3, Zenon
  <2>8. QED
    BY <2>5, <2>6, <2>7, Zenon DEF A, E
<1>10. QED
  BY <1>1, <1>6, <1>8, <1>9, Zenon DEF Follows, n, ly

-----------------------------------------------------------------------------
(* Messages and their bytes.                                               *)

\* The bytes of the messages s, one piece each.
PiecesOf(s) == [i \in 1..Len(s) |-> Serialize(s[i])]

\* x is a beginning, or if all the whole, of the bytes of the messages s that
\* the messages h, which are the first of them, leave.
Carried(x, s, h, all) ==
  /\ Len(h) <= Len(s) /\ \A i \in 1..Len(h) : h[i] = s[i]
  /\ Follows(x, PiecesOf(s), Len(h), all)

\* The pieces of messages.
LEMMA PiecesAre ==
  ASSUME NEW s \in Seq(Message)
  PROVE  /\ PiecesOf(s) \in Seq(Seq(Byte)) /\ Len(PiecesOf(s)) = Len(s) /\ Len(s) \in Nat
         /\ \A i \in 1..Len(s) : PiecesOf(s)[i] = Serialize(s[i]) /\ s[i] \in Message
<1>1. Len(s) \in Nat
  BY SMT
<1>2. ASSUME NEW i \in 1..Len(s) PROVE s[i] \in Message /\ Serialize(s[i]) \in Seq(Byte)
  <2>1. s[i] \in Message
    OBVIOUS
  <2>2. QED
    BY <2>1, SerializeIs, Zenon
<1> DEFINE S == Seq(Byte)
           n == Len(s)
           F(i) == Serialize(s[i])
<1>3. \A i \in 1..n : F(i) \in S
  BY <1>2, Zenon
<1>5. PiecesOf(s) = [i \in 1..n |-> F(i)]
  BY Zenon DEF PiecesOf
<1>6. n \in Nat
  BY <1>1, Zenon
<1>7. \A i \in 1..n : s[i] \in Message
  BY <1>2, Zenon
<1>8. \A i \in 1..n : PiecesOf(s)[i] = Serialize(s[i])
  BY <1>5, Zenon
<1> HIDE DEF S, n, F
<1>9. [i \in 1..n |-> F(i)] \in Seq(S) /\ Len([i \in 1..n |-> F(i)]) = n
  BY <1>3, <1>6, SMT
<1>10. QED
  BY <1>5, <1>6, <1>7, <1>8, <1>9, Zenon DEF S, n

\* Bytes may be lost at the end.
LEMMA CarriedBeginning ==
  ASSUME NEW x \in Seq(Byte), NEW y \in Seq(Byte), NEW s \in Seq(Message), NEW h,
         NEW all, Carried(x, s, h, all), Len(y) <= Len(x), \A i \in 1..Len(y) : y[i] = x[i]
  PROVE  Carried(y, s, h, FALSE)
BY PiecesAre, FollowsBeginning, Zenon DEF Carried

\* Where there are bytes there is a message, and they begin with it.
LEMMA CarriedSome ==
  ASSUME NEW x \in Seq(Byte), NEW s \in Seq(Message), NEW h, NEW all,
         Carried(x, s, h, all), Len(x) > 0
  PROVE  s # <<>> /\ Len(h) \in 0..(Len(s) - 1) /\ Starts(x, s[Len(h) + 1])
<1> DEFINE p == PiecesOf(s)
           k == Len(h)
<1>1. p \in Seq(Seq(Byte)) /\ Len(p) = Len(s) /\ Len(s) \in Nat
      /\ \A i \in 1..Len(s) : p[i] = Serialize(s[i])
  BY PiecesAre, Zenon
<1>2. Follows(x, p, k, all)
  BY Zenon DEF Carried
<1> HIDE DEF p, k
<1>3. k \in 0..(Len(p) - 1) /\ \A j \in 1..Len(p[k + 1]) : j <= Len(x) => x[j] = p[k + 1][j]
  BY <1>1, <1>2, FollowsFirst, Zenon
<1>4. k + 1 \in 1..Len(s) /\ k \in 0..(Len(s) - 1)
  BY <1>1, <1>3, SMT
<1>5. p[k + 1] = Serialize(s[k + 1])
  BY <1>1, <1>4, Zenon
<1>6. s # <<>>
  BY <1>4, SMT
<1>7. QED
  BY <1>3, <1>4, <1>5, <1>6, Zenon DEF k, Starts

\* One more message is sent, with or without its bytes.
LEMMA CarriedMore ==
  ASSUME NEW x \in Seq(Byte), NEW s \in Seq(Message), NEW h \in Seq(Message), NEW all,
         Carried(x, s, h, all), NEW m \in Message, NEW y \in Seq(Byte),
         \/ y = x /\ ~all
         \/ all /\ y = x \o Serialize(m)
  PROVE  Carried(y, Append(s, m), h, all)
<1> DEFINE p == PiecesOf(s)
           t == Append(s, m)
           q == PiecesOf(t)
           c == Serialize(m)
           k == Len(h)
<1>1. p \in Seq(Seq(Byte)) /\ Len(p) = Len(s) /\ Len(s) \in Nat
      /\ \A i \in 1..Len(s) : p[i] = Serialize(s[i])
  BY PiecesAre, Zenon
<1>2. /\ t \in Seq(Message) /\ Len(t) = Len(s) + 1
      /\ \A i \in 1..Len(s) : t[i] = s[i]
      /\ t[Len(s) + 1] = m
  BY SMT
<1>3. c \in Seq(Byte)
  BY SerializeIs, Zenon
<1>4. q \in Seq(Seq(Byte)) /\ Len(q) = Len(t) /\ \A i \in 1..Len(t) : q[i] = Serialize(t[i])
  BY <1>2, PiecesAre, Zenon
<1>5. Follows(x, p, k, all) /\ k <= Len(s) /\ \A i \in 1..k : h[i] = s[i]
  BY Zenon DEF Carried
<1>6. k \in Nat
  BY SMT
<1>7. \/ y = x /\ ~all
      \/ all /\ Len(y) = Len(x) + Len(c) /\ (\A i \in 1..Len(x) : y[i] = x[i])
             /\ \A i \in 1..Len(c) : y[Len(x) + i] = c[i]
  <2>1. CASE all /\ y = x \o c
    <3>1. y = x \o c
      BY <2>1
    <3> HIDE DEF c
    <3>2. /\ Len(y) = Len(x) + Len(c) /\ \A i \in 1..Len(x) : y[i] = x[i]
          /\ \A i \in 1..Len(c) : y[Len(x) + i] = c[i]
      BY <3>1, <1>3, SMT
    <3>3. QED
      BY <2>1, <3>2, Zenon
  <2>2. QED
    BY <2>1, Zenon
<1>c. c = Serialize(m)
  OBVIOUS
<1> HIDE DEF p, t, c, q, k
<1>8. Len(q) = Len(p) + 1 /\ (\A i \in 1..Len(p) : q[i] = p[i]) /\ q[Len(p) + 1] = c
  <2>1. \A i \in 1..Len(s) : i \in 1..Len(t)
    BY <1>1, <1>2, SMT
  <2>2. Len(s) + 1 \in 1..Len(t)
    BY <1>1, <1>2, SMT
  <2>3. QED
    BY <2>1, <2>2, <1>1, <1>2, <1>4, <1>c, Zenon
<1>9. Follows(y, q, k, all)
  BY <1>1, <1>3, <1>4, <1>5, <1>7, <1>8, OneMore, Zenon
<1>10. k <= Len(t)
  BY <1>1, <1>2, <1>5, <1>6, SMT
<1>11. \A i \in 1..k : h[i] = t[i]
  <2>1. \A i \in 1..k : i \in 1..Len(s)
    BY <1>1, <1>5, <1>6, SMT
  <2>2. QED
    BY <2>1, <1>2, <1>5, Zenon
<1>12. QED
  BY <1>9, <1>10, <1>11, Zenon DEF Carried, t, q, k

\* One message is handled.
LEMMA CarriedHandled ==
  ASSUME NEW buf \in Seq(Byte), NEW w \in Seq(Byte), NEW s \in Seq(Message),
         NEW h \in Seq(Message), NEW all, Carried(buf \o w, s, h, all), CanProceed(buf)
  PROVE  LET r == RecieveAmessage(buf)
         IN /\ r.msg \in Message /\ r.rest \in Seq(Byte)
            /\ Carried(r.rest \o w, s, Append(h, r.msg), all)
<1> DEFINE x == buf \o w
           k == Len(h)
           m == s[k + 1]
           c == Serialize(m)
           lb == Len(buf)
           lw == Len(w)
           lx == Len(x)
           lc == Len(c)
<1>1. /\ x \in Seq(Byte) /\ lx = lb + lw
      /\ \A i \in 1..lb : x[i] = buf[i]
      /\ \A i \in 1..lw : x[lb + i] = w[i]
  BY SMT
<1>2. lb \in Nat /\ lw \in Nat /\ k \in Nat /\ Len(s) \in Nat
  BY SMT
<1>3. lb >= IntLen /\ lb >= Field(buf, 0) + IntLen
  BY Zenon DEF CanProceed
<1>k. k = Len(h) /\ m = s[k + 1] /\ c = Serialize(m) /\ lb = Len(buf) /\ lw = Len(w)
      /\ lx = Len(x) /\ lc = Len(c) /\ Carried(x, s, h, all)
  BY Zenon
<1> HIDE DEF x, k, m, c, lb, lw, lx, lc
<1>4. lx > 0
  BY <1>1, <1>2, <1>3, Constants, SMT
<1>5. k \in 0..(Len(s) - 1) /\ \A j \in 1..lc : j <= lx => x[j] = c[j]
  <2>0. Len(x) > 0 /\ x \in Seq(Byte) /\ Carried(x, s, h, all)
    BY <1>1, <1>4, <1>k, Zenon
  <2>1. Len(h) \in 0..(Len(s) - 1) /\ Starts(x, s[Len(h) + 1])
    BY <2>0, CarriedSome, Zenon
  <2>2. QED
    BY <2>1, <1>k, Zenon DEF Starts
<1>6. m \in Message /\ k + 1 \in 1..Len(s)
  <2>1. k + 1 \in 1..Len(s)
    BY <1>2, <1>5, SMT
  <2>2. QED
    BY <2>1, <1>k, PiecesAre, Zenon
<1>7. c \in Seq(Byte) /\ lc \in Nat
  <2>1. c \in Seq(Byte)
    BY <1>6, <1>k, SerializeIs, Zenon
  <2>2. QED
    BY <2>1, <1>k, SMT
<1>8. Starts(buf, m)
  <2>1. ASSUME NEW j \in 1..lc, j <= lb PROVE buf[j] = c[j]
    <3>1. j \in 1..lb /\ j <= lx
      BY <2>1, <1>1, <1>2, <1>7, SMT
    <3>2. QED
      BY <3>1, <1>1, <1>5, Zenon
  <2>2. QED
    BY <2>1, <1>k, Zenon DEF Starts
<1>9. lb >= lc
  <2>1. Field(buf, 0) = lc - IntLen
    BY <1>3, <1>6, <1>8, <1>k, LengthRead, Zenon
  <2> DEFINE f == Field(buf, 0)
  <2>2. f = lc - IntLen /\ lb >= f + IntLen
    BY <2>1, <1>3, Zenon
  <2> HIDE DEF f
  <2>3. QED
    BY <2>2, <1>2, <1>7, Constants, SMT
<1> DEFINE y == SubSeq(buf, lc + 1, lb)
<1>10. RecieveAmessage(buf) = [msg |-> m, rest |-> y]
  BY <1>6, <1>8, <1>9, <1>k, MessageRead, Zenon
<1>11. y \in Seq(Byte) /\ Len(y) = lb - lc /\ \A j \in 1..(lb - lc) : y[j] = buf[lc + j]
  <2>1. lc <= lb /\ lb <= Len(buf)
    BY <1>2, <1>7, <1>9, <1>k, SMT
  <2>2. QED
    BY <2>1, <1>2, <1>7, SubSeqIs, ZenonT(40)
<1> HIDE DEF y
<1> DEFINE z == y \o w
<1>12. /\ z \in Seq(Byte) /\ Len(z) = Len(y) + lw
       /\ \A i \in 1..Len(y) : z[i] = y[i]
       /\ \A i \in 1..lw : z[Len(y) + i] = w[i]
  <2>1. lw = Len(w) /\ y \in Seq(Byte)
    BY <1>11, <1>k, Zenon
  <2>2. QED
    BY <2>1, SMT
<1> HIDE DEF z
<1>13. Len(z) = (lb - lc) + lw /\ lx = lc + Len(z)
  BY <1>1, <1>2, <1>7, <1>11, <1>12, SMTT(40)
<1>14. ASSUME NEW i \in 1..Len(z) PROVE z[i] = x[lc + i]
  <2>1. CASE i <= lb - lc
    <3>1. i \in 1..(lb - lc) /\ lc + i \in 1..lb
      BY <2>1, <1>2, <1>7, <1>9, <1>13, SMT
    <3>2. QED
      BY <3>1, <1>1, <1>11, <1>12, Zenon
  <2>2. CASE ~(i <= lb - lc)
    <3> DEFINE j == i - (lb - lc)
    <3>1. j \in 1..lw /\ (lb - lc) + j = i /\ lc + i = lb + j
      BY <2>2, <1>2, <1>7, <1>9, <1>13, SMT
    <3> HIDE DEF j
    <3>2. QED
      BY <3>1, <1>1, <1>11, <1>12, Zenon
  <2>3. QED
    BY <2>1, <2>2, Zenon
<1> DEFINE p == PiecesOf(s)
<1>15. p \in Seq(Seq(Byte)) /\ Len(p) = Len(s) /\ p[k + 1] = c
  BY <1>6, <1>k, PiecesAre, Zenon
<1>16. Follows(x, p, k, all) /\ \A i \in 1..k : h[i] = s[i]
  BY <1>k, Zenon DEF Carried
<1> HIDE DEF p
<1>17. Follows(z, p, k + 1, all)
  BY <1>1, <1>5, <1>12, <1>13, <1>14, <1>15, <1>16, <1>k, FollowsNext, ZenonT(40)
<1> DEFINE g == Append(h, m)
<1>18. Len(g) = k + 1 /\ (\A i \in 1..k : g[i] = h[i]) /\ g[k + 1] = m
  <2>1. k = Len(h) /\ m \in Message
    BY <1>6, <1>k, Zenon
  <2>2. QED
    BY <2>1, SMT
<1> HIDE DEF g
<1>19. Len(g) <= Len(s) /\ \A i \in 1..Len(g) : g[i] = s[i]
  <2>1. k + 1 <= Len(s)
    BY <1>2, <1>5, SMT
  <2>2. ASSUME NEW i \in 1..(k + 1) PROVE i \in 1..k \/ i = k + 1
    BY <1>2, SMT
  <2>3. QED
    BY <2>1, <2>2, <1>16, <1>18, <1>k, Zenon
<1>20. Carried(z, s, g, all)
  BY <1>17, <1>18, <1>19, Zenon DEF Carried, p
<1>21. QED
  <2> DEFINE r == RecieveAmessage(buf)
  <2>1. r.msg = m /\ r.rest = y
    BY <1>10
  <2> HIDE DEF r
  <2>2. r.msg \in Message /\ r.rest \in Seq(Byte)
        /\ Carried(r.rest \o w, s, Append(h, r.msg), all)
    BY <2>1, <1>6, <1>11, <1>20, Zenon DEF g, z
  <2>3. QED
    BY <2>2, Zenon DEF r

\* A buffer without a whole message that is as long as the limit.
LEMMA CarriedTooLong ==
  ASSUME NEW buf \in Seq(Byte), NEW w \in Seq(Byte), NEW s \in Seq(Message),
         NEW h \in Seq(Message), NEW all, Carried(buf \o w, s, h, all), TooLong(buf),
         s # <<>>
  PROVE  \E m \in ToSet(s) : Len(Serialize(m)) > MaxLen
<1> DEFINE x == buf \o w
           k == Len(h)
           lb == Len(buf)
           lw == Len(w)
<1>1. /\ x \in Seq(Byte) /\ Len(x) = lb + lw
      /\ \A i \in 1..lb : x[i] = buf[i]
  BY SMT
<1>2. lb \in Nat /\ lw \in Nat /\ k \in Nat /\ Len(s) \in Nat /\ Len(s) > 0
  BY SMT
<1>3. lb >= MaxLen /\ ~(lb >= IntLen /\ lb >= Field(buf, 0) + IntLen)
  BY Zenon DEF TooLong, CanProceed
<1>k. k = Len(h) /\ lb = Len(buf) /\ Carried(x, s, h, all)
  BY Zenon
<1> HIDE DEF x, k, lb, lw
<1>4. ASSUME NEW i \in 1..Len(s), Len(Serialize(s[i])) > MaxLen
      PROVE  \E m \in ToSet(s) : Len(Serialize(m)) > MaxLen
  <2>1. DOMAIN s = 1..Len(s)
    OBVIOUS
  <2>2. s[i] \in ToSet(s)
    BY <2>1, Zenon DEF ToSet
  <2>3. QED
    BY <2>2, <1>4, Zenon
<1>5. CASE lb = 0
  <2>1. 1 \in 1..Len(s) /\ MaxLen = 0
    BY <1>2, <1>3, <1>5, Constants, SMT
  <2>2. s[1] \in Message
    BY <2>1, PiecesAre, Zenon
  <2> DEFINE a == Len(s[1].id)
             b == Len(s[1].body)
             L == Len(Serialize(s[1]))
  <2>3. L = 3 * IntLen + a + b
    BY <2>2, SerializeIs, Zenon
  <2>4. s[1].id \in Seq(Byte) /\ s[1].body \in Seq(Byte)
    BY <2>2, MessageIs, Zenon
  <2>5. a \in Nat /\ b \in Nat
    BY <2>4, SMT
  <2> HIDE DEF a, b, L
  <2>6. L > MaxLen
    BY <2>1, <2>3, <2>5, Constants, SMT
  <2>7. QED
    BY <2>1, <2>6, <1>4, Zenon DEF L
<1>6. CASE lb # 0
  <2>1. Len(x) > 0
    BY <1>1, <1>2, <1>6, SMT
  <2> DEFINE m == s[k + 1]
             c == Serialize(m)
             lc == Len(c)
  <2>0. x \in Seq(Byte) /\ Carried(x, s, h, all)
    BY <1>1, <1>k, Zenon
  <2>e. Len(h) \in 0..(Len(s) - 1) /\ Starts(x, s[Len(h) + 1])
    BY <2>0, <2>1, CarriedSome, Zenon
  <2>a. k \in 0..(Len(s) - 1)
        /\ \A j \in 1..Len(Serialize(s[k + 1])) : j <= Len(x) => x[j] = Serialize(s[k + 1])[j]
    BY <2>e, <1>k, Zenon DEF Starts
  <2>2. k \in 0..(Len(s) - 1) /\ \A j \in 1..lc : j <= Len(x) => x[j] = c[j]
    BY <2>a
  <2>3. k + 1 \in 1..Len(s)
    BY <2>2, <1>2, SMT
  <2>4. m \in Message
    BY <2>3, PiecesAre, Zenon
  <2>5. c \in Seq(Byte)
    BY <2>4, SerializeIs, Zenon
  <2>c. c = Serialize(m) /\ lc = Len(c) /\ m = s[k + 1]
    OBVIOUS
  <2> HIDE DEF c, m
  <2>6. lc \in Nat
    BY <2>5, SMT
  <2>b. lc = 3 * IntLen + Len(m.id) + Len(m.body)
    BY <2>4, <2>c, SerializeIs, Zenon
  <2>d. lc >= IntLen
    <3> DEFINE a == Len(m.id)
               b == Len(m.body)
    <3>1. m.id \in Seq(Byte) /\ m.body \in Seq(Byte)
      BY <2>4, MessageIs, Zenon
    <3>2. a \in Nat /\ b \in Nat
      BY <3>1, SMT
    <3>3. lc = 3 * IntLen + a + b
      BY <2>b, Zenon
    <3> HIDE DEF a, b, lc
    <3>4. QED
      BY <3>2, <3>3, Constants, SMT
  <2> HIDE DEF lc
  <2>7. Starts(buf, m)
    <3>1. ASSUME NEW j \in 1..lc, j <= lb PROVE buf[j] = c[j]
      <4>1. j \in 1..lb /\ j <= Len(x)
        BY <3>1, <1>1, <1>2, <2>6, SMT
      <4>2. QED
        BY <4>1, <1>1, <2>2, Zenon
    <3>2. QED
      BY <3>1, <1>k, <2>c, Zenon DEF Starts
  <2>8. lc > lb
    <3>1. CASE lb >= IntLen
      <4>1. Field(buf, 0) = lc - IntLen
        BY <3>1, <2>4, <2>7, <2>c, <1>k, LengthRead, Zenon
      <4> DEFINE f == Field(buf, 0)
      <4>2. f = lc - IntLen /\ ~(lb >= f + IntLen)
        BY <4>1, <3>1, <1>3, Zenon
      <4> HIDE DEF f
      <4>3. QED
        BY <4>2, <1>2, <2>6, Constants, SMT
    <3>2. CASE ~(lb >= IntLen)
      BY <3>2, <2>d, <2>6, <1>2, Constants, SMT
    <3>3. QED
      BY <3>1, <3>2, Zenon
  <2>9. lc > MaxLen
    BY <2>8, <2>6, <1>2, <1>3, Constants, SMT
  <2>10. QED
    BY <2>3, <2>9, <2>c, <1>4, Zenon
<1>7. QED
  BY <1>5, <1>6, Zenon

-----------------------------------------------------------------------------
(* The life cycle.                                                         *)

\* The look-up of the connection in MessageCallBack finds it.
LookUpFinds == \A e \in End : reading[e] => known[e]

\* The inductive invariant: an end has a ConnectionBase exactly as long as
\* muduo's connection is open, it reads only then, and connect() returns
\* after the client has one.
LifeInv ==
  /\ state \in [End -> {"new", "up", "half", "down"}]
  /\ known \in [End -> BOOLEAN]
  /\ reading \in [End -> BOOLEAN]
  /\ \A e \in End : (known[e] <=> Open(e)) /\ (reading[e] => Open(e))
  /\ latch = 0 => state[Client] # "new"
  /\ NullOnlyAfterClose

LEMMA Ends == Client \in End /\ Server \in End /\ Client # Server
BY ConnectionAssumption DEF End

\* A state that only moves on, along the arrows of TcpConnection.
LEMMA ShutDownKeeps ==
  ASSUME LifeInv, NEW e \in End, ShutDown(e), UNCHANGED <<known, latch, crashed>>,
         reading' = reading \/ reading' = [reading EXCEPT ![e] = FALSE]
  PROVE  LifeInv'
BY Ends DEF LifeInv, ShutDown, Open, NullOnlyAfterClose

LEMMA LifeUnchanged ==
  ASSUME LifeInv, UNCHANGED <<state, known, latch, crashed, reading>>
  PROVE  LifeInv'
BY DEF LifeInv, Open, NullOnlyAfterClose

\* Each step keeps the invariant.
LEMMA NextLifeInv == LifeInv /\ [Next]_vars => LifeInv'
<1> SUFFICES ASSUME LifeInv, [Next]_vars PROVE LifeInv'
  OBVIOUS
<1>1. ASSUME NEW e \in End, OnConnected(e) PROVE LifeInv'
  BY <1>1, Ends DEF LifeInv, OnConnected, Open, NullOnlyAfterClose, dataVars
<1>2. ASSUME NEW e \in End, OnDisconnected(e) PROVE LifeInv'
  BY <1>2, Ends DEF LifeInv, OnDisconnected, Idle, Open, NullOnlyAfterClose
<1>3. ASSUME NEW e \in End, Arrive(e) PROVE LifeInv'
  BY <1>3, Ends DEF LifeInv, Arrive, Idle, Open, NullOnlyAfterClose, lifeVars
<1>4. ASSUME NEW e \in End, LoopStep(e) PROVE LifeInv'
  <2>1. CASE HandleMessage(e)
    BY <2>1, LifeUnchanged DEF HandleMessage, lifeVars
  <2>2. CASE Refuse(e)
    BY <2>2, ShutDownKeeps DEF Refuse
  <2>3. CASE Stop(e)
    BY <2>3, Ends DEF LifeInv, Stop, Open, NullOnlyAfterClose, lifeVars
  <2>4. QED
    BY <1>4, <2>1, <2>2, <2>3 DEF LoopStep
<1>5. ASSUME NEW e \in End, NEW m \in Message, Send(e, m) PROVE LifeInv'
  BY <1>5, LifeUnchanged DEF Send, Transmit, lifeVars
<1>6. CASE CountDown
  BY <1>6, Ends DEF LifeInv, CountDown, Open, NullOnlyAfterClose, dataVars
<1>7. CASE UseNull
  <2>1. state[Client] \in {"new", "up", "half", "down"} /\ ~Open(Client)
    BY <1>7, Ends DEF LifeInv, UseNull
  <2>2. state[Client] = "down"
    BY <1>7, <2>1 DEF LifeInv, UseNull, Open
  <2>3. QED
    BY <1>7, <2>2 DEF LifeInv, UseNull, Open, NullOnlyAfterClose, dataVars
<1>8. CASE Disconnect
  BY <1>8, Ends, ShutDownKeeps DEF Disconnect
<1>9. CASE Break
  BY <1>9, LifeUnchanged DEF Break
<1>10. CASE UNCHANGED vars
  BY <1>10, LifeUnchanged DEF vars, lifeVars, dataVars
<1>11. QED
  BY <1>1, <1>2, <1>3, <1>4, <1>5, <1>6, <1>7, <1>8, <1>9, <1>10 DEF Next

LEMMA LifeInvariant == Spec => []LifeInv
<1>1. Init => LifeInv
  BY Ends DEF Init, LifeInv, Open, NullOnlyAfterClose
<1>2. QED
  BY <1>1, NextLifeInv, PTL DEF Spec

\* Whatever is sent, refused, shut down or lost, a null _conn is met only
\* after the connection has closed: never between connect() and the first
\* use, as the comment at network.hpp:353 asks.
THEOREM NullComesLate == Spec => []NullOnlyAfterClose
<1>1. LifeInv => NullOnlyAfterClose
  BY DEF LifeInv
<1>2. QED
  BY <1>1, LifeInvariant, PTL

\* No message that was taken off the buffer is dropped because the
\* connection is not in the server's map any more (network.hpp:269-275).
THEOREM LookUpNeverFails == Spec => []LookUpFinds
<1>1. LifeInv => LookUpFinds
  BY DEF LifeInv, LookUpFinds
<1>2. QED
  BY <1>1, LifeInvariant, PTL

-----------------------------------------------------------------------------
(* The messages and their bytes.                                           *)

\* The bytes e has not taken yet.
Stream(e) == buffer[e] \o wire[e]

\* What e is sent gets there: its peer writes and nothing was lost.
Flowing(e) == state[Peer(e)] \in {"new", "up"} /\ ~broken

\* The types of what LifeInv leaves out.
DataTypes ==
  /\ latch \in {0, 1} /\ crashed \in BOOLEAN /\ broken \in BOOLEAN /\ refused \subseteq End
  /\ wire \in [End -> Seq(Byte)] /\ buffer \in [End -> Seq(Byte)]
  /\ eof \in [End -> BOOLEAN]
  /\ sent \in [End -> Seq(Message)] /\ handled \in [End -> Seq(Message)]

\* What e refused was beyond the limit.
RefusedLong(e) ==
  e \in refused =>
    state[e] \in {"half", "down"} /\ \E m \in ToSet(sent[e]) : Len(Serialize(m)) > MaxLen

\* Of the end e: its stream is what is left of what it was sent, all of it
\* while that flows.
EndInv(e) ==
  /\ eof[e] => ~Flowing(e)
  /\ Carried(Stream(e), sent[e], handled[e], Flowing(e))
  /\ reading[e] => sent[e] # <<>>
  /\ RefusedLong(e)

\* The inductive invariant of the data.
StreamInv == LifeInv /\ DataTypes /\ \A e \in End : EndInv(e)

\* There are two ends.
LEMMA Peers ==
  ASSUME NEW e \in End
  PROVE  Peer(e) \in End /\ Peer(e) # e /\ Peer(Peer(e)) = e /\ \A f \in End : f = e \/ f = Peer(e)
BY Ends DEF Peer, End

\* What DataTypes says of one end.
LEMMA StreamTypes ==
  ASSUME DataTypes, NEW e \in End
  PROVE  /\ wire[e] \in Seq(Byte) /\ buffer[e] \in Seq(Byte) /\ Stream(e) \in Seq(Byte)
         /\ sent[e] \in Seq(Message) /\ handled[e] \in Seq(Message)
         /\ Len(Stream(e)) = Len(buffer[e]) + Len(wire[e])
         /\ Len(buffer[e]) \in Nat /\ Len(wire[e]) \in Nat
         /\ \A i \in 1..Len(buffer[e]) : Stream(e)[i] = buffer[e][i]
         /\ \A i \in 1..Len(wire[e]) : Stream(e)[Len(buffer[e]) + i] = wire[e][i]
<1>1. /\ wire[e] \in Seq(Byte) /\ buffer[e] \in Seq(Byte)
      /\ sent[e] \in Seq(Message) /\ handled[e] \in Seq(Message)
  BY Zenon DEF DataTypes
<1> DEFINE b == buffer[e]
           w == wire[e]
           x == b \o w
<1>2. b \in Seq(Byte) /\ w \in Seq(Byte)
  BY <1>1
<1>3. x = Stream(e)
  BY DEF Stream
<1> HIDE DEF b, w
<1>4. /\ x \in Seq(Byte) /\ Len(x) = Len(b) + Len(w) /\ Len(b) \in Nat /\ Len(w) \in Nat
      /\ (\A i \in 1..Len(b) : x[i] = b[i]) /\ \A i \in 1..Len(w) : x[Len(b) + i] = w[i]
  BY <1>2, SMT
<1> HIDE DEF x
<1>5. QED
  BY <1>1, <1>3, <1>4, Zenon DEF b, w

\* An end whose data a step leaves as they are.
LEMMA EndSame ==
  ASSUME NEW f \in End, EndInv(f), RefusedLong(f)', Flowing(f)' = Flowing(f),
         wire'[f] = wire[f], buffer'[f] = buffer[f], sent'[f] = sent[f],
         handled'[f] = handled[f], eof'[f] = eof[f], reading'[f] => reading[f]
  PROVE  EndInv(f)'
<1>1. Stream(f)' = Stream(f)
  BY DEF Stream
<1>2. QED
  BY <1>1 DEF EndInv

\* An end that loses some of what it was sent, or will get no more.
LEMMA EndCut ==
  ASSUME NEW f \in End, StreamInv, RefusedLong(f)', ~Flowing(f)',
         Stream(f)' \in Seq(Byte), Len(Stream(f)') <= Len(Stream(f)),
         \A i \in 1..Len(Stream(f)') : Stream(f)'[i] = Stream(f)[i],
         sent'[f] = sent[f], handled'[f] = handled[f], reading'[f] => reading[f]
  PROVE  EndInv(f)'
<1>1. Carried(Stream(f), sent[f], handled[f], Flowing(f)) /\ (reading[f] => sent[f] # <<>>)
  BY DEF StreamInv, EndInv
<1>2. Stream(f) \in Seq(Byte) /\ sent[f] \in Seq(Message)
  BY StreamTypes DEF StreamInv
<1> DEFINE y == Stream(f)'
<1>3. y \in Seq(Byte) /\ Len(y) <= Len(Stream(f)) /\ \A i \in 1..Len(y) : y[i] = Stream(f)[i]
  BY Zenon
<1>y. y = Stream(f)'
  OBVIOUS
<1> HIDE DEF y
<1>4. Carried(y, sent[f], handled[f], FALSE)
  BY <1>1, <1>2, <1>3, CarriedBeginning, Zenon
<1>5. Flowing(f)' = FALSE
  BY DEF Flowing
<1>6. Carried(Stream(f)', sent'[f], handled'[f], Flowing(f)')
  BY <1>4, <1>5, <1>y, Zenon
<1>7. QED
  BY <1>1, <1>6, Zenon DEF EndInv

\* An end that its peer writes no more to.
LEMMA EndClosed ==
  ASSUME NEW f \in End, StreamInv, RefusedLong(f)', ~Flowing(f)',
         wire'[f] = wire[f], buffer'[f] = buffer[f], sent'[f] = sent[f],
         handled'[f] = handled[f], reading'[f] => reading[f]
  PROVE  EndInv(f)'
<1>1. Stream(f)' = Stream(f)
  BY DEF Stream
<1>2. Stream(f) \in Seq(Byte)
  BY StreamTypes DEF StreamInv
<1> DEFINE x == Stream(f)
<1>3. Len(x) <= Len(x)
  <2> HIDE DEF x
  <2>0. x \in Seq(Byte)
    BY <1>2, Zenon DEF x
  <2>1. QED
    BY <2>0, SMT
<1>4. Stream(f)' \in Seq(Byte) /\ Len(Stream(f)') <= Len(Stream(f))
      /\ \A i \in 1..Len(Stream(f)') : Stream(f)'[i] = Stream(f)[i]
  BY <1>1, <1>2, <1>3, Zenon
<1>5. QED
  BY <1>4, EndCut, Zenon

\* An end that refuses nothing new.
LEMMA RefusedSame ==
  ASSUME NEW f \in End, EndInv(f), sent'[f] = sent[f], f \in refused' => f \in refused,
         state[f] \in {"half", "down"} => state'[f] \in {"half", "down"}
  PROVE  RefusedLong(f)'
BY Zenon DEF EndInv, RefusedLong

\* Each step keeps the invariant.
LEMMA NextStreamInv == StreamInv /\ [Next]_vars => StreamInv'
<1> SUFFICES ASSUME StreamInv, [Next]_vars PROVE StreamInv'
  OBVIOUS
<1>0. LifeInv /\ DataTypes /\ \A f \in End : EndInv(f)
  BY DEF StreamInv
<1>l. LifeInv'
  BY <1>0, NextLifeInv
<1>s. SUFFICES DataTypes' /\ \A f \in End : EndInv(f)'
  BY <1>l, Zenon DEF StreamInv
<1>1. ASSUME NEW e \in End, OnConnected(e) PROVE DataTypes' /\ \A f \in End : EndInv(f)'
  <2>1. DataTypes'
    BY <1>0, <1>1, Zenon DEF OnConnected, dataVars, DataTypes
  <2>2. ASSUME NEW f \in End PROVE EndInv(f)'
    <3>1. Flowing(f)' = Flowing(f) /\ RefusedLong(f)'
      BY <1>0, <1>1, Peers DEF OnConnected, dataVars, LifeInv, EndInv, Flowing, RefusedLong
    <3>2. QED
      BY <1>0, <1>1, <3>1, EndSame DEF OnConnected, dataVars
  <2>3. QED
    BY <2>1, <2>2, Zenon
<1>2. ASSUME NEW e \in End, OnDisconnected(e) PROVE DataTypes' /\ \A f \in End : EndInv(f)'
  <2>0. PICK n \in 0..Len(wire[Peer(e)]) :
          wire' = [wire EXCEPT ![Peer(e)] = SubSeq(wire[Peer(e)], 1, n)]
    BY <1>2 DEF OnDisconnected
  <2> DEFINE g == Peer(e)
             head == SubSeq(wire[g], 1, n)
  <2>1. g \in End /\ g # e /\ \A f \in End : f = e \/ f = g
    BY Peers, Zenon
  <2>2. wire[g] \in Seq(Byte) /\ buffer[g] \in Seq(Byte)
    BY <1>0, <2>1, StreamTypes, Zenon
  <2>3. wire \in [End -> Seq(Byte)] /\ buffer \in [End -> Seq(Byte)]
        /\ state \in [End -> {"new", "up", "half", "down"}]
    BY <1>0, Zenon DEF DataTypes, LifeInv
  <2>4. head \in Seq(Byte) /\ Len(buffer[g] \o head) <= Len(buffer[g] \o wire[g])
        /\ \A i \in 1..Len(buffer[g] \o head) : (buffer[g] \o head)[i] = (buffer[g] \o wire[g])[i]
    <3> DEFINE w == wire[g]
    <3>1. w \in Seq(Byte) /\ n \in 0..Len(w)
      BY <2>0, <2>2, Zenon
    <3> HIDE DEF w
    <3>2. SubSeq(w, 1, n) \in Seq(Byte)
          /\ Len(buffer[g] \o SubSeq(w, 1, n)) <= Len(buffer[g] \o w)
          /\ \A i \in 1..Len(buffer[g] \o SubSeq(w, 1, n)) :
                (buffer[g] \o SubSeq(w, 1, n))[i] = (buffer[g] \o w)[i]
      BY <2>2, <3>1, ConcatCut, Zenon
    <3>3. QED
      BY <3>2, Zenon DEF w
  <2>5. wire[e] = <<>> /\ eof[e] /\ wire'[e] = <<>> /\ wire'[g] = head
        /\ buffer'[e] = <<>> /\ buffer'[g] = buffer[g]
    BY <1>2, <2>0, <2>1, <2>3 DEF OnDisconnected
  <2>6. state' = [state EXCEPT ![e] = "down"] /\ eof' = [eof EXCEPT ![g] = TRUE]
        /\ buffer' = [buffer EXCEPT ![e] = <<>>] /\ wire' = [wire EXCEPT ![g] = head]
        /\ UNCHANGED <<latch, crashed, refused, broken, reading, sent, handled>>
    BY <1>2, <2>0, Zenon DEF OnDisconnected
  <2>7. <<>> \in Seq(Byte)
    BY SMT
  <2>8. DataTypes'
    <3> HIDE DEF head
    <3>1. QED
      BY <1>0, <2>1, <2>4, <2>6, <2>7 DEF DataTypes
  <2>9. state'[e] = "down" /\ state'[g] = state[g]
    BY <2>1, <2>3, <2>6
  <2>10. \A f \in End : RefusedLong(f)'
    <3>1. ASSUME NEW f \in End PROVE RefusedLong(f)'
      BY <1>0, <2>1, <2>6, <2>9, RefusedSame
    <3>2. QED
      BY <3>1
  <2>11. EndInv(e)'
    <3>1. Stream(e)' = <<>> \o <<>>
      BY <2>5, Zenon DEF Stream
    <3>2. Stream(e)' = <<>>
      BY <3>1, SMT
    <3>3. Stream(e) \in Seq(Byte)
      BY <1>0, StreamTypes, Zenon
    <3>4. Stream(e)' \in Seq(Byte) /\ Len(Stream(e)') <= Len(Stream(e))
          /\ \A i \in 1..Len(Stream(e)') : Stream(e)'[i] = Stream(e)[i]
      <4> DEFINE x == Stream(e)
                 y == Stream(e)'
      <4>1. x \in Seq(Byte) /\ y = <<>>
        BY <3>2, <3>3, Zenon
      <4> HIDE DEF x, y
      <4>2. y \in Seq(Byte) /\ Len(y) <= Len(x) /\ \A i \in 1..Len(y) : y[i] = x[i]
        BY <4>1, SMT
      <4>3. QED
        BY <4>2, Zenon DEF x, y
    <3>5. ~Flowing(e)'
      <4>1. ~Flowing(e)
        BY <1>0, <2>5, Zenon DEF EndInv
      <4>2. QED
        BY <4>1, <2>6, <2>9, Zenon DEF Flowing
    <3>6. QED
      BY <2>6, <2>10, <3>4, <3>5, EndCut, Zenon
  <2>12. EndInv(g)'
    <3>1. Stream(g)' = buffer[g] \o head /\ Stream(g) = buffer[g] \o wire[g]
      BY <2>5, Zenon DEF Stream
    <3> HIDE DEF head
    <3>a. Stream(g)' \in Seq(Byte)
      <4> DEFINE b == buffer[g]
      <4>1. b \in Seq(Byte) /\ head \in Seq(Byte)
        BY <2>2, <2>4, Zenon
      <4> HIDE DEF b
      <4>2. b \o head \in Seq(Byte)
        BY <4>1, SMT
      <4>3. QED
        BY <4>2, <3>1, Zenon DEF b
    <3>2. ~Flowing(g)'
      <4>1. Peer(g) = e
        BY Peers, Zenon
      <4>2. QED
        BY <4>1, <2>9 DEF Flowing
    <3> HIDE DEF g
    <3>3. QED
      BY <2>1, <2>4, <2>6, <2>10, <3>1, <3>a, <3>2, EndCut, Zenon
  <2>13. QED
    BY <2>1, <2>8, <2>11, <2>12, Zenon
<1>3. ASSUME NEW e \in End, Arrive(e) PROVE DataTypes' /\ \A f \in End : EndInv(f)'
  <2> DEFINE w == wire[e]
             b == buffer[e]
  <2>0. PICK n \in 1..Len(w) :
          /\ buffer' = [buffer EXCEPT ![e] = b \o SubSeq(w, 1, n)]
          /\ wire' = [wire EXCEPT ![e] = SubSeq(w, n + 1, Len(w))]
    BY <1>3 DEF Arrive
  <2>1. w \in Seq(Byte) /\ b \in Seq(Byte) /\ Stream(e) = b \o w
    BY <1>0, StreamTypes, Zenon DEF Stream
  <2>2. wire \in [End -> Seq(Byte)] /\ buffer \in [End -> Seq(Byte)]
        /\ reading \in [End -> BOOLEAN]
    BY <1>0, Zenon DEF DataTypes, LifeInv
  <2> DEFINE head == SubSeq(w, 1, n)
             tail == SubSeq(w, n + 1, Len(w))
  <2>3. buffer'[e] = b \o head /\ wire'[e] = tail
        /\ \A f \in End : f # e => buffer'[f] = buffer[f] /\ wire'[f] = wire[f]
    BY <2>0, <2>2, Zenon
  <2> HIDE DEF w, b
  <2>4. head \in Seq(Byte) /\ tail \in Seq(Byte) /\ (b \o head) \o tail = b \o w
    <3>1. n \in 0..Len(w)
      BY <2>1, SMT
    <3>2. w \in Seq(Byte) /\ b \in Seq(Byte)
      BY <2>1, Zenon
    <3>3. /\ SubSeq(w, 1, n) \in Seq(Byte) /\ SubSeq(w, n + 1, Len(w)) \in Seq(Byte)
          /\ (b \o SubSeq(w, 1, n)) \o SubSeq(w, n + 1, Len(w)) = b \o w
      BY <3>1, <3>2, ConcatCut, ZenonT(40)
    <3>4. QED
      BY <3>3, Zenon DEF head, tail
  <2> HIDE DEF head, tail
  <2>5. b \o head \in Seq(Byte)
    BY <2>1, <2>4, SMT
  <2>6. Stream(e)' = Stream(e)
    BY <2>1, <2>3, <2>4, Zenon DEF Stream
  <2>7. UNCHANGED <<lifeVars, eof, sent, handled>> /\ reading' = [reading EXCEPT ![e] = TRUE]
    BY <1>3, Zenon DEF Arrive
  <2>8. DataTypes'
    <3>1. wire' \in [End -> Seq(Byte)] /\ buffer' \in [End -> Seq(Byte)]
      BY <2>0, <2>2, <2>4, <2>5, Zenon DEF head, tail
    <3>2. QED
      BY <1>0, <2>7, <3>1, Zenon DEF DataTypes, lifeVars
  <2>9. sent[e] # <<>>
    <3>1. Len(Stream(e)) > 0
      <4> DEFINE x == b \o w
      <4>1. Len(x) > 0
        BY <2>0, <2>1, SMT
      <4>2. QED
        BY <4>1, <2>1, Zenon
    <3>2. Stream(e) \in Seq(Byte) /\ sent[e] \in Seq(Message)
      BY <1>0, StreamTypes, Zenon
    <3>3. QED
      BY <1>0, <3>1, <3>2, CarriedSome, Zenon DEF EndInv
  <2>10. ASSUME NEW f \in End PROVE EndInv(f)'
    <3>1. Flowing(f)' = Flowing(f) /\ RefusedLong(f)'
      BY <1>0, <2>7, Zenon DEF EndInv, lifeVars, Flowing, RefusedLong
    <3>2. CASE f = e
      BY <1>0, <2>6, <2>7, <2>9, <3>1, <3>2, Zenon DEF EndInv
    <3>3. CASE f # e
      BY <1>0, <2>2, <2>3, <2>7, <3>1, <3>3, EndSame, Zenon
    <3>4. QED
      BY <3>2, <3>3, Zenon
  <2>11. QED
    BY <2>8, <2>10, Zenon
<1>4. ASSUME NEW e \in End, HandleMessage(e) PROVE DataTypes' /\ \A f \in End : EndInv(f)'
  <2> DEFINE w == wire[e]
             b == buffer[e]
             s == sent[e]
             h == handled[e]
             r == RecieveAmessage(b)
  <2>1. /\ CanProceed(b) /\ reading[e]
        /\ buffer' = [buffer EXCEPT ![e] = r.rest] /\ handled' = [handled EXCEPT ![e] = Append(h, r.msg)]
        /\ UNCHANGED <<lifeVars, wire, eof, reading, sent>>
    BY <1>4, Zenon DEF HandleMessage
  <2>2. w \in Seq(Byte) /\ b \in Seq(Byte) /\ s \in Seq(Message) /\ h \in Seq(Message)
    BY <1>0, StreamTypes, Zenon
  <2>3. Carried(b \o w, s, h, Flowing(e))
    BY <1>0, Zenon DEF EndInv, Stream
  <2>4. buffer \in [End -> Seq(Byte)] /\ handled \in [End -> Seq(Message)]
    BY <1>0, Zenon DEF DataTypes
  <2>5. /\ buffer'[e] = r.rest /\ handled'[e] = Append(h, r.msg)
        /\ \A f \in End : f # e => buffer'[f] = buffer[f] /\ handled'[f] = handled[f]
    BY <2>1, <2>4, Zenon
  <2>w. wire'[e] = w /\ sent'[e] = s
    BY <2>1, Zenon
  <2> HIDE DEF w, b, s, h, r
  <2>6. /\ r.msg \in Message /\ r.rest \in Seq(Byte)
        /\ Carried(r.rest \o w, s, Append(h, r.msg), Flowing(e))
    BY <2>1, <2>2, <2>3, CarriedHandled, Zenon DEF r
  <2>7. Append(h, r.msg) \in Seq(Message)
    <3> DEFINE m == r.msg
    <3>1. m \in Message
      BY <2>6, Zenon
    <3> HIDE DEF m
    <3>2. Append(h, m) \in Seq(Message)
      BY <2>2, <3>1, SMT
    <3>3. QED
      BY <3>2, Zenon DEF m
  <2>8. DataTypes'
    <3>1. buffer' \in [End -> Seq(Byte)] /\ handled' \in [End -> Seq(Message)]
      BY <2>1, <2>4, <2>6, <2>7, Zenon
    <3>2. QED
      BY <1>0, <2>1, <3>1, Zenon DEF DataTypes, lifeVars
  <2>9. ASSUME NEW f \in End PROVE EndInv(f)'
    <3>1. Flowing(f)' = Flowing(f) /\ RefusedLong(f)'
      BY <1>0, <2>1, Zenon DEF EndInv, lifeVars, Flowing, RefusedLong
    <3>2. CASE f = e
      <4>1. Carried(Stream(e)', sent'[e], handled'[e], Flowing(e)')
        BY <2>5, <2>6, <2>w, <3>1, <3>2, Zenon DEF Stream
      <4>2. QED
        BY <1>0, <2>1, <3>1, <3>2, <4>1, Zenon DEF EndInv
    <3>3. CASE f # e
      BY <1>0, <2>1, <2>5, <3>1, <3>3, EndSame, Zenon
    <3>4. QED
      BY <3>2, <3>3, Zenon
  <2>10. QED
    BY <2>8, <2>9, Zenon
<1>5. ASSUME NEW e \in End, Refuse(e) PROVE DataTypes' /\ \A f \in End : EndInv(f)'
  <2> DEFINE g == Peer(e)
  <2>1. g \in End /\ g # e /\ Peer(g) = e /\ \A f \in End : f = e \/ f = g
    BY Peers, Zenon
  <2>2. /\ reading[e] /\ TooLong(buffer[e])
        /\ state' = [state EXCEPT ![e] = IF state[e] = "up" THEN "half" ELSE state[e]]
        /\ eof' = [eof EXCEPT ![g] = TRUE]
        /\ reading' = [reading EXCEPT ![e] = FALSE] /\ refused' = refused \cup {e}
        /\ UNCHANGED <<known, latch, crashed, broken, wire, buffer, sent, handled>>
    BY <1>5, Zenon DEF Refuse, ShutDown
  <2>3. /\ state \in [End -> {"new", "up", "half", "down"}] /\ reading \in [End -> BOOLEAN]
        /\ state[e] \in {"up", "half"} /\ eof \in [End -> BOOLEAN]
    BY <1>0, <2>2 DEF LifeInv, Open, DataTypes
  <2>4. state'[e] = "half" /\ state'[g] = state[g] /\ eof'[e] = eof[e]
    BY <2>1, <2>2, <2>3
  <2>5. DataTypes'
    BY <1>0, <2>1, <2>2 DEF DataTypes
  <2>6. RefusedLong(e)'
    <3>1. wire[e] \in Seq(Byte) /\ buffer[e] \in Seq(Byte)
          /\ sent[e] \in Seq(Message) /\ handled[e] \in Seq(Message)
      BY <1>0, StreamTypes, Zenon
    <3>2. Carried(buffer[e] \o wire[e], sent[e], handled[e], Flowing(e)) /\ sent[e] # <<>>
      BY <1>0, <2>2, Zenon DEF EndInv, Stream
    <3>3. \E m \in ToSet(sent[e]) : Len(Serialize(m)) > MaxLen
      BY <2>2, <3>1, <3>2, CarriedTooLong, Zenon
    <3>4. QED
      BY <2>2, <2>4, <3>3 DEF RefusedLong
  <2>7. EndInv(e)'
    <3>1. Flowing(e)' = Flowing(e)
      BY <2>2, <2>4, Zenon DEF Flowing
    <3>2. QED
      BY <1>0, <2>2, <2>3, <2>4, <2>6, <3>1, EndSame, Zenon
  <2>8. EndInv(g)'
    <3>1. RefusedLong(g)'
      <4>1. g \in refused' => g \in refused
        BY <2>1, <2>2
      <4>2. QED
        BY <1>0, <2>1, <2>2, <2>4, <4>1, RefusedSame, Zenon
    <3>2. ~Flowing(g)'
      BY <2>1, <2>4 DEF Flowing
    <3>3. reading'[g] => reading[g]
      BY <2>1, <2>2, <2>3, Zenon
    <3> HIDE DEF g
    <3>4. QED
      BY <2>1, <2>2, <3>1, <3>2, <3>3, EndClosed, Zenon
  <2>9. QED
    BY <2>1, <2>5, <2>7, <2>8, Zenon
<1>6. ASSUME NEW e \in End, Stop(e) PROVE DataTypes' /\ \A f \in End : EndInv(f)'
  <2>1. UNCHANGED <<lifeVars, wire, eof, buffer, sent, handled>> /\ reading' = [reading EXCEPT ![e] = FALSE]
        /\ reading \in [End -> BOOLEAN]
    BY <1>0, <1>6, Zenon DEF Stop, LifeInv
  <2>2. DataTypes'
    BY <1>0, <2>1, Zenon DEF DataTypes, lifeVars
  <2>3. ASSUME NEW f \in End PROVE EndInv(f)'
    <3>1. Flowing(f)' = Flowing(f) /\ RefusedLong(f)'
      BY <1>0, <2>1, Zenon DEF EndInv, lifeVars, Flowing, RefusedLong
    <3>2. reading'[f] => reading[f]
      BY <2>1
    <3>3. QED
      BY <1>0, <2>1, <3>1, <3>2, EndSame, Zenon
  <2>4. QED
    BY <2>2, <2>3, Zenon
<1>7. ASSUME NEW e \in End, NEW m \in Message, Send(e, m)
      PROVE  DataTypes' /\ \A f \in End : EndInv(f)'
  <2> DEFINE g == Peer(e)
             s == sent[g]
             w == wire[g]
             b == buffer[g]
             c == Serialize(m)
  <2>1. g \in End /\ g # e /\ Peer(g) = e /\ \A f \in End : f = e \/ f = g
    BY Peers, Zenon
  <2>2. /\ state[e] = "up"
        /\ sent' = [sent EXCEPT ![g] = Append(s, m)]
        /\ wire' = IF broken THEN wire ELSE [wire EXCEPT ![g] = w \o c]
        /\ UNCHANGED <<lifeVars, eof, buffer, reading, handled>>
    BY <1>7, Zenon DEF Send, Transmit
  <2>3. s \in Seq(Message) /\ w \in Seq(Byte) /\ b \in Seq(Byte) /\ handled[g] \in Seq(Message)
        /\ c \in Seq(Byte) /\ Stream(g) = b \o w /\ Stream(g) \in Seq(Byte)
    BY <1>0, <2>1, StreamTypes, SerializeIs, Zenon DEF Stream
  <2>4. sent \in [End -> Seq(Message)] /\ wire \in [End -> Seq(Byte)]
    BY <1>0, Zenon DEF DataTypes
  <2>5. /\ sent'[g] = Append(s, m) /\ \A f \in End : f # g => sent'[f] = sent[f] /\ wire'[f] = wire[f]
        /\ wire'[g] = IF broken THEN w ELSE w \o c
    BY <2>1, <2>2, <2>4, Zenon
  <2>6. buffer'[g] = b /\ handled'[g] = handled[g]
    BY <2>2, Zenon
  <2>c. Carried(Stream(g), s, handled[g], Flowing(g))
    BY <1>0, <2>1, Zenon DEF EndInv
  <2>d. Flowing(g) = ~broken /\ broken \in BOOLEAN
    BY <1>0, <2>1, <2>2 DEF Flowing, DataTypes
  <2>s. s = sent[g]
    OBVIOUS
  <2> HIDE DEF s, w, b, c
  <2>7. Append(s, m) \in Seq(Message) /\ w \o c \in Seq(Byte) /\ (b \o w) \o c = b \o (w \o c)
        /\ (b \o w) \o c \in Seq(Byte)
    BY <2>3, SMT
  <2>8. DataTypes'
    <3>1. sent' \in [End -> Seq(Message)]
      BY <2>2, <2>4, <2>7, Zenon
    <3>2. wire' \in [End -> Seq(Byte)]
      <4>1. CASE broken
        BY <2>2, <2>4, <4>1, Zenon
      <4>2. CASE ~broken
        BY <2>2, <2>4, <2>7, <4>2, Zenon
      <4>3. QED
        BY <4>1, <4>2, Zenon
    <3>3. QED
      BY <1>0, <2>2, <3>1, <3>2, Zenon DEF DataTypes, lifeVars
  <2>9. ToSet(s) \subseteq ToSet(Append(s, m))
    <3> DEFINE t == Append(s, m)
    <3>1. s \in Seq(Message)
      BY <2>3
    <3>2. DOMAIN s \subseteq DOMAIN t /\ \A i \in DOMAIN s : t[i] = s[i]
      BY <3>1, SMT
    <3> HIDE DEF t
    <3>3. ToSet(s) \subseteq ToSet(t)
      BY <3>2, Zenon DEF ToSet
    <3>4. QED
      BY <3>3, Zenon DEF t
  <2>10. ASSUME NEW f \in End PROVE Flowing(f)' = Flowing(f) /\ RefusedLong(f)'
    <3>1. Flowing(f)' = Flowing(f)
      BY <2>2, Zenon DEF lifeVars, Flowing
    <3>2. RefusedLong(f)
      BY <1>0, Zenon DEF EndInv
    <3>3. ToSet(sent[f]) \subseteq ToSet(sent'[f])
      BY <2>5, <2>9, <2>s, Zenon
    <3>4. QED
      BY <2>2, <3>1, <3>2, <3>3, Zenon DEF RefusedLong, lifeVars
  <2>11. EndInv(g)'
    <3>1. Stream(g)' \in Seq(Byte) /\ \/ Stream(g)' = Stream(g) /\ ~Flowing(g)
                                      \/ Flowing(g) /\ Stream(g)' = Stream(g) \o c
      <4>1. CASE broken
        BY <2>3, <2>5, <2>6, <2>d, <4>1, Zenon DEF Stream
      <4>2. CASE ~broken
        <5>1. Stream(g)' = b \o (w \o c)
          BY <2>5, <2>6, <4>2, Zenon DEF Stream
        <5>2. QED
          BY <2>3, <2>7, <2>d, <4>2, <5>1, Zenon
      <4>3. QED
        BY <4>1, <4>2, Zenon
    <3> DEFINE y == Stream(g)'
    <3>2. y \in Seq(Byte) /\ \/ y = Stream(g) /\ ~Flowing(g)
                             \/ Flowing(g) /\ y = Stream(g) \o Serialize(m)
      BY <3>1, Zenon DEF c
    <3> HIDE DEF y
    <3>3. Carried(y, Append(s, m), handled[g], Flowing(g))
      BY <2>3, <2>c, <3>2, CarriedMore, Zenon
    <3>4. Carried(Stream(g)', sent'[g], handled'[g], Flowing(g)')
      BY <2>1, <2>5, <2>6, <2>10, <3>3, Zenon DEF y
    <3>5. sent'[g] # <<>>
      <4>1. Append(s, m) # <<>>
        <5>1. s \in Seq(Message)
          BY <2>3
        <5> DEFINE t == Append(s, m)
        <5>2. Len(t) # 0 /\ Len(<<>>) = 0
          BY <5>1, SMT
        <5> HIDE DEF t
        <5>3. t # <<>>
          BY <5>2, Zenon
        <5>4. QED
          BY <5>3, Zenon DEF t
      <4>2. QED
        BY <2>5, <4>1, Zenon
    <3>6. eof'[g] => ~Flowing(g)'
      BY <1>0, <2>1, <2>2, <2>10, Zenon DEF EndInv
    <3>7. QED
      BY <2>1, <2>10, <3>4, <3>5, <3>6, Zenon DEF EndInv
  <2>12. EndInv(e)'
    BY <1>0, <2>1, <2>2, <2>5, <2>10, EndSame, Zenon
  <2>13. QED
    BY <2>1, <2>8, <2>11, <2>12, Zenon
<1>8. CASE CountDown
  <2>1. DataTypes'
    BY <1>0, <1>8 DEF CountDown, dataVars, DataTypes
  <2>2. ASSUME NEW f \in End PROVE EndInv(f)'
    <3>1. Flowing(f)' = Flowing(f) /\ RefusedLong(f)'
      BY <1>0, <1>8, Zenon DEF CountDown, dataVars, EndInv, Flowing, RefusedLong
    <3>2. QED
      BY <1>0, <1>8, <3>1, EndSame, Zenon DEF CountDown, dataVars
  <2>3. QED
    BY <2>1, <2>2, Zenon
<1>9. CASE UseNull
  <2>1. DataTypes'
    BY <1>0, <1>9, Zenon DEF UseNull, dataVars, DataTypes
  <2>2. ASSUME NEW f \in End PROVE EndInv(f)'
    <3>1. Flowing(f)' = Flowing(f) /\ RefusedLong(f)'
      BY <1>0, <1>9, Zenon DEF UseNull, dataVars, EndInv, Flowing, RefusedLong
    <3>2. QED
      BY <1>0, <1>9, <3>1, EndSame, Zenon DEF UseNull, dataVars
  <2>3. QED
    BY <2>1, <2>2, Zenon
<1>10. CASE Disconnect
  <2> DEFINE e == Client
             g == Peer(e)
  <2>1. e \in End /\ g \in End /\ g # e /\ Peer(g) = e /\ \A f \in End : f = e \/ f = g
    BY Ends, Peers, Zenon
  <2>2. /\ state[e] = "up"
        /\ state' = [state EXCEPT ![e] = IF state[e] = "up" THEN "half" ELSE state[e]]
        /\ eof' = [eof EXCEPT ![g] = TRUE]
        /\ UNCHANGED <<known, latch, crashed, refused, broken, wire, buffer, reading, sent, handled>>
    BY <1>10, Zenon DEF Disconnect, ShutDown
  <2>3. state \in [End -> {"new", "up", "half", "down"}] /\ eof \in [End -> BOOLEAN]
    BY <1>0, Zenon DEF LifeInv, DataTypes
  <2> HIDE DEF e, g
  <2>4. state'[e] = "half" /\ state'[g] = state[g] /\ eof'[e] = eof[e]
    BY <2>1, <2>2, <2>3
  <2>5. DataTypes'
    BY <1>0, <2>1, <2>2 DEF DataTypes
  <2>6. ASSUME NEW f \in End PROVE RefusedLong(f)'
    <3>1. state[f] \in {"half", "down"} => state'[f] \in {"half", "down"}
      BY <2>1, <2>4
    <3>2. QED
      BY <1>0, <2>2, <3>1, RefusedSame, Zenon
  <2>7. EndInv(e)'
    <3>1. Peer(e) = g
      BY Zenon DEF g
    <3>2. Flowing(e)' = Flowing(e)
      BY <2>2, <2>4, <3>1, Zenon DEF Flowing
    <3>3. QED
      BY <1>0, <2>1, <2>2, <2>4, <2>6, <3>2, EndSame, Zenon
  <2>8. EndInv(g)'
    <3>1. ~Flowing(g)'
      BY <2>1, <2>4 DEF Flowing
    <3>2. QED
      BY <2>1, <2>2, <2>6, <3>1, EndClosed, Zenon
  <2>9. QED
    BY <2>1, <2>5, <2>7, <2>8, Zenon
<1>11. CASE Break
  <2>1. /\ broken' = TRUE /\ wire' = [e \in End |-> <<>>] /\ eof' = [e \in End |-> TRUE]
        /\ UNCHANGED <<state, known, latch, crashed, refused, buffer, reading, sent, handled>>
    BY <1>11, Zenon DEF Break
  <2>2. <<>> \in Seq(Byte)
    BY SMT
  <2>3. DataTypes'
    <3>1. wire' \in [End -> Seq(Byte)] /\ eof' \in [End -> BOOLEAN] /\ broken' \in BOOLEAN
      BY <2>1, <2>2, Zenon
    <3>2. QED
      BY <1>0, <2>1, <3>1, Zenon DEF DataTypes
  <2>4. ASSUME NEW f \in End PROVE EndInv(f)'
    <3>1. ~Flowing(f)' /\ RefusedLong(f)'
      BY <1>0, <2>1, RefusedSame, Zenon DEF Flowing
    <3>2. Stream(f)' = buffer[f] \o <<>>
      BY <2>1, Zenon DEF Stream
    <3> DEFINE b == buffer[f]
               w == wire[f]
               x == b \o w
               y == b \o <<>>
    <3>3. b \in Seq(Byte) /\ w \in Seq(Byte) /\ Stream(f) = x
      BY <1>0, StreamTypes, Zenon DEF Stream
    <3> HIDE DEF b, w
    <3>4. y \in Seq(Byte) /\ Len(y) <= Len(x) /\ \A i \in 1..Len(y) : y[i] = x[i]
      BY <3>3, SMT
    <3>5. Stream(f)' \in Seq(Byte) /\ Len(Stream(f)') <= Len(Stream(f))
          /\ \A i \in 1..Len(Stream(f)') : Stream(f)'[i] = Stream(f)[i]
      <4> HIDE DEF x
      <4>1. Stream(f)' = y
        BY <3>2, Zenon DEF b
      <4> HIDE DEF y
      <4>2. QED
        BY <3>3, <3>4, <4>1, Zenon
    <3>6. QED
      BY <2>1, <3>1, <3>5, EndCut, Zenon
  <2>5. QED
    BY <2>3, <2>4, Zenon
<1>12. CASE UNCHANGED vars
  <2>1. DataTypes'
    BY <1>0, <1>12, Zenon DEF vars, lifeVars, dataVars, DataTypes
  <2>2. ASSUME NEW f \in End PROVE EndInv(f)'
    <3>1. Flowing(f)' = Flowing(f) /\ RefusedLong(f)'
      BY <1>0, <1>12, Zenon DEF vars, lifeVars, dataVars, EndInv, Flowing, RefusedLong
    <3>2. QED
      BY <1>0, <1>12, <3>1, EndSame, Zenon DEF vars, lifeVars, dataVars
  <2>3. QED
    BY <2>1, <2>2, Zenon
<1>13. QED
  BY <1>1, <1>2, <1>3, <1>4, <1>5, <1>6, <1>7, <1>8, <1>9, <1>10, <1>11, <1>12 DEF Next, LoopStep

LEMMA StreamInvariant == Spec => []StreamInv
<1>1. Init => StreamInv
  <2> SUFFICES ASSUME Init PROVE StreamInv
    OBVIOUS
  <2>1. LifeInv
    BY Ends DEF Init, LifeInv, Open, NullOnlyAfterClose
  <2>2. <<>> \in Seq(Byte) /\ <<>> \in Seq(Message) /\ <<>> \o <<>> = <<>>
    BY SMT
  <2>3. DataTypes
    BY <2>2, Zenon DEF Init, DataTypes
  <2>4. ASSUME NEW e \in End PROVE EndInv(e)
    <3>1. Stream(e) = <<>> /\ sent[e] = <<>> /\ handled[e] = <<>> /\ eof[e] = FALSE /\ reading[e] = FALSE
      BY <2>2, Zenon DEF Init, Stream
    <3>2. PiecesOf(<<>>) = <<>> /\ Len(<<>>) = 0
      <4>1. Len(<<>>) = 0 /\ 1..0 = {}
        BY SMT
      <4>2. PiecesOf(<<>>) = [i \in {} |-> Serialize(<<>>[i])]
        BY <4>1, Zenon DEF PiecesOf
      <4>3. QED
        BY <4>1, <4>2
    <3>3. Follows(<<>>, PiecesOf(<<>>), Len(<<>>), Flowing(e))
      BY <3>2, NothingFollows, Zenon
    <3>4. Len(<<>>) <= Len(<<>>) /\ \A i \in 1..Len(<<>>) : <<>>[i] = <<>>[i]
      BY SMT
    <3>5. Carried(<<>>, <<>>, <<>>, Flowing(e))
      BY <3>3, <3>4, Zenon DEF Carried
    <3>6. RefusedLong(e)
      BY DEF Init, RefusedLong
    <3>7. QED
      BY <3>1, <3>5, <3>6, Zenon DEF EndInv
  <2>5. QED
    BY <2>1, <2>3, <2>4, Zenon DEF StreamInv
<1>2. QED
  BY <1>1, NextStreamInv, PTL DEF Spec

\* Every part of a connection stays of its type, and what is read off the
\* buffer is a message that may be sent (network.hpp:70-131).
THEOREM ConnectionTypes == Spec => []TypeOK
<1>1. StreamInv => TypeOK
  BY Zenon DEF StreamInv, LifeInv, DataTypes, EndInv, RefusedLong, TypeOK
<1>2. QED
  BY <1>1, StreamInvariant, PTL

\* The handlers of an end get a beginning of the messages sent to it, whole,
\* once and in order: wherever TCP cuts the bytes, whatever of them a close
\* or a loss takes, and whatever is refused (network.hpp:243-284, :366-395).
THEOREM HandledAsTheyWereSent == Spec => []HandledAsSent
<1>1. StreamInv => HandledAsSent
  <2> SUFFICES ASSUME StreamInv, NEW e \in End PROVE IsPrefix(handled[e], sent[e])
    BY Zenon DEF HandledAsSent
  <2> DEFINE h == handled[e]
             s == sent[e]
  <2>1. h \in Seq(Message) /\ s \in Seq(Message)
    BY StreamTypes, Zenon DEF StreamInv
  <2>2. Len(h) <= Len(s) /\ \A i \in 1..Len(h) : h[i] = s[i]
    BY Zenon DEF StreamInv, EndInv, Carried
  <2> HIDE DEF h, s
  <2>3. IsPrefix(h, s)
    BY <2>1, <2>2, SMT DEF IsPrefix
  <2>4. QED
    BY <2>3, Zenon DEF h, s
<1>2. QED
  BY <1>1, StreamInvariant, PTL

\* A buffer that is found too long is the beginning of a message beyond the
\* limit: messages within it are never taken for one, however many of them
\* are read at once (network.hpp:248-256, :371-379).
THEOREM OnlyLongRefused == Spec => []ShortNeverRefused
<1>1. StreamInv => ShortNeverRefused
  BY Zenon DEF StreamInv, DataTypes, EndInv, RefusedLong, ShortNeverRefused
<1>2. QED
  BY <1>1, StreamInvariant, PTL
=============================================================================
