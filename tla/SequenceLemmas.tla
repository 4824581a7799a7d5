--------------------------- MODULE SequenceLemmas ---------------------------
(***************************************************************************)
(* Facts about sequences that the proofs about texts and paths need, most  *)
(* of them by induction.  The induction theorems of the library take an    *)
(* operator as a parameter, which the provers cannot instantiate; here an  *)
(* induction hypothesis is a set, and of the recursive function in         *)
(* FlattenSeq it is shown that it exists.                                  *)
(***************************************************************************)
EXTENDS Integers, Sequences, SequencesExt, SequenceTheorems, WellFoundedInduction, TLAPS

(* A set that has 0, and n + 1 with n, has every natural number.           *)
LEMMA SetInduction ==
  ASSUME NEW S, 0 \in S, \A n \in Nat : n \in S => n + 1 \in S
  PROVE  Nat \subseteq S
<1> DEFINE T == Nat \ S
           R == OpToRel(<, Nat)
<1> SUFFICES ASSUME T # {} PROVE FALSE
  OBVIOUS
<1>1. IsWellFoundedOn(R, Nat)
  BY NatLessThanWellFounded
<1>2. PICK x \in T : \A y \in T : ~(<<y, x>> \in R)
  <2>1. T \subseteq Nat
    OBVIOUS
  <2> HIDE DEF T, R
  <2> QED  BY <1>1, <2>1, WFMin
<1>3. x \in Nat /\ x - 1 \in Nat /\ x - 1 < x /\ (x - 1) + 1 = x
  OBVIOUS
<1>4. <<x - 1, x>> \in R
  BY <1>3 DEF OpToRel
<1> QED  BY <1>2, <1>3, <1>4

(* A set that has <<>>, and with a sequence every longer one, has all.     *)
LEMMA SequenceInduction ==
  ASSUME NEW A, NEW S, <<>> \in S,
         \A s \in Seq(A) : \A x \in A : s \in S => Append(s, x) \in S
  PROVE  Seq(A) \subseteq S
<1> DEFINE N == {n \in Nat : \A s \in Seq(A) : Len(s) = n => s \in S}
<1>1. 0 \in N
  BY EmptySeq
<1>2. ASSUME NEW n \in Nat, n \in N PROVE n + 1 \in N
  <2>1. ASSUME NEW s \in Seq(A), Len(s) = n + 1 PROVE s \in S
    <3>1. s # <<>>
      BY <2>1, EmptySeq
    <3>2. PICK t \in Seq(A), x \in A : s = Append(t, x)
      BY <3>1, SequenceEmptyOrAppend
    <3>3. Len(t) = n
      BY <2>1, <3>2, AppendProperties, LenProperties
    <3> QED  BY <1>2, <3>2, <3>3
  <2> QED  BY <2>1
<1>3. Nat \subseteq N
  <2> HIDE DEF N
  <2> QED  BY <1>1, <1>2, SetInduction
<1> QED  BY <1>3, LenProperties

-----------------------------------------------------------------------------
(* FlattenSeq.                                                             *)

(* f[i] is the first i pieces together.                                    *)
Flattens(f, pieces) ==
  f = [i \in 1..Len(pieces) |-> IF i = 1 THEN pieces[i] ELSE f[i - 1] \o pieces[i]]

LEMMA FlattensOne ==
  ASSUME NEW pieces, NEW f, Flattens(f, pieces), NEW i \in 1..Len(pieces)
  PROVE  f[i] = IF i = 1 THEN pieces[i] ELSE f[i - 1] \o pieces[i]
BY DEF Flattens

LEMMA FlattensExists ==
  ASSUME NEW A, NEW pieces \in Seq(Seq(A))
  PROVE  \E f \in [1..Len(pieces) -> Seq(A)] : Flattens(f, pieces)
<1> DEFINE S == {p \in Seq(Seq(A)) : \E f \in [1..Len(p) -> Seq(A)] : Flattens(f, p)}
<1>1. <<>> \in S
  <2> DEFINE f == [i \in 1..0 |-> <<>>]
  <2>1. <<>> \in Seq(Seq(A)) /\ Len(<<>>) = 0
    BY EmptySeq
  <2>2. f \in [1..0 -> Seq(A)] /\ Flattens(f, <<>>)
    BY <2>1 DEF Flattens
  <2> QED  BY <2>1, <2>2
<1>2. ASSUME NEW p \in Seq(Seq(A)), NEW s \in Seq(A), p \in S
      PROVE  Append(p, s) \in S
  <2>1. PICK f \in [1..Len(p) -> Seq(A)] : Flattens(f, p)
    BY <1>2
  <2> DEFINE n == Len(p)
             last == IF n = 0 THEN s ELSE f[n] \o s
             g == [i \in 1..(n + 1) |-> IF i = n + 1 THEN last ELSE f[i]]
  <2>2. /\ n \in Nat
        /\ Append(p, s) \in Seq(Seq(A))
        /\ Len(Append(p, s)) = n + 1
        /\ \A i \in 1..n : Append(p, s)[i] = p[i]
        /\ Append(p, s)[n + 1] = s
    BY AppendProperties, LenProperties
  <2>3. last \in Seq(A)
    <3>1. CASE n = 0
      BY <3>1
    <3>2. CASE n # 0
      <4>1. n \in 1..Len(p)
        BY <2>2, <3>2
      <4>2. f[n] \in Seq(A)
        BY <4>1
      <4> QED  BY <3>2, <4>2, ConcatProperties
    <3> QED  BY <3>1, <3>2
  <2>4. g \in [1..(n + 1) -> Seq(A)]
    BY <2>2, <2>3
  <2>5. ASSUME NEW i \in 1..(n + 1)
        PROVE  g[i] = IF i = 1 THEN Append(p, s)[i] ELSE g[i - 1] \o Append(p, s)[i]
    <3>1. CASE i = n + 1
      <4>1. g[i] = last /\ Append(p, s)[i] = s
        BY <2>2, <3>1
      <4>2. i # 1 => g[i - 1] = f[n]
        BY <2>2, <3>1
      <4> QED  BY <2>2, <3>1, <4>1, <4>2
    <3>2. CASE i \in 1..n
      <4>1. f[i] = IF i = 1 THEN p[i] ELSE f[i - 1] \o p[i]
        BY <2>1, <3>2, FlattensOne
      <4>2. g[i] = f[i] /\ (i # 1 => g[i - 1] = f[i - 1]) /\ Append(p, s)[i] = p[i]
        BY <2>2, <3>2
      <4> QED  BY <4>1, <4>2
    <3> QED  BY <2>2, <3>1, <3>2
  <2>6. Flattens(g, Append(p, s))
    <3> HIDE DEF last
    <3> QED  BY <2>2, <2>4, <2>5 DEF Flattens
  <2> QED  BY <2>2, <2>4, <2>6
<1>3. Seq(Seq(A)) \subseteq S
  <2> HIDE DEF S
  <2> QED  BY <1>1, <1>2, SequenceInduction
<1> QED  BY <1>3

Begins(p, q) == Len(p) <= Len(q) /\ \A i \in 1..Len(p) : p[i] = q[i]

LEMMA FlattensUnique ==
  ASSUME NEW A, NEW p \in Seq(Seq(A)), NEW q \in Seq(Seq(A)), Begins(p, q),
         NEW f, NEW g, Flattens(f, p), Flattens(g, q)
  PROVE  Begins(f, g)
<1> DEFINE m == Len(p)
<1>m. m \in Nat /\ Len(q) \in Nat
  BY LenProperties
<1> HIDE DEF m
<1> DEFINE S == {i \in Nat : i + 1 <= m => f[i + 1] = g[i + 1]}
<1>0. ASSUME NEW i \in 1..m
      PROVE  /\ f[i] = IF i = 1 THEN p[i] ELSE f[i - 1] \o p[i]
             /\ g[i] = IF i = 1 THEN q[i] ELSE g[i - 1] \o q[i]
             /\ p[i] = q[i]
  <2>1. i \in 1..Len(p) /\ i \in 1..Len(q) /\ p[i] = q[i]
    BY <1>m DEF m, Begins
  <2>2. f[i] = IF i = 1 THEN p[i] ELSE f[i - 1] \o p[i]
    BY <2>1, FlattensOne
  <2>3. g[i] = IF i = 1 THEN q[i] ELSE g[i - 1] \o q[i]
    BY <2>1, FlattensOne
  <2> QED  BY <2>1, <2>2, <2>3
<1>1. 0 \in S
  BY <1>0
<1>2. ASSUME NEW i \in Nat, i \in S PROVE i + 1 \in S
  <2>1. SUFFICES ASSUME i + 2 <= m PROVE f[i + 2] = g[i + 2]
    OBVIOUS
  <2>2. i + 2 \in 1..m /\ i + 2 # 1 /\ (i + 2) - 1 = i + 1
    BY <2>1
  <2>3. f[i + 2] = f[i + 1] \o p[i + 2] /\ g[i + 2] = g[i + 1] \o p[i + 2]
    BY <1>0, <2>2
  <2>4. f[i + 1] = g[i + 1]
    <3>1. i + 1 <= m
      BY <1>m, <2>1
    <3> QED  BY <1>2, <3>1
  <2> QED  BY <2>3, <2>4
<1>3. Nat \subseteq S
  <2> HIDE DEF S
  <2> QED  BY <1>1, <1>2, SetInduction
<1>d. Len(f) = m /\ Len(g) = Len(q)
  BY <1>m DEF Flattens, m
<1> SUFFICES ASSUME NEW i \in 1..m PROVE f[i] = g[i]
  BY <1>d DEF m, Begins
<1>4. i - 1 \in Nat /\ (i - 1) + 1 = i /\ (i - 1) + 1 <= m
  OBVIOUS
<1>5. i - 1 \in S
  <2> HIDE DEF S
  <2> QED  BY <1>3, <1>4
<1>6. f[(i - 1) + 1] = g[(i - 1) + 1]
  BY <1>4, <1>5
<1> QED  BY <1>4, <1>6

LEMMA FlattenSeqFlattens ==
  ASSUME NEW A, NEW pieces \in Seq(Seq(A)), pieces # <<>>
  PROVE  \E f \in [1..Len(pieces) -> Seq(A)] :
           Flattens(f, pieces) /\ FlattenSeq(pieces) = f[Len(pieces)]
<1> DEFINE g == CHOOSE f : Flattens(f, pieces)
           n == Len(pieces)
<1>1. n \in Nat \ {0}
  BY EmptySeq
<1>2. PICK f \in [1..n -> Seq(A)] : Flattens(f, pieces)
  BY FlattensExists
<1>3. Flattens(g, pieces)
  BY <1>2
<1>4. \A i \in 1..n : f[i] = g[i]
  <2> HIDE DEF g
  <2>1. Begins(pieces, pieces)
    BY <1>1 DEF Begins
  <2>2. Begins(f, g)
    BY <1>2, <1>3, <2>1, FlattensUnique
  <2> QED  BY <1>1, <2>2 DEF Begins
<1>5. FlattenSeq(pieces) = g[n]
  BY <1>1 DEF FlattenSeq, Flattens
<1>6. n \in 1..n
  BY <1>1
<1>7. FlattenSeq(pieces) = f[n]
  <2> HIDE DEF g, n
  <2> QED  BY <1>4, <1>5, <1>6
<1> QED  BY <1>2, <1>7

LEMMA FlattenEmpty == FlattenSeq(<<>>) = <<>>
BY EmptySeq DEF FlattenSeq

LEMMA FlattenType ==
  ASSUME NEW A, NEW pieces \in Seq(Seq(A))
  PROVE  FlattenSeq(pieces) \in Seq(A)
<1>1. CASE pieces = <<>>
  BY <1>1, FlattenEmpty, EmptySeq
<1>2. CASE pieces # <<>>
  <2>1. Len(pieces) \in 1..Len(pieces)
    BY <1>2, EmptySeq
  <2>2. PICK f \in [1..Len(pieces) -> Seq(A)] : FlattenSeq(pieces) = f[Len(pieces)]
    BY <1>2, FlattenSeqFlattens
  <2> QED  BY <2>1, <2>2
<1> QED  BY <1>1, <1>2

LEMMA FlattenAppend ==
  ASSUME NEW A, NEW p \in Seq(Seq(A)), NEW s \in Seq(A)
  PROVE  FlattenSeq(Append(p, s)) = FlattenSeq(p) \o s
<1> DEFINE n == Len(p)
<1>q. PICK q : q = Append(p, s)
  OBVIOUS
<1>1. /\ n \in Nat /\ q \in Seq(Seq(A)) /\ q # <<>> /\ Len(q) = n + 1
      /\ \A i \in 1..n : q[i] = p[i]
      /\ q[n + 1] = s
  BY <1>q, AppendProperties, LenProperties
<1>2. PICK g \in [1..Len(q) -> Seq(A)] : Flattens(g, q) /\ FlattenSeq(q) = g[Len(q)]
  BY <1>1, FlattenSeqFlattens
<1>3. n + 1 \in 1..Len(q)
  BY <1>1
<1>4. g[n + 1] = IF n + 1 = 1 THEN s ELSE g[n] \o s
  <2>1. g[n + 1] = IF n + 1 = 1 THEN q[n + 1] ELSE g[(n + 1) - 1] \o q[n + 1]
    BY <1>2, <1>3, FlattensOne
  <2>2. (n + 1) - 1 = n
    BY <1>1
  <2> QED  BY <1>1, <2>1, <2>2
<1>5. CASE p = <<>>
  <2>1. n = 0
    BY <1>5, EmptySeq
  <2> QED  BY <1>1, <1>2, <1>4, <1>5, <2>1, FlattenEmpty, ConcatEmptySeq, <1>q
<1>6. CASE p # <<>>
  <2>1. n # 0 /\ n \in 1..n
    BY <1>6, EmptySeq
  <2>2. PICK f \in [1..n -> Seq(A)] : Flattens(f, p) /\ FlattenSeq(p) = f[n]
    BY <1>6, FlattenSeqFlattens
  <2>3. \A i \in 1..n : f[i] = g[i]
    <3>1. Begins(p, q)
      BY <1>1 DEF Begins
    <3>2. /\ p \in Seq(Seq(A)) /\ q \in Seq(Seq(A))
          /\ Flattens(f, p) /\ Flattens(g, q)
      BY <1>1, <1>2, <2>2
    <3>3. Begins(f, g)
      BY ONLY <3>1, <3>2, FlattensUnique
    <3> QED  BY <1>1, <3>3 DEF Begins
  <2>4. n + 1 # 1
    BY <1>1, <2>1
  <2> QED  BY <1>1, <1>2, <1>4, <2>1, <2>2, <2>3, <2>4, <1>q
<1> QED  BY <1>5, <1>6

-----------------------------------------------------------------------------
(* The elements of sequences.                                              *)

LEMMA ElementsType ==
  ASSUME NEW A, NEW s \in Seq(A)
  PROVE  ToSet(s) \subseteq A
BY LenProperties, ElementOfSeq DEF ToSet

LEMMA ElementsOfEmpty == ToSet(<<>>) = {}
BY EmptySeq DEF ToSet

LEMMA ElementsOfConcat ==
  ASSUME NEW A, NEW s \in Seq(A), NEW t \in Seq(A)
  PROVE  ToSet(s \o t) = ToSet(s) \cup ToSet(t)
<1> DEFINE u == s \o t
           m == Len(s)
           n == Len(t)
<1>1. /\ m \in Nat /\ n \in Nat /\ u \in Seq(A) /\ Len(u) = m + n
      /\ DOMAIN s = 1..m /\ DOMAIN t = 1..n /\ DOMAIN u = 1..(m + n)
      /\ \A i \in 1..(m + n) : u[i] = IF i <= m THEN s[i] ELSE t[i - m]
  BY ConcatProperties, LenProperties
<1> HIDE DEF u, m, n
<1>2. ASSUME NEW x \in ToSet(u) PROVE x \in ToSet(s) \cup ToSet(t)
  <2>1. PICK i \in 1..(m + n) : x = u[i]
    BY <1>1, <1>2 DEF ToSet
  <2>2. CASE i <= m
    <3>1. i \in 1..m /\ x = s[i]
      BY <1>1, <2>1, <2>2
    <3> QED  BY <1>1, <3>1 DEF ToSet
  <2>3. CASE ~(i <= m)
    <3>1. i - m \in 1..n /\ x = t[i - m]
      BY <1>1, <2>1, <2>3
    <3> QED  BY <1>1, <3>1 DEF ToSet
  <2> QED  BY <2>2, <2>3
<1>3. ASSUME NEW x \in ToSet(s) PROVE x \in ToSet(u)
  <2>1. PICK i \in 1..m : x = s[i]
    BY <1>1, <1>3 DEF ToSet
  <2>2. i \in 1..(m + n) /\ u[i] = x
    BY <1>1, <2>1
  <2> QED  BY <1>1, <2>2 DEF ToSet
<1>4. ASSUME NEW x \in ToSet(t) PROVE x \in ToSet(u)
  <2>1. PICK i \in 1..n : x = t[i]
    BY <1>1, <1>4 DEF ToSet
  <2>2. i + m \in 1..(m + n) /\ ~(i + m <= m) /\ (i + m) - m = i
    BY <1>1, <2>1
  <2>3. u[i + m] = x
    BY <1>1, <2>1, <2>2
  <2> QED  BY <1>1, <2>2, <2>3 DEF ToSet
<1> QED  BY <1>2, <1>3, <1>4 DEF u

LEMMA ElementsOfOne ==
  ASSUME NEW x
  PROVE  ToSet(<<x>>) = {x}
<1>1. DOMAIN <<x>> = 1..1 /\ <<x>>[1] = x
  OBVIOUS
<1> QED  BY <1>1 DEF ToSet

LEMMA ElementsOfAppend ==
  ASSUME NEW A, NEW s \in Seq(A), NEW x \in A
  PROVE  ToSet(Append(s, x)) = ToSet(s) \cup {x}
<1>1. <<x>> \in Seq(A) /\ Append(s, x) = s \o <<x>>
  BY AppendIsConcat
<1>2. ToSet(s \o <<x>>) = ToSet(s) \cup ToSet(<<x>>)
  BY <1>1, ElementsOfConcat
<1> QED  BY <1>1, <1>2, ElementsOfOne

(* What is in the pieces is in the whole, and nothing else.                *)
LEMMA ElementsOfFlatten ==
  ASSUME NEW A, NEW pieces \in Seq(Seq(A))
  PROVE  ToSet(FlattenSeq(pieces)) = UNION {ToSet(p) : p \in ToSet(pieces)}
<1> DEFINE S == {q \in Seq(Seq(A)) :
                   ToSet(FlattenSeq(q)) = UNION {ToSet(p) : p \in ToSet(q)}}
<1>1. <<>> \in S
  BY EmptySeq, FlattenEmpty, ElementsOfEmpty
<1>2. ASSUME NEW q \in Seq(Seq(A)), NEW s \in Seq(A), q \in S
      PROVE  Append(q, s) \in S
  <2>1. Append(q, s) \in Seq(Seq(A))
    BY AppendProperties
  <2>2. FlattenSeq(Append(q, s)) = FlattenSeq(q) \o s /\ FlattenSeq(q) \in Seq(A)
    BY FlattenAppend, FlattenType
  <2>3. ToSet(FlattenSeq(Append(q, s))) = ToSet(FlattenSeq(q)) \cup ToSet(s)
    BY <2>2, ElementsOfConcat
  <2>4. ToSet(Append(q, s)) = ToSet(q) \cup {s}
    BY ElementsOfAppend
  <2> QED  BY <1>2, <2>1, <2>3, <2>4
<1>3. Seq(Seq(A)) \subseteq S
  <2> HIDE DEF S
  <2> QED  BY <1>1, <1>2, SequenceInduction
<1> QED  BY <1>3

-----------------------------------------------------------------------------
(* A sequence of which each element is replaced by a sequence.             *)

Spread(h, s) == FlattenSeq([i \in DOMAIN s |-> h[s[i]]])

LEMMA SpreadPieces ==
  ASSUME NEW A, NEW B, NEW h \in [A -> Seq(B)], NEW s \in Seq(A)
  PROVE  [i \in DOMAIN s |-> h[s[i]]] \in Seq(Seq(B))
<1>1. Len(s) \in Nat /\ DOMAIN s = 1..Len(s) /\ \A i \in 1..Len(s) : s[i] \in A
  BY LenProperties, ElementOfSeq
<1>2. [i \in DOMAIN s |-> h[s[i]]] \in [1..Len(s) -> Seq(B)]
  BY <1>1
<1> QED  BY <1>1, <1>2

LEMMA SpreadType ==
  ASSUME NEW A, NEW B, NEW h \in [A -> Seq(B)], NEW s \in Seq(A)
  PROVE  Spread(h, s) \in Seq(B)
<1> DEFINE p == [i \in DOMAIN s |-> h[s[i]]]
<1>1. p \in Seq(Seq(B))
  BY SpreadPieces
<1>2. FlattenSeq(p) \in Seq(B)
  <2> HIDE DEF p
  <2> QED  BY <1>1, FlattenType
<1> QED  BY <1>2 DEF Spread

LEMMA SpreadEmpty ==
  ASSUME NEW h
  PROVE  Spread(h, <<>>) = <<>>
<1>1. [i \in DOMAIN <<>> |-> h[<<>>[i]]] = <<>>
  OBVIOUS
<1> QED  BY <1>1, FlattenEmpty DEF Spread

LEMMA SpreadAppend ==
  ASSUME NEW A, NEW B, NEW h \in [A -> Seq(B)], NEW s \in Seq(A), NEW x \in A
  PROVE  Spread(h, Append(s, x)) = Spread(h, s) \o h[x]
<1> DEFINE t == Append(s, x)
           p == [i \in DOMAIN s |-> h[s[i]]]
           q == [i \in DOMAIN t |-> h[t[i]]]
           n == Len(s)
<1>1. /\ n \in Nat /\ t \in Seq(A) /\ Len(t) = n + 1
      /\ DOMAIN s = 1..n /\ DOMAIN t = 1..(n + 1)
      /\ \A i \in 1..n : t[i] = s[i]
      /\ t[n + 1] = x
  BY AppendProperties, LenProperties
<1> HIDE DEF t
<1>2. p \in Seq(Seq(B)) /\ q \in Seq(Seq(B)) /\ h[x] \in Seq(B)
  BY <1>1, SpreadPieces
<1>3. DOMAIN p = 1..n /\ \A i \in 1..n : p[i] = h[s[i]]
  BY <1>1
<1>4. DOMAIN q = 1..(n + 1) /\ \A i \in 1..(n + 1) : q[i] = h[t[i]]
  BY <1>1
<1> HIDE DEF p, q
<1>5. Len(p) = n /\ Len(q) = n + 1
  BY <1>1, <1>2, <1>3, <1>4, LenProperties
<1>6. q = Append(p, h[x])
  <2>1. /\ Append(p, h[x]) \in Seq(Seq(B))
        /\ Len(Append(p, h[x])) = n + 1
        /\ \A i \in 1..n : Append(p, h[x])[i] = p[i]
        /\ Append(p, h[x])[n + 1] = h[x]
    BY <1>2, <1>5, AppendProperties
  <2>2. \A i \in 1..(n + 1) : q[i] = Append(p, h[x])[i]
    <3> SUFFICES ASSUME NEW i \in 1..(n + 1) PROVE q[i] = Append(p, h[x])[i]
      OBVIOUS
    <3>1. CASE i \in 1..n
      BY <1>1, <1>3, <1>4, <2>1, <3>1
    <3>2. CASE i = n + 1
      BY <1>1, <1>4, <2>1, <3>2
    <3>3. i \in 1..n \/ i = n + 1
      BY <1>1
    <3> QED  BY ONLY <3>1, <3>2, <3>3
  <2> QED  BY <1>2, <1>5, <2>1, <2>2, SeqEqual
<1>7. FlattenSeq(q) = FlattenSeq(p) \o h[x]
  BY <1>2, <1>6, FlattenAppend
<1> QED  BY <1>7 DEF Spread, p, q, t

LEMMA SpreadConcat ==
  ASSUME NEW A, NEW B, NEW h \in [A -> Seq(B)], NEW s \in Seq(A), NEW t \in Seq(A)
  PROVE  Spread(h, s \o t) = Spread(h, s) \o Spread(h, t)
<1> DEFINE S == {u \in Seq(A) : Spread(h, s \o u) = Spread(h, s) \o Spread(h, u)}
<1>0. Spread(h, s) \in Seq(B)
  BY SpreadType
<1>1. <<>> \in S
  BY <1>0, EmptySeq, ConcatEmptySeq, SpreadEmpty
<1>2. ASSUME NEW u \in Seq(A), NEW x \in A, u \in S PROVE Append(u, x) \in S
  <2>1. Append(u, x) \in Seq(A) /\ s \o u \in Seq(A)
    BY AppendProperties, ConcatProperties
  <2>2. s \o Append(u, x) = Append(s \o u, x)
    <3>1. Append(u, x) = u \o <<x>> /\ Append(s \o u, x) = (s \o u) \o <<x>>
      BY <2>1, AppendIsConcat
    <3>2. <<x>> \in Seq(A)
      OBVIOUS
    <3> QED  BY <3>1, <3>2, ConcatAssociative
  <2>3. Spread(h, Append(s \o u, x)) = Spread(h, s \o u) \o h[x]
    BY <2>1, SpreadAppend
  <2>4. Spread(h, Append(u, x)) = Spread(h, u) \o h[x] /\ Spread(h, u) \in Seq(B)
    BY SpreadAppend, SpreadType
  <2>5. h[x] \in Seq(B)
    OBVIOUS
  <2>6. (Spread(h, s) \o Spread(h, u)) \o h[x] = Spread(h, s) \o (Spread(h, u) \o h[x])
    BY <1>0, <2>4, <2>5, ConcatAssociative
  <2> QED  BY <1>2, <2>1, <2>2, <2>3, <2>4, <2>6
<1>3. Seq(A) \subseteq S
  <2> HIDE DEF S
  <2> QED  BY <1>1, <1>2, SequenceInduction
<1> QED  BY <1>3

(* Nothing changes where every element is replaced by itself.              *)
LEMMA SpreadSame ==
  ASSUME NEW A, NEW h \in [A -> Seq(A)], NEW s \in Seq(A), \A x \in ToSet(s) : h[x] = <<x>>
  PROVE  Spread(h, s) = s
<1> DEFINE S == {u \in Seq(A) : (\A x \in ToSet(u) : h[x] = <<x>>) => Spread(h, u) = u}
<1>1. <<>> \in S
  BY EmptySeq, SpreadEmpty
<1>2. ASSUME NEW u \in Seq(A), NEW x \in A, u \in S PROVE Append(u, x) \in S
  <2>1. Append(u, x) \in Seq(A) /\ Append(u, x) = u \o <<x>>
    BY AppendProperties, AppendIsConcat
  <2>2. ToSet(Append(u, x)) = ToSet(u) \cup {x}
    BY ElementsOfAppend
  <2>3. Spread(h, Append(u, x)) = Spread(h, u) \o h[x]
    BY SpreadAppend
  <2> QED  BY <1>2, <2>1, <2>2, <2>3
<1>3. Seq(A) \subseteq S
  <2> HIDE DEF S
  <2> QED  BY <1>1, <1>2, SequenceInduction
<1> QED  BY <1>3

LEMMA ElementsOfSpread ==
  ASSUME NEW A, NEW B, NEW h \in [A -> Seq(B)], NEW s \in Seq(A)
  PROVE  ToSet(Spread(h, s)) = UNION {ToSet(h[x]) : x \in ToSet(s)}
<1> DEFINE p == [i \in DOMAIN s |-> h[s[i]]]
<1>1. p \in Seq(Seq(B))
  BY SpreadPieces
<1>2. ToSet(FlattenSeq(p)) = UNION {ToSet(q) : q \in ToSet(p)}
  <2> HIDE DEF p
  <2> QED  BY <1>1, ElementsOfFlatten
<1>3. ToSet(p) = {h[x] : x \in ToSet(s)}
  BY DEF ToSet
<1> QED  BY <1>2, <1>3 DEF Spread

-----------------------------------------------------------------------------
(* Beginnings.                                                             *)

LEMMA CutInFirst ==
  ASSUME NEW A, NEW s \in Seq(A), NEW t \in Seq(A), NEW j \in 0..Len(s)
  PROVE  SubSeq(s \o t, 1, j) = SubSeq(s, 1, j)
<1>1. Len(s) \in Nat
  BY LenProperties
<1>2. CASE j = 0
  <2>1. \A u : SubSeq(u, 1, 0) = <<>>
    BY SubSeqEmpty
  <2> QED  BY <1>2, <2>1
<1>3. CASE j # 0
  <2>1. j \in 1..Len(s) /\ 1 \in 1..Len(s)
    BY <1>1, <1>3
  <2> QED  BY <2>1, SubSeqOfConcat1
<1> QED  BY <1>2, <1>3

LEMMA CutInSecond ==
  ASSUME NEW A, NEW s \in Seq(A), NEW t \in Seq(A), NEW j \in 0..Len(t)
  PROVE  SubSeq(s \o t, 1, Len(s) + j) = s \o SubSeq(t, 1, j)
<1>m. PICK m : m = Len(s)
  OBVIOUS
<1>w. PICK whole : whole = s \o t
  OBVIOUS
<1>b. PICK begin : begin = SubSeq(t, 1, j)
  OBVIOUS
<1>p. PICK part : part = s \o begin
  OBVIOUS
<1>1. m \in Nat /\ Len(t) \in Nat /\ j \in Nat /\ j <= Len(t)
  BY <1>m, LenProperties
<1>2. \A i \in 1..j : t[i] \in A
  BY <1>1, ElementOfSeq
<1>3. begin \in Seq(A) /\ Len(begin) = j /\ \A i \in 1..j : begin[i] = t[i]
  <2>1. /\ begin \in Seq(A)
        /\ Len(begin) = IF 1 <= j THEN j - 1 + 1 ELSE 0
        /\ \A i \in 1..(j - 1 + 1) : begin[i] = t[1 + i - 1]
    BY <1>1, <1>2, <1>b, SubSeqProperties
  <2> QED  BY <1>1, <2>1
<1>4. /\ whole \in Seq(A) /\ Len(whole) = m + Len(t)
      /\ \A i \in 1..(m + Len(t)) : whole[i] = IF i <= m THEN s[i] ELSE t[i - m]
  BY <1>m, <1>w, ConcatProperties
<1>5. /\ part \in Seq(A) /\ Len(part) = m + j
      /\ \A i \in 1..(m + j) : part[i] = IF i <= m THEN s[i] ELSE begin[i - m]
  BY <1>m, <1>p, <1>3, ConcatProperties
<1>6. ASSUME NEW i \in 1..(m + j) PROVE whole[i] = part[i] /\ whole[i] \in A
  <2>1. i \in 1..(m + Len(t)) /\ i \in 1..Len(whole)
    BY <1>1, <1>4
  <2>2. whole[i] \in A
    BY <1>4, <2>1, ElementOfSeq
  <2>3. CASE i <= m
    BY <1>4, <1>5, <2>1, <2>2, <2>3
  <2>4. CASE ~(i <= m)
    <3>1. i - m \in 1..j
      BY <1>1, <2>4
    <3>2. whole[i] = t[i - m] /\ part[i] = begin[i - m]
      BY <1>4, <1>5, <2>1, <2>4
    <3> QED  BY <1>3, <2>2, <3>1, <3>2
  <2> QED  BY <2>3, <2>4
<1>7. PICK n : n = m + j
  OBVIOUS
<1>8. n \in Nat /\ \A i \in 1..n : whole[i] \in A
  BY <1>1, <1>6, <1>7
<1>9. PICK beginning : beginning = SubSeq(whole, 1, n)
  OBVIOUS
<1>10. /\ beginning \in Seq(A) /\ Len(beginning) = n
       /\ \A i \in 1..n : beginning[i] = whole[i]
  <2>1. /\ beginning \in Seq(A)
        /\ Len(beginning) = IF 1 <= n THEN n - 1 + 1 ELSE 0
        /\ \A i \in 1..(n - 1 + 1) : beginning[i] = whole[1 + i - 1]
    BY <1>8, <1>9, SubSeqProperties
  <2> QED  BY <1>8, <2>1
<1>11. \A i \in 1..n : beginning[i] = part[i]
  BY <1>6, <1>7, <1>10
<1>12. beginning = part
  BY <1>5, <1>7, <1>10, <1>11, SeqEqual
<1> QED  BY <1>m, <1>w, <1>b, <1>p, <1>7, <1>9, <1>12

LEMMA PrefixGrows ==
  ASSUME NEW A, NEW p \in Seq(A), NEW t \in Seq(A), NEW c \in A
  PROVE  IsPrefix(p, t) => IsPrefix(p, Append(t, c))
<1>1. /\ Append(t, c) \in Seq(A) /\ Len(Append(t, c)) = Len(t) + 1 /\ Append(t, c) = t \o <<c>>
      /\ Len(t) \in Nat /\ Len(p) \in Nat /\ <<c>> \in Seq(A)
  BY AppendProperties, AppendIsConcat, LenProperties
<1>2. ASSUME IsPrefix(p, t) PROVE IsPrefix(p, Append(t, c))
  <2>1. Len(p) <= Len(t) /\ SubSeq(p, 1, Len(p)) = SubSeq(t, 1, Len(p))
    BY <1>2 DEF IsPrefix
  <2>2. SubSeq(t \o <<c>>, 1, Len(p)) = SubSeq(t, 1, Len(p))
    BY <1>1, <2>1, CutInFirst
  <2> QED  BY <1>1, <2>1, <2>2 DEF IsPrefix
<1> QED  BY <1>2

LEMMA PrefixOfSelf ==
  ASSUME NEW A, NEW t \in Seq(A)
  PROVE  IsPrefix(t, t)
BY LenProperties DEF IsPrefix

LEMMA PrefixElements ==
  ASSUME NEW A, NEW p \in Seq(A), NEW t \in Seq(A), IsPrefix(p, t)
  PROVE  ToSet(p) \subseteq ToSet(t)
<1>1. /\ Len(p) \in Nat /\ Len(t) \in Nat /\ Len(p) <= Len(t)
      /\ DOMAIN p = 1..Len(p) /\ DOMAIN t = 1..Len(t)
      /\ SubSeq(p, 1, Len(p)) = SubSeq(t, 1, Len(p))
  BY LenProperties DEF IsPrefix
<1>2. p = SubSeq(t, 1, Len(p))
  BY <1>1, SubSeqFull
<1>3. \A i \in 1..Len(p) : t[i] \in A
  BY <1>1, ElementOfSeq
<1>n. PICK n : n = Len(p)
  OBVIOUS
<1>4. \A i \in 1..(n - 1 + 1) : SubSeq(t, 1, n)[i] = t[1 + i - 1]
  BY <1>1, <1>3, <1>n, SubSeqProperties
<1>5. \A i \in 1..n : p[i] = t[i]
  BY <1>1, <1>2, <1>4, <1>n
<1> QED  BY <1>1, <1>5, <1>n DEF ToSet

LEMMA Beginning ==
  ASSUME NEW A, NEW s \in Seq(A), NEW n \in Nat, n <= Len(s)
  PROVE  /\ SubSeq(s, 1, n) \in Seq(A)
         /\ Len(SubSeq(s, 1, n)) = n
         /\ \A i \in 1..n : SubSeq(s, 1, n)[i] = s[i]
<1>1. \A i \in 1..n : s[i] \in A
  <2>1. Len(s) \in Nat
    BY LenProperties
  <2>2. \A i \in 1..n : i \in 1..Len(s)
    BY <2>1
  <2> QED  BY <2>2, ElementOfSeq
<1>b. PICK begin : begin = SubSeq(s, 1, n)
  OBVIOUS
<1>2. /\ begin \in Seq(A)
      /\ Len(begin) = IF 1 <= n THEN n - 1 + 1 ELSE 0
      /\ \A i \in 1..(n - 1 + 1) : begin[i] = s[1 + i - 1]
  BY <1>1, <1>b, SubSeqProperties
<1>3. Len(begin) = n /\ \A i \in 1..n : begin[i] = s[i]
  BY <1>2
<1> QED  BY <1>2, <1>3, <1>b

LEMMA BeginningsAreOrdered ==
  ASSUME NEW A, NEW s \in Seq(A), NEW b \in Nat, b <= Len(s), NEW n \in Nat, n <= b
  PROVE  IsPrefix(SubSeq(s, 1, n), SubSeq(s, 1, b))
<1>p. PICK p : p = SubSeq(s, 1, n)
  OBVIOUS
<1>q. PICK q : q = SubSeq(s, 1, b)
  OBVIOUS
<1>0. n <= Len(s)
  <2>1. Len(s) \in Nat
    BY LenProperties
  <2> QED  BY <2>1
<1>1. p \in Seq(A) /\ Len(p) = n /\ \A i \in 1..n : p[i] = s[i]
  BY <1>0, <1>p, Beginning
<1>2. q \in Seq(A) /\ Len(q) = b /\ \A i \in 1..b : q[i] = s[i]
  BY <1>q, Beginning
<1>r. PICK r : r = SubSeq(q, 1, n)
  OBVIOUS
<1>3. r \in Seq(A) /\ Len(r) = n /\ \A i \in 1..n : r[i] = q[i]
  BY <1>2, <1>r, Beginning
<1>4. \A i \in 1..n : r[i] = p[i]
  <2>1. \A i \in 1..n : i \in 1..b
    OBVIOUS
  <2> QED  BY <1>1, <1>2, <1>3, <2>1
<1>5. r = p
  BY <1>1, <1>3, <1>4, SeqEqual
<1>6. SubSeq(p, 1, Len(p)) = p
  BY <1>1, SubSeqFull
<1> QED  BY <1>1, <1>2, <1>5, <1>6, <1>p, <1>q, <1>r DEF IsPrefix

LEMMA SplitAt ==
  ASSUME NEW A, NEW s \in Seq(A), NEW m \in Nat, m <= Len(s)
  PROVE  /\ s = SubSeq(s, 1, m) \o SubSeq(s, m + 1, Len(s))
         /\ SubSeq(s, m + 1, Len(s)) \in Seq(A)
<1>n. PICK n : n = Len(s)
  OBVIOUS
<1>1. n \in Nat /\ m <= n
  BY <1>n, LenProperties
<1>2. 1 \in 1..n + 1 /\ m \in 1 - 1 .. n /\ n \in m..n
  BY <1>1
<1>3. SubSeq(s, 1, m) \o SubSeq(s, m + 1, n) = SubSeq(s, 1, n)
  BY <1>2, <1>n, ConcatAdjacentSubSeq
<1>4. SubSeq(s, 1, n) = s
  BY <1>n, SubSeqFull
<1>5. \A i \in m + 1 .. n : s[i] \in A
  <2>1. \A i \in m + 1 .. n : i \in 1..n
    BY <1>1
  <2> QED  BY <1>n, <2>1, ElementOfSeq
<1>6. m + 1 \in Int /\ n \in Int
  BY <1>1
<1>7. SubSeq(s, m + 1, n) \in Seq(A)
  BY <1>5, <1>6, SubSeqProperties
<1> QED  BY <1>3, <1>4, <1>7, <1>n
=============================================================================
