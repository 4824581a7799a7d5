----------------------- MODULE SanitizeStreams_proofs -----------------------
(***************************************************************************)
(* What sanitize_streams returns, for texts, markers and limits of any     *)
(* length.  The sizes are StreamBudgets'; what is left to prove is that    *)
(* cutting an encoded text anywhere and decoding what is complete of it    *)
(* gives a prefix that is at most a cut character shorter than the bytes   *)
(* it was cut to (by induction on the text).                               *)
(***************************************************************************)
EXTENDS SanitizeStreams, StreamBudgets_proofs, SequenceLemmas, FiniteSetTheorems

(* The bytes of a character, and what decoding makes of a byte.            *)
ByteSet == Chars \X (1..3)
BytesOf == [c \in Chars |-> [k \in 1..Width(c) |-> <<c, k>>]]
Completed == [b \in ByteSet |-> IF b[2] = Width(b[1]) THEN <<b[1]>> ELSE <<>>]

LEMMA Widths ==
  ASSUME NEW c
  PROVE  Width(c) \in {1, 3} /\ Width(Wide) = 3
BY DEF Width

LEMMA BytesOfType == BytesOf \in [Chars -> Seq(ByteSet)]
<1> SUFFICES ASSUME NEW c \in Chars PROVE [k \in 1..Width(c) |-> <<c, k>>] \in Seq(ByteSet)
  BY DEF BytesOf
<1>1. Width(c) \in Nat /\ \A k \in 1..Width(c) : <<c, k>> \in ByteSet
  BY Widths DEF ByteSet
<1>2. [k \in 1..Width(c) |-> <<c, k>>] \in [1..Width(c) -> ByteSet]
  BY <1>1
<1> QED  BY <1>1, <1>2

LEMMA CompletedType == Completed \in [ByteSet -> Seq(Chars)]
<1> SUFFICES ASSUME NEW b \in ByteSet
             PROVE  (IF b[2] = Width(b[1]) THEN <<b[1]>> ELSE <<>>) \in Seq(Chars)
  BY DEF Completed
<1>1. b[1] \in Chars
  BY DEF ByteSet
<1> QED  BY <1>1

LEMMA EncodeSpreads ==
  ASSUME NEW t \in Seq(Chars)
  PROVE  Encode(t) = Spread(BytesOf, t) /\ Encode(t) \in Seq(ByteSet)
<1>1. \A i \in DOMAIN t : t[i] \in Chars
  BY LenProperties, ElementOfSeq
<1>2. \A i \in DOMAIN t : BytesOf[t[i]] = [k \in 1..Width(t[i]) |-> <<t[i], k>>]
  BY <1>1 DEF BytesOf
<1>3. Encode(t) = Spread(BytesOf, t)
  BY <1>2 DEF Encode, Spread
<1> QED  BY <1>3, BytesOfType, SpreadType

LEMMA DecodeSpreads ==
  ASSUME NEW bytes \in Seq(ByteSet)
  PROVE  Decode(bytes) = Spread(Completed, bytes) /\ Decode(bytes) \in Seq(Chars)
<1>1. \A i \in DOMAIN bytes : bytes[i] \in ByteSet
  BY LenProperties, ElementOfSeq
<1>2. \A i \in DOMAIN bytes :
        Completed[bytes[i]] = IF bytes[i][2] = Width(bytes[i][1]) THEN <<bytes[i][1]>> ELSE <<>>
  BY <1>1 DEF Completed
<1>3. Decode(bytes) = Spread(Completed, bytes)
  BY <1>2 DEF Decode, Spread
<1> QED  BY <1>3, CompletedType, SpreadType

LEMMA DecodeConcat ==
  ASSUME NEW bytes \in Seq(ByteSet), NEW more \in Seq(ByteSet)
  PROVE  Decode(bytes \o more) = Decode(bytes) \o Decode(more)
<1>1. bytes \o more \in Seq(ByteSet)
  BY ConcatProperties
<1>2. /\ Decode(bytes) = Spread(Completed, bytes)
      /\ Decode(more) = Spread(Completed, more)
      /\ Decode(bytes \o more) = Spread(Completed, bytes \o more)
  BY <1>1, DecodeSpreads
<1>3. Spread(Completed, bytes \o more) = Spread(Completed, bytes) \o Spread(Completed, more)
  BY CompletedType, SpreadConcat
<1> QED  BY <1>2, <1>3

LEMMA EmptyCoded == Encode(<<>>) = <<>> /\ Decode(<<>>) = <<>>
<1>1. <<>> \in Seq(Chars) /\ <<>> \in Seq(ByteSet)
  BY EmptySeq
<1> QED  BY <1>1, EncodeSpreads, DecodeSpreads, SpreadEmpty

-----------------------------------------------------------------------------
(* One character: its first j bytes are nothing, unless they are all.      *)

Bits(c, j) == [k \in 1..j |-> <<c, k>>]

LEMMA BitsGrow ==
  ASSUME NEW c \in Chars, NEW j \in Nat, j + 1 <= Width(c)
  PROVE  /\ Bits(c, j) \in Seq(ByteSet)
         /\ Len(Bits(c, j)) = j
         /\ <<c, j + 1>> \in ByteSet
         /\ Bits(c, j + 1) = Append(Bits(c, j), <<c, j + 1>>)
<1>1. \A k \in 1..(j + 1) : <<c, k>> \in ByteSet
  BY Widths DEF ByteSet
<1>2. Bits(c, j) \in [1..j -> ByteSet] /\ Bits(c, j + 1) \in [1..(j + 1) -> ByteSet]
  BY <1>1 DEF Bits
<1>3. Bits(c, j) \in Seq(ByteSet) /\ Bits(c, j + 1) \in Seq(ByteSet) /\ <<c, j + 1>> \in ByteSet
  BY <1>1, <1>2
<1>4. Len(Bits(c, j)) = j /\ Len(Bits(c, j + 1)) = j + 1
  BY <1>2
<1>5. /\ Append(Bits(c, j), <<c, j + 1>>) \in Seq(ByteSet)
      /\ Len(Append(Bits(c, j), <<c, j + 1>>)) = j + 1
      /\ \A k \in 1..j : Append(Bits(c, j), <<c, j + 1>>)[k] = Bits(c, j)[k]
      /\ Append(Bits(c, j), <<c, j + 1>>)[j + 1] = <<c, j + 1>>
  BY <1>3, <1>4, AppendProperties
<1>6. \A k \in 1..(j + 1) : Bits(c, j + 1)[k] = Append(Bits(c, j), <<c, j + 1>>)[k]
  <2> SUFFICES ASSUME NEW k \in 1..(j + 1)
               PROVE  <<c, k>> = Append(Bits(c, j), <<c, j + 1>>)[k]
    BY DEF Bits
  <2>1. CASE k \in 1..j
    BY <1>5, <2>1 DEF Bits
  <2>2. CASE k = j + 1
    BY <1>5, <2>2
  <2>3. k \in 1..j \/ k = j + 1
    OBVIOUS
  <2> QED  BY ONLY <2>1, <2>2, <2>3
<1> QED  BY <1>3, <1>4, <1>5, <1>6, SeqEqual

LEMMA BitsType ==
  ASSUME NEW c \in Chars, NEW j \in 0..Width(c)
  PROVE  /\ Bits(c, j) \in Seq(ByteSet)
         /\ SubSeq(Bits(c, Width(c)), 1, j) = Bits(c, j)
<1>w. PICK w : w = Width(c)
  OBVIOUS
<1>1. w \in {1, 3} /\ j \in Nat /\ j <= w
  BY <1>w, Widths
<1>2. \A k \in 1..w : <<c, k>> \in ByteSet
  BY <1>1 DEF ByteSet
<1>3. Bits(c, j) \in [1..j -> ByteSet] /\ Bits(c, w) \in [1..w -> ByteSet]
  BY <1>1, <1>2 DEF Bits
<1>4. Bits(c, j) \in Seq(ByteSet) /\ Bits(c, w) \in Seq(ByteSet) /\ Len(Bits(c, j)) = j
  BY <1>1, <1>3
<1>5. \A k \in 1..j : Bits(c, w)[k] = Bits(c, j)[k] /\ Bits(c, w)[k] \in ByteSet
  BY <1>1, <1>2 DEF Bits
<1>6. PICK cut : cut = SubSeq(Bits(c, w), 1, j)
  OBVIOUS
<1>7. cut \in Seq(ByteSet) /\ Len(cut) = j /\ \A k \in 1..j : cut[k] = Bits(c, w)[k]
  <2>1. /\ cut \in Seq(ByteSet)
        /\ Len(cut) = IF 1 <= j THEN j - 1 + 1 ELSE 0
        /\ \A k \in 1..(j - 1 + 1) : cut[k] = Bits(c, w)[1 + k - 1]
    BY <1>1, <1>5, <1>6, SubSeqProperties
  <2> QED  BY <1>1, <2>1
<1>8. cut = Bits(c, j)
  BY <1>4, <1>5, <1>7, SeqEqual
<1> QED  BY <1>w, <1>4, <1>6, <1>8

LEMMA BitsDecoded ==
  ASSUME NEW c \in Chars, NEW j \in 0..Width(c)
  PROVE  Decode(Bits(c, j)) = IF j = Width(c) THEN <<c>> ELSE <<>>
<1> DEFINE After(i) == IF i = Width(c) THEN <<c>> ELSE <<>>
<1>1. Spread(Completed, Bits(c, 0)) = <<>>
  <2>1. Bits(c, 0) = <<>>
    BY DEF Bits
  <2> QED  BY <2>1, SpreadEmpty
<1>2. ASSUME NEW i \in Nat, i + 1 <= Width(c), Spread(Completed, Bits(c, i)) = <<>>
      PROVE  Spread(Completed, Bits(c, i + 1)) = After(i + 1)
  <2>1. Spread(Completed, Bits(c, i + 1))
          = Spread(Completed, Bits(c, i)) \o Completed[<<c, i + 1>>]
    BY <1>2, BitsGrow, SpreadAppend, CompletedType
  <2>2. Completed[<<c, i + 1>>] = After(i + 1)
    BY <1>2, BitsGrow DEF Completed
  <2>3. After(i + 1) \in Seq(Chars)
    BY DEF After
  <2> HIDE DEF After
  <2> QED  BY <1>2, <2>1, <2>2, <2>3, ConcatEmptySeq
<1>3. ASSUME Width(c) = 1 PROVE Spread(Completed, Bits(c, j)) = After(j)
  <2>1. Spread(Completed, Bits(c, 1)) = <<c>>
    BY <1>1, <1>2, <1>3
  <2> QED  BY <1>1, <1>3, <2>1
<1>4. ASSUME Width(c) = 3 PROVE Spread(Completed, Bits(c, j)) = After(j)
  <2>1. Spread(Completed, Bits(c, 1)) = <<>>
    BY <1>1, <1>2, <1>4
  <2>2. Spread(Completed, Bits(c, 2)) = <<>>
    <3>1. 1 + 1 = 2 /\ 1 \in Nat /\ 1 + 1 <= Width(c)
      BY <1>4
    <3>2. Spread(Completed, Bits(c, 1 + 1)) = After(1 + 1)
      BY <1>2, <2>1, <3>1
    <3> QED  BY <1>4, <3>1, <3>2
  <2>3. Spread(Completed, Bits(c, 3)) = <<c>>
    <3>1. 2 + 1 = 3 /\ 2 \in Nat /\ 2 + 1 <= Width(c)
      BY <1>4
    <3>2. Spread(Completed, Bits(c, 2 + 1)) = After(2 + 1)
      BY <1>2, <2>2, <3>1
    <3> QED  BY <1>4, <3>1, <3>2
  <2>4. j \in {0, 1, 2, 3}
    BY <1>4
  <2> QED  BY <1>1, <1>4, <2>1, <2>2, <2>3, <2>4
<1>5. Spread(Completed, Bits(c, j)) = After(j)
  BY <1>3, <1>4, Widths
<1> QED  BY <1>5, BitsType, DecodeSpreads

-----------------------------------------------------------------------------
(* Bytes counts what Encode makes.                                         *)

WideOnes(t) == {i \in DOMAIN t : t[i] = Wide}

LEMMA WideOnesFinite ==
  ASSUME NEW t \in Seq(Chars)
  PROVE  IsFiniteSet(WideOnes(t)) /\ Cardinality(WideOnes(t)) \in Nat
<1>1. Len(t) \in Nat /\ DOMAIN t = 1..Len(t)
  BY LenProperties
<1>2. IsFiniteSet(1..Len(t))
  BY <1>1, FS_Interval
<1>3. WideOnes(t) \subseteq 1..Len(t)
  BY <1>1 DEF WideOnes
<1> QED  BY <1>2, <1>3, FS_Subset, FS_CardinalityType

LEMMA BytesIs ==
  ASSUME NEW t \in Seq(Chars)
  PROVE  Bytes(t) = Len(t) + 2 * Cardinality(WideOnes(t)) /\ Bytes(t) \in Nat
<1>1. Width(Wide) - 1 = 2
  BY Widths
<1>2. Bytes(t) = Len(t) + 2 * Cardinality(WideOnes(t))
  BY <1>1 DEF Bytes, WideOnes
<1> QED  BY <1>2, WideOnesFinite, LenProperties

LEMMA BytesEmpty == Bytes(<<>>) = 0
<1>1. <<>> \in Seq(Chars) /\ Len(<<>>) = 0 /\ WideOnes(<<>>) = {}
  BY EmptySeq DEF WideOnes
<1>2. Cardinality(WideOnes(<<>>)) = 0
  BY <1>1, FS_EmptySet
<1>3. Bytes(<<>>) = Len(<<>>) + 2 * Cardinality(WideOnes(<<>>))
  BY <1>1, BytesIs
<1> QED  BY <1>1, <1>2, <1>3

LEMMA BytesAppend ==
  ASSUME NEW t \in Seq(Chars), NEW c \in Chars
  PROVE  Bytes(Append(t, c)) = Bytes(t) + Width(c)
<1> DEFINE n == Len(t)
<1>u. PICK u : u = Append(t, c)
  OBVIOUS
<1>1. /\ n \in Nat /\ u \in Seq(Chars) /\ Len(u) = n + 1
      /\ DOMAIN t = 1..n /\ DOMAIN u = 1..(n + 1)
      /\ \A i \in 1..n : u[i] = t[i]
      /\ u[n + 1] = c
  BY <1>u, AppendProperties, LenProperties
<1> HIDE DEF n
<1>2. IsFiniteSet(WideOnes(t)) /\ Cardinality(WideOnes(t)) \in Nat /\ n + 1 \notin WideOnes(t)
  BY <1>1, WideOnesFinite DEF WideOnes
<1>3. WideOnes(u) = WideOnes(t) \cup (IF c = Wide THEN {n + 1} ELSE {})
  BY <1>1 DEF WideOnes
<1>4. Cardinality(WideOnes(u)) = Cardinality(WideOnes(t)) + (IF c = Wide THEN 1 ELSE 0)
  <2>1. CASE c = Wide
    <3>1. WideOnes(u) = WideOnes(t) \cup {n + 1}
      BY <1>3, <2>1
    <3>2. Cardinality(WideOnes(t) \cup {n + 1}) = Cardinality(WideOnes(t)) + 1
      BY <1>2, FS_AddElement
    <3> QED  BY <2>1, <3>1, <3>2
  <2>2. CASE c # Wide
    <3>1. WideOnes(u) = WideOnes(t)
      BY <1>3, <2>2
    <3> QED  BY <1>2, <2>2, <3>1
  <2> QED  BY <2>1, <2>2
<1>5. Bytes(u) = n + 1 + 2 * Cardinality(WideOnes(u)) /\ Bytes(t) = n + 2 * Cardinality(WideOnes(t))
  BY <1>1, BytesIs DEF n
<1> QED  BY <1>1, <1>2, <1>4, <1>5, <1>u DEF Width

(* Encode and Bytes agree, and decoding all there is gives the text back.  *)
LEMMA EncodeAppend ==
  ASSUME NEW t \in Seq(Chars), NEW c \in Chars
  PROVE  /\ Encode(Append(t, c)) = Encode(t) \o Bits(c, Width(c))
         /\ Bits(c, Width(c)) \in Seq(ByteSet)
         /\ Len(Bits(c, Width(c))) = Width(c)
<1>1. Append(t, c) \in Seq(Chars)
  BY AppendProperties
<1>2. BytesOf[c] = Bits(c, Width(c)) /\ BytesOf[c] \in Seq(ByteSet)
  BY BytesOfType DEF BytesOf, Bits
<1>3. Spread(BytesOf, Append(t, c)) = Spread(BytesOf, t) \o BytesOf[c]
  BY BytesOfType, SpreadAppend
<1>4. Len(Bits(c, Width(c))) = Width(c)
  BY Widths DEF Bits
<1> QED  BY <1>1, <1>2, <1>3, <1>4, EncodeSpreads

LEMMA SizeIsBytes ==
  ASSUME NEW t \in Seq(Chars)
  PROVE  Size(t) = Bytes(t) /\ Len(Encode(t)) = Bytes(t) /\ Decode(Encode(t)) = t
<1> DEFINE S == {u \in Seq(Chars) : Len(Encode(u)) = Bytes(u) /\ Decode(Encode(u)) = u}
<1>1. <<>> \in S
  <2>1. <<>> \in Seq(Chars) /\ Len(<<>>) = 0
    BY EmptySeq
  <2> QED  BY <2>1, EmptyCoded, BytesEmpty
<1>2. ASSUME NEW u \in Seq(Chars), NEW c \in Chars, u \in S PROVE Append(u, c) \in S
  <2> DEFINE bits == Bits(c, Width(c))
  <2>1. /\ Encode(Append(u, c)) = Encode(u) \o bits
        /\ bits \in Seq(ByteSet) /\ Len(bits) = Width(c)
        /\ Encode(u) \in Seq(ByteSet)
        /\ Append(u, c) \in Seq(Chars) /\ Append(u, c) = u \o <<c>>
    BY EncodeAppend, EncodeSpreads, AppendProperties, AppendIsConcat
  <2> HIDE DEF bits
  <2>2. Len(Encode(u) \o bits) = Len(Encode(u)) + Width(c)
    BY <2>1, ConcatProperties
  <2>3. Decode(bits) = <<c>>
    BY BitsDecoded, Widths DEF bits
  <2>4. Decode(Encode(u) \o bits) = Decode(Encode(u)) \o <<c>>
    BY <2>1, <2>3, DecodeConcat
  <2> QED  BY <1>2, <2>1, <2>2, <2>4, BytesAppend
<1>3. Seq(Chars) \subseteq S
  <2> HIDE DEF S
  <2> QED  BY <1>1, <1>2, SequenceInduction
<1> QED  BY <1>3 DEF Size

-----------------------------------------------------------------------------
(* A text cut to max of its bytes.                                         *)

Cut(t, max) == Decode(SubSeq(Encode(t), 1, max))

CutWell(t, max) ==
  /\ Cut(t, max) \in Seq(Chars)
  /\ IsPrefix(Cut(t, max), t)
  /\ Bytes(Cut(t, max)) \in max - 2 .. max

LEMMA CutIsPrefix ==
  ASSUME NEW t \in Seq(Chars), NEW max \in 0..Bytes(t)
  PROVE  CutWell(t, max)
<1> DEFINE S == {u \in Seq(Chars) : \A m \in 0..Bytes(u) : CutWell(u, m)}
<1>1. <<>> \in S
  <2>1. <<>> \in Seq(Chars) /\ SubSeq(<<>>, 1, 0) = <<>>
    BY EmptySeq, SubSeqEmpty
  <2>2. Cut(<<>>, 0) = <<>>
    BY <2>1, EmptyCoded DEF Cut
  <2>3. IsPrefix(<<>>, <<>>)
    BY DEF IsPrefix
  <2>4. CutWell(<<>>, 0)
    <3>1. Bytes(<<>>) \in 0 - 2 .. 0
      BY BytesEmpty
    <3> QED  BY <2>1, <2>2, <2>3, <3>1 DEF CutWell
  <2>5. \A m \in 0..Bytes(<<>>) : m = 0
    BY BytesEmpty
  <2> QED  BY <2>1, <2>4, <2>5
<1>2. ASSUME NEW u \in Seq(Chars), NEW c \in Chars, u \in S PROVE Append(u, c) \in S
  <2> DEFINE bits == Bits(c, Width(c))
             v == Append(u, c)
  <2>1. /\ Encode(v) = Encode(u) \o bits
        /\ bits \in Seq(ByteSet) /\ Len(bits) = Width(c)
        /\ Encode(u) \in Seq(ByteSet) /\ Len(Encode(u)) = Bytes(u)
        /\ Decode(Encode(u)) = u
        /\ v \in Seq(Chars) /\ v = u \o <<c>>
    BY EncodeAppend, EncodeSpreads, SizeIsBytes, AppendProperties, AppendIsConcat
  <2>2. Bytes(u) \in Nat /\ Bytes(v) = Bytes(u) + Width(c) /\ Width(c) \in {1, 3}
    BY BytesIs, BytesAppend, Widths
  <2>p. \A p \in Seq(Chars) : IsPrefix(p, u) => IsPrefix(p, v)
    BY PrefixGrows
  <2>q. IsPrefix(u, v) /\ IsPrefix(v, v)
    BY <2>1, PrefixGrows, PrefixOfSelf
  <2> HIDE DEF v
  <2>3. ASSUME NEW m \in 0..Bytes(u) PROVE CutWell(v, m)
    <3>1. SubSeq(Encode(v), 1, m) = SubSeq(Encode(u), 1, m)
      <4> HIDE DEF bits
      <4> QED  BY <2>1, CutInFirst
    <3>2. Cut(v, m) = Cut(u, m) /\ CutWell(u, m)
      BY <1>2, <3>1 DEF Cut
    <3> QED  BY <2>p, <3>2 DEF CutWell
  <2>4. ASSUME NEW j \in 1..Width(c) PROVE CutWell(v, Bytes(u) + j)
    <3>1. j \in Nat /\ j <= Width(c)
      BY <2>2
    <3>2. Bits(c, j) \in Seq(ByteSet) /\ SubSeq(bits, 1, j) = Bits(c, j)
      BY <3>1, BitsType
    <3>3. SubSeq(Encode(v), 1, Bytes(u) + j) = Encode(u) \o Bits(c, j)
      <4>1. j \in 0..Len(bits)
        BY <2>1, <3>1
      <4>2. SubSeq(Encode(u) \o bits, 1, Len(Encode(u)) + j) = Encode(u) \o SubSeq(bits, 1, j)
        <5> HIDE DEF bits
        <5> QED  BY <2>1, <4>1, CutInSecond
      <4> QED  BY <2>1, <3>2, <4>2
    <3>4. Decode(Encode(u) \o Bits(c, j)) = u \o Decode(Bits(c, j))
      BY <2>1, <3>2, DecodeConcat
    <3>5. Cut(v, Bytes(u) + j) = u \o (IF j = Width(c) THEN <<c>> ELSE <<>>)
      <4>1. Decode(Bits(c, j)) = IF j = Width(c) THEN <<c>> ELSE <<>>
        BY <2>2, <3>1, BitsDecoded
      <4> QED  BY <3>3, <3>4, <4>1 DEF Cut
    <3>6. CASE j = Width(c)
      <4>1. Cut(v, Bytes(u) + j) = v
        BY <2>1, <3>5, <3>6
      <4>2. Bytes(v) = Bytes(u) + j
        BY <2>2, <3>6
      <4>3. Bytes(v) \in (Bytes(u) + j) - 2 .. Bytes(u) + j
        BY <2>2, <4>2
      <4> QED  BY <2>1, <2>q, <4>1, <4>3 DEF CutWell
    <3>7. CASE j # Width(c)
      <4>1. Cut(v, Bytes(u) + j) = u
        BY <3>5, <3>7, ConcatEmptySeq
      <4>2. j \in {1, 2}
        BY <2>2, <3>7
      <4> QED  BY <2>2, <2>q, <4>1, <4>2 DEF CutWell
    <3> QED  BY <3>6, <3>7
  <2>5. ASSUME NEW m \in 0..Bytes(v) PROVE CutWell(v, m)
    <3>1. CASE m <= Bytes(u)
      BY <2>2, <2>3, <3>1
    <3>2. CASE ~(m <= Bytes(u))
      <4>1. m - Bytes(u) \in 1..Width(c) /\ Bytes(u) + (m - Bytes(u)) = m
        BY <2>2, <3>2
      <4>2. CutWell(v, Bytes(u) + (m - Bytes(u)))
        BY <2>4, <4>1
      <4> QED  BY <4>1, <4>2
    <3> QED  BY <3>1, <3>2
  <2> QED  BY <2>1, <2>5 DEF v
<1>3. Seq(Chars) \subseteq S
  <2> HIDE DEF S
  <2> QED  BY <1>1, <1>2, SequenceInduction
<1> QED  BY <1>3

(* _truncate_utf8: a prefix, cut where it says so, and at most two bytes   *)
(* shorter than what it may have.                                          *)
LEMMA TruncateCuts ==
  ASSUME NEW t \in Seq(Chars), NEW max \in Nat
  PROVE  LET kept == Truncate(t, max)
         IN  /\ kept.text \in Seq(Chars) /\ kept.cut \in BOOLEAN
             /\ IsPrefix(kept.text, t)
             /\ kept.cut <=> kept.text # t
             /\ Bytes(t) <= max => kept.text = t
             /\ Bytes(kept.text) \in Least(Bytes(t), max) - 2 .. Least(Bytes(t), max)
<1> DEFINE kept == Truncate(t, max)
<1>1. Len(Encode(t)) = Bytes(t) /\ Bytes(t) \in Nat
  BY SizeIsBytes, BytesIs
<1>2. CASE Bytes(t) <= max
  <2>1. kept = [text |-> t, cut |-> FALSE]
    BY <1>1, <1>2 DEF Truncate
  <2>2. Least(Bytes(t), max) = Bytes(t) /\ IsPrefix(t, t)
    BY <1>2, PrefixOfSelf DEF Least
  <2> QED  BY <1>1, <2>1, <2>2
<1>3. CASE ~(Bytes(t) <= max)
  <2>1. kept = [text |-> Cut(t, max), cut |-> TRUE]
    BY <1>1, <1>3 DEF Truncate, Cut
  <2>2. CutWell(t, max)
    BY <1>1, <1>3, CutIsPrefix
  <2>3. Cut(t, max) # t
    BY <1>1, <1>3, <2>2 DEF CutWell
  <2>4. Least(Bytes(t), max) = max
    BY <1>3 DEF Least
  <2> QED  BY <1>3, <2>1, <2>2, <2>3, <2>4 DEF CutWell
<1> QED  BY <1>2, <1>3

-----------------------------------------------------------------------------
(* Redaction.                                                              *)

LEMMA TextsArePossible ==
  ASSUME NEW t \in Texts
  PROVE  t \in Seq(Chars) /\ Possible(t)
<1>1. PICK m \in 0..MaxLength : t \in [1..m -> {Plain, Wide, KeyStart, KeyRest}]
  BY DEF Texts, SeqOf
<1>2. m \in Nat
  BY <1>1, LimitAssumption
<1>3. t \in Seq({Plain, Wide, KeyStart, KeyRest})
  BY <1>1, <1>2
<1>4. t \in Seq(Chars)
  BY <1>3, SeqMonotonic DEF Chars
<1> QED  BY <1>4 DEF Texts

Pieces(t) ==
  [i \in DOMAIN t |->
    IF Credential(t, i) THEN Marker
    ELSE IF i > 1 /\ Credential(t, i - 1) THEN <<>> ELSE <<t[i]>>]

LEMMA MarkerType == Marker \in Seq(Chars) /\ ToSet(Marker) \subseteq {Mark}
<1>1. MarkerSize \in Nat
  BY LimitAssumption
<1>2. Marker \in [1..MarkerSize -> {Mark}]
  BY DEF Marker
<1>3. Marker \in Seq({Mark})
  BY <1>1, <1>2
<1>4. Marker \in Seq(Chars)
  BY <1>3, SeqMonotonic DEF Chars
<1> QED  BY <1>3, <1>4, ElementsType

LEMMA RedactType ==
  ASSUME NEW t \in Seq(Chars)
  PROVE  /\ Pieces(t) \in Seq(Seq(Chars))
         /\ Redact(t) = FlattenSeq(Pieces(t))
         /\ Redact(t) \in Seq(Chars)
<1>1. Len(t) \in Nat /\ DOMAIN t = 1..Len(t) /\ \A i \in 1..Len(t) : t[i] \in Chars
  BY LenProperties, ElementOfSeq
<1>2. \A i \in 1..Len(t) : <<t[i]>> \in Seq(Chars)
  BY <1>1
<1>3. <<>> \in Seq(Chars) /\ Marker \in Seq(Chars)
  BY EmptySeq, MarkerType
<1>4. Pieces(t) \in [1..Len(t) -> Seq(Chars)]
  BY <1>1, <1>2, <1>3 DEF Pieces
<1>5. Pieces(t) \in Seq(Seq(Chars))
  BY <1>1, <1>4
<1> QED  BY <1>5, FlattenType DEF Redact, Pieces

(* What redaction leaves of a character is a character of no credential.   *)
LEMMA RedactLeaves ==
  ASSUME NEW t \in Seq(Chars), NEW x \in ToSet(Redact(t)), x # Mark
  PROVE  \E i \in DOMAIN t :
           x = t[i] /\ ~Credential(t, i) /\ ~(i > 1 /\ Credential(t, i - 1))
<1>1. ToSet(Redact(t)) = UNION {ToSet(p) : p \in ToSet(Pieces(t))}
  BY RedactType, ElementsOfFlatten
<1>2. PICK p \in ToSet(Pieces(t)) : x \in ToSet(p)
  BY <1>1
<1>3. PICK i \in DOMAIN t : p = Pieces(t)[i]
  BY <1>2 DEF ToSet, Pieces
<1>4. p = IF Credential(t, i) THEN Marker
          ELSE IF i > 1 /\ Credential(t, i - 1) THEN <<>> ELSE <<t[i]>>
  BY <1>3 DEF Pieces
<1>5. p # Marker /\ p # <<>>
  BY <1>2, MarkerType, ElementsOfEmpty
<1>6. ~Credential(t, i) /\ ~(i > 1 /\ Credential(t, i - 1)) /\ p = <<t[i]>>
  BY <1>4, <1>5
<1>7. x = t[i]
  BY <1>2, <1>6, ElementsOfOne
<1> QED  BY <1>6, <1>7

LEMMA NoHalfLeft ==
  ASSUME NEW t \in Texts
  PROVE  /\ KeyRest \notin ToSet(Redact(t))
         /\ KeyStart \in ToSet(Redact(t)) => EndsInHalf(t)
<1>1. t \in Seq(Chars) /\ Possible(t)
  BY TextsArePossible
<1>2. Len(t) \in Nat /\ DOMAIN t = 1..Len(t)
  BY <1>1, LenProperties
<1>3. KeyRest # Mark /\ KeyStart # Mark
  BY KindsAssumption
<1>4. ASSUME KeyRest \in ToSet(Redact(t)) PROVE FALSE
  <2>1. PICK i \in DOMAIN t : KeyRest = t[i] /\ ~(i > 1 /\ Credential(t, i - 1))
    BY <1>1, <1>3, <1>4, RedactLeaves
  <2>2. i > 1 /\ t[i - 1] = KeyStart
    BY <1>1, <2>1 DEF Possible
  <2>3. i - 1 < Len(t) /\ (i - 1) + 1 = i
    BY <1>2
  <2>4. Credential(t, i - 1)
    BY <2>1, <2>2, <2>3 DEF Credential
  <2> QED  BY <2>1, <2>2, <2>4
<1>5. ASSUME KeyStart \in ToSet(Redact(t)) PROVE EndsInHalf(t)
  <2>1. PICK i \in DOMAIN t : KeyStart = t[i] /\ ~Credential(t, i)
    BY <1>1, <1>3, <1>5, RedactLeaves
  <2>2. ~(i < Len(t))
    BY <1>1, <2>1 DEF Possible, Credential
  <2>3. i = Len(t)
    BY <1>2, <2>2
  <2> QED  BY <1>2, <2>1, <2>3 DEF EndsInHalf
<1> QED  BY <1>4, <1>5

(* Redaction changes a text if and only if there is a credential in it.    *)
LEMMA RedactChanges ==
  ASSUME NEW t \in Texts
  PROVE  Redact(t) # t <=> KeyRest \in ToSet(t)
<1>1. t \in Seq(Chars)
  BY TextsArePossible
<1>2. ASSUME KeyRest \notin ToSet(t) PROVE Redact(t) = t
  <2> DEFINE h == [c \in Chars |-> <<c>>]
  <2>0. h \in [Chars -> Seq(Chars)]
    OBVIOUS
  <2>1. \A i \in DOMAIN t : t[i] \in Chars /\ h[t[i]] = <<t[i]>>
    BY <1>1, LenProperties, ElementOfSeq
  <2>2. Len(t) \in Nat /\ DOMAIN t = 1..Len(t)
    BY <1>1, LenProperties
  <2>3. ASSUME NEW i \in Int PROVE ~(i \in DOMAIN t /\ Credential(t, i))
    <3>1. SUFFICES ASSUME i \in DOMAIN t, Credential(t, i) PROVE FALSE
      OBVIOUS
    <3>2. i + 1 \in DOMAIN t /\ t[i + 1] = KeyRest
      BY <2>2, <3>1 DEF Credential
    <3> QED  BY <1>2, <3>2 DEF ToSet
  <2>4. \A i \in DOMAIN t : i \in Int /\ (i > 1 => i - 1 \in DOMAIN t /\ i - 1 \in Int)
    BY <2>2
  <2>5. \A i \in DOMAIN t : ~Credential(t, i) /\ ~(i > 1 /\ Credential(t, i - 1))
    BY <2>3, <2>4
  <2>6. Pieces(t) = [i \in DOMAIN t |-> h[t[i]]]
    BY <2>1, <2>5 DEF Pieces
  <2>7. Redact(t) = Spread(h, t)
    BY <1>1, <2>6, RedactType DEF Spread
  <2>8. \A x \in ToSet(t) : h[x] = <<x>>
    BY <2>1 DEF ToSet
  <2> HIDE DEF h
  <2> QED  BY <1>1, <2>0, <2>7, <2>8, SpreadSame
<1>3. KeyRest \notin ToSet(Redact(t))
  BY NoHalfLeft
<1> QED  BY <1>2, <1>3

-----------------------------------------------------------------------------
(* sanitize_streams.                                                       *)

(* What is shown of an answer.                                             *)
CleanAnswer(answer, out, err, max, cut) ==
  LET safeOut == Redact(out)
      safeErr == Redact(err)
      keptOut == KeptStdout(Bytes(safeOut), Bytes(safeErr), max)
      keptErr == KeptStderr(Bytes(safeOut), Bytes(safeErr), max)
  IN  /\ safeOut \in Seq(Chars) /\ safeErr \in Seq(Chars)
      /\ Bytes(safeOut) \in Nat /\ Bytes(safeErr) \in Nat
      /\ answer.stdout \in Seq(Chars) /\ answer.stderr \in Seq(Chars)
      /\ IsPrefix(answer.stdout, safeOut) /\ IsPrefix(answer.stderr, safeErr)
      /\ keptOut \in 0..Bytes(safeOut) /\ keptErr \in 0..Bytes(safeErr)
      /\ Bytes(answer.stdout) \in keptOut - 2 .. keptOut
      /\ Bytes(answer.stderr) \in keptErr - 2 .. keptErr
      /\ keptOut = Bytes(safeOut) => answer.stdout = safeOut
      /\ keptErr = Bytes(safeErr) => answer.stderr = safeErr
      /\ answer.truncated \in BOOLEAN /\ answer.redacted \in BOOLEAN
      /\ answer.truncated <=>
           cut \/ answer.stdout # safeOut \/ answer.stderr # safeErr
      /\ answer.redacted <=> safeOut # out \/ safeErr # err

LEMMA SanitizeFacts ==
  ASSUME NEW out \in Texts, NEW err \in Texts, NEW max \in Nat, NEW cut \in BOOLEAN
  PROVE  CleanAnswer(Sanitize(out, err, max, cut), out, err, max, cut)
<1> DEFINE answer  == Sanitize(out, err, max, cut)
           safeOut == Redact(out)
           safeErr == Redact(err)
           keptOut == KeptStdout(Bytes(safeOut), Bytes(safeErr), max)
           keptErr == KeptStderr(Bytes(safeOut), Bytes(safeErr), max)
           cutOut  == Truncate(safeOut, keptOut)
           cutErr  == Truncate(safeErr, keptErr)
<1>1. safeOut \in Seq(Chars) /\ safeErr \in Seq(Chars)
  BY TextsArePossible, RedactType
<1>2. /\ Bytes(safeOut) \in Nat /\ Bytes(safeErr) \in Nat
      /\ Size(safeOut) = Bytes(safeOut) /\ Size(safeErr) = Bytes(safeErr)
  BY <1>1, BytesIs, SizeIsBytes
<1>3. keptOut \in 0..Bytes(safeOut) /\ keptErr \in 0..Bytes(safeErr)
  BY <1>2, BudgetsInRange
<1>4. /\ answer.stdout = cutOut.text
      /\ answer.stderr = cutErr.text
      /\ answer.truncated = (cut \/ cutOut.cut \/ cutErr.cut)
      /\ answer.redacted = (safeOut # out \/ safeErr # err)
  BY <1>2 DEF Sanitize
<1> HIDE DEF answer, safeOut, safeErr, keptOut, keptErr
<1>5. keptOut \in Nat /\ keptErr \in Nat
  BY <1>2, <1>3
<1>6. Least(Bytes(safeOut), keptOut) = keptOut /\ Least(Bytes(safeErr), keptErr) = keptErr
  BY <1>2, <1>3 DEF Least
<1>7. /\ cutOut.text \in Seq(Chars) /\ cutOut.cut \in BOOLEAN
      /\ IsPrefix(cutOut.text, safeOut)
      /\ cutOut.cut <=> cutOut.text # safeOut
      /\ Bytes(safeOut) <= keptOut => cutOut.text = safeOut
      /\ Bytes(cutOut.text) \in keptOut - 2 .. keptOut
  <2> HIDE DEF cutOut
  <2> QED  BY <1>1, <1>5, <1>6, TruncateCuts DEF cutOut
<1>8. /\ cutErr.text \in Seq(Chars) /\ cutErr.cut \in BOOLEAN
      /\ IsPrefix(cutErr.text, safeErr)
      /\ cutErr.cut <=> cutErr.text # safeErr
      /\ Bytes(safeErr) <= keptErr => cutErr.text = safeErr
      /\ Bytes(cutErr.text) \in keptErr - 2 .. keptErr
  <2> HIDE DEF cutErr
  <2> QED  BY <1>1, <1>5, <1>6, TruncateCuts DEF cutErr
<1> HIDE DEF cutOut, cutErr
<1>9. keptOut = Bytes(safeOut) => Bytes(safeOut) <= keptOut
  BY <1>2
<1>10. keptErr = Bytes(safeErr) => Bytes(safeErr) <= keptErr
  BY <1>2
<1>11. answer.truncated \in BOOLEAN /\ answer.redacted \in BOOLEAN
  BY <1>4, <1>7, <1>8
<1>12. answer.truncated <=> cut \/ answer.stdout # safeOut \/ answer.stderr # safeErr
  BY <1>4, <1>7, <1>8
<1>13. /\ keptOut = Bytes(safeOut) => answer.stdout = safeOut
       /\ keptErr = Bytes(safeErr) => answer.stderr = safeErr
  BY <1>4, <1>7, <1>8, <1>9, <1>10
<1>14. /\ answer.stdout \in Seq(Chars) /\ answer.stderr \in Seq(Chars)
       /\ IsPrefix(answer.stdout, safeOut) /\ IsPrefix(answer.stderr, safeErr)
       /\ Bytes(answer.stdout) \in keptOut - 2 .. keptOut
       /\ Bytes(answer.stderr) \in keptErr - 2 .. keptErr
  BY <1>4, <1>7, <1>8
<1> QED  BY <1>1, <1>2, <1>3, <1>4, <1>11, <1>12, <1>13, <1>14
         DEF CleanAnswer, answer, safeOut, safeErr, keptOut, keptErr

(* The inductive invariant: the inputs do not change, and an answer is     *)
(* what sanitize_streams makes of them.                                    *)
Inputs ==
  /\ stdout \in Texts
  /\ stderr \in Texts
  /\ limit \in 1..HardLimit
  /\ sourceTruncated \in BOOLEAN

Sanitized == Inputs /\ (Done => Answer = Sanitize(stdout, stderr, limit, sourceTruncated))

THEOREM AnswersAreSanitized == Spec => []Sanitized
<1>1. Init => Sanitized
  BY DEF Init, Sanitized, Inputs, Done
<1>2. Sanitized /\ [Next]_vars => Sanitized'
  <2> SUFFICES ASSUME Sanitized, [Next]_vars PROVE Sanitized'
    OBVIOUS
  <2>1. CASE SanitizeCall
    <3>1. Answer' = Sanitize(stdout, stderr, limit, sourceTruncated)
      BY <2>1 DEF SanitizeCall, Answer
    <3>2. UNCHANGED <<stdout, stderr, limit, sourceTruncated>>
      BY <2>1 DEF SanitizeCall
    <3> QED  BY <3>1, <3>2 DEF Sanitized, Inputs
  <2>2. CASE UNCHANGED vars
    BY <2>2 DEF vars, Sanitized, Inputs, Done, Answer
  <2> QED  BY <2>1, <2>2 DEF Next
<1> QED  BY <1>1, <1>2, PTL DEF Spec

LEMMA LimitIsNat == Inputs => limit \in Nat \ {0}
BY LimitAssumption DEF Inputs

(* An answer, in the terms of the inputs.                                  *)
LEMMA AnswerFacts ==
  ASSUME Sanitized, Done
  PROVE  CleanAnswer(Answer, stdout, stderr, limit, sourceTruncated)
<1>1. /\ stdout \in Texts /\ stderr \in Texts /\ limit \in Nat /\ sourceTruncated \in BOOLEAN
      /\ Answer = Sanitize(stdout, stderr, limit, sourceTruncated)
  BY LimitIsNat DEF Sanitized, Inputs
<1> QED  BY <1>1, SanitizeFacts

(* The inputs stay what they were, and an answer has two texts and two     *)
(* flags, whatever the limit cuts off.                                     *)
THEOREM TypesOK == Spec => []TypeOK
<1>1. Sanitized => TypeOK
  <2>1. Sanitized /\ Done => /\ Answer.stdout \in Seq(Chars)
                             /\ Answer.stderr \in Seq(Chars)
                             /\ Answer.truncated \in BOOLEAN
                             /\ Answer.redacted \in BOOLEAN
    BY AnswerFacts DEF CleanAnswer
  <2> QED  BY <2>1 DEF TypeOK, Sanitized, Inputs
<1> QED  BY <1>1, AnswersAreSanitized, PTL

(* max_bytes holds for both streams together, for every limit.             *)
THEOREM LimitHolds == Spec => []WithinLimit
<1>1. Sanitized => WithinLimit
  <2> SUFFICES ASSUME Sanitized, Done
               PROVE  Bytes(Answer.stdout) + Bytes(Answer.stderr) <= limit
    BY DEF WithinLimit
  <2> DEFINE a == Bytes(Redact(stdout))
             b == Bytes(Redact(stderr))
  <2>1. /\ a \in Nat /\ b \in Nat /\ limit \in Nat
        /\ Bytes(Answer.stdout) \in KeptStdout(a, b, limit) - 2 .. KeptStdout(a, b, limit)
        /\ Bytes(Answer.stderr) \in KeptStderr(a, b, limit) - 2 .. KeptStderr(a, b, limit)
    BY AnswerFacts, LimitIsNat DEF Sanitized, CleanAnswer
  <2> HIDE DEF a, b
  <2>2. /\ KeptStdout(a, b, limit) \in Nat /\ KeptStderr(a, b, limit) \in Nat
        /\ KeptStdout(a, b, limit) + KeptStderr(a, b, limit) = Least(a + b, limit)
    BY <2>1, BudgetsInRange, BudgetUsedUp
  <2> QED  BY <2>1, <2>2 DEF Least
<1> QED  BY <1>1, AnswersAreSanitized, PTL

(* What is returned are prefixes of the redacted texts, and a limit that   *)
(* cuts anything is used up but for the bytes of cut characters.           *)
THEOREM PrefixesAreLongest == Spec => []LongestPrefixes
<1>1. Sanitized => LongestPrefixes
  <2> SUFFICES ASSUME Sanitized, Done
               PROVE  /\ IsPrefix(Answer.stdout, Redact(stdout))
                      /\ IsPrefix(Answer.stderr, Redact(stderr))
                      /\ \/ Answer.stdout = Redact(stdout) /\ Answer.stderr = Redact(stderr)
                         \/ Bytes(Answer.stdout) + Bytes(Answer.stderr)
                              > limit - 2 * (Width(Wide) - 1) - 1
    BY DEF LongestPrefixes
  <2> DEFINE a == Bytes(Redact(stdout))
             b == Bytes(Redact(stderr))
             keptOut == KeptStdout(a, b, limit)
             keptErr == KeptStderr(a, b, limit)
  <2>1. /\ a \in Nat /\ b \in Nat /\ limit \in Nat
        /\ keptOut \in 0..a /\ keptErr \in 0..b
        /\ Bytes(Answer.stdout) \in keptOut - 2 .. keptOut
        /\ Bytes(Answer.stderr) \in keptErr - 2 .. keptErr
    BY AnswerFacts, LimitIsNat DEF Sanitized, CleanAnswer
  <2>2. /\ keptOut = a => Answer.stdout = Redact(stdout)
        /\ keptErr = b => Answer.stderr = Redact(stderr)
    BY AnswerFacts DEF CleanAnswer
  <2>3. IsPrefix(Answer.stdout, Redact(stdout)) /\ IsPrefix(Answer.stderr, Redact(stderr))
    BY AnswerFacts DEF CleanAnswer
  <2>4. keptOut + keptErr = Least(a + b, limit)
    <3> HIDE DEF a, b
    <3> QED  BY <2>1, BudgetUsedUp
  <2> HIDE DEF a, b, keptOut, keptErr
  <2>5. CASE a + b <= limit
    <3>1. keptOut = a /\ keptErr = b
      BY <2>1, <2>4, <2>5 DEF Least
    <3> QED  BY <2>2, <2>3, <3>1
  <2>6. CASE ~(a + b <= limit)
    <3>1. keptOut + keptErr = limit
      BY <2>4, <2>6 DEF Least
    <3>2. Bytes(Answer.stdout) + Bytes(Answer.stderr) > limit - 2 * (Width(Wide) - 1) - 1
      BY <2>1, <3>1, Widths
    <3> QED  BY <2>3, <3>2
  <2> QED  BY <2>5, <2>6
<1> QED  BY <1>1, AnswersAreSanitized, PTL

(* Wherever the limit cuts, no part of a credential is left that was not   *)
(* cut when the text came in.                                              *)
THEOREM CredentialsStayWhole == Spec => []NoCredentialPart
<1>1. Sanitized => NoCredentialPart
  <2> SUFFICES ASSUME Sanitized, Done PROVE NoCredentialPart
    BY DEF NoCredentialPart
  <2>1. stdout \in Texts /\ stderr \in Texts
    BY DEF Sanitized, Inputs
  <2>2. /\ ToSet(Answer.stdout) \subseteq ToSet(Redact(stdout))
        /\ ToSet(Answer.stderr) \subseteq ToSet(Redact(stderr))
    BY AnswerFacts, PrefixElements DEF CleanAnswer
  <2>3. /\ KeyRest \notin ToSet(Answer.stdout)
        /\ KeyStart \in ToSet(Answer.stdout) => EndsInHalf(stdout)
    BY <2>1, <2>2, NoHalfLeft
  <2>4. /\ KeyRest \notin ToSet(Answer.stderr)
        /\ KeyStart \in ToSet(Answer.stderr) => EndsInHalf(stderr)
    BY <2>1, <2>2, NoHalfLeft
  <2>5. Answer["stdout"] = Answer.stdout /\ Answer["stderr"] = Answer.stderr
    OBVIOUS
  <2> QED  BY <2>3, <2>4, <2>5 DEF NoCredentialPart
<1> QED  BY <1>1, AnswersAreSanitized, PTL

(* The flags say exactly what was left out and what was redacted.          *)
THEOREM FlagsAreHonest == Spec => []FlagsHonest
<1>1. Sanitized => FlagsHonest
  <2> SUFFICES ASSUME Sanitized, Done
               PROVE  /\ Answer.truncated <=> \/ sourceTruncated
                                              \/ Answer.stdout # Redact(stdout)
                                              \/ Answer.stderr # Redact(stderr)
                      /\ Answer.redacted <=> KeyRest \in ToSet(stdout) \cup ToSet(stderr)
    BY DEF FlagsHonest
  <2>1. /\ Redact(stdout) # stdout <=> KeyRest \in ToSet(stdout)
        /\ Redact(stderr) # stderr <=> KeyRest \in ToSet(stderr)
    BY RedactChanges DEF Sanitized, Inputs
  <2>2. /\ Answer.truncated <=> \/ sourceTruncated
                                \/ Answer.stdout # Redact(stdout)
                                \/ Answer.stderr # Redact(stderr)
        /\ Answer.redacted <=> Redact(stdout) # stdout \/ Redact(stderr) # stderr
    BY AnswerFacts DEF CleanAnswer
  <2> QED  BY <2>1, <2>2
<1> QED  BY <1>1, AnswersAreSanitized, PTL

(* stderr keeps a quarter of every limit, and stdout the rest of it, but   *)
(* for a cut character.                                                    *)
THEOREM StreamsDoNotStarve == Spec => []NoStreamStarves
<1>1. Sanitized => NoStreamStarves
  <2> SUFFICES ASSUME Sanitized, Done
               PROVE  /\ Bytes(Answer.stderr) >= Least(Bytes(Redact(stderr)), limit \div 4 - 2)
                      /\ Bytes(Answer.stdout)
                           >= Least(Bytes(Redact(stdout)), limit - limit \div 4 - 2)
    BY DEF NoStreamStarves
  <2> DEFINE a == Bytes(Redact(stdout))
             b == Bytes(Redact(stderr))
             keptOut == KeptStdout(a, b, limit)
             keptErr == KeptStderr(a, b, limit)
  <2>1. /\ a \in Nat /\ b \in Nat /\ limit \in Nat
        /\ keptOut \in 0..a /\ keptErr \in 0..b
        /\ Bytes(Answer.stdout) \in keptOut - 2 .. keptOut
        /\ Bytes(Answer.stderr) \in keptErr - 2 .. keptErr
    BY AnswerFacts, LimitIsNat DEF Sanitized, CleanAnswer
  <2>2. /\ keptOut = a => Bytes(Answer.stdout) = a
        /\ keptErr = b => Bytes(Answer.stderr) = b
    BY AnswerFacts DEF CleanAnswer
  <2>3. keptErr >= Least(b, limit \div 4) /\ keptOut >= Least(a, limit - limit \div 4)
    <3> HIDE DEF a, b
    <3> QED  BY <2>1, NeitherStarves
  <2> HIDE DEF keptOut, keptErr
  <2>4. Bytes(Answer.stderr) >= Least(b, limit \div 4 - 2)
    <3> HIDE DEF a, b
    <3> QED  BY <2>1, <2>2, <2>3 DEF Least
  <2>5. Bytes(Answer.stdout) >= Least(a, limit - limit \div 4 - 2)
    <3> HIDE DEF a, b
    <3> QED  BY <2>1, <2>2, <2>3 DEF Least
  <2> QED  BY <2>4, <2>5
<1> QED  BY <1>1, AnswersAreSanitized, PTL
=============================================================================
