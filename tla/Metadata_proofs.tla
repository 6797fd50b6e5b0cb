--------------------------- MODULE Metadata_proofs ---------------------------
(***************************************************************************)
(* Proofs about Metadata, for every number of values of a byte, of blocks,  *)
(* of super-encrypted blocks and of times that workers write the row back.  *)
(***************************************************************************)
EXTENDS MetadataInv, FiniteSetTheorems, SequenceTheorems, TLAPS

-----------------------------------------------------------------------------
(* Integers as bytes.                                                       *)

\* Quotient and remainder, as two numbers the solver can multiply.
LEMMA DivMod ==
  ASSUME NEW n \in Nat, NEW d \in Nat \ {0}
  PROVE  \E q \in Nat, r \in 0 .. d - 1 :
           q = n \div d /\ r = n % d /\ n = d * q + r
<1>1. n \div d \in Nat
  OBVIOUS
<1>2. n % d \in 0 .. d - 1
  OBVIOUS
<1>3. ASSUME NEW q \in Int, NEW r \in Int, q = n \div d, r = n % d
      PROVE  n = d * q + r
  BY <1>3, Z3
<1>4. PICK q \in Nat, r \in 0 .. d - 1 : q = n \div d /\ r = n % d
  BY <1>1, <1>2
<1>5. n = d * q + r
  BY <1>3, <1>4
<1> QED BY <1>4, <1>5

\* There are no others.
LEMMA DivUnique ==
  ASSUME NEW n \in Nat, NEW d \in Nat \ {0}, NEW q \in Nat, NEW r \in Nat,
         n = d * q + r, r < d
  PROVE  n \div d = q /\ n % d = r
OBVIOUS

\* The digits of a number to the base of a byte.
LEMMA Digits ==
  ASSUME NEW n \in Nat
  PROVE  \E q \in Nat, a \in Byte, b \in Byte, c \in Byte :
           /\ n = q * Weight[1] + a * Weight[2] + b * Weight[3] + c
           /\ n \div Weight[1] = q
           /\ (n \div Weight[2]) % Base = a
           /\ (n \div Weight[3]) % Base = b
           /\ (n \div Weight[4]) % Base = c
<1>w. /\ Weight[1] = Base * Base * Base /\ Weight[2] = Base * Base
      /\ Weight[3] = Base /\ Weight[4] = 1 /\ Base \in Nat \ {0}
  BY MetadataAssumption DEF Weight
<1>1. PICK x \in Nat, c \in Byte : n = Base * x + c /\ x = n \div Base /\ c = n % Base
  BY <1>w, DivMod DEF Byte
<1>2. PICK y \in Nat, b \in Byte : x = Base * y + b /\ y = x \div Base /\ b = x % Base
  BY <1>w, DivMod DEF Byte
<1>3. PICK q \in Nat, a \in Byte : y = Base * q + a /\ q = y \div Base /\ a = y % Base
  BY <1>w, DivMod, SMTT(30) DEF Byte
<1>4. ASSUME NEW B \in Nat \ {0}, NEW u \in Nat,
             NEW r \in 0 .. B - 1, NEW s \in 0 .. B - 1
      PROVE  /\ B * (B * u + s) + r = (B * B) * u + (B * s + r)
             /\ B * s + r \in Nat /\ B * s + r < B * B
             /\ B * B \in Nat \ {0}
  <2>1. B * (B * u + s) + r = (B * B) * u + (B * s + r)
    OBVIOUS
  <2>2. B * s + r \in Nat /\ B * s + r < B * B
    OBVIOUS
  <2>3. B * B \in Nat \ {0}
    OBVIOUS
  <2> QED BY <2>1, <2>2, <2>3
<1>5. n = (Base * Base) * y + (Base * b + c) /\ n \div (Base * Base) = y
  <2>1. /\ n = (Base * Base) * y + (Base * b + c)
        /\ Base * b + c \in Nat /\ Base * b + c < Base * Base
        /\ Base * Base \in Nat \ {0}
    BY <1>w, <1>1, <1>2, <1>4 DEF Byte
  <2> QED BY <2>1, DivUnique
<1>6. /\ n = (Base * Base * Base) * q + (Base * Base * a + (Base * b + c))
      /\ n \div (Base * Base * Base) = q
  <2>1. ASSUME NEW B \in Nat \ {0}, NEW t \in 0 .. B * B - 1, NEW u \in Nat,
               NEW s \in 0 .. B - 1
        PROVE  /\ (B * B) * (B * u + s) + t = (B * B * B) * u + (B * B * s + t)
               /\ B * B * s + t \in Nat /\ B * B * s + t < B * B * B
               /\ B * B * B \in Nat \ {0}
    <3>1. (B * B) * (B * u + s) + t = (B * B * B) * u + (B * B * s + t)
      OBVIOUS
    <3>2. B * B * s + t \in Nat
      OBVIOUS
    <3>3. B * B * s + t < B * B * B
      <4>1. s + 1 <= B /\ B * B \in Nat
        OBVIOUS
      <4>2. (B * B) * (s + 1) <= (B * B) * B
        BY <4>1
      <4>3. (B * B) * (s + 1) = (B * B) * s + B * B
        OBVIOUS
      <4> QED BY <4>1, <4>2, <4>3
    <3>4. B * B * B \in Nat \ {0}
      OBVIOUS
    <3> QED BY <3>1, <3>2, <3>3, <3>4
  <2>2. Base * b + c \in 0 .. Base * Base - 1
    BY <1>w, <1>4 DEF Byte
  <2>3. PICK t \in 0 .. Base * Base - 1 : t = Base * b + c
    BY <2>2
  <2>4. n = (Base * Base) * (Base * q + a) + t
    BY <1>3, <1>5, <2>3
  <2>5. a \in 0 .. Base - 1
    BY DEF Byte
  <2>6. /\ (Base * Base) * (Base * q + a) + t
              = (Base * Base * Base) * q + (Base * Base * a + t)
        /\ Base * Base * a + t \in Nat
        /\ Base * Base * a + t < Base * Base * Base
        /\ Base * Base * Base \in Nat \ {0}
    BY <1>w, <2>1, <2>5
  <2>7. n \div (Base * Base * Base) = q
    BY <2>4, <2>6, DivUnique
  <2> QED BY <2>3, <2>4, <2>6, <2>7
<1>7. n \div 1 = n
  OBVIOUS
<1>8. n = q * (Base * Base * Base) + a * (Base * Base) + b * Base + c
  <2>1. ASSUME NEW x1 \in Int, NEW x2 \in Int, NEW x3 \in Int, NEW x4 \in Int,
               NEW w1 \in Int, NEW w2 \in Int, NEW w3 \in Int
        PROVE  w1 * x1 + (w2 * x2 + (w3 * x3 + x4)) = x1 * w1 + x2 * w2 + x3 * w3 + x4
    OBVIOUS
  <2>2. Base \in Int /\ Base * Base \in Int /\ Base * Base * Base \in Int
    BY <1>w
  <2>3. q \in Int /\ a \in Int /\ b \in Int /\ c \in Int
    BY <1>w DEF Byte
  <2> QED BY <1>6, <2>1, <2>2, <2>3
<1>9. /\ n \div Weight[1] = q
      /\ (n \div Weight[2]) % Base = a
      /\ (n \div Weight[3]) % Base = b
      /\ (n \div Weight[4]) % Base = c
  BY <1>w, <1>1, <1>2, <1>3, <1>5, <1>6, <1>7
<1>10. n = q * Weight[1] + a * Weight[2] + b * Weight[3] + c
  BY <1>w, <1>8
<1> QED BY <1>9, <1>10

\* Half the values of four bytes are ints.
LEMMA IntRange ==
  ASSUME NEW n \in 0 .. IntMax, NEW q \in Nat, q * Weight[1] <= n
  PROVE  q < Base \div 2 /\ q \in Byte
<1>1. PICK h \in Nat : Base = 2 * h
  <2>1. PICK q2 \in Nat, r2 \in 0 .. 1 : r2 = Base % 2 /\ Base = 2 * q2 + r2
    BY MetadataAssumption, DivMod
  <2> QED BY <2>1, MetadataAssumption
<1>2. Base \div 2 = h
  BY <1>1
<1>3. h # 0
  BY <1>1, MetadataAssumption
<1>w. Weight[1] \in Nat \ {0}
  <2>1. ASSUME NEW B \in Nat \ {0} PROVE B * B * B \in Nat \ {0}
    OBVIOUS
  <2> QED BY <2>1, MetadataAssumption DEF Weight
<1>4. IntMax = h * Weight[1] - 1
  <2>1. PICK w \in Nat : w = Weight[1]
    BY <1>w
  <2>2. h * w \in Nat /\ Base * w = 2 * (h * w) + 0 /\ Base * w \in Nat
    BY <1>1
  <2>3. (Base * w) \div 2 = h * w
    BY <2>2, DivUnique
  <2> QED BY <2>1, <2>3 DEF IntMax
<1>5. q < h
  <2>1. ASSUME NEW w \in Nat \ {0}, q >= h PROVE q * w >= h * w
    BY <2>1
  <2>2. ASSUME q >= h PROVE FALSE
    <3>1. q * Weight[1] >= h * Weight[1]
      BY <1>w, <2>1, <2>2
    <3>2. h * Weight[1] \in Nat /\ q * Weight[1] \in Nat
      BY <1>w
    <3> QED BY <1>4, <3>1, <3>2
  <2> QED BY <2>2
<1> QED BY <1>1, <1>2, <1>5 DEF Byte

\* Half of an even number of values is a whole number.
LEMMA IntMaxInt == IntMax \in Int
<1>1. ASSUME NEW B \in Nat, NEW w, w = B * B * B PROVE (B * w) \div 2 - 1 \in Int
  <2>1. B * w \in Nat
    BY <1>1
  <2> QED BY <2>1
<1> QED BY <1>1, MetadataAssumption DEF IntMax, Weight

\* Every int comes back from its bytes, from the two pairs of functions.
LEMMA BytesRoundTrip ==
  ASSUME NEW n \in 0 .. IntMax
  PROVE  /\ long_to_byte_array(n) \in [1 .. 4 -> Byte]
         /\ byte_array_to_long(long_to_byte_array(n)) = n
         /\ unpack32(pack32(n)) = n
<1>0. n \in Nat
  OBVIOUS
<1>1. PICK q \in Nat, a \in Byte, b \in Byte, c \in Byte :
        /\ n = q * Weight[1] + a * Weight[2] + b * Weight[3] + c
        /\ n \div Weight[1] = q
        /\ (n \div Weight[2]) % Base = a
        /\ (n \div Weight[3]) % Base = b
        /\ (n \div Weight[4]) % Base = c
  BY <1>0, Digits
<1>2. q < Base \div 2 /\ q \in Byte
  <2>1. /\ a * Weight[2] \in Nat /\ b * Weight[3] \in Nat
        /\ q * Weight[1] \in Nat /\ c \in Nat
    BY MetadataAssumption DEF Weight, Byte
  <2>2. q * Weight[1] <= n
    BY <1>1, <2>1
  <2> QED BY <2>2, IntRange
<1>3. q % Base = q
  BY <1>2, MetadataAssumption DEF Byte
<1>4. long_to_byte_array(n) = <<q, a, b, c>>
  <2>1. ASSUME NEW i \in 1 .. 4
        PROVE  (n \div Weight[i]) % Base = <<q, a, b, c>>[i]
    <3>1. i = 1 \/ i = 2 \/ i = 3 \/ i = 4
      OBVIOUS
    <3> QED BY <1>1, <1>3, <3>1
  <2> QED BY <2>1 DEF long_to_byte_array
<1>5. Unsigned(<<q, a, b, c>>) = n
  <2>1. Weight[4] = 1
    BY DEF Weight
  <2> QED BY <1>1, <2>1 DEF Unsigned
<1>6. <<q, a, b, c>> \in [1 .. 4 -> Byte]
  BY <1>2
<1>7. <<q, a, b, c>>[1] < Base \div 2
  BY <1>2
<1> QED BY <1>4, <1>5, <1>6, <1>7 DEF byte_array_to_long, unpack32, pack32

-----------------------------------------------------------------------------
(* Sequences.                                                               *)

\* A part of a sequence that agrees with b, index by index, is b.
LEMMA SubSeqIs ==
  ASSUME NEW W, NEW b \in Seq(W), NEW s, NEW m \in Int, NEW n \in Int,
         n = m + Len(b) - 1,
         \A i \in 1 .. Len(b) : s[m + i - 1] = b[i]
  PROVE  SubSeq(s, m, n) = b
<1>1. n \in Int /\ Len(b) \in Nat
  OBVIOUS
<1>2. ASSUME NEW i \in m .. n PROVE s[i] \in W
  <2>1. i - m + 1 \in 1 .. Len(b) /\ m + (i - m + 1) - 1 = i
    BY <1>1
  <2>2. s[i] = b[i - m + 1]
    BY <2>1
  <2> QED BY <2>1, <2>2, ElementOfSeq
<1>3. /\ SubSeq(s, m, n) \in Seq(W)
      /\ Len(SubSeq(s, m, n)) = Len(b)
      /\ \A i \in 1 .. Len(b) : SubSeq(s, m, n)[i] = b[i]
  <2>1. /\ SubSeq(s, m, n) \in Seq(W)
        /\ Len(SubSeq(s, m, n)) = IF m <= n THEN n - m + 1 ELSE 0
        /\ \A i \in 1 .. n - m + 1 : SubSeq(s, m, n)[i] = s[m + i - 1]
    BY <1>1, <1>2, SubSeqProperties
  <2>2. n - m + 1 = Len(b) /\ (m <= n <=> Len(b) > 0)
    BY <1>1
  <2>3. Len(SubSeq(s, m, n)) = Len(b)
    BY <1>1, <2>1, <2>2
  <2>4. \A i \in 1 .. Len(b) : SubSeq(s, m, n)[i] = b[i]
    BY <2>1, <2>2
  <2> QED BY <2>1, <2>3, <2>4
<1> QED BY <1>3, SeqEqual

\* A function on the first n numbers is a sequence.
LEMMA FunctionSeq ==
  ASSUME NEW S, NEW n \in Nat, NEW f \in [1 .. n -> S]
  PROVE  f \in Seq(S) /\ Len(f) = n
<1>1. f \in Seq(S)
  BY SeqDef
<1>2. DOMAIN f = 1 .. Len(f) /\ DOMAIN f = 1 .. n /\ Len(f) \in Nat
  BY <1>1, LenProperties
<1> QED BY <1>1, <1>2

\* The entries of a concatenation.
LEMMA ConcatAt ==
  ASSUME NEW S, NEW u \in Seq(S), NEW v \in Seq(S)
  PROVE  /\ u \o v \in Seq(S) /\ Len(u \o v) = Len(u) + Len(v)
         /\ \A i \in 1 .. Len(u) : (u \o v)[i] = u[i]
         /\ \A i \in 1 .. Len(v) : (u \o v)[Len(u) + i] = v[i]
<1>1. /\ u \o v \in Seq(S) /\ Len(u \o v) = Len(u) + Len(v)
      /\ Len(u) \in Nat /\ Len(v) \in Nat
      /\ \A i \in 1 .. Len(u) + Len(v) :
           (u \o v)[i] = IF i <= Len(u) THEN u[i] ELSE v[i - Len(u)]
  BY ConcatProperties
<1>2. ASSUME NEW i \in 1 .. Len(u) PROVE (u \o v)[i] = u[i]
  BY <1>1
<1>3. ASSUME NEW i \in 1 .. Len(v) PROVE (u \o v)[Len(u) + i] = v[i]
  <2>1. /\ Len(u) + i \in 1 .. Len(u) + Len(v) /\ ~ (Len(u) + i <= Len(u))
        /\ (Len(u) + i) - Len(u) = i
    BY <1>1
  <2> QED BY <1>1, <2>1
<1> QED BY <1>1, <1>2, <1>3

\* An int takes four bytes of a stream.
LEMMA Packed ==
  ASSUME NEW n \in 0 .. IntMax
  PROVE  pack32(n) \in Seq(Byte) /\ Len(pack32(n)) = 4
<1>1. pack32(n) \in [1 .. 4 -> Byte]
  BY BytesRoundTrip DEF pack32
<1> QED BY <1>1, FunctionSeq

-----------------------------------------------------------------------------
(* What write_file gives, and the row that insert_meta makes of it.         *)

\* The tails drawn so far are as many as the blocks, of which a file has enough.
LEMMA Drawn ==
  ASSUME DrawnInv
  PROVE  /\ given.n \in 0 .. IntMax /\ given.n \in Nat /\ given.se \in Nat
         /\ IsFiniteSet(chosen) /\ chosen \subseteq 0 .. IntMax
         /\ Cardinality(chosen) \in Nat /\ Cardinality(chosen) <= given.n
         /\ TailsOf(chosen) \subseteq TailsOf(0 .. IntMax)
<1>1. given.n \in 0 .. IntMax /\ given.n \in Nat /\ given.se \in Nat
  BY DEF DrawnInv, Metas
<1>2. chosen \subseteq 0 .. given.n - 1
  BY DEF DrawnInv
<1>3. IsFiniteSet(0 .. given.n - 1) /\ Cardinality(0 .. given.n - 1) = given.n
  <2>1. given.n - 1 \in Int /\ (0 > given.n - 1 => given.n = 0)
    BY <1>1
  <2> QED BY <1>1, <2>1, FS_Interval
<1>4. /\ IsFiniteSet(chosen) /\ Cardinality(chosen) \in Nat
      /\ Cardinality(chosen) <= given.n
  BY <1>2, <1>3, FS_Subset, FS_CardinalityType
<1>5. chosen \subseteq 0 .. IntMax
  BY <1>1, <1>2, IntMaxInt
<1> QED BY <1>1, <1>4, <1>5 DEF TailsOf

\* A row keeps all but the unused part of tail_sgx, so that what is read from it
\* and written back is the row again.
LEMMA RowStays ==
  ASSUME NEW m \in Metas, Len(m.tailsSe) = m.se, m.tailSgx # <<>>
  PROVE  /\ RowOf(m).n = m.n /\ RowOf(m).se = m.se
         /\ MetaOf(RowOf(m)).n = m.n /\ MetaOf(RowOf(m)).se = m.se
         /\ MetaOf(RowOf(m)).tailsSe = m.tailsSe
         /\ RowOf(MetaOf(RowOf(m))) = RowOf(m)
<1>1. /\ m.n \in Nat /\ m.se \in Nat
      /\ m.tailsSe \in Seq(TailsOf(0 .. IntMax))
      /\ m.tailSgx \in {TailSgx, <<Garbage>>}
      /\ m = [n |-> m.n, se |-> m.se, tailFk |-> m.tailFk, tailSk |-> m.tailSk,
              tailsSe |-> m.tailsSe, tailSgx |-> m.tailSgx]
  BY DEF Metas
<1> DEFINE t == m.tailsSe
           g == SubSeq(m.tailSgx, 1, 1)
           r == RowOf(m)
           h == MetaOf(r)
<1>3. SubSeq(t, 1, m.se) = t
  BY <1>1, SubSeqFull
<1>4. SubSeq(g, 1, 1) = g
  <2>1. g \in Seq({m.tailSgx[1]}) /\ Len(g) = 1
    BY SubSeqProperties
  <2> QED BY <2>1, SubSeqFull
<1>5. r = [n |-> m.n, se |-> m.se, tailFk |-> m.tailFk, tailSk |-> m.tailSk,
           tailsSe |-> t, tailSgx |-> g]
  <2> HIDE DEF g
  <2>0. PICK x : x = r
    OBVIOUS
  <2>1. m \in [n : {m.n}, se : {m.se}, tailFk : {m.tailFk}, tailSk : {m.tailSk},
               tailsSe : {m.tailsSe}, tailSgx : {m.tailSgx}]
    BY <1>1
  <2>2. x = [m EXCEPT !.tailSgx = g]
    BY <2>0 DEF RowOf, g
  <2>3. x \in [n : {m.n}, se : {m.se}, tailFk : {m.tailFk}, tailSk : {m.tailSk},
               tailsSe : {t}, tailSgx : {g}]
    BY <2>1, <2>2
  <2> QED BY <2>0, <2>3
<1> HIDE DEF g, r, h
<1>6. h = [n |-> m.n, se |-> m.se, tailFk |-> m.tailFk, tailSk |-> m.tailSk,
           tailsSe |-> m.tailsSe, tailSgx |-> g]
  <2>1. r \in [n : {m.n}, se : {m.se}, tailFk : {m.tailFk}, tailSk : {m.tailSk},
               tailsSe : {t}, tailSgx : {g}]
    BY <1>5
  <2>2. h = [r EXCEPT !.tailsSe = t]
    <3>1. r.tailsSe = t /\ r.se = m.se
      BY <1>5
    <3> QED BY <1>3, <3>1 DEF h, MetaOf
  <2> QED BY <2>1, <2>2
<1>8. RowOf(h) = r
  <2>0. PICK x : x = RowOf(h)
    OBVIOUS
  <2>1. h \in [n : {m.n}, se : {m.se}, tailFk : {m.tailFk}, tailSk : {m.tailSk},
               tailsSe : {m.tailsSe}, tailSgx : {g}]
    BY <1>6
  <2>2. x = [h EXCEPT !.tailSgx = g]
    <3>1. h.tailSgx = g
      BY <1>6
    <3> QED BY <1>4, <2>0, <3>1 DEF RowOf
  <2>3. x \in [n : {m.n}, se : {m.se}, tailFk : {m.tailFk}, tailSk : {m.tailSk},
               tailsSe : {t}, tailSgx : {g}]
    BY <2>1, <2>2
  <2> QED BY <1>5, <2>0, <2>3
<1>9. /\ r.n = m.n /\ r.se = m.se /\ r.tailsSe = t
      /\ h.n = m.n /\ h.se = m.se /\ h.tailsSe = m.tailsSe
  BY <1>5, <1>6
<1> QED BY <1>8, <1>9 DEF r, h

\* What insert_meta is given has what the row needs.
LEMMA GivenRow ==
  ASSUME DrawnInv, pc \in {"insert", "done"}
  PROVE  /\ Len(given.tailsSe) = given.se /\ given.se <= given.n
         /\ ~ InsertOverflows(given)
         /\ RowOf(given).n = given.n /\ RowOf(given).se = given.se
         /\ MetaOf(RowOf(given)).n = given.n /\ MetaOf(RowOf(given)).se = given.se
         /\ MetaOf(RowOf(given)).tailsSe = given.tailsSe
         /\ RowOf(MetaOf(RowOf(given))) = RowOf(given)
<1>1. Len(given.tailsSe) = given.se /\ given.se <= given.n
  BY Drawn DEF DrawnInv
<1>2. given \in Metas /\ given.tailSgx # <<>>
  <2>1. given.tailSgx = IF given.se = 0 THEN <<Garbage>> ELSE TailSgx
    BY DEF DrawnInv
  <2>2. TailSgx # <<>>
    <3>1. 1 \in DOMAIN TailSgx
      BY MetadataAssumption DEF TailSgx
    <3> QED BY <3>1
  <2> QED BY <2>1, <2>2 DEF DrawnInv
<1>3. ~ InsertOverflows(given)
  BY <1>1, Drawn DEF InsertOverflows
<1> QED BY <1>1, <1>2, <1>3, RowStays

\* A stream gives back what was put into it.
LEMMA StreamStays ==
  ASSUME DrawnInv PROVE StreamRoundTrip
<1> SUFFICES ASSUME pc = "insert", given.se > 0
             PROVE  deserialize_metadata_stream(serialize_metadata_to_stream(given))
                      = given
  BY DEF StreamRoundTrip
<1>1. /\ given.n \in 0 .. IntMax /\ given.se \in 0 .. IntMax
      /\ Len(given.tailsSe) = given.se
      /\ given.tailSgx = TailSgx
      /\ given.tailsSe \in Seq(TailsOf(0 .. IntMax))
      /\ given = [n |-> given.n, se |-> given.se, tailFk |-> given.tailFk,
                  tailSk |-> given.tailSk, tailsSe |-> given.tailsSe,
                  tailSgx |-> given.tailSgx]
  <2>1. given.se <= given.n /\ Len(given.tailsSe) = given.se
    BY GivenRow
  <2>2. given.n \in 0 .. IntMax /\ given.se \in Nat
    BY Drawn
  <2>4. given.tailSgx = TailSgx
    BY <2>2 DEF DrawnInv
  <2>5. /\ given.tailsSe \in Seq(TailsOf(0 .. IntMax))
        /\ given = [n |-> given.n, se |-> given.se, tailFk |-> given.tailFk,
                    tailSk |-> given.tailSk, tailsSe |-> given.tailsSe,
                    tailSgx |-> given.tailSgx]
    BY DEF DrawnInv, Metas
  <2>6. given.se \in 0 .. IntMax
    BY <2>1, <2>2, IntMaxInt
  <2> QED BY <2>1, <2>2, <2>4, <2>5, <2>6
<1> DEFINE W == Byte \cup TailsOf(0 .. IntMax) \cup {given.tailFk, given.tailSk, Iv}
                  \cup { TailSgx[k] : k \in 1 .. SgxWords }
           p == pack32(given.n)
           q == pack32(given.se)
           f == <<given.tailFk, given.tailSk>>
           t == given.tailsSe
           g == TailSgx
           s == serialize_metadata_to_stream(given)
<1>2. p \in Seq(W) /\ q \in Seq(W) /\ Len(p) = 4 /\ Len(q) = 4
  <2>1. Seq(Byte) \subseteq Seq(W)
    BY SeqMonotonic
  <2> QED BY <1>1, <2>1, Packed
<1>3. f \in Seq(W) /\ Len(f) = 2 /\ <<Iv>> \in Seq(W) /\ Len(<<Iv>>) = 1
  OBVIOUS
<1>4. t \in Seq(W) /\ Len(t) = given.se
  <2>1. Seq(TailsOf(0 .. IntMax)) \subseteq Seq(W)
    BY SeqMonotonic
  <2> QED BY <1>1, <2>1
<1>5. g \in Seq(W) /\ Len(g) = SgxWords /\ SgxWords \in Nat
  <2>1. DOMAIN g = 1 .. SgxWords /\ g = [k \in 1 .. SgxWords |-> g[k]]
    BY DEF TailSgx
  <2>2. g \in [1 .. SgxWords -> W]
    BY <2>1
  <2> QED BY <2>2, MetadataAssumption, FunctionSeq
<1>6. SubSeq(t, 1, given.se) = t
  BY <1>4, SubSeqFull
<1>7. s = ((((p \o q) \o f) \o t) \o g) \o <<Iv>>
  BY <1>1, <1>6 DEF serialize_metadata_to_stream
<1> HIDE DEF W, p, q, f, t, g, s
<1>c. p \in Seq(W) /\ q \in Seq(W) /\ f \in Seq(W)
  BY <1>2, <1>3
<1>8. /\ p \o q \in Seq(W) /\ Len(p \o q) = 8
      /\ \A i \in 1 .. 4 : (p \o q)[i] = p[i]
      /\ \A i \in 1 .. 4 : (p \o q)[4 + i] = q[i]
  <2>1. /\ p \o q \in Seq(W) /\ Len(p \o q) = Len(p) + Len(q)
        /\ \A i \in 1 .. Len(p) : (p \o q)[i] = p[i]
    BY <1>c, ConcatAt
  <2>a. \A i \in 1 .. Len(q) : (p \o q)[Len(p) + i] = q[i]
    BY <1>c, ConcatAt
  <2> QED BY <1>2, <2>1, <2>a
<1>9. PICK x \in Seq(W) :
        /\ x = (p \o q) \o f /\ Len(x) = 10
        /\ \A i \in 1 .. 8 : x[i] = (p \o q)[i]
        /\ \A i \in 1 .. 2 : x[8 + i] = f[i]
  <2> DEFINE u == p \o q
  <2> HIDE DEF u
  <2>0. u \in Seq(W)
    BY <1>8 DEF u
  <2>1. Len(u) = 8
    BY <1>8 DEF u
  <2>2. /\ u \o f \in Seq(W) /\ Len(u \o f) = Len(u) + Len(f)
        /\ \A i \in 1 .. Len(u) : (u \o f)[i] = u[i]
    BY <1>c, <2>0, ConcatAt
  <2>a. \A i \in 1 .. Len(f) : (u \o f)[Len(u) + i] = f[i]
    BY <1>c, <2>0, ConcatAt
  <2>3. /\ u \o f \in Seq(W) /\ Len(u \o f) = 10
        /\ \A i \in 1 .. 8 : (u \o f)[i] = u[i]
        /\ \A i \in 1 .. 2 : (u \o f)[8 + i] = f[i]
    BY <1>3, <2>1, <2>2, <2>a, SMTT(30)
  <2> QED BY <2>3 DEF u
<1>10. PICK y \in Seq(W) :
         /\ y = x \o t /\ Len(y) = 10 + given.se
         /\ \A i \in 1 .. 10 : y[i] = x[i]
         /\ \A i \in 1 .. given.se : y[10 + i] = t[i]
  <2>1. /\ x \o t \in Seq(W) /\ Len(x \o t) = Len(x) + Len(t)
        /\ \A i \in 1 .. Len(x) : (x \o t)[i] = x[i]
    BY <1>4, ConcatAt
  <2>a. \A i \in 1 .. Len(t) : (x \o t)[Len(x) + i] = t[i]
    BY <1>4, ConcatAt
  <2>2. /\ x \o t \in Seq(W) /\ Len(x \o t) = 10 + given.se
        /\ \A i \in 1 .. 10 : (x \o t)[i] = x[i]
        /\ \A i \in 1 .. given.se : (x \o t)[10 + i] = t[i]
    BY <1>4, <1>9, <2>1, <2>a
  <2> QED BY <2>2, Zenon
<1>11. PICK z \in Seq(W) :
         /\ z = y \o g /\ Len(z) = (10 + given.se) + SgxWords
         /\ \A i \in 1 .. 10 + given.se : z[i] = y[i]
         /\ \A i \in 1 .. SgxWords : z[(10 + given.se) + i] = g[i]
  <2>1. /\ y \o g \in Seq(W) /\ Len(y \o g) = Len(y) + Len(g)
        /\ \A i \in 1 .. Len(y) : (y \o g)[i] = y[i]
    BY <1>5, ConcatAt
  <2>a. \A i \in 1 .. Len(g) : (y \o g)[Len(y) + i] = g[i]
    BY <1>5, ConcatAt
  <2>2. /\ y \o g \in Seq(W) /\ Len(y \o g) = (10 + given.se) + SgxWords
        /\ \A i \in 1 .. 10 + given.se : (y \o g)[i] = y[i]
        /\ \A i \in 1 .. SgxWords : (y \o g)[(10 + given.se) + i] = g[i]
    BY <1>5, <1>10, <2>1, <2>a
  <2> QED BY <2>2, Zenon
<1>12. /\ s = z \o <<Iv>>
       /\ \A i \in 1 .. (10 + given.se) + SgxWords : s[i] = z[i]
  <2>1. s = z \o <<Iv>>
    BY <1>7, <1>9, <1>10, <1>11
  <2>2. (10 + given.se) + SgxWords \in Nat
    BY <1>1, <1>5
  <2> QED BY <1>3, <1>11, <2>1, <2>2, ConcatAt
<1>13. \A i \in 1 .. 10 : s[i] = x[i]
  <2> SUFFICES ASSUME NEW i \in 1 .. 10 PROVE s[i] = x[i]
    OBVIOUS
  <2>1. i \in 1 .. 10 + given.se /\ i \in 1 .. (10 + given.se) + SgxWords
    BY <1>1, <1>5, SMTT(30)
  <2> QED BY <1>10, <1>11, <1>12, <2>1
<1>14. \A i \in 1 .. 4 : s[i] = p[i] /\ s[4 + i] = q[i]
  <2> SUFFICES ASSUME NEW i \in 1 .. 4 PROVE s[i] = p[i] /\ s[4 + i] = q[i]
    OBVIOUS
  <2>1. i \in 1 .. 10 /\ 4 + i \in 1 .. 10 /\ i \in 1 .. 8 /\ 4 + i \in 1 .. 8
    OBVIOUS
  <2>2. s[i] = x[i] /\ s[4 + i] = x[4 + i]
    BY <1>13, <2>1
  <2>3. x[i] = (p \o q)[i] /\ x[4 + i] = (p \o q)[4 + i]
    BY <1>9, <2>1
  <2>4. (p \o q)[i] = p[i] /\ (p \o q)[4 + i] = q[i]
    BY <1>8
  <2> QED BY <2>2, <2>3, <2>4
<1>16. s[9] = given.tailFk /\ s[10] = given.tailSk
  <2>0. ASSUME NEW i \in 1 .. 2, NEW j, j = 8 + i PROVE x[j] = f[i]
    BY <1>9, <2>0
  <2>1. x[9] = f[1] /\ x[10] = f[2]
    BY <2>0
  <2>2. s[9] = x[9] /\ s[10] = x[10]
    BY <1>13
  <2> QED BY <2>1, <2>2 DEF f
<1>17. \A i \in 1 .. given.se : s[11 + i - 1] = t[i]
  <2> SUFFICES ASSUME NEW i \in 1 .. given.se PROVE s[11 + i - 1] = t[i]
    OBVIOUS
  <2>1. /\ 10 + i \in 1 .. 10 + given.se /\ 11 + i - 1 = 10 + i
        /\ 10 + i \in 1 .. (10 + given.se) + SgxWords
    BY <1>1, <1>5
  <2> QED BY <1>10, <1>11, <1>12, <2>1, SMTT(30)
<1>18. \A i \in 1 .. SgxWords : s[(11 + given.se) + i - 1] = g[i]
  <2> SUFFICES ASSUME NEW i \in 1 .. SgxWords
               PROVE  s[(11 + given.se) + i - 1] = g[i]
    OBVIOUS
  <2>1. /\ (11 + given.se) + i - 1 = (10 + given.se) + i
        /\ (10 + given.se) + i \in 1 .. (10 + given.se) + SgxWords
    BY <1>1, <1>5
  <2> QED BY <1>11, <1>12, <2>1
<1>19. SubSeq(s, 1, 4) = p /\ SubSeq(s, 5, 8) = q
  <2>1. \A i \in 1 .. 4 : s[1 + i - 1] = p[i] /\ s[5 + i - 1] = q[i]
    <3>1. \A i \in 1 .. 4 : 1 + i - 1 = i /\ 5 + i - 1 = 4 + i
      OBVIOUS
    <3> QED BY <3>1, <1>14
  <2>2. SubSeq(s, 1, 4) = p
    BY <1>2, <2>1, SubSeqIs
  <2>3. SubSeq(s, 5, 8) = q
    BY <1>2, <2>1, SubSeqIs
  <2> QED BY <2>2, <2>3
<1>20. unpack32(SubSeq(s, 1, 4)) = given.n /\ unpack32(SubSeq(s, 5, 8)) = given.se
  BY <1>1, <1>19, BytesRoundTrip DEF p, q
<1>21. TailsAt(s) = 11 /\ SgxAt(s) = 11 + given.se
  BY <1>20 DEF TailsAt, SgxAt
<1>22. SubSeq(s, 11, 11 + given.se - 1) = t
  BY <1>4, <1>17, SubSeqIs
<1>23. SubSeq(s, 11 + given.se, 11 + given.se + SgxWords - 1) = g
  <2>1. PICK k \in Int, l \in Int : k = 11 + given.se /\ l = k + SgxWords - 1
    BY <1>1, <1>5
  <2>2. \A i \in 1 .. Len(g) : s[k + i - 1] = g[i]
    BY <1>5, <1>18, <2>1
  <2>3. l = k + Len(g) - 1
    BY <1>5, <2>1
  <2>4. SubSeq(s, k, l) = g
    BY <1>5, <2>2, <2>3, SubSeqIs, Zenon
  <2> QED BY <2>1, <2>4
<1>24. deserialize_metadata_stream(s)
         = [n |-> given.n, se |-> given.se, tailFk |-> given.tailFk,
            tailSk |-> given.tailSk, tailsSe |-> t, tailSgx |-> g]
  <2>1. /\ SubSeq(s, TailsAt(s), SgxAt(s) - 1) = t
        /\ SubSeq(s, SgxAt(s), SgxAt(s) + SgxWords - 1) = g
    <3>1. SgxAt(s) - 1 = 11 + given.se - 1
      BY <1>1, <1>21
    <3> QED BY <1>21, <1>22, <1>23, <3>1, Zenon
  <2> QED BY <1>16, <1>20, <2>1 DEF deserialize_metadata_stream
<1> QED BY <1>1, <1>24 DEF s, t, g

-----------------------------------------------------------------------------
(* Steps.                                                                   *)

\* What write_file gives before any block is drawn.
LEMMA Started ==
  ASSUME DrawnInv, StartWrite
  PROVE  /\ given' \in Metas /\ given'.tailsSe = <<>> /\ chosen' = {}
         /\ given'.tailSgx = IF given'.se = 0 THEN <<Garbage>> ELSE TailSgx
         /\ pc' \in {"insert", "dead", "choose"}
         /\ pc' = "insert" => given'.se = 0
<1>1. PICK n \in BlockCounts, s \in SeCounts :
        /\ given' = IF s = 0
                    THEN [NoMeta EXCEPT !.n = n, !.tailSgx = <<Garbage>>]
                    ELSE [n |-> n, se |-> s, tailFk |-> TailFk, tailSk |-> TailSk,
                          tailsSe |-> <<>>, tailSgx |-> TailSgx]
        /\ pc' = IF s = 0 THEN "insert" ELSE IF n = 0 THEN "dead" ELSE "choose"
  BY DEF StartWrite
<1>2. n \in 0 .. IntMax /\ s \in Nat
  BY MetadataAssumption
<1>3. chosen' = {}
  BY DEF StartWrite, DrawnInv
<1>4. <<>> \in Seq(TailsOf(0 .. IntMax))
  BY EmptySeq
<1>5. CASE s = 0
  <2>0. PICK x : x = given'
    OBVIOUS
  <2>1. NoMeta \in [n : {0}, se : {0}, tailFk : {Garbage}, tailSk : {Garbage},
                    tailsSe : {<<>>}, tailSgx : {<<>>}]
    BY DEF NoMeta
  <2>2. x = [NoMeta EXCEPT !.n = n, !.tailSgx = <<Garbage>>]
    BY <1>1, <1>5, <2>0
  <2>3. x \in [n : {n}, se : {0}, tailFk : {Garbage}, tailSk : {Garbage},
               tailsSe : {<<>>}, tailSgx : {<<Garbage>>}]
    BY <2>1, <2>2
  <2>4. x.se = 0 /\ x.tailsSe = <<>> /\ x.tailSgx = <<Garbage>>
    BY <2>3
  <2>5. x \in Metas
    <3>1. /\ {n} \subseteq 0 .. IntMax /\ {0} \subseteq Nat
          /\ {Garbage} \subseteq {TailFk, Garbage}
          /\ {Garbage} \subseteq {TailSk, Garbage}
          /\ {<<>>} \subseteq Seq(TailsOf(0 .. IntMax))
          /\ {<<Garbage>>} \subseteq {TailSgx, <<Garbage>>, <<>>}
      BY <1>2, <1>4
    <3>2. ASSUME NEW A1, NEW A2, NEW A3, NEW A4, NEW A5, NEW A6,
                 NEW B1, NEW B2, NEW B3, NEW B4, NEW B5, NEW B6,
                 A1 \subseteq B1, A2 \subseteq B2, A3 \subseteq B3,
                 A4 \subseteq B4, A5 \subseteq B5, A6 \subseteq B6,
                 NEW y \in [n : A1, se : A2, tailFk : A3, tailSk : A4,
                            tailsSe : A5, tailSgx : A6]
          PROVE  y \in [n : B1, se : B2, tailFk : B3, tailSk : B4,
                        tailsSe : B5, tailSgx : B6]
      BY <3>2
    <3> QED BY <2>3, <3>1, <3>2, Zenon DEF Metas
  <2>6. pc' = "insert"
    BY <1>1, <1>5
  <2> QED BY <1>3, <2>0, <2>4, <2>5, <2>6
<1>6. CASE s # 0
  <2>1. /\ given' = [n |-> n, se |-> s, tailFk |-> TailFk, tailSk |-> TailSk,
                     tailsSe |-> <<>>, tailSgx |-> TailSgx]
        /\ pc' \in {"dead", "choose"}
    BY <1>1, <1>6
  <2>2. given' \in Metas
    BY <1>2, <1>4, <2>1 DEF Metas
  <2>3. given'.se # 0 /\ given'.tailsSe = <<>> /\ given'.tailSgx = TailSgx
    BY <1>6, <2>1
  <2> QED BY <1>3, <2>1, <2>2, <2>3
<1> QED BY <1>5, <1>6

\* A draw adds one index and its tail; nothing else changes what was drawn.
LEMMA DrawnNext == DrawnInv /\ [Next]_vars => DrawnInv'
<1> SUFFICES ASSUME DrawnInv, [Next]_vars PROVE DrawnInv'
  OBVIOUS
<1>d. /\ Garbage' = Garbage /\ TailSgx' = TailSgx /\ NoMeta' = NoMeta
      /\ Metas' = Metas /\ TailsOf(chosen)' = TailsOf(chosen')
  BY DEF Garbage, TailSgx, NoMeta, Metas, TailsOf, TailSe, TailFk, TailSk, IntMax
<1>1. CASE StartWrite
  <2>1. /\ given' \in Metas /\ given'.tailsSe = <<>> /\ chosen' = {}
        /\ given'.tailSgx = IF given'.se = 0 THEN <<Garbage>> ELSE TailSgx
        /\ pc' \in {"insert", "dead", "choose"}
        /\ pc' = "insert" => given'.se = 0
    BY <1>1, Started
  <2>2. Cardinality({}) = 0 /\ Len(<<>>) = 0
    BY FS_EmptySet
  <2>3. given'.se \in Nat
    BY <2>1 DEF Metas
  <2>4. TailsOf({}) = {} /\ <<>> \in Seq(TailsOf({}))
    BY EmptySeq DEF TailsOf
  <2> QED BY <1>d, <2>1, <2>2, <2>3, <2>4 DEF DrawnInv
<1>2. CASE ChooseBlock
  <2>1. PICK index \in FreeBlocks :
          /\ chosen' = chosen \cup {index}
          /\ given' = [given EXCEPT !.tailsSe = Append(@, TailSe(index))]
    BY <1>2 DEF ChooseBlock
  <2>2. pc = "choose" /\ pc' = "choose" /\ Cardinality(chosen) < given.se
    BY <1>2 DEF ChooseBlock, MoreToChoose
  <2>3. index \in 0 .. given.n - 1 /\ index \notin chosen
    BY <2>1 DEF FreeBlocks
  <2>4. /\ IsFiniteSet(chosen) /\ Cardinality(chosen) \in Nat
        /\ given.n \in 0 .. IntMax /\ given.se \in Nat
    BY Drawn
  <2>5. Cardinality(chosen') = Cardinality(chosen) + 1
    BY <2>1, <2>3, <2>4, FS_AddElement
  <2>6. index \in 0 .. IntMax
    BY <2>3, <2>4, IntMaxInt
  <2> DEFINE e == TailSe(index)
             w == Append(given.tailsSe, e)
  <2>7. /\ e \in TailsOf(chosen') /\ e \in TailsOf(0 .. IntMax)
        /\ TailsOf(chosen) \subseteq TailsOf(chosen')
        /\ TailsOf(chosen') = TailsOf(chosen) \cup {e}
    BY <2>1, <2>6 DEF TailsOf
  <2>8. given.tailsSe \in Seq(TailsOf(0 .. IntMax)) /\ given.tailsSe \in Seq(TailsOf(chosen'))
    <3>1. given.tailsSe \in Seq(TailsOf(chosen))
      BY DEF DrawnInv
    <3> QED BY <2>7, <3>1, SeqMonotonic DEF DrawnInv, Metas
  <2> HIDE DEF e
  <2>9. /\ w \in Seq(TailsOf(0 .. IntMax)) /\ w \in Seq(TailsOf(chosen'))
        /\ Len(w) = Len(given.tailsSe) + 1
        /\ DOMAIN w = 1 .. Len(given.tailsSe) + 1
        /\ DOMAIN given.tailsSe = 1 .. Len(given.tailsSe)
        /\ Len(given.tailsSe) \in Nat
        /\ \A k \in 1 .. Len(given.tailsSe) : w[k] = given.tailsSe[k]
        /\ w[Len(given.tailsSe) + 1] = e
    <3>1. /\ w \in Seq(TailsOf(0 .. IntMax))
          /\ Len(w) = Len(given.tailsSe) + 1
          /\ \A k \in 1 .. Len(given.tailsSe) : w[k] = given.tailsSe[k]
          /\ w[Len(given.tailsSe) + 1] = e
      BY <2>7, <2>8, AppendProperties
    <3>2. w \in Seq(TailsOf(chosen'))
      BY <2>7, <2>8, AppendProperties
    <3>3. DOMAIN w = 1 .. Len(w) /\ DOMAIN given.tailsSe = 1 .. Len(given.tailsSe)
          /\ Len(given.tailsSe) \in Nat
      BY <2>8, <3>1, LenProperties
    <3> QED BY <3>1, <3>2, <3>3
  <2>10. TailsOf(chosen') \subseteq { w[k] : k \in DOMAIN w }
    <3>1. TailsOf(chosen) \subseteq { given.tailsSe[k] : k \in DOMAIN given.tailsSe }
      BY DEF DrawnInv
    <3>2. ASSUME NEW k \in DOMAIN given.tailsSe
          PROVE  k \in DOMAIN w /\ w[k] = given.tailsSe[k]
      BY <2>9
    <3>3. Len(given.tailsSe) + 1 \in DOMAIN w
      BY <2>9
    <3> HIDE DEF w
    <3>4. ASSUME NEW x \in TailsOf(chosen') PROVE \E k \in DOMAIN w : x = w[k]
      <4>1. CASE x = e
        BY <2>9, <3>3, <4>1
      <4>2. CASE x \in TailsOf(chosen)
        BY <3>1, <3>2, <4>2
      <4> QED BY <2>7, <4>1, <4>2
    <3> QED BY <3>4
  <2>11. given' = [given EXCEPT !.tailsSe = w]
    BY <2>1 DEF e
  <2> HIDE DEF w
  <2>12. /\ given' \in Metas /\ given'.tailsSe = w /\ given'.n = given.n
         /\ given'.se = given.se /\ given'.tailSgx = given.tailSgx
    BY <2>9, <2>11 DEF DrawnInv, Metas
  <2>13. chosen' \subseteq 0 .. given'.n - 1
    BY <2>1, <2>3, <2>12 DEF DrawnInv
  <2>14. given'.tailSgx = IF given'.se = 0 THEN <<Garbage>> ELSE TailSgx
    BY <2>2, <2>12 DEF DrawnInv
  <2>15. Len(given'.tailsSe) = Cardinality(chosen')
    BY <2>5, <2>9, <2>12 DEF DrawnInv
  <2>16. Cardinality(chosen') <= given'.se
    BY <2>2, <2>4, <2>5, <2>12
  <2> QED BY <1>d, <2>2, <2>9, <2>10, <2>12, <2>13, <2>14, <2>15, <2>16 DEF DrawnInv
<1>3. CASE AllChosen
  <2>1. /\ pc = "choose" /\ pc' = "insert" /\ UNCHANGED <<given, chosen>>
        /\ ~ (Cardinality(chosen) < given.se)
    BY <1>3 DEF AllChosen, MoreToChoose
  <2>2. Cardinality(chosen) \in Nat /\ given.se \in Nat
    BY Drawn
  <2>3. Cardinality(chosen) = given.se
    BY <2>1, <2>2 DEF DrawnInv
  <2> QED BY <1>d, <2>1, <2>3 DEF DrawnInv
<1>4. CASE InsertMeta
  <2>1. pc = "insert" /\ pc' = "done" /\ UNCHANGED <<given, chosen>>
    BY <1>4 DEF InsertMeta
  <2> QED BY <1>d, <2>1 DEF DrawnInv
<1>5. CASE UNCHANGED writeVars
  BY <1>d, <1>5 DEF DrawnInv, writeVars
<1>6. StartWrite \/ ChooseBlock \/ AllChosen \/ InsertMeta \/ UNCHANGED writeVars
  BY DEF Next, WorkerGetMeta, WorkerInsertMeta, ReadIndexes, vars
<1> QED BY <1>1, <1>2, <1>3, <1>4, <1>5, <1>6

\* The row stays what write_file gave, because every copy of it is whole.
LEMMA RowNext == DrawnInv /\ RowInv /\ [Next]_vars => RowInv'
<1> SUFFICES ASSUME DrawnInv, RowInv, [Next]_vars PROVE RowInv'
  OBVIOUS
<1>n. NoMeta' = NoMeta
  BY DEF NoMeta, Garbage
<1>g. ASSUME given' = given PROVE RowOf(given)' = RowOf(given)
  BY <1>g DEF RowOf
<1>r. ASSUME row' = row PROVE MetaOf(row)' = MetaOf(row)
  BY <1>r DEF MetaOf
<1>1. CASE StartWrite \/ ChooseBlock \/ AllChosen
  <2>1. /\ pc # "done" /\ pc' # "done"
        /\ UNCHANGED <<row, held, holding, rekeys, readDone, overflowed>>
    BY <1>1 DEF StartWrite, ChooseBlock, AllChosen, workerVars, readVars
  <2> QED BY <1>n, <1>g, <1>r, <2>1 DEF RowInv
<1>2. CASE InsertMeta
  <2>1. /\ pc = "insert" /\ pc' = "done" /\ row' = RowOf(given) /\ given' = given
        /\ UNCHANGED <<held, holding, rekeys, readDone>>
    BY <1>2 DEF InsertMeta, workerVars, readVars
  <2>2. ~ holding
    BY <2>1 DEF RowInv
  <2> QED BY <1>n, <1>g, <1>r, <2>1, <2>2 DEF RowInv
<1>3. CASE WorkerGetMeta
  <2>1. /\ pc = "done" /\ held' = MetaOf(row) /\ rekeys < MaxReKeys
        /\ UNCHANGED <<pc, given, row, rekeys, readDone>>
    BY <1>3 DEF WorkerGetMeta, writeVars, readVars
  <2>2. RowOf(given)' = RowOf(given) /\ held' = MetaOf(row)'
    BY <1>n, <1>g, <1>r, <2>1
  <2> QED BY <2>1, <2>2 DEF RowInv
<1>4. CASE WorkerInsertMeta
  <2>1. /\ holding /\ holding' = FALSE /\ row' = RowOf(held)
        /\ UNCHANGED <<pc, given>>
    BY <1>4 DEF WorkerInsertMeta, writeVars
  <2>2. pc = "done" /\ row = RowOf(given) /\ held = MetaOf(row)
    BY <2>1 DEF RowInv
  <2>3. row' = RowOf(given)
    BY <2>1, <2>2, GivenRow
  <2> QED BY <1>n, <1>g, <1>r, <2>1, <2>2, <2>3 DEF RowInv
<1>5. CASE ReadIndexes
  <2>1. pc = "done" /\ UNCHANGED <<pc, given, row, held, holding, rekeys>>
    BY <1>5 DEF ReadIndexes, writeVars, workerVars
  <2>2. RowOf(given)' = RowOf(given) /\ (held = MetaOf(row) => held' = MetaOf(row)')
    BY <1>n, <1>g, <1>r, <2>1
  <2> QED BY <2>1, <2>2 DEF RowInv
<1>6. CASE UNCHANGED vars
  <2>1. UNCHANGED <<pc, given, row, held, holding, rekeys, readDone, overflowed>>
    BY <1>6 DEF vars, writeVars, workerVars, readVars
  <2>2. RowOf(given)' = RowOf(given) /\ (held = MetaOf(row) => held' = MetaOf(row)')
    BY <1>n, <1>g, <1>r, <2>1
  <2> QED BY <1>n, <1>g, <1>r, <2>1, <2>2 DEF RowInv
<1> QED BY <1>1, <1>2, <1>3, <1>4, <1>5, <1>6 DEF Next

\* What a worker writes back is the row that it has read.
LEMMA WriteBack ==
  ASSUME DrawnInv, RowInv, WorkerInsertMeta
  PROVE  /\ row' = row /\ ~ InsertOverflows(held)
<1>1. holding /\ row' = RowOf(held)
  BY DEF WorkerInsertMeta
<1>2. pc = "done" /\ row = RowOf(given) /\ held = MetaOf(row)
  BY <1>1 DEF RowInv
<1>3. row' = row
  BY <1>1, <1>2, GivenRow
<1>4. held.n = given.n /\ held.se = given.se /\ ~ InsertOverflows(given)
  BY <1>2, GivenRow
<1> QED BY <1>3, <1>4 DEF InsertOverflows

\* Types, of which the four bytes of each tail need the tails to be those
\* drawn.
LEMMA TypeNext ==
  TypeOK /\ DrawnInv /\ RowInv /\ [Next]_vars => TypeOK'
<1> SUFFICES ASSUME TypeOK, DrawnInv, RowInv, [Next]_vars PROVE TypeOK'
  OBVIOUS
<1>1. DrawnInv'
  BY DrawnNext
<1>2. chosen' \subseteq 0 .. given'.n - 1
  BY <1>1 DEF DrawnInv
<1>3. ASSUME NEW k \in DOMAIN given'.tailsSe
      PROVE  given'.tailsSe[k].bytes \in [1 .. 4 -> Byte]
  <2>1. PICK S : S = TailsOf(0 .. IntMax)
    OBVIOUS
  <2>2. given'.tailsSe \in Seq(S)
    BY <1>1, <2>1 DEF DrawnInv, Metas, TailsOf, TailSe, IntMax
  <2>3. given'.tailsSe[k] \in S
    BY <2>2, LenProperties, ElementOfSeq
  <2>4. PICK i \in 0 .. IntMax : given'.tailsSe[k] = TailSe(i)
    BY <2>1, <2>3 DEF TailsOf
  <2>5. TailSe(i).bytes = long_to_byte_array(i)
    BY DEF TailSe
  <2> QED BY <2>4, <2>5, BytesRoundTrip
<1>4. /\ rekeys' \in 0 .. MaxReKeys /\ holding' \in BOOLEAN
  <2>1. CASE UNCHANGED <<rekeys, holding>>
    BY <2>1 DEF TypeOK
  <2>2. CASE WorkerGetMeta
    BY <2>2 DEF WorkerGetMeta, TypeOK
  <2>3. CASE WorkerInsertMeta
    <3>1. rekeys \in 0 .. MaxReKeys /\ rekeys < MaxReKeys
      BY <2>3 DEF WorkerInsertMeta, TypeOK, RowInv
    <3>2. rekeys' = rekeys + 1 /\ holding' = FALSE
      BY <2>3 DEF WorkerInsertMeta
    <3>3. MaxReKeys \in Nat
      BY MetadataAssumption
    <3>4. rekeys + 1 \in 0 .. MaxReKeys
      BY <3>1, <3>3
    <3> QED BY <3>2, <3>4
  <2>4. UNCHANGED <<rekeys, holding>> \/ WorkerGetMeta \/ WorkerInsertMeta
    BY DEF Next, StartWrite, ChooseBlock, AllChosen, InsertMeta, ReadIndexes,
           workerVars, vars
  <2> QED BY <2>1, <2>2, <2>3, <2>4
<1>5. pc' \in {"start", "choose", "insert", "done", "dead"}
  <2>1. StartWrite => pc' \in {"insert", "dead", "choose"}
    BY Started
  <2>2. ChooseBlock \/ AllChosen \/ InsertMeta => pc' \in {"choose", "insert", "done"}
    BY DEF ChooseBlock, AllChosen, InsertMeta
  <2>3. WorkerGetMeta \/ WorkerInsertMeta \/ ReadIndexes \/ UNCHANGED vars => pc' = pc
    BY DEF WorkerGetMeta, WorkerInsertMeta, ReadIndexes, writeVars, vars
  <2> QED BY <2>1, <2>2, <2>3 DEF Next, TypeOK
<1>6. readDone' \in BOOLEAN /\ overflowed' \in BOOLEAN
  <2>1. CASE UNCHANGED <<readDone, overflowed>>
    BY <2>1 DEF TypeOK
  <2>2. CASE InsertMeta
    BY <2>2 DEF InsertMeta, InsertOverflows, readVars, TypeOK
  <2>3. CASE WorkerGetMeta
    BY <2>3 DEF WorkerGetMeta, GetOverflows, readVars, TypeOK
  <2>4. CASE WorkerInsertMeta
    BY <2>4 DEF WorkerInsertMeta, InsertOverflows, readVars, TypeOK
  <2>5. CASE ReadIndexes
    BY <2>5 DEF ReadIndexes, GetOverflows, TypeOK
  <2>6. \/ UNCHANGED <<readDone, overflowed>> \/ InsertMeta
        \/ WorkerGetMeta \/ WorkerInsertMeta \/ ReadIndexes
    BY DEF Next, StartWrite, ChooseBlock, AllChosen, readVars, vars
  <2> QED BY <2>1, <2>2, <2>3, <2>4, <2>5, <2>6
<1> QED BY <1>2, <1>3, <1>4, <1>5, <1>6 DEF TypeOK, Byte

\* insert_meta and get_meta leave an array only where se is too large for it.
LEMMA BoundsNext ==
  DrawnInv /\ RowInv /\ BoundsKept /\ [Next]_vars => BoundsKept'
<1> SUFFICES ASSUME DrawnInv, RowInv, BoundsKept, [Next]_vars, overflowed'
             PROVE  row'.se > TailsSeLen
  BY DEF BoundsKept
<1>1. CASE InsertMeta
  <2>1. pc = "insert" /\ overflowed' = (overflowed \/ InsertOverflows(given))
    BY <1>1 DEF InsertMeta
  <2>2. ~ overflowed
    BY <2>1 DEF RowInv
  <2> QED BY <2>1, <2>2, GivenRow
<1>2. CASE WorkerInsertMeta
  <2>1. overflowed' = InsertOverflows(held)
    BY <1>2 DEF WorkerInsertMeta
  <2> QED BY <1>2, <2>1, WriteBack
<1>3. CASE WorkerGetMeta \/ ReadIndexes
  <2>1. overflowed' = GetOverflows(row) /\ row' = row
    BY <1>3 DEF WorkerGetMeta, ReadIndexes
  <2> QED BY <2>1 DEF GetOverflows
<1>4. CASE UNCHANGED <<row, overflowed>>
  BY <1>4 DEF BoundsKept
<1>5. \/ InsertMeta \/ WorkerInsertMeta \/ WorkerGetMeta \/ ReadIndexes
      \/ UNCHANGED <<row, overflowed>>
  BY DEF Next, StartWrite, ChooseBlock, AllChosen, vars
<1> QED BY <1>1, <1>2, <1>3, <1>4, <1>5

\* ReadIndexes decodes exactly the indexes that were drawn.
LEMMA FoundNext ==
  DrawnInv /\ RowInv /\ ReaderFindsBlocks /\ [Next]_vars => ReaderFindsBlocks'
<1> SUFFICES ASSUME DrawnInv, RowInv, ReaderFindsBlocks, [Next]_vars,
                    readDone', ~ overflowed'
             PROVE  found' = chosen'
  BY DEF ReaderFindsBlocks
<1>1. CASE ReadIndexes
  <2>1. /\ pc = "done" /\ chosen' = chosen
        /\ found' = { byte_array_to_long(MetaOf(row).tailsSe[k].bytes) :
                        k \in 1 .. MetaOf(row).se }
    BY <1>1 DEF ReadIndexes, deserialize_metadata_file, writeVars
  <2>2. /\ MetaOf(row).se = given.se /\ MetaOf(row).tailsSe = given.tailsSe
        /\ Len(given.tailsSe) = given.se
    BY <2>1, GivenRow DEF RowInv
  <2>3. /\ given.tailsSe \in Seq(TailsOf(chosen))
        /\ DOMAIN given.tailsSe = 1 .. given.se
        /\ TailsOf(chosen) \subseteq { given.tailsSe[k] : k \in DOMAIN given.tailsSe }
    BY <2>2, LenProperties DEF DrawnInv
  <2>4. ASSUME NEW i \in chosen
        PROVE  byte_array_to_long(TailSe(i).bytes) = i
    <3>1. i \in 0 .. IntMax
      BY Drawn
    <3>2. TailSe(i).bytes = long_to_byte_array(i)
      BY DEF TailSe
    <3> QED BY <3>1, <3>2, BytesRoundTrip
  <2>5. found' = { byte_array_to_long(given.tailsSe[k].bytes) : k \in 1 .. given.se }
    BY <2>1, <2>2
  <2>6. ASSUME NEW k \in 1 .. given.se
        PROVE  byte_array_to_long(given.tailsSe[k].bytes) \in chosen
    <3>1. given.tailsSe[k] \in TailsOf(chosen)
      BY <2>2, <2>3, ElementOfSeq
    <3>2. PICK i \in chosen : given.tailsSe[k] = TailSe(i)
      BY <3>1 DEF TailsOf
    <3> QED BY <2>4, <3>2
  <2>7. ASSUME NEW i \in chosen
        PROVE  \E k \in 1 .. given.se : i = byte_array_to_long(given.tailsSe[k].bytes)
    <3>1. TailSe(i) \in TailsOf(chosen)
      BY DEF TailsOf
    <3>2. PICK k \in 1 .. given.se : TailSe(i) = given.tailsSe[k]
      BY <2>3, <3>1
    <3> QED BY <2>4, <3>2
  <2> QED BY <2>1, <2>5, <2>6, <2>7
<1>2. CASE UNCHANGED <<readVars, chosen>>
  <2>1. readDone
    BY <1>2 DEF readVars
  <2>2. ~ overflowed
    <3>1. CASE WorkerGetMeta \/ WorkerInsertMeta
      BY <3>1 DEF WorkerGetMeta, WorkerInsertMeta
    <3>2. CASE InsertMeta
      BY <2>1, <3>2 DEF InsertMeta
    <3>3. CASE UNCHANGED overflowed
      BY <3>3
    <3>4. CASE ReadIndexes
      BY <3>4 DEF ReadIndexes
    <3> QED BY <3>1, <3>2, <3>3, <3>4
         DEF Next, StartWrite, ChooseBlock, AllChosen, vars
  <2> QED BY <1>2, <2>1, <2>2 DEF ReaderFindsBlocks, readVars
<1>3. ASSUME ~ ReadIndexes PROVE UNCHANGED <<readVars, chosen>>
  <2>1. CASE StartWrite \/ ChooseBlock \/ AllChosen
    <3>1. pc # "done" /\ UNCHANGED readVars
      BY <2>1 DEF StartWrite, ChooseBlock, AllChosen
    <3>2. readDone' = readDone
      BY <3>1 DEF readVars
    <3> QED BY <3>1, <3>2 DEF RowInv
  <2>2. CASE InsertMeta \/ WorkerGetMeta \/ WorkerInsertMeta \/ UNCHANGED vars
    BY <2>2 DEF InsertMeta, WorkerGetMeta, WorkerInsertMeta, writeVars, readVars, vars
  <2> QED BY <1>3, <2>1, <2>2 DEF Next
<1> QED BY <1>1, <1>2, <1>3

-----------------------------------------------------------------------------
(* The theorems.                                                            *)

\* All of it holds before write_file starts.
LEMMA InvInit == Init => IInv
<1> SUFFICES ASSUME Init PROVE IInv
  OBVIOUS
<1>1. /\ pc = "start" /\ given = NoMeta /\ chosen = {} /\ row = NoMeta
      /\ holding = FALSE /\ rekeys = 0 /\ readDone = FALSE /\ overflowed = FALSE
  BY DEF Init
<1>2. /\ NoMeta.n = 0 /\ NoMeta.se = 0 /\ NoMeta.tailsSe = <<>>
      /\ Len(<<>>) = 0 /\ Cardinality({}) = 0
  BY FS_EmptySet DEF NoMeta
<1>3. DrawnInv
  <2>1. TailsOf({}) = {} /\ <<>> \in Seq(TailsOf({})) /\ <<>> \in Seq(TailsOf(0 .. IntMax))
    BY EmptySeq DEF TailsOf
  <2>2. 0 \in 0 .. IntMax
    <3>1. ASSUME NEW h \in Nat \ {0}, NEW w \in Nat \ {0}, NEW b, b = 2 * h
          PROVE  (b * w) \div 2 - 1 \in Nat
      <4>1. h * w \in Nat \ {0} /\ b * w = 2 * (h * w) + 0 /\ b * w \in Nat
        BY <3>1
      <4>2. (b * w) \div 2 = h * w
        BY <4>1, DivUnique
      <4> QED BY <4>1, <4>2
    <3>2. PICK h \in Nat \ {0} : Base = 2 * h
      <4>1. PICK q2 \in Nat, r2 \in 0 .. 1 : r2 = Base % 2 /\ Base = 2 * q2 + r2
        BY MetadataAssumption, DivMod
      <4> QED BY <4>1, MetadataAssumption
    <3>3. Weight[1] \in Nat \ {0}
      <4>1. ASSUME NEW B \in Nat \ {0} PROVE B * B * B \in Nat \ {0}
        OBVIOUS
      <4> QED BY <4>1, MetadataAssumption DEF Weight
    <3> QED BY <3>1, <3>2, <3>3 DEF IntMax
  <2>3. NoMeta \in Metas
    BY <2>1, <2>2 DEF NoMeta, Metas
  <2> QED BY <1>1, <1>2, <2>1, <2>3 DEF DrawnInv
<1>4. RowInv
  BY <1>1 DEF RowInv
<1>5. TypeOK
  <2>1. DOMAIN given.tailsSe = {}
    BY <1>1, <1>2
  <2>2. 0 \in 0 .. MaxReKeys
    BY MetadataAssumption
  <2> QED BY <1>1, <1>2, <2>1, <2>2 DEF TypeOK
<1>6. ReaderFindsBlocks /\ BoundsKept
  BY <1>1 DEF ReaderFindsBlocks, BoundsKept
<1> QED BY <1>3, <1>4, <1>5, <1>6, StreamStays DEF IInv

\* Every part is preserved, with the help of the other parts.
LEMMA InvNext == IInv /\ [Next]_vars => IInv'
<1> SUFFICES ASSUME IInv, [Next]_vars PROVE IInv'
  OBVIOUS
<1>1. TypeOK' /\ DrawnInv' /\ RowInv' /\ ReaderFindsBlocks' /\ BoundsKept'
  BY TypeNext, DrawnNext, RowNext, FoundNext, BoundsNext DEF IInv
<1>2. DrawnInv' => StreamRoundTrip'
  BY StreamStays, PTL
<1> QED BY <1>1, <1>2 DEF IInv

\* The tails are those of the blocks drawn so far, and the row is what
\* write_file gave, whoever wrote it last (client.cpp 115-141, cass.cpp 7-34 of
\* client and server).
THEOREM Inductive == Spec => []IInv
<1> QED BY InvInit, InvNext, PTL DEF Spec

\* The variables have their types, the tails those of four bytes.
THEOREM TypeCorrect == Spec => []TypeOK
<1>1. IInv => TypeOK
  BY DEF IInv
<1> QED BY <1>1, Inductive, PTL

\* Whatever the number of blocks, up to the largest int, and however often
\* workers have written the metadata back, a reader decrypts the indexes of the
\* super-encrypted blocks and no others (client.cpp 398-415).
THEOREM ReaderCorrect == Spec => []ReaderFindsBlocks
<1>1. IInv => ReaderFindsBlocks
  BY DEF IInv
<1> QED BY <1>1, Inductive, PTL

\* No array of tails is left unless the caller asked for more super-encrypted
\* blocks than tails_se has entries (client cass.cpp 19-24, 86-91).
THEOREM BoundsCorrect == Spec => []BoundsKept
<1>1. IInv => BoundsKept
  BY DEF IInv
<1> QED BY <1>1, Inductive, PTL

\* What goes into a stream comes out of it, for every size of its parts
\* (serialization.cpp 53-144).
THEOREM StreamCorrect == Spec => []StreamRoundTrip
<1>1. IInv => StreamRoundTrip
  BY DEF IInv
<1> QED BY <1>1, Inductive, PTL

\* A row that a worker wrote is the row that write_file wrote (App rekey.cpp
\* 65-96).
THEOREM WriteBackCorrect == Spec => WriteBackChangesNothing
<1>1. IInv /\ [Next]_vars => [rekeys' # rekeys => row' = row]_vars
  <2> SUFFICES ASSUME DrawnInv, RowInv, [Next]_vars, rekeys' # rekeys PROVE row' = row
    BY DEF IInv
  <2>1. WorkerInsertMeta
    BY DEF Next, StartWrite, ChooseBlock, AllChosen, InsertMeta, WorkerGetMeta,
           ReadIndexes, workerVars, vars
  <2> QED BY <2>1, WriteBack
<1> QED BY <1>1, Inductive, PTL DEF Spec, WriteBackChangesNothing

=============================================================================
