-------------------------- MODULE XorCrypto_proofs ---------------------------
(***************************************************************************)
(* The algebra of XOR, of counter mode and of the hashes.                   *)
(***************************************************************************)
EXTENDS XorCrypto, FiniteSetTheorems, TLAPS

\* The byte strings are an abelian group in which everything is its own
\* inverse.
LEMMA XorAlgebra ==
  /\ \A a : Xor(a, a) = {} /\ Xor(a, {}) = a /\ Xor({}, a) = a
  /\ \A a, b : Xor(a, b) = Xor(b, a)
  /\ \A a, b, c : Xor(Xor(a, b), c) = Xor(a, Xor(b, c))
<1>1. ASSUME NEW a
      PROVE  Xor(a, a) = {} /\ Xor(a, {}) = a /\ Xor({}, a) = a
  BY DEF Xor, SymDiff
<1>2. ASSUME NEW a, NEW b PROVE Xor(a, b) = Xor(b, a)
  BY DEF Xor, SymDiff
<1>3. ASSUME NEW a, NEW b, NEW c
      PROVE  Xor(Xor(a, b), c) = Xor(a, Xor(b, c))
  BY DEF Xor, SymDiff
<1> QED BY <1>1, <1>2, <1>3

\* XORing twice gives back the first, and XOR can be cancelled on both sides.
LEMMA XorCancels ==
  /\ \A a, b : Xor(Xor(a, b), b) = a
  /\ \A a, b, c : Xor(Xor(a, b), c) = a => b = c
  /\ \A a, b, c : Xor(a, b) = Xor(c, b) => a = c
<1>1. ASSUME NEW a, NEW b PROVE Xor(Xor(a, b), b) = a
  BY DEF Xor, SymDiff
<1>2. ASSUME NEW a, NEW b, NEW c, Xor(Xor(a, b), c) = a PROVE b = c
  <2>1. \A x : x \in b <=> x \in c
    BY <1>2 DEF Xor, SymDiff
  <2> QED BY <2>1
<1>3. ASSUME NEW a, NEW b, NEW c, Xor(a, b) = Xor(c, b) PROVE a = c
  BY <1>1, <1>3
<1> QED BY <1>1, <1>2, <1>3

\* Counter mode undoes itself.
LEMMA AesRoundTrip ==
  \A key, bytes : AesCtr(key, AesCtr(key, bytes)) = bytes
BY XorCancels DEF AesCtr

\* Which terms a XOR has.
LEMMA XorTerms ==
  \A a, b, x : x \in Xor(a, b) <=> ~ (x \in a <=> x \in b)
BY DEF Xor, SymDiff

\* Nothing XORed is nothing.
LEMMA XorAllEmpty ==
  ASSUME NEW f, DOMAIN f = {} PROVE XorAll(f) = {}
BY DEF XorAll

\* One value more is one XOR more.
LEMMA XorAllStep ==
  ASSUME NEW n \in Nat, NEW f, NEW g,
         DOMAIN f = 0 .. n - 1, DOMAIN g = 0 .. n,
         \A i \in 0 .. n - 1 : g[i] = f[i]
  PROVE  XorAll(g) = Xor(XorAll(f), g[n])
<1>d. 0 .. n = (0 .. n - 1) \cup {n} /\ n \notin 0 .. n - 1
  OBVIOUS
<1>1. ASSUME NEW x
      PROVE  x \in XorAll(g) <=> ~ (x \in XorAll(f) <=> x \in g[n])
  <2> DEFINE F == { i \in DOMAIN f : x \in f[i] }
             G == { i \in DOMAIN g : x \in g[i] }
  <2>1. IsFiniteSet(0 .. n - 1)
    BY FS_Interval
  <2>2. IsFiniteSet(F) /\ Cardinality(F) \in Nat
    BY <2>1, FS_Subset, FS_CardinalityType
  <2>3. G = IF x \in g[n] THEN F \cup {n} ELSE F
    BY <1>d
  <2>4. n \notin F
    BY <1>d
  <2>5. Cardinality(G) = IF x \in g[n] THEN Cardinality(F) + 1 ELSE Cardinality(F)
    BY <2>2, <2>3, <2>4, FS_AddElement
  <2>e. Cardinality({}) = 0 /\ ~ (0 % 2 = 1)
    BY FS_EmptySet
  <2>6. x \in XorAll(f) <=> Cardinality(F) % 2 = 1
    <3>1. Cardinality(F) % 2 = 1 => F # {}
      BY <2>e
    <3> QED BY <3>1 DEF XorAll
  <2>7. x \in XorAll(g) <=> Cardinality(G) % 2 = 1
    <3>1. Cardinality(G) % 2 = 1 => G # {}
      BY <2>e
    <3> QED BY <3>1 DEF XorAll
  <2>8. \A k \in Nat : (k + 1) % 2 = 1 <=> ~ (k % 2 = 1)
    OBVIOUS
  <2> QED BY <2>2, <2>5, <2>6, <2>7, <2>8
<1>2. \A x : x \in XorAll(g) <=> x \in Xor(XorAll(f), g[n])
  BY <1>1, XorTerms
<1> QED BY <1>2

\* The XOR of hashes has each hash that occurs an odd number of times, so the
\* one of distinct byte strings has the hashes of all of them.
LEMMA XorAllOfHashes ==
  ASSUME NEW S, NEW b, DOMAIN b = S, NEW f, f = [i \in S |-> Sha(b[i])]
  PROVE  /\ \A x \in XorAll(f) : \E i \in S : x = <<"sha", b[i]>>
         /\ IsInjective(b) => \A i \in S : <<"sha", b[i]>> \in XorAll(f)
<1>1. ASSUME NEW x \in XorAll(f) PROVE \E i \in S : x = <<"sha", b[i]>>
  BY DEF XorAll, Sha
<1>2. ASSUME IsInjective(b), NEW i \in S
      PROVE  <<"sha", b[i]>> \in XorAll(f)
  <2>1. { j \in S : <<"sha", b[i]>> \in f[j] } = {i}
    BY <1>2 DEF IsInjective, Sha
  <2>2. Cardinality({i}) = 1 /\ 1 % 2 = 1
    BY FS_Singleton
  <2>3. <<"sha", b[i]>> \in f[i]
    BY DEF Sha
  <2> QED BY <2>1, <2>2, <2>3 DEF XorAll
<1> QED BY <1>1, <1>2

=============================================================================
