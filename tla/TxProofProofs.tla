---------------------------- MODULE TxProofProofs ----------------------------
(***************************************************************************)
(* Verification is sound, for any blocks of fewer than 256 transactions of *)
(* any types, any reorganisations while the proof is generated, and nodes  *)
(* collected for any other index.  And of such blocks, which proofs of the *)
(* program's own verify.                                                   *)
(***************************************************************************)
EXTENDS TxProof, TLAPS, FiniteSetTheorems, SequenceTheorems

Nibble == 0 .. 15

-----------------------------------------------------------------------------
(* Paths *)

\* The three shapes of a key.
LEMMA NibblesShape ==
    ASSUME NEW i \in 0 .. 255
    PROVE  /\ i = 0 => Nibbles(i) = <<8, 0>>
           /\ i # 0 /\ i < 128 => Nibbles(i) = <<i \div 16, i % 16>>
           /\ i >= 128 => Nibbles(i) = <<8, 1, i \div 16, i % 16>>
           /\ i \div 16 \in Nibble /\ i % 16 \in Nibble
  <1>1. i \div 16 \in Nibble /\ i % 16 \in Nibble
    BY DEF Nibble
  <1>2. i = 0 => Nibbles(i) = <<8, 0>>
    BY DEF Nibbles
  <1>3. i # 0 /\ i < 128 => Nibbles(i) = <<i \div 16, i % 16>>
    <2>1. i # 0 /\ i < 128 => Nibbles(i) = <<>> \o <<i \div 16, i % 16>>
      BY DEF Nibbles
    <2>2. <<i \div 16, i % 16>> \in Seq(Nibble)
      BY <1>1
    <2> QED
      BY <2>1, <2>2, ConcatEmptySeq
  <1>4. i >= 128 => Nibbles(i) = <<8, 1, i \div 16, i % 16>>
    <2>1. i >= 128 => Nibbles(i) = <<8, 1>> \o <<i \div 16, i % 16>>
      BY DEF Nibbles
    <2> QED
      BY <1>1, <2>1
  <1> QED
    BY <1>1, <1>2, <1>3, <1>4

\* A key is two or four nibbles long; what its nibbles are.
LEMMA NibblesType ==
    ASSUME NEW i \in 0 .. 255
    PROVE  /\ Nibbles(i) \in Seq(Nibble) /\ Len(Nibbles(i)) \in {2, 4}
           /\ Len(Nibbles(i)) = 4 <=> i >= 128
           /\ i = 0 => Nibbles(i)[1] = 8 /\ Nibbles(i)[2] = 0
           /\ i # 0 /\ i < 128 => Nibbles(i)[1] = i \div 16 /\ Nibbles(i)[2] = i % 16
           /\ i >= 128 => /\ Nibbles(i)[1] = 8 /\ Nibbles(i)[2] = 1
                          /\ Nibbles(i)[3] = i \div 16 /\ Nibbles(i)[4] = i % 16
  <1>0. 8 \in Nibble /\ 0 \in Nibble /\ 1 \in Nibble
    BY DEF Nibble
  <1> DEFINE q == i \div 16
             r == i % 16
  <1>q. q \in Nibble /\ r \in Nibble
    BY NibblesShape
  <1>1. CASE i = 0
    <2>1. Nibbles(i) = <<8, 0>>
      BY <1>1, NibblesShape
    <2>2. Nibbles(i) \in Seq(Nibble) /\ Len(Nibbles(i)) = 2 /\ Nibbles(i)[1] = 8 /\ Nibbles(i)[2] = 0
      BY <1>0, <2>1
    <2>3. ~(i >= 128) /\ ~(i # 0)
      BY <1>1
    <2> QED
      BY <2>2, <2>3
  <1>2. CASE i # 0 /\ i < 128
    <2>1. Nibbles(i) = <<q, r>>
      BY <1>2, NibblesShape
    <2> HIDE DEF q, r
    <2>2. Nibbles(i) \in Seq(Nibble) /\ Len(Nibbles(i)) = 2 /\ Nibbles(i)[1] = q /\ Nibbles(i)[2] = r
      BY <1>q, <2>1
    <2> QED
      BY <1>2, <2>2 DEF q, r
  <1>3. CASE i >= 128
    <2>1. Nibbles(i) = <<8, 1, q, r>>
      BY <1>3, NibblesShape
    <2> HIDE DEF q, r
    <2>2. /\ Nibbles(i) \in Seq(Nibble) /\ Len(Nibbles(i)) = 4 /\ Nibbles(i)[1] = 8
          /\ Nibbles(i)[2] = 1 /\ Nibbles(i)[3] = q /\ Nibbles(i)[4] = r
      BY <1>0, <1>q, <2>1
    <2> QED
      BY <1>3, <2>2 DEF q, r
  <1> QED
    BY <1>1, <1>2, <1>3

\* The types only.
LEMMA KeyType ==
    ASSUME NEW i \in 0 .. 255
    PROVE  Nibbles(i) \in Seq(Nibble) /\ Len(Nibbles(i)) \in 2 .. 4
  <1>1. Nibbles(i) \in Seq(Nibble) /\ Len(Nibbles(i)) \in {2, 4}
    BY NibblesType, Zenon
  <1>2. \A n \in {2, 4} : n \in 2 .. 4
    OBVIOUS
  <1> QED
    BY <1>1, <1>2, Zenon

\* The keys of a trie are prefix-free: a key that another one begins with is it.
LEMMA PrefixFree ==
    ASSUME NEW i \in 0 .. 255, NEW j \in 0 .. 255,
           Len(Nibbles(i)) <= Len(Nibbles(j)),
           \A k \in 1 .. Len(Nibbles(i)) : Nibbles(i)[k] = Nibbles(j)[k]
    PROVE  i = j
  <1>1. Nibbles(i)[1] = Nibbles(j)[1] /\ Nibbles(i)[2] = Nibbles(j)[2]
    <2>1. Len(Nibbles(i)) \in {2, 4}
      BY NibblesType, Zenon
    <2>2. \A n \in {2, 4} : 1 \in 1 .. n /\ 2 \in 1 .. n
      OBVIOUS
    <2> QED
      BY <2>1, <2>2
  <1>2. Len(Nibbles(i)) = 4 => Nibbles(i)[3] = Nibbles(j)[3] /\ Nibbles(i)[4] = Nibbles(j)[4]
    OBVIOUS
  <1>3. \A k \in 0 .. 255 : k = (16 * (k \div 16)) + (k % 16) /\ (k < 128 => k \div 16 < 8)
    OBVIOUS
  <1>4. \A k \in {i, j} :
           /\ Len(Nibbles(k)) = 4 <=> k >= 128
           /\ k = 0 => Nibbles(k)[1] = 8 /\ Nibbles(k)[2] = 0
           /\ k # 0 /\ k < 128 => Nibbles(k)[1] = k \div 16 /\ Nibbles(k)[2] = k % 16
           /\ k >= 128 => /\ Nibbles(k)[1] = 8 /\ Nibbles(k)[2] = 1
                          /\ Nibbles(k)[3] = k \div 16 /\ Nibbles(k)[4] = k % 16
    BY NibblesType, ZenonT(30)
  <1>5. CASE i < 128
    BY <1>1, <1>3, <1>4, <1>5
  <1>6. CASE i >= 128
    BY <1>1, <1>2, <1>3, <1>4, <1>6
  <1> QED
    BY <1>5, <1>6

\* What is left of a path.
LEMMA DropFacts ==
    ASSUME NEW s \in Seq(Nibble), NEW d \in 0 .. Len(s)
    PROVE  /\ Drop(s, d) \in Seq(Nibble) /\ Len(Drop(s, d)) = Len(s) - d
           /\ \A k \in 1 .. Len(s) - d : Drop(s, d)[k] = s[d + k]
           /\ Drop(s, d) = <<>> <=> d = Len(s)
  <1>1. Len(s) \in Nat /\ \A k \in (d + 1) .. Len(s) : s[k] \in Nibble
    BY ElementOfSeq
  <1>2. /\ SubSeq(s, d + 1, Len(s)) \in Seq(Nibble)
        /\ Len(SubSeq(s, d + 1, Len(s))) = IF d + 1 <= Len(s) THEN Len(s) - (d + 1) + 1 ELSE 0
        /\ \A k \in 1 .. Len(s) - (d + 1) + 1 : SubSeq(s, d + 1, Len(s))[k] = s[d + 1 + k - 1]
    BY <1>1, SubSeqProperties
  <1>3. /\ Drop(s, d) \in Seq(Nibble) /\ Len(Drop(s, d)) = Len(s) - d
        /\ \A k \in 1 .. Len(s) - d : Drop(s, d)[k] = s[d + k]
    BY <1>1, <1>2 DEF Drop
  <1>4. Drop(s, d) = <<>> <=> Len(Drop(s, d)) = 0
    BY <1>3
  <1> QED
    BY <1>1, <1>3, <1>4

\* Two rests of paths with the same nibbles are the same.
LEMMA SamePath ==
    ASSUME NEW s \in Seq(Nibble), NEW t \in Seq(Nibble), Len(s) = Len(t),
           \A k \in 1 .. Len(s) : s[k] = t[k]
    PROVE  s = t
  BY SeqEqual

\* Dropping one nibble after d, and n after d.
LEMMA DropMore ==
    ASSUME NEW s \in Seq(Nibble), NEW d \in 0 .. Len(s), NEW n \in 0 .. Len(s) - d
    PROVE  /\ d < Len(s) => Tail(Drop(s, d)) = Drop(s, d + 1)
           /\ Drop(Drop(s, d), n) = Drop(s, d + n)
  <1> DEFINE u == Drop(s, d)
  <1>1. Len(s) \in Nat /\ d + n \in 0 .. Len(s)
    OBVIOUS
  <1>2. u \in Seq(Nibble) /\ Len(u) = Len(s) - d /\ \A k \in 1 .. Len(s) - d : u[k] = s[d + k]
    BY DropFacts
  <1> HIDE DEF u
  <1>3. ASSUME d < Len(s) PROVE Tail(u) = Drop(s, d + 1)
    <2>1. /\ Drop(s, d + 1) \in Seq(Nibble) /\ Len(Drop(s, d + 1)) = Len(s) - (d + 1)
          /\ \A k \in 1 .. Len(s) - (d + 1) : Drop(s, d + 1)[k] = s[d + 1 + k]
      <3>1. d + 1 \in 0 .. Len(s)
        BY <1>1, <1>3
      <3> QED
        BY <3>1, DropFacts, Zenon
    <2>2. u # <<>>
      BY <1>1, <1>2, <1>3
    <2>3. /\ Tail(u) \in Seq(Nibble) /\ Len(Tail(u)) = Len(u) - 1
          /\ \A k \in 1 .. Len(Tail(u)) : Tail(u)[k] = u[k + 1]
      BY <1>2, <2>2, HeadTailProperties
    <2>4. Len(Tail(u)) = Len(Drop(s, d + 1))
      BY <1>1, <1>2, <2>1, <2>3
    <2>5. \A k \in 1 .. Len(Tail(u)) : Tail(u)[k] = Drop(s, d + 1)[k]
      <3> TAKE k \in 1 .. Len(Tail(u))
      <3>1. /\ k \in 1 .. Len(s) - (d + 1) /\ k + 1 \in 1 .. Len(s) - d
            /\ d + (k + 1) = d + 1 + k
        BY <1>1, <1>2, <2>3, SMTT(30)
      <3>2. Tail(u)[k] = u[k + 1] /\ u[k + 1] = s[d + (k + 1)]
        BY <1>2, <2>3, <3>1, ZenonT(30)
      <3>3. Drop(s, d + 1)[k] = s[d + 1 + k]
        BY <2>1, <3>1, ZenonT(30)
      <3> QED
        BY <3>1, <3>2, <3>3, ZenonT(30)
    <2> QED
      BY <2>1, <2>3, <2>4, <2>5, SamePath
  <1>4. Drop(u, n) = Drop(s, d + n)
    <2>1. /\ Drop(s, d + n) \in Seq(Nibble) /\ Len(Drop(s, d + n)) = Len(s) - (d + n)
          /\ \A k \in 1 .. Len(s) - (d + n) : Drop(s, d + n)[k] = s[d + n + k]
      BY <1>1, DropFacts, Zenon
    <2>2. /\ Drop(u, n) \in Seq(Nibble) /\ Len(Drop(u, n)) = Len(u) - n
          /\ \A k \in 1 .. Len(u) - n : Drop(u, n)[k] = u[n + k]
      BY <1>1, <1>2, DropFacts, ZenonT(30)
    <2>3. Len(Drop(u, n)) = Len(Drop(s, d + n))
      <3>1. (Len(s) - d) - n = Len(s) - (d + n)
        BY <1>1
      <3> QED
        BY <1>2, <2>1, <2>2, <3>1
    <2>4. \A k \in 1 .. Len(Drop(u, n)) : Drop(u, n)[k] = Drop(s, d + n)[k]
      <3> TAKE k \in 1 .. Len(Drop(u, n))
      <3>1. /\ k \in 1 .. Len(u) - n /\ k \in 1 .. Len(s) - (d + n) /\ n + k \in 1 .. Len(s) - d
            /\ d + (n + k) = d + n + k
        BY <1>1, <1>2, <2>2, SMTT(30)
      <3>2. Drop(u, n)[k] = u[n + k] /\ u[n + k] = s[d + (n + k)]
        BY <1>2, <2>2, <3>1, ZenonT(30)
      <3>3. Drop(s, d + n)[k] = s[d + n + k]
        BY <2>1, <3>1, ZenonT(30)
      <3> QED
        BY <3>1, <3>2, <3>3, ZenonT(30)
    <2> QED
      BY <2>1, <2>2, <2>3, <2>4, SamePath
  <1> QED
    BY <1>3, <1>4 DEF u

-----------------------------------------------------------------------------
(* Nodes *)

\* The path of a short node is shared by everything below it, and all of the
\* path in a leaf.
LEMMA NodeKeyFacts ==
    ASSUME NEW T, T # {}, IsFiniteSet(T), \A e \in T : e[1] \in Seq(Nibble) /\ Len(e[1]) <= 4
    PROVE  /\ NodeKey(T) \in Seq(Nibble)
           /\ \A e \in T : /\ Len(NodeKey(T)) <= Len(e[1])
                           /\ \A k \in 1 .. Len(NodeKey(T)) : NodeKey(T)[k] = e[1][k]
           /\ IsLeaf(T) => \A e \in T : e[1] = NodeKey(T)
  <1> DEFINE f == CHOOSE e \in T : TRUE
             p == f[1]
             M == {n \in 0 .. Len(p) : \A e \in T : IsPrefix(SubSeq(p, 1, n), e[1])}
             m == Max(M)
  <1>1. f \in T
    OBVIOUS
  <1>2. p \in Seq(Nibble) /\ Len(p) <= 4 /\ Len(p) \in Nat
    BY <1>1
  <1>3. NodeKey(T) = SubSeq(p, 1, m)
    BY DEF NodeKey, SharedPrefix
  <1> HIDE DEF f, p
  <1>4. \A n \in 0 .. Len(p) : /\ SubSeq(p, 1, n) \in Seq(Nibble) /\ Len(SubSeq(p, 1, n)) = n
                               /\ \A k \in 1 .. n : SubSeq(p, 1, n)[k] = p[k]
    <2> TAKE n \in 0 .. Len(p)
    <2>1. \A k \in 1 .. n : p[k] \in Nibble
      BY <1>2, ElementOfSeq
    <2>2. /\ SubSeq(p, 1, n) \in Seq(Nibble)
          /\ Len(SubSeq(p, 1, n)) = IF 1 <= n THEN n - 1 + 1 ELSE 0
          /\ \A k \in 1 .. n - 1 + 1 : SubSeq(p, 1, n)[k] = p[1 + k - 1]
      BY <2>1, SubSeqProperties
    <2> QED
      BY <1>2, <2>2
  <1>5. \A s, t \in Seq(Nibble) :
           IsPrefix(s, t) => Len(s) <= Len(t) /\ \A k \in 1 .. Len(s) : s[k] = t[k]
    <2> TAKE s, t \in Seq(Nibble)
    <2> HAVE IsPrefix(s, t)
    <2>1. Len(s) <= Len(t) /\ SubSeq(s, 1, Len(s)) = SubSeq(t, 1, Len(s)) /\ Len(s) \in Nat /\ Len(t) \in Nat
      BY DEF IsPrefix
    <2>2. \A k \in 1 .. Len(s) : SubSeq(s, 1, Len(s))[k] = s[k] /\ SubSeq(t, 1, Len(s))[k] = t[k]
      BY <2>1
    <2> QED
      BY <2>1, <2>2
  <1>6. 0 \in M
    <2>1. SubSeq(p, 1, 0) = <<>> /\ \A e \in T : SubSeq(e[1], 1, 0) = <<>>
      BY SubSeqEmpty
    <2>2. Len(<<>>) = 0 /\ SubSeq(<<>>, 1, 0) = <<>>
      BY SubSeqEmpty
    <2>3. \A e \in T : Len(e[1]) \in Nat
      OBVIOUS
    <2> QED
      BY <1>2, <2>1, <2>2, <2>3 DEF IsPrefix
  <1>7. \E x \in M : \A y \in M : x >= y
    <2>1. M \subseteq 0 .. 4 /\ 0 \in M
      BY <1>2, <1>6
    <2> HIDE DEF M
    <2>2. CASE 4 \in M
      BY <2>1, <2>2
    <2>3. CASE 4 \notin M /\ 3 \in M
      BY <2>1, <2>3
    <2>4. CASE 4 \notin M /\ 3 \notin M /\ 2 \in M
      BY <2>1, <2>4, SMTT(30)
    <2>5. CASE 4 \notin M /\ 3 \notin M /\ 2 \notin M
      BY <2>1, <2>5
    <2> QED
      BY <2>2, <2>3, <2>4, <2>5
  <1>8. m \in M /\ \A y \in M : m >= y
    <2> HIDE DEF M
    <2> QED
      BY <1>7 DEF Max
  <1> HIDE DEF m
  <1>9. m \in 0 .. Len(p) /\ \A e \in T : IsPrefix(SubSeq(p, 1, m), e[1])
    BY <1>8
  <1>10. ASSUME IsLeaf(T), NEW e \in T PROVE e[1] = NodeKey(T)
    <2>1. T = {f}
      <3>2. PICK x : T = {x}
        BY <1>10, FS_Singleton DEF IsLeaf
      <3> QED
        BY <1>1, <3>2
    <2>2. e[1] = p
      BY <2>1 DEF p
    <2>3. Len(p) \in M
      <3>1. SubSeq(p, 1, Len(p)) = p
        BY <1>2, SubSeqFull
      <3>2. \A x \in T : x[1] = p
        BY <2>1 DEF p
      <3> QED
        BY <1>2, <3>1, <3>2 DEF IsPrefix
    <2>4. m = Len(p)
      <3> HIDE DEF M
      <3> QED
        BY <1>2, <1>8, <1>9, <2>3
    <2> QED
      BY <1>2, <1>3, <2>2, <2>4, SubSeqFull
  <1> QED
    BY <1>3, <1>4, <1>5, <1>9, <1>10

\* decode_compact undoes the encoding of a path of at most one nibble, and
\* refuses every other path.
LEMMA DecodeFacts ==
    ASSUME NEW p \in Seq(Nibble), NEW leaf \in BOOLEAN
    PROVE  /\ decode_compact(RlpBytes(Compact(p, leaf))).ok <=> Len(p) <= 1
           /\ Len(p) <= 1 => /\ decode_compact(RlpBytes(Compact(p, leaf))).key = p
                             /\ decode_compact(RlpBytes(Compact(p, leaf))).leaf <=> leaf
  <1> DEFINE n == Len(p)
             flag == (IF leaf THEN 2 ELSE 0) + (n % 2)
             nibs == (IF n % 2 = 1 THEN <<flag>> ELSE <<flag, 0>>) \o p
             c == Compact(p, leaf)
             b == RlpBytes(c)
             D == [j \in 1 .. 2 * Len(b) |->
                     IF j % 2 = 1 THEN b[(j + 1) \div 2] \div 16 ELSE b[j \div 2] % 16]
  <1>1. n \in Nat /\ flag \in Nibble /\ (leaf => flag = 2 + (n % 2)) /\ (~leaf => flag = n % 2)
    BY DEF Nibble
  <1>2. c = [k \in 1 .. Len(nibs) \div 2 |-> 16 * nibs[2 * k - 1] + nibs[2 * k]]
    BY DEF Compact
  <1>3. decode_compact(b) = [ok |-> D[1] \in 0 .. 3, leaf |-> D[1] \in {2, 3},
                             key |-> Drop(D, IF D[1] \in {0, 2} THEN 2 ELSE 1)]
    BY DEF decode_compact
  <1>4. b = IF Len(c) = 1 /\ c[1] < 128 THEN c ELSE <<128 + Len(c)>> \o c
    BY DEF RlpBytes
  <1> HIDE DEF n, flag, c, b
  <1>5. nibs \in Seq(Nibble) /\ Len(nibs) = n + (IF n % 2 = 1 THEN 1 ELSE 2)
    <2>1. <<flag>> \in Seq(Nibble) /\ <<flag, 0>> \in Seq(Nibble)
      BY <1>1 DEF Nibble
    <2> QED
      BY <1>1, <2>1, ConcatProperties DEF n
  <1>6. c \in Seq(Nat) /\ Len(c) = Len(nibs) \div 2
    <2> HIDE DEF nibs
    <2>1. \A k \in 1 .. Len(nibs) \div 2 : 16 * nibs[2 * k - 1] + nibs[2 * k] \in Nat
      <3> TAKE k \in 1 .. Len(nibs) \div 2
      <3>1. 2 * k - 1 \in 1 .. Len(nibs) /\ 2 * k \in 1 .. Len(nibs)
        BY <1>5
      <3>2. nibs[2 * k - 1] \in Nibble /\ nibs[2 * k] \in Nibble
        BY <1>5, <3>1, ElementOfSeq
      <3>3. \A x, y \in Nibble : 16 * x + y \in Nat
        BY DEF Nibble
      <3> QED
        BY <3>2, <3>3
    <2> DEFINE h == Len(nibs) \div 2
    <2>2. h \in Nat
      <3>1. Len(nibs) \in Nat
        BY <1>5
      <3> QED
        BY <3>1
    <2>3. \A k \in 1 .. h : c[k] \in Nat
      BY <1>2, <2>1
    <2>4. c = [k \in 1 .. h |-> c[k]]
      BY <1>2
    <2> HIDE DEF h
    <2>5. c \in Seq(Nat) /\ Len(c) = h
      BY <2>2, <2>3, <2>4
    <2> QED
      BY <2>5 DEF h
  <1>7. CASE n = 0
    <2>1. n % 2 = 0 /\ flag \in {0, 2} /\ (flag = 2 <=> leaf)
      BY <1>1, <1>7
    <2>2. p = <<>>
      BY <1>7 DEF n
    <2>3. nibs = <<flag, 0>>
      <3>1. <<flag, 0>> \in Seq(Nibble)
        BY <1>1 DEF Nibble
      <3> QED
        BY <2>1, <2>2, <3>1, ConcatEmptySeq
    <2> HIDE DEF nibs
    <2>4. Len(c) = 1 /\ c[1] = 16 * flag
      BY <1>2, <1>6, <2>1, <2>3
    <2>5. Len(b) = 1 /\ b[1] = 16 * flag
      BY <1>4, <2>1, <2>4
    <2>6. D \in Seq(Nat) /\ Len(D) = 2 /\ D[1] = flag
      BY <2>1, <2>5
    <2> HIDE DEF D
    <2>7. D[1] \in {0, 2} /\ Drop(D, 2) = <<>>
      BY <2>1, <2>6, SubSeqEmpty DEF Drop
    <2>9. decode_compact(b).ok
      <3> DEFINE P == D[1] \in 0 .. 3
      <3>1. P = TRUE
        BY <2>1, <2>6
      <3>2. decode_compact(b) = [ok |-> P, leaf |-> D[1] \in {2, 3},
                                 key |-> Drop(D, IF D[1] \in {0, 2} THEN 2 ELSE 1)]
        BY <1>3
      <3> HIDE DEF P
      <3>3. decode_compact(b).ok = P
        BY <3>2
      <3> QED
        BY <3>1, <3>3
    <2> QED
      BY <1>3, <2>9, <1>7, <2>1, <2>2, <2>6, <2>7 DEF n, b, c
  <1>8. CASE n = 1
    <2>1. n % 2 = 1 /\ flag \in {1, 3} /\ (flag = 3 <=> leaf)
      BY <1>1, <1>8
    <2>2. p = <<p[1]>> /\ p[1] \in Nibble
      BY <1>8 DEF n
    <2> DEFINE x == p[1]
    <2>3. Len(nibs) = 2 /\ nibs[1] = flag /\ nibs[2] = x
      <3>1. nibs = <<flag>> \o p
        BY <2>1
      <3>2. <<flag>> \in Seq(Nibble) /\ Len(<<flag>>) = 1 /\ Len(p) = 1
        BY <1>1, <1>8 DEF n
      <3> DEFINE first == <<flag>>
      <3>3. first \in Seq(Nibble) /\ Len(first) = 1 /\ first[1] = flag /\ nibs = first \o p
        BY <3>1, <3>2
      <3> HIDE DEF first, nibs
      <3>4. /\ Len(first \o p) = Len(first) + Len(p)
            /\ \A k \in 1 .. Len(first) + Len(p) :
                  (first \o p)[k] = IF k <= Len(first) THEN first[k] ELSE p[k - Len(first)]
        BY <3>3, ConcatProperties
      <3> QED
        BY <3>2, <3>3, <3>4
    <2> HIDE DEF nibs
    <2>4. Len(c) = 1 /\ c[1] = 16 * flag + x
      BY <1>2, <1>6, <2>1, <2>3
    <2>x. x \in 0 .. 15
      BY <2>2 DEF Nibble
    <2> HIDE DEF x
    <2>5. Len(b) = 1 /\ b[1] = 16 * flag + x
      BY <1>4, <2>1, <2>x, <2>4
    <2>6. /\ D \in Seq(Nat) /\ Len(D) = 2 /\ D[1] = (16 * flag + x) \div 16
          /\ D[2] = (16 * flag + x) % 16
      BY <2>1, <2>x, <2>5
    <2>7. D[1] = flag /\ D[2] = x
      <3>1. \A y \in 0 .. 15 : /\ (16 * 1 + y) \div 16 = 1 /\ (16 * 1 + y) % 16 = y
                               /\ (16 * 3 + y) \div 16 = 3 /\ (16 * 3 + y) % 16 = y
        OBVIOUS
      <3> HIDE DEF D
      <3> QED
        BY <2>1, <2>x, <2>6, <3>1
    <2> HIDE DEF D
    <2>8. Drop(D, 1) = <<x>>
      <3>1. Drop(D, 1) = SubSeq(D, 2, 2)
        BY <2>6 DEF Drop
      <3> QED
        BY <2>6, <2>7, <3>1
    <2>9. decode_compact(b).ok
      <3> DEFINE P == D[1] \in 0 .. 3
      <3>1. P = TRUE
        BY <2>1, <2>7
      <3>2. decode_compact(b) = [ok |-> P, leaf |-> D[1] \in {2, 3},
                                 key |-> Drop(D, IF D[1] \in {0, 2} THEN 2 ELSE 1)]
        BY <1>3
      <3> HIDE DEF P
      <3>3. decode_compact(b).ok = P
        BY <3>2
      <3> QED
        BY <3>1, <3>3
    <2> QED
      BY <1>3, <2>9, <1>8, <2>1, <2>2, <2>7, <2>8 DEF n, b, c, x
  <1>9. CASE n > 1
    <2>1. Len(nibs) \div 2 > 1
      <3>1. Len(nibs) \in Nat /\ Len(nibs) >= 4
        <4>1. n = 2 => n % 2 = 0
          OBVIOUS
        <4> HIDE DEF nibs
        <4> QED
          BY <1>1, <1>5, <1>9, <4>1
      <3> HIDE DEF nibs
      <3> QED
        BY <3>1
    <2> HIDE DEF nibs
    <2>2. b = <<128 + Len(c)>> \o c
      BY <1>4, <1>6, <2>1
    <2>3. Len(b) = 1 + Len(c) /\ b[1] = 128 + Len(c)
      BY <1>6, <2>1, <2>2
    <2>4. D[1] = (128 + Len(c)) \div 16
      BY <1>6, <2>1, <2>3
    <2>5. ~(D[1] \in 0 .. 3)
      BY <1>6, <2>1, <2>4
    <2> HIDE DEF D
    <2>6. ~decode_compact(b).ok
      <3> DEFINE P == D[1] \in 0 .. 3
      <3>1. P = FALSE
        BY <2>5
      <3>2. decode_compact(b) = [ok |-> P, leaf |-> D[1] \in {2, 3},
                                 key |-> Drop(D, IF D[1] \in {0, 2} THEN 2 ELSE 1)]
        BY <1>3
      <3> HIDE DEF P
      <3>3. decode_compact(b).ok = P
        BY <3>2
      <3> QED
        BY <3>1, <3>3
    <2>7. ~(Len(p) <= 1)
      BY <1>1, <1>9 DEF n
    <2> QED
      BY <2>6, <2>7 DEF b, c
  <1> QED
    BY <1>1, <1>7, <1>8, <1>9

\* A key of at most one nibble that the path shares: the path begins with it or
\* has ended.
LEMMA ShortMatch ==
    ASSUME NEW p \in Seq(Nibble), NEW key \in Seq(Nibble), Len(key) = 1,
           shared_prefix_length(p, key) = 1, p # <<>>
    PROVE  p[1] = key[1]
  <1> DEFINE differ == {i \in 1 .. Len(key) : i <= Len(p) /\ p[i] # key[i]}
  <1>1. SUFFICES ASSUME p[1] # key[1] PROVE FALSE
    OBVIOUS
  <1>2. Len(p) >= 1 /\ Len(p) \in Nat
    OBVIOUS
  <1>3. differ = {1}
    BY <1>1, <1>2
  <1>4. shared_prefix_length(p, key) = IF differ = {} THEN Len(key) ELSE Min(differ) - 1
    BY DEF shared_prefix_length
  <1> HIDE DEF differ
  <1>5. Min({1}) = 1
    BY DEF Min
  <1> QED
    BY <1>3, <1>4, <1>5

-----------------------------------------------------------------------------
(* The invariant *)

\* An element of the node is what is left, d nibbles down the path verified, of
\* a transaction of the block.
LeadsTo(e, j, d) ==
    /\ d <= Len(Nibbles(j - 1))
    /\ e = <<Drop(Nibbles(j - 1), d), block[j]>>
    /\ \A k \in 1 .. d : Nibbles(j - 1)[k] = Nibbles(index)[k]

AtDepth(d) ==
    /\ d <= Len(Nibbles(index)) /\ path = Drop(Nibbles(index), d)
    /\ \A e \in node : \E j \in DOMAIN block : LeadsTo(e, j, d)

\* The node verification looks for next is what the block's trie has at the part
\* of the path already walked.
Walked == node # {} /\ IsFiniteSet(node) /\ index \in 0 .. 255 /\ \E d \in 0 .. 4 : AtDepth(d)

VInv ==
    /\ chain \in Blocks
    /\ pc # "get_block" => block \in Blocks
    /\ pc = "walk" => asked \in 0 .. Len(block)
    /\ pc = "verify" => Walked
    /\ VerifiedIsInBlock

-----------------------------------------------------------------------------
(* Verification *)

\* The values of a function on a finite set.
LEMMA FiniteImage ==
    ASSUME NEW S, IsFiniteSet(S), NEW g
    PROVE  IsFiniteSet({g[x] : x \in S})
  <1> DEFINE T == {g[x] : x \in S}
             h == [x \in S |-> g[x]]
  <1>1. h \in Surjection(S, T)
    BY DEF Surjection
  <1> HIDE DEF T, h
  <1>2. IsFiniteSet(T)
    BY <1>1, FS_Surjection
  <1> QED
    BY <1>2 DEF T

\* Indexes of a block have keys, and a block is a nonempty sequence.
LEMMA BlockFacts ==
    ASSUME NEW b \in Blocks
    PROVE  /\ b \in Seq(Txs) /\ Len(b) \in 1 .. 255 /\ DOMAIN b = 1 .. Len(b)
           /\ \A j \in DOMAIN b : /\ j - 1 \in 0 .. 255 /\ Nibbles(j - 1) \in Seq(Nibble)
                                  /\ Len(Nibbles(j - 1)) \in 2 .. 4
  <1>1. b \in Seq(Txs) /\ b # <<>> /\ Len(b) < 256
    BY TxProofAssumption
  <1>2. Len(b) \in 1 .. 255 /\ DOMAIN b = 1 .. Len(b)
    <2>1. Len(b) \in Nat /\ DOMAIN b = 1 .. Len(b) /\ Len(b) # 0
      BY <1>1, LenProperties, EmptySeq
    <2>2. \A n \in Nat : n # 0 /\ n < 256 => n \in 1 .. 255
      OBVIOUS
    <2> QED
      BY <1>1, <2>1, <2>2, Zenon
  <1>3. \A j \in DOMAIN b : j - 1 \in 0 .. 255
    <2> DEFINE n == Len(b)
    <2>1. n \in 1 .. 255
      BY <1>2
    <2> HIDE DEF n
    <2>2. \A j \in 1 .. n : j - 1 \in 0 .. 255
      BY <2>1
    <2> QED
      BY <1>2, <2>2 DEF n
  <1>4. \A k \in 0 .. 255 : Nibbles(k) \in Seq(Nibble) /\ Len(Nibbles(k)) \in 2 .. 4
    BY KeyType, Zenon
  <1> QED
    BY <1>1, <1>2, <1>3, <1>4, ZenonT(30)

\* The rests of paths in a node, and the rest of the path verified.
LEMMA WalkedFacts ==
    ASSUME block \in Blocks, index \in 0 .. 255, NEW d \in 0 .. 4, AtDepth(d)
    PROVE  /\ path \in Seq(Nibble) /\ Len(path) = Len(Nibbles(index)) - d
           /\ \A k \in 1 .. Len(path) : path[k] = Nibbles(index)[d + k]
           /\ Len(Nibbles(index)) \in 2 .. 4 /\ Nibbles(index) \in Seq(Nibble)
           /\ \A e \in node : e[1] \in Seq(Nibble) /\ Len(e[1]) <= 4
           /\ \A j \in DOMAIN block, e \in node : LeadsTo(e, j, d) =>
                 /\ e[1] \in Seq(Nibble) /\ e[2] = block[j] /\ e[1] = Drop(Nibbles(j - 1), d)
                 /\ d \in 0 .. Len(Nibbles(j - 1)) /\ Len(e[1]) = Len(Nibbles(j - 1)) - d
                 /\ \A k \in 1 .. Len(e[1]) : e[1][k] = Nibbles(j - 1)[d + k]
  <1> USE DEF AtDepth
  <1>1. Len(Nibbles(index)) \in 2 .. 4 /\ Nibbles(index) \in Seq(Nibble) /\ d \in 0 .. Len(Nibbles(index))
    <2>1. Len(Nibbles(index)) \in 2 .. 4 /\ Nibbles(index) \in Seq(Nibble)
      BY KeyType, Zenon
    <2>2. d <= Len(Nibbles(index))
      OBVIOUS
    <2> QED
      BY <2>1, <2>2
  <1>2. /\ path \in Seq(Nibble) /\ Len(path) = Len(Nibbles(index)) - d
        /\ \A k \in 1 .. Len(path) : path[k] = Nibbles(index)[d + k]
    BY <1>1, DropFacts
  <1>3. ASSUME NEW j \in DOMAIN block, NEW e \in node, LeadsTo(e, j, d)
        PROVE  /\ e[1] \in Seq(Nibble) /\ e[2] = block[j] /\ e[1] = Drop(Nibbles(j - 1), d)
               /\ d \in 0 .. Len(Nibbles(j - 1)) /\ Len(e[1]) = Len(Nibbles(j - 1)) - d
               /\ \A k \in 1 .. Len(e[1]) : e[1][k] = Nibbles(j - 1)[d + k]
               /\ Len(e[1]) <= 4
    <2> DEFINE s == Nibbles(j - 1)
    <2>1. s \in Seq(Nibble) /\ Len(s) \in 2 .. 4
      BY BlockFacts
    <2>2. d <= Len(s) /\ e[1] = Drop(s, d) /\ e[2] = block[j]
      BY <1>3 DEF LeadsTo
    <2> HIDE DEF s
    <2>3. d \in 0 .. Len(s)
      BY <2>1, <2>2
    <2>4. /\ e[1] \in Seq(Nibble) /\ Len(e[1]) = Len(s) - d
          /\ \A k \in 1 .. Len(s) - d : e[1][k] = s[d + k]
      BY <2>1, <2>2, <2>3, DropFacts
    <2>5. Len(e[1]) <= 4
      <3>1. \A n \in 2 .. 4 : n - d <= 4
        OBVIOUS
      <3> QED
        BY <2>1, <2>4, <3>1
    <2> QED
      BY <2>2, <2>3, <2>4, <2>5 DEF s
  <1>4. \A e \in node : e[1] \in Seq(Nibble) /\ Len(e[1]) <= 4
    BY <1>3
  <1> HIDE DEF AtDepth
  <1> QED
    BY <1>1, <1>2, <1>3, <1>4

\* Where the path has ended, so has every path in the node.
LEMMA PathEnds ==
    ASSUME block \in Blocks, index \in 0 .. 255, NEW d \in 0 .. 4, AtDepth(d), path = <<>>,
           NEW j \in DOMAIN block, NEW e \in node, LeadsTo(e, j, d)
    PROVE  j - 1 = index /\ e[1] = <<>>
  <1>1. d = Len(Nibbles(index)) /\ d \in 0 .. Len(Nibbles(j - 1))
    <2>1. d \in 0 .. Len(Nibbles(j - 1))
      BY WalkedFacts
    <2>2. Len(path) = Len(Nibbles(index)) - d /\ Len(Nibbles(index)) \in 2 .. 4
      BY WalkedFacts
    <2>3. Len(path) = 0
      OBVIOUS
    <2> QED
      BY <2>1, <2>2, <2>3
  <1>2. \A k \in 1 .. Len(Nibbles(index)) : Nibbles(index)[k] = Nibbles(j - 1)[k]
    BY <1>1 DEF LeadsTo
  <1>3. j - 1 \in 0 .. 255
    BY BlockFacts
  <1>4. Len(Nibbles(index)) <= Len(Nibbles(j - 1))
    BY <1>1
  <1>5. index = j - 1
    BY <1>2, <1>3, <1>4, PrefixFree, Zenon
  <1>6. Len(e[1]) = 0 /\ e[1] \in Seq(Nibble)
    BY <1>1, <1>5, WalkedFacts
  <1> QED
    BY <1>5, <1>6

\* A branch: one nibble further down.
LEMMA BranchStep ==
    ASSUME VInv, VerifyBranch
    PROVE  VInv'
  <1>1. /\ pc = "verify" /\ Head1 = node /\ block \in Blocks /\ block = chain
        /\ UNCHANGED <<chain, block, index, result>>
    BY DEF VerifyBranch, NodeHolds, VInv
  <1>2. CASE ~(path # <<>> /\ Child(node, path[1]) # {})
    <2>1. pc' = "rejected"
      BY <1>1, <1>2 DEF VerifyBranch, Reject
    <2> QED
      BY <1>1, <2>1 DEF VInv, VerifiedIsInBlock
  <1>3. CASE path # <<>> /\ Child(node, path[1]) # {}
    <2>1. node' = Child(node, path[1]) /\ path' = Tail(path) /\ pc' = pc
      BY <1>1, <1>3 DEF VerifyBranch
    <2>2. node # {} /\ IsFiniteSet(node) /\ index \in 0 .. 255
      BY <1>1 DEF VInv, Walked
    <2>3. PICK d \in 0 .. 4 : AtDepth(d)
      BY <1>1 DEF VInv, Walked
    <2>4. /\ Len(path) = Len(Nibbles(index)) - d /\ path[1] = Nibbles(index)[d + 1]
          /\ d < Len(Nibbles(index)) /\ d + 1 \in 0 .. 4 /\ d \in 0 .. Len(Nibbles(index))
          /\ Nibbles(index) \in Seq(Nibble)
      <3>1. /\ path \in Seq(Nibble) /\ Len(path) = Len(Nibbles(index)) - d
            /\ \A k \in 1 .. Len(path) : path[k] = Nibbles(index)[d + k]
            /\ Len(Nibbles(index)) \in 2 .. 4 /\ Nibbles(index) \in Seq(Nibble)
        BY <1>1, <2>2, <2>3, WalkedFacts
      <3>2. Len(path) \in Nat \ {0}
        BY <1>3, <3>1, EmptySeq
      <3>3. 1 \in 1 .. Len(path) /\ d < Len(Nibbles(index))
        BY <3>1, <3>2
      <3>4. path[1] = Nibbles(index)[d + 1]
        BY <3>1, <3>3
      <3>5. \A n \in 2 .. 4 : d < n => d + 1 \in 0 .. 4 /\ d \in 0 .. n
        OBVIOUS
      <3> QED
        BY <3>1, <3>3, <3>4, <3>5
    <2>5. path = Drop(Nibbles(index), d)
      BY <2>3 DEF AtDepth
    <2>6. Tail(path) = Drop(Nibbles(index), d + 1)
      BY <2>4, <2>5, DropMore
    <2>7. ASSUME NEW f \in node, f[1] # <<>>, f[1][1] = path[1]
          PROVE  \E j \in DOMAIN block :
                    /\ d + 1 <= Len(Nibbles(j - 1))
                    /\ <<Tail(f[1]), f[2]>> = <<Drop(Nibbles(j - 1), d + 1), block[j]>>
                    /\ \A k \in 1 .. d + 1 : Nibbles(j - 1)[k] = Nibbles(index)[k]
      <3>1. PICK j \in DOMAIN block : LeadsTo(f, j, d)
        BY <2>3 DEF AtDepth
      <3>2. /\ f[1] \in Seq(Nibble) /\ f[2] = block[j] /\ f[1] = Drop(Nibbles(j - 1), d)
            /\ d \in 0 .. Len(Nibbles(j - 1)) /\ Len(f[1]) = Len(Nibbles(j - 1)) - d
            /\ \A k \in 1 .. Len(f[1]) : f[1][k] = Nibbles(j - 1)[d + k]
        BY <1>1, <2>2, <2>3, <3>1, WalkedFacts
      <3>3. Nibbles(j - 1) \in Seq(Nibble)
        BY <1>1, BlockFacts
      <3>4. d < Len(Nibbles(j - 1)) /\ f[1][1] = Nibbles(j - 1)[d + 1]
        BY <2>7, <3>2
      <3>5. Tail(f[1]) = Drop(Nibbles(j - 1), d + 1)
        BY <3>2, <3>3, <3>4, DropMore
      <3>6. \A k \in 1 .. d : Nibbles(j - 1)[k] = Nibbles(index)[k]
        BY <3>1 DEF LeadsTo
      <3>7. \A k \in 1 .. d + 1 : Nibbles(j - 1)[k] = Nibbles(index)[k]
        <4>1. \A k \in 1 .. d + 1 : k \in 1 .. d \/ k = d + 1
          OBVIOUS
        <4>2. Nibbles(j - 1)[d + 1] = Nibbles(index)[d + 1]
          BY <2>4, <2>7, <3>4
        <4> QED
          BY <3>6, <4>1, <4>2
      <3> QED
        BY <3>2, <3>4, <3>5, <3>7
    <2>8. AtDepth(d + 1)'
      <3>1. d + 1 <= Len(Nibbles(index))
        BY <2>4
      <3>2. \A e \in node' : \E j \in DOMAIN block : LeadsTo(e, j, d + 1)
        <4> TAKE e \in node'
        <4>1. PICK f \in node : f[1] # <<>> /\ f[1][1] = path[1] /\ e = <<Tail(f[1]), f[2]>>
          BY <2>1 DEF Child
        <4> QED
          BY <2>7, <4>1 DEF LeadsTo
      <3> QED
        BY <1>1, <2>1, <2>6, <3>1, <3>2 DEF AtDepth, LeadsTo
    <2>9. node' # {} /\ IsFiniteSet(node')
      <3> DEFINE F == {f \in node : f[1] # <<>> /\ f[1][1] = path[1]}
                 g == [e \in F |-> <<Tail(e[1]), e[2]>>]
      <3>1. IsFiniteSet(F)
        BY <2>2, FS_Subset
      <3>2. node' = {g[e] : e \in F}
        BY <2>1 DEF Child
      <3>3. IsFiniteSet({g[e] : e \in F})
        <4> HIDE DEF F, g
        <4> QED
          BY <3>1, FiniteImage, Zenon
      <3> QED
        BY <1>3, <2>1, <3>2, <3>3
    <2>10. Walked'
      <3>1. index' \in 0 .. 255
        BY <1>1, <2>2
      <3> QED
        BY <2>4, <2>8, <2>9, <3>1 DEF Walked
    <2> QED
      BY <1>1, <2>1, <2>10 DEF VInv, VerifiedIsInBlock
  <1> QED
    BY <1>2, <1>3

\* A leaf or an extension whose key decodes: its key is the one the node has.
LEMMA ShortNodeFacts ==
    ASSUME VInv, pc = "verify", NodeHolds, Decoded.ok
    PROVE  /\ Decoded.key = NodeKey(node) /\ NodeKey(node) \in Seq(Nibble)
           /\ Len(NodeKey(node)) \in 0 .. 1
           /\ Decoded.leaf <=> IsLeaf(node)
           /\ \A e \in node : /\ Len(NodeKey(node)) <= Len(e[1])
                              /\ \A k \in 1 .. Len(NodeKey(node)) : NodeKey(node)[k] = e[1][k]
           /\ IsLeaf(node) => \A e \in node : e[1] = NodeKey(node)
  <1>1. Head1 = node /\ block \in Blocks /\ Walked
    BY DEF NodeHolds, VInv
  <1>2. node # {} /\ IsFiniteSet(node) /\ index \in 0 .. 255
    BY <1>1 DEF Walked
  <1>3. PICK d \in 0 .. 4 : AtDepth(d)
    BY <1>1 DEF Walked
  <1>4. \A e \in node : e[1] \in Seq(Nibble) /\ Len(e[1]) <= 4
    BY <1>1, <1>2, <1>3, WalkedFacts
  <1>5. /\ NodeKey(node) \in Seq(Nibble)
        /\ \A e \in node : /\ Len(NodeKey(node)) <= Len(e[1])
                           /\ \A k \in 1 .. Len(NodeKey(node)) : NodeKey(node)[k] = e[1][k]
        /\ IsLeaf(node) => \A e \in node : e[1] = NodeKey(node)
    BY <1>2, <1>4, NodeKeyFacts
  <1>6. IsLeaf(node) \in BOOLEAN
    BY DEF IsLeaf
  <1>7. Decoded = decode_compact(RlpBytes(Compact(NodeKey(node), IsLeaf(node))))
    BY <1>1 DEF Decoded
  <1>8. /\ Len(NodeKey(node)) <= 1 /\ Decoded.key = NodeKey(node)
        /\ Decoded.leaf <=> IsLeaf(node)
    BY <1>5, <1>6, <1>7, DecodeFacts
  <1>9. Len(NodeKey(node)) \in 0 .. 1
    <2>1. Len(NodeKey(node)) \in Nat
      BY <1>5, LenProperties
    <2>2. \A k \in Nat : k <= 1 => k \in 0 .. 1
      OBVIOUS
    <2> QED
      BY <1>8, <2>1, <2>2
  <1> QED
    BY <1>5, <1>8, <1>9

\* A leaf that matches is at the index verified.
LEMMA LeafFound ==
    ASSUME VInv, pc = "verify", NodeHolds, Decoded.ok, LeafMatches, NEW e \in node
    PROVE  index + 1 \in DOMAIN block /\ e[2] = block[index + 1]
  <1> DEFINE key == NodeKey(node)
  <1>1. block \in Blocks /\ index \in 0 .. 255
    BY DEF VInv, Walked
  <1>2. PICK d \in 0 .. 4 : AtDepth(d)
    BY DEF VInv, Walked
  <1>3. PICK j \in DOMAIN block : LeadsTo(e, j, d)
    BY <1>2 DEF AtDepth
  <1>4. /\ e[1] \in Seq(Nibble) /\ e[2] = block[j]
        /\ d \in 0 .. Len(Nibbles(j - 1)) /\ Len(e[1]) = Len(Nibbles(j - 1)) - d
        /\ \A k \in 1 .. Len(e[1]) : e[1][k] = Nibbles(j - 1)[d + k]
        /\ path \in Seq(Nibble) /\ Len(path) = Len(Nibbles(index)) - d
        /\ \A k \in 1 .. Len(path) : path[k] = Nibbles(index)[d + k]
        /\ Len(Nibbles(index)) \in 2 .. 4
    BY <1>1, <1>2, <1>3, WalkedFacts, SMTT(30)
  <1>5. j - 1 \in 0 .. 255 /\ Len(Nibbles(j - 1)) \in 2 .. 4 /\ j = j - 1 + 1
    BY <1>1, <1>3, BlockFacts, SMTT(30)
  <1>6. e[1] = key /\ Len(key) \in 0 .. 1 /\ Decoded.key = key
    BY ShortNodeFacts DEF LeafMatches
  <1>7. shared_prefix_length(path, key) = Len(key) /\ Len(key) >= Len(path)
    BY <1>6 DEF LeafMatches, Shared
  <1> HIDE DEF key
  <1>8. CASE path = <<>>
    BY <1>1, <1>2, <1>3, <1>4, <1>5, <1>8, PathEnds
  <1>9. CASE path # <<>>
    <2>1. Len(path) = 1 /\ Len(key) = 1
      BY <1>4, <1>6, <1>7, <1>9, EmptySeq
    <2>2. path[1] = key[1]
      BY <1>4, <1>6, <1>7, <1>9, <2>1, ShortMatch
    <2>3. Len(Nibbles(index)) = d + 1 /\ Len(Nibbles(j - 1)) = d + 1
      <3>1. \A k \in 2 .. 4 : k - d = 1 => k = d + 1
        OBVIOUS
      <3> QED
        BY <1>4, <1>5, <1>6, <2>1, <3>1
    <2>4. Nibbles(index)[d + 1] = Nibbles(j - 1)[d + 1]
      <3>1. 1 \in 1 .. 1
        OBVIOUS
      <3>2. path[1] = Nibbles(index)[d + 1] /\ e[1][1] = Nibbles(j - 1)[d + 1]
        BY <1>4, <1>6, <2>1, <3>1
      <3> QED
        BY <1>6, <2>2, <3>2
    <2>5. \A k \in 1 .. d : Nibbles(j - 1)[k] = Nibbles(index)[k]
      BY <1>3 DEF LeadsTo
    <2>6. \A k \in 1 .. Len(Nibbles(index)) : Nibbles(index)[k] = Nibbles(j - 1)[k]
      <3>1. \A k \in 1 .. d + 1 : k \in 1 .. d \/ k = d + 1
        OBVIOUS
      <3> QED
        BY <2>3, <2>4, <2>5, <3>1
    <2>7. Len(Nibbles(index)) <= Len(Nibbles(j - 1))
      BY <2>3
    <2>8. index = j - 1
      BY <1>1, <1>5, <2>6, <2>7, PrefixFree, Zenon
    <2> QED
      BY <1>3, <1>4, <1>5, <2>8
  <1> QED
    BY <1>8, <1>9

\* An extension that matches: its key further down.
LEMMA ExtensionWalks ==
    ASSUME VInv, pc = "verify", NodeHolds, Decoded.ok, ExtensionMatches,
           node' = Below(node), path' = Drop(path, Shared), UNCHANGED <<block, index>>
    PROVE  Walked'
  <1> DEFINE key == NodeKey(node)
  <1>l. PICK n \in 0 .. 1 : n = Len(key)
    BY ShortNodeFacts
  <1>1. block \in Blocks /\ index \in 0 .. 255 /\ node # {} /\ IsFiniteSet(node)
    BY DEF VInv, Walked
  <1>2. PICK d \in 0 .. 4 : AtDepth(d)
    BY DEF VInv, Walked
  <1>3. /\ path \in Seq(Nibble) /\ Len(path) = Len(Nibbles(index)) - d
        /\ \A k \in 1 .. Len(path) : path[k] = Nibbles(index)[d + k]
        /\ Len(Nibbles(index)) \in 2 .. 4 /\ Nibbles(index) \in Seq(Nibble)
        /\ path = Drop(Nibbles(index), d) /\ d <= Len(Nibbles(index))
    BY <1>1, <1>2, WalkedFacts DEF AtDepth
  <1>4. /\ Decoded.key = key /\ n \in 0 .. 1 /\ key \in Seq(Nibble)
        /\ \A e \in node : n <= Len(e[1]) /\ \A k \in 1 .. n : key[k] = e[1][k]
    BY <1>l, ShortNodeFacts
  <1>5. Shared = n /\ shared_prefix_length(path, key) = n
    BY <1>4, <1>l DEF ExtensionMatches, Shared
  <1>6. path' = Drop(path, n) /\ node' = {<<Drop(e[1], n), e[2]>> : e \in node}
    BY <1>5, <1>l DEF Below
  <1>7. IsFiniteSet(node') /\ node' # {}
    <2> DEFINE g == [e \in node |-> <<Drop(e[1], n), e[2]>>]
    <2>1. node' = {g[e] : e \in node}
      BY <1>6
    <2> HIDE DEF g
    <2>2. IsFiniteSet({g[e] : e \in node})
      BY <1>1, FiniteImage
    <2> QED
      BY <1>1, <2>1, <2>2
  <1> HIDE DEF key
  <1>8. n <= Len(path) /\ (n = 1 => path[1] = key[1])
    <2>1. CASE path # <<>>
      <3>1. Len(path) \in Nat \ {0}
        BY <1>3, <2>1, EmptySeq
      <3> QED
        <4>1. n = 1 => path[1] = key[1]
          <5>1. SUFFICES ASSUME n = 1 PROVE path[1] = key[1]
            OBVIOUS
          <5>2. Len(key) = 1 /\ shared_prefix_length(path, key) = 1
            BY <1>5, <1>l, <5>1
          <5> QED
            BY <1>3, <1>4, <2>1, <5>2, ShortMatch
        <4>2. \A k \in Nat \ {0} : n <= k
          BY <1>4
        <4> QED
          BY <3>1, <4>1, <4>2
    <2>2. CASE path = <<>>
      <3>1. PICK e \in node : TRUE
        BY <1>1
      <3>2. PICK j \in DOMAIN block : LeadsTo(e, j, d)
        BY <1>2 DEF AtDepth
      <3>3. e[1] = <<>>
        BY <1>1, <1>2, <2>2, <3>1, <3>2, PathEnds
      <3> QED
        BY <1>4, <2>2, <3>1, <3>3
    <2> QED
      BY <2>1, <2>2
  <1>9. d + n \in 0 .. 4 /\ d + n <= Len(Nibbles(index)) /\ n \in 0 .. Len(Nibbles(index)) - d
        /\ d \in 0 .. Len(Nibbles(index))
    <2>1. \A m \in 2 .. 4 : d <= m /\ n <= m - d =>
              d + n \in 0 .. 4 /\ d + n <= m /\ n \in 0 .. m - d /\ d \in 0 .. m
      BY <1>4
    <2> QED
      BY <1>3, <1>8, <2>1
  <1>10. path' = Drop(Nibbles(index), d + n)
    BY <1>3, <1>6, <1>9, DropMore
  <1>11. ASSUME NEW f \in node
         PROVE  \E j \in DOMAIN block : LeadsTo(<<Drop(f[1], n), f[2]>>, j, d + n)
    <2>1. PICK j \in DOMAIN block : LeadsTo(f, j, d)
      BY <1>2, <1>11 DEF AtDepth
    <2>2. /\ f[1] \in Seq(Nibble) /\ f[2] = block[j] /\ f[1] = Drop(Nibbles(j - 1), d)
          /\ d \in 0 .. Len(Nibbles(j - 1)) /\ Len(f[1]) = Len(Nibbles(j - 1)) - d
          /\ \A k \in 1 .. Len(f[1]) : f[1][k] = Nibbles(j - 1)[d + k]
      BY <1>1, <1>2, <1>11, <2>1, WalkedFacts, SMTT(30)
    <2>3. Nibbles(j - 1) \in Seq(Nibble) /\ Len(Nibbles(j - 1)) \in 2 .. 4
      BY <1>1, BlockFacts, SMTT(30)
    <2>4. n \in 0 .. Len(Nibbles(j - 1)) - d /\ d + n <= Len(Nibbles(j - 1))
      BY <1>4, <1>11, <2>2, <2>3
    <2>5. Drop(f[1], n) = Drop(Nibbles(j - 1), d + n)
      BY <2>2, <2>3, <2>4, DropMore
    <2>6. \A k \in 1 .. d : Nibbles(j - 1)[k] = Nibbles(index)[k]
      BY <2>1 DEF LeadsTo
    <2>7. n = 1 => Nibbles(j - 1)[d + 1] = Nibbles(index)[d + 1]
      <3>1. SUFFICES ASSUME n = 1 PROVE Nibbles(j - 1)[d + 1] = Nibbles(index)[d + 1]
        OBVIOUS
      <3>2. key[1] = f[1][1] /\ 1 <= Len(f[1])
        BY <1>4, <1>11, <3>1
      <3>3. f[1][1] = Nibbles(j - 1)[d + 1]
        BY <2>2, <3>2
      <3>4. path[1] = Nibbles(index)[d + 1]
        BY <1>3, <1>8, <3>1
      <3> QED
        BY <1>8, <3>1, <3>2, <3>3, <3>4
    <2>8. \A k \in 1 .. d + n : Nibbles(j - 1)[k] = Nibbles(index)[k]
      <3>1. \A k \in 1 .. d + n : k \in 1 .. d \/ (n = 1 /\ k = d + 1)
        BY <1>4
      <3> QED
        BY <2>6, <2>7, <3>1
    <2> QED
      BY <2>2, <2>4, <2>5, <2>8 DEF LeadsTo
  <1>12. AtDepth(d + n)'
    <2>1. \A e \in node' : \E j \in DOMAIN block : LeadsTo(e, j, d + n)
      BY <1>6, <1>11
    <2>2. \A e, j : LeadsTo(e, j, d + n)' <=> LeadsTo(e, j, d + n)
      BY DEF LeadsTo
    <2>3. d + n <= Len(Nibbles(index))
      BY <1>9
    <2> QED
      BY <1>10, <2>1, <2>2, <2>3 DEF AtDepth
  <1>13. index' \in 0 .. 255
    BY <1>1
  <1> QED
    BY <1>7, <1>9, <1>12, <1>13 DEF Walked

\* A leaf or an extension.
LEMMA ShortNodeStep ==
    ASSUME VInv, VerifyShortNode
    PROVE  VInv'
  <1>1. /\ pc = "verify" /\ NodeHolds /\ Head1 = node /\ block = chain /\ chain \in Blocks
        /\ UNCHANGED <<chain, block, index, asked>>
    BY DEF VerifyShortNode, NodeHolds, VInv
  <1>2. CASE Decoded.ok /\ LeafMatches
    <2> DEFINE e == CHOOSE x \in node : TRUE
    <2>1. e \in node
      BY <1>1 DEF VInv, Walked
    <2>2. \/ pc' = "accepted" /\ result' = e[2]
          \/ pc' = "rejected"
      <3>1. ~ExtensionMatches
        BY <1>2 DEF LeafMatches, ExtensionMatches
      <3> QED
        BY <1>1, <1>2, <3>1 DEF VerifyShortNode, Reject
    <2> HIDE DEF e
    <2>3. index + 1 \in DOMAIN block /\ e[2] = block[index + 1]
      BY <1>1, <1>2, <2>1, LeafFound
    <2>4. index < Len(chain)
      <3>1. Len(block) \in Nat /\ DOMAIN block = 1 .. Len(block) /\ index \in Nat
        <4>1. Len(block) \in 1 .. 255 /\ DOMAIN block = 1 .. Len(block)
          BY <1>1, BlockFacts
        <4>2. index \in 0 .. 255
          BY <1>1 DEF VInv, Walked
        <4>3. \A n \in 0 .. 255 : n \in Nat
          OBVIOUS
        <4>4. \A n \in 1 .. 255 : n \in Nat
          OBVIOUS
        <4> QED
          BY <4>1, <4>2, <4>3, <4>4
      <3> QED
        BY <1>1, <2>3, <3>1
    <2>5. VerifiedIsInBlock'
      BY <1>1, <2>2, <2>3, <2>4 DEF VerifiedIsInBlock
    <2> QED
      BY <1>1, <2>2, <2>5 DEF VInv
  <1>3. CASE Decoded.ok /\ ~LeafMatches /\ ExtensionMatches
    <2>1. node' = Below(node) /\ path' = Drop(path, Shared) /\ pc' = pc
      BY <1>1, <1>3 DEF VerifyShortNode
    <2>2. Walked'
      BY <1>1, <1>3, <2>1, ExtensionWalks
    <2> QED
      BY <1>1, <2>1, <2>2 DEF VInv, VerifiedIsInBlock
  <1>4. CASE ~(Decoded.ok /\ LeafMatches) /\ ~(Decoded.ok /\ ExtensionMatches)
    <2>1. pc' = "rejected"
      BY <1>4 DEF VerifyShortNode, Reject
    <2> QED
      BY <1>1, <2>1 DEF VInv, VerifiedIsInBlock
  <1> QED
    BY <1>2, <1>3, <1>4

\* Verification starts at the root of the block's trie.
LEMMA DeliverStep ==
    ASSUME VInv, Deliver
    PROVE  VInv'
  <1>1. /\ pc = "walk" /\ pc' = "verify" /\ node' = Trie(block) /\ path' = Nibbles(index')
        /\ index' \in 0 .. 255
        /\ UNCHANGED <<chain, block, asked>>
    BY DEF Deliver
  <1>2. /\ chain \in Blocks /\ block \in Blocks /\ asked \in 0 .. Len(block)
        /\ Len(block) \in 1 .. 255 /\ DOMAIN block = 1 .. Len(block)
    BY <1>1, BlockFacts DEF VInv
  <1>3. index' \in 0 .. 255
    BY <1>1
  <1>4. Nibbles(index') \in Seq(Nibble) /\ Len(Nibbles(index')) \in 2 .. 4
    BY <1>3, KeyType, Zenon
  <1>5. \A s \in Seq(Nibble) : Drop(s, 0) = s
    BY SubSeqFull DEF Drop
  <1>6. ASSUME NEW e \in Trie(block)
        PROVE  \E j \in DOMAIN block : e = <<Drop(Nibbles(j - 1), 0), block[j]>> /\ 0 <= Len(Nibbles(j - 1))
    <2>1. PICK j \in DOMAIN block : e = <<Nibbles(j - 1), block[j]>>
      BY <1>6 DEF Trie
    <2>2. Nibbles(j - 1) \in Seq(Nibble)
      BY <1>2, BlockFacts
    <2>3. Drop(Nibbles(j - 1), 0) = Nibbles(j - 1) /\ 0 <= Len(Nibbles(j - 1))
      BY <1>5, <2>2
    <2> QED
      BY <2>1, <2>3
  <1>7. AtDepth(0)'
    <2>1. 0 <= Len(Nibbles(index')) /\ path' = Drop(Nibbles(index'), 0)
      BY <1>1, <1>4, <1>5
    <2>2. \A e \in node' : \E j \in DOMAIN block : LeadsTo(e, j, 0)'
      BY <1>1, <1>6 DEF LeadsTo
    <2> QED
      BY <1>1, <2>1, <2>2 DEF AtDepth
  <1>8. node' # {} /\ IsFiniteSet(node')
    <2> DEFINE g == [j \in DOMAIN block |-> <<Nibbles(j - 1), block[j]>>]
    <2>1. node' = {g[j] : j \in DOMAIN block}
      BY <1>1 DEF Trie
    <2> HIDE DEF g
    <2>2. IsFiniteSet(DOMAIN block) /\ 1 \in DOMAIN block
      <3>1. \A n \in 1 .. 255 : IsFiniteSet(1 .. n) /\ 1 \in 1 .. n
        BY FS_Interval
      <3> QED
        BY <1>2, <3>1
    <2>3. IsFiniteSet({g[j] : j \in DOMAIN block})
      BY <2>2, FiniteImage
    <2> QED
      BY <2>1, <2>2, <2>3
  <1>9. Walked'
    BY <1>3, <1>7, <1>8 DEF Walked
  <1> QED
    BY <1>1, <1>2, <1>9 DEF VInv, VerifiedIsInBlock

\* Steps before verification, failures, and reorganisations, which come before
\* verification only.
LEMMA OtherSteps ==
    ASSUME VInv,
           GetBlock \/ GetTransaction \/ CheckRoot \/ Descend \/ VerifyFails \/ Reorg
    PROVE  VInv'
  <1>1. CASE GetBlock
    BY <1>1 DEF GetBlock, VInv, VerifiedIsInBlock
  <1>2. CASE GetTransaction
    <2>1. pc' \in {"get_transaction", "raised"} /\ pc = "get_transaction" /\ UNCHANGED <<chain, block>>
      BY <1>2 DEF GetTransaction, Raise
    <2> QED
      BY <2>1 DEF VInv, VerifiedIsInBlock
  <1>3. CASE CheckRoot
    <2>1. /\ pc' \in {"walk", "raised"} /\ pc = "get_transaction" /\ UNCHANGED <<chain, block>>
          /\ asked' \in 0 .. Len(block)
      BY <1>3 DEF CheckRoot, Raise
    <2> QED
      BY <2>1 DEF VInv, VerifiedIsInBlock
  <1>4. CASE Descend
    BY <1>4 DEF Descend, VInv, VerifiedIsInBlock
  <1>5. CASE VerifyFails
    BY <1>5 DEF VerifyFails, Reject, VInv, VerifiedIsInBlock
  <1>6. CASE Reorg
    BY <1>6, TxProofAssumption DEF Reorg, VInv, VerifiedIsInBlock
  <1> QED
    BY <1>1, <1>2, <1>3, <1>4, <1>5, <1>6

\* VInv holds throughout.
THEOREM VInvariance == Spec => []VInv
  <1>1. Init => VInv
    BY DEF Init, VInv, VerifiedIsInBlock
  <1>2. VInv /\ [Next]_vars => VInv'
    <2> SUFFICES ASSUME VInv, [Next]_vars PROVE VInv'
      OBVIOUS
    <2>1. CASE UNCHANGED vars
      <3>1. UNCHANGED <<chain, pc, block, asked, index, node, path, result>>
        BY <2>1 DEF vars
      <3> QED
        BY <3>1 DEF VInv, Walked, AtDepth, LeadsTo, VerifiedIsInBlock
    <2>2. CASE Next
      BY <2>2, BranchStep, ShortNodeStep, DeliverStep, OtherSteps DEF Next, Program
    <2> QED
      BY <2>1, <2>2
  <1> QED
    BY <1>1, <1>2, PTL DEF Spec

\* A proof that verifies is about the transaction the canonical block holds at
\* the index the blob names, whatever the chain did while it was generated.
THEOREM VerificationSound == Spec => []VerifiedIsInBlock
  <1>1. VInv => VerifiedIsInBlock
    BY DEF VInv
  <1> QED
    BY <1>1, VInvariance, PTL

-----------------------------------------------------------------------------
(* The nodes on the way to a transaction *)

\* The key of index j begins with the first d nibbles of the key of i.
Under(j, i, d) == d <= Len(Nibbles(j)) /\ \A k \in 1 .. d : Nibbles(j)[k] = Nibbles(i)[k]

\* The node d nibbles down the path of index i.
NodeAt(b, i, d) ==
    {<<Drop(Nibbles(j - 1), d), b[j]>> : j \in {k \in DOMAIN b : Under(k - 1, i, d)}}

\* How far down the next node is.
Skip(T) == IF IsBranch(T) THEN 1 ELSE Len(NodeKey(T))

\* Where the path of a leaf is two nibbles long.
Long(b, i) == Len(b) = 1 \/ (Len(b) = 129 /\ i = 128)

\* Such a node is made of rests of paths and holds the transaction itself.
LEMMA NodeAtFacts ==
    ASSUME NEW b \in Blocks, NEW i \in 0 .. Len(b) - 1, NEW d \in 0 .. Len(Nibbles(i))
    PROVE  /\ NodeAt(b, i, d) # {} /\ IsFiniteSet(NodeAt(b, i, d))
           /\ <<Drop(Nibbles(i), d), b[i + 1]>> \in NodeAt(b, i, d)
           /\ \A e \in NodeAt(b, i, d) : e[1] \in Seq(Nibble) /\ Len(e[1]) <= 4
           /\ i \in 0 .. 255 /\ i + 1 \in DOMAIN b
           /\ Nibbles(i) \in Seq(Nibble) /\ Len(Nibbles(i)) \in 2 .. 4 /\ d \in 0 .. 4
  <1>1. /\ b \in Seq(Txs) /\ Len(b) \in 1 .. 255 /\ DOMAIN b = 1 .. Len(b)
        /\ \A j \in DOMAIN b : /\ j - 1 \in 0 .. 255 /\ Nibbles(j - 1) \in Seq(Nibble)
                               /\ Len(Nibbles(j - 1)) \in 2 .. 4
    BY BlockFacts
  <1>2. i \in 0 .. 255 /\ i + 1 \in DOMAIN b /\ (i + 1) - 1 = i
    <2>1. \A n \in 1 .. 255 : \A k \in 0 .. n - 1 : k \in 0 .. 255 /\ k + 1 \in 1 .. n /\ (k + 1) - 1 = k
      OBVIOUS
    <2> QED
      BY <1>1, <2>1, ZenonT(30)
  <1>3. Nibbles(i) \in Seq(Nibble) /\ Len(Nibbles(i)) \in 2 .. 4
    BY <1>2, KeyType, Zenon
  <1>4. d \in 0 .. 4
    <2>1. \A n \in 2 .. 4 : \A k \in 0 .. n : k \in 0 .. 4
      OBVIOUS
    <2> QED
      BY <1>3, <2>1
  <1>5. <<Drop(Nibbles(i), d), b[i + 1]>> \in NodeAt(b, i, d)
    <2>1. Under((i + 1) - 1, i, d)
      BY <1>2, <1>3 DEF Under
    <2> QED
      BY <1>2, <2>1 DEF NodeAt
  <1>6. IsFiniteSet(NodeAt(b, i, d))
    <2> DEFINE I == {k \in DOMAIN b : Under(k - 1, i, d)}
               g == [j \in I |-> <<Drop(Nibbles(j - 1), d), b[j]>>]
    <2>1. IsFiniteSet(I)
      <3>1. \A n \in 1 .. 255 : IsFiniteSet(1 .. n)
        BY FS_Interval
      <3>2. IsFiniteSet(DOMAIN b) /\ I \in SUBSET DOMAIN b
        BY <1>1, <3>1
      <3> HIDE DEF I
      <3> QED
        BY <3>2, FS_Subset
    <2>2. NodeAt(b, i, d) = {g[j] : j \in I}
      BY DEF NodeAt
    <2> HIDE DEF g, I
    <2> QED
      BY <2>1, <2>2, FiniteImage
  <1>7. ASSUME NEW e \in NodeAt(b, i, d) PROVE e[1] \in Seq(Nibble) /\ Len(e[1]) <= 4
    <2>1. PICK j \in DOMAIN b : Under(j - 1, i, d) /\ e = <<Drop(Nibbles(j - 1), d), b[j]>>
      BY <1>7 DEF NodeAt
    <2>2. Nibbles(j - 1) \in Seq(Nibble) /\ Len(Nibbles(j - 1)) \in 2 .. 4 /\ d <= Len(Nibbles(j - 1))
      BY <1>1, <2>1 DEF Under
    <2>3. \A n \in 2 .. 4 : d <= n => d \in 0 .. n /\ n - d <= 4
      BY <1>4
    <2>4. d \in 0 .. Len(Nibbles(j - 1)) /\ Len(Nibbles(j - 1)) - d <= 4
      BY <2>2, <2>3, Zenon
    <2> QED
      BY <2>1, <2>2, <2>4, DropFacts
  <1> QED
    BY <1>2, <1>3, <1>4, <1>5, <1>6, <1>7

\* The root.
LEMMA RootNode ==
    ASSUME NEW b \in Blocks, NEW i
    PROVE  NodeAt(b, i, 0) = Trie(b)
  <1>1. \A j \in DOMAIN b : Nibbles(j - 1) \in Seq(Nibble)
    BY BlockFacts
  <1>2. \A j \in DOMAIN b : Under(j - 1, i, 0) /\ Drop(Nibbles(j - 1), 0) = Nibbles(j - 1)
    BY <1>1, SubSeqFull DEF Under, Drop
  <1> QED
    BY <1>2 DEF NodeAt, Trie

\* Where the path ends there is a leaf: no key begins with another one.
LEMMA EndIsLeaf ==
    ASSUME NEW b \in Blocks, NEW i \in 0 .. Len(b) - 1
    PROVE  IsLeaf(NodeAt(b, i, Len(Nibbles(i))))
  <1> DEFINE d == Len(Nibbles(i))
             e == <<Drop(Nibbles(i), d), b[i + 1]>>
  <1>0. Nibbles(i) \in Seq(Nibble) /\ d \in 2 .. 4 /\ i \in 0 .. 255 /\ d \in 0 .. d
    <2>1. \A n \in 1 .. 255 : \A k \in 0 .. n - 1 : k \in 0 .. 255
      OBVIOUS
    <2>2. i \in 0 .. 255
      BY <2>1, BlockFacts, ZenonT(30)
    <2>3. \A n \in 2 .. 4 : n \in 0 .. n
      OBVIOUS
    <2> QED
      BY <2>2, <2>3, KeyType, Zenon
  <1>1. e \in NodeAt(b, i, d)
    BY <1>0, NodeAtFacts
  <1>2. ASSUME NEW f \in NodeAt(b, i, d) PROVE f = e
    <2>1. PICK j \in DOMAIN b : Under(j - 1, i, d) /\ f = <<Drop(Nibbles(j - 1), d), b[j]>>
      BY <1>2 DEF NodeAt
    <2>2. j - 1 \in 0 .. 255
      BY BlockFacts
    <2>3. i = j - 1
      <3>1. Len(Nibbles(i)) <= Len(Nibbles(j - 1))
        BY <2>1 DEF Under
      <3>2. \A k \in 1 .. Len(Nibbles(i)) : Nibbles(i)[k] = Nibbles(j - 1)[k]
        BY <2>1 DEF Under
      <3> QED
        BY <1>0, <2>2, <3>1, <3>2, PrefixFree
    <2>4. j = i + 1
      BY <1>0, <2>3, BlockFacts
    <2> QED
      BY <2>1, <2>3, <2>4
  <1> HIDE DEF e
  <1>3. NodeAt(b, i, d) = {e}
    BY <1>1, <1>2
  <1> QED
    BY <1>3, FS_Singleton DEF IsLeaf

\* A branch leads to the node one nibble further down.
LEMMA ChildNode ==
    ASSUME NEW b \in Blocks, NEW i \in 0 .. Len(b) - 1, NEW d \in 0 .. 4, d < Len(Nibbles(i))
    PROVE  /\ Drop(Nibbles(i), d) # <<>> /\ Drop(Nibbles(i), d)[1] = Nibbles(i)[d + 1]
           /\ Tail(Drop(Nibbles(i), d)) = Drop(Nibbles(i), d + 1)
           /\ Child(NodeAt(b, i, d), Nibbles(i)[d + 1]) = NodeAt(b, i, d + 1)
           /\ d + 1 \in 0 .. Len(Nibbles(i))
  <1> DEFINE T == NodeAt(b, i, d)
             c == Nibbles(i)[d + 1]
  <1>1. \A n \in 2 .. 4 : d <= n => d \in 0 .. n
    OBVIOUS
  <1>2. \A n \in 2 .. 4 : d < n => /\ d \in 0 .. n /\ n - d \in Nat \ {0} /\ 1 \in 1 .. n - d
                                   /\ d # n /\ d + 1 \in 0 .. n /\ 0 \in 0 .. n - d
                                   /\ d + 1 <= n /\ d <= n
    OBVIOUS
  <1>3. Nibbles(i) \in Seq(Nibble) /\ Len(Nibbles(i)) \in 2 .. 4 /\ i \in 0 .. 255
    <2>1. \A n \in 1 .. 255 : \A k \in 0 .. n - 1 : k \in 0 .. 255
      OBVIOUS
    <2>2. i \in 0 .. 255
      BY <2>1, BlockFacts
    <2> QED
      BY <2>2, KeyType, Zenon
  <1>4. ASSUME NEW s \in Seq(Nibble), Len(s) \in 2 .. 4, d < Len(s)
        PROVE  /\ Drop(s, d) # <<>> /\ Drop(s, d)[1] = s[d + 1]
               /\ Tail(Drop(s, d)) = Drop(s, d + 1)
    <2>1. /\ d \in 0 .. Len(s) /\ 1 \in 1 .. Len(s) - d /\ d # Len(s) /\ 0 \in 0 .. Len(s) - d
      BY <1>2, <1>4, Zenon
    <2> QED
      BY <1>4, <2>1, DropFacts, DropMore
  <1>5. \A j \in DOMAIN b : Nibbles(j - 1) \in Seq(Nibble) /\ Len(Nibbles(j - 1)) \in 2 .. 4
    BY BlockFacts
  <1>6. ASSUME NEW j \in DOMAIN b
        PROVE  Under(j - 1, i, d + 1) <=>
                   Under(j - 1, i, d) /\ d < Len(Nibbles(j - 1)) /\ Nibbles(j - 1)[d + 1] = c
    <2>1. \A n \in 2 .. 4 : (d + 1 <= n <=> d < n) /\ (d < n => d <= n)
      OBVIOUS
    <2>2. /\ d + 1 <= Len(Nibbles(j - 1)) <=> d < Len(Nibbles(j - 1))
          /\ d < Len(Nibbles(j - 1)) => d <= Len(Nibbles(j - 1))
      BY <1>5, <2>1, Zenon
    <2>3. 1 .. d + 1 = (1 .. d) \cup {d + 1}
      OBVIOUS
    <2> QED
      BY <2>2, <2>3 DEF Under
  <1>7. ASSUME NEW j \in DOMAIN b, Under(j - 1, i, d)
        PROVE  Drop(Nibbles(j - 1), d) # <<>> <=> d < Len(Nibbles(j - 1))
    <2>1. \A n \in 2 .. 4 : d <= n => d \in 0 .. n /\ (d < n <=> d # n)
      OBVIOUS
    <2>2. d \in 0 .. Len(Nibbles(j - 1)) /\ (d < Len(Nibbles(j - 1)) <=> d # Len(Nibbles(j - 1)))
      BY <1>5, <1>7, <2>1, Zenon DEF Under
    <2> QED
      BY <1>5, <2>2, DropFacts
  <1>8. ASSUME NEW x PROVE x \in Child(T, c) <=> x \in NodeAt(b, i, d + 1)
    <2>1. ASSUME x \in Child(T, c) PROVE x \in NodeAt(b, i, d + 1)
      <3>1. PICK f \in T : f[1] # <<>> /\ f[1][1] = c /\ x = <<Tail(f[1]), f[2]>>
        BY <2>1 DEF Child
      <3>2. PICK j \in DOMAIN b : Under(j - 1, i, d) /\ f = <<Drop(Nibbles(j - 1), d), b[j]>>
        BY <3>1 DEF NodeAt
      <3>3. f[1] = Drop(Nibbles(j - 1), d) /\ f[2] = b[j]
        BY <3>2
      <3>4. d < Len(Nibbles(j - 1))
        BY <1>7, <3>1, <3>2, <3>3
      <3>5. Nibbles(j - 1)[d + 1] = c /\ x = <<Drop(Nibbles(j - 1), d + 1), b[j]>>
        BY <1>4, <1>5, <3>1, <3>3, <3>4
      <3>6. Under(j - 1, i, d + 1)
        BY <1>6, <3>2, <3>4, <3>5
      <3> QED
        BY <3>5, <3>6 DEF NodeAt
    <2>2. ASSUME x \in NodeAt(b, i, d + 1) PROVE x \in Child(T, c)
      <3>1. PICK j \in DOMAIN b : Under(j - 1, i, d + 1) /\ x = <<Drop(Nibbles(j - 1), d + 1), b[j]>>
        BY <2>2 DEF NodeAt
      <3>2. Under(j - 1, i, d) /\ d < Len(Nibbles(j - 1)) /\ Nibbles(j - 1)[d + 1] = c
        BY <1>6, <3>1
      <3> DEFINE f == <<Drop(Nibbles(j - 1), d), b[j]>>
      <3>3. f \in T /\ f[1] = Drop(Nibbles(j - 1), d) /\ f[2] = b[j]
        BY <3>2 DEF NodeAt
      <3> HIDE DEF f, T
      <3>4. f[1] # <<>> /\ f[1][1] = c /\ x = <<Tail(f[1]), f[2]>>
        BY <1>4, <1>5, <3>1, <3>2, <3>3
      <3> QED
        BY <3>3, <3>4 DEF Child
    <2> QED
      BY <2>1, <2>2
  <1>9. Child(T, c) = NodeAt(b, i, d + 1)
    <2> HIDE DEF T, c
    <2> QED
      BY <1>8
  <1>10. d + 1 \in 0 .. Len(Nibbles(i))
    BY <1>2, <1>3, Zenon
  <1> QED
    BY <1>3, <1>4, <1>9, <1>10

\* Node T on the path, of which p is left, has the key the path begins with, and
\* leads n nibbles further down.
Leads(b, i, d, T, n, p) ==
    /\ n \in Nat /\ n <= Len(p) /\ d + n \in 0 .. Len(Nibbles(i))
    /\ NodeKey(T) \in Seq(Nibble) /\ p \in Seq(Nibble)
    /\ \A k \in 1 .. n : p[k] = NodeKey(T)[k]
    /\ IsPrefix(NodeKey(T), p) /\ Drop(p, n) = Drop(Nibbles(i), d + n)
    /\ IsLeaf(T) => NodeKey(T) = p
    /\ Below(T) = NodeAt(b, i, d + n)

\* An extension leads as far down as its key is long.
LEMMA BelowNode ==
    ASSUME NEW b \in Blocks, NEW i \in 0 .. Len(b) - 1, NEW d \in 0 .. Len(Nibbles(i)),
           NEW T, T = NodeAt(b, i, d), NEW n, n = Len(NodeKey(T)), NEW p, p = Drop(Nibbles(i), d)
    PROVE  Leads(b, i, d, T, n, p)
  <1> DEFINE key == NodeKey(T)
             own == <<p, b[i + 1]>>
  <1>1. /\ T # {} /\ IsFiniteSet(T) /\ own \in T /\ own[1] = p
        /\ \A e \in T : e[1] \in Seq(Nibble) /\ Len(e[1]) <= 4
        /\ i \in 0 .. 255 /\ Nibbles(i) \in Seq(Nibble) /\ Len(Nibbles(i)) \in 2 .. 4 /\ d \in 0 .. 4
    <2>1. own[1] = p
      OBVIOUS
    <2>2. /\ NodeAt(b, i, d) # {} /\ IsFiniteSet(NodeAt(b, i, d))
          /\ <<Drop(Nibbles(i), d), b[i + 1]>> \in NodeAt(b, i, d)
          /\ \A e \in NodeAt(b, i, d) : e[1] \in Seq(Nibble) /\ Len(e[1]) <= 4
          /\ i \in 0 .. 255 /\ Nibbles(i) \in Seq(Nibble) /\ Len(Nibbles(i)) \in 2 .. 4
          /\ d \in 0 .. 4
      BY NodeAtFacts, ZenonT(90)
    <2> QED
      BY <2>1, <2>2, ZenonT(30)
  <1> HIDE DEF own
  <1>2. /\ key \in Seq(Nibble)
        /\ \A e \in T : /\ Len(key) <= Len(e[1])
                        /\ \A k \in 1 .. Len(key) : key[k] = e[1][k]
        /\ IsLeaf(T) => \A e \in T : e[1] = key
    BY <1>1, NodeKeyFacts
  <1> HIDE DEF key
  <1>3. /\ p \in Seq(Nibble) /\ Len(p) = Len(Nibbles(i)) - d
        /\ \A k \in 1 .. Len(Nibbles(i)) - d : p[k] = Nibbles(i)[d + k]
    <2>1. Nibbles(i) \in Seq(Nibble)
      BY <1>1
    <2>2. /\ Drop(Nibbles(i), d) \in Seq(Nibble) /\ Len(Drop(Nibbles(i), d)) = Len(Nibbles(i)) - d
          /\ \A k \in 1 .. Len(Nibbles(i)) - d : Drop(Nibbles(i), d)[k] = Nibbles(i)[d + k]
      BY <2>1, DropFacts, Zenon
    <2> QED
      BY <2>2, Zenon
  <1>4. n \in Nat /\ n = Len(key) /\ n <= Len(p)
    BY <1>1, <1>2 DEF key
  <1>5. d + n \in 0 .. Len(Nibbles(i)) /\ n \in 0 .. Len(Nibbles(i)) - d
    <2>1. \A m \in 2 .. 4 : d \in 0 .. m /\ n <= m - d => d + n \in 0 .. m /\ n \in 0 .. m - d
      BY <1>1, <1>4
    <2> QED
      BY <1>1, <1>3, <1>4, <2>1
  <1>6. \A k \in 1 .. n : p[k] = key[k]
    BY <1>1, <1>2, <1>4
  <1>7. IsPrefix(key, p)
    <2>1. Len(p) \in Nat /\ Len(key) = n
      BY <1>3, <1>4
    <2>2. SubSeq(key, 1, n) = [k \in 1 .. n |-> key[k]] /\ SubSeq(p, 1, n) = [k \in 1 .. n |-> p[k]]
      BY <1>2, <1>3, <1>4, <2>1
    <2>3. SubSeq(key, 1, n) = SubSeq(p, 1, n)
      BY <1>6, <2>2
    <2> QED
      BY <1>4, <2>1, <2>3 DEF IsPrefix
  <1>8. Drop(p, n) = Drop(Nibbles(i), d + n)
    BY <1>1, <1>5, DropMore
  <1>9. \A j \in DOMAIN b : Nibbles(j - 1) \in Seq(Nibble) /\ Len(Nibbles(j - 1)) \in 2 .. 4
    BY BlockFacts
  <1>10. ASSUME NEW j \in DOMAIN b
         PROVE  /\ Under(j - 1, i, d) <=> Under(j - 1, i, d + n)
                /\ Under(j - 1, i, d) => Drop(Drop(Nibbles(j - 1), d), n) = Drop(Nibbles(j - 1), d + n)
    <2> DEFINE s == Nibbles(j - 1)
               e == <<Drop(s, d), b[j]>>
    <2>1. ASSUME Under(j - 1, i, d)
          PROVE  Under(j - 1, i, d + n) /\ Drop(Drop(s, d), n) = Drop(s, d + n)
      <3>1. e \in T /\ e[1] = Drop(s, d)
        BY <2>1 DEF NodeAt
      <3>2. s \in Seq(Nibble) /\ Len(s) \in 2 .. 4 /\ d <= Len(s)
        BY <1>9, <2>1 DEF Under
      <3>3. n <= Len(Drop(s, d)) /\ \A k \in 1 .. n : key[k] = Drop(s, d)[k]
        <4> HIDE DEF e, s
        <4> QED
          BY <1>2, <1>4, <3>1
      <3> HIDE DEF s
      <3>a. \A m \in 2 .. 4 : d <= m => d \in 0 .. m
        BY <1>1
      <3>4. d \in 0 .. Len(s)
        BY <3>2, <3>a, Zenon
      <3>5. Len(Drop(s, d)) = Len(s) - d /\ \A k \in 1 .. Len(s) - d : Drop(s, d)[k] = s[d + k]
        BY <3>2, <3>4, DropFacts
      <3>6. n \in 0 .. Len(s) - d /\ d + n <= Len(s)
        <4>1. \A m \in 2 .. 4 : d \in 0 .. m /\ n <= m - d => n \in 0 .. m - d /\ d + n <= m
          BY <1>4
        <4> QED
          BY <3>2, <3>3, <3>4, <3>5, <4>1
      <3>7. Drop(Drop(s, d), n) = Drop(s, d + n)
        BY <3>2, <3>4, <3>6, DropMore
      <3>8. \A k \in 1 .. d : s[k] = Nibbles(i)[k]
        BY <2>1 DEF Under, s
      <3>9. ASSUME NEW k \in 1 .. n PROVE s[d + k] = Nibbles(i)[d + k]
        <4>1. k \in 1 .. Len(s) - d
          <5>1. \A m \in 2 .. 4 : n \in 0 .. m - d => k \in 1 .. m - d
            BY <1>1, <1>4, <3>9
          <5> QED
            BY <3>2, <3>6, <5>1, Zenon
        <4>2. k \in 1 .. Len(Nibbles(i)) - d
          <5>1. \A m \in 2 .. 4 : n \in 0 .. m - d => k \in 1 .. m - d
            BY <1>1, <1>4, <3>9
          <5> QED
            BY <1>1, <1>5, <5>1, Zenon
        <4> QED
          BY <1>3, <1>6, <3>3, <3>5, <3>9, <4>1, <4>2
      <3>10. \A k \in 1 .. d + n : s[k] = Nibbles(i)[k]
        <4>1. \A k \in 1 .. d + n : k \in 1 .. d \/ (k - d \in 1 .. n /\ d + (k - d) = k)
          BY <1>1, <1>4
        <4> QED
          BY <3>8, <3>9, <4>1
      <3>11. Under(j - 1, i, d + n)
        BY <3>6, <3>10 DEF Under, s
      <3> QED
        BY <3>7, <3>11
    <2>2. ASSUME Under(j - 1, i, d + n) PROVE Under(j - 1, i, d)
      <3>1. 1 .. d \subseteq 1 .. d + n
        BY <1>1, <1>4
      <3>2. \A m \in 2 .. 4 : d + n <= m => d <= m
        BY <1>1, <1>4
      <3> QED
        BY <1>9, <2>2, <3>1, <3>2 DEF Under
    <2> QED
      BY <2>1, <2>2
  <1>11. ASSUME NEW x PROVE x \in Below(T) <=> x \in NodeAt(b, i, d + n)
    <2>1. ASSUME x \in Below(T) PROVE x \in NodeAt(b, i, d + n)
      <3>1. PICK f \in T : x = <<Drop(f[1], n), f[2]>>
        BY <2>1 DEF Below
      <3>2. PICK j \in DOMAIN b : Under(j - 1, i, d) /\ f = <<Drop(Nibbles(j - 1), d), b[j]>>
        BY <3>1 DEF NodeAt
      <3>3. f[1] = Drop(Nibbles(j - 1), d) /\ f[2] = b[j]
        BY <3>2
      <3>4. x = <<Drop(Nibbles(j - 1), d + n), b[j]>> /\ Under(j - 1, i, d + n)
        BY <1>10, <3>1, <3>2, <3>3
      <3> QED
        BY <3>4 DEF NodeAt
    <2>2. ASSUME x \in NodeAt(b, i, d + n) PROVE x \in Below(T)
      <3>1. PICK j \in DOMAIN b : Under(j - 1, i, d + n) /\ x = <<Drop(Nibbles(j - 1), d + n), b[j]>>
        BY <2>2 DEF NodeAt
      <3> DEFINE f == <<Drop(Nibbles(j - 1), d), b[j]>>
      <3>2. f \in T /\ f[1] = Drop(Nibbles(j - 1), d) /\ f[2] = b[j]
        BY <1>10, <3>1 DEF NodeAt
      <3> HIDE DEF f
      <3>3. x = <<Drop(f[1], n), f[2]>>
        BY <1>10, <3>1, <3>2
      <3> QED
        BY <3>2, <3>3 DEF Below
    <2> QED
      BY <2>1, <2>2
  <1>12. Below(T) = NodeAt(b, i, d + n)
    BY <1>11
  <1>13. IsLeaf(T) => key = p
    BY <1>1, <1>2
  <1> QED
    BY <1>2, <1>3, <1>4, <1>5, <1>6, <1>7, <1>8, <1>12, <1>13 DEF key, Leads

\* Every key that leads through the node continues with the node's path.
LEMMA SharedKey ==
    ASSUME NEW b \in Blocks, NEW i \in 0 .. Len(b) - 1, NEW d \in 0 .. Len(Nibbles(i)),
           NEW j \in 0 .. Len(b) - 1, Under(j, i, d), NEW key, key = NodeKey(NodeAt(b, i, d))
    PROVE  /\ key \in Seq(Nibble) /\ Len(key) <= Len(Nibbles(j)) - d
           /\ \A k \in 1 .. Len(key) : key[k] = Nibbles(j)[d + k]
           /\ j \in 0 .. 255
  <1> DEFINE T == NodeAt(b, i, d)
             e == <<Drop(Nibbles(j), d), b[j + 1]>>
  <1>1. /\ T # {} /\ IsFiniteSet(T) /\ \A f \in T : f[1] \in Seq(Nibble) /\ Len(f[1]) <= 4
        /\ d \in 0 .. 4
    BY NodeAtFacts, ZenonT(90)
  <1>2. j \in 0 .. 255 /\ j + 1 \in DOMAIN b /\ (j + 1) - 1 = j
    <2>1. \A n \in 1 .. 255 : \A k \in 0 .. n - 1 : k \in 0 .. 255 /\ k + 1 \in 1 .. n /\ (k + 1) - 1 = k
      OBVIOUS
    <2>2. /\ Len(b) \in 1 .. 255 /\ DOMAIN b = 1 .. Len(b)
          /\ \A l \in DOMAIN b : l - 1 \in 0 .. 255
      BY BlockFacts
    <2> QED
      BY <2>1, <2>2, ZenonT(30)
  <1>3. e \in T /\ e[1] = Drop(Nibbles(j), d)
    BY <1>2 DEF NodeAt
  <1> HIDE DEF T, e
  <1>4. /\ key \in Seq(Nibble)
        /\ \A f \in T : /\ Len(key) <= Len(f[1])
                        /\ \A k \in 1 .. Len(key) : key[k] = f[1][k]
    <2>1. key = NodeKey(T)
      BY DEF T
    <2> QED
      BY <1>1, <2>1, NodeKeyFacts
  <1>5. Nibbles(j) \in Seq(Nibble) /\ Len(Nibbles(j)) \in 2 .. 4
    BY <1>2, KeyType, Zenon
  <1>6. d \in 0 .. Len(Nibbles(j))
    <2>1. \A m \in 2 .. 4 : d <= m => d \in 0 .. m
      BY <1>1
    <2> QED
      BY <1>5, <2>1, Zenon DEF Under
  <1>7. /\ Len(Drop(Nibbles(j), d)) = Len(Nibbles(j)) - d
        /\ \A k \in 1 .. Len(Nibbles(j)) - d : Drop(Nibbles(j), d)[k] = Nibbles(j)[d + k]
    BY <1>5, <1>6, DropFacts, Zenon
  <1>8. Len(key) <= Len(Nibbles(j)) - d /\ \A k \in 1 .. Len(key) : key[k] = Drop(Nibbles(j), d)[k]
    BY <1>3, <1>4, <1>7, Zenon
  <1>9. ASSUME NEW k \in 1 .. Len(key) PROVE k \in 1 .. Len(Nibbles(j)) - d
    <2>1. \A n \in Nat : \A m \in 2 .. 4 : n <= m - d => \A x \in 1 .. n : x \in 1 .. m - d
      BY <1>1
    <2>2. Len(key) \in Nat
      BY <1>4
    <2> QED
      BY <1>5, <1>8, <1>9, <2>1, <2>2, Zenon
  <1> QED
    BY <1>2, <1>4, <1>7, <1>8, <1>9, Zenon

\* A node whose elements share nothing, on a path that goes on, is a branch.
LEMMA NothingShared ==
    ASSUME NEW b \in Blocks, NEW i \in 0 .. Len(b) - 1, NEW d \in 0 .. Len(Nibbles(i)),
           d # Len(Nibbles(i)), Len(NodeKey(NodeAt(b, i, d))) = 0
    PROVE  IsBranch(NodeAt(b, i, d))
  <1> DEFINE T == NodeAt(b, i, d)
             p == Drop(Nibbles(i), d)
  <1>1. T # {} /\ IsFiniteSet(T) /\ Nibbles(i) \in Seq(Nibble)
    BY NodeAtFacts, ZenonT(90)
  <1>2. NodeKey(T) \in Seq(Nibble) /\ (IsLeaf(T) => NodeKey(T) = p)
    <2>1. T = NodeAt(b, i, d) /\ p = Drop(Nibbles(i), d)
      OBVIOUS
    <2> HIDE DEF T, p
    <2>2. Leads(b, i, d, T, Len(NodeKey(T)), p)
      BY <2>1, BelowNode, Zenon
    <2> QED
      BY <2>2 DEF Leads
  <1>3. p # <<>>
    BY <1>1, DropFacts
  <1> HIDE DEF T, p
  <1>4. NodeKey(T) = <<>>
    <2>1. Len(NodeKey(T)) = 0
      BY DEF T
    <2> QED
      BY <1>2, <2>1, EmptySeq
  <1>5. Cardinality(T) \in Nat /\ Cardinality(T) # 0 /\ Cardinality(T) # 1
    BY <1>1, <1>2, <1>3, <1>4, FS_CardinalityType, FS_EmptySet DEF IsLeaf
  <1>6. Cardinality(T) > 1
    BY <1>5
  <1> QED
    BY <1>4, <1>6 DEF IsBranch, NodeKey, T

\* In a block of two or more the root is a branch; so is the next node on the way
\* to index 128 and above.
LEMMA TopBranches ==
    ASSUME NEW b \in Blocks, NEW i \in 0 .. Len(b) - 1
    PROVE  /\ Len(b) # 1 => /\ Len(NodeKey(NodeAt(b, i, 0))) = 0
                            /\ IsBranch(NodeAt(b, i, 0))
           /\ i >= 128 => /\ Len(NodeKey(NodeAt(b, i, 1))) = 0
                          /\ IsBranch(NodeAt(b, i, 1))
  <1>1. /\ Len(b) \in 1 .. 255 /\ i \in 0 .. 255 /\ 0 \in 0 .. Len(b) - 1
        /\ (Len(b) # 1 => 1 \in 0 .. Len(b) - 1)
    <2>1. \A n \in 1 .. 255 : /\ \A k \in 0 .. n - 1 : k \in 0 .. 255
                              /\ 0 \in 0 .. n - 1 /\ (n # 1 => 1 \in 0 .. n - 1)
      OBVIOUS
    <2>2. /\ Len(b) \in 1 .. 255 /\ DOMAIN b = 1 .. Len(b)
          /\ \A l \in DOMAIN b : l - 1 \in 0 .. 255
      BY BlockFacts
    <2> QED
      BY <2>1, <2>2, ZenonT(30)
  <1>2. Len(Nibbles(i)) \in 2 .. 4 /\ Nibbles(i) \in Seq(Nibble)
    BY <1>1, KeyType, Zenon
  <1>3. 0 \in 0 .. Len(Nibbles(i)) /\ 1 \in 0 .. Len(Nibbles(i)) /\ 0 # Len(Nibbles(i)) /\ 1 # Len(Nibbles(i))
    <2>1. \A n \in 2 .. 4 : 0 \in 0 .. n /\ 1 \in 0 .. n /\ 0 # n /\ 1 # n
      OBVIOUS
    <2> QED
      BY <1>2, <2>1, Zenon
  <1>4. /\ Nibbles(0) = <<8, 0>> /\ Nibbles(1) = <<0, 1>>
        /\ i >= 128 => Nibbles(i)[1] = 8 /\ Nibbles(i)[2] = 1
    <2>1. Nibbles(0) = <<8, 0>>
      BY DEF Nibbles
    <2>2. Nibbles(1) = <<0, 1>>
      <3>1. 1 \in 0 .. 255 /\ 1 \div 16 = 0 /\ 1 % 16 = 1 /\ 1 # 0 /\ 1 < 128
        OBVIOUS
      <3>2. Nibbles(1) = <<1 \div 16, 1 % 16>>
        BY <3>1, NibblesShape
      <3> QED
        BY <3>1, <3>2
    <2> QED
      BY <1>1, <2>1, <2>2, NibblesType
  <1>5. ASSUME Len(b) # 1 PROVE Len(NodeKey(NodeAt(b, i, 0))) = 0
    <2> DEFINE key == NodeKey(NodeAt(b, i, 0))
    <2>1. 0 \in 0 .. Len(b) - 1 /\ 1 \in 0 .. Len(b) - 1 /\ 0 \in 0 .. Len(Nibbles(i))
      BY <1>1, <1>3, <1>5
    <2>2. Under(0, i, 0) /\ Under(1, i, 0)
      BY <1>4 DEF Under
    <2>3. key \in Seq(Nibble) /\ \A k \in 1 .. Len(key) : key[k] = Nibbles(0)[0 + k]
      BY <2>1, <2>2, SharedKey
    <2>4. \A k \in 1 .. Len(key) : key[k] = Nibbles(1)[0 + k]
      BY <2>1, <2>2, SharedKey
    <2> HIDE DEF key
    <2>5. 1 \notin 1 .. Len(key)
      BY <1>4, <2>3, <2>4
    <2>6. Len(key) = 0
      BY <2>3, <2>5
    <2> QED
      BY <2>6 DEF key
  <1>6. ASSUME i >= 128 PROVE Len(NodeKey(NodeAt(b, i, 1))) = 0
    <2> DEFINE key == NodeKey(NodeAt(b, i, 1))
    <2>1. 0 \in 0 .. Len(b) - 1 /\ 1 \in 0 .. Len(Nibbles(i))
      BY <1>1, <1>3
    <2>2. Under(0, i, 1) /\ Under(i, i, 1)
      <3>1. 1 <= Len(Nibbles(i))
        <4>1. \A n \in 2 .. 4 : 1 <= n
          OBVIOUS
        <4> QED
          BY <1>2, <4>1, Zenon
      <3>2. Len(Nibbles(0)) = 2 /\ Nibbles(0)[1] = 8
        BY <1>4
      <3>3. \A k \in 1 .. 1 : Nibbles(0)[k] = Nibbles(i)[k]
        BY <1>4, <1>6, <3>2
      <3> QED
        BY <3>1, <3>2, <3>3 DEF Under
    <2>3. key \in Seq(Nibble) /\ \A k \in 1 .. Len(key) : key[k] = Nibbles(0)[1 + k]
      BY <2>1, <2>2, SharedKey
    <2>4. \A k \in 1 .. Len(key) : key[k] = Nibbles(i)[1 + k]
      BY <2>1, <2>2, SharedKey
    <2> HIDE DEF key
    <2>5. 1 \notin 1 .. Len(key)
      BY <1>4, <1>6, <2>3, <2>4
    <2>6. Len(key) = 0
      BY <2>3, <2>5
    <2> QED
      BY <2>6 DEF key
  <1> QED
    BY <1>3, <1>5, <1>6, NothingShared

\* Except for the leaves of Long, no node on the way has a path of two nibbles.
LEMMA ShortPaths ==
    ASSUME NEW b \in Blocks, NEW i \in 0 .. Len(b) - 1, NEW d \in 0 .. Len(Nibbles(i)),
           ~Long(b, i)
    PROVE  Len(NodeKey(NodeAt(b, i, d))) <= 1
  <1> DEFINE key == NodeKey(NodeAt(b, i, d))
  <1>1. /\ Len(b) \in 1 .. 255 /\ i \in 0 .. 255 /\ d \in 0 .. 4 /\ Len(Nibbles(i)) \in 2 .. 4
    <2>1. Len(b) \in 1 .. 255
      BY BlockFacts
    <2>2. i \in 0 .. 255 /\ d \in 0 .. 4 /\ Len(Nibbles(i)) \in 2 .. 4
      BY NodeAtFacts, ZenonT(90)
    <2> QED
      BY <2>1, <2>2
  <1>2. Under(i, i, d)
    <2>1. \A n \in 2 .. 4 : d \in 0 .. n => d <= n
      OBVIOUS
    <2> QED
      BY <1>1, <2>1, Zenon DEF Under
  <1>3. key \in Seq(Nibble) /\ Len(key) <= Len(Nibbles(i)) - d
    BY <1>2, SharedKey
  <1>4. CASE d = 0
    <2>1. Len(b) # 1
      BY DEF Long
    <2>2. Len(key) = 0
      BY <1>4, <2>1, TopBranches
    <2> QED
      BY <2>2
  <1>5. CASE d # 0 /\ i < 128
    <2>1. Len(Nibbles(i)) = 2
      <3>1. Len(Nibbles(i)) \in {2, 4} /\ (Len(Nibbles(i)) = 4 <=> i >= 128)
        BY <1>1, NibblesType, Zenon
      <3>2. ~(i >= 128)
        BY <1>1, <1>5
      <3> QED
        BY <3>1, <3>2, Zenon
    <2> HIDE DEF key
    <2>2. Len(key) \in Nat /\ Len(key) <= 2 - d
      BY <1>3, <2>1
    <2>3. Len(key) <= 1
      BY <1>1, <1>5, <2>2
    <2> QED
      BY <2>3 DEF key
  <1>6. CASE d = 1 /\ i >= 128
    <2>1. Len(key) = 0
      BY <1>6, TopBranches
    <2> QED
      BY <2>1
  <1>7. CASE d > 2 /\ i >= 128
    <2>1. Len(Nibbles(i)) = 4
      BY <1>1, <1>7, NibblesType
    <2> HIDE DEF key
    <2>2. Len(key) \in Nat /\ Len(key) <= 4 - d
      BY <1>3, <2>1
    <2>3. Len(key) <= 1
      BY <1>1, <1>7, <2>2
    <2> QED
      BY <2>3 DEF key
  <1>8. CASE d = 2 /\ i >= 128
    <2>1. 128 \in 0 .. Len(b) - 1 /\ 129 \in 0 .. Len(b) - 1
      <3>1. \A n \in 1 .. 255 : \A x \in 0 .. n - 1 : x >= 128 /\ ~(n = 129 /\ x = 128) =>
                128 \in 0 .. n - 1 /\ 129 \in 0 .. n - 1
        OBVIOUS
      <3>2. ~(Len(b) = 129 /\ i = 128)
        BY DEF Long
      <3> QED
        BY <1>1, <1>8, <3>1, <3>2, Zenon
    <2>2. ASSUME NEW j \in {128, 129}
          PROVE  /\ Nibbles(j)[1] = 8 /\ Nibbles(j)[2] = 1 /\ Nibbles(j)[4] = j - 128
                 /\ Len(Nibbles(j)) = 4
      <3>1. j \in 0 .. 255 /\ j >= 128 /\ j % 16 = j - 128
        OBVIOUS
      <3> QED
        BY <3>1, NibblesType
    <2>3. Nibbles(i)[1] = 8 /\ Nibbles(i)[2] = 1
      BY <1>1, <1>8, NibblesType
    <2>4. ASSUME NEW j \in {128, 129} PROVE Under(j, i, 2)
      <3>1. \A k \in 1 .. 2 : k = 1 \/ k = 2
        OBVIOUS
      <3> QED
        BY <2>2, <2>3, <3>1, SMTT(30) DEF Under
    <2>5. \A k \in 1 .. Len(key) : key[k] = Nibbles(128)[2 + k]
      BY <1>8, <2>1, <2>4, SharedKey
    <2>6. \A k \in 1 .. Len(key) : key[k] = Nibbles(129)[2 + k]
      BY <1>8, <2>1, <2>4, SharedKey
    <2> HIDE DEF key
    <2>7. 2 \notin 1 .. Len(key)
      <3>1. Nibbles(128)[4] = 0 /\ Nibbles(129)[4] = 1
        BY <2>2
      <3> QED
        BY <2>5, <2>6, <3>1
    <2>8. Len(key) <= 1
      BY <1>3, <2>7
    <2> QED
      BY <2>8 DEF key
  <1>9. d = 0 \/ (d # 0 /\ i < 128) \/ (d = 1 /\ i >= 128) \/ (d > 2 /\ i >= 128) \/ (d = 2 /\ i >= 128)
    BY <1>1
  <1> QED
    BY <1>4, <1>5, <1>6, <1>7, <1>8, <1>9

\* How far down the leaves of Long are.
Deepest(b) == IF Len(b) = 1 THEN 0 ELSE 2

\* Only branches lead to such a leaf.
LEMMA LongPaths ==
    ASSUME NEW b \in Blocks, NEW i \in 0 .. Len(b) - 1, Long(b, i), NEW d \in 0 .. Deepest(b)
    PROVE  /\ d # Deepest(b) => IsBranch(NodeAt(b, i, d))
           /\ d = Deepest(b) => IsLeaf(NodeAt(b, i, d)) /\ Len(NodeKey(NodeAt(b, i, d))) = 2
  <1> DEFINE T == NodeAt(b, i, d)
             p == Drop(Nibbles(i), d)
             own == <<p, b[i + 1]>>
  <1>1. /\ DOMAIN b = 1 .. Len(b) /\ Len(b) \in 1 .. 255 /\ i \in 0 .. 255
        /\ \A j \in DOMAIN b : j - 1 \in 0 .. 255
    <2>1. \A n \in 1 .. 255 : \A k \in 0 .. n - 1 : k \in 0 .. 255
      OBVIOUS
    <2>2. /\ Len(b) \in 1 .. 255 /\ DOMAIN b = 1 .. Len(b)
          /\ \A l \in DOMAIN b : l - 1 \in 0 .. 255
      BY BlockFacts
    <2> QED
      BY <2>1, <2>2, ZenonT(30)
  <1>2. d # Deepest(b) => IsBranch(T)
    <2>1. SUFFICES ASSUME d # Deepest(b) PROVE IsBranch(T)
      OBVIOUS
    <2>2. Len(b) # 1 /\ i = 128 /\ (d = 0 \/ d = 1)
      <3>1. Len(b) # 1
        BY <2>1 DEF Deepest
      <3> QED
        BY <2>1, <3>1 DEF Deepest, Long
    <2> QED
      BY <2>2, TopBranches
  <1>3. ASSUME d = Deepest(b)
        PROVE  /\ d \in 0 .. Len(Nibbles(i)) /\ Len(Nibbles(i)) - d = 2
               /\ \A j \in DOMAIN b : Under(j - 1, i, d) => j = i + 1
    <2>1. CASE Len(b) = 1
      <3>1. i = 0 /\ d = 0
        BY <1>3, <2>1 DEF Deepest
      <3>2. Nibbles(0) = <<8, 0>>
        BY DEF Nibbles
      <3> QED
        BY <1>1, <2>1, <3>1, <3>2
    <2>2. CASE Len(b) = 129 /\ i = 128
      <3>1. d = 2
        BY <1>3, <2>2 DEF Deepest
      <3>2. Len(Nibbles(i)) = 4 /\ Nibbles(i)[1] = 8 /\ Nibbles(i)[2] = 1
        <4>1. i \in 0 .. 255 /\ i >= 128
          BY <2>2
        <4> QED
          BY <4>1, NibblesType, Zenon
      <3>3. ASSUME NEW j \in DOMAIN b, Under(j - 1, i, d) PROVE j = i + 1
        <4>1. j - 1 \in 0 .. 255 /\ Nibbles(j - 1)[1] = 8 /\ Nibbles(j - 1)[2] = 1
          <5>1. 1 \in 1 .. d /\ 2 \in 1 .. d
            BY <3>1
          <5>2. Nibbles(j - 1)[1] = Nibbles(i)[1] /\ Nibbles(j - 1)[2] = Nibbles(i)[2]
            BY <3>3, <5>1, Zenon DEF Under
          <5>3. j - 1 \in 0 .. 255
            BY <1>1, <3>3, Zenon
          <5> QED
            BY <3>2, <5>2, <5>3, Zenon
        <4>2. j - 1 # 0
          <5>1. Nibbles(0)[2] = 0
            BY DEF Nibbles
          <5>2. SUFFICES ASSUME j - 1 = 0 PROVE FALSE
            OBVIOUS
          <5>3. Nibbles(j - 1)[2] = Nibbles(0)[2]
            BY <5>2
          <5> QED
            BY <4>1, <5>1, <5>3
        <4>3. ~(j - 1 < 128)
          <5>1. \A x \in 0 .. 255 : x < 128 => x \div 16 # 8
            OBVIOUS
          <5>2. j - 1 < 128 => Nibbles(j - 1)[1] = (j - 1) \div 16
            BY <4>1, <4>2, NibblesType, Zenon
          <5> QED
            BY <4>1, <5>1, <5>2
        <4> QED
          BY <1>1, <2>2, <4>1, <4>3
      <3> QED
        BY <3>1, <3>2, <3>3
    <2> QED
      BY <2>1, <2>2 DEF Long
  <1>4. ASSUME d = Deepest(b) PROVE IsLeaf(T) /\ Len(NodeKey(T)) = 2
    <2>1. /\ own \in T /\ Nibbles(i) \in Seq(Nibble) /\ T # {} /\ IsFiniteSet(T)
          /\ \A e \in T : e[1] \in Seq(Nibble) /\ Len(e[1]) <= 4
      BY <1>3, <1>4, NodeAtFacts, ZenonT(90)
    <2>a. own[1] = p
      OBVIOUS
    <2>2. ASSUME NEW e \in T PROVE e = own
      <3>1. PICK j \in DOMAIN b : Under(j - 1, i, d) /\ e = <<Drop(Nibbles(j - 1), d), b[j]>>
        BY <2>2 DEF NodeAt
      <3>2. j = i + 1 /\ j - 1 = i
        <4>1. j = i + 1
          BY <1>3, <1>4, <3>1, Zenon
        <4>2. \A x \in 0 .. 255 : (x + 1) - 1 = x
          OBVIOUS
        <4> QED
          BY <1>1, <4>1, <4>2, Zenon
      <3> QED
        BY <3>1, <3>2
    <2> HIDE DEF own
    <2>3. T = {own}
      BY <2>1, <2>2
    <2>4. IsLeaf(T)
      BY <2>3, FS_Singleton DEF IsLeaf
    <2>5. NodeKey(T) = p
      <3> HIDE DEF T, p
      <3> QED
        BY <2>1, <2>a, <2>4, NodeKeyFacts
    <2>6. Len(p) = 2
      BY <1>3, <1>4, <2>1, DropFacts
    <2> QED
      BY <2>4, <2>5, <2>6
  <1> QED
    BY <1>2, <1>4

-----------------------------------------------------------------------------
(* Generation and verification visit the same nodes *)

\* st are consecutive nodes on the way to index i, f their depths; only the last
\* may be a leaf.
Trail(st, f, b, i) ==
    /\ st # <<>> /\ f \in Seq(0 .. 4) /\ Len(f) = Len(st)
    /\ \A k \in 1 .. Len(st) : f[k] \in 0 .. Len(Nibbles(i)) /\ st[k] = NodeAt(b, i, f[k])
    /\ \A k \in 1 .. Len(st) - 1 : ~IsLeaf(st[k]) /\ f[k + 1] = f[k] + Skip(st[k])

\* The nodes there are on the way.
Nodes(b, i) == {NodeAt(b, i, d) : d \in 0 .. 4}

\* While the nodes are collected they lead from the root to the present one.
Collects(st, T, p, b, i) ==
    /\ st \in Seq(Nodes(b, i)) /\ T \in Nodes(b, i)
    /\ \E f : Trail(Append(st, T), f, b, i) /\ f[1] = 0 /\ p = Drop(Nibbles(i), f[Len(f)])
Collecting == Collects(stack, node, path, block, asked)

\* In verification they lead from the node that is looked for to the leaf.
Follows(st, T, p, b, i) ==
    /\ st \in Seq(Nodes(b, i))
    /\ \E f : /\ Trail(st, f, b, i) /\ IsLeaf(st[Len(st)]) /\ T = st[1]
              /\ p = Drop(Nibbles(i), f[1]) /\ (Long(b, i) => f[1] <= Deepest(b))
Following == Follows(stack, node, path, block, index)

CInv ==
    /\ pc \in {"get_block", "get_transaction"} => stack = <<>>
    /\ pc = "walk" /\ asked < Len(block) => Collecting
    /\ pc = "verify" /\ index = asked /\ index < Len(block) => Following
    /\ OwnProofsVerify

\* The step from a node that is not a leaf to the next one.
LEMMA NextNode ==
    ASSUME NEW b \in Blocks, NEW i \in 0 .. Len(b) - 1, NEW d \in 0 .. Len(Nibbles(i)),
           NEW T, T = NodeAt(b, i, d), NEW p, p = Drop(Nibbles(i), d), ~IsLeaf(T)
    PROVE  /\ d + Skip(T) \in 0 .. Len(Nibbles(i)) /\ d + Skip(T) \in 0 .. 4
           /\ Skip(T) \in Nat
           /\ IsBranch(T) => /\ p # <<>> /\ Child(T, p[1]) = NodeAt(b, i, d + Skip(T))
                             /\ Tail(p) = Drop(Nibbles(i), d + Skip(T))
           /\ ~IsBranch(T) => /\ Below(T) = NodeAt(b, i, d + Skip(T))
                              /\ Drop(p, Len(NodeKey(T))) = Drop(Nibbles(i), d + Skip(T))
  <1>1. d \in 0 .. 4 /\ Len(Nibbles(i)) \in 2 .. 4
    BY NodeAtFacts, ZenonT(90)
  <1>2. \A n \in 2 .. 4 : \A x \in 0 .. n : x \in 0 .. 4 /\ (x # n => x < n)
    OBVIOUS
  <1>3. CASE IsBranch(T)
    <2>1. Skip(T) = 1
      BY <1>3 DEF Skip
    <2>2. d # Len(Nibbles(i))
      BY EndIsLeaf
    <2>3. d < Len(Nibbles(i))
      BY <1>1, <1>2, <2>2, Zenon
    <2>4. /\ Drop(Nibbles(i), d) # <<>> /\ Drop(Nibbles(i), d)[1] = Nibbles(i)[d + 1]
          /\ Tail(Drop(Nibbles(i), d)) = Drop(Nibbles(i), d + 1)
          /\ Child(NodeAt(b, i, d), Nibbles(i)[d + 1]) = NodeAt(b, i, d + 1)
          /\ d + 1 \in 0 .. Len(Nibbles(i))
      BY <1>1, <2>3, ChildNode
    <2>5. d + 1 \in 0 .. 4
      BY <1>1, <1>2, <2>4, Zenon
    <2> QED
      BY <1>3, <2>1, <2>4, <2>5
  <1>4. CASE ~IsBranch(T)
    <2>1. Skip(T) = Len(NodeKey(T))
      BY <1>4 DEF Skip
    <2> DEFINE n == Len(NodeKey(T))
    <2>2. /\ n \in Nat /\ d + n \in 0 .. Len(Nibbles(i))
          /\ Drop(p, n) = Drop(Nibbles(i), d + n) /\ Below(T) = NodeAt(b, i, d + n)
      <3>1. Leads(b, i, d, T, n, p)
        BY BelowNode, Zenon
      <3> QED
        BY <3>1 DEF Leads
    <2>3. d + n \in 0 .. 4
      <3> HIDE DEF n
      <3> QED
        BY <1>1, <1>2, <2>2, Zenon
    <2> QED
      BY <1>4, <2>1, <2>2, <2>3
  <1> QED
    BY <1>3, <1>4

\* A trail goes on from its last node.
LEMMA TrailGrows ==
    ASSUME NEW b \in Blocks, NEW i \in 0 .. Len(b) - 1,
           NEW st \in Seq(Nodes(b, i)), NEW T \in Nodes(b, i), NEW f,
           Trail(Append(st, T), f, b, i), ~IsLeaf(T),
           NEW d, d = f[Len(f)] + Skip(T), d \in 0 .. Len(Nibbles(i)), d \in 0 .. 4
    PROVE  /\ Append(st, T) \in Seq(Nodes(b, i)) /\ NodeAt(b, i, d) \in Nodes(b, i)
           /\ \E g : /\ Trail(Append(Append(st, T), NodeAt(b, i, d)), g, b, i)
                     /\ g[1] = f[1] /\ g[Len(g)] = d
  <1> DEFINE n == Len(st)
             s1 == Append(st, T)
             M == NodeAt(b, i, d)
             s2 == Append(s1, M)
             g == Append(f, d)
  <1>1. M \in Nodes(b, i)
    BY DEF Nodes
  <1> HIDE DEF M
  <1>2. n \in Nat /\ s1 \in Seq(Nodes(b, i)) /\ Len(s1) = n + 1 /\ s1[n + 1] = T
    OBVIOUS
  <1>3. /\ f \in Seq(0 .. 4) /\ Len(f) = n + 1
        /\ \A k \in 1 .. n + 1 : f[k] \in 0 .. Len(Nibbles(i)) /\ s1[k] = NodeAt(b, i, f[k])
        /\ \A k \in 1 .. (n + 1) - 1 : ~IsLeaf(s1[k]) /\ f[k + 1] = f[k] + Skip(s1[k])
    BY <1>2 DEF Trail
  <1> HIDE DEF s1, n
  <1>4. /\ s2 \in Seq(Nodes(b, i)) /\ Len(s2) = n + 2 /\ s2[n + 2] = M /\ s2 # <<>>
        /\ \A k \in 1 .. n + 1 : s2[k] = s1[k]
    BY <1>1, <1>2
  <1>5. /\ g \in Seq(0 .. 4) /\ Len(g) = n + 2 /\ g[n + 2] = d
        /\ \A k \in 1 .. n + 1 : g[k] = f[k]
    BY <1>2, <1>3
  <1> HIDE DEF s2, g
  <1>6. ASSUME NEW k \in 1 .. n + 2
        PROVE  g[k] \in 0 .. Len(Nibbles(i)) /\ s2[k] = NodeAt(b, i, g[k])
    <2>1. CASE k = n + 2
      BY <1>4, <1>5, <2>1 DEF M
    <2>2. CASE k # n + 2
      <3>1. k \in 1 .. n + 1
        BY <1>2, <2>2
      <3> QED
        BY <1>3, <1>4, <1>5, <3>1
    <2> QED
      BY <2>1, <2>2
  <1>7. ASSUME NEW k \in 1 .. (n + 2) - 1
        PROVE  ~IsLeaf(s2[k]) /\ g[k + 1] = g[k] + Skip(s2[k])
    <2>1. CASE k = n + 1
      <3>1. s2[k] = T /\ g[k] = f[n + 1] /\ g[k + 1] = d
        <4>1. k \in 1 .. n + 1 /\ k + 1 = n + 2
          BY <1>2, <2>1
        <4> QED
          BY <1>2, <1>4, <1>5, <2>1, <4>1
      <3> QED
        BY <1>3, <3>1
    <2>2. CASE k # n + 1
      <3>1. k \in 1 .. (n + 1) - 1 /\ k \in 1 .. n + 1 /\ k + 1 \in 1 .. n + 1
        BY <1>2, <2>2
      <3> QED
        BY <1>3, <1>4, <1>5, <3>1
    <2> QED
      BY <2>1, <2>2
  <1>8. Trail(s2, g, b, i)
    BY <1>4, <1>5, <1>6, <1>7 DEF Trail
  <1>9. g[1] = f[1] /\ g[Len(g)] = d
    BY <1>2, <1>5
  <1>10. Trail(Append(s1, M), g, b, i)
    BY <1>8 DEF s2
  <1> QED
    BY <1>1, <1>2, <1>9, <1>10 DEF s1, M

\* A trail goes on without its first node.
LEMMA TrailShrinks ==
    ASSUME NEW b \in Blocks, NEW i \in 0 .. Len(b) - 1,
           NEW st \in Seq(Nodes(b, i)), NEW f, Trail(st, f, b, i),
           IsLeaf(st[Len(st)]), ~IsLeaf(st[1])
    PROVE  /\ Len(st) # 1 /\ Tail(st) \in Seq(Nodes(b, i))
           /\ \E g : /\ Trail(Tail(st), g, b, i) /\ IsLeaf(Tail(st)[Len(Tail(st))])
                     /\ g[1] = f[1] + Skip(st[1]) /\ Tail(st)[1] = NodeAt(b, i, g[1])
  <1> DEFINE n == Len(st)
             s == Tail(st)
             g == Tail(f)
  <1>1. /\ st # <<>> /\ f \in Seq(0 .. 4) /\ Len(f) = n
        /\ \A k \in 1 .. n : f[k] \in 0 .. Len(Nibbles(i)) /\ st[k] = NodeAt(b, i, f[k])
        /\ \A k \in 1 .. n - 1 : ~IsLeaf(st[k]) /\ f[k + 1] = f[k] + Skip(st[k])
    BY DEF Trail
  <1>2. n \in Nat /\ n > 1
    <2>1. n \in Nat /\ n # 0 /\ n # 1
      BY <1>1, EmptySeq
    <2> QED
      BY <2>1
  <1>3. /\ s \in Seq(Nodes(b, i)) /\ Len(s) = n - 1 /\ \A k \in 1 .. n - 1 : s[k] = st[k + 1]
        /\ s # <<>>
    <2>1. /\ s \in Seq(Nodes(b, i)) /\ Len(s) = n - 1 /\ \A k \in 1 .. n - 1 : s[k] = st[k + 1]
      BY <1>1, <1>2, HeadTailProperties
    <2>2. s # <<>>
      <3> HIDE DEF s
      <3> QED
        BY <1>2, <2>1, EmptySeq
    <2> QED
      BY <2>1, <2>2
  <1>4. g \in Seq(0 .. 4) /\ Len(g) = n - 1 /\ \A k \in 1 .. n - 1 : g[k] = f[k + 1]
    <2>1. f # <<>>
      BY <1>1, <1>2, EmptySeq
    <2> QED
      BY <1>1, <1>2, <2>1, HeadTailProperties
  <1> HIDE DEF n, s, g
  <1>5. ASSUME NEW k \in 1 .. n - 1
        PROVE  g[k] \in 0 .. Len(Nibbles(i)) /\ s[k] = NodeAt(b, i, g[k])
    <2>1. k + 1 \in 1 .. n
      BY <1>2
    <2> QED
      BY <1>1, <1>3, <1>4, <2>1
  <1>6. ASSUME NEW k \in 1 .. (n - 1) - 1
        PROVE  ~IsLeaf(s[k]) /\ g[k + 1] = g[k] + Skip(s[k])
    <2>1. k + 1 \in 1 .. n - 1 /\ k \in 1 .. n - 1
      BY <1>2
    <2> QED
      BY <1>1, <1>3, <1>4, <2>1
  <1>7. Trail(s, g, b, i)
    BY <1>3, <1>4, <1>5, <1>6 DEF Trail
  <1>8. s[Len(s)] = st[n]
    <2>1. n - 1 \in 1 .. n - 1 /\ (n - 1) + 1 = n
      BY <1>2
    <2> QED
      BY <1>3, <2>1
  <1>9. g[1] = f[1] + Skip(st[1]) /\ s[1] = NodeAt(b, i, g[1])
    <2>1. 1 \in 1 .. n - 1 /\ 1 + 1 = 2
      BY <1>2
    <2> QED
      BY <1>1, <1>4, <1>5, <2>1
  <1> QED
    BY <1>2, <1>3, <1>7, <1>8, <1>9 DEF n, s

\* A key the path begins with is shared.
LEMMA PrefixShared ==
    ASSUME NEW p \in Seq(Nibble), NEW key \in Seq(Nibble), \A k \in 1 .. Len(key) : p[k] = key[k]
    PROVE  shared_prefix_length(p, key) = Len(key)
  <1>1. {i \in 1 .. Len(key) : i <= Len(p) /\ p[i] # key[i]} = {}
    OBVIOUS
  <1> QED
    BY <1>1 DEF shared_prefix_length

\* The nodes are collected from the root on.
LEMMA CollectingStarts ==
    ASSUME VInv, stack = <<>>, CheckRoot, pc' = "walk", asked' < Len(block)
    PROVE  Collecting'
  <1>1. /\ block \in Blocks /\ asked' \in 0 .. Len(block) - 1 /\ Len(block) \in 1 .. 255
        /\ node' = Trie(block) /\ path' = Nibbles(asked') /\ UNCHANGED <<block, stack>>
    <2>1. /\ pc = "get_transaction" /\ asked' \in 0 .. Len(block) /\ UNCHANGED <<block, stack>>
          /\ RootMatches /\ node' = trie /\ path' = Nibbles(asked')
      BY DEF CheckRoot, Raise
    <2>2. block \in Blocks
      BY <2>1 DEF VInv
    <2>3. Len(block) \in 1 .. 255
      BY <2>2, BlockFacts
    <2>4. asked' \in 0 .. Len(block) - 1
      <3>1. \A n \in 1 .. 255 : \A x \in 0 .. n : x < n => x \in 0 .. n - 1
        OBVIOUS
      <3> QED
        BY <2>1, <2>3, <3>1
    <2> QED
      BY <2>1, <2>2, <2>3, <2>4 DEF RootMatches
  <1>2. PICK a : a = asked'
    OBVIOUS
  <1>3. PICK T : T = Trie(block)
    OBVIOUS
  <1>4. T = NodeAt(block, a, 0) /\ a \in 0 .. Len(block) - 1
    BY <1>1, <1>2, <1>3, RootNode
  <1>5. 0 \in 0 .. Len(Nibbles(a)) /\ Nibbles(a) \in Seq(Nibble) /\ 0 \in 0 .. 4
    <2>1. a \in 0 .. 255
      <3>1. \A n \in 1 .. 255 : \A x \in 0 .. n - 1 : x \in 0 .. 255
        OBVIOUS
      <3> QED
        BY <1>1, <1>4, <3>1
    <2>2. Nibbles(a) \in Seq(Nibble) /\ Len(Nibbles(a)) \in 2 .. 4
      BY <2>1, KeyType, Zenon
    <2> QED
      BY <2>2
  <1>6. T \in Nodes(block, a) /\ <<>> \in Seq(Nodes(block, a))
    BY <1>4, <1>5 DEF Nodes
  <1> DEFINE s == <<T>>
             f == <<0>>
  <1>7. Append(<<>>, T) = s /\ s # <<>> /\ Len(s) = 1 /\ s[1] = T
    OBVIOUS
  <1>8. f \in Seq(0 .. 4) /\ Len(f) = 1 /\ f[1] = 0
    BY <1>5
  <1> HIDE DEF s, f
  <1>9. Trail(s, f, block, a)
    <2>1. \A k \in 1 .. 1 : k = 1
      OBVIOUS
    <2>2. \A k \in 1 .. 1 - 1 : FALSE
      OBVIOUS
    <2> QED
      BY <1>4, <1>5, <1>7, <1>8, <2>1, <2>2 DEF Trail
  <1>10. Drop(Nibbles(a), 0) = Nibbles(a)
    BY <1>5, SubSeqFull DEF Drop
  <1>11. Collects(<<>>, T, Nibbles(a), block, a)
    <2>1. Trail(Append(<<>>, T), f, block, a) /\ Nibbles(a) = Drop(Nibbles(a), f[Len(f)])
      BY <1>7, <1>8, <1>9, <1>10
    <2> QED
      BY <1>6, <1>8, <2>1 DEF Collects
  <1>12. Collects(stack', node', path', block', asked')
    BY <1>1, <1>2, <1>3, <1>11
  <1> QED
    BY <1>12 DEF Collecting

\* Where collecting is: at a node of the path, with what is left of the key.
LEMMA CollectingAt ==
    ASSUME NEW b \in Blocks, NEW i \in 0 .. Len(b) - 1, NEW st, NEW T, NEW p, NEW f,
           st \in Seq(Nodes(b, i)), T \in Nodes(b, i), Trail(Append(st, T), f, b, i),
           p = Drop(Nibbles(i), f[Len(f)])
    PROVE  \E d \in 0 .. Len(Nibbles(i)) :
              d = f[Len(f)] /\ T = NodeAt(b, i, d) /\ p = Drop(Nibbles(i), d)
  <1> DEFINE s == Append(st, T)
             n == Len(st)
  <1>1. n \in Nat /\ Len(s) = n + 1 /\ s[n + 1] = T
    OBVIOUS
  <1> HIDE DEF s, n
  <1>2. Len(f) = n + 1 /\ f[n + 1] \in 0 .. Len(Nibbles(i)) /\ s[n + 1] = NodeAt(b, i, f[n + 1])
    <2>1. n + 1 \in 1 .. n + 1
      BY <1>1
    <2> QED
      BY <1>1, <2>1 DEF Trail, s
  <1> QED
    BY <1>1, <1>2

\* Going down keeps the trail.
LEMMA CollectingGoesOn ==
    ASSUME VInv, Collecting, Descend, asked < Len(block)
    PROVE  Collecting'
  <1>1. /\ pc = "walk" /\ ~Stops /\ stack' = Append(stack, node) /\ UNCHANGED <<block, asked>>
        /\ IF IsBranch(node)
           THEN node' = Child(node, path[1]) /\ path' = Tail(path)
           ELSE node' = Below(node) /\ path' = Drop(path, Len(NodeKey(node)))
    BY DEF Descend
  <1>2. block \in Blocks /\ asked \in 0 .. Len(block) - 1
    <2>1. block \in Blocks /\ asked \in 0 .. Len(block)
      BY <1>1 DEF VInv
    <2>2. Len(block) \in 1 .. 255
      BY <2>1, BlockFacts
    <2>3. \A n \in 1 .. 255 : \A x \in 0 .. n : x < n => x \in 0 .. n - 1
      OBVIOUS
    <2> QED
      BY <2>1, <2>2, <2>3
  <1>3. ~IsLeaf(node)
    <2>1. Cardinality(node) > 1
      BY <1>1 DEF Stops
    <2> QED
      BY <2>1 DEF IsLeaf
  <1>4. PICK f : /\ stack \in Seq(Nodes(block, asked)) /\ node \in Nodes(block, asked)
                 /\ Trail(Append(stack, node), f, block, asked) /\ f[1] = 0
                 /\ path = Drop(Nibbles(asked), f[Len(f)])
    BY DEF Collecting, Collects
  <1>5. PICK d \in 0 .. Len(Nibbles(asked)) :
           d = f[Len(f)] /\ node = NodeAt(block, asked, d) /\ path = Drop(Nibbles(asked), d)
    BY <1>2, <1>4, CollectingAt
  <1>6. PICK e : e = d + Skip(node)
    OBVIOUS
  <1>7. /\ e \in 0 .. Len(Nibbles(asked)) /\ e \in 0 .. 4
        /\ node' = NodeAt(block, asked, e) /\ path' = Drop(Nibbles(asked), e)
    <2>1. /\ d + Skip(node) \in 0 .. Len(Nibbles(asked)) /\ d + Skip(node) \in 0 .. 4
          /\ IsBranch(node) => /\ Child(node, path[1]) = NodeAt(block, asked, d + Skip(node))
                               /\ Tail(path) = Drop(Nibbles(asked), d + Skip(node))
          /\ ~IsBranch(node) => /\ Below(node) = NodeAt(block, asked, d + Skip(node))
                                /\ Drop(path, Len(NodeKey(node))) = Drop(Nibbles(asked), d + Skip(node))
      BY <1>2, <1>3, <1>5, NextNode, SMTT(30)
    <2> QED
      BY <1>1, <1>6, <2>1
  <1>8. /\ Append(stack, node) \in Seq(Nodes(block, asked))
        /\ NodeAt(block, asked, e) \in Nodes(block, asked)
        /\ \E g : /\ Trail(Append(Append(stack, node), NodeAt(block, asked, e)), g, block, asked)
                  /\ g[1] = f[1] /\ g[Len(g)] = e
    <2>1. e = f[Len(f)] + Skip(node)
      BY <1>5, <1>6
    <2> QED
      BY <1>2, <1>3, <1>4, <1>7, <2>1, TrailGrows
  <1>9. Collects(Append(stack, node), NodeAt(block, asked, e), Drop(Nibbles(asked), e), block, asked)
    <2>1. PICK g : /\ Trail(Append(Append(stack, node), NodeAt(block, asked, e)), g, block, asked)
                   /\ g[1] = f[1] /\ g[Len(g)] = e
      BY <1>8
    <2> QED
      BY <1>4, <1>8, <2>1 DEF Collects
  <1>10. Collects(stack', node', path', block', asked')
    BY <1>1, <1>7, <1>9
  <1> QED
    BY <1>10 DEF Collecting

\* Collecting stops at the leaf: a blank node or a key that diverges would mean
\* that the transaction is not in the trie.
LEMMA FollowingStarts ==
    ASSUME VInv, Collecting, Deliver, index' = asked, asked < Len(block)
    PROVE  Following'
  <1>1. /\ pc = "walk" /\ Stops /\ UNCHANGED <<block, asked>> /\ node' = Trie(block)
        /\ stack' = (IF node = {} THEN stack ELSE Append(stack, node)) /\ path' = Nibbles(index')
    BY DEF Deliver
  <1>2. block \in Blocks /\ asked \in 0 .. Len(block) - 1
    <2>1. block \in Blocks /\ asked \in 0 .. Len(block)
      BY <1>1 DEF VInv
    <2>2. Len(block) \in 1 .. 255
      BY <2>1, BlockFacts
    <2>3. \A n \in 1 .. 255 : \A x \in 0 .. n : x < n => x \in 0 .. n - 1
      OBVIOUS
    <2> QED
      BY <2>1, <2>2, <2>3
  <1>3. PICK f : /\ stack \in Seq(Nodes(block, asked)) /\ node \in Nodes(block, asked)
                 /\ Trail(Append(stack, node), f, block, asked) /\ f[1] = 0
                 /\ path = Drop(Nibbles(asked), f[Len(f)])
    BY DEF Collecting, Collects
  <1>4. PICK d \in 0 .. Len(Nibbles(asked)) :
           d = f[Len(f)] /\ node = NodeAt(block, asked, d) /\ path = Drop(Nibbles(asked), d)
    BY <1>2, <1>3, CollectingAt
  <1>5. node # {} /\ IsFiniteSet(node) /\ Nibbles(asked) \in Seq(Nibble)
    BY <1>2, <1>4, NodeAtFacts
  <1>6. IsLeaf(node)
    <2>1. SUFFICES ASSUME Cardinality(node) # 1 PROVE FALSE
      BY DEF IsLeaf
    <2>2. Cardinality(node) \in Nat /\ Cardinality(node) # 0
      BY <1>5, FS_CardinalityType, FS_EmptySet
    <2>3. Cardinality(node) > 1
      BY <2>1, <2>2
    <2>4. ~IsPrefix(NodeKey(node), path)
      BY <1>1, <2>3 DEF Stops
    <2>5. Leads(block, asked, d, node, Len(NodeKey(node)), path)
      BY <1>2, <1>4, BelowNode, Zenon
    <2> QED
      BY <2>4, <2>5 DEF Leads
  <1> DEFINE s == Append(stack, node)
             n == Len(stack)
  <1>7. n \in Nat /\ s \in Seq(Nodes(block, asked)) /\ Len(s) = n + 1 /\ s[n + 1] = node
    BY <1>3
  <1>8. stack' = s
    BY <1>1, <1>5
  <1>t. Trail(s, f, block, asked)
    BY <1>3
  <1> HIDE DEF s, n
  <1>9. s[1] = Trie(block)
    <2>1. 1 \in 1 .. Len(s)
      BY <1>7
    <2>2. s[1] = NodeAt(block, asked, f[1])
      BY <1>t, <2>1 DEF Trail
    <2> QED
      BY <1>2, <1>3, <2>2, RootNode
  <1>10. Drop(Nibbles(asked), f[1]) = Nibbles(asked)
    BY <1>3, <1>5, SubSeqFull DEF Drop
  <1>11. f[1] <= Deepest(block)
    BY <1>3 DEF Deepest
  <1>12. Follows(s, Trie(block), Nibbles(asked), block, asked)
    <2>1. IsLeaf(s[Len(s)])
      BY <1>6, <1>7
    <2> QED
      BY <1>7, <1>9, <1>10, <1>11, <1>t, <2>1 DEF Follows
  <1>13. Follows(stack', node', path', block', index')
    BY <1>1, <1>8, <1>12
  <1> QED
    BY <1>13 DEF Following

\* Where verification is.
LEMMA FollowingAt ==
    ASSUME NEW b \in Blocks, NEW i, NEW st, NEW T, NEW p, NEW f,
           st \in Seq(Nodes(b, i)), Trail(st, f, b, i), T = st[1], p = Drop(Nibbles(i), f[1])
    PROVE  /\ f[1] \in 0 .. Len(Nibbles(i)) /\ T = NodeAt(b, i, f[1])
           /\ Len(st) \in Nat \ {0}
  <1>1. Len(st) \in Nat \ {0}
    <2>1. st # <<>>
      BY DEF Trail
    <2> QED
      BY <2>1, EmptySeq
  <1>2. 1 \in 1 .. Len(st)
    BY <1>1
  <1> QED
    BY <1>1, <1>2 DEF Trail

\* A step of verification to the next node keeps following.
LEMMA FollowingGoesOn ==
    ASSUME NEW b \in Blocks, NEW i \in 0 .. Len(b) - 1, NEW st, NEW T, NEW p,
           Follows(st, T, p, b, i), ~IsLeaf(T)
    PROVE  /\ Len(st) # 1
           /\ IsBranch(T) => /\ p # <<>> /\ Child(T, p[1]) # {}
                             /\ Follows(Tail(st), Child(T, p[1]), Tail(p), b, i)
           /\ ~IsBranch(T) => Follows(Tail(st), Below(T), Drop(p, Len(NodeKey(T))), b, i)
  <1>1. PICK f : /\ st \in Seq(Nodes(b, i)) /\ Trail(st, f, b, i) /\ IsLeaf(st[Len(st)])
                 /\ T = st[1] /\ p = Drop(Nibbles(i), f[1]) /\ (Long(b, i) => f[1] <= Deepest(b))
    BY DEF Follows
  <1>2. PICK d : d = f[1]
    OBVIOUS
  <1>3. d \in 0 .. Len(Nibbles(i)) /\ T = NodeAt(b, i, d) /\ p = Drop(Nibbles(i), d)
    BY <1>1, <1>2, FollowingAt
  <1>4. PICK e : e = d + Skip(T)
    OBVIOUS
  <1>5. /\ e \in 0 .. Len(Nibbles(i)) /\ Skip(T) \in Nat
        /\ IsBranch(T) => /\ p # <<>> /\ Child(T, p[1]) = NodeAt(b, i, e)
                          /\ Tail(p) = Drop(Nibbles(i), e)
        /\ ~IsBranch(T) => /\ Below(T) = NodeAt(b, i, e)
                           /\ Drop(p, Len(NodeKey(T))) = Drop(Nibbles(i), e)
    <2>1. /\ d + Skip(T) \in 0 .. Len(Nibbles(i)) /\ Skip(T) \in Nat
          /\ IsBranch(T) => /\ p # <<>> /\ Child(T, p[1]) = NodeAt(b, i, d + Skip(T))
                            /\ Tail(p) = Drop(Nibbles(i), d + Skip(T))
          /\ ~IsBranch(T) => /\ Below(T) = NodeAt(b, i, d + Skip(T))
                             /\ Drop(p, Len(NodeKey(T))) = Drop(Nibbles(i), d + Skip(T))
      BY <1>3, NextNode
    <2> QED
      BY <1>4, <2>1
  <1>6. /\ Len(st) # 1 /\ Tail(st) \in Seq(Nodes(b, i))
        /\ \E g : /\ Trail(Tail(st), g, b, i) /\ IsLeaf(Tail(st)[Len(Tail(st))])
                  /\ g[1] = f[1] + Skip(st[1]) /\ Tail(st)[1] = NodeAt(b, i, g[1])
    BY <1>1, TrailShrinks
  <1>7. PICK g : /\ Trail(Tail(st), g, b, i) /\ IsLeaf(Tail(st)[Len(Tail(st))])
                 /\ g[1] = e /\ Tail(st)[1] = NodeAt(b, i, e)
    BY <1>1, <1>2, <1>4, <1>6
  <1>8. NodeAt(b, i, e) # {}
    BY <1>5, NodeAtFacts
  <1>9. Long(b, i) => e <= Deepest(b)
    <2>1. SUFFICES ASSUME Long(b, i) PROVE e <= Deepest(b)
      OBVIOUS
    <2>2. Deepest(b) \in Nat /\ d \in Nat /\ d <= Deepest(b)
      <3>1. Len(Nibbles(i)) \in 2 .. 4
        BY <1>3, NodeAtFacts
      <3>2. \A n \in 2 .. 4 : \A x \in 0 .. n : x \in Nat
        OBVIOUS
      <3>3. d \in Nat
        BY <1>3, <3>1, <3>2, Zenon
      <3> QED
        BY <1>1, <1>2, <2>1, <3>3 DEF Deepest
    <2>3. d \in 0 .. Deepest(b)
      BY <2>2
    <2>4. d # Deepest(b) /\ IsBranch(T)
      BY <1>3, <2>1, <2>3, LongPaths
    <2>5. e = d + 1
      BY <1>4, <2>4 DEF Skip
    <2> QED
      BY <2>2, <2>4, <2>5
  <1>10. Follows(Tail(st), NodeAt(b, i, e), Drop(Nibbles(i), e), b, i)
    BY <1>6, <1>7, <1>9 DEF Follows
  <1> QED
    BY <1>5, <1>6, <1>8, <1>10

\* At a leaf the stack ends, and its key is what is left of the path; it is two
\* nibbles long exactly in the cases of Long.
LEMMA FollowingEnds ==
    ASSUME NEW b \in Blocks, NEW i \in 0 .. Len(b) - 1, NEW st, NEW T, NEW p,
           Follows(st, T, p, b, i), ~IsBranch(T)
    PROVE  /\ IsLeaf(T) => Len(st) = 1 /\ NodeKey(T) = p
           /\ Long(b, i) => IsLeaf(T) /\ Len(NodeKey(T)) = 2
           /\ ~Long(b, i) => Len(NodeKey(T)) <= 1
           /\ NodeKey(T) \in Seq(Nibble) /\ p \in Seq(Nibble)
           /\ \A k \in 1 .. Len(NodeKey(T)) : p[k] = NodeKey(T)[k]
  <1>1. PICK f : /\ st \in Seq(Nodes(b, i)) /\ Trail(st, f, b, i) /\ IsLeaf(st[Len(st)])
                 /\ T = st[1] /\ p = Drop(Nibbles(i), f[1]) /\ (Long(b, i) => f[1] <= Deepest(b))
    BY DEF Follows
  <1>2. PICK d : d = f[1]
    OBVIOUS
  <1>3. /\ d \in 0 .. Len(Nibbles(i)) /\ T = NodeAt(b, i, d) /\ p = Drop(Nibbles(i), d)
        /\ Len(st) \in Nat \ {0}
    BY <1>1, <1>2, FollowingAt
  <1>4. IsLeaf(T) => Len(st) = 1
    <2>1. \A n \in Nat \ {0} : n # 1 => 1 \in 1 .. n - 1
      OBVIOUS
    <2>2. Len(st) # 1 => 1 \in 1 .. Len(st) - 1
      BY <1>3, <2>1, Zenon
    <2> QED
      BY <1>1, <2>2 DEF Trail
  <1>5. Leads(b, i, d, T, Len(NodeKey(T)), p)
    BY <1>3, BelowNode, Zenon
  <1>6. ~Long(b, i) => Len(NodeKey(T)) <= 1
    BY <1>3, ShortPaths
  <1>7. ASSUME Long(b, i) PROVE IsLeaf(T) /\ Len(NodeKey(T)) = 2
    <2>1. d \in 0 .. Deepest(b)
      <3>1. Len(Nibbles(i)) \in 2 .. 4
        BY <1>3, NodeAtFacts
      <3>2. \A n \in 2 .. 4 : \A x \in 0 .. n : x \in Nat
        OBVIOUS
      <3>3. d \in Nat
        BY <1>3, <3>1, <3>2, Zenon
      <3> QED
        BY <1>1, <1>2, <1>7, <3>3 DEF Deepest
    <2> QED
      BY <1>3, <1>7, <2>1, LongPaths
  <1> QED
    BY <1>4, <1>5, <1>6, <1>7 DEF Leads

-----------------------------------------------------------------------------
(* Proofs of the program's own verify *)

\* What is known where the program verifies its own proof.
LEMMA OwnIndex ==
    ASSUME VInv, pc = "verify", index < Len(block)
    PROVE  block \in Blocks /\ index \in 0 .. Len(block) - 1
  <1>1. block \in Blocks /\ index \in 0 .. 255
    BY DEF VInv, Walked
  <1>2. Len(block) \in 1 .. 255
    BY <1>1, BlockFacts
  <1>3. \A n \in 1 .. 255 : \A x \in 0 .. 255 : x < n => x \in 0 .. n - 1
    OBVIOUS
  <1> QED
    BY <1>1, <1>2, <1>3, Zenon

\* A leaf is no branch.
LEMMA LeafNoBranch ==
    ASSUME NEW T, IsLeaf(T)
    PROVE  ~IsBranch(T)
  BY DEF IsLeaf, IsBranch

\* A branch of the program's own proof is passed.
LEMMA FollowBranch ==
    ASSUME VInv, Following, VerifyBranch, index < Len(block)
    PROVE  Following' /\ pc' = "verify"
  <1>1. /\ pc = "verify" /\ Head1 = node /\ IsBranch(node) /\ stack' = Tail(stack)
        /\ UNCHANGED <<block, index>>
        /\ IF path # <<>> /\ Child(node, path[1]) # {}
           THEN node' = Child(node, path[1]) /\ path' = Tail(path) /\ pc' = pc
           ELSE TRUE
    BY DEF VerifyBranch, NodeHolds
  <1>2. block \in Blocks /\ index \in 0 .. Len(block) - 1
    BY <1>1, OwnIndex
  <1>3. ~IsLeaf(node)
    BY <1>1, LeafNoBranch
  <1>4. Follows(stack, node, path, block, index)
    BY DEF Following
  <1>5. /\ path # <<>> /\ Child(node, path[1]) # {}
        /\ Follows(Tail(stack), Child(node, path[1]), Tail(path), block, index)
    BY <1>1, <1>2, <1>3, <1>4, FollowingGoesOn
  <1>6. node' = Child(node, path[1]) /\ path' = Tail(path) /\ pc' = "verify"
    BY <1>1, <1>5
  <1>7. Follows(stack', node', path', block', index')
    BY <1>1, <1>5, <1>6
  <1> QED
    BY <1>6, <1>7 DEF Following

\* What decode_compact makes of a node of the program's own proof.
LEMMA FollowDecoded ==
    ASSUME VInv, Following, pc = "verify", NodeHolds, ~IsBranch(node), index < Len(block)
    PROVE  /\ Long(block, index) => ~Decoded.ok
           /\ ~Long(block, index) => /\ Decoded.ok /\ Decoded.key = NodeKey(node)
                                     /\ Decoded.leaf <=> IsLeaf(node)
                                     /\ Shared = Len(NodeKey(node))
           /\ IsLeaf(node) => AtEnd /\ NodeKey(node) = path
           /\ Long(block, index) => IsLeaf(node)
           /\ ~IsLeaf(node) => ~AtEnd
  <1>1. block \in Blocks /\ index \in 0 .. Len(block) - 1 /\ Head1 = node
    BY OwnIndex DEF NodeHolds
  <1>2. Follows(stack, node, path, block, index)
    BY DEF Following
  <1>3. /\ IsLeaf(node) => Len(stack) = 1 /\ NodeKey(node) = path
        /\ Long(block, index) => IsLeaf(node) /\ Len(NodeKey(node)) = 2
        /\ ~Long(block, index) => Len(NodeKey(node)) <= 1
        /\ NodeKey(node) \in Seq(Nibble) /\ path \in Seq(Nibble)
        /\ \A k \in 1 .. Len(NodeKey(node)) : path[k] = NodeKey(node)[k]
    BY <1>1, <1>2, FollowingEnds
  <1>4. IsLeaf(node) \in BOOLEAN
    BY DEF IsLeaf
  <1>5. /\ Decoded.ok <=> Len(NodeKey(node)) <= 1
        /\ Len(NodeKey(node)) <= 1 => /\ Decoded.key = NodeKey(node)
                                      /\ Decoded.leaf <=> IsLeaf(node)
    <2>1. Decoded = decode_compact(RlpBytes(Compact(NodeKey(node), IsLeaf(node))))
      BY <1>1 DEF Decoded
    <2> QED
      BY <1>3, <1>4, <2>1, DecodeFacts, Zenon
  <1>6. ~(2 <= 1)
    OBVIOUS
  <1>7. Long(block, index) => ~Decoded.ok
    BY <1>3, <1>5, <1>6, Zenon
  <1>8. ~Long(block, index) => Decoded.ok /\ Decoded.key = NodeKey(node) /\ (Decoded.leaf <=> IsLeaf(node))
    BY <1>3, <1>5, Zenon
  <1>9. shared_prefix_length(path, NodeKey(node)) = Len(NodeKey(node))
    BY <1>3, PrefixShared
  <1>10. ~Long(block, index) => Shared = Len(NodeKey(node))
    BY <1>8, <1>9 DEF Shared
  <1>11. ~IsLeaf(node) => Len(stack) # 1
    BY <1>1, <1>2, FollowingGoesOn
  <1>12. IsLeaf(node) => AtEnd /\ NodeKey(node) = path
    BY <1>3 DEF AtEnd
  <1>13. ~IsLeaf(node) => ~AtEnd
    BY <1>11 DEF AtEnd
  <1> QED
    BY <1>3, <1>7, <1>8, <1>10, <1>12, <1>13, Zenon

\* A leaf two nibbles long is refused.
LEMMA FollowLong ==
    ASSUME VInv, Following, VerifyShortNode, index < Len(block), Long(block, index)
    PROVE  pc' = "rejected" /\ OwnProofsVerify'
  <1>1. pc = "verify" /\ NodeHolds /\ ~IsBranch(node) /\ UNCHANGED <<block, index>>
    BY DEF VerifyShortNode, NodeHolds
  <1>2. ~Decoded.ok
    BY <1>1, FollowDecoded
  <1>3. pc' = "rejected"
    BY <1>2 DEF VerifyShortNode, Reject
  <1>4. LongLeaf'
    BY <1>1 DEF Long, LongLeaf
  <1> QED
    BY <1>3, <1>4 DEF OwnProofsVerify

\* The leaf of a legacy transaction is accepted, the one of a typed transaction
\* refused.
LEMMA FollowLeaf ==
    ASSUME VInv, Following, VerifyShortNode, index < Len(block), ~Long(block, index), IsLeaf(node)
    PROVE  pc' \in {"accepted", "rejected"} /\ OwnProofsVerify'
  <1>1. /\ pc = "verify" /\ NodeHolds /\ ~IsBranch(node) /\ UNCHANGED <<block, index>>
        /\ Head1 = node
    BY DEF VerifyShortNode, NodeHolds
  <1>2. /\ Decoded.ok /\ Decoded.leaf /\ Decoded.key = NodeKey(node)
        /\ Shared = Len(NodeKey(node)) /\ AtEnd /\ NodeKey(node) = path
    BY <1>1, FollowDecoded
  <1>3. Follows(stack, node, path, block, index) /\ block \in Blocks /\ index \in 0 .. Len(block) - 1
    BY <1>1, OwnIndex DEF Following
  <1>4. path \in Seq(Nibble)
    BY <1>1, <1>3, FollowingEnds
  <1>5. Shared = Len(Decoded.key) /\ Shared >= Len(path)
    <2>1. Len(path) \in Nat
      BY <1>4
    <2>2. \A n \in Nat : n >= n
      OBVIOUS
    <2>3. Len(path) >= Len(path)
      BY <2>1, <2>2, Zenon
    <2> QED
      BY <1>2, <2>3, Zenon
  <1>6. LeafMatches /\ ~ExtensionMatches
    BY <1>2, <1>5 DEF LeafMatches, ExtensionMatches
  <1>7. node # {}
    BY FS_EmptySet DEF IsLeaf
  <1>8. PICK tx : tx = (CHOOSE e \in node : TRUE)[2]
    OBVIOUS
  <1>9. tx = block[index + 1]
    <2>1. (CHOOSE e \in node : TRUE) \in node
      BY <1>7
    <2> QED
      BY <1>1, <1>2, <1>6, <1>8, <2>1, LeafFound
  <1>10. IF Type[tx] = "0x0" THEN pc' = "accepted" ELSE pc' = "rejected"
    BY <1>1, <1>2, <1>6, <1>8 DEF VerifyShortNode, Reject
  <1>11. ~LongLeaf'
    BY <1>1 DEF Long, LongLeaf
  <1>12. pc' = "accepted" <=> Type[block'[index' + 1]] = "0x0"
    BY <1>1, <1>9, <1>10
  <1> QED
    BY <1>10, <1>11, <1>12 DEF OwnProofsVerify

\* An extension of the program's own proof is passed.
LEMMA FollowExtension ==
    ASSUME VInv, Following, VerifyShortNode, index < Len(block), ~IsLeaf(node)
    PROVE  Following' /\ pc' = "verify"
  <1>1. /\ pc = "verify" /\ NodeHolds /\ ~IsBranch(node) /\ UNCHANGED <<block, index>>
        /\ Head1 = node /\ stack' = Tail(stack)
    BY DEF VerifyShortNode, NodeHolds
  <1>2. /\ Decoded.ok /\ ~Decoded.leaf /\ Decoded.key = NodeKey(node)
        /\ Shared = Len(NodeKey(node)) /\ ~AtEnd
    BY <1>1, FollowDecoded
  <1>3. ExtensionMatches /\ ~LeafMatches
    BY <1>2 DEF ExtensionMatches, LeafMatches
  <1>4. node' = Below(node) /\ path' = Drop(path, Len(NodeKey(node))) /\ pc' = "verify"
    BY <1>1, <1>2, <1>3 DEF VerifyShortNode
  <1>5. Follows(stack, node, path, block, index) /\ block \in Blocks /\ index \in 0 .. Len(block) - 1
    BY <1>1, OwnIndex DEF Following
  <1>6. Follows(Tail(stack), Below(node), Drop(path, Len(NodeKey(node))), block, index)
    BY <1>1, <1>5, FollowingGoesOn
  <1>7. Follows(stack', node', path', block', index')
    BY <1>1, <1>4, <1>6
  <1> QED
    BY <1>4, <1>7 DEF Following

\* The program's own proof never ends early or at a node with another hash.
LEMMA FollowHolds ==
    ASSUME Following, block = chain
    PROVE  NodeHolds
  <1>1. stack # <<>> /\ node = stack[1]
    BY DEF Following, Follows, Trail
  <1> QED
    BY <1>1 DEF NodeHolds, Head1

\* CInv is kept by the steps of verification.
LEMMA OwnVerification ==
    ASSUME VInv, CInv, VerifyBranch \/ VerifyShortNode \/ VerifyFails
    PROVE  CInv'
  <1>1. /\ pc = "verify" /\ UNCHANGED <<chain, block, asked, index>>
        /\ pc' \in {"verify", "accepted", "rejected"}
    BY DEF VerifyBranch, VerifyShortNode, VerifyFails, Reject
  <1>2. SUFFICES ASSUME index = asked, index < Len(block)
                 PROVE  (pc' = "verify" => Following') /\ OwnProofsVerify'
    <2>1. ~(index = asked /\ index < Len(block)) => OwnProofsVerify'
      BY <1>1 DEF OwnProofsVerify
    <2> QED
      BY <1>1, <2>1 DEF CInv
  <1>3. Following
    BY <1>1, <1>2 DEF CInv
  <1>4. pc' = "verify" => OwnProofsVerify'
    BY DEF OwnProofsVerify
  <1>5. CASE VerifyBranch
    BY <1>2, <1>3, <1>4, <1>5, FollowBranch
  <1>6. CASE VerifyShortNode
    <2>1. CASE ~IsLeaf(node)
      BY <1>2, <1>3, <1>4, <1>6, <2>1, FollowExtension
    <2>2. CASE IsLeaf(node) /\ Long(block, index)
      BY <1>2, <1>3, <1>6, <2>2, FollowLong
    <2>3. CASE IsLeaf(node) /\ ~Long(block, index)
      BY <1>2, <1>3, <1>6, <2>3, FollowLeaf
    <2> QED
      BY <2>1, <2>2, <2>3
  <1>7. CASE VerifyFails
    <2>1. block # chain /\ pc' = "rejected"
      BY <1>3, <1>7, FollowHolds DEF VerifyFails, Reject
    <2> QED
      BY <1>1, <2>1 DEF OwnProofsVerify
  <1> QED
    BY <1>5, <1>6, <1>7

\* CInv is kept by the steps of generation and by a change of the chain.
LEMMA OwnGeneration ==
    ASSUME VInv, CInv, GetBlock \/ GetTransaction \/ CheckRoot \/ Descend \/ Deliver \/ Reorg
    PROVE  CInv'
  <1>1. CASE GetBlock \/ GetTransaction
    <2>1. stack' = <<>> /\ pc' \in {"get_transaction", "raised"}
      BY <1>1 DEF GetBlock, GetTransaction, Raise, CInv
    <2> QED
      BY <2>1 DEF CInv, OwnProofsVerify
  <1>2. CASE CheckRoot
    <2>1. stack = <<>> /\ pc' \in {"walk", "raised"} /\ UNCHANGED block
      BY <1>2 DEF CheckRoot, Raise, CInv
    <2>2. pc' = "walk" /\ asked' < Len(block') => Collecting'
      BY <1>2, <2>1, CollectingStarts
    <2> QED
      BY <2>1, <2>2 DEF CInv, OwnProofsVerify
  <1>3. CASE Descend
    <2>1. pc = "walk" /\ pc' = "walk" /\ UNCHANGED <<block, asked>>
      BY <1>3 DEF Descend
    <2>2. asked' < Len(block') => Collecting'
      BY <1>3, <2>1, CollectingGoesOn DEF CInv
    <2> QED
      BY <2>1, <2>2 DEF CInv, OwnProofsVerify
  <1>4. CASE Deliver
    <2>1. pc = "walk" /\ pc' = "verify" /\ UNCHANGED <<block, asked>>
      BY <1>4 DEF Deliver
    <2>2. index' = asked' /\ index' < Len(block') => Following'
      BY <1>4, <2>1, FollowingStarts DEF CInv
    <2> QED
      BY <2>1, <2>2 DEF CInv, OwnProofsVerify
  <1>5. CASE Reorg
    <2>1. /\ pc \in {"get_block", "get_transaction", "walk"}
          /\ UNCHANGED <<pc, block, asked, node, path, stack>>
      BY <1>5 DEF Reorg
    <2> QED
      BY <2>1 DEF CInv, OwnProofsVerify, Collecting
  <1> QED
    BY <1>1, <1>2, <1>3, <1>4, <1>5

\* While the block stays canonical, the proof generated for one of its
\* transactions verifies, unless the transaction is typed or the path of its
\* leaf is two nibbles long.
THEOREM OwnProofsAccepted == Spec => []OwnProofsVerify
  <1>1. Init => CInv
    BY DEF Init, CInv, OwnProofsVerify
  <1>2. VInv /\ CInv /\ [Next]_vars => CInv'
    <2> SUFFICES ASSUME VInv, CInv, [Next]_vars PROVE CInv'
      OBVIOUS
    <2>1. CASE UNCHANGED vars
      <3>1. UNCHANGED <<chain, pc, block, asked, index, node, path, stack>>
        BY <2>1 DEF vars
      <3> QED
        BY <3>1 DEF CInv, OwnProofsVerify, LongLeaf, Collecting, Following
    <2>2. CASE Next
      BY <2>2, OwnVerification, OwnGeneration DEF Next, Program
    <2> QED
      BY <2>1, <2>2
  <1>3. CInv => OwnProofsVerify
    BY DEF CInv
  <1> QED
    BY <1>1, <1>2, <1>3, VInvariance, PTL DEF Spec

=============================================================================
