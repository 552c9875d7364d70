---------------------------- MODULE ByteCountsProofs ----------------------------
(***************************************************************************)
(* What adding and taking away does to a count of bytes, for things of any *)
(* sizes.                                                                  *)
(***************************************************************************)
EXTENDS ByteCounts, FiniteSetTheorems, TLAPS

\* A thing has as many bytes as its size says.
LEMMA OwnBytes ==
    ASSUME NEW size, NEW x, size[x] \in Nat
    PROVE  IsFiniteSet(BytesOf(size, x)) /\ Cardinality(BytesOf(size, x)) = size[x]
<1>1. IsFiniteSet({x}) /\ Cardinality({x}) = 1  BY FS_Singleton
<1>2. IsFiniteSet(1..size[x]) /\ Cardinality(1..size[x]) = size[x]
  <2>1. /\ IsFiniteSet(1..size[x])
        /\ Cardinality(1..size[x]) = IF 1 > size[x] THEN 0 ELSE size[x] - 1 + 1
    BY FS_Interval, SMTT(60)
  <2> QED  BY <2>1
<1>3. /\ IsFiniteSet({x} \X (1..size[x]))
      /\ Cardinality({x} \X (1..size[x])) = Cardinality({x}) * Cardinality(1..size[x])
  BY <1>1, <1>2, FS_Product
<1> QED  BY <1>1, <1>2, <1>3 DEF BytesOf

\* Finitely many things have finitely many bytes.
LEMMA BytesFinite ==
    ASSUME NEW S, IsFiniteSet(S), NEW size, \A x \in S : size[x] \in Nat
    PROVE  IsFiniteSet(UNION {BytesOf(size, x) : x \in S}) /\ TotalBytes(size, S) \in Nat
<1> DEFINE T == {BytesOf(size, x) : x \in S}
           f == [x \in S |-> BytesOf(size, x)]
<1>1. f \in Surjection(S, T)  BY DEF Surjection
<1>2. IsFiniteSet(T)  BY <1>1, FS_Surjection
<1>3. \A R \in T : IsFiniteSet(R)  BY OwnBytes
<1>4. IsFiniteSet(UNION T)  BY <1>2, <1>3, FS_UNION
<1> QED  BY <1>4, FS_CardinalityType DEF TotalBytes

\* Nothing has no bytes.
LEMMA BytesOfNone == ASSUME NEW size PROVE TotalBytes(size, {}) = 0
<1>1. UNION {BytesOf(size, x) : x \in {}} = {}  OBVIOUS
<1> QED  BY <1>1, FS_EmptySet DEF TotalBytes

\* What joins others adds its size.
LEMMA BytesAdded ==
    ASSUME NEW S, IsFiniteSet(S), NEW size, \A x \in S : size[x] \in Nat,
           NEW y, y \notin S, size[y] \in Nat
    PROVE  TotalBytes(size, S \cup {y}) = TotalBytes(size, S) + size[y]
<1> DEFINE B == UNION {BytesOf(size, x) : x \in S}
           C == BytesOf(size, y)
<1>1. UNION {BytesOf(size, x) : x \in S \cup {y}} = B \cup C  OBVIOUS
<1>2. B \cap C = {}  BY DEF BytesOf
<1>3. IsFiniteSet(B)  BY BytesFinite
<1>4. IsFiniteSet(C) /\ Cardinality(C) = size[y]  BY OwnBytes
<1> HIDE DEF B, C
<1>5. Cardinality(B \cup C) = Cardinality(B) + Cardinality(C) - Cardinality(B \cap C)
  BY <1>3, <1>4, FS_Union
<1>6. Cardinality(B) \in Nat  BY <1>3, FS_CardinalityType
<1>7. Cardinality(B \cap C) = 0  BY <1>2, FS_EmptySet
<1>8. Cardinality(B \cup C) = Cardinality(B) + size[y]
  BY <1>4, <1>5, <1>6, <1>7
<1> QED  BY <1>1, <1>8 DEF TotalBytes, B, C

\* What is taken away takes its size, which was counted.
LEMMA BytesTaken ==
    ASSUME NEW S, IsFiniteSet(S), NEW size, \A x \in S : size[x] \in Nat, NEW y \in S
    PROVE  TotalBytes(size, S \ {y}) = TotalBytes(size, S) - size[y] /\ size[y] <= TotalBytes(size, S)
<1>1. (S \ {y}) \cup {y} = S /\ IsFiniteSet(S \ {y})  BY FS_RemoveElement
<1>2. TotalBytes(size, (S \ {y}) \cup {y}) = TotalBytes(size, S \ {y}) + size[y]  BY <1>1, BytesAdded
<1>3. TotalBytes(size, S \ {y}) \in Nat /\ TotalBytes(size, S) \in Nat /\ size[y] \in Nat
  BY <1>1, BytesFinite
<1>4. TotalBytes(size, S) = TotalBytes(size, S \ {y}) + size[y]  BY <1>1, <1>2
<1> QED  BY <1>3, <1>4

\* Fewer things have no more bytes.
LEMMA BytesMonotone ==
    ASSUME NEW S, IsFiniteSet(S), NEW size, \A x \in S : size[x] \in Nat, NEW R \in SUBSET S
    PROVE  TotalBytes(size, R) <= TotalBytes(size, S)
<1>1. IsFiniteSet(UNION {BytesOf(size, x) : x \in S})  BY BytesFinite
<1>2. UNION {BytesOf(size, x) : x \in R} \in SUBSET UNION {BytesOf(size, x) : x \in S}  OBVIOUS
<1> QED  BY <1>1, <1>2, FS_Subset DEF TotalBytes

\* What leaves together takes out what it adds up to.
LEMMA BytesSplit ==
    ASSUME NEW S, IsFiniteSet(S), NEW size, \A x \in S : size[x] \in Nat, NEW R \in SUBSET S
    PROVE  /\ TotalBytes(size, S \ R) = TotalBytes(size, S) - TotalBytes(size, R)
           /\ TotalBytes(size, R) <= TotalBytes(size, S)
           /\ TotalBytes(size, R) \in Nat /\ TotalBytes(size, S) \in Nat
<1> DEFINE B(T) == UNION {BytesOf(size, x) : x \in T}
<1>1. IsFiniteSet(R)  BY FS_Subset
<1>2. /\ IsFiniteSet(B(S)) /\ TotalBytes(size, S) \in Nat
      /\ IsFiniteSet(B(R)) /\ TotalBytes(size, R) \in Nat
  BY <1>1, BytesFinite, SMTT(60)
<1>3. B(S \ R) = B(S) \ B(R) /\ B(S) \cap B(R) = B(R)  BY DEF BytesOf
<1>4. Cardinality(B(S) \ B(R)) = Cardinality(B(S)) - Cardinality(B(S) \cap B(R))
  BY <1>2, FS_Difference
<1>5. TotalBytes(size, R) <= TotalBytes(size, S)  BY BytesMonotone
<1> QED  BY <1>2, <1>3, <1>4, <1>5 DEF TotalBytes
=============================================================================
