-------------------------- MODULE TmpExchangeProofs -------------------------
(***************************************************************************)
(* The transaction id tells the answers the router may still send apart,   *)
(* for any number of ids above MaxLate: an exchange keeps chunks of its    *)
(* own answer alone, has received every byte before the one it waits for,  *)
(* and has asked for that one.  Each answer to a pull brings it nearer to  *)
(* its end, and chunks that do not overlap are joined to the answer.       *)
(*                                                                         *)
(* What a recursive function computes is proved by induction over a set:   *)
(* the set of the numbers for which the claim holds has every number.      *)
(***************************************************************************)
EXTENDS TmpExchange, SequenceTheorems, WellFoundedInduction, TLAPS

-----------------------------------------------------------------------------
(* Induction.                                                              *)

\* Every set of numbers has a least one.
LEMMA LeastNumber ==
  ASSUME NEW T \in SUBSET Nat, T # {}
  PROVE  \E x \in T : \A y \in T : x <= y
<1> DEFINE R == {ss \in Nat \X Nat : ss[1] < ss[2]}
<1>1. IsWellFoundedOn(R, Nat)
  <2>1. R = OpToRel(<, Nat)
    BY DEF OpToRel
  <2> QED BY <2>1, NatLessThanWellFounded
<1>2. \A x, y \in Nat : <<y, x>> \in R <=> y < x
  OBVIOUS
<1> HIDE DEF R
<1>3. PICK x \in T : \A y \in T : ~(<<y, x>> \in R)
  BY <1>1, WFMin
<1>4. ASSUME NEW y \in T PROVE x <= y
  <2>1. x \in Nat /\ y \in Nat
    OBVIOUS
  <2>2. ~(y < x)
    BY <1>2, <1>3, <2>1
  <2> QED BY <2>1, <2>2
<1> QED BY <1>4

\* Induction over a set instead of a predicate.
LEMMA SetInduction ==
  ASSUME NEW G \in SUBSET Nat, 0 \in G, \A n \in Nat : n \in G => n + 1 \in G
  PROVE  G = Nat
  <1>1. SUFFICES ASSUME Nat \ G # {}
                 PROVE  FALSE
    OBVIOUS
  <1>2. PICK x \in Nat \ G : \A y \in Nat \ G : x <= y
    BY <1>1, LeastNumber
  <1>3. x - 1 \in Nat /\ x - 1 \notin Nat \ G
    BY <1>2
  <1> QED BY <1>2, <1>3

\* Induction from the last offset to the first, over a set instead of a predicate.
LEMMA OffsetInduction ==
  ASSUME NEW G \in SUBSET Offsets,
         \A o \in Offsets : (\A p \in Offsets : p > o => p \in G) => o \in G
  PROVE  G = Offsets
  <1>1. SUFFICES ASSUME G # Offsets
                 PROVE  FALSE
    OBVIOUS
  <1> DEFINE Left == {k \in Nat : MaxSize - k \in Offsets \ G}
  <1>2. Left \in SUBSET Nat /\ Left # {}
    <2>1. PICK o \in Offsets \ G : TRUE
      BY <1>1
    <2>2. MaxSize - o \in Nat /\ MaxSize - (MaxSize - o) = o
      BY ExchangeAssumption DEF Offsets
    <2> QED BY <2>1, <2>2
  <1>3. PICK k \in Left : \A l \in Left : k <= l
    BY <1>2, LeastNumber
  <1>4. PICK o \in Offsets \ G : o = MaxSize - k
    OBVIOUS
  <1>5. ASSUME NEW p \in Offsets, p > o
        PROVE  p \in G
    <2>1. SUFFICES ASSUME p \notin G
                   PROVE  FALSE
      OBVIOUS
    <2>2. MaxSize - p \in Nat /\ MaxSize - (MaxSize - p) = p /\ MaxSize - p < k
      BY <1>4, <1>5, ExchangeAssumption DEF Offsets
    <2>3. MaxSize - p \in Left
      BY <2>1, <2>2
    <2> QED BY <1>3, <2>2, <2>3
  <1> QED BY <1>4, <1>5

-----------------------------------------------------------------------------
(* _contiguous_size.                                                       *)

\* The chunks lie within the largest answer.
Fits(S) == S \subseteq Chunk /\ \A c \in S : c.offset + c.length <= MaxSize

LEMMA ChunkAtFits ==
  ASSUME NEW S, Fits(S), NEW o \in Offsets, HasChunk(S, o)
  PROVE  /\ ChunkAt(S, o) \in S
         /\ ChunkAt(S, o).offset = o
         /\ ChunkAt(S, o).length \in Nat \ {0}
         /\ o + ChunkAt(S, o).length \in Offsets
  <1>1. /\ ChunkAt(S, o) \in S
        /\ ChunkAt(S, o).offset = o
        /\ ChunkAt(S, o).length > 0
    BY DEF HasChunk, ChunkAt
  <1>2. ChunkAt(S, o) \in Chunk /\ ChunkAt(S, o).offset + ChunkAt(S, o).length <= MaxSize
    BY <1>1 DEF Fits
  <1> QED BY <1>1, <1>2, ExchangeAssumption DEF Chunk, Offsets

\* What _contiguous_size computes from each offset.
Chain(S, f, D) == [o \in D |-> IF HasChunk(S, o) THEN f[o + ChunkAt(S, o).length] ELSE o]

LEMMA ChainExists ==
  ASSUME NEW S, Fits(S)
  PROVE  \E f : f = Chain(S, f, Offsets)
  <1> DEFINE G == {o \in Offsets : \E f : f = Chain(S, f, o .. MaxSize)}
  <1>1. ASSUME NEW o \in Offsets, \A p \in Offsets : p > o => p \in G
        PROVE  o \in G
    <2>1. PICK f : f = Chain(S, f, (o + 1) .. MaxSize)
      <3>1. CASE o = MaxSize
        <4>1. (o + 1) .. MaxSize = {}
          BY <3>1, ExchangeAssumption
        <4>2. \A f : Chain(S, f, {}) = [p \in {} |-> p]
          BY DEF Chain
        <4> QED BY <4>1, <4>2
      <3>2. CASE o # MaxSize
        <4>1. o + 1 \in Offsets /\ o + 1 > o
          BY <3>2, ExchangeAssumption DEF Offsets
        <4> QED BY <1>1, <4>1
      <3> QED BY <3>1, <3>2
    <2> DEFINE g == [p \in o .. MaxSize |->
                       IF p = o THEN IF HasChunk(S, o) THEN f[o + ChunkAt(S, o).length] ELSE o
                                ELSE f[p]]
    <2>2. ASSUME NEW p \in o .. MaxSize
          PROVE  g[p] = IF HasChunk(S, p) THEN g[p + ChunkAt(S, p).length] ELSE p
      <3>1. p \in Offsets /\ o \in Nat /\ MaxSize \in Nat
        BY ExchangeAssumption DEF Offsets
      <3>2. HasChunk(S, p) => /\ p + ChunkAt(S, p).length \in o .. MaxSize
                              /\ p + ChunkAt(S, p).length > o
        BY <3>1, ChunkAtFits DEF Offsets
      <3>3. HasChunk(S, p) => g[p + ChunkAt(S, p).length] = f[p + ChunkAt(S, p).length]
        BY <3>1, <3>2
      <3>4. CASE p = o
        BY <3>3, <3>4
      <3>5. CASE p # o
        <4>1. p \in (o + 1) .. MaxSize
          BY <3>1, <3>5
        <4>2. f[p] = IF HasChunk(S, p) THEN f[p + ChunkAt(S, p).length] ELSE p
          BY <2>1, <4>1 DEF Chain
        <4> QED BY <3>3, <3>5, <4>2
      <3> QED BY <3>4, <3>5
    <2>3. g = Chain(S, g, o .. MaxSize)
      <3> HIDE DEF g
      <3>1. DOMAIN g = o .. MaxSize /\ g = [p \in o .. MaxSize |-> g[p]]
        BY DEF g
      <3> QED BY <2>2, <3>1 DEF Chain
    <2> QED BY <2>3
  <1> HIDE DEF G
  <1>2. G = Offsets
    <2>1. G \in SUBSET Offsets
      BY DEF G
    <2> QED BY <1>1, <2>1, OffsetInduction
  <1>3. 0 \in Offsets /\ Offsets = 0 .. MaxSize
    BY ExchangeAssumption DEF Offsets
  <1> QED BY <1>2, <1>3 DEF G

LEMMA ChainEquation ==
  ASSUME NEW S, Fits(S), NEW o \in Offsets
  PROVE  ChainEnd(S)[o] = IF HasChunk(S, o) THEN ChainEnd(S)[o + ChunkAt(S, o).length] ELSE o
  <1>1. \E f : f = [p \in Offsets |-> IF HasChunk(S, p) THEN f[p + ChunkAt(S, p).length] ELSE p]
    BY ChainExists DEF Chain
  <1>2. ChainEnd(S) = [p \in Offsets |-> IF HasChunk(S, p) THEN ChainEnd(S)[p + ChunkAt(S, p).length] ELSE p]
    BY <1>1 DEF ChainEnd
  <1> QED BY <1>2

\* c has the byte at b.
Covers(c, b) == c.offset <= b /\ b < c.offset + c.length

LEMMA ChainFacts ==
  ASSUME NEW S, Fits(S), NEW o \in Offsets
  PROVE  /\ ChainEnd(S)[o] \in Offsets
         /\ o <= ChainEnd(S)[o]
         /\ ~HasChunk(S, ChainEnd(S)[o])
         /\ \A b \in o .. ChainEnd(S)[o] - 1 : \E c \in S : Covers(c, b)
  <1> DEFINE Good(p) == /\ ChainEnd(S)[p] \in Offsets
                        /\ p <= ChainEnd(S)[p]
                        /\ ~HasChunk(S, ChainEnd(S)[p])
                        /\ \A b \in p .. ChainEnd(S)[p] - 1 : \E c \in S : Covers(c, b)
             G == {p \in Offsets : Good(p)}
  <1>1. ASSUME NEW p \in Offsets, \A q \in Offsets : q > p => q \in G
        PROVE  p \in G
    <2>1. CASE ~HasChunk(S, p)
      <3>1. ChainEnd(S)[p] = p
        BY <2>1, ChainEquation
      <3> QED BY <2>1, <3>1 DEF Offsets
    <2>2. CASE HasChunk(S, p)
      <3> DEFINE c == ChunkAt(S, p)
                 q == p + c.length
      <3>1. c \in S /\ c.offset = p /\ c.length \in Nat \ {0} /\ q \in Offsets
        BY <2>2, ChunkAtFits
      <3>2. ChainEnd(S)[p] = ChainEnd(S)[q]
        BY <2>2, ChainEquation
      <3> HIDE DEF c
      <3>3. q > p /\ p \in Nat
        BY <3>1 DEF Offsets
      <3>4. Good(q)
        BY <1>1, <3>1, <3>3
      <3>5. \A b \in p .. q - 1 : Covers(c, b)
        BY <3>1, <3>3 DEF Covers
      <3>6. \A b \in p .. ChainEnd(S)[q] - 1 : b \in p .. q - 1 \/ b \in q .. ChainEnd(S)[q] - 1
        BY <3>1, <3>3, <3>4 DEF Offsets
      <3>7. \A b \in p .. ChainEnd(S)[q] - 1 : \E d \in S : Covers(d, b)
        BY <3>1, <3>4, <3>5, <3>6
      <3>8. p <= ChainEnd(S)[q]
        BY <3>1, <3>3, <3>4 DEF Offsets
      <3> QED BY <3>2, <3>4, <3>7, <3>8
    <2> QED BY <2>1, <2>2
  <1>2. G \in SUBSET Offsets
    OBVIOUS
  <1> HIDE DEF G
  <1>3. G = Offsets
    BY <1>1, <1>2, OffsetInduction
  <1> QED BY <1>3 DEF G

OnePerOffset(S) == \A c, d \in S : c.offset = d.offset => c = d

LEMMA ChainGrows ==
  ASSUME NEW S, NEW T, Fits(T), S \subseteq T, OnePerOffset(T), NEW o \in Offsets
  PROVE  ChainEnd(S)[o] <= ChainEnd(T)[o]
  <1> DEFINE G == {p \in Offsets : ChainEnd(S)[p] <= ChainEnd(T)[p]}
  <1>1. Fits(S)
    BY DEF Fits
  <1>2. ASSUME NEW p \in Offsets, \A q \in Offsets : q > p => q \in G
        PROVE  p \in G
    <2>1. CASE ~HasChunk(S, p)
      <3>1. ChainEnd(S)[p] = p
        BY <1>1, <2>1, ChainEquation
      <3> QED BY <3>1, ChainFacts
    <2>2. CASE HasChunk(S, p)
      <3>1. HasChunk(T, p)
        BY <2>2 DEF HasChunk
      <3>2. ChunkAt(S, p) = ChunkAt(T, p)
        <4>1. ChunkAt(S, p) \in S /\ ChunkAt(S, p).offset = p
          BY <1>1, <2>2, ChunkAtFits
        <4>2. ChunkAt(T, p) \in T /\ ChunkAt(T, p).offset = p
          BY <3>1, ChunkAtFits
        <4> QED BY <4>1, <4>2 DEF OnePerOffset
      <3> DEFINE q == p + ChunkAt(S, p).length
      <3>3. q \in Offsets /\ q > p
        BY <1>1, <2>2, ChunkAtFits DEF Offsets
      <3>4. ChainEnd(S)[p] = ChainEnd(S)[q] /\ ChainEnd(T)[p] = ChainEnd(T)[q]
        BY <1>1, <2>2, <3>1, <3>2, ChainEquation
      <3> QED BY <1>2, <3>3, <3>4
    <2> QED BY <2>1, <2>2
  <1>3. G \in SUBSET Offsets
    OBVIOUS
  <1> HIDE DEF G
  <1>4. G = Offsets
    BY <1>2, <1>3, OffsetInduction
  <1> QED BY <1>4 DEF G

\* All bytes below the contiguous size have been received, and the byte it names is
\* the first that was not.
LEMMA ContiguousFacts ==
  ASSUME NEW S, Fits(S)
  PROVE  /\ Contiguous(S) \in Offsets
         /\ ~HasChunk(S, Contiguous(S))
         /\ \A b \in 0 .. Contiguous(S) - 1 : \E c \in S : Covers(c, b)
  <1>1. 0 \in Offsets
    BY ExchangeAssumption DEF Offsets
  <1> QED BY <1>1, ChainFacts DEF Contiguous

LEMMA ContiguousBounded ==
  ASSUME NEW S, Fits(S), NEW size \in Nat, \A c \in S : c.offset + c.length <= size
  PROVE  Contiguous(S) <= size
  <1>1. SUFFICES ASSUME Contiguous(S) > size
                 PROVE  FALSE
    BY ContiguousFacts DEF Offsets
  <1>2. size \in 0 .. Contiguous(S) - 1
    BY <1>1, ContiguousFacts DEF Offsets
  <1>3. PICK c \in S : Covers(c, size)
    BY <1>2, ContiguousFacts
  <1>4. c \in Chunk /\ c.offset + c.length <= size
    BY DEF Fits
  <1> QED BY <1>3, <1>4 DEF Covers, Chunk, Offsets

LEMMA ContiguousGrows ==
  ASSUME NEW S, NEW c, Fits(S \cup {c}), OnePerOffset(S \cup {c})
  PROVE  /\ Contiguous(S) <= Contiguous(S \cup {c})
         /\ c.offset = Contiguous(S) /\ c.length > 0 => Contiguous(S) < Contiguous(S \cup {c})
  <1> DEFINE T == S \cup {c}
  <1>1. Contiguous(S) <= Contiguous(T)
    <2>1. 0 \in Offsets
      BY ExchangeAssumption DEF Offsets
    <2> QED BY <2>1, ChainGrows DEF Contiguous
  <1>2. Contiguous(S) \in Offsets /\ Contiguous(T) \in Offsets /\ ~HasChunk(T, Contiguous(T))
    <2>1. Fits(S)
      BY DEF Fits
    <2> QED BY <2>1, ContiguousFacts
  <1>3. ASSUME c.offset = Contiguous(S), c.length > 0
        PROVE  Contiguous(S) # Contiguous(T)
    BY <1>2, <1>3 DEF HasChunk
  <1> QED BY <1>1, <1>2, <1>3 DEF Offsets

-----------------------------------------------------------------------------
(* Joining the chunks.                                                     *)

LEMMA FlattenExists ==
  ASSUME NEW s, NEW N \in Nat
  PROVE  \E f : f = [i \in 1 .. N |-> IF i = 1 THEN s[i] ELSE f[i - 1] \o s[i]]
  <1> DEFINE Flat(f, n) == [i \in 1 .. n |-> IF i = 1 THEN s[i] ELSE f[i - 1] \o s[i]]
             G == {n \in Nat : \E f : f = Flat(f, n)}
  <1>1. 0 \in G
    <2>1. 1 .. 0 = {}
      OBVIOUS
    <2>2. \A f : Flat(f, 0) = [i \in {} |-> i]
      BY <2>1
    <2> QED BY <2>2
  <1>2. ASSUME NEW n \in Nat, n \in G
        PROVE  n + 1 \in G
    <2>1. PICK f : f = Flat(f, n)
      BY <1>2
    <2> DEFINE g == [i \in 1 .. n + 1 |->
                       IF i <= n THEN f[i] ELSE IF i = 1 THEN s[i] ELSE f[i - 1] \o s[i]]
    <2>2. ASSUME NEW i \in 1 .. n + 1
          PROVE  g[i] = IF i = 1 THEN s[i] ELSE g[i - 1] \o s[i]
      <3>1. i # 1 => i - 1 \in 1 .. n + 1 /\ i - 1 <= n
        OBVIOUS
      <3>2. i # 1 => g[i - 1] = f[i - 1]
        BY <3>1
      <3>3. i <= n => f[i] = IF i = 1 THEN s[i] ELSE f[i - 1] \o s[i]
        <4>1. SUFFICES ASSUME i <= n
                       PROVE  f[i] = IF i = 1 THEN s[i] ELSE f[i - 1] \o s[i]
          OBVIOUS
        <4>2. i \in 1 .. n
          BY <4>1
        <4> QED BY <2>1, <4>2
      <3> QED BY <3>2, <3>3
    <2>3. g = Flat(g, n + 1)
      <3> HIDE DEF g
      <3>1. g = [i \in 1 .. n + 1 |-> g[i]]
        BY DEF g
      <3> QED BY <2>2, <3>1
    <2> HIDE DEF g, Flat
    <2> QED BY <2>3
  <1>3. G \in SUBSET Nat
    OBVIOUS
  <1> HIDE DEF G
  <1>4. G = Nat
    BY <1>1, <1>2, <1>3, SetInduction
  <1> QED BY <1>4 DEF G

LEMMA BytesAtSeq ==
  ASSUME NEW S, Fits(S), NEW o \in Offsets
  PROVE  BytesAt(S, o) \in Seq(Nat)
  <1>1. CASE HasChunk(S, o)
    <2> DEFINE c == ChunkAt(S, o)
    <2>1. o \in Nat /\ c.offset = o /\ c.length \in Nat
      BY <1>1, ChunkAtFits DEF Offsets
    <2>2. BytesAt(S, o) = [j \in 1 .. c.length |-> o + j - 1]
      BY <1>1, <2>1 DEF BytesAt, ChunkBytes
    <2> HIDE DEF c
    <2>3. \A j \in 1 .. c.length : o + j - 1 \in Nat
      BY <2>1
    <2>4. [j \in 1 .. c.length |-> o + j - 1] \in [1 .. c.length -> Nat]
      BY <2>3
    <2> QED BY <2>1, <2>2, <2>4, SeqDef
  <1>2. CASE ~HasChunk(S, o)
    BY <1>2, EmptySeq DEF BytesAt
  <1> QED BY <1>1, <1>2

\* JoinedBytes appends the bytes of one offset after the other.
LEMMA JoinedEquation ==
  ASSUME NEW S, Fits(S)
  PROVE  \E f : /\ f[0] = <<>>
                /\ \A o \in Offsets : f[o + 1] = f[o] \o BytesAt(S, o)
                /\ JoinedBytes(S) = f[MaxSize + 1]
  <1> DEFINE N == MaxSize + 1
             s == [i \in 1 .. N |-> BytesAt(S, i - 1)]
  <1>1. N \in Nat \ {0} /\ MaxSize \in Nat
    BY ExchangeAssumption
  <1>2. Len(s) = N
    <2>1. \A i \in 1 .. N : BytesAt(S, i - 1) \in Seq(Nat)
      BY <1>1, BytesAtSeq DEF Offsets
    <2>2. s \in [1 .. N -> Seq(Nat)]
      BY <2>1
    <2>3. s \in Seq(Seq(Nat))
      BY <1>1, <2>2, SeqDef
    <2>4. DOMAIN s = 1 .. Len(s) /\ Len(s) \in Nat /\ DOMAIN s = 1 .. N
      BY <2>2, <2>3, LenProperties
    <2> HIDE DEF s, N
    <2>5. N \in 1 .. Len(s)
      BY <1>1, <2>4
    <2>6. Len(s) \in 1 .. N
      BY <1>1, <2>4, <2>5
    <2>7. Len(s) \in Nat /\ N \in Nat /\ N <= Len(s) /\ Len(s) <= N
      BY <1>1, <2>4, <2>5, <2>6
    <2> QED BY <2>7
  <1> DEFINE F == CHOOSE f : f = [i \in 1 .. N |-> IF i = 1 THEN s[i] ELSE f[i - 1] \o s[i]]
  <1>3. JoinedBytes(S) = F[N]
    <2>1. JoinedBytes(S) = FlattenSeq(s)
      BY DEF JoinedBytes
    <2> HIDE DEF s
    <2> QED BY <1>1, <1>2, <2>1 DEF FlattenSeq
  <1>4. \A i \in 1 .. N : F[i] = IF i = 1 THEN s[i] ELSE F[i - 1] \o s[i]
    <2> HIDE DEF s, N
    <2>1. \E f : f = [i \in 1 .. N |-> IF i = 1 THEN s[i] ELSE f[i - 1] \o s[i]]
      BY <1>1, FlattenExists
    <2>2. F = [i \in 1 .. N |-> IF i = 1 THEN s[i] ELSE F[i - 1] \o s[i]]
      BY <2>1
    <2> HIDE DEF F
    <2> QED BY <2>2
  <1> HIDE DEF F
  <1> DEFINE f == [i \in 0 .. N |-> IF i = 0 THEN <<>> ELSE F[i]]
  <1>5. f[0] = <<>> /\ JoinedBytes(S) = f[MaxSize + 1]
    BY <1>1, <1>3
  <1>6. ASSUME NEW o \in Offsets
        PROVE  f[o + 1] = f[o] \o BytesAt(S, o)
    <2>1. o \in 0 .. MaxSize /\ o + 1 \in 1 .. N /\ (o + 1) - 1 = o
      BY <1>1 DEF Offsets
    <2>2. f[o + 1] = F[o + 1]
      BY <1>1, <2>1
    <2>5. s[o + 1] = BytesAt(S, o)
      BY <2>1
    <2>3. CASE o = 0
      <3>1. f[o + 1] = BytesAt(S, o) /\ f[o] = <<>>
        BY <1>1, <1>4, <2>1, <2>2, <2>3, <2>5
      <3> QED BY <3>1, BytesAtSeq, ConcatEmptySeq
    <2>4. CASE o # 0
      <3>1. f[o] = F[o] /\ o + 1 # 1
        BY <1>1, <2>1, <2>4
      <3>2. F[o + 1] = F[o] \o s[o + 1]
        BY <1>4, <2>1, <3>1
      <3> QED BY <2>2, <2>5, <3>1, <3>2
    <2> QED BY <2>3, <2>4
  <1> QED BY <1>5, <1>6

LEMMA BytesSeq ==
  ASSUME NEW size \in Nat
  PROVE  /\ Bytes(size) \in Seq(Nat)
         /\ Len(Bytes(size)) = size
         /\ \A i \in 1 .. size : Bytes(size)[i] = i - 1
  <1>1. Bytes(size) \in [1 .. size -> Nat]
    BY DEF Bytes
  <1>2. Bytes(size) \in Seq(Nat)
    BY <1>1, SeqDef
  <1>3. Len(Bytes(size)) = size
    BY <1>2 DEF Bytes
  <1> QED BY <1>2, <1>3 DEF Bytes

LEMMA BytesConcat ==
  ASSUME NEW e \in Nat, NEW len \in Nat
  PROVE  Bytes(e) \o [j \in 1 .. len |-> e + j - 1] = Bytes(e + len)
  <1> DEFINE t == [j \in 1 .. len |-> e + j - 1]
  <1>1. t \in Seq(Nat) /\ Len(t) = len /\ \A j \in 1 .. len : t[j] = e + j - 1
    <2>1. t \in [1 .. len -> Nat]
      OBVIOUS
    <2>2. t \in Seq(Nat)
      BY <2>1, SeqDef
    <2>3. Len(t) = len
      BY <2>2
    <2> QED BY <2>2, <2>3
  <1> DEFINE u == Bytes(e) \o t
             v == Bytes(e + len)
  <1> HIDE DEF t
  <1>2. /\ u \in Seq(Nat)
        /\ Len(u) = e + len
        /\ \A i \in 1 .. e + len : u[i] = IF i <= e THEN Bytes(e)[i] ELSE t[i - e]
    <2>1. Bytes(e) \in Seq(Nat) /\ Len(Bytes(e)) = e
      BY BytesSeq
    <2>2. /\ u \in Seq(Nat)
          /\ Len(u) = Len(Bytes(e)) + Len(t)
          /\ \A i \in 1 .. Len(Bytes(e)) + Len(t) :
               u[i] = IF i <= Len(Bytes(e)) THEN Bytes(e)[i] ELSE t[i - Len(Bytes(e))]
      BY <1>1, <2>1, ConcatProperties
    <2> HIDE DEF u
    <2> QED BY <1>1, <2>1, <2>2
  <1>3. v \in Seq(Nat) /\ Len(v) = e + len /\ \A i \in 1 .. e + len : v[i] = i - 1
    BY BytesSeq
  <1> HIDE DEF u, v
  <1>4. ASSUME NEW i \in 1 .. e + len
        PROVE  u[i] = v[i]
    <2>1. CASE i <= e
      <3>1. i \in 1 .. e
        BY <2>1
      <3>2. Bytes(e)[i] = i - 1
        BY <3>1, BytesSeq
      <3> QED BY <1>2, <1>3, <2>1, <3>2
    <2>2. CASE i > e
      <3>1. i - e \in 1 .. len
        BY <2>2
      <3> QED BY <1>1, <1>2, <1>3, <2>2, <3>1
    <2> QED BY <2>1, <2>2
  <1>5. u = v
    BY <1>2, <1>3, <1>4
  <1> QED BY <1>5 DEF t, u, v

\* No byte is in two chunks.
Apart(S) ==
  \A c, d \in S : c # d => \A b \in Nat : ~(Covers(c, b) /\ Covers(d, b))

\* Every byte of an answer has been received, and nothing else.
AllReceived(S, size) ==
  /\ \A c \in S : c.offset + c.length <= size
  /\ \A b \in 0 .. size - 1 : \E c \in S : Covers(c, b)

\* The chunks that start below an offset are the answer's bytes below e.
Joined(S, size, o, e) ==
  /\ e \in 0 .. size
  /\ o <= e \/ e = size
  /\ \A c \in S : c.offset < o => c.offset + c.length <= e
  /\ \A b \in 0 .. e - 1 : \E c \in S : c.offset < o /\ Covers(c, b)

LEMMA JoinedStep ==
  ASSUME NEW S, Fits(S), Apart(S), NEW size \in Offsets, AllReceived(S, size),
         NEW o \in Offsets, NEW e, Joined(S, size, o, e)
  PROVE  \E next : Joined(S, size, o + 1, next) /\ Bytes(e) \o BytesAt(S, o) = Bytes(next)
  <1>1. o \in Nat /\ size \in Nat /\ e \in Nat /\ e <= size /\ S \subseteq Chunk
    BY DEF Joined, Offsets, Fits
  <1>2. \A c \in S : c.offset \in Nat /\ c.length \in Nat /\ c.offset + c.length <= size
    BY <1>1 DEF Chunk, Offsets, AllReceived
  <1>3. CASE HasChunk(S, o)
    <2>1. PICK c : c = ChunkAt(S, o)
      OBVIOUS
    <2>2. c \in S /\ c.offset = o /\ c.length \in Nat \ {0} /\ o + c.length <= size
      BY <1>2, <1>3, <2>1, ChunkAtFits
    <2>3. o <= e
      BY <1>1, <2>2 DEF Joined
    <2>4. ~(o < e)
      <3>1. SUFFICES ASSUME o < e
                     PROVE  FALSE
        OBVIOUS
      <3>2. PICK d \in S : d.offset < o /\ Covers(d, o)
        BY <1>1, <3>1 DEF Joined
      <3>3. Covers(c, o) /\ c # d
        BY <1>1, <2>2, <3>2 DEF Covers
      <3> QED BY <1>1, <2>2, <3>2, <3>3 DEF Apart
    <2>5. e = o
      BY <1>1, <2>3, <2>4
    <2>6. BytesAt(S, o) = [j \in 1 .. c.length |-> e + j - 1]
      BY <1>3, <2>1, <2>2, <2>5 DEF BytesAt, ChunkBytes
    <2>7. Bytes(e) \o BytesAt(S, o) = Bytes(e + c.length)
      BY <1>1, <2>2, <2>6, BytesConcat
    <2>8. Joined(S, size, o + 1, e + c.length)
      <3>1. e + c.length \in 0 .. size /\ o + 1 <= e + c.length
        BY <1>1, <2>2, <2>5
      <3>2. ASSUME NEW d \in S, d.offset < o + 1
            PROVE  d.offset + d.length <= e + c.length
        <4>1. CASE d.offset < o
          BY <1>1, <1>2, <2>2, <4>1 DEF Joined
        <4>2. CASE d.offset = o /\ d.length = 0
          BY <1>1, <2>2, <2>5, <4>2
        <4>3. CASE d.offset = o /\ d.length > 0
          <5>1. Covers(d, o) /\ Covers(c, o)
            BY <1>1, <1>2, <2>2, <4>3 DEF Covers
          <5>2. d = c
            BY <1>1, <2>2, <5>1 DEF Apart
          <5> QED BY <1>1, <1>2, <2>2, <2>5, <5>2
        <4> QED BY <1>1, <1>2, <3>2, <4>1, <4>2, <4>3
      <3>3. ASSUME NEW b \in 0 .. (e + c.length) - 1
            PROVE  \E d \in S : d.offset < o + 1 /\ Covers(d, b)
        <4>1. CASE b < e
          <5>1. PICK d \in S : d.offset < o /\ Covers(d, b)
            BY <1>1, <4>1 DEF Joined
          <5>2. d.offset < o + 1
            BY <1>1, <1>2, <5>1
          <5> QED BY <5>1, <5>2
        <4>2. CASE b >= e
          <5>1. c.offset < o + 1 /\ Covers(c, b)
            BY <1>1, <2>2, <2>5, <4>2 DEF Covers
          <5> QED BY <2>2, <5>1
        <4> QED BY <1>1, <4>1, <4>2
      <3> QED BY <3>1, <3>2, <3>3 DEF Joined
    <2> QED BY <2>7, <2>8
  <1>4. CASE ~HasChunk(S, o)
    <2>1. Bytes(e) \o BytesAt(S, o) = Bytes(e)
      BY <1>1, <1>4, BytesSeq, ConcatEmptySeq DEF BytesAt
    <2>2. o + 1 <= e \/ e = size
      <3>1. SUFFICES ASSUME o = e, e # size
                     PROVE  FALSE
        BY <1>1 DEF Joined
      <3>2. PICK c \in S : Covers(c, o)
        BY <1>1, <3>1 DEF AllReceived
      <3>3. c.offset <= o /\ o < c.offset + c.length
        BY <3>2 DEF Covers
      <3>4. c.offset # o
        BY <1>1, <1>2, <1>4, <3>3 DEF HasChunk
      <3>5. c.offset + c.length <= e
        BY <1>1, <1>2, <3>3, <3>4 DEF Joined
      <3> QED BY <1>1, <1>2, <3>1, <3>3, <3>5
    <2>3. ASSUME NEW d \in S, d.offset < o + 1
          PROVE  d.offset + d.length <= e
      <3>1. CASE d.offset < o
        BY <3>1 DEF Joined
      <3>2. CASE d.offset = o
        <4>1. d.length = 0
          BY <1>2, <1>4, <3>2 DEF HasChunk
        <4>2. o <= e
          BY <1>1, <1>2, <3>2 DEF Joined
        <4> QED BY <1>1, <3>2, <4>1, <4>2
      <3> QED BY <1>1, <1>2, <2>3, <3>1, <3>2
    <2>4. ASSUME NEW b \in 0 .. e - 1
          PROVE  \E d \in S : d.offset < o + 1 /\ Covers(d, b)
      <3>1. PICK d \in S : d.offset < o /\ Covers(d, b)
        BY DEF Joined
      <3>2. d.offset < o + 1
        BY <1>1, <1>2, <3>1
      <3> QED BY <3>1, <3>2
    <2>5. Joined(S, size, o + 1, e)
      BY <1>1, <2>2, <2>3, <2>4 DEF Joined
    <2> QED BY <2>1, <2>5
  <1> QED BY <1>3, <1>4

\* Joining the chunks of a whole answer gives its bytes, in order, if no two overlap.
LEMMA Reassembly ==
  ASSUME NEW S, Fits(S), Apart(S), NEW size \in Offsets, AllReceived(S, size)
  PROVE  Response(S, size) = Bytes(size)
  <1>1. PICK f : /\ f[0] = <<>>
                 /\ \A o \in Offsets : f[o + 1] = f[o] \o BytesAt(S, o)
                 /\ JoinedBytes(S) = f[MaxSize + 1]
    BY JoinedEquation
  <1>2. MaxSize \in Nat /\ size \in Nat /\ size <= MaxSize
    BY ExchangeAssumption DEF Offsets
  <1> DEFINE Done(o) == \E e : Joined(S, size, o, e) /\ f[o] = Bytes(e)
             G == {o \in Nat : o <= MaxSize + 1 => Done(o)}
  <1>3. 0 \in G
    <2>1. \A c \in S : ~(c.offset < 0)
      BY DEF Fits, Chunk, Offsets
    <2>2. Joined(S, size, 0, 0)
      BY <1>2, <2>1 DEF Joined
    <2>3. Bytes(0) = <<>>
      BY BytesSeq, EmptySeq
    <2> QED BY <1>1, <2>2, <2>3
  <1>4. ASSUME NEW o \in Nat, o \in G
        PROVE  o + 1 \in G
    <2>1. SUFFICES ASSUME o <= MaxSize
                   PROVE  Done(o + 1)
      BY <1>2
    <2>2. o \in Offsets /\ Done(o)
      BY <1>2, <1>4, <2>1 DEF Offsets
    <2>3. PICK e : Joined(S, size, o, e) /\ f[o] = Bytes(e)
      BY <2>2
    <2>4. PICK next : Joined(S, size, o + 1, next) /\ Bytes(e) \o BytesAt(S, o) = Bytes(next)
      BY <2>2, <2>3, JoinedStep
    <2>5. f[o + 1] = Bytes(next)
      BY <1>1, <2>2, <2>3, <2>4
    <2> QED BY <2>4, <2>5
  <1>5. G \in SUBSET Nat
    OBVIOUS
  <1> HIDE DEF G
  <1>6. G = Nat
    BY <1>3, <1>4, <1>5, SetInduction
  <1>7. Done(MaxSize + 1)
    BY <1>2, <1>6 DEF G
  <1>8. PICK e : Joined(S, size, MaxSize + 1, e) /\ f[MaxSize + 1] = Bytes(e)
    BY <1>7
  <1>9. e = size
    BY <1>2, <1>8 DEF Joined
  <1>10. JoinedBytes(S) = Bytes(size)
    BY <1>1, <1>8, <1>9
  <1> QED BY <1>2, <1>10, BytesSeq, SubSeqFull DEF Response

-----------------------------------------------------------------------------
(* The transaction id.                                                     *)

LEMMA SameTransaction ==
  ASSUME NEW T \in Nat \ {0}, NEW n \in Nat, NEW s \in Nat, n <= s, s - n < T, n % T = s % T
  PROVE  n = s
  <1>1. n = (T * (n \div T)) + (n % T) /\ n \div T \in Int
    BY SMT
  <1>2. s = (T * (s \div T)) + (s % T) /\ s \div T \in Int
    BY SMT
  <1>3. s - n = (T * (s \div T)) - (T * (n \div T))
    BY <1>1, <1>2
  <1> DEFINE p == s \div T
             q == n \div T
  <1>4. p - q >= 0 /\ p \in Int /\ q \in Int
    BY <1>1, <1>2, <1>3
  <1> HIDE DEF p, q
  <1>5. s - n = T * (p - q)
    BY <1>3, <1>4 DEF p, q
  <1>6. p - q < 1
    BY <1>4, <1>5
  <1> QED BY <1>4, <1>5, <1>6

\* Only the current exchange has its id among those the router may still answer.
LEMMA OwnMatch ==
  ASSUME serial \in Nat, NEW n \in Answering, Matches(n)
  PROVE  n = serial
  <1>1. n \in Nat /\ n <= serial /\ serial - n <= MaxLate
    BY DEF Answering
  <1>2. TransactionIds \in Nat \ {0} /\ MaxLate \in Nat /\ serial - n < TransactionIds
    BY <1>1, ExchangeAssumption
  <1> QED BY <1>1, <1>2, SameTransaction DEF Matches, Transaction

LEMMA NothingContiguous == Contiguous({}) = 0
  <1>1. 0 \in Offsets /\ Fits({}) /\ ~HasChunk({}, 0)
    BY ExchangeAssumption DEF Offsets, Fits, HasChunk
  <1> QED BY <1>1, ChainEquation DEF Contiguous

-----------------------------------------------------------------------------
(* One answer.                                                             *)

\* The last pull is for the first missing byte.
Pulled ==
  waiting =>
    /\ requested = Contiguous(chunks)
    /\ pullSent \/ requested # 0 => requested \in pulls

OwnInv == serial \in Nat /\ ChunksOfOneAnswer /\ Pulled /\ ReturnsOwnAnswer

\* What the steps leave alone when they neither begin nor receive.
LEMMA QuietKeeps ==
  ASSUME OwnInv, UNCHANGED <<serial, sizes, result>>,
         ~waiting' \/ (waiting /\ UNCHANGED <<expected, chunks, requested, pullSent, pulls>>)
  PROVE  OwnInv'
  BY DEF OwnInv, ChunksOfOneAnswer, Pulled, ReturnsOwnAnswer, Metadata, ChunksOf

LEMMA BeginKeeps ==
  ASSUME OwnInv, NEW empty \in BOOLEAN, Begin(empty)
  PROVE  OwnInv'
  <1>1. /\ serial' = serial + 1 /\ chunks' = {} /\ requested' = 0
        /\ pullSent' = empty
        /\ pulls' = IF empty THEN {0} ELSE {}
        /\ UNCHANGED <<sizes, result>>
    BY DEF Begin
  <1>2. serial' \in Nat /\ ChunksOfOneAnswer' /\ ReturnsOwnAnswer'
    BY <1>1 DEF OwnInv, ChunksOfOneAnswer, ReturnsOwnAnswer
  <1>3. requested' = Contiguous(chunks')
    BY <1>1, NothingContiguous
  <1>4. pullSent' \/ requested' # 0 => requested' \in pulls'
    BY <1>1
  <1>5. Pulled'
    BY <1>3, <1>4 DEF Pulled
  <1> QED BY <1>2, <1>5 DEF OwnInv

LEMMA AcknowledgedKeeps ==
  ASSUME OwnInv, NEW n \in Answering, Acknowledged(n)
  PROVE  OwnInv'
  <1>1. /\ waiting /\ pulls' = pulls \cup {0}
        /\ UNCHANGED <<serial, waiting, expected, chunks, requested, sizes, result>>
    BY DEF Acknowledged
  <1>2. ChunksOfOneAnswer' /\ ReturnsOwnAnswer' /\ serial' \in Nat
    BY <1>1 DEF OwnInv, ChunksOfOneAnswer, ReturnsOwnAnswer, Metadata, ChunksOf
  <1>3. Pulled'
    BY <1>1 DEF OwnInv, Pulled
  <1> QED BY <1>2, <1>3 DEF OwnInv

\* A chunk that is kept belongs to the answer of this exchange.
LEMMA AcceptsOwn ==
  ASSUME OwnInv, NEW n \in Answering, NEW c \in ChunksOf(n), Accepts(n, c)
  PROVE  /\ n = serial
         /\ expected' = Metadata(serial)
         /\ chunks' \subseteq ChunksOf(serial)
  <1>1. n = serial
    BY OwnMatch DEF OwnInv, Accepts
  <1>2. chunks = {} \/ chunks \subseteq ChunksOf(serial)
    BY DEF OwnInv, ChunksOfOneAnswer, Accepts
  <1> QED BY <1>1, <1>2 DEF Accepts

LEMMA KeptKeeps ==
  ASSUME OwnInv, NEW n \in Answering, NEW c \in ChunksOf(n), ChunkKept(n, c)
  PROVE  OwnInv'
  <1>1. /\ waiting /\ UNCHANGED <<serial, waiting, pullSent, sizes, result>>
        /\ Accepts(n, c)
    BY DEF ChunkKept, Accepts
  <1>2. ChunksOfOneAnswer'
    BY <1>1, AcceptsOwn DEF ChunksOfOneAnswer, Metadata, ChunksOf
  <1>3. Pulled'
    <2>1. \/ requested' = Contiguous(chunks') /\ pulls' = pulls \cup {Contiguous(chunks')}
          \/ requested = Contiguous(chunks') /\ UNCHANGED <<requested, pulls>>
      BY DEF ChunkKept, PullsNext
    <2>2. CASE requested' = Contiguous(chunks') /\ pulls' = pulls \cup {Contiguous(chunks')}
      BY <2>2 DEF Pulled
    <2>3. CASE requested = Contiguous(chunks') /\ UNCHANGED <<requested, pulls>>
      BY <1>1, <2>3 DEF OwnInv, Pulled
    <2> QED BY <2>1, <2>2, <2>3
  <1>4. serial' \in Nat /\ ReturnsOwnAnswer'
    BY <1>1 DEF OwnInv, ReturnsOwnAnswer
  <1> QED BY <1>2, <1>3, <1>4 DEF OwnInv

LEMMA CompletesKeeps ==
  ASSUME OwnInv, NEW n \in Answering, NEW c \in ChunksOf(n), ChunkCompletes(n, c)
  PROVE  OwnInv'
  <1>1. ~waiting' /\ UNCHANGED <<serial, sizes>> /\ n = serial
    BY AcceptsOwn DEF ChunkCompletes
  <1> DEFINE response == Response(chunks', sizes[n])
  <1>2. \/ result' = result
        \/ /\ response = Bytes(sizes[n])
           /\ result' = [serial |-> serial, of |-> n, bytes |-> response]
    BY DEF ChunkCompletes, ChecksumMatches
  <1> HIDE DEF response
  <1>3. ReturnsOwnAnswer'
    BY <1>1, <1>2 DEF OwnInv, ReturnsOwnAnswer
  <1>4. ChunksOfOneAnswer' /\ Pulled'
    BY <1>1 DEF ChunksOfOneAnswer, Pulled
  <1> QED BY <1>1, <1>3, <1>4 DEF OwnInv

LEMMA OwnNext ==
  ASSUME OwnInv, [ExchangeNext]_exchangeVars
  PROVE  OwnInv'
  <1>1. CASE Associate \/ UNCHANGED exchangeVars
    BY <1>1, QuietKeeps DEF Associate, exchangeVars, exchange
  <1>2. CASE \E empty \in BOOLEAN : Begin(empty)
    BY <1>2, BeginKeeps
  <1>3. CASE Fails
    BY <1>3, QuietKeeps DEF Fails, Raise
  <1>4. CASE \E n \in Answering : Acknowledged(n)
    BY <1>4, AcknowledgedKeeps
  <1>5. ASSUME NEW n \in Answering, NEW c \in ChunksOf(n), ChunkArrives(n, c)
        PROVE  OwnInv'
    <2>1. CASE ChunkRejected(n, c)
      BY <2>1, QuietKeeps DEF ChunkRejected, Raise
    <2> QED BY <1>5, <2>1, KeptKeeps, CompletesKeeps DEF ChunkArrives
  <1> QED BY <1>1, <1>2, <1>3, <1>4, <1>5 DEF ExchangeNext

LEMMA OwnHolds == ExchangeSpec => []OwnInv
  <1>1. ExchangeInit => OwnInv
    BY DEF ExchangeInit, OwnInv, ChunksOfOneAnswer, Pulled, ReturnsOwnAnswer
  <1>2. OwnInv /\ [ExchangeNext]_exchangeVars => OwnInv'
    BY OwnNext
  <1> QED BY <1>1, <1>2, PTL DEF ExchangeSpec

\* What _exchange returns is the whole answer to its own request, not a late answer of
\* an exchange that was given up, nor a mixture of two.
THEOREM OwnAnswerReturned == ExchangeSpec => []ReturnsOwnAnswer
  <1>1. OwnInv => ReturnsOwnAnswer
    BY DEF OwnInv
  <1> QED BY <1>1, OwnHolds, PTL

\* The chunks _exchange keeps are of one answer, its own, and the first byte it still
\* misses has been pulled.
THEOREM ChunksPulled == ExchangeSpec => [](ChunksOfOneAnswer /\ MissingIsPulled)
  <1>1. OwnInv => ChunksOfOneAnswer /\ MissingIsPulled
    <2>1. SUFFICES ASSUME OwnInv, waiting, pullSent \/ Contiguous(chunks) > 0
                   PROVE  Contiguous(chunks) \in pulls
      BY DEF OwnInv, MissingIsPulled
    <2>2. requested = Contiguous(chunks) /\ (pullSent \/ requested # 0 => requested \in pulls)
      BY <2>1 DEF OwnInv, Pulled
    <2>3. Contiguous(chunks) > 0 => Contiguous(chunks) # 0
      OBVIOUS
    <2> QED BY <2>1, <2>2, <2>3
  <1> QED BY <1>1, OwnHolds, PTL

-----------------------------------------------------------------------------
(* Types, and what has been received.                                      *)

\* While an exchange waits, its chunks differ in their offsets and something is missing.
Incomplete ==
  waiting =>
    /\ serial \in Exchanges
    /\ OnePerOffset(chunks)
    /\ chunks # {} => Contiguous(chunks) < sizes[serial]

ChunksInv == ExchangeTypeOK /\ OwnInv /\ Incomplete

LEMMA Constants ==
  /\ {TransactionIds, MaxExchanges, MaxSize, MaxLate} \subseteq Nat
  /\ 0 \in Offsets
  /\ Offsets \subseteq Nat
  BY ExchangeAssumption DEF Offsets

LEMMA OwnFits ==
  ASSUME ExchangeTypeOK, NEW n \in Exchanges, NEW S, S \subseteq ChunksOf(n)
  PROVE  /\ Fits(S)
         /\ sizes[n] \in Offsets
         /\ \A c \in S : c.offset + c.length <= sizes[n]
  <1>1. sizes[n] \in Offsets
    BY DEF ExchangeTypeOK
  <1>2. \A c \in S : c \in Chunk /\ c.offset + c.length <= sizes[n]
    BY DEF ChunksOf
  <1>3. \A c \in S : c.offset + c.length <= MaxSize
    BY <1>1, <1>2, Constants DEF Offsets, Chunk
  <1> QED BY <1>1, <1>2, <1>3 DEF Fits

\* A chunk that is kept, among those of the same answer.
LEMMA AcceptsFits ==
  ASSUME ChunksInv, NEW n \in Answering, NEW c \in ChunksOf(n), Accepts(n, c)
  PROVE  /\ n = serial /\ n \in Exchanges
         /\ chunks' = chunks \cup {c}
         /\ chunks' \subseteq ChunksOf(n)
         /\ Fits(chunks) /\ Fits(chunks')
         /\ OnePerOffset(chunks')
         /\ expected' = Metadata(n)
  <1>1. n = serial /\ chunks' = chunks \cup {c} /\ chunks' \subseteq ChunksOf(n)
        /\ expected' = Metadata(n)
    BY AcceptsOwn DEF ChunksInv, Accepts
  <1>2. n \in Exchanges
    BY Constants DEF Answering, Exchanges, ChunksInv, ExchangeTypeOK
  <1>3. Fits(chunks) /\ Fits(chunks')
    BY <1>1, <1>2, OwnFits DEF ChunksInv
  <1>4. OnePerOffset(chunks')
    <2>1. waiting /\ ~Conflicts(c)
      BY DEF Accepts
    <2>2. OnePerOffset(chunks)
      BY <2>1 DEF ChunksInv, Incomplete
    <2>3. \A d \in chunks : d.offset = c.offset => d = c
      BY <2>1 DEF Conflicts
    <2> QED BY <1>1, <2>2, <2>3 DEF OnePerOffset
  <1> QED BY <1>1, <1>2, <1>3, <1>4

LEMMA ChunkTypes ==
  ASSUME ChunksInv, NEW n \in Answering, NEW c \in ChunksOf(n), Accepts(n, c),
         UNCHANGED <<serial, pullSent, sizes>>, waiting' \in BOOLEAN,
         stage' \in {"new", "token", "negotiate", "ready"},
         \/ requested' = Contiguous(chunks') /\ pulls' = pulls \cup {Contiguous(chunks')}
         \/ UNCHANGED <<requested, pulls>>
  PROVE  ExchangeTypeOK'
  <1>1. /\ n \in Exchanges /\ Fits(chunks') /\ expected' = Metadata(n)
        /\ chunks' \subseteq ChunksOf(n)
    BY AcceptsFits
  <1>2. requested' \in Offsets /\ pulls' \subseteq Offsets
    BY <1>1, ContiguousFacts DEF ChunksInv, ExchangeTypeOK
  <1>3. expected' \in [of : Exchanges, size : Offsets] /\ chunks' \subseteq Chunk
    BY <1>1 DEF Metadata, ChunksInv, ExchangeTypeOK, Fits
  <1> QED BY <1>2, <1>3 DEF ChunksInv, ExchangeTypeOK

LEMMA ChunksNext ==
  ASSUME ChunksInv, [ExchangeNext]_exchangeVars
  PROVE  ExchangeTypeOK' /\ Incomplete'
  <1>1. ExchangeTypeOK /\ Incomplete
    BY DEF ChunksInv
  <1>2. CASE UNCHANGED exchangeVars
    BY <1>1, <1>2 DEF exchangeVars, exchange, ExchangeTypeOK, Incomplete
  <1>3. CASE Associate
    BY <1>1, <1>3 DEF Associate, exchange, ExchangeTypeOK, Incomplete
  <1>4. CASE \E empty \in BOOLEAN : Begin(empty)
    <2>1. PICK empty \in BOOLEAN : Begin(empty)
      BY <1>4
    <2>2. ExchangeTypeOK'
      BY <1>1, <2>1, Constants DEF Begin, ExchangeTypeOK, Offsets
    <2>3. Incomplete'
      BY <1>1, <2>1, Constants DEF Begin, Incomplete, OnePerOffset, Exchanges, ExchangeTypeOK
    <2> QED BY <2>2, <2>3
  <1>5. ASSUME Raise
        PROVE  ExchangeTypeOK' /\ Incomplete'
    BY <1>1, <1>5 DEF Raise, ExchangeTypeOK, Incomplete
  <1>6. CASE Fails
    BY <1>5, <1>6 DEF Fails
  <1>7. CASE \E n \in Answering : Acknowledged(n)
    BY <1>1, <1>7, Constants DEF Acknowledged, ExchangeTypeOK, Incomplete
  <1>8. ASSUME NEW n \in Answering, NEW c \in ChunksOf(n), ChunkArrives(n, c)
        PROVE  ExchangeTypeOK' /\ Incomplete'
    <2>1. CASE ChunkRejected(n, c)
      BY <1>5, <2>1 DEF ChunkRejected
    <2>2. CASE ChunkKept(n, c)
      <3>1. ExchangeTypeOK'
        BY <1>1, <2>2, ChunkTypes DEF ChunkKept, ExchangeTypeOK
      <3>2. Incomplete'
        BY <2>2, AcceptsFits DEF ChunkKept, Incomplete, Exchanges
      <3> QED BY <3>1, <3>2
    <2>3. CASE ChunkCompletes(n, c)
      <3>1. stage' \in {"new", "token", "negotiate", "ready"}
        BY <2>3 DEF ChunkCompletes
      <3>2. ExchangeTypeOK'
        BY <2>3, <3>1, ChunkTypes DEF ChunkCompletes
      <3>3. Incomplete'
        BY <2>3 DEF ChunkCompletes, Incomplete
      <3> QED BY <3>2, <3>3
    <2> QED BY <1>8, <2>1, <2>2, <2>3 DEF ChunkArrives
  <1> QED BY <1>2, <1>3, <1>4, <1>6, <1>7, <1>8 DEF ExchangeNext

LEMMA ChunksHold == ExchangeSpec => []ChunksInv
  <1>1. ExchangeInit => ChunksInv
    <2>1. SUFFICES ASSUME ExchangeInit
                   PROVE  ChunksInv
      OBVIOUS
    <2>2. ExchangeTypeOK
      <3>1. serial \in 0 .. MaxExchanges /\ requested \in Offsets
        BY <2>1, Constants DEF ExchangeInit
      <3> QED BY <2>1, <3>1 DEF ExchangeInit, ExchangeTypeOK
    <2> QED BY <2>1, <2>2 DEF ExchangeInit, ChunksInv, OwnInv, ChunksOfOneAnswer, Pulled,
                        ReturnsOwnAnswer, Incomplete
  <1>2. ChunksInv /\ [ExchangeNext]_exchangeVars => ChunksInv'
    BY OwnNext, ChunksNext DEF ChunksInv
  <1> QED BY <1>1, <1>2, PTL DEF ExchangeSpec

\* The exchange's chunks are of its own answer and the byte it waits for has been
\* pulled, for any sizes and any number of exchanges.
THEOREM ExchangeInvariance == ExchangeSpec => []ExchangeInv
  <1>1. ChunksInv => ExchangeTypeOK
    BY DEF ChunksInv
  <1> QED BY <1>1, ChunksHold, ChunksPulled, PTL DEF ExchangeInv

\* requested_offset is always the first missing byte: every byte before it has been
\* received, no chunk kept goes on from it, and the answer does not end there.
PrefixReceived ==
  waiting =>
    /\ requested = Contiguous(chunks)
    /\ \A b \in 0 .. requested - 1 : \E c \in chunks : Covers(c, b)
    /\ ~HasChunk(chunks, requested)
    /\ chunks # {} => requested < sizes[serial]

\* A waiting exchange has all bytes before requested_offset and not the one at it.
THEOREM PrefixIsReceived == ExchangeSpec => []PrefixReceived
  <1>1. ChunksInv => PrefixReceived
    <2>1. SUFFICES ASSUME ChunksInv, waiting
                   PROVE  PrefixReceived
      BY DEF PrefixReceived
    <2>2. requested = Contiguous(chunks)
      BY <2>1 DEF ChunksInv, OwnInv, Pulled
    <2>3. Fits(chunks)
      <3>1. CASE chunks = {}
        BY <3>1 DEF Fits
      <3>2. CASE chunks # {}
        <4>1. expected = Metadata(serial) /\ chunks \subseteq ChunksOf(serial)
          BY <2>1, <3>2 DEF ChunksInv, OwnInv, ChunksOfOneAnswer
        <4>2. serial \in Exchanges
          BY <2>1 DEF ChunksInv, Incomplete
        <4> QED BY <2>1, <4>1, <4>2, OwnFits DEF ChunksInv
      <3> QED BY <3>1, <3>2
    <2>4. chunks # {} => Contiguous(chunks) < sizes[serial]
      BY <2>1 DEF ChunksInv, Incomplete
    <2> QED BY <2>2, <2>3, <2>4, ContiguousFacts DEF PrefixReceived
  <1> QED BY <1>1, ChunksHold, PTL

\* What a step of a waiting exchange may not do: shrink the contiguous size.
NothingForgotten ==
  waiting /\ waiting' => Contiguous(chunks) <= Contiguous(chunks')

\* An answer to the last pull ends the exchange or adds to the contiguous size, which
\* the size of the answer bounds: it takes no more answers than that.
AnswerAdvances ==
  \A c \in ChunksOf(serial) :
    waiting /\ Answers(serial, c) =>
      \/ ~waiting'
      \/ Contiguous(chunks) < Contiguous(chunks') /\ Contiguous(chunks') < sizes[serial]

\* An answer that is complete and of which no byte came in two chunks passes the
\* checksum, in whatever order and sizes the chunks came.
ApartReturned ==
  \A n \in Answering : \A c \in ChunksOf(n) :
    ChunkCompletes(n, c) /\ Apart(chunks') =>
      result' = [serial |-> serial, of |-> serial, bytes |-> Bytes(sizes[serial])]

LEMMA AcceptsGrows ==
  ASSUME ChunksInv, NEW n \in Answering, NEW c \in ChunksOf(n), Accepts(n, c)
  PROVE  /\ Contiguous(chunks) <= Contiguous(chunks')
         /\ c.offset = Contiguous(chunks) /\ c.length > 0 =>
              Contiguous(chunks) < Contiguous(chunks')
  <1>1. chunks' = chunks \cup {c} /\ Fits(chunks \cup {c}) /\ OnePerOffset(chunks \cup {c})
    <2>1. chunks' = chunks \cup {c} /\ Fits(chunks') /\ OnePerOffset(chunks')
      BY AcceptsFits
    <2> QED BY <2>1
  <1> DEFINE S == chunks
  <1>2. /\ Contiguous(S) <= Contiguous(S \cup {c})
        /\ c.offset = Contiguous(S) /\ c.length > 0 => Contiguous(S) < Contiguous(S \cup {c})
    <2> HIDE DEF S
    <2> QED BY <1>1, ContiguousGrows DEF S
  <1> QED BY <1>1, <1>2

\* No step of an exchange loses what has been received.
THEOREM NothingIsForgotten == ExchangeSpec => [][NothingForgotten]_exchangeVars
  <1>1. ChunksInv /\ [ExchangeNext]_exchangeVars => [NothingForgotten]_exchangeVars
    <2>1. SUFFICES ASSUME ChunksInv, ExchangeNext, waiting, waiting'
                   PROVE  Contiguous(chunks) <= Contiguous(chunks')
      BY DEF NothingForgotten
    <2>2. ASSUME chunks' = chunks
          PROVE  Contiguous(chunks) <= Contiguous(chunks')
      <3>1. Contiguous(chunks) \in Nat
        BY <2>1, Constants DEF ChunksInv, ExchangeTypeOK, OwnInv, Pulled
      <3> QED BY <2>2, <3>1
    <2>3. CASE Associate \/ \E n \in Answering : Acknowledged(n)
      BY <2>2, <2>3 DEF Associate, Acknowledged, exchange
    <2>4. CASE (\E empty \in BOOLEAN : Begin(empty)) \/ Fails
      BY <2>1, <2>4 DEF Begin, Fails, Raise
    <2>5. ASSUME NEW n \in Answering, NEW c \in ChunksOf(n), ChunkArrives(n, c)
          PROVE  Contiguous(chunks) <= Contiguous(chunks')
      <3>1. Accepts(n, c)
        BY <2>1, <2>5 DEF ChunkArrives, ChunkRejected, Raise, ChunkKept, ChunkCompletes
      <3> QED BY <2>1, <3>1, AcceptsGrows
    <2> QED BY <2>1, <2>3, <2>4, <2>5 DEF ExchangeNext
  <1> QED BY <1>1, ChunksHold, PTL DEF ExchangeSpec

\* Client and router get on: the size of the answer bounds the pulls of an exchange.
THEOREM AnswersAdvance == ExchangeSpec => [][AnswerAdvances]_exchangeVars
  <1>1. ChunksInv => AnswerAdvances
    <2>1. SUFFICES ASSUME ChunksInv, NEW c \in ChunksOf(serial), waiting, Answers(serial, c), waiting'
                   PROVE  Contiguous(chunks) < Contiguous(chunks') /\ Contiguous(chunks') < sizes[serial]
      BY DEF AnswerAdvances
    <2>2. serial \in Answering
      BY <2>1, Constants DEF ChunksInv, Incomplete, ExchangeTypeOK, Exchanges, Answering
    <2>3. ChunkKept(serial, c)
      BY <2>1 DEF Answers, ChunkArrives, ChunkRejected, Raise, ChunkCompletes
    <2>4. Accepts(serial, c) /\ Contiguous(chunks') < sizes[serial]
      BY <2>3 DEF ChunkKept
    <2>5. Contiguous(chunks') \in Nat
      BY <2>1, <2>2, <2>4, AcceptsFits, ContiguousFacts, Constants
    <2>6. c.offset = Contiguous(chunks) /\ c.length > 0
      BY <2>1, <2>4, <2>5 DEF Answers
    <2> QED BY <2>1, <2>2, <2>4, <2>6, AcceptsGrows
  <1> QED BY <1>1, ChunksHold, PTL

\* No checksum mismatch comes from the client's own joining.
THEOREM ApartIsReturned == ExchangeSpec => [][ApartReturned]_exchangeVars
  <1>1. ChunksInv => ApartReturned
    <2>1. SUFFICES ASSUME ChunksInv, NEW n \in Answering, NEW c \in ChunksOf(n),
                          ChunkCompletes(n, c), Apart(chunks')
                   PROVE  result' = [serial |-> serial, of |-> serial, bytes |-> Bytes(sizes[serial])]
      BY DEF ApartReturned
    <2>2. Accepts(n, c) /\ Contiguous(chunks') >= sizes[n]
      BY <2>1 DEF ChunkCompletes
    <2>3. /\ n = serial /\ n \in Exchanges
          /\ chunks' \subseteq ChunksOf(n) /\ Fits(chunks')
      BY <2>1, <2>2, AcceptsFits
    <2> DEFINE S == chunks'
               size == sizes[n]
    <2>4. size \in Offsets /\ \A d \in S : d.offset + d.length <= size
      BY <2>1, <2>3, OwnFits DEF ChunksInv
    <2>5. \A b \in 0 .. Contiguous(S) - 1 : \E d \in S : Covers(d, b)
      BY <2>3, ContiguousFacts
    <2>6. Contiguous(S) \in Nat
      BY <2>3, ContiguousFacts, Constants
    <2>7. Contiguous(S) >= size /\ Fits(S) /\ Apart(S)
      BY <2>1, <2>2, <2>3
    <2>8. Response(S, size) = Bytes(size)
      <3> HIDE DEF S, size
      <3>1. AllReceived(S, size)
        BY <2>4, <2>5, <2>6, <2>7, Constants DEF AllReceived
      <3> QED BY <2>4, <2>7, <3>1, Reassembly
    <2> QED BY <2>1, <2>3, <2>8 DEF ChunkCompletes, ChecksumMatches
  <1> QED BY <1>1, ChunksHold, PTL
=============================================================================
