-------------------------- MODULE ParseOutputProofs --------------------------
(***************************************************************************)
(* What the parsers make of a reply, for every set of names and numbers    *)
(* and any number of frames: what the symbolizer meant.                    *)
(***************************************************************************)
EXTENDS ParseOutput, SequenceTheorems, WellFoundedInduction, TLAPS

Text == Seq(Characters)

-----------------------------------------------------------------------------
(* Induction and concatenation                                             *)

\* Induction over the naturals, for a set instead of a predicate.
LEMMA InductionOverNat ==
  ASSUME NEW S, 0 \in S, \A n \in Nat : n \in S => n + 1 \in S
  PROVE  Nat \subseteq S
<1>. DEFINE T == Nat \ S
<1>. SUFFICES ASSUME T # {} PROVE FALSE
  OBVIOUS
<1>1. PICK x \in T : \A y \in T : ~ (<<y, x>> \in OpToRel(<, Nat))
  <2>1. IsWellFoundedOn(OpToRel(<, Nat), Nat)
    BY NatLessThanWellFounded
  <2>. QED  BY <2>1, WFMin, Zenon
<1>2. x - 1 \in Nat /\ (x - 1) + 1 = x
  OBVIOUS
<1>3. <<x - 1, x>> \in OpToRel(<, Nat)
  BY <1>2 DEF OpToRel
<1>4. x - 1 \in S
  BY <1>1, <1>2, <1>3
<1>. QED  BY <1>2, <1>4

\* Texts under concatenation.
LEMMA TextConcat ==
  /\ <<>> \in Text
  /\ \A x \in Text : <<>> \o x = x /\ x \o <<>> = x
  /\ \A x, y \in Text : x \o y \in Text
  /\ \A x, y, z \in Text : (x \o y) \o z = x \o (y \o z)
<1>1. \A x \in Text : <<>> \o x = x /\ x \o <<>> = x
  BY ConcatEmptySeq DEF Text
<1>2. \A x, y \in Text : x \o y \in Text
  BY ConcatProperties DEF Text
<1>3. \A x, y, z \in Text : (x \o y) \o z = x \o (y \o z)
  <2>. TAKE x, y, z \in Text
  <2>. QED  BY ConcatAssociative DEF Text
<1>. QED  BY <1>1, <1>2, <1>3, EmptySeq DEF Text

\* f is FlattenSeq of the beginnings of seqs, up to the m-th.
Flattens(f, seqs, m) == \A i \in 1..m : f[i] = IF i = 1 THEN seqs[i] ELSE f[i - 1] \o seqs[i]

LEMMA FlattenExists ==
  ASSUME NEW C, NEW seqs \in Seq(Seq(C))
  PROVE  \A m \in 0..Len(seqs) : \E f \in [1..m -> Seq(C)] : Flattens(f, seqs, m)
<1>. DEFINE P(m) == m <= Len(seqs) => \E f \in [1..m -> Seq(C)] : Flattens(f, seqs, m)
            S    == {m \in Nat : P(m)}
<1>1. Len(seqs) \in Nat /\ \A i \in 1..Len(seqs) : seqs[i] \in Seq(C)
  BY EmptySeq
<1>2. P(0)
  <2>. DEFINE f == [i \in 1..0 |-> <<>>]
  <2>1. f \in [1..0 -> Seq(C)] /\ Flattens(f, seqs, 0)
    BY DEF Flattens
  <2>. QED  BY <2>1
<1>3. ASSUME NEW m \in Nat, P(m) PROVE P(m + 1)
  <2>. SUFFICES ASSUME m + 1 <= Len(seqs)
                PROVE  \E f \in [1..m + 1 -> Seq(C)] : Flattens(f, seqs, m + 1)
    OBVIOUS
  <2>1. PICK f \in [1..m -> Seq(C)] : Flattens(f, seqs, m)
    BY <1>1, <1>3
  <2>. DEFINE last == IF m = 0 THEN seqs[1] ELSE f[m] \o seqs[m + 1]
              g    == [i \in 1..m + 1 |-> IF i = m + 1 THEN last ELSE f[i]]
  <2>2. last \in Seq(C)
    BY <1>1, <2>1, ConcatProperties
  <2>3. g \in [1..m + 1 -> Seq(C)]
    BY <2>1, <2>2
  <2>4. ASSUME NEW i \in 1..m + 1 PROVE g[i] = IF i = 1 THEN seqs[i] ELSE g[i - 1] \o seqs[i]
    <3>1. CASE i = m + 1
      BY <3>1
    <3>2. CASE i # m + 1
      <4>1. i \in 1..m /\ (i # 1 => i - 1 \in 1..m)
        BY <3>2
      <4>2. f[i] = IF i = 1 THEN seqs[i] ELSE f[i - 1] \o seqs[i]
        BY <2>1, <4>1 DEF Flattens
      <4>3. g[i] = f[i] /\ (i # 1 => g[i - 1] = f[i - 1])
        <5>1. i \in 1..m + 1 /\ i # m + 1 /\ (i # 1 => i - 1 \in 1..m + 1 /\ i - 1 # m + 1)
          BY <4>1
        <5>. HIDE DEF last
        <5>. QED  BY <5>1
      <4>. HIDE DEF g
      <4>4. CASE i = 1
        BY <4>2, <4>3, <4>4
      <4>5. CASE i # 1
        <5>1. f[i] = f[i - 1] \o seqs[i] /\ g[i] = f[i] /\ g[i - 1] = f[i - 1]
          BY <4>2, <4>3, <4>5
        <5>. QED  BY <4>5, <5>1, Zenon
      <4>. QED  BY <4>4, <4>5
    <3>. QED  BY <3>1, <3>2
  <2>. HIDE DEF g
  <2>5. Flattens(g, seqs, m + 1)
    BY <2>4 DEF Flattens
  <2>. QED  BY <2>3, <2>5
<1>. HIDE DEF P
<1>4. Nat \subseteq S
  <2>1. 0 \in S /\ \A n \in Nat : n \in S => n + 1 \in S
    BY <1>2, <1>3
  <2>. HIDE DEF S
  <2>. QED  BY <2>1, InductionOverNat
<1>. QED  BY <1>1, <1>4 DEF P

LEMMA FlattensType ==
  ASSUME NEW C, NEW seqs \in Seq(Seq(C)), NEW f, Flattens(f, seqs, Len(seqs))
  PROVE  \A i \in 1..Len(seqs) : f[i] \in Seq(C)
<1>. DEFINE S == {i \in Nat : i \in 1..Len(seqs) => f[i] \in Seq(C)}
<1>1. Len(seqs) \in Nat /\ \A i \in 1..Len(seqs) : seqs[i] \in Seq(C)
  BY EmptySeq
<1>2. 0 \in S
  OBVIOUS
<1>3. ASSUME NEW i \in Nat, i \in S PROVE i + 1 \in S
  <2>. SUFFICES ASSUME i + 1 \in 1..Len(seqs) PROVE f[i + 1] \in Seq(C)
    OBVIOUS
  <2>1. CASE i = 0
    <3>1. 1 \in 1..Len(seqs) /\ i + 1 = 1
      BY <2>1
    <3>2. f[1] = seqs[1]
      BY <3>1 DEF Flattens
    <3>. QED  BY <1>1, <3>1, <3>2
  <2>2. CASE i # 0
    <3>1. i \in 1..Len(seqs) /\ f[i] \in Seq(C) /\ seqs[i + 1] \in Seq(C)
      BY <1>1, <1>3, <2>2
    <3>2. f[i + 1] = f[i] \o seqs[i + 1]
      <4>1. i + 1 # 1 /\ (i + 1) - 1 = i
        BY <2>2
      <4>. QED  BY <4>1 DEF Flattens
    <3>. QED  BY <3>1, <3>2, ConcatProperties
  <2>. QED  BY <2>1, <2>2
<1>4. Nat \subseteq S
  <2>. HIDE DEF S
  <2>. QED  BY <1>2, <1>3, InductionOverNat
<1>. QED  BY <1>1, <1>4

\* FlattenSeq concatenates from the left.
LEMMA FlattenIs ==
  ASSUME NEW C, NEW seqs \in Seq(Seq(C)), Len(seqs) # 0
  PROVE  \E f \in [1..Len(seqs) -> Seq(C)] : Flattens(f, seqs, Len(seqs)) /\ FlattenSeq(seqs) = f[Len(seqs)]
<1>. DEFINE flatten == CHOOSE f : f = [i \in 1..Len(seqs) |-> IF i = 1 THEN seqs[i] ELSE f[i - 1] \o seqs[i]]
<1>1. Len(seqs) \in Nat /\ \A i \in 1..Len(seqs) : seqs[i] \in Seq(C)
  BY EmptySeq
<1>2. PICK f \in [1..Len(seqs) -> Seq(C)] : Flattens(f, seqs, Len(seqs))
  <2>1. Len(seqs) \in 0..Len(seqs)
    BY <1>1
  <2>2. \A m \in 0..Len(seqs) : \E f \in [1..m -> Seq(C)] : Flattens(f, seqs, m)
    BY FlattenExists, Zenon
  <2>. QED  BY <2>1, <2>2, Zenon
<1>3. f = [i \in 1..Len(seqs) |-> IF i = 1 THEN seqs[i] ELSE f[i - 1] \o seqs[i]]
  BY <1>2, Zenon DEF Flattens
<1>4. flatten = [i \in 1..Len(seqs) |-> IF i = 1 THEN seqs[i] ELSE flatten[i - 1] \o seqs[i]]
  BY <1>3, Zenon
<1>5. FlattenSeq(seqs) = flatten[Len(seqs)]
  BY DEF FlattenSeq
<1>. HIDE DEF flatten
<1>6. Flattens(flatten, seqs, Len(seqs))
  BY <1>4 DEF Flattens
<1>7. flatten = [i \in 1..Len(seqs) |-> flatten[i]]
  <2>. USE DEF flatten
  <2>. QED  BY <1>3, Zenon
<1>8. flatten \in [1..Len(seqs) -> Seq(C)]
  BY <1>6, <1>7, FlattensType
<1>. QED  BY <1>5, <1>6, <1>8

\* The concatenation of the beginnings of seqs, the empty one included.
LEMMA FlattenJoins ==
  ASSUME NEW C, NEW seqs \in Seq(Seq(C))
  PROVE  \E J \in [0..Len(seqs) -> Seq(C)] :
           /\ J[0] = <<>> /\ J[Len(seqs)] = FlattenSeq(seqs)
           /\ \A n \in 1..Len(seqs) : J[n] = J[n - 1] \o seqs[n]
<1>1. Len(seqs) \in Nat /\ \A i \in 1..Len(seqs) : seqs[i] \in Seq(C)
  BY EmptySeq
<1>2. CASE Len(seqs) = 0
  <2>. DEFINE J == [n \in 0..0 |-> <<>>]
  <2>1. seqs = <<>> /\ <<>> \in Seq(C)
    BY <1>2, EmptySeq
  <2>2. FlattenSeq(seqs) = <<>>
    BY <1>2, <2>1 DEF FlattenSeq
  <2>3. J \in [0..Len(seqs) -> Seq(C)] /\ J[0] = <<>>
    BY <1>2, <2>1
  <2>. HIDE DEF J
  <2>. QED  BY <1>2, <2>2, <2>3
<1>3. CASE Len(seqs) # 0
  <2>1. PICK f \in [1..Len(seqs) -> Seq(C)] : Flattens(f, seqs, Len(seqs)) /\ FlattenSeq(seqs) = f[Len(seqs)]
    BY <1>3, FlattenIs
  <2>. DEFINE J == [n \in 0..Len(seqs) |-> IF n = 0 THEN <<>> ELSE f[n]]
  <2>2. J \in [0..Len(seqs) -> Seq(C)] /\ J[0] = <<>> /\ J[Len(seqs)] = FlattenSeq(seqs)
    BY <1>1, <1>3, <2>1, EmptySeq
  <2>3. ASSUME NEW n \in 1..Len(seqs) PROVE J[n] = J[n - 1] \o seqs[n]
    <3>1. J[n] = IF n = 1 THEN seqs[n] ELSE f[n - 1] \o seqs[n]
      <4>1. J[n] = f[n]
        BY <1>1
      <4>. HIDE DEF J
      <4>. QED  BY <2>1, <4>1 DEF Flattens
    <3>2. J[n - 1] = IF n = 1 THEN <<>> ELSE f[n - 1]
      BY <1>1
    <3>. HIDE DEF J
    <3>3. <<>> \o seqs[n] = seqs[n]
      BY <1>1, ConcatEmptySeq
    <3>4. CASE n = 1
      BY <3>1, <3>2, <3>3, <3>4
    <3>5. CASE n # 1
      BY <3>1, <3>2, <3>5
    <3>. QED  BY <3>4, <3>5
  <2>. HIDE DEF J
  <2>. QED  BY <2>2, <2>3
<1>. QED  BY <1>2, <1>3

\* R[n] is what is left of a text after the first n of the m sequences it begins with.
Rests(R, seqs, m, tail) == R[m] = tail /\ \A n \in 1..m : R[n - 1] = seqs[n] \o R[n]

\* A reader who takes the sequences off the left end of the text finds one after the other.
LEMMA FlattenPeels ==
  ASSUME NEW seqs \in Seq(Text), NEW tail \in Text
  PROVE  \E R \in [0..Len(seqs) -> Text] :
           R[0] = FlattenSeq(seqs) \o tail /\ Rests(R, seqs, Len(seqs), tail)
<1>1. Len(seqs) \in Nat /\ \A i \in 1..Len(seqs) : seqs[i] \in Text
  BY EmptySeq DEF Text
<1>2. PICK J \in [0..Len(seqs) -> Text] :
        /\ J[0] = <<>> /\ J[Len(seqs)] = FlattenSeq(seqs)
        /\ \A n \in 1..Len(seqs) : J[n] = J[n - 1] \o seqs[n]
  BY FlattenJoins DEF Text
<1>. DEFINE P(m) == m <= Len(seqs) =>
                      \A t \in Text : \E R \in [0..m -> Text] : R[0] = J[m] \o t /\ Rests(R, seqs, m, t)
            S    == {m \in Nat : P(m)}
<1>3. P(0)
  <2>. SUFFICES ASSUME NEW t \in Text PROVE \E R \in [0..0 -> Text] : R[0] = J[0] \o t /\ Rests(R, seqs, 0, t)
    OBVIOUS
  <2>. DEFINE R == [n \in 0..0 |-> t]
  <2>1. J[0] \o t = t
    BY <1>2, TextConcat
  <2>2. R \in [0..0 -> Text] /\ R[0] = t
    OBVIOUS
  <2>. HIDE DEF R
  <2>3. Rests(R, seqs, 0, t)
    BY <2>2 DEF Rests
  <2>. QED  BY <2>1, <2>2, <2>3
<1>4. ASSUME NEW m \in Nat, P(m) PROVE P(m + 1)
  <2>. SUFFICES ASSUME m + 1 <= Len(seqs), NEW t \in Text
                PROVE  \E R \in [0..m + 1 -> Text] : R[0] = J[m + 1] \o t /\ Rests(R, seqs, m + 1, t)
    OBVIOUS
  <2>1. seqs[m + 1] \in Text /\ J[m] \in Text /\ J[m + 1] = J[m] \o seqs[m + 1]
    <3>1. m + 1 \in 1..Len(seqs) /\ m \in 0..Len(seqs) /\ (m + 1) - 1 = m
      BY <1>1
    <3>. QED  BY <1>1, <1>2, <3>1
  <2>2. seqs[m + 1] \o t \in Text
    BY <2>1, TextConcat
  <2>3. PICK Q \in [0..m -> Text] : Q[0] = J[m] \o (seqs[m + 1] \o t) /\ Rests(Q, seqs, m, seqs[m + 1] \o t)
    <3>1. \A u \in Text : \E Q \in [0..m -> Text] : Q[0] = J[m] \o u /\ Rests(Q, seqs, m, u)
      <4>1. m <= Len(seqs)
        BY <1>1
      <4>. QED  BY <1>4, <4>1, Zenon
    <3>. QED  BY <2>2, <3>1, Zenon
  <2>4. Q[0] = J[m + 1] \o t
    <3>1. (J[m] \o seqs[m + 1]) \o t = J[m] \o (seqs[m + 1] \o t)
      BY <2>1, TextConcat, Zenon
    <3>. QED  BY <2>1, <2>3, <3>1
  <2>. DEFINE R == [n \in 0..m + 1 |-> IF n = m + 1 THEN t ELSE Q[n]]
  <2>5. R \in [0..m + 1 -> Text] /\ R[0] = Q[0] /\ R[m + 1] = t
    <3>1. 0 \in 0..m + 1 /\ 0 # m + 1
      OBVIOUS
    <3>. QED  BY <3>1
  <2>6. ASSUME NEW n \in 1..m + 1 PROVE R[n - 1] = seqs[n] \o R[n]
    <3>1. R[n - 1] = Q[n - 1]
      BY <2>3
    <3>2. CASE n = m + 1
      <4>1. R[n] = t /\ Q[n - 1] = seqs[m + 1] \o t
        BY <2>3, <3>2 DEF Rests
      <4>. QED  BY <3>1, <3>2, <4>1
    <3>3. CASE n # m + 1
      <4>1. n \in 1..m /\ R[n] = Q[n]
        BY <2>3, <3>3
      <4>2. Q[n - 1] = seqs[n] \o Q[n]
        BY <2>3, <4>1 DEF Rests
      <4>. QED  BY <3>1, <4>1, <4>2
    <3>. QED  BY <3>2, <3>3
  <2>. HIDE DEF R
  <2>7. Rests(R, seqs, m + 1, t)
    BY <2>5, <2>6 DEF Rests
  <2>. QED  BY <2>4, <2>5, <2>7
<1>. HIDE DEF P
<1>5. Nat \subseteq S
  <2>1. 0 \in S /\ \A n \in Nat : n \in S => n + 1 \in S
    BY <1>3, <1>4
  <2>. HIDE DEF S
  <2>. QED  BY <2>1, InductionOverNat
<1>6. P(Len(seqs))
  BY <1>1, <1>5
<1>7. \A t \in Text : \E R \in [0..Len(seqs) -> Text] :
        R[0] = J[Len(seqs)] \o t /\ Rests(R, seqs, Len(seqs), t)
  <2>1. Len(seqs) <= Len(seqs)
    BY <1>1
  <2>. QED  BY <1>6, <2>1, Zenon DEF P
<1>. QED  BY <1>2, <1>7

-----------------------------------------------------------------------------
(* Characters of a text                                                    *)

\* The length and the characters of a text, of a joined one and of a part of one.
LEMMA TextChars ==
  /\ \A x \in Text : Len(x) \in Nat /\ DOMAIN x = 1..Len(x) /\ \A k \in 1..Len(x) : x[k] \in Characters
  /\ \A d \in Characters : <<d>> \in Text /\ Len(<<d>>) = 1 /\ <<d>>[1] = d
  /\ Len(<<>>) = 0
<1>1. \A x \in Text : Len(x) \in Nat /\ DOMAIN x = 1..Len(x) /\ \A k \in 1..Len(x) : x[k] \in Characters
  BY LenProperties, ElementOfSeq DEF Text
<1>2. ASSUME NEW d \in Characters PROVE <<d>> \in Text /\ Len(<<d>>) = 1 /\ <<d>>[1] = d
  <2>1. Len(<<d>>) = 1 /\ <<d>>[1] = d
    OBVIOUS
  <2>2. <<d>> \in Seq({d})
    OBVIOUS
  <2>3. {d} \subseteq Characters
    OBVIOUS
  <2>4. <<d>> \in Text
    BY <2>2, <2>3, SeqMonotonic DEF Text
  <2>. QED  BY <2>1, <2>4
<1>3. Len(<<>>) = 0
  BY EmptySeq
<1>. QED  BY <1>1, <1>2, <1>3

LEMMA JoinedChars ==
  \A x, y \in Text :
    /\ Len(x \o y) = Len(x) + Len(y)
    /\ \A k \in 1..Len(x) : (x \o y)[k] = x[k]
    /\ \A k \in 1..Len(y) : (x \o y)[Len(x) + k] = y[k]
<1>. SUFFICES ASSUME NEW x \in Seq(Characters), NEW y \in Seq(Characters)
              PROVE  /\ Len(x \o y) = Len(x) + Len(y)
                     /\ \A k \in 1..Len(x) : (x \o y)[k] = x[k]
                     /\ \A k \in 1..Len(y) : (x \o y)[Len(x) + k] = y[k]
  BY DEF Text
<1>1. Len(x) \in Nat /\ Len(y) \in Nat
  BY LenProperties
<1>2. Len(x \o y) = Len(x) + Len(y)
  BY ConcatProperties
<1>3. \A i \in 1..Len(x) + Len(y) : (x \o y)[i] = IF i <= Len(x) THEN x[i] ELSE y[i - Len(x)]
  BY ConcatProperties
<1>4. ASSUME NEW k \in 1..Len(y) PROVE (x \o y)[Len(x) + k] = y[k]
  <2>1. Len(x) + k \in 1..Len(x) + Len(y) /\ ~(Len(x) + k <= Len(x)) /\ (Len(x) + k) - Len(x) = k
    BY <1>1
  <2>. QED  BY <1>3, <2>1
<1>5. ASSUME NEW k \in 1..Len(x) PROVE (x \o y)[k] = x[k]
  BY <1>1, <1>3
<1>. QED  BY <1>2, <1>4, <1>5

LEMMA PartChars ==
  \A x \in Text, m \in Nat \ {0}, n \in Nat :
    /\ n < m => SubSeq(x, m, n) = <<>>
    /\ m <= n + 1 /\ n <= Len(x) =>
         /\ SubSeq(x, m, n) \in Text
         /\ Len(SubSeq(x, m, n)) = n - m + 1
         /\ \A k \in 1..n - m + 1 : SubSeq(x, m, n)[k] = x[m + k - 1]
<1>. SUFFICES ASSUME NEW x \in Seq(Characters), NEW m \in Nat \ {0}, NEW n \in Nat
              PROVE  /\ n < m => SubSeq(x, m, n) = <<>>
                     /\ m <= n + 1 /\ n <= Len(x) =>
                          /\ SubSeq(x, m, n) \in Seq(Characters)
                          /\ Len(SubSeq(x, m, n)) = n - m + 1
                          /\ \A k \in 1..n - m + 1 : SubSeq(x, m, n)[k] = x[m + k - 1]
  BY DEF Text
<1>1. n < m => SubSeq(x, m, n) = <<>>
  BY SubSeqEmpty
<1>2. ASSUME m <= n + 1, n <= Len(x)
      PROVE  /\ SubSeq(x, m, n) \in Seq(Characters)
             /\ Len(SubSeq(x, m, n)) = n - m + 1
             /\ \A k \in 1..n - m + 1 : SubSeq(x, m, n)[k] = x[m + k - 1]
  <2>1. \A k \in m..n : x[k] \in Characters
    BY <1>2, LenProperties, ElementOfSeq
  <2>2. m \in Int /\ n \in Int
    OBVIOUS
  <2>3. /\ SubSeq(x, m, n) \in Seq(Characters)
        /\ Len(SubSeq(x, m, n)) = IF m <= n THEN n - m + 1 ELSE 0
        /\ \A i \in 1..n - m + 1 : SubSeq(x, m, n)[i] = x[m + i - 1]
    BY <2>1, <2>2, SubSeqProperties
  <2>. QED  BY <1>2, <2>3
<1>. QED  BY <1>1, <1>2

LEMMA SameChars ==
  \A x, y \in Text : Len(x) = Len(y) /\ (\A k \in 1..Len(x) : x[k] = y[k]) => x = y
<1>. SUFFICES ASSUME NEW x \in Seq(Characters), NEW y \in Seq(Characters), Len(x) = Len(y), \A k \in 1..Len(x) : x[k] = y[k]
              PROVE  x = y
  BY DEF Text
<1>. QED  BY SeqEqual

-----------------------------------------------------------------------------
(* Tokens                                                                  *)

Free(s, delims) == \A k \in 1..Len(s) : s[k] \notin delims

LEMMA PrefixLenIs ==
  ASSUME NEW s \in Text, NEW delims, NEW n \in 0..Len(s),
         \A k \in 1..n : s[k] \notin delims, n < Len(s) => s[n + 1] \in delims
  PROVE  PrefixLen(s, delims) = n
<1>. DEFINE Ends(m) == (\A k \in 1..m : s[k] \notin delims) /\ (m < Len(s) => s[m + 1] \in delims)
<1>1. Len(s) \in Nat
  BY TextChars
<1>2. Ends(n)
  OBVIOUS
<1>3. ASSUME NEW m \in 0..Len(s), Ends(m) PROVE m = n
  <2>1. ~ m < n
    <3>. SUFFICES ASSUME m < n PROVE FALSE
      OBVIOUS
    <3>1. m < Len(s) /\ m + 1 \in 1..n
      BY <1>1
    <3>. QED  BY <1>2, <1>3, <3>1
  <2>2. ~ n < m
    <3>. SUFFICES ASSUME n < m PROVE FALSE
      OBVIOUS
    <3>1. n < Len(s) /\ n + 1 \in 1..m
      BY <1>1
    <3>. QED  BY <1>2, <1>3, <3>1
  <2>. QED  BY <1>1, <2>1, <2>2
<1>4. PrefixLen(s, delims) = CHOOSE m \in 0..Len(s) : Ends(m)
  BY DEF PrefixLen
<1>. HIDE DEF Ends
<1>. QED  BY <1>2, <1>3, <1>4

\* A text, a delimiter and the rest.
LEMMA SplitChars ==
  ASSUME NEW t \in Text, NEW d \in Characters, NEW rest \in Text
  PROVE  LET s == t \o <<d>> \o rest
         IN  /\ s \in Text
             /\ Len(s) = Len(t) + 1 + Len(rest)
             /\ \A k \in 1..Len(t) : s[k] = t[k]
             /\ s[Len(t) + 1] = d
             /\ \A k \in 1..Len(rest) : s[Len(t) + 1 + k] = rest[k]
<1>. DEFINE a == t \o <<d>>
            s == a \o rest
<1>1. <<d>> \in Text /\ Len(<<d>>) = 1 /\ <<d>>[1] = d /\ Len(t) \in Nat /\ Len(rest) \in Nat
  BY TextChars
<1>2. a \in Text /\ Len(a) = Len(t) + 1 /\ (\A k \in 1..Len(t) : a[k] = t[k]) /\ a[Len(t) + 1] = d
  <2>1. a \in Text /\ Len(a) = Len(t) + Len(<<d>>) /\ (\A k \in 1..Len(t) : a[k] = t[k])
        /\ \A k \in 1..Len(<<d>>) : a[Len(t) + k] = <<d>>[k]
    BY <1>1, TextConcat, JoinedChars
  <2>. HIDE DEF a
  <2>2. a[Len(t) + 1] = d
    <3>1. 1 \in 1..Len(<<d>>)
      BY <1>1
    <3>. QED  BY <1>1, <2>1, <3>1, Zenon
  <2>. QED  BY <1>1, <2>1, <2>2
<1>. HIDE DEF a
<1>3. s \in Text /\ Len(s) = Len(a) + Len(rest) /\ (\A k \in 1..Len(a) : s[k] = a[k])
      /\ \A k \in 1..Len(rest) : s[Len(a) + k] = rest[k]
  BY <1>2, TextConcat, JoinedChars
<1>. HIDE DEF s
<1>4. Len(s) = Len(t) + 1 + Len(rest)
  BY <1>2, <1>3, Zenon
<1>5. \A k \in 1..Len(rest) : s[Len(t) + 1 + k] = rest[k]
  BY <1>2, <1>3, Zenon
<1>6. \A k \in 1..Len(t) + 1 : s[k] = a[k]
  BY <1>2, <1>3, Zenon
<1>7. s[Len(t) + 1] = d /\ \A k \in 1..Len(t) : s[k] = t[k]
  <2>1. Len(t) \in Nat
    BY TextChars
  <2>2. Len(t) + 1 \in 1..Len(t) + 1 /\ \A k \in 1..Len(t) : k \in 1..Len(t) + 1
    BY <2>1
  <2>. QED  BY <1>2, <1>6, <2>2, Zenon
<1>. QED  BY <1>3, <1>4, <1>5, <1>7 DEF s, a

\* A text and two characters.
LEMMA MarkedChars ==
  ASSUME NEW t \in Text, NEW d \in Characters, NEW q \in Characters
  PROVE  LET s == t \o <<d>> \o <<q>>
         IN  s \in Text /\ Len(s) = Len(t) + 2 /\ s[Len(t) + 1] = d /\ s[Len(t) + 2] = q
<1>. DEFINE first == <<d>>
            mark  == <<q>>
            a     == t \o first
            s     == a \o mark
<1>1. /\ first \in Text /\ Len(first) = 1 /\ first[1] = d
      /\ mark \in Text /\ Len(mark) = 1 /\ mark[1] = q
      /\ Len(t) \in Nat
  BY TextChars
<1>. HIDE DEF first, mark
<1>2. a \in Text /\ Len(a) = Len(t) + Len(first) /\ \A k \in 1..Len(first) : a[Len(t) + k] = first[k]
  BY <1>1, TextConcat, JoinedChars
<1>. HIDE DEF a
<1>3. s \in Text /\ Len(s) = Len(a) + Len(mark)
      /\ (\A k \in 1..Len(a) : s[k] = a[k]) /\ \A k \in 1..Len(mark) : s[Len(a) + k] = mark[k]
  BY <1>1, <1>2, TextConcat, JoinedChars
<1>. HIDE DEF s
<1>4. 1 \in 1..Len(first) /\ 1 \in 1..Len(mark) /\ Len(t) + 1 \in 1..Len(a)
      /\ Len(a) = Len(t) + 1 /\ Len(a) + 1 = Len(t) + 2 /\ Len(s) = Len(t) + 2
  BY <1>1, <1>2, <1>3
<1>5. a[Len(t) + 1] = d /\ s[Len(t) + 1] = a[Len(t) + 1] /\ s[Len(a) + 1] = q
  BY <1>1, <1>2, <1>3, <1>4, Zenon
<1>6. s \in Text /\ Len(s) = Len(t) + 2 /\ s[Len(t) + 1] = d /\ s[Len(t) + 2] = q
  BY <1>3, <1>4, <1>5
<1>. QED  BY <1>6 DEF s, a, first, mark

LEMMA SplitNotEmpty ==
  ASSUME NEW t \in Text, NEW d \in Characters, NEW rest \in Text
  PROVE  t \o <<d>> \o rest # <<>>
<1>. DEFINE s == t \o <<d>> \o rest
<1>1. Len(s) = Len(t) + 1 + Len(rest)
  BY SplitChars
<1>. HIDE DEF s
<1>2. Len(t) \in Nat /\ Len(rest) \in Nat
  BY TextChars
<1>3. Len(s) # 0
  BY <1>1, <1>2
<1>4. s # <<>>
  BY <1>3, TextChars
<1>. QED  BY <1>4 DEF s

\* ExtractToken of a text that was cut behind its first L characters: the token is what was
\* printed in front of the first delimiter, the rest what was printed behind it.
LEMMA TokenOfCut ==
  ASSUME NEW t \in Text, NEW d \in Characters, NEW rest \in Text, NEW delims, d \in delims, Free(t, delims),
         NEW L \in 0..Len(t) + 1 + Len(rest)
  PROVE  ExtractToken(SubSeq(t \o <<d>> \o rest, 1, L), delims) =
           IF L <= Len(t) THEN [token |-> SubSeq(t, 1, L), rest |-> <<>>]
                          ELSE [token |-> t, rest |-> SubSeq(rest, 1, L - Len(t) - 1)]
<1>. DEFINE s == t \o <<d>> \o rest
            x == SubSeq(s, 1, L)
<1>1. /\ s \in Text
      /\ Len(s) = Len(t) + 1 + Len(rest)
      /\ \A k \in 1..Len(t) : s[k] = t[k]
      /\ s[Len(t) + 1] = d
      /\ \A k \in 1..Len(rest) : s[Len(t) + 1 + k] = rest[k]
  BY SplitChars
<1>. HIDE DEF s
<1>2. Len(t) \in Nat /\ Len(rest) \in Nat /\ L \in Nat /\ L <= Len(s)
  BY <1>1, TextChars
<1>3. x \in Text /\ Len(x) = L /\ \A k \in 1..L : x[k] = s[k]
  <2>1. SubSeq(s, 1, L) \in Text /\ Len(SubSeq(s, 1, L)) = L - 1 + 1
        /\ \A k \in 1..L - 1 + 1 : SubSeq(s, 1, L)[k] = s[1 + k - 1]
    BY <1>1, <1>2, PartChars
  <2>. HIDE DEF x
  <2>2. \A k \in 1..L : k \in 1..L - 1 + 1 /\ 1 + k - 1 = k
    BY <1>2
  <2>. QED  BY <1>2, <2>1, <2>2 DEF x
<1>. HIDE DEF x
<1>4. CASE L <= Len(t)
  <2>1. PrefixLen(x, delims) = L
    <3>1. \A k \in 1..L : x[k] \notin delims
      BY <1>1, <1>2, <1>3, <1>4 DEF Free
    <3>2. L \in 0..Len(x) /\ ~ L < Len(x)
      BY <1>2, <1>3
    <3>. QED  BY <1>3, <3>1, <3>2, PrefixLenIs
  <2>2. SubSeq(x, 1, L) = SubSeq(t, 1, L)
    <3>. DEFINE p == SubSeq(x, 1, L)
                q == SubSeq(t, 1, L)
    <3>1. p \in Text /\ Len(p) = L - 1 + 1 /\ \A k \in 1..L - 1 + 1 : p[k] = x[1 + k - 1]
      BY <1>2, <1>3, PartChars
    <3>2. q \in Text /\ Len(q) = L - 1 + 1 /\ \A k \in 1..L - 1 + 1 : q[k] = t[1 + k - 1]
      BY <1>2, <1>4, PartChars
    <3>. HIDE DEF p, q
    <3>3. \A k \in 1..Len(p) : p[k] = q[k]
      BY <1>1, <1>2, <1>3, <1>4, <3>1, <3>2
    <3>4. p = q
      BY <3>1, <3>2, <3>3, SameChars
    <3>. QED  BY <3>4 DEF p, q
  <2>3. SubSeq(x, L + 2, Len(x)) = <<>>
    BY <1>2, <1>3, PartChars
  <2>. QED  BY <1>4, <2>1, <2>2, <2>3 DEF ExtractToken, x, s
<1>5. CASE L > Len(t)
  <2>1. PrefixLen(x, delims) = Len(t)
    <3>1. \A k \in 1..Len(t) : x[k] \notin delims
      BY <1>1, <1>2, <1>3, <1>5 DEF Free
    <3>2. Len(t) \in 0..Len(x) /\ x[Len(t) + 1] \in delims
      <4>1. Len(t) + 1 \in 1..L /\ Len(t) \in 0..L
        BY <1>2, <1>5
      <4>. QED  BY <1>1, <1>3, <4>1, Zenon
    <3>. QED  BY <1>3, <3>1, <3>2, PrefixLenIs
  <2>2. SubSeq(x, 1, Len(t)) = t
    <3>. DEFINE p == SubSeq(x, 1, Len(t))
    <3>1. p \in Text /\ Len(p) = Len(t) - 1 + 1 /\ \A k \in 1..Len(t) - 1 + 1 : p[k] = x[1 + k - 1]
      BY <1>2, <1>3, <1>5, PartChars
    <3>. HIDE DEF p
    <3>2. Len(p) = Len(t) /\ \A k \in 1..Len(p) : p[k] = t[k]
      BY <1>1, <1>2, <1>3, <1>5, <3>1
    <3>3. p = t
      BY <3>1, <3>2, SameChars
    <3>. QED  BY <3>3 DEF p
  <2>3. SubSeq(x, Len(t) + 2, Len(x)) = SubSeq(rest, 1, L - Len(t) - 1)
    <3>. DEFINE M == L - Len(t) - 1
                p == SubSeq(x, Len(t) + 2, Len(x))
                q == SubSeq(rest, 1, M)
    <3>1. M \in Nat /\ M <= Len(rest) /\ L = Len(t) + 1 + M
      BY <1>1, <1>2, <1>5
    <3>. HIDE DEF M
    <3>2. p \in Text /\ Len(p) = M /\ \A k \in 1..M : p[k] = x[Len(t) + 1 + k]
      <4>1. Len(t) + 2 \in Nat \ {0} /\ L \in Nat /\ Len(t) + 2 <= L + 1 /\ L <= Len(x)
            /\ L - (Len(t) + 2) + 1 = M /\ \A k \in 1..M : Len(t) + 2 + k - 1 = Len(t) + 1 + k
        BY <1>2, <1>3, <3>1
      <4>2. p \in Text /\ Len(p) = L - (Len(t) + 2) + 1
            /\ \A k \in 1..L - (Len(t) + 2) + 1 : p[k] = x[Len(t) + 2 + k - 1]
        BY <1>3, <4>1, PartChars
      <4>. HIDE DEF p
      <4>. QED  BY <4>1, <4>2
    <3>3. q \in Text /\ Len(q) = M - 1 + 1 /\ \A k \in 1..M - 1 + 1 : q[k] = rest[1 + k - 1]
      BY <3>1, PartChars
    <3>. HIDE DEF p, q
    <3>4. ASSUME NEW k \in 1..M PROVE p[k] = q[k]
      <4>1. Len(t) + 1 + k \in 1..L /\ k \in 1..Len(rest) /\ k \in 1..M - 1 + 1 /\ 1 + k - 1 = k
        BY <1>2, <3>1
      <4>. QED  BY <1>1, <1>3, <3>2, <3>3, <4>1
    <3>5. Len(q) = M
      BY <3>1, <3>3
    <3>6. p = q
      BY <3>2, <3>3, <3>4, <3>5, SameChars
    <3>. QED  BY <3>6 DEF p, q, M
  <2>4. ExtractToken(x, delims) = [token |-> t, rest |-> SubSeq(rest, 1, L - Len(t) - 1)]
    BY <2>1, <2>2, <2>3, Zenon DEF ExtractToken
  <2>5. ~ L <= Len(t)
    BY <1>2, <1>5
  <2>. QED  BY <2>4, <2>5, Zenon DEF x, s
<1>. QED  BY <1>2, <1>4, <1>5

\* The two sides of a delimiter.
LEMMA SplitParts ==
  ASSUME NEW t \in Text, NEW d \in Characters, NEW rest \in Text
  PROVE  LET s == t \o <<d>> \o rest
         IN  /\ SubSeq(s, 1, Len(t)) = t
             /\ SubSeq(s, Len(t) + 2, Len(s)) = rest
             /\ SubSeq(s, 1, Len(s)) = s
<1>. DEFINE s == t \o <<d>> \o rest
<1>1. /\ s \in Text
      /\ Len(s) = Len(t) + 1 + Len(rest)
      /\ \A k \in 1..Len(t) : s[k] = t[k]
      /\ s[Len(t) + 1] = d
      /\ \A k \in 1..Len(rest) : s[Len(t) + 1 + k] = rest[k]
  BY SplitChars
<1>. HIDE DEF s
<1>2. Len(t) \in Nat /\ Len(rest) \in Nat /\ Len(s) \in Nat
  BY <1>1, TextChars
<1>3. SubSeq(s, 1, Len(t)) = t
  <2>. DEFINE p == SubSeq(s, 1, Len(t))
  <2>1. p \in Text /\ Len(p) = Len(t) - 1 + 1 /\ \A k \in 1..Len(t) - 1 + 1 : p[k] = s[1 + k - 1]
    BY <1>1, <1>2, PartChars
  <2>. HIDE DEF p
  <2>2. Len(p) = Len(t) /\ \A k \in 1..Len(p) : p[k] = t[k]
    BY <1>1, <1>2, <2>1
  <2>3. p = t
    BY <2>1, <2>2, SameChars
  <2>. QED  BY <2>3 DEF p
<1>4. SubSeq(s, Len(t) + 2, Len(s)) = rest
  <2>. DEFINE p == SubSeq(s, Len(t) + 2, Len(s))
  <2>1. Len(t) + 2 \in Nat \ {0} /\ Len(t) + 2 <= Len(s) + 1 /\ Len(s) <= Len(s)
        /\ Len(s) - (Len(t) + 2) + 1 = Len(rest) /\ \A k \in 1..Len(rest) : Len(t) + 2 + k - 1 = Len(t) + 1 + k
    BY <1>1, <1>2
  <2>2. p \in Text /\ Len(p) = Len(s) - (Len(t) + 2) + 1
        /\ \A k \in 1..Len(s) - (Len(t) + 2) + 1 : p[k] = s[Len(t) + 2 + k - 1]
    BY <1>1, <1>2, <2>1, PartChars
  <2>. HIDE DEF p
  <2>3. Len(p) = Len(rest) /\ \A k \in 1..Len(p) : p[k] = rest[k]
    <3>1. Len(p) = Len(rest)
      BY <2>1, <2>2
    <3>2. ASSUME NEW k \in 1..Len(rest) PROVE p[k] = rest[k]
      <4>1. p[k] = s[Len(t) + 1 + k]
        BY <2>1, <2>2
      <4>. QED  BY <1>1, <4>1, Zenon
    <3>. QED  BY <3>1, <3>2
  <2>4. p = rest
    BY <2>2, <2>3, SameChars
  <2>. QED  BY <2>4 DEF p
<1>5. SubSeq(s, 1, Len(s)) = s
  <2>. DEFINE p == SubSeq(s, 1, Len(s))
  <2>1. p \in Text /\ Len(p) = Len(s) - 1 + 1 /\ \A k \in 1..Len(s) - 1 + 1 : p[k] = s[1 + k - 1]
    BY <1>1, <1>2, PartChars
  <2>. HIDE DEF p
  <2>2. Len(p) = Len(s) /\ \A k \in 1..Len(p) : p[k] = s[k]
    BY <1>2, <2>1
  <2>3. p = s
    BY <1>1, <2>1, <2>2, SameChars
  <2>. QED  BY <2>3 DEF p
<1>. QED  BY <1>3, <1>4, <1>5 DEF s

\* ExtractToken of a text with a delimiter in it, and of one without.
LEMMA TokenOfWhole ==
  ASSUME NEW t \in Text, NEW d \in Characters, NEW rest \in Text, NEW delims, d \in delims, Free(t, delims)
  PROVE  ExtractToken(t \o <<d>> \o rest, delims) = [token |-> t, rest |-> rest]
<1>. DEFINE s == t \o <<d>> \o rest
            n == Len(t)
<1>1. s \in Text /\ Len(s) = n + 1 + Len(rest) /\ s[n + 1] = d /\ \A k \in 1..n : s[k] = t[k]
  BY SplitChars
<1>2. SubSeq(s, 1, n) = t /\ SubSeq(s, n + 2, Len(s)) = rest
  BY SplitParts
<1>3. n \in Nat /\ Len(rest) \in Nat
  BY TextChars
<1>4. Free(t, delims)
  OBVIOUS
<1>. HIDE DEF s
<1>5. PrefixLen(s, delims) = n
  <2>1. n \in 0..Len(s) /\ \A k \in 1..n : s[k] \notin delims
    BY <1>1, <1>3, <1>4 DEF Free
  <2>2. s[n + 1] \in delims
    BY <1>1
  <2>. HIDE DEF n
  <2>. QED  BY <1>1, <2>1, <2>2, PrefixLenIs
<1>6. ExtractToken(s, delims) = [token |-> t, rest |-> rest]
  BY <1>2, <1>5, Zenon DEF ExtractToken
<1>. QED  BY <1>6 DEF s

LEMMA TokenOfAll ==
  ASSUME NEW t \in Text, NEW delims, Free(t, delims)
  PROVE  PrefixLen(t, delims) = Len(t) /\ ExtractToken(t, delims) = [token |-> t, rest |-> <<>>]
<1>1. Len(t) \in Nat
  BY TextChars
<1>2. PrefixLen(t, delims) = Len(t)
  <2>1. Len(t) \in 0..Len(t) /\ ~ Len(t) < Len(t)
    BY <1>1
  <2>2. \A k \in 1..Len(t) : t[k] \notin delims
    BY DEF Free
  <2>. QED  BY <2>1, <2>2, PrefixLenIs
<1>3. SubSeq(t, 1, Len(t)) = t
  <2>. DEFINE p == SubSeq(t, 1, Len(t))
  <2>1. p \in Text /\ Len(p) = Len(t) - 1 + 1 /\ \A k \in 1..Len(t) - 1 + 1 : p[k] = t[1 + k - 1]
    BY <1>1, PartChars
  <2>. HIDE DEF p
  <2>2. Len(p) = Len(t) /\ \A k \in 1..Len(p) : p[k] = t[k]
    BY <1>1, <2>1
  <2>3. p = t
    BY <2>1, <2>2, SameChars
  <2>. QED  BY <2>3 DEF p
<1>4. SubSeq(t, Len(t) + 2, Len(t)) = <<>>
  BY <1>1, PartChars
<1>. QED  BY <1>2, <1>3, <1>4, Zenon DEF ExtractToken

-----------------------------------------------------------------------------
(* Numbers and names                                                       *)

LEMMA DigitsAre ==
  /\ \A c : IsDigit(c) <=> c \in {"0", "1", "7"}
  /\ ~ IsDigit(":") /\ ~ IsDigit("?") /\ ~ IsDigit(Newline) /\ ~ IsDigit(" ")
BY DEF IsDigit, DigitOf, Newline

IsNumber(s) == s \in Text /\ s # <<>> /\ \A k \in 1..Len(s) : IsDigit(s[k])

LEMMA LastColonIs ==
  ASSUME NEW a \in Text, NEW b, IsNumber(b)
  PROVE  LastColon(a \o <<":">> \o b) = Len(a) + 1
<1>. DEFINE s      == a \o <<":">> \o b
            colons == {k \in 1..Len(s) - 1 : s[k] = ":" /\ \A d \in k + 1..Len(s) : IsDigit(s[d])}
<1>1. b \in Text /\ Len(b) \in Nat /\ Len(b) # 0 /\ Len(a) \in Nat /\ \A k \in 1..Len(b) : IsDigit(b[k])
  BY TextChars, EmptySeq DEF IsNumber, Text
<1>2. /\ Len(s) = Len(a) + 1 + Len(b)
      /\ s[Len(a) + 1] = ":"
      /\ \A k \in 1..Len(b) : s[Len(a) + 1 + k] = b[k]
  BY <1>1, SplitChars
<1>. HIDE DEF s
<1>3. \A k \in Len(a) + 2..Len(s) : IsDigit(s[k])
  <2>. TAKE k \in Len(a) + 2..Len(s)
  <2>. DEFINE j == k - (Len(a) + 1)
  <2>1. j \in 1..Len(b) /\ k = Len(a) + 1 + j
    BY <1>1, <1>2
  <2>. HIDE DEF j
  <2>. QED  BY <1>1, <1>2, <2>1
<1>4. Len(a) + 1 \in colons
  <2>1. Len(a) + 1 \in 1..Len(s) - 1 /\ (Len(a) + 1) + 1 = Len(a) + 2
    BY <1>1, <1>2
  <2>. QED  BY <1>2, <1>3, <2>1
<1>5. ASSUME NEW k \in colons PROVE k = Len(a) + 1
  <2>1. k \in 1..Len(s) - 1 /\ s[k] = ":" /\ \A d \in k + 1..Len(s) : IsDigit(s[d])
    OBVIOUS
  <2>2. ~ k < Len(a) + 1
    <3>. SUFFICES ASSUME k < Len(a) + 1 PROVE FALSE
      OBVIOUS
    <3>1. Len(a) + 1 \in k + 1..Len(s)
      BY <1>1, <1>2, <2>1
    <3>. QED  BY <1>2, <2>1, <3>1, DigitsAre
  <2>3. ~ k > Len(a) + 1
    <3>. SUFFICES ASSUME k > Len(a) + 1 PROVE FALSE
      OBVIOUS
    <3>1. k \in Len(a) + 2..Len(s)
      BY <1>1, <1>2, <2>1
    <3>. QED  BY <1>3, <2>1, <3>1, DigitsAre
  <2>. QED  BY <1>1, <2>1, <2>2, <2>3
<1>6. LastColon(s) = IF colons = {} THEN 0 ELSE CHOOSE k \in colons : TRUE
  BY DEF LastColon
<1>. HIDE DEF colons
<1>7. LastColon(s) = Len(a) + 1
  BY <1>4, <1>5, <1>6
<1>. QED  BY <1>7 DEF s

LEMMA NoLastColon ==
  ASSUME NEW s \in Text, s # <<>> => ~ IsDigit(s[Len(s)])
  PROVE  LastColon(s) = 0
<1>. DEFINE colons == {k \in 1..Len(s) - 1 : s[k] = ":" /\ \A d \in k + 1..Len(s) : IsDigit(s[d])}
<1>1. Len(s) \in Nat /\ (s = <<>> => Len(s) = 0)
  BY TextChars
<1>2. ASSUME NEW k \in colons PROVE FALSE
  <2>1. k \in 1..Len(s) - 1 /\ \A d \in k + 1..Len(s) : IsDigit(s[d])
    OBVIOUS
  <2>2. Len(s) \in k + 1..Len(s) /\ Len(s) # 0
    BY <1>1, <2>1
  <2>. QED  BY <1>1, <2>1, <2>2
<1>3. colons = {}
  BY <1>2
<1>. QED  BY <1>3, Zenon DEF LastColon

\* atoll of a text that does not begin with a digit.
LEMMA FoldOfNothing == FoldLeft(LAMBDA value, d : 10 * value + DigitOf[d], 0, <<>>) = 0
<1>. DEFINE F(g)  == [s \in SUBSET DOMAIN <<>> |->
                        IF s = {} THEN 0 ELSE LET x == Max(s) IN 10 * g[s \ {x}] + DigitOf[<<>>[x]]]
            iter  == CHOOSE g : g = F(g)
            zero  == [s \in SUBSET DOMAIN <<>> |-> 0]
<1>1. DOMAIN <<>> = {}
  OBVIOUS
<1>2. zero = F(zero)
  <2>1. \A s \in SUBSET DOMAIN <<>> : s = {}
    BY <1>1
  <2>. QED  BY <2>1, Zenon
<1>3. iter = F(iter)
  BY <1>2, Zenon
<1>4. {} \in SUBSET DOMAIN <<>>
  OBVIOUS
<1>5. F(iter)[{}] = 0
  BY <1>4, Zenon
<1>6. FoldLeft(LAMBDA value, d : 10 * value + DigitOf[d], 0, <<>>) = iter[DOMAIN <<>>]
  BY Zenon DEF FoldLeft, MapThenFoldSet
<1>. HIDE DEF iter, F
<1>. QED  BY <1>1, <1>3, <1>5, <1>6, Zenon

LEMMA NoNumberIsZero == atoll(<<>>) = 0 /\ atoll(<<"?">>) = 0
<1>. DEFINE Stop(s) == {c \in Range(s) : ~ IsDigit(c)}
<1>1. <<>> \in Text /\ <<"?">> \in Text /\ Len(<<"?">>) = 1 /\ <<"?">>[1] = "?" /\ Len(<<>>) = 0
  <2>1. "?" \in Characters
    BY CharactersAssumption
  <2>. QED  BY <2>1, TextConcat, TextChars, Zenon
<1>2. PrefixLen(<<>>, Stop(<<>>)) = 0
  <2>. DEFINE D == Stop(<<>>)
  <2>. HIDE DEF D
  <2>1. PrefixLen(<<>>, D) = 0
    <3>1. 0 \in 0..Len(<<>>) /\ ~ 0 < Len(<<>>) /\ \A k \in 1..0 : <<>>[k] \notin D
      BY <1>1
    <3>. QED  BY <1>1, <3>1, PrefixLenIs
  <2>. QED  BY <2>1 DEF D
<1>3. PrefixLen(<<"?">>, Stop(<<"?">>)) = 0
  <2>. DEFINE D == Stop(<<"?">>)
              q == <<"?">>
  <2>1. 1 \in DOMAIN q
    OBVIOUS
  <2>2. q[1] \in D
    BY <1>1, <2>1, DigitsAre DEF Range
  <2>3. q \in Text /\ Len(q) = 1
    BY <1>1
  <2>. HIDE DEF D, q
  <2>4. PrefixLen(q, D) = 0
    <3>1. 0 \in 0..Len(q) /\ q[0 + 1] = q[1] /\ \A k \in 1..0 : q[k] \notin D
      BY <2>3
    <3>. QED  BY <2>2, <2>3, <3>1, PrefixLenIs
  <2>. QED  BY <2>4 DEF D, q
<1>4. SubSeq(<<>>, 1, 0) = <<>> /\ SubSeq(<<"?">>, 1, 0) = <<>>
  BY <1>1, PartChars
<1>5. atoll(<<>>) = FoldLeft(LAMBDA value, d : 10 * value + DigitOf[d], 0, <<>>)
  BY <1>2, <1>4, Zenon DEF atoll
<1>6. atoll(<<"?">>) = FoldLeft(LAMBDA value, d : 10 * value + DigitOf[d], 0, <<>>)
  BY <1>3, <1>4, Zenon DEF atoll
<1>. QED  BY <1>5, <1>6, FoldOfNothing

\* TakeNumber takes a colon and a number off the right end.
LEMMA TakesNumber ==
  ASSUME NEW a \in Text, NEW b, IsNumber(b), NEW x, NEW y
  PROVE  TakeNumber([file |-> a \o <<":">> \o b, lin |-> x, col |-> y]) = [file |-> a, lin |-> atoll(b), col |-> x]
<1>. DEFINE s == a \o <<":">> \o b
            r == [file |-> s, lin |-> x, col |-> y]
            k == LastColon(s)
<1>1. Len(a) \in Nat /\ b \in Text
  BY TextChars DEF IsNumber
<1>2. k = Len(a) + 1
  BY LastColonIs
<1>3. SubSeq(s, 1, Len(a)) = a /\ SubSeq(s, Len(a) + 2, Len(s)) = b
  <2>. DEFINE d == ":"
  <2>1. d \in Characters
    BY CharactersAssumption
  <2>. HIDE DEF d
  <2>2. LET u == a \o <<d>> \o b IN SubSeq(u, 1, Len(a)) = a /\ SubSeq(u, Len(a) + 2, Len(u)) = b
    BY <1>1, <2>1, SplitParts
  <2>. QED  BY <2>2 DEF d
<1>. HIDE DEF s
<1>4. r.file = s /\ r.lin = x
  OBVIOUS
<1>5. k # 0 /\ k - 1 = Len(a) /\ k + 1 = Len(a) + 2
  BY <1>1, <1>2
<1>. HIDE DEF r, k
<1>6. TakeNumber(r) = [file |-> SubSeq(s, 1, k - 1), lin |-> atoll(SubSeq(s, k + 1, Len(s))), col |-> x]
  BY <1>4, <1>5, Zenon DEF TakeNumber, k
<1>7. TakeNumber(r) = [file |-> a, lin |-> atoll(b), col |-> x]
  BY <1>3, <1>5, <1>6, Zenon
<1>. QED  BY <1>7 DEF r, s

LEMMA TakesNothing ==
  ASSUME NEW r, LastColon(r.file) = 0
  PROVE  TakeNumber(r) = r
BY DEF TakeNumber

\* TrimMark takes the mark of an unknown line off a file name of two characters or more,
\* and leaves a name alone that does not end in one.
LEMMA TrimsMark ==
  ASSUME NEW a \in Text, Len(a) > 1
  PROVE  TrimMark([file |-> a \o <<":">> \o <<"?">>, lin |-> 0, col |-> 0]) = [file |-> a, lin |-> 0, col |-> 0]
<1>. DEFINE c == ":"
            q == "?"
            s == a \o <<c>> \o <<q>>
            m == <<c, q>>
            r == [file |-> s, lin |-> 0, col |-> 0]
<1>1. c \in Characters /\ q \in Characters
  BY CharactersAssumption
<1>. HIDE DEF c, q
<1>2. <<q>> \in Text /\ Len(<<q>>) = 1 /\ <<q>>[1] = q /\ Len(a) \in Nat
  BY <1>1, TextChars
<1>3. s \in Text /\ Len(s) = Len(a) + 2 /\ s[Len(a) + 1] = c /\ s[Len(a) + 2] = q
  BY <1>1, MarkedChars
<1>4. SubSeq(s, 1, Len(a)) = a
  BY <1>1, <1>2, SplitParts
<1>5. m \in Text /\ Len(m) = 2 /\ m[1] = c /\ m[2] = q
  BY <1>1 DEF Text
<1>. HIDE DEF s, m
<1>6. SubSeq(s, Len(a) + 1, Len(a) + 2) = m
  <2>. DEFINE p == SubSeq(s, Len(a) + 1, Len(a) + 2)
  <2>1. Len(a) + 1 \in Nat \ {0} /\ Len(a) + 2 \in Nat /\ Len(a) + 1 <= Len(a) + 2 + 1 /\ Len(a) + 2 <= Len(s)
        /\ Len(a) + 2 - (Len(a) + 1) + 1 = 2 /\ Len(a) + 1 + 1 - 1 = Len(a) + 1 /\ Len(a) + 1 + 2 - 1 = Len(a) + 2
    BY <1>2, <1>3
  <2>2. p \in Text /\ Len(p) = Len(a) + 2 - (Len(a) + 1) + 1
        /\ \A k \in 1..Len(a) + 2 - (Len(a) + 1) + 1 : p[k] = s[Len(a) + 1 + k - 1]
    BY <1>3, <2>1, PartChars
  <2>. HIDE DEF p
  <2>3. Len(p) = 2 /\ \A k \in 1..2 : p[k] = s[Len(a) + 1 + k - 1]
    BY <2>1, <2>2, Zenon
  <2>4. p[1] = c /\ p[2] = q
    BY <1>3, <2>1, <2>3
  <2>5. \A k \in 1..Len(p) : p[k] = m[k]
    BY <1>5, <2>3, <2>4
  <2>6. p = m
    BY <1>5, <2>2, <2>3, <2>5, SameChars
  <2>. QED  BY <2>6 DEF p
<1>7. r.file = s /\ r.lin = 0 /\ [r EXCEPT !.file = SubSeq(s, 1, Len(a))] = [file |-> a, lin |-> 0, col |-> 0]
  BY <1>4
<1>8. Len(s) > 3 /\ Len(s) - 1 = Len(a) + 1 /\ Len(s) - 2 = Len(a) /\ Len(s) = Len(a) + 2
  BY <1>2, <1>3
<1>. HIDE DEF r
<1>9. TrimMark(r) = [r EXCEPT !.file = SubSeq(s, 1, Len(a))]
  <2>1. TrimMark(r) = IF r.lin = 0 /\ Len(s) > 3 /\ SubSeq(s, Len(s) - 1, Len(s)) = m
                      THEN [r EXCEPT !.file = SubSeq(s, 1, Len(s) - 2)] ELSE r
    <3>. DEFINE z == r.file
    <3>1. z = s
      BY <1>7
    <3>2. TrimMark(r) = IF r.lin = 0 /\ Len(z) > 3 /\ SubSeq(z, Len(z) - 1, Len(z)) = m
                        THEN [r EXCEPT !.file = SubSeq(z, 1, Len(z) - 2)] ELSE r
      BY Zenon DEF TrimMark, m, c, q
    <3>. HIDE DEF z
    <3>. QED  BY <3>1, <3>2
  <2>2. r.lin = 0 /\ Len(s) > 3 /\ SubSeq(s, Len(s) - 1, Len(s)) = m
    BY <1>6, <1>7, <1>8
  <2>3. TrimMark(r) = [r EXCEPT !.file = SubSeq(s, 1, Len(s) - 2)]
    BY <2>1, <2>2, Zenon
  <2>. QED  BY <1>8, <2>3, Zenon
<1>. QED  BY <1>7, <1>9 DEF r, s, c, q

LEMMA TrimsNothing ==
  ASSUME NEW r, r.file \in Text, ~ EndsInMark(r.file)
  PROVE  TrimMark(r) = r
<1>. DEFINE s == r.file
            p == SubSeq(s, Len(s) - 1, Len(s))
<1>1. s \in Text /\ Len(s) \in Nat
  BY TextChars
<1>2. ~ EndsInMark(s)
  OBVIOUS
<1>. HIDE DEF s, p
<1>3. ASSUME Len(s) > 3, p = <<":", "?">> PROVE FALSE
  <2>. DEFINE j == Len(s) - 1
              n == Len(s)
  <2>1. j \in Nat \ {0} /\ n \in Nat /\ j <= n + 1 /\ n <= Len(s)
        /\ 1 \in 1..n - j + 1 /\ 2 \in 1..n - j + 1 /\ j + 1 - 1 = j /\ j + 2 - 1 = n
    <3>1. n \in Nat /\ n > 3 /\ j = n - 1 /\ n = Len(s)
      BY <1>1, <1>3
    <3>. HIDE DEF j, n
    <3>. QED  BY <3>1
  <2>2. p = SubSeq(s, j, n)
    BY DEF p
  <2>3. p[1] = ":" /\ p[2] = "?"
    BY <1>3
  <2>. HIDE DEF j, n
  <2>4. \A k \in 1..n - j + 1 : SubSeq(s, j, n)[k] = s[j + k - 1]
    BY <1>1, <2>1, PartChars
  <2>5. s[j] = ":" /\ s[n] = "?"
    <3>1. p[1] = s[j + 1 - 1] /\ p[2] = s[j + 2 - 1]
      BY <2>1, <2>2, <2>4, Zenon
    <3>. QED  BY <2>1, <2>3, <3>1
  <2>. QED  BY <1>2, <1>3, <2>5 DEF EndsInMark, j, n
<1>4. TrimMark(r) = IF r.lin = 0 /\ Len(s) > 3 /\ p = <<":", "?">>
                    THEN [r EXCEPT !.file = SubSeq(@, 1, Len(s) - 2)] ELSE r
  BY Zenon DEF TrimMark, s, p
<1>. QED  BY <1>3, <1>4

-----------------------------------------------------------------------------
(* Frames as they are printed                                              *)

LEMMA FreeJoin ==
  ASSUME NEW t \in Text, NEW d \in Characters, NEW rest \in Text, NEW delims,
         Free(t, delims), d \notin delims, Free(rest, delims)
  PROVE  Free(t \o <<d>> \o rest, delims)
<1>. DEFINE s == t \o <<d>> \o rest
<1>1. /\ Len(s) = Len(t) + 1 + Len(rest)
      /\ \A k \in 1..Len(t) : s[k] = t[k]
      /\ s[Len(t) + 1] = d
      /\ \A k \in 1..Len(rest) : s[Len(t) + 1 + k] = rest[k]
  BY SplitChars
<1>2. Len(t) \in Nat /\ Len(rest) \in Nat
  BY TextChars
<1>. HIDE DEF s
<1>3. ASSUME NEW k \in 1..Len(s) PROVE s[k] \notin delims
  <2>1. CASE k <= Len(t)
    <3>1. k \in 1..Len(t)
      BY <1>2, <2>1
    <3>. QED  BY <1>1, <3>1 DEF Free
  <2>2. CASE k = Len(t) + 1
    BY <1>1, <2>2
  <2>3. CASE k > Len(t) + 1
    <3>. DEFINE j == k - (Len(t) + 1)
    <3>1. j \in 1..Len(rest) /\ k = Len(t) + 1 + j
      BY <1>1, <1>2, <2>3
    <3>. HIDE DEF j
    <3>. QED  BY <1>1, <3>1 DEF Free
  <2>. QED  BY <1>2, <2>1, <2>2, <2>3
<1>. QED  BY <1>3 DEF Free, s

LEMMA NamesAre ==
  ASSUME NEW style \in Styles, NEW n \in Names[style] \cup {Unknown}
  PROVE  /\ n \in Text /\ n # <<>> /\ Free(n, {Newline})
         /\ ~ EndsInMark(n)
         /\ style = "addr2line" => LastColon(n) = 0
<1>1. CASE n \in Names[style]
  <2>1. Names[style] \subseteq Text
    BY NamesAssumption DEF Text
  <2>2. n \in Text /\ n # <<>> /\ \A k \in DOMAIN n : n[k] # Newline
    BY <1>1, <2>1, NamesAssumption DEF Empty
  <2>3. Free(n, {Newline})
    BY <2>2, TextChars DEF Free
  <2>4. ~ EndsInMark(n) /\ (style = "addr2line" => LastColon(n) = 0)
    BY <1>1, PlainNames DEF Ambiguous, EndsInMark
  <2>. QED  BY <2>2, <2>3, <2>4
<1>2. CASE n = Unknown
  <2>. DEFINE q == "?"
              u == <<q, q>>
  <2>1. q \in Characters /\ q # Newline /\ q # ":" /\ ~ IsDigit(q)
    BY CharactersAssumption, DigitsAre DEF Newline
  <2>. HIDE DEF q
  <2>2. u \in Text /\ Len(u) = 2 /\ u[1] = q /\ u[2] = q /\ u # <<>>
    <3>1. u \in Text /\ Len(u) = 2 /\ u[1] = q /\ u[2] = q
      BY <2>1 DEF Text
    <3>. QED  BY <3>1, TextChars
  <2>3. n = u
    BY <1>2 DEF Unknown, q
  <2>. HIDE DEF u
  <2>4. Free(n, {Newline}) /\ ~ EndsInMark(n)
    <3>1. \A k \in 1..2 : k = 1 \/ k = 2
      OBVIOUS
    <3>2. \A k \in 1..Len(u) : u[k] = q
      BY <2>2, <3>1
    <3>3. 2 - 1 = 1
      OBVIOUS
    <3>. QED  BY <2>1, <2>2, <2>3, <3>2, <3>3 DEF Free, EndsInMark
  <2>5. LastColon(n) = 0
    BY <2>1, <2>2, <2>3, NoLastColon
  <2>. QED  BY <2>2, <2>3, <2>4, <2>5
<1>. QED  BY <1>1, <1>2

LEMMA NumbersAre ==
  ASSUME NEW n \in Numbers \cup {NoNumber}
  PROVE  IsNumber(n) /\ \A delims : (\A c \in delims : ~ IsDigit(c)) => Free(n, delims)
<1>1. IsNumber(n)
  <2>1. CASE n \in Numbers
    <3>1. n \in Text /\ n # <<>> /\ \A k \in DOMAIN n : IsDigit(n[k])
      BY <2>1, NumbersAssumption DEF Text, Empty
    <3>. QED  BY <3>1, TextChars DEF IsNumber
  <2>2. CASE n = NoNumber
    <3>. DEFINE z == "0"
    <3>1. z \in Characters /\ IsDigit(z)
      BY CharactersAssumption DEF IsDigit, DigitOf
    <3>. HIDE DEF z
    <3>2. <<z>> \in Text /\ Len(<<z>>) = 1 /\ <<z>>[1] = z
      BY <3>1, TextChars
    <3>3. <<z>> # <<>> /\ \A k \in 1..Len(<<z>>) : IsDigit(<<z>>[k])
      BY <3>1, <3>2
    <3>4. n = <<z>>
      BY <2>2 DEF NoNumber, z
    <3>. QED  BY <3>2, <3>3, <3>4 DEF IsNumber
  <2>. QED  BY <2>1, <2>2
<1>2. ASSUME NEW delims, \A c \in delims : ~ IsDigit(c) PROVE Free(n, delims)
  BY <1>1, <1>2 DEF IsNumber, Free
<1>. QED  BY <1>1, <1>2

\* The parts of a frame that a symbolizer prints.
LEMMA FramesAre ==
  ASSUME NEW style \in Styles, NEW f \in FrameTexts(style)
  PROVE  /\ f.func \in Text /\ f.func # <<>> /\ Free(f.func, {Newline})
         /\ f.file \in Names[style] \cup {Unknown}
         /\ \/ f.lin \in Numbers \cup {NoNumber} /\ f.col \in Numbers \cup {NoNumber} /\ f.col # Empty
            \/ style = "addr2line" /\ f.lin \in Numbers \cup {NoNumber} /\ f.col = Empty
            \/ style = "addr2line" /\ f.lin = <<"?">> /\ f.col = Empty
<1>1. /\ f.func \in Names[style] \cup {Unknown} /\ f.file \in Names[style] \cup {Unknown}
      /\ f.lin \in LineMarks(style) /\ f.col \in Columns(style)
  BY DEF FrameTexts
<1>2. f.func \in Text /\ f.func # <<>> /\ Free(f.func, {Newline})
  BY <1>1, NamesAre
<1>3. CASE style = "addr2line"
  BY <1>1, <1>2, <1>3 DEF LineMarks, Columns
<1>4. CASE style # "addr2line"
  <2>1. f.lin \in Numbers \cup {NoNumber} /\ f.col \in Numbers \cup {NoNumber}
    BY <1>1, <1>4 DEF LineMarks, Columns
  <2>2. f.col # Empty
    BY <2>1, NumbersAre DEF IsNumber, Empty
  <2>. QED  BY <1>1, <1>2, <2>1, <2>2
<1>. QED  BY <1>3, <1>4

\* The line of a frame is one line: it has no newline in it.
LEMMA LineChars ==
  ASSUME NEW style \in Styles, NEW f \in FrameTexts(style)
  PROVE  PrintLine(f) \in Text /\ PrintLine(f) # <<>> /\ Free(PrintLine(f), {Newline})
<1>. DEFINE c == ":"
            q == "?"
            N == {Newline}
            X == f.file \o <<c>> \o f.lin
            line == X \o <<c>> \o f.col
<1>1. c \in Characters /\ c \notin N /\ q \in Characters /\ q \notin N /\ ~ IsDigit(Newline)
  BY CharactersAssumption, DigitsAre DEF Newline
<1>2. f.file \in Text /\ Free(f.file, N)
  BY FramesAre, NamesAre
<1>3. f.lin \in Text /\ Free(f.lin, N)
  <2>1. CASE f.lin \in Numbers \cup {NoNumber}
    <3>1. \A x \in N : ~ IsDigit(x)
      BY <1>1
    <3>. HIDE DEF N
    <3>. QED  BY <2>1, <3>1, NumbersAre DEF IsNumber
  <2>2. CASE f.lin = <<q>>
    <3>. HIDE DEF q
    <3>1. <<q>> \in Text /\ Len(<<q>>) = 1 /\ <<q>>[1] = q
      BY <1>1, TextChars
    <3>2. \A k \in 1..Len(<<q>>) : <<q>>[k] = q
      BY <3>1
    <3>. QED  BY <1>1, <2>2, <3>1, <3>2 DEF Free
  <2>. QED  BY <2>1, <2>2, FramesAre
<1>4. f.col = Empty \/ f.col \in Numbers \cup {NoNumber}
  BY FramesAre
<1>. HIDE DEF c, N, q
<1>5. X \in Text /\ Free(X, N) /\ X # <<>>
  <2>1. X \in Text /\ Len(X) = Len(f.file) + 1 + Len(f.lin)
    BY <1>1, <1>2, <1>3, SplitChars
  <2>2. Free(X, N)
    BY <1>1, <1>2, <1>3, FreeJoin
  <2>3. X # <<>>
    BY <1>1, <1>2, <1>3, SplitNotEmpty
  <2>. HIDE DEF X
  <2>. QED  BY <2>1, <2>2, <2>3
<1>6. CASE f.col = Empty
  <2>1. PrintLine(f) = X \o <<>>
    BY <1>6, Zenon DEF PrintLine, X, c, Empty
  <2>. HIDE DEF X
  <2>2. PrintLine(f) = X
    BY <1>5, <2>1, TextConcat
  <2>. QED  BY <1>5, <2>2 DEF N
<1>7. CASE f.col # Empty
  <2>1. PrintLine(f) = X \o (<<c>> \o f.col)
    BY <1>7, Zenon DEF PrintLine, X, c
  <2>. HIDE DEF X
  <2>2. f.col \in Text /\ Free(f.col, N)
    <3>1. \A x \in N : ~ IsDigit(x)
      BY <1>1 DEF N
    <3>. QED  BY <1>4, <1>7, <3>1, NumbersAre DEF IsNumber
  <2>3. <<c>> \in Text
    BY <1>1, TextChars
  <2>4. PrintLine(f) = line
    BY <1>5, <2>1, <2>2, <2>3, TextConcat, Zenon
  <2>5. line \in Text /\ Len(line) = Len(X) + 1 + Len(f.col)
    BY <1>1, <1>5, <2>2, SplitChars
  <2>6. Free(line, N)
    BY <1>1, <1>5, <2>2, FreeJoin
  <2>7. line # <<>>
    BY <1>1, <1>5, <2>2, SplitNotEmpty
  <2>. HIDE DEF line
  <2>. QED  BY <2>4, <2>5, <2>6, <2>7 DEF N
<1>. QED  BY <1>6, <1>7

\* A name of any other length than one character is read back without the mark.
LEMMA OtherLengthReadWhole ==
  ASSUME NEW f, Len(f.file) # 1
  PROVE  FileRead(f) = f.file
BY Zenon DEF FileRead

\* The mark of a text of three characters stays: the length test wants a longer one.
LEMMA ShortIsKept ==
  ASSUME NEW r, Len(r.file) = 3
  PROVE  TrimMark(r) = r
<1>1. ~ (r.lin = 0 /\ Len(r.file) > 3 /\ SubSeq(r.file, Len(r.file) - 1, Len(r.file)) = <<":", "?">>)
  <2>. DEFINE n == Len(r.file)
  <2>1. n = 3
    OBVIOUS
  <2>. HIDE DEF n
  <2>2. ~ (n > 3)
    BY <2>1
  <2>. QED  BY <2>2, Zenon DEF n
<1>. QED  BY <1>1, Zenon DEF TrimMark

\* The two sides of the length one.
LEMMA IsOne == \A n \in Nat \ {0} : ~ (n > 1) => n = 1
OBVIOUS

LEMMA IsNotOne == \A n \in Nat \ {0} : n > 1 => n # 1
OBVIOUS

\* The line of a frame is understood, but for the mark left behind a name of one character.
LEMMA LineIsMeant ==
  ASSUME NEW style \in Styles, NEW f \in FrameTexts(style)
  PROVE  TrimMark(ParseFileLineInfo(PrintLine(f))) =
           [file |-> FileRead(f), lin |-> atoll(f.lin), col |-> atoll(f.col)]
<1>. DEFINE c == ":"
            X == f.file \o <<c>> \o f.lin
            meant == [file |-> f.file, lin |-> atoll(f.lin), col |-> atoll(f.col)]
            read(l) == [file |-> l, lin |-> 0, col |-> 0]
<1>1. f.file \in Text /\ ~ EndsInMark(f.file) /\ (style = "addr2line" => LastColon(f.file) = 0)
  BY FramesAre, NamesAre
<1>2. TrimMark(meant) = meant
  <2>1. meant.file = f.file
    OBVIOUS
  <2>. HIDE DEF meant
  <2>. QED  BY <1>1, <2>1, TrimsNothing
<1>3. ParseFileLineInfo(PrintLine(f)) = TakeNumber(TakeNumber(read(PrintLine(f))))
  BY LineChars, Zenon DEF ParseFileLineInfo, Empty
<1>4. c \in Characters /\ <<c>> \in Text
  BY CharactersAssumption, TextChars
<1>a. ASSUME f.lin \in Numbers \cup {NoNumber} PROVE FileRead(f) = f.file
  <2>1. ASSUME f.lin = <<"?">> PROVE FALSE
    <3>1. IsNumber(f.lin)
      BY <1>a, NumbersAre
    <3>2. 1 \in 1..Len(f.lin) /\ f.lin[1] = "?"
      BY <2>1
    <3>3. IsDigit("?")
      BY <3>1, <3>2 DEF IsNumber
    <3>. QED  BY <3>3, DigitsAre
  <2>. QED  BY <2>1 DEF FileRead
<1>5. CASE f.lin \in Numbers \cup {NoNumber} /\ f.col \in Numbers \cup {NoNumber} /\ f.col # Empty
  <2>1. IsNumber(f.lin) /\ IsNumber(f.col)
    BY <1>5, NumbersAre
  <2>2. PrintLine(f) = X \o (<<c>> \o f.col)
    BY <1>5, Zenon DEF PrintLine, X, c
  <2>3. X \in Text
    BY <1>1, <1>4, <2>1, SplitChars DEF IsNumber
  <2>4. PrintLine(f) = X \o <<c>> \o f.col
    <3>. HIDE DEF X, c
    <3>. QED  BY <1>4, <2>1, <2>2, <2>3, TextConcat, Zenon DEF IsNumber
  <2>5. TakeNumber(read(PrintLine(f))) = [file |-> X, lin |-> atoll(f.col), col |-> 0]
    <3>. HIDE DEF X
    <3>1. TakeNumber([file |-> X \o <<":">> \o f.col, lin |-> 0, col |-> 0]) = [file |-> X, lin |-> atoll(f.col), col |-> 0]
      BY <2>1, <2>3, TakesNumber
    <3>. QED  BY <2>4, <3>1
  <2>6. TakeNumber([file |-> X, lin |-> atoll(f.col), col |-> 0]) = meant
    BY <1>1, <2>1, TakesNumber
  <2>7. FileRead(f) = f.file
    BY <1>a, <1>5
  <2>. HIDE DEF meant, X, read
  <2>. QED  BY <1>2, <1>3, <2>5, <2>6, <2>7 DEF meant
<1>6. CASE style = "addr2line" /\ f.lin \in Numbers \cup {NoNumber} /\ f.col = Empty
  <2>1. IsNumber(f.lin)
    BY <1>6, NumbersAre
  <2>2. PrintLine(f) = X \o <<>>
    BY <1>6, Zenon DEF PrintLine, X, c, Empty
  <2>3. X \in Text
    BY <1>1, <1>4, <2>1, SplitChars DEF IsNumber
  <2>4. PrintLine(f) = X
    <3>. HIDE DEF X
    <3>. QED  BY <2>2, <2>3, TextConcat
  <2>5. TakeNumber(read(X)) = [file |-> f.file, lin |-> atoll(f.lin), col |-> 0]
    BY <1>1, <2>1, TakesNumber
  <2>6. [file |-> f.file, lin |-> atoll(f.lin), col |-> 0] = meant
    BY <1>6, NoNumberIsZero DEF Empty
  <2>7. TakeNumber(meant) = meant
    <3>1. meant.file = f.file
      OBVIOUS
    <3>. HIDE DEF meant
    <3>. QED  BY <1>1, <1>6, <3>1, TakesNothing
  <2>9. FileRead(f) = f.file
    BY <1>a, <1>6
  <2>. HIDE DEF meant, X, read
  <2>8. TakeNumber(TakeNumber(read(PrintLine(f)))) = meant
    BY <2>4, <2>5, <2>6, <2>7
  <2>. QED  BY <1>2, <1>3, <2>8, <2>9 DEF meant
<1>7. CASE style = "addr2line" /\ f.lin = <<"?">> /\ f.col = Empty
  <2>. DEFINE q == "?"
              mark == <<q>>
              s == f.file \o <<c>> \o mark
  <2>1. q \in Characters /\ ~ IsDigit(q)
    BY CharactersAssumption, DigitsAre
  <2>2. PrintLine(f) = s \o <<>>
    BY <1>7, Zenon DEF PrintLine, c, Empty
  <2>. HIDE DEF q
  <2>4. s \in Text /\ Len(s) = Len(f.file) + 2 /\ s[Len(f.file) + 2] = q
    <3>. DEFINE n == f.file
    <3>1. n \in Text
      BY <1>1
    <3>. HIDE DEF c, n
    <3>2. LET t == n \o <<c>> \o <<q>> IN t \in Text /\ Len(t) = Len(n) + 2 /\ t[Len(n) + 2] = q
      BY <1>4, <2>1, <3>1, MarkedChars
    <3>. QED  BY <3>2 DEF n, s, mark
  <2>. HIDE DEF mark
  <2>5. PrintLine(f) = s
    <3>. HIDE DEF s
    <3>. QED  BY <2>2, <2>4, TextConcat
  <2>6. TakeNumber(read(s)) = read(s)
    <3>1. LastColon(s) = 0
      <4>. HIDE DEF s
      <4>1. ~ IsDigit(s[Len(s)])
        BY <2>1, <2>4
      <4>. QED  BY <2>4, <4>1, NoLastColon
    <3>2. read(s).file = s
      OBVIOUS
    <3>. DEFINE r == read(s)
    <3>. HIDE DEF r
    <3>3. TakeNumber(r) = r
      BY <3>1, <3>2, TakesNothing DEF r
    <3>. QED  BY <3>3 DEF r
  <2>7. Len(f.file) \in Nat \ {0}
    <3>1. f.file # <<>> /\ f.file \in Text
      BY FramesAre, NamesAre
    <3>. QED  BY <3>1, TextChars
  <2>8. TrimMark(read(s)) = [file |-> FileRead(f), lin |-> 0, col |-> 0]
    <3>1. CASE Len(f.file) > 1
      <4>1. TrimMark(read(s)) = [file |-> f.file, lin |-> 0, col |-> 0]
        BY <1>1, <3>1, TrimsMark DEF q, mark
      <4>2. Len(f.file) # 1
        BY <2>7, <3>1, IsNotOne
      <4>3. FileRead(f) = f.file
        BY <4>2, OtherLengthReadWhole
      <4>. QED  BY <4>1, <4>3
    <3>2. CASE ~ Len(f.file) > 1
      <4>1. Len(f.file) = 1
        BY <2>7, <3>2, IsOne
      <4>2. Len(s) = 3
        BY <2>4, <4>1
      <4>3. FileRead(f) = s
        BY <1>7, <4>1, Zenon DEF FileRead, s, c, mark, q
      <4>. HIDE DEF s
      <4>4. TrimMark(read(s)) = read(s)
        <5>. DEFINE r == read(s)
        <5>1. r.file = s
          OBVIOUS
        <5>. HIDE DEF r
        <5>. QED  BY <4>2, <5>1, ShortIsKept DEF r
      <4>. QED  BY <4>3, <4>4
    <3>. QED  BY <3>1, <3>2
  <2>9. atoll(f.lin) = 0 /\ atoll(f.col) = 0
    BY <1>7, NoNumberIsZero DEF Empty
  <2>. HIDE DEF meant, read, s
  <2>10. TrimMark(ParseFileLineInfo(PrintLine(f))) = TrimMark(read(s))
    BY <1>3, <2>5, <2>6
  <2>. QED  BY <2>8, <2>9, <2>10
<1>. QED  BY <1>5, <1>6, <1>7, FramesAre

LEMMA FrameIsMeant ==
  ASSUME NEW style \in Styles, NEW f \in FrameTexts(style)
  PROVE  ThisFrame(f.func, PrintLine(f)) = FrameMeant(f)
<1>. DEFINE r == TrimMark(ParseFileLineInfo(PrintLine(f)))
<1>1. r = [file |-> FileRead(f), lin |-> atoll(f.lin), col |-> atoll(f.col)]
  BY LineIsMeant
<1>. HIDE DEF r
<1>2. ThisFrame(f.func, PrintLine(f)) =
        [func |-> NullIfUnknown(f.func), file |-> NullIfUnknown(r.file), lin |-> r.lin, col |-> r.col]
  BY Zenon DEF ThisFrame, r
<1>3. r.file = FileRead(f) /\ r.lin = atoll(f.lin) /\ r.col = atoll(f.col)
  BY <1>1
<1>. QED  BY <1>2, <1>3, Zenon DEF FrameMeant

-----------------------------------------------------------------------------
(* The step that parses a frame                                            *)

LEMMA TokenOfNothing == ExtractToken(<<>>, {Newline}) = [token |-> <<>>, rest |-> <<>>]
<1>. DEFINE e == <<>>
            D == {Newline}
<1>1. e \in Text /\ Len(e) = 0
  BY TextConcat, TextChars
<1>2. Free(e, D)
  BY <1>1 DEF Free
<1>. HIDE DEF e, D
<1>3. ExtractToken(e, D) = [token |-> e, rest |-> <<>>]
  BY <1>1, <1>2, TokenOfAll
<1>. QED  BY <1>3 DEF e, D

\* What ParseFrame takes off a text that begins with a frame, but may have been cut
\* anywhere: that frame, or something of it behind which nothing is left.
LEMMA ReadsFrame ==
  ASSUME NEW style \in Styles, NEW f \in FrameTexts(style), NEW rest \in Text,
         NEW L \in 0..Len(PrintFrame(f) \o rest)
  PROVE  LET text     == PrintFrame(f) \o rest
             function == ExtractToken(SubSeq(text, 1, L), {Newline})
             line     == ExtractToken(function.rest, {Newline})
         IN  \/ /\ function.token = f.func /\ line.token = PrintLine(f)
                /\ \E M \in 0..Len(rest) :
                     line.rest = SubSeq(rest, 1, M) /\ (L = Len(text) => M = Len(rest))
             \/ L < Len(text) /\ function.token \in Text /\ line.token \in Text /\ line.rest = <<>>
<1>. DEFINE c        == Newline
            D        == {Newline}
            p        == PrintLine(f)
            t        == f.func
            behind   == p \o <<c>> \o rest
            text     == PrintFrame(f) \o rest
            function == ExtractToken(SubSeq(text, 1, L), D)
            line     == ExtractToken(function.rest, D)
            goal     == \/ /\ function.token = t /\ line.token = p
                           /\ \E M \in 0..Len(rest) :
                                line.rest = SubSeq(rest, 1, M) /\ (L = Len(text) => M = Len(rest))
                        \/ L < Len(text) /\ function.token \in Text /\ line.token \in Text /\ line.rest = <<>>
<1>1. t \in Text /\ Free(t, D)
  BY FramesAre
<1>2. p \in Text /\ Free(p, D)
  BY LineChars
<1>3. c \in Characters /\ c \in D
  BY CharactersAssumption
<1>. HIDE DEF p, t, c
<1>4. <<c>> \in Text
  BY <1>3, TextChars
<1>5. behind \in Text /\ Len(behind) = Len(p) + 1 + Len(rest)
  BY <1>2, <1>3, SplitChars
<1>6. text = t \o <<c>> \o behind
  <2>1. PrintFrame(f) = t \o <<c>> \o p \o <<c>>
    BY Zenon DEF PrintFrame, t, c, p
  <2>. DEFINE a == t \o <<c>>
  <2>2. a \in Text
    BY <1>1, <1>4, TextConcat
  <2>3. text = ((a \o p) \o <<c>>) \o rest
    BY <2>1
  <2>. HIDE DEF a, text
  <2>4. a \o p \in Text /\ p \o <<c>> \in Text
    BY <1>2, <1>4, <2>2, TextConcat
  <2>5. (a \o p) \o <<c>> = a \o (p \o <<c>>)
    BY <1>2, <1>4, <2>2, TextConcat, Zenon
  <2>6. (a \o (p \o <<c>>)) \o rest = a \o ((p \o <<c>>) \o rest)
    <3>. DEFINE w == p \o <<c>>
    <3>1. w \in Text
      BY <2>4
    <3>. HIDE DEF w
    <3>2. (a \o w) \o rest = a \o (w \o rest)
      BY <2>2, <3>1, TextConcat
    <3>. QED  BY <3>2 DEF w
  <2>. QED  BY <2>3, <2>5, <2>6 DEF a, behind
<1>. HIDE DEF text, behind
<1>7. Len(text) = Len(t) + 1 + Len(behind)
  BY <1>1, <1>3, <1>5, <1>6, SplitChars
<1>8. Len(t) \in Nat /\ Len(p) \in Nat /\ Len(rest) \in Nat /\ L \in Nat /\ L <= Len(text)
  <2>1. Len(t) \in Nat /\ Len(p) \in Nat /\ Len(rest) \in Nat
    BY <1>1, <1>2, TextChars
  <2>2. Len(text) \in Nat
    BY <1>5, <1>7, <2>1
  <2>. QED  BY <2>1, <2>2 DEF text
<1>9. function = IF L <= Len(t) THEN [token |-> SubSeq(t, 1, L), rest |-> <<>>]
                                ELSE [token |-> t, rest |-> SubSeq(behind, 1, L - Len(t) - 1)]
  <2>1. L \in 0..Len(t) + 1 + Len(behind)
    BY <1>7, <1>8
  <2>. HIDE DEF D
  <2>2. ExtractToken(SubSeq(t \o <<c>> \o behind, 1, L), D) =
          IF L <= Len(t) THEN [token |-> SubSeq(t, 1, L), rest |-> <<>>]
                         ELSE [token |-> t, rest |-> SubSeq(behind, 1, L - Len(t) - 1)]
    BY <1>1, <1>3, <1>5, <2>1, TokenOfCut
  <2>. QED  BY <1>6, <2>2, Zenon
<1>. SUFFICES goal
  BY Zenon DEF text, t, p
<1>10. CASE L <= Len(t)
  <2>1. function.token = SubSeq(t, 1, L) /\ function.rest = <<>>
    <3>1. function = [token |-> SubSeq(t, 1, L), rest |-> <<>>]
      BY <1>9, <1>10, Zenon
    <3>. HIDE DEF function
    <3>. QED  BY <3>1
  <2>. HIDE DEF function
  <2>2. SubSeq(t, 1, L) \in Text
    BY <1>1, <1>8, <1>10, PartChars
  <2>3. line = [token |-> <<>>, rest |-> <<>>]
    BY <2>1, TokenOfNothing
  <2>4. line.token = <<>> /\ line.rest = <<>>
    BY <2>3
  <2>. HIDE DEF line
  <2>5. line.token \in Text
    BY <2>4, TextConcat
  <2>6. L < Len(text)
    BY <1>5, <1>7, <1>8, <1>10
  <2>. QED  BY <2>1, <2>2, <2>4, <2>5, <2>6
<1>11. CASE L > Len(t)
  <2>. DEFINE K == L - Len(t) - 1
  <2>1. function.token = t /\ function.rest = SubSeq(behind, 1, K)
    <3>1. ~ L <= Len(t)
      BY <1>8, <1>11
    <3>2. function = [token |-> t, rest |-> SubSeq(behind, 1, K)]
      BY <1>9, <3>1, Zenon
    <3>. HIDE DEF function
    <3>. QED  BY <3>2
  <2>. HIDE DEF function
  <2>2. K \in 0..Len(p) + 1 + Len(rest) /\ L = Len(t) + 1 + K
    BY <1>5, <1>7, <1>8, <1>11
  <2>. HIDE DEF K
  <2>3. line = IF K <= Len(p) THEN [token |-> SubSeq(p, 1, K), rest |-> <<>>]
                              ELSE [token |-> p, rest |-> SubSeq(rest, 1, K - Len(p) - 1)]
    <3>1. ExtractToken(SubSeq(behind, 1, K), D) =
            IF K <= Len(p) THEN [token |-> SubSeq(p, 1, K), rest |-> <<>>]
                           ELSE [token |-> p, rest |-> SubSeq(rest, 1, K - Len(p) - 1)]
      <4>. HIDE DEF D
      <4>. QED  BY <1>2, <1>3, <2>2, TokenOfCut DEF behind
    <3>. QED  BY <2>1, <3>1, Zenon
  <2>. HIDE DEF line
  <2>4. CASE K <= Len(p)
    <3>1. line.token = SubSeq(p, 1, K) /\ line.rest = <<>>
      BY <2>3, <2>4
    <3>2. SubSeq(p, 1, K) \in Text
      <4>1. 1 \in Nat \ {0} /\ K \in Nat /\ 1 <= K + 1 /\ K <= Len(p)
        BY <1>8, <2>2, <2>4
      <4>. QED  BY <1>2, <4>1, PartChars, Zenon
    <3>3. L < Len(text)
      BY <1>5, <1>7, <1>8, <2>2, <2>4
    <3>. QED  BY <1>1, <2>1, <3>1, <3>2, <3>3
  <2>5. CASE K > Len(p)
    <3>. DEFINE M == K - Len(p) - 1
    <3>1. ~ K <= Len(p)
      BY <1>8, <2>2, <2>5
    <3>2. line = [token |-> p, rest |-> SubSeq(rest, 1, M)]
      BY <2>3, <3>1, Zenon
    <3>3. M \in 0..Len(rest) /\ (L = Len(text) => M = Len(rest))
      BY <1>5, <1>7, <1>8, <2>2, <2>5
    <3>. HIDE DEF M
    <3>4. line.token = p /\ line.rest = SubSeq(rest, 1, M)
      BY <3>2
    <3>. QED  BY <2>1, <3>3, <3>4
  <2>. QED  BY <1>8, <2>2, <2>4, <2>5
<1>12. L <= Len(t) \/ L > Len(t)
  BY <1>8
<1>. QED  BY <1>10, <1>11, <1>12, Zenon

\* Behind the last frame there is nothing that could be taken for one.
LEMMA ReadsEnd ==
  ASSUME NEW rest \in {<<>>, <<Newline>>}, NEW L \in 0..Len(rest)
  PROVE  rest \in Text /\ ExtractToken(SubSeq(rest, 1, L), {Newline}).token = <<>>
<1>. DEFINE c == Newline
            D == {Newline}
            e == <<>>
<1>1. c \in Characters /\ c \in D /\ e \in Text /\ Len(e) = 0 /\ Free(e, D)
  <2>1. c \in Characters /\ c \in D /\ e \in Text /\ Len(e) = 0
    BY CharactersAssumption, TextConcat, TextChars
  <2>. HIDE DEF e
  <2>. QED  BY <2>1 DEF Free
<1>2. <<c>> \in Text /\ Len(<<c>>) = 1
  <2>. HIDE DEF c
  <2>. QED  BY <1>1, TextChars
<1>3. CASE rest = <<>>
  <2>1. L = 0
    BY <1>1, <1>3
  <2>2. SubSeq(rest, 1, L) = <<>>
    BY <1>1, <1>3, <2>1, PartChars
  <2>3. ExtractToken(SubSeq(rest, 1, L), {Newline}) = [token |-> <<>>, rest |-> <<>>]
    BY <2>2, TokenOfNothing, Zenon
  <2>. DEFINE x == ExtractToken(SubSeq(rest, 1, L), {Newline})
  <2>. HIDE DEF x
  <2>4. x.token = <<>>
    BY <2>3 DEF x
  <2>. QED  BY <1>1, <1>3, <2>4 DEF x
<1>4. CASE rest = <<c>>
  <2>. HIDE DEF c, D, e
  <2>1. L \in 0..Len(e) + 1 + Len(e)
    BY <1>1, <1>2, <1>4
  <2>2. e \o <<c>> \o e = rest
    <3>1. e \o <<c>> = <<c>> /\ <<c>> \o e = <<c>>
      BY <1>2, TextConcat DEF e
    <3>. QED  BY <1>4, <3>1
  <2>3. ExtractToken(SubSeq(rest, 1, L), D) =
          IF L <= Len(e) THEN [token |-> SubSeq(e, 1, L), rest |-> <<>>]
                         ELSE [token |-> e, rest |-> SubSeq(e, 1, L - Len(e) - 1)]
    BY <1>1, <2>1, <2>2, TokenOfCut
  <2>4. L <= Len(e) => SubSeq(e, 1, L) = <<>>
    BY <1>1, <2>1, PartChars
  <2>5. ExtractToken(SubSeq(rest, 1, L), D).token = <<>>
    BY <2>3, <2>4 DEF e
  <2>. QED  BY <1>2, <1>4, <2>5 DEF D
<1>. QED  BY <1>3, <1>4

-----------------------------------------------------------------------------
(* The step that parses data                                               *)

LEMMA DataAre ==
  ASSUME NEW d \in DataTexts
  PROVE  /\ d.name \in Text /\ Free(d.name, {Newline})
         /\ d.start \in Text /\ Free(d.start, {" "})
         /\ d.size \in Text /\ Free(d.size, {Newline})
         /\ d.file \in Text /\ Free(d.file, {":"})
         /\ d.line \in Text /\ Free(d.line, {Newline})
<1>. DEFINE style == "llvm-symbolizer"
<1>1. /\ d.name \in Names[style] /\ d.start \in Numbers /\ d.size \in Numbers
      /\ d.file \in Names[style] \cup {Empty} /\ d.line \in Numbers
      /\ \A k \in DOMAIN d.file : d.file[k] # ":"
  BY DEF DataTexts
<1>2. style \in Styles
  BY DEF Styles
<1>. HIDE DEF style
<1>3. d.name \in Text /\ Free(d.name, {Newline})
  BY <1>1, <1>2, NamesAre
<1>4. d.file \in Text
  BY <1>1, <1>2, NamesAre, TextConcat DEF Empty
<1>5. Free(d.file, {":"})
  BY <1>1, <1>4, TextChars DEF Free
<1>6. \A n \in Numbers : n \in Text /\ Free(n, {Newline}) /\ Free(n, {" "})
  <2>. TAKE n \in Numbers
  <2>1. \A delims : (\A c \in delims : ~ IsDigit(c)) => Free(n, delims)
    BY NumbersAre
  <2>2. (\A c \in {Newline} : ~ IsDigit(c)) /\ (\A c \in {" "} : ~ IsDigit(c))
    BY DigitsAre
  <2>. QED  BY <2>1, <2>2, NumbersAre DEF IsNumber
<1>. QED  BY <1>1, <1>3, <1>4, <1>5, <1>6

\* A whole reply of three lines, token by token.
LEMMA DataIsMeant ==
  ASSUME NEW d \in DataTexts, d.file # Empty
  PROVE  LET name  == ExtractToken(PrintData(d), {Newline})
             start == ExtractUptr(name.rest, {" "})
             size  == ExtractUptr(start.rest, {Newline})
             file  == ExtractToken(size.rest, {":"})
             line  == ExtractUptr(file.rest, {Newline})
         IN  [name |-> name.token, start |-> start.token, size |-> size.token,
              file |-> file.token, line |-> line.token] = DataMeant(d)
<1>. DEFINE c   == Newline
            sp  == " "
            col == ":"
            t4  == d.line \o <<c>> \o <<c>>
            t3  == d.file \o <<col>> \o t4
            t2  == d.size \o <<c>> \o t3
            t1  == d.start \o <<sp>> \o t2
            t0  == d.name \o <<c>> \o t1
<1>1. {c, sp, col} \subseteq Characters
  BY CharactersAssumption
<1>2. /\ d.name \in Text /\ Free(d.name, {c})
      /\ d.start \in Text /\ Free(d.start, {sp})
      /\ d.size \in Text /\ Free(d.size, {c})
      /\ d.file \in Text /\ Free(d.file, {col})
      /\ d.line \in Text /\ Free(d.line, {c})
  BY DataAre
<1>3. PrintData(d) = d.name \o <<c>> \o d.start \o <<sp>> \o d.size \o <<c>>
                       \o (d.file \o <<col>> \o d.line \o <<c>>) \o <<c>>
  BY Zenon DEF PrintData
<1>. HIDE DEF c, sp, col
<1>4. <<c>> \in Text /\ <<sp>> \in Text /\ <<col>> \in Text
  BY <1>1, TextChars
<1>5. t4 \in Text /\ t3 \in Text /\ t2 \in Text /\ t1 \in Text
  <2>1. t4 \in Text
    BY <1>2, <1>4, TextConcat
  <2>. HIDE DEF t4
  <2>2. t3 \in Text
    BY <1>2, <1>4, <2>1, TextConcat
  <2>. HIDE DEF t3
  <2>3. t2 \in Text
    BY <1>2, <1>4, <2>2, TextConcat
  <2>. HIDE DEF t2
  <2>4. t1 \in Text
    BY <1>2, <1>4, <2>3, TextConcat
  <2>. QED  BY <2>1, <2>2, <2>3, <2>4
<1>6. PrintData(d) = t0
  <2>. DEFINE nl == <<c>>
              blank == <<sp>>
              start == d.start
              size == d.size
              line == d.line
              A == d.name \o nl
              D == A \o start \o blank
              C == D \o size \o nl
              F == d.file \o <<col>>
              B == F \o line \o nl
  <2>1. A \in Text /\ F \in Text
    BY <1>2, <1>4, TextConcat
  <2>2. nl \in Text /\ blank \in Text /\ start \in Text /\ size \in Text /\ line \in Text
    BY <1>2, <1>4
  <2>3. PrintData(d) = (C \o B) \o nl
    BY <1>3
  <2>4. /\ t4 = line \o nl \o nl /\ t3 = F \o t4 /\ t2 = (size \o nl) \o t3
        /\ t1 = (start \o blank) \o t2 /\ t0 = A \o t1
    OBVIOUS
  <2>. HIDE DEF A, F, nl, blank, start, size, line, t0, t1, t2, t3, t4
  <2>5. A \o start \in Text /\ F \o line \in Text
    BY <2>1, <2>2, TextConcat
  <2>6. D \in Text /\ B \in Text
    BY <2>2, <2>5, TextConcat
  <2>7. B \o nl = F \o t4
    <3>1. ((F \o line) \o nl) \o nl = F \o ((line \o nl) \o nl)
      <4>1. F \in Text /\ line \in Text /\ nl \in Text /\ nl \in Text
        BY <2>1, <2>2
      <4>2. (F \o line) \o nl = F \o (line \o nl) /\ line \o nl \in Text
        BY <4>1, TextConcat, Zenon
      <4>3. (F \o (line \o nl)) \o nl = F \o ((line \o nl) \o nl)
        BY <4>1, <4>2, TextConcat, Zenon
      <4>. QED  BY <4>2, <4>3, Zenon
    <3>. QED  BY <2>4, <3>1
  <2>8. D \o t2 = A \o t1
    <3>1. ((A \o start) \o blank) \o t2 = A \o ((start \o blank) \o t2)
      <4>1. A \in Text /\ start \in Text /\ blank \in Text /\ t2 \in Text
        BY <1>5, <2>1, <2>2
      <4>2. (A \o start) \o blank = A \o (start \o blank) /\ start \o blank \in Text
        BY <4>1, TextConcat, Zenon
      <4>3. (A \o (start \o blank)) \o t2 = A \o ((start \o blank) \o t2)
        BY <4>1, <4>2, TextConcat, Zenon
      <4>. QED  BY <4>2, <4>3, Zenon
    <3>. QED  BY <2>4, <3>1
  <2>. HIDE DEF D, B
  <2>9. D \o size \in Text
    BY <2>2, <2>6, TextConcat
  <2>10. C \in Text
    BY <2>2, <2>9, TextConcat
  <2>11. C \o t3 = D \o t2
    <3>1. ((D \o size) \o nl) \o t3 = D \o ((size \o nl) \o t3)
      <4>1. D \in Text /\ size \in Text /\ nl \in Text /\ t3 \in Text
        BY <1>5, <2>2, <2>6
      <4>2. (D \o size) \o nl = D \o (size \o nl) /\ size \o nl \in Text
        BY <4>1, TextConcat, Zenon
      <4>3. (D \o (size \o nl)) \o t3 = D \o ((size \o nl) \o t3)
        BY <4>1, <4>2, TextConcat, Zenon
      <4>. QED  BY <4>2, <4>3, Zenon
    <3>. QED  BY <2>4, <3>1
  <2>. HIDE DEF C
  <2>12. (C \o B) \o nl = C \o (B \o nl)
    <3>1. C \in Text /\ B \in Text /\ nl \in Text
      BY <2>2, <2>6, <2>10
    <3>. QED  BY <3>1, TextConcat, Zenon
  <2>. QED  BY <2>3, <2>4, <2>7, <2>8, <2>11, <2>12
<1>. HIDE DEF t0, t1, t2, t3, t4
<1>7. ExtractToken(t0, {c}) = [token |-> d.name, rest |-> t1]
  BY <1>1, <1>2, <1>5, TokenOfWhole DEF t0
<1>8. ExtractToken(t1, {sp}) = [token |-> d.start, rest |-> t2]
  BY <1>1, <1>2, <1>5, TokenOfWhole DEF t1
<1>9. ExtractToken(t2, {c}) = [token |-> d.size, rest |-> t3]
  BY <1>1, <1>2, <1>5, TokenOfWhole DEF t2
<1>10. ExtractToken(t3, {col}) = [token |-> d.file, rest |-> t4]
  BY <1>1, <1>2, <1>5, TokenOfWhole DEF t3
<1>11. ExtractToken(t4, {c}) = [token |-> d.line, rest |-> <<c>>]
  BY <1>1, <1>2, <1>4, TokenOfWhole DEF t4
<1>12. ASSUME NEW s, NEW delims, NEW t, NEW r, ExtractToken(s, delims) = [token |-> t, rest |-> r]
       PROVE  ExtractUptr(s, delims) = [token |-> atoll(t), rest |-> r]
  BY <1>12 DEF ExtractUptr
<1>. DEFINE name  == ExtractToken(PrintData(d), {c})
            start == ExtractUptr(name.rest, {sp})
            size  == ExtractUptr(start.rest, {c})
            file  == ExtractToken(size.rest, {col})
            line  == ExtractUptr(file.rest, {c})
<1>13. name.token = d.name /\ name.rest = t1
  BY <1>6, <1>7
<1>. HIDE DEF name
<1>14. start = [token |-> atoll(d.start), rest |-> t2]
  BY <1>8, <1>12, <1>13
<1>15. start.token = atoll(d.start) /\ start.rest = t2
  BY <1>14
<1>. HIDE DEF start
<1>16. size = [token |-> atoll(d.size), rest |-> t3]
  BY <1>9, <1>12, <1>15
<1>17. size.token = atoll(d.size) /\ size.rest = t3
  BY <1>16
<1>. HIDE DEF size
<1>18. file.token = d.file /\ file.rest = t4
  BY <1>10, <1>17
<1>. HIDE DEF file
<1>19. line = [token |-> atoll(d.line), rest |-> <<c>>]
  BY <1>11, <1>12, <1>18
<1>20. line.token = atoll(d.line)
  BY <1>19
<1>. HIDE DEF line
<1>21. [name |-> name.token, start |-> start.token, size |-> size.token,
        file |-> file.token, line |-> line.token] = DataMeant(d)
  BY <1>13, <1>15, <1>17, <1>18, <1>20 DEF DataMeant
<1>. QED  BY <1>21, Zenon DEF name, start, size, file, line, c, sp, col

-----------------------------------------------------------------------------
(* The invariant                                                           *)

\* All that a frame can be made of.
Parsed == {ThisFrame(function_name, line) : function_name \in Text, line \in Text}

MeantUpTo(m) == \A k \in 1..m : frames[k] = FrameMeant(truth.frames[k])

\* R[n] is what the symbolizer meant to be behind the n-th of the frames fs.
Behind(fs, R) ==
  /\ R \in [0..Len(fs) -> Text]
  /\ R[Len(fs)] \in {<<>>, <<Newline>>}
  /\ \A n \in 1..Len(fs) : R[n - 1] = PrintFrame(fs[n]) \o R[n]

\* The parser stands behind a frame that it has understood, as it has all before it, and has
\* in front of it what is behind that frame, up to where the reply was cut.
Exact(R) ==
  /\ MeantUpTo(Len(frames))
  /\ \E L \in 0..Len(R[Len(frames)]) :
       str = SubSeq(R[Len(frames)], 1, L) /\ (truth.whole => L = Len(R[Len(frames)]))

\* Or the frame parsed last is the one the reply was cut in, and nothing is left.
Spoilt == ~ truth.whole /\ str = <<>> /\ MeantUpTo(Len(frames) - 1)

CodeInvariant ==
  /\ pc \in {"code", "done"}
  /\ frames \in Seq(Parsed)
  /\ Len(frames) <= Len(truth.frames)
  /\ \E style \in Styles : truth.frames \in Seq(FrameTexts(style))
  /\ \E R \in [0..Len(truth.frames) -> Text] : Behind(truth.frames, R) /\ (Exact(R) \/ Spoilt)
  /\ pc = "done" /\ truth.whole => Len(frames) = Len(truth.frames)

DataInvariant ==
  /\ pc \in {"data", "done"}
  /\ truth.data \in DataTexts
  /\ pc = "data" /\ truth.whole => str = PrintData(truth.data)
  /\ pc = "done" /\ truth.whole /\ truth.data.file # Empty => data = DataMeant(truth.data)

\* A reply is parsed as what was asked for.
AskedInvariant ==
  /\ truth.of \in {"code", "data"}
  /\ truth.of = "code" => pc \in {"code", "done"}
  /\ truth.of = "data" => DataInvariant

ReadInvariant ==
  /\ truth.of \in {"code", "data"}
  /\ truth.of = "code" => CodeInvariant
  /\ truth.of = "data" => DataInvariant

\* The texts behind the frames of a reply.
LEMMA RepliesArePeeled ==
  ASSUME NEW style \in Styles, NEW fs \in Seq(FrameTexts(style))
  PROVE  \E R \in [0..Len(fs) -> Text] : Behind(fs, R) /\ R[0] = PrintFrames(style, fs)
<1>. DEFINE pieces == [k \in DOMAIN fs |-> PrintFrame(fs[k])]
            tail   == IF style = "addr2line" THEN Empty ELSE <<Newline>>
            c      == Newline
<1>1. Len(fs) \in Nat /\ DOMAIN fs = 1..Len(fs) /\ \A k \in 1..Len(fs) : fs[k] \in FrameTexts(style)
  BY LenProperties, ElementOfSeq
<1>2. c \in Characters
  BY CharactersAssumption
<1>3. tail \in Text /\ tail \in {<<>>, <<Newline>>}
  <2>1. <<c>> \in Text
    <3>. HIDE DEF c
    <3>. QED  BY <1>2, TextChars
  <2>. QED  BY <2>1, TextConcat DEF Empty
<1>4. ASSUME NEW k \in 1..Len(fs) PROVE PrintFrame(fs[k]) \in Text
  <2>. DEFINE f == fs[k]
  <2>1. f \in FrameTexts(style)
    BY <1>1
  <2>. HIDE DEF f
  <2>2. f.func \in Text /\ PrintLine(f) \in Text
    BY <2>1, FramesAre, LineChars
  <2>3. f.func \o <<c>> \o PrintLine(f) \in Text /\ <<c>> \in Text
    <3>. HIDE DEF c
    <3>. QED  BY <1>2, <2>2, SplitChars, TextChars
  <2>4. PrintFrame(f) = (f.func \o <<c>> \o PrintLine(f)) \o <<c>>
    BY Zenon DEF PrintFrame, c
  <2>. HIDE DEF c
  <2>5. PrintFrame(f) \in Text
    BY <2>3, <2>4, TextConcat
  <2>. QED  BY <2>5 DEF f
<1>5. pieces \in Seq(Text) /\ Len(pieces) = Len(fs) /\ \A k \in 1..Len(fs) : pieces[k] = PrintFrame(fs[k])
  BY <1>1, <1>4
<1>6. PrintFrames(style, fs) = FlattenSeq(pieces) \o tail
  BY Zenon DEF PrintFrames
<1>. HIDE DEF pieces, tail
<1>7. PICK R \in [0..Len(pieces) -> Text] : R[0] = FlattenSeq(pieces) \o tail /\ Rests(R, pieces, Len(pieces), tail)
  BY <1>3, <1>5, FlattenPeels
<1>8. R[Len(fs)] = tail /\ \A n \in 1..Len(fs) : R[n - 1] = PrintFrame(fs[n]) \o R[n]
  BY <1>5, <1>7 DEF Rests
<1>9. R \in [0..Len(fs) -> Text] /\ R[0] = PrintFrames(style, fs)
  BY <1>5, <1>6, <1>7
<1>. QED  BY <1>3, <1>8, <1>9 DEF Behind

LEMMA ReadInvariantInit == Init => ReadInvariant
<1>. SUFFICES ASSUME Init PROVE ReadInvariant
  OBVIOUS
<1>1. ASSUME NEW style \in Styles, NEW fs \in SeqOf(FrameTexts(style), MaxFrames),
             pc = "code", str \in Received(PrintFrames(style, fs)),
             truth = [of |-> "code", frames |-> fs, data |-> NoData, whole |-> str = PrintFrames(style, fs)]
      PROVE  ReadInvariant
  <2>. DEFINE text == PrintFrames(style, fs)
  <2>1. truth.of = "code" /\ truth.frames = fs /\ truth.whole = (str = text)
    BY <1>1
  <2>2. fs \in Seq(FrameTexts(style))
    BY BoundAssumption DEF SeqOf
  <2>3. frames = <<>> /\ frames \in Seq(Parsed) /\ Len(frames) = 0 /\ Len(fs) \in Nat
    BY <2>2, EmptySeq, LenProperties DEF Init
  <2>4. PICK R \in [0..Len(fs) -> Text] : Behind(fs, R) /\ R[0] = text
    BY <2>2, RepliesArePeeled
  <2>5. PICK L \in 0..Len(text) : str = SubSeq(text, 1, L)
    BY <1>1 DEF Received
  <2>6. text \in Text
    BY <2>3, <2>4
  <2>. HIDE DEF text
  <2>7. str = text => L = Len(text)
    <3>1. Len(text) \in Nat
      BY <2>6, TextChars
    <3>2. Len(SubSeq(text, 1, L)) = L - 1 + 1
      BY <2>6, <3>1, PartChars
    <3>. QED  BY <2>5, <3>1, <3>2
  <2>8. Exact(R)
    <3>1. \A k \in 1..0 : FALSE
      OBVIOUS
    <3>. QED  BY <2>1, <2>3, <2>4, <2>5, <2>7, <3>1 DEF Exact, MeantUpTo
  <2>9. CodeInvariant
    <3>1. Len(frames) <= Len(truth.frames) /\ pc \in {"code", "done"} /\ pc # "done"
      BY <1>1, <2>1, <2>3
    <3>. QED  BY <2>1, <2>2, <2>3, <2>4, <2>8, <3>1 DEF CodeInvariant
  <2>. QED  BY <2>1, <2>9 DEF ReadInvariant
<1>2. ASSUME NEW d \in DataTexts, pc = "data",
             truth = [of |-> "data", frames |-> <<>>, data |-> d, whole |-> str = PrintData(d)]
      PROVE  ReadInvariant
  <2>1. truth.of = "data" /\ truth.data = d /\ truth.whole = (str = PrintData(d))
    BY <1>2
  <2>2. DataInvariant
    BY <1>2, <2>1 DEF DataInvariant
  <2>. QED  BY <2>1, <2>2 DEF ReadInvariant
<1>. QED  BY <1>1, <1>2 DEF Init

\* A frame is parsed: it is the next one, or the one the reply was cut in.
LEMMA ParseFrameKeeps ==
  ASSUME ReadInvariant, ParseFrame
  PROVE  CodeInvariant' /\ truth.of = "code"
<1>. DEFINE fs       == truth.frames
            n        == Len(frames)
            function == ExtractToken(str, {Newline})
            line     == ExtractToken(function.rest, {Newline})
            read     == ThisFrame(function.token, line.token)
<1>1. /\ pc = "code" /\ function.token # <<>>
      /\ frames' = Append(frames, read) /\ str' = line.rest
      /\ UNCHANGED <<truth, data, pc>>
  BY DEF ParseFrame, Empty
<1>2. truth.of = "code" /\ CodeInvariant
  BY <1>1 DEF ReadInvariant, DataInvariant
<1>3. PICK style \in Styles : fs \in Seq(FrameTexts(style))
  BY <1>2 DEF CodeInvariant
<1>4. PICK R \in [0..Len(fs) -> Text] : Behind(fs, R) /\ (Exact(R) \/ Spoilt)
  BY <1>2 DEF CodeInvariant
<1>5. /\ frames \in Seq(Parsed) /\ n \in Nat /\ Len(fs) \in Nat /\ n <= Len(fs)
      /\ \A k \in 1..Len(fs) : fs[k] \in FrameTexts(style)
  BY <1>2, <1>3, LenProperties, ElementOfSeq DEF CodeInvariant
<1>6. ~ Spoilt
  <2>. SUFFICES ASSUME str = <<>> PROVE FALSE
    BY DEF Spoilt
  <2>1. function = [token |-> <<>>, rest |-> <<>>]
    BY TokenOfNothing
  <2>. HIDE DEF function
  <2>. QED  BY <1>1, <2>1
<1>7. PICK L \in 0..Len(R[n]) : str = SubSeq(R[n], 1, L) /\ (truth.whole => L = Len(R[n]))
  BY <1>4, <1>6 DEF Exact
<1>8. MeantUpTo(n)
  BY <1>4, <1>6 DEF Exact
<1>9. n < Len(fs)
  <2>. SUFFICES ASSUME n = Len(fs) PROVE FALSE
    BY <1>5
  <2>1. R[n] \in {<<>>, <<Newline>>}
    BY <1>4 DEF Behind
  <2>2. function.token = <<>>
    <3>. DEFINE rest == R[n]
    <3>1. rest \in {<<>>, <<Newline>>} /\ L \in 0..Len(rest) /\ str = SubSeq(rest, 1, L)
      BY <1>7, <2>1
    <3>. HIDE DEF rest
    <3>2. ExtractToken(SubSeq(rest, 1, L), {Newline}).token = <<>>
      BY <3>1, ReadsEnd
    <3>. QED  BY <3>1, <3>2
  <2>. QED  BY <1>1, <2>2
<1>. DEFINE f    == fs[n + 1]
            rest == R[n + 1]
<1>10. f \in FrameTexts(style) /\ rest \in Text /\ R[n] = PrintFrame(f) \o rest
  <2>1. n + 1 \in 1..Len(fs) /\ n + 1 \in 0..Len(fs) /\ (n + 1) - 1 = n
    BY <1>5, <1>9
  <2>2. R[(n + 1) - 1] = PrintFrame(fs[n + 1]) \o R[n + 1]
    BY <1>4, <2>1 DEF Behind
  <2>. QED  BY <1>4, <1>5, <2>1, <2>2
<1>11. \/ /\ function.token = f.func /\ line.token = PrintLine(f)
          /\ \E M \in 0..Len(rest) :
               line.rest = SubSeq(rest, 1, M) /\ (L = Len(R[n]) => M = Len(rest))
       \/ L < Len(R[n]) /\ function.token \in Text /\ line.token \in Text /\ line.rest = <<>>
  <2>. DEFINE text == PrintFrame(f) \o rest
  <2>. HIDE DEF f, rest
  <2>1. L \in 0..Len(text) /\ str = SubSeq(text, 1, L) /\ R[n] = text
    BY <1>7, <1>10
  <2>2. \/ /\ ExtractToken(SubSeq(text, 1, L), {Newline}).token = f.func
           /\ ExtractToken(ExtractToken(SubSeq(text, 1, L), {Newline}).rest, {Newline}).token = PrintLine(f)
           /\ \E M \in 0..Len(rest) :
                /\ ExtractToken(ExtractToken(SubSeq(text, 1, L), {Newline}).rest, {Newline}).rest = SubSeq(rest, 1, M)
                /\ L = Len(text) => M = Len(rest)
        \/ /\ L < Len(text)
           /\ ExtractToken(SubSeq(text, 1, L), {Newline}).token \in Text
           /\ ExtractToken(ExtractToken(SubSeq(text, 1, L), {Newline}).rest, {Newline}).token \in Text
           /\ ExtractToken(ExtractToken(SubSeq(text, 1, L), {Newline}).rest, {Newline}).rest = <<>>
    BY <1>10, <2>1, ReadsFrame
  <2>. HIDE DEF text
  <2>. QED  BY <2>1, <2>2, Zenon
<1>12. function.token \in Text /\ line.token \in Text
  <2>. HIDE DEF f, rest
  <2>. QED  BY <1>10, <1>11, FramesAre, LineChars
<1>13. frames' \in Seq(Parsed) /\ Len(frames') = n + 1 /\ frames'[n + 1] = read
       /\ \A k \in 1..n : frames'[k] = frames[k]
  <2>1. read \in Parsed
    BY <1>12 DEF Parsed
  <2>. HIDE DEF read
  <2>. QED  BY <1>1, <1>5, <2>1, AppendProperties
<1>14. \A k \in 1..n : frames'[k] = FrameMeant(truth'.frames[k])
  BY <1>1, <1>8, <1>13 DEF MeantUpTo
<1>15. Exact(R)' \/ Spoilt'
  <2>1. CASE /\ function.token = f.func /\ line.token = PrintLine(f)
             /\ \E M \in 0..Len(rest) :
                  line.rest = SubSeq(rest, 1, M) /\ (L = Len(R[n]) => M = Len(rest))
    <3>1. read = FrameMeant(f)
      <4>. HIDE DEF f
      <4>. QED  BY <1>10, <2>1, FrameIsMeant
    <3>2. ASSUME NEW k \in 1..n + 1 PROVE frames'[k] = FrameMeant(truth'.frames[k])
      <4>1. CASE k = n + 1
        BY <1>1, <1>13, <3>1, <4>1
      <4>2. CASE k # n + 1
        <5>1. k \in 1..n
          BY <1>5, <4>2
        <5>. QED  BY <1>14, <5>1
      <4>. QED  BY <4>1, <4>2
    <3>3. MeantUpTo(Len(frames))'
      BY <1>13, <3>2 DEF MeantUpTo
    <3>4. \E M \in 0..Len(rest) : str' = SubSeq(rest, 1, M) /\ (truth'.whole => M = Len(rest))
      BY <1>1, <1>7, <2>1
    <3>. HIDE DEF f
    <3>. QED  BY <1>13, <3>3, <3>4 DEF Exact
  <2>2. CASE L < Len(R[n]) /\ function.token \in Text /\ line.token \in Text /\ line.rest = <<>>
    <3>1. ~ truth.whole
      <4>1. Len(R[n]) \in Nat
        <5>1. n \in 0..Len(fs)
          BY <1>5
        <5>. QED  BY <1>4, <5>1, TextChars
      <4>. QED  BY <1>7, <2>2, <4>1
    <3>2. MeantUpTo(Len(frames) - 1)'
      <4>1. Len(frames)' - 1 = n
        BY <1>5, <1>13
      <4>. QED  BY <1>14, <4>1 DEF MeantUpTo
    <3>. QED  BY <1>1, <2>2, <3>1, <3>2 DEF Spoilt
  <2>. QED  BY <1>11, <2>1, <2>2
<1>16. Behind(fs, R)' /\ truth' = truth /\ pc' = pc
  BY <1>1, <1>4 DEF Behind
<1>17. Len(frames') <= Len(truth'.frames)
  BY <1>5, <1>9, <1>13, <1>16
<1>. QED  BY <1>1, <1>2, <1>3, <1>4, <1>13, <1>15, <1>16, <1>17 DEF CodeInvariant

\* There are no more frames: of a whole reply none is missing.
LEMMA NoMoreFramesKeeps ==
  ASSUME ReadInvariant, NoMoreFrames
  PROVE  CodeInvariant' /\ truth.of = "code"
<1>. DEFINE fs == truth.frames
            n  == Len(frames)
            function == ExtractToken(str, {Newline})
<1>1. pc = "code" /\ pc' = "done" /\ function.token = <<>> /\ UNCHANGED <<truth, str, frames, data>>
  BY DEF NoMoreFrames, Empty
<1>2. truth.of = "code" /\ CodeInvariant
  BY <1>1 DEF ReadInvariant, DataInvariant
<1>3. PICK style \in Styles : fs \in Seq(FrameTexts(style))
  BY <1>2 DEF CodeInvariant
<1>4. PICK R \in [0..Len(fs) -> Text] : Behind(fs, R) /\ (Exact(R) \/ Spoilt)
  BY <1>2 DEF CodeInvariant
<1>5. /\ frames \in Seq(Parsed) /\ n \in Nat /\ Len(fs) \in Nat /\ n <= Len(fs)
      /\ \A k \in 1..Len(fs) : fs[k] \in FrameTexts(style)
  BY <1>2, <1>3, LenProperties, ElementOfSeq DEF CodeInvariant
<1>6. ASSUME truth.whole, n < Len(fs) PROVE FALSE
  <2>. DEFINE f    == fs[n + 1]
              rest == R[n + 1]
  <2>1. f \in FrameTexts(style) /\ rest \in Text /\ R[n] = PrintFrame(f) \o rest
    <3>1. n + 1 \in 1..Len(fs) /\ n + 1 \in 0..Len(fs) /\ (n + 1) - 1 = n
      BY <1>5, <1>6
    <3>2. R[(n + 1) - 1] = PrintFrame(fs[n + 1]) \o R[n + 1]
      BY <1>4, <3>1 DEF Behind
    <3>. QED  BY <1>4, <1>5, <3>1, <3>2
  <2>2. PICK L \in 0..Len(R[n]) : str = SubSeq(R[n], 1, L) /\ L = Len(R[n])
    BY <1>4, <1>6 DEF Exact, Spoilt
  <2>3. Len(R[n]) \in Nat
    <3>1. n \in 0..Len(fs)
      BY <1>5
    <3>. QED  BY <1>4, <3>1, TextChars
  <2>. HIDE DEF f, rest
  <2>4. function.token = f.func \/ L < Len(R[n])
    BY <2>1, <2>2, ReadsFrame
  <2>5. function.token = f.func
    BY <2>2, <2>3, <2>4
  <2>. QED  BY <1>1, <2>1, <2>5, FramesAre
<1>7. truth.whole => n = Len(fs)
  BY <1>5, <1>6
<1>8. Behind(fs, R)' /\ (Exact(R) \/ Spoilt)'
  BY <1>1, <1>4 DEF Behind, Exact, Spoilt, MeantUpTo
<1>. QED  BY <1>1, <1>2, <1>3, <1>4, <1>5, <1>7, <1>8 DEF CodeInvariant

LEMMA ParseDataKeeps ==
  ASSUME AskedInvariant, ParseSymbolizeDataOutput
  PROVE  DataInvariant' /\ truth.of = "data"
<1>1. pc = "data" /\ pc' = "done" /\ UNCHANGED <<truth, frames>>
  BY DEF ParseSymbolizeDataOutput
<1>2. truth.of = "data" /\ DataInvariant
  BY <1>1 DEF AskedInvariant
<1>3. ASSUME truth.whole, truth.data.file # Empty PROVE data' = DataMeant(truth.data)
  <2>. DEFINE d == truth.data
  <2>1. str = PrintData(d) /\ d \in DataTexts /\ d.file # Empty
    BY <1>1, <1>2, <1>3 DEF DataInvariant
  <2>2. data' = LET name  == ExtractToken(str, {Newline})
                    start == ExtractUptr(name.rest, {" "})
                    size  == ExtractUptr(start.rest, {Newline})
                    file  == ExtractToken(size.rest, {":"})
                    line  == ExtractUptr(file.rest, {Newline})
                IN  [name |-> name.token, start |-> start.token, size |-> size.token,
                     file |-> file.token, line |-> line.token]
    BY Zenon DEF ParseSymbolizeDataOutput
  <2>. HIDE DEF d
  <2>. QED  BY <2>1, <2>2, DataIsMeant DEF d
<1>. QED  BY <1>1, <1>2, <1>3 DEF DataInvariant

LEMMA AskedInvariantNext ==
  ASSUME AskedInvariant, [Next]_vars
  PROVE  AskedInvariant'
<1>1. CASE ParseFrame \/ NoMoreFrames
  <2>1. truth' = truth /\ pc = "code" /\ pc' \in {"code", "done"}
    BY <1>1 DEF ParseFrame, NoMoreFrames
  <2>. QED  BY <2>1 DEF AskedInvariant, DataInvariant
<1>2. CASE ParseSymbolizeDataOutput
  <2>1. truth' = truth
    BY <1>2 DEF ParseSymbolizeDataOutput
  <2>. QED  BY <1>2, <2>1, ParseDataKeeps DEF AskedInvariant
<1>3. CASE Done \/ UNCHANGED vars
  <2>1. UNCHANGED <<truth, str, frames, data, pc>>
    BY <1>3 DEF Done, vars
  <2>. QED  BY <2>1 DEF AskedInvariant, DataInvariant
<1>. QED  BY <1>1, <1>2, <1>3 DEF Next

LEMMA ReadInvariantNext ==
  ASSUME ReadInvariant, [Next]_vars
  PROVE  ReadInvariant'
<1>1. CASE ParseFrame
  <2>1. truth' = truth
    BY <1>1 DEF ParseFrame
  <2>. QED  BY <1>1, <2>1, ParseFrameKeeps DEF ReadInvariant
<1>2. CASE NoMoreFrames
  <2>1. truth' = truth
    BY <1>2 DEF NoMoreFrames
  <2>. QED  BY <1>2, <2>1, NoMoreFramesKeeps DEF ReadInvariant
<1>3. CASE ParseSymbolizeDataOutput
  <2>1. truth' = truth
    BY <1>3 DEF ParseSymbolizeDataOutput
  <2>. QED  BY <1>3, <2>1, ParseDataKeeps DEF ReadInvariant, AskedInvariant, CodeInvariant
<1>4. CASE Done \/ UNCHANGED vars
  <2>1. UNCHANGED <<truth, str, frames, data, pc>>
    BY <1>4 DEF Done, vars
  <2>. QED  BY <2>1 DEF ReadInvariant, CodeInvariant, DataInvariant, Behind, Exact, Spoilt, MeantUpTo
<1>. QED  BY <1>1, <1>2, <1>3, <1>4 DEF Next

\* What has been parsed is always the frames meant so far, but perhaps for the last one of a
\* reply that was cut (ParseSymbolizeAddrOutput).
THEOREM ReplyIsReadInOrder == Spec => []ReadInvariant
BY ReadInvariantInit, ReadInvariantNext, PTL DEF Spec

\* A whole reply is understood frame by frame (ParseSymbolizeAddrOutput, ParseFileLineInfo);
\* only a file name of one character keeps the mark of an unknown line.
THEOREM ReplyIsUnderstood == Spec => []FramesAreMeant
<1>1. ReadInvariant => FramesAreMeant
  <2>. SUFFICES ASSUME ReadInvariant, truth.of = "code", truth.whole, pc = "done"
                PROVE  frames = [k \in DOMAIN truth.frames |-> FrameMeant(truth.frames[k])]
    BY DEF FramesAreMeant
  <2>1. /\ frames \in Seq(Parsed) /\ Len(frames) = Len(truth.frames)
        /\ \E style \in Styles : truth.frames \in Seq(FrameTexts(style))
        /\ MeantUpTo(Len(frames))
    BY DEF ReadInvariant, CodeInvariant, Exact, Spoilt
  <2>2. DOMAIN truth.frames = 1..Len(frames) /\ DOMAIN frames = 1..Len(frames)
        /\ frames = [k \in 1..Len(frames) |-> frames[k]]
    BY <2>1, LenProperties
  <2>. QED  BY <2>1, <2>2 DEF MeantUpTo
<1>. QED  BY <1>1, ReplyIsReadInOrder, PTL

\* Of a reply that was cut, no frame but the last is other than it was meant.
THEOREM CutReplyIsContained == Spec => []OnlyLastFrameSuffers
<1>1. ReadInvariant => OnlyLastFrameSuffers
  <2>. SUFFICES ASSUME ReadInvariant, truth.of = "code", pc = "done"
                PROVE  /\ Len(frames) <= Len(truth.frames)
                       /\ \A k \in 1..Len(frames) - 1 : frames[k] = FrameMeant(truth.frames[k])
    BY DEF OnlyLastFrameSuffers
  <2>1. frames \in Seq(Parsed) /\ Len(frames) <= Len(truth.frames)
    BY DEF ReadInvariant, CodeInvariant
  <2>2. MeantUpTo(Len(frames)) \/ MeantUpTo(Len(frames) - 1)
    BY DEF ReadInvariant, CodeInvariant, Exact, Spoilt
  <2>3. \A k \in 1..Len(frames) - 1 : k \in 1..Len(frames)
    BY <2>1, LenProperties
  <2>. QED  BY <2>1, <2>2, <2>3 DEF MeantUpTo
<1>. QED  BY <1>1, ReplyIsReadInOrder, PTL

\* The data of a whole reply of three lines are understood (ParseSymbolizeDataOutput).
THEOREM DataAreUnderstood == Spec => []DataAreMeant
<1>1. Init => AskedInvariant
  BY ReadInvariantInit DEF ReadInvariant, AskedInvariant, CodeInvariant
<1>2. AskedInvariant => DataAreMeant
  BY DEF AskedInvariant, DataInvariant, DataAreMeant
<1>. QED  BY <1>1, <1>2, AskedInvariantNext, PTL DEF Spec

=============================================================================
