----------------------------- MODULE FlattenProofs -----------------------------
(***************************************************************************)
(* What FlattenSeq returns, for any sequence of sequences: the batches of  *)
(* the plugins of a pass, the operations of the plugins of a set and the   *)
(* node blocks of the dirty files are strung together with it.             *)
(*                                                                         *)
(* FlattenSeq is a recursive function, so its facts are inductions; they   *)
(* are made from the least number at which one would fail.                 *)
(***************************************************************************)
EXTENDS SequencesExt, SequenceTheorems, FiniteSetTheorems, TLAPS

(* A number that fails has a least one among those that do.                 *)
LEMMA LeastElement ==
  ASSUME NEW T, T \subseteq Nat, T # {}
  PROVE  \E m \in T : \A k \in T : m <= k
<1> DEFINE Up == {1 .. k : k \in T}
<1>1. \A k \in T : IsFiniteSet(1 .. k) /\ 1 .. k \subseteq Nat
  <2> SUFFICES ASSUME NEW k \in T PROVE IsFiniteSet(1 .. k) /\ 1 .. k \subseteq Nat
    OBVIOUS
  <2>1. k \in Int /\ 1 \in Int
    OBVIOUS
  <2>2. IsFiniteSet(1 .. k)
    BY <2>1, FS_Interval
  <2>. QED  BY <2>2
<1>2. Up \subseteq FiniteSubsetsOf(Nat) /\ Up # {}
  BY <1>1 DEF FiniteSubsetsOf
<1> HIDE DEF Up
<1>3. PICK U \in Up : \A V \in Up : ~(<<V, U>> \in StrictSubsetOrdering(Nat))
  <2> DEFINE R == StrictSubsetOrdering(Nat)
             F == FiniteSubsetsOf(Nat)
  <2>1. IsWellFoundedOn(R, F)
    BY FS_StrictSubsetOrderingWellFounded
  <2>2. Up \subseteq F
    BY <1>2
  <2> HIDE DEF R, F
  <2>3. \E U \in Up : \A V \in Up : ~(<<V, U>> \in R)
    BY <1>2, <2>1, <2>2, WFMin
  <2>. QED  BY <2>3 DEF R
<1>4. PICK m \in T : U = 1 .. m
  BY <1>3 DEF Up
<1>5. ASSUME NEW k \in T, k < m PROVE FALSE
  <2>1. 1 .. k \subseteq 1 .. m /\ m \in 1 .. m /\ m \notin 1 .. k
    BY <1>5
  <2>2. <<1 .. k, 1 .. m>> \in StrictSubsetOrdering(Nat)
    BY <1>1, <2>1 DEF StrictSubsetOrdering
  <2>3. 1 .. k \in Up
    BY DEF Up
  <2>. QED  BY <1>3, <1>4, <2>2, <2>3
<1>. QED  BY <1>4, <1>5

(* The first n partial concatenations.                                      *)
Concats(f, seqs, n) ==
  f = [i \in 1 .. n |-> IF i = 1 THEN seqs[i] ELSE f[i - 1] \o seqs[i]]

(* The recursion of FlattenSeq has a solution.                              *)
LEMMA ConcatsExist ==
  ASSUME NEW seqs, NEW n \in Nat
  PROVE  \E f : Concats(f, seqs, n)
<1> DEFINE T == {k \in Nat : ~ \E f : Concats(f, seqs, k)}
<1> SUFFICES ASSUME T # {} PROVE FALSE
  OBVIOUS
<1>1. PICK m \in T : \A k \in T : m <= k
  BY LeastElement
<1>2. m # 0
  <2>1. Concats([i \in 1 .. 0 |-> 0], seqs, 0)
    BY DEF Concats
  <2>. QED  BY <1>1, <2>1
<1>3. PICK g : Concats(g, seqs, m - 1)
  BY <1>1, <1>2
<1> DEFINE f == [i \in 1 .. m |-> IF i = 1 THEN seqs[i] ELSE g[i - 1] \o seqs[i]]
<1>4. m \in Nat /\ \A i \in 1 .. (m - 1) : g[i] = IF i = 1 THEN seqs[i] ELSE g[i - 1] \o seqs[i]
  BY <1>1, <1>3 DEF Concats
<1>5. \A i \in 1 .. (m - 1) : f[i] = g[i]
  BY <1>4
<1>6. \A i \in 1 .. m : i # 1 => i - 1 \in 1 .. (m - 1)
  BY <1>4
<1>7. f = [i \in 1 .. m |-> IF i = 1 THEN seqs[i] ELSE f[i - 1] \o seqs[i]]
  <2>. \A i \in 1 .. m : f[i] = IF i = 1 THEN seqs[i] ELSE f[i - 1] \o seqs[i]
    BY <1>5, <1>6
  <2>. QED  OBVIOUS
<1>. QED  BY <1>1, <1>7 DEF Concats

(* Where each sequence ends in the concatenation.                           *)
Offsets(off, seqs) ==
  /\ off \in [0 .. Len(seqs) -> Nat]
  /\ off[0] = 0
  /\ \A i \in 1 .. Len(seqs) : off[i] = off[i - 1] + Len(seqs[i])

Placed(flat, off, seqs, n) ==
  /\ Len(flat) = off[n]
  /\ \A i \in 1 .. n : \A k \in 1 .. Len(seqs[i]) : off[i - 1] + k \in DOMAIN flat /\ flat[off[i - 1] + k] = seqs[i][k]
  /\ \A p \in DOMAIN flat : \E i \in 1 .. n : p - off[i - 1] \in 1 .. Len(seqs[i])

(* Concatenation, in the terms of this module.                              *)
LEMMA ConcatParts ==
  ASSUME NEW S, NEW a \in Seq(S), NEW b \in Seq(S)
  PROVE  /\ a \o b \in Seq(S)
         /\ Len(a) \in Nat /\ DOMAIN a = 1 .. Len(a) /\ Len(b) \in Nat /\ DOMAIN b = 1 .. Len(b)
         /\ Len(a \o b) = Len(a) + Len(b) /\ DOMAIN (a \o b) = 1 .. (Len(a) + Len(b))
         /\ \A p \in 1 .. Len(a) : (a \o b)[p] = a[p]
         /\ \A k \in 1 .. Len(b) : (a \o b)[Len(a) + k] = b[k]
OBVIOUS

(* One more sequence goes behind what is placed already.                    *)
LEMMA PlacedStep ==
  ASSUME NEW S, NEW seqs, NEW off, NEW n \in Nat \ {0}, NEW a \in Seq(S), seqs[n] \in Seq(S),
         Placed(a, off, seqs, n - 1), off[n - 1] = Len(a), off[n] = Len(a) + Len(seqs[n])
  PROVE  Placed(a \o seqs[n], off, seqs, n)
<1> DEFINE b == seqs[n]
           c == a \o b
<1>1. /\ Len(a) \in Nat /\ DOMAIN a = 1 .. Len(a) /\ Len(b) \in Nat /\ DOMAIN b = 1 .. Len(b)
      /\ Len(c) = Len(a) + Len(b) /\ DOMAIN c = 1 .. (Len(a) + Len(b))
      /\ \A p \in 1 .. Len(a) : c[p] = a[p]
      /\ \A k \in 1 .. Len(b) : c[Len(a) + k] = b[k]
  BY ConcatParts
<1> HIDE DEF c
<1>2. \A i \in 1 .. n : i = n \/ i \in 1 .. (n - 1)
  OBVIOUS
<1>3. ASSUME NEW i \in 1 .. n, NEW k \in 1 .. Len(seqs[i])
      PROVE  off[i - 1] + k \in DOMAIN c /\ c[off[i - 1] + k] = seqs[i][k]
  <2>1. CASE i = n
    <3>1. off[i - 1] = Len(a) /\ k \in 1 .. Len(b)
      BY <1>3, <2>1
    <3>2. Len(a) + k \in 1 .. (Len(a) + Len(b))
      BY <1>1, <3>1
    <3>. QED  BY <1>1, <2>1, <3>1, <3>2
  <2>2. CASE i \in 1 .. (n - 1)
    <3>1. off[i - 1] + k \in 1 .. Len(a) /\ a[off[i - 1] + k] = seqs[i][k]
      BY <1>1, <1>3, <2>2 DEF Placed
    <3>2. off[i - 1] + k \in DOMAIN c
      BY <1>1, <3>1
    <3>. QED  BY <1>1, <3>1, <3>2
  <2>. QED  BY <1>2, <2>1, <2>2
<1>4. ASSUME NEW p \in DOMAIN c PROVE \E i \in 1 .. n : p - off[i - 1] \in 1 .. Len(seqs[i])
  <2>1. CASE p \in 1 .. Len(a)
    <3>1. PICK i \in 1 .. (n - 1) : p - off[i - 1] \in 1 .. Len(seqs[i])
      BY <1>1, <2>1 DEF Placed
    <3>. QED  BY <3>1
  <2>2. CASE p \notin 1 .. Len(a)
    <3>1. p - Len(a) \in 1 .. Len(b)
      BY <1>1, <1>4, <2>2
    <3>2. n \in 1 .. n
      OBVIOUS
    <3>. QED  BY <3>1, <3>2
  <2>. QED  BY <2>1, <2>2
<1>5. Placed(c, off, seqs, n)
  BY <1>1, <1>3, <1>4 DEF Placed
<1>. QED  BY <1>5 DEF c

(* Each partial concatenation holds the sequences so far, in their places.  *)
LEMMA ConcatsPlace ==
  ASSUME NEW S, NEW seqs \in Seq(Seq(S)), NEW f, Concats(f, seqs, Len(seqs))
  PROVE  \E off : Offsets(off, seqs) /\ \A n \in 1 .. Len(seqs) : f[n] \in Seq(S) /\ Placed(f[n], off, seqs, n)
<1> DEFINE L == Len(seqs)
           off == [i \in 0 .. L |-> IF i = 0 THEN 0 ELSE Len(f[i])]
           Good(n) == /\ f[n] \in Seq(S) /\ off[n] = off[n - 1] + Len(seqs[n]) /\ off[n] \in Nat
                      /\ off[n - 1] \in Nat
                      /\ Placed(f[n], off, seqs, n)
           T == {n \in 1 .. L : ~Good(n)}
<1>0. L \in Nat /\ \A i \in 1 .. L : seqs[i] \in Seq(S)
  OBVIOUS
<1>01. \A i \in 1 .. L : f[i] = IF i = 1 THEN seqs[i] ELSE f[i - 1] \o seqs[i]
  <2>1. f = [i \in 1 .. L |-> IF i = 1 THEN seqs[i] ELSE f[i - 1] \o seqs[i]]
    BY DEF Concats
  <2> DEFINE step == [i \in 1 .. L |-> IF i = 1 THEN seqs[i] ELSE f[i - 1] \o seqs[i]]
  <2>2. \A i \in 1 .. L : step[i] = IF i = 1 THEN seqs[i] ELSE f[i - 1] \o seqs[i]
    OBVIOUS
  <2>. QED  BY <2>1, <2>2, Zenon
<1>00. off[0] = 0 /\ \A i \in 1 .. L : off[i] = Len(f[i])
  BY <1>0
<1> HIDE DEF off
<1>1. L >= 1 => Good(1)
  <2> SUFFICES ASSUME L >= 1 PROVE Good(1)
    OBVIOUS
  <2>1. f[1] = seqs[1] /\ seqs[1] \in Seq(S) /\ off[1] = Len(seqs[1]) /\ 1 - 1 = 0
    BY <1>0, <1>00, <1>01
  <2>2. Len(seqs[1]) \in Nat /\ DOMAIN seqs[1] = 1 .. Len(seqs[1])
    BY <2>1
  <2>3. Placed(f[1], off, seqs, 1)
    BY <1>00, <2>1, <2>2 DEF Placed
  <2>. QED  BY <1>00, <2>1, <2>2, <2>3
<1>2. ASSUME NEW n \in 2 .. L, Good(n - 1) PROVE Good(n)
  <2>1. /\ n - 1 \in 1 .. L /\ f[n - 1] \in Seq(S) /\ seqs[n] \in Seq(S) /\ f[n] = f[n - 1] \o seqs[n]
        /\ Placed(f[n - 1], off, seqs, n - 1) /\ off[n - 1] = Len(f[n - 1]) /\ off[n] = Len(f[n])
        /\ n \in Nat \ {0}
    <3>1. n \in 1 .. L /\ n - 1 \in 1 .. L /\ n # 1 /\ n \in Nat \ {0}
      BY <1>0
    <3>2. f[n] = f[n - 1] \o seqs[n]
      BY <1>01, <3>1
    <3>. QED  BY <1>0, <1>00, <1>2, <3>1, <3>2
  <2>2. /\ f[n] \in Seq(S) /\ Len(f[n - 1]) \in Nat /\ Len(seqs[n]) \in Nat
        /\ Len(f[n]) = Len(f[n - 1]) + Len(seqs[n])
    BY <2>1, ConcatParts
  <2>3. Placed(f[n], off, seqs, n)
    BY <2>1, <2>2, PlacedStep
  <2>4. off[n - 1] \in Nat /\ off[n] = off[n - 1] + Len(seqs[n])
    BY <2>1, <2>2
  <2>5. off[n] \in Nat
    BY <2>2, <2>4
  <2>. QED  BY <2>2, <2>3, <2>4, <2>5
<1>3. T = {}
  <2> SUFFICES ASSUME T # {} PROVE FALSE
    OBVIOUS
  <2>1. T \subseteq Nat
    BY <1>0
  <2> HIDE DEF Good
  <2>2. PICK m \in T : \A k \in T : m <= k
    BY <2>1, LeastElement
  <2>3. m \in 1 .. L /\ ~Good(m)
    BY <2>2
  <2>4. m # 1
    BY <1>1, <2>3
  <2>5. m - 1 \in 1 .. L /\ m \in 2 .. L
    BY <1>0, <2>3, <2>4
  <2>6. m - 1 \notin T
    BY <2>2, <2>3
  <2>7. Good(m - 1)
    BY <2>5, <2>6
  <2>. QED  BY <1>2, <2>3, <2>5, <2>7
<1>4. \A n \in 1 .. L : Good(n)
  BY <1>3
<1>5. Offsets(off, seqs)
  <2>1. off \in [0 .. L -> Nat]
    <3>1. off = [i \in 0 .. L |-> off[i]]
      BY DEF off
    <3>2. \A i \in 0 .. L : i = 0 \/ i \in 1 .. L
      BY <1>0
    <3>3. \A i \in 0 .. L : off[i] \in Nat
      BY <1>00, <1>4, <3>2
    <3>. QED  BY <3>1, <3>3
  <2>. QED  BY <1>00, <1>4, <2>1 DEF Offsets
<1>. QED  BY <1>4, <1>5

(* FlattenSeq is a sequence of what the sequences hold, each after the one  *)
(* before it.                                                               *)
LEMMA FlattenSeqPlaces ==
  ASSUME NEW S, NEW seqs \in Seq(Seq(S))
  PROVE  /\ FlattenSeq(seqs) \in Seq(S)
         /\ \E off : Offsets(off, seqs) /\ Placed(FlattenSeq(seqs), off, seqs, Len(seqs))
<1> DEFINE L == Len(seqs)
<1>0. L \in Nat /\ DOMAIN seqs = 1 .. L
  OBVIOUS
<1>1. CASE L = 0
  <2>1. FlattenSeq(seqs) = seqs /\ seqs = <<>>
    BY <1>1 DEF FlattenSeq
  <2> DEFINE off == [i \in 0 .. 0 |-> 0]
  <2>2. Offsets(off, seqs) /\ Placed(seqs, off, seqs, L)
    BY <1>1, <2>1 DEF Offsets, Placed
  <2>. QED  BY <1>1, <2>1, <2>2
<1>2. CASE L # 0
  <2> DEFINE f == CHOOSE flatten : Concats(flatten, seqs, L)
  <2>1. Concats(f, seqs, L)
    BY <1>0, ConcatsExist
  <2>2. FlattenSeq(seqs) = f[L]
    BY <1>2 DEF FlattenSeq, Concats
  <2> HIDE DEF f
  <2>3. L \in 1 .. L
    BY <1>0, <1>2
  <2>. QED  BY <2>1, <2>2, <2>3, ConcatsPlace
<1>. QED  BY <1>1, <1>2

Entries(seq) == {seq[i] : i \in DOMAIN seq}

(* What it holds is what they hold: no operation is lost or made up.        *)
LEMMA FlattenSeqEntries ==
  ASSUME NEW S, NEW seqs \in Seq(Seq(S))
  PROVE  Entries(FlattenSeq(seqs)) = UNION {Entries(seqs[i]) : i \in DOMAIN seqs}
<1> DEFINE L == Len(seqs)
           flat == FlattenSeq(seqs)
<1>0. L \in Nat /\ DOMAIN seqs = 1 .. L /\ \A i \in 1 .. L : DOMAIN seqs[i] = 1 .. Len(seqs[i])
  OBVIOUS
<1>1. PICK off : Offsets(off, seqs) /\ Placed(flat, off, seqs, L)
  BY FlattenSeqPlaces
<1> HIDE DEF flat
<1>2. ASSUME NEW p \in DOMAIN flat PROVE \E i \in 1 .. L : flat[p] \in Entries(seqs[i])
  <2>1. flat \in Seq(S)
    BY FlattenSeqPlaces DEF flat
  <2>2. PICK i \in 1 .. L : p - off[i - 1] \in 1 .. Len(seqs[i])
    BY <1>1, <1>2 DEF Placed
  <2>3. off[i - 1] \in Nat /\ p \in Nat
    <3>0. p \in 1 .. Len(flat) /\ Len(flat) \in Nat
      BY <2>1, <1>2
    <3>1. off \in [0 .. L -> Nat] /\ i - 1 \in 0 .. L
      BY <1>0, <1>1 DEF Offsets
    <3>2. off[i - 1] \in Nat
      BY <3>1
    <3>. QED  BY <3>0, <3>2
  <2>4. off[i - 1] + (p - off[i - 1]) = p
    BY <2>3
  <2>5. flat[p] = seqs[i][p - off[i - 1]]
    BY <1>1, <2>2, <2>4 DEF Placed
  <2>. QED  BY <1>0, <2>2, <2>5 DEF Entries
<1>3. ASSUME NEW i \in 1 .. L, NEW k \in DOMAIN seqs[i] PROVE seqs[i][k] \in Entries(flat)
  <2>1. k \in 1 .. Len(seqs[i])
    BY <1>0
  <2>2. off[i - 1] + k \in DOMAIN flat /\ flat[off[i - 1] + k] = seqs[i][k]
    BY <1>1, <2>1 DEF Placed
  <2>. QED  BY <2>2 DEF Entries
<1>4. Entries(flat) \subseteq UNION {Entries(seqs[i]) : i \in DOMAIN seqs}
  BY <1>0, <1>2 DEF Entries
<1>5. UNION {Entries(seqs[i]) : i \in DOMAIN seqs} \subseteq Entries(flat)
  BY <1>0, <1>3 DEF Entries
<1>. QED  BY <1>4, <1>5 DEF flat

-----------------------------------------------------------------------------
(* Growing a sequence of sequences by one.                                  *)

(* The partial concatenations depend on the sequences before only.          *)
LEMMA ConcatsAgree ==
  ASSUME NEW f, NEW g, NEW a, NEW b, NEW n \in Nat, NEW m \in Nat, n <= m,
         Concats(f, a, n), Concats(g, b, m), \A i \in 1 .. n : a[i] = b[i]
  PROVE  \A i \in 1 .. n : f[i] = g[i]
<1> DEFINE T == {i \in 1 .. n : f[i] # g[i]}
<1> SUFFICES ASSUME T # {} PROVE FALSE
  OBVIOUS
<1>1. PICK l \in T : \A k \in T : l <= k
  <2>1. T \subseteq Nat
    OBVIOUS
  <2> HIDE DEF T
  <2>. QED  BY <2>1, LeastElement
<1>2. l \in 1 .. n /\ l \in 1 .. m /\ f[l] # g[l]
  BY <1>1
<1>3. /\ f[l] = IF l = 1 THEN a[l] ELSE f[l - 1] \o a[l]
      /\ g[l] = IF l = 1 THEN b[l] ELSE g[l - 1] \o b[l]
  BY <1>2 DEF Concats
<1>4. ASSUME l # 1 PROVE f[l - 1] = g[l - 1]
  <2>1. l - 1 \in 1 .. n /\ ~(l <= l - 1)
    BY <1>2, <1>4
  <2>2. l - 1 \notin T
    BY <1>1, <2>1
  <2>. QED  BY <2>1, <2>2
<1>5. a[l] = b[l]
  BY <1>2
<1>. QED  BY <1>2, <1>3, <1>4, <1>5

(* FlattenSeq is the last of the partial concatenations.                    *)
LEMMA FlattenSeqIsLast ==
  ASSUME NEW seqs, Len(seqs) \in Nat \ {0}
  PROVE  \E f : Concats(f, seqs, Len(seqs)) /\ FlattenSeq(seqs) = f[Len(seqs)]
<1> DEFINE L == Len(seqs)
           f == CHOOSE flatten : Concats(flatten, seqs, L)
<1>1. Concats(f, seqs, L)
  BY ConcatsExist
<1>2. FlattenSeq(seqs) = f[L]
  BY DEF FlattenSeq, Concats
<1>. QED  BY <1>1, <1>2

(* Nothing strung together is nothing.                                      *)
LEMMA FlattenSeqEmpty == FlattenSeq(<<>>) = <<>>
BY DEF FlattenSeq

(* Sequences of no entry and of one.                                        *)
LEMMA ShortSequences ==
  ASSUME NEW S, NEW s \in Seq(S)
  PROVE  /\ Len(s) \in Nat /\ (Len(s) = 0 <=> s = <<>>)
         /\ Len(s) <= 1 /\ s # <<>> => s = <<s[1]>> /\ s[1] \in S
         /\ \A x \in S : s \o <<x>> = Append(s, x)
<1>1. Len(s) \in Nat /\ (Len(s) = 0 <=> s = <<>>)
  OBVIOUS
<1>2. \A x \in S : s \o <<x>> = Append(s, x)
  OBVIOUS
<1>3. ASSUME Len(s) <= 1, s # <<>> PROVE s = <<s[1]>> /\ s[1] \in S
  <2>1. Len(s) = 1
    <3>1. PICK n : n = Len(s)
      OBVIOUS
    <3>2. n \in Nat /\ n <= 1 /\ n # 0
      BY <1>1, <1>3, <3>1
    <3>3. n = 1
      BY <3>2
    <3>. QED  BY <3>1, <3>3
  <2>2. s[1] \in S /\ DOMAIN s = 1 .. 1
    BY <2>1
  <2>3. s = [i \in 1 .. 1 |-> s[i]]
    BY <2>2
  <2>. QED  BY <2>2, <2>3
<1>. QED  BY <1>1, <1>2, <1>3

(* One step of the concatenation.                                           *)
LEMMA ConcatsStep ==
  ASSUME NEW f, NEW seqs, NEW n \in Nat \ {0}, Concats(f, seqs, n)
  PROVE  f[n] = IF n = 1 THEN seqs[n] ELSE f[n - 1] \o seqs[n]
<1>1. n \in 1 .. n
  OBVIOUS
<1>. QED  BY <1>1 DEF Concats

(* One more sequence at the end goes to the end.                            *)
LEMMA FlattenSeqAppend ==
  ASSUME NEW S, NEW seqs \in Seq(Seq(S)), NEW s \in Seq(S)
  PROVE  FlattenSeq(Append(seqs, s)) = FlattenSeq(seqs) \o s
<1>1. PICK l \in Nat, n \in Nat \ {0} : l = Len(seqs) /\ n = l + 1
  <2>1. Len(seqs) \in Nat /\ Len(seqs) + 1 \in Nat \ {0}
    OBVIOUS
  <2>. QED  BY <2>1
<1> DEFINE more == Append(seqs, s)
<1>2. Len(more) = n /\ more[n] = s /\ \A i \in 1 .. l : more[i] = seqs[i]
  BY <1>1
<1>3. PICK f : Concats(f, more, n) /\ FlattenSeq(more) = f[n]
  BY <1>1, <1>2, FlattenSeqIsLast
<1> HIDE DEF more
<1>4. f[n] = IF n = 1 THEN more[n] ELSE f[n - 1] \o more[n]
  BY <1>3, ConcatsStep
<1>5. CASE l = 0
  <2>0. seqs = <<>> /\ n = 1
    <3>1. Len(seqs) = 0 /\ n = 1
      BY <1>1, <1>5
    <3>2. seqs = <<>>
      BY <3>1, ShortSequences
    <3>. QED  BY <3>1, <3>2
  <2>1. FlattenSeq(more) = s
    BY <1>2, <1>3, <1>4, <2>0
  <2>2. <<>> \o s = s
    OBVIOUS
  <2>. QED  BY <2>0, <2>1, <2>2, FlattenSeqEmpty DEF more
<1>6. CASE l # 0
  <2>1. PICK g : Concats(g, seqs, l) /\ FlattenSeq(seqs) = g[l]
    BY <1>1, <1>6, FlattenSeqIsLast
  <2>2. l <= n /\ l \in 1 .. l /\ n - 1 = l /\ n # 1 /\ \A i \in 1 .. l : seqs[i] = more[i]
    BY <1>1, <1>2, <1>6
  <2>3. \A i \in 1 .. l : g[i] = f[i]
    BY <1>3, <2>1, <2>2, ConcatsAgree
  <2>. QED  BY <1>2, <1>3, <1>4, <2>1, <2>2, <2>3 DEF more
<1>. QED  BY <1>5, <1>6

(* The last of a sequence that is not empty, and what is before it.         *)
LEMMA FrontAndLast ==
  ASSUME NEW S, NEW s \in Seq(S), s # <<>>
  PROVE  \E front \in Seq(S), last \in S :
           s = Append(front, last) /\ Len(s) = Len(front) + 1
<1> DEFINE L == Len(s)
           front == [i \in 1 .. (L - 1) |-> s[i]]
<1>1. L \in Nat \ {0} /\ DOMAIN s = 1 .. L /\ \A i \in 1 .. L : s[i] \in S
  OBVIOUS
<1>2. front \in Seq(S) /\ Len(front) = L - 1
  BY <1>1, SeqDef
<1>3. s = Append(front, s[L])
  BY <1>1, <1>2
<1>4. s[L] \in S /\ Len(s) = Len(front) + 1
  BY <1>1, <1>2
<1>. QED  BY <1>2, <1>3, <1>4

(* Sequences of at most one entry, strung together and each entry then      *)
(* replaced by a sequence, are those sequences strung together.             *)
Expanded(list, E) == FlattenSeq([k \in DOMAIN list |-> E[list[k]]])
Singles(parts, E) == FlattenSeq([i \in DOMAIN parts |-> IF parts[i] = <<>> THEN <<>> ELSE E[parts[i][1]]])

LEMMA FlattenSeqThrough ==
  ASSUME NEW S, NEW R, NEW E \in [S -> Seq(R)], NEW parts \in Seq(Seq(S)),
         \A i \in DOMAIN parts : Len(parts[i]) <= 1
  PROVE  Expanded(FlattenSeq(parts), E) = Singles(parts, E)
<1> DEFINE Small(p) == \A i \in DOMAIN p : Len(p[i]) <= 1
           T == {n \in Nat : \E p \in Seq(Seq(S)) : Len(p) = n /\ Small(p) /\ Expanded(FlattenSeq(p), E) # Singles(p, E)}
<1> SUFFICES ASSUME T # {} PROVE FALSE
  <2>1. Len(parts) \in Nat
    OBVIOUS
  <2>. QED  BY <2>1
<1>1. PICK n \in T : \A k \in T : n <= k
  BY LeastElement
<1>2. PICK p \in Seq(Seq(S)) : Len(p) = n /\ Small(p) /\ Expanded(FlattenSeq(p), E) # Singles(p, E)
  BY <1>1
<1>3. p # <<>>
  <2>1. ASSUME p = <<>> PROVE FALSE
    <3>1. [k \in DOMAIN p |-> E[p[k]]] = <<>> /\ [i \in DOMAIN p |-> IF p[i] = <<>> THEN <<>> ELSE E[p[i][1]]] = <<>>
      BY <2>1
    <3>2. FlattenSeq(p) = p
      BY <2>1, FlattenSeqEmpty
    <3>. QED  BY <1>2, <3>1, <3>2 DEF Expanded, Singles
  <2>. QED  BY <2>1
<1>4. PICK front \in Seq(Seq(S)), last \in Seq(S) : p = Append(front, last) /\ Len(p) = Len(front) + 1
  BY <1>3, FrontAndLast
<1>5. /\ Len(front) \in Nat /\ DOMAIN front = 1 .. Len(front) /\ DOMAIN p = 1 .. (Len(front) + 1)
      /\ p[Len(front) + 1] = last /\ \A i \in DOMAIN front : p[i] = front[i]
  BY <1>4
<1>6. Small(front) /\ Len(last) <= 1
  BY <1>2, <1>5
<1>7. Expanded(FlattenSeq(front), E) = Singles(front, E)
  <2>1. Len(front) \notin T
    BY <1>1, <1>2, <1>4, <1>5
  <2>. QED  BY <1>5, <1>6, <2>1
<1> DEFINE flat == FlattenSeq(front)
           grown == [k \in DOMAIN flat |-> E[flat[k]]]
           picked == [i \in DOMAIN front |-> IF front[i] = <<>> THEN <<>> ELSE E[front[i][1]]]
<1>8. flat \in Seq(S)
  BY FlattenSeqPlaces
<1> HIDE DEF flat
<1>9. grown \in Seq(Seq(R))
  <2>1. Len(flat) \in Nat /\ DOMAIN flat = 1 .. Len(flat) /\ \A k \in 1 .. Len(flat) : E[flat[k]] \in Seq(R)
    BY <1>8
  <2>2. grown \in [1 .. Len(flat) -> Seq(R)]
    BY <2>1
  <2>. QED  BY <2>1, <2>2, SeqDef
<1>10. picked \in Seq(Seq(R))
  <2>1. \A i \in 1 .. Len(front) : picked[i] \in Seq(R)
    <3> SUFFICES ASSUME NEW i \in 1 .. Len(front) PROVE picked[i] \in Seq(R)
      OBVIOUS
    <3>1. front[i] \in Seq(S)
      BY <1>5
    <3>2. CASE front[i] = <<>>
      BY <1>5, <3>2
    <3>3. CASE front[i] # <<>>
      <4>1. front[i][1] \in S
        BY <3>1, <3>3
      <4>. QED  BY <1>5, <3>3, <4>1
    <3>. QED  BY <3>2, <3>3
  <2>. QED  BY <1>5, <2>1, SeqDef
<1>11. FlattenSeq(p) = flat \o last
  BY <1>4, FlattenSeqAppend DEF flat
<1>12. FlattenSeq(grown) = FlattenSeq(picked)
  BY <1>7 DEF Expanded, Singles, flat
<1> DEFINE wide == IF last = <<>> THEN <<>> ELSE E[last[1]]
<1>13. wide \in Seq(R)
  <2>1. CASE last = <<>>
    BY <2>1
  <2>2. CASE last # <<>>
    <3>1. last[1] \in S
      BY <2>2
    <3>. QED  BY <2>2, <3>1
  <2>. QED  BY <2>1, <2>2
<1>14. Singles(p, E) = FlattenSeq(picked) \o wide
  <2>1. [i \in DOMAIN p |-> IF p[i] = <<>> THEN <<>> ELSE E[p[i][1]]] = Append(picked, wide)
    <3>1. Len(picked) = Len(front) /\ DOMAIN picked = 1 .. Len(front)
      BY <1>5
    <3>2. /\ DOMAIN Append(picked, wide) = 1 .. (Len(front) + 1)
          /\ Append(picked, wide)[Len(front) + 1] = wide
          /\ \A i \in 1 .. Len(front) : Append(picked, wide)[i] = picked[i]
      BY <1>5, <1>10, <1>13, <3>1
    <3>3. \A i \in 1 .. (Len(front) + 1) : Append(picked, wide)[i] = IF p[i] = <<>> THEN <<>> ELSE E[p[i][1]]
      <4> SUFFICES ASSUME NEW i \in 1 .. (Len(front) + 1)
                   PROVE  Append(picked, wide)[i] = IF p[i] = <<>> THEN <<>> ELSE E[p[i][1]]
        OBVIOUS
      <4>1. CASE i = Len(front) + 1
        BY <1>5, <3>2, <4>1
      <4>2. CASE i # Len(front) + 1
        <5>1. i \in 1 .. Len(front)
          BY <1>5, <4>2
        <5>. QED  BY <1>5, <3>2, <5>1
      <4>. QED  BY <4>1, <4>2
    <3>4. Append(picked, wide) \in Seq(Seq(R))
      BY <1>10, <1>13
    <3> DEFINE both == Append(picked, wide)
               n1 == Len(front) + 1
    <3>5. both = [i \in 1 .. n1 |-> both[i]]
      <4>1. DOMAIN both = 1 .. n1 /\ both \in Seq(Seq(R))
        BY <3>2, <3>4
      <4> HIDE DEF both, n1
      <4>. QED  BY <4>1
    <3>6. DOMAIN p = 1 .. n1 /\ \A i \in 1 .. n1 : both[i] = IF p[i] = <<>> THEN <<>> ELSE E[p[i][1]]
      BY <1>5, <3>3
    <3> HIDE DEF both, n1
    <3>7. [i \in DOMAIN p |-> IF p[i] = <<>> THEN <<>> ELSE E[p[i][1]]] = both
      BY <3>5, <3>6
    <3>. QED  BY <3>7 DEF both
  <2>. QED  BY <1>10, <1>13, <2>1, FlattenSeqAppend DEF Singles
<1>15. Expanded(FlattenSeq(p), E) = FlattenSeq(grown) \o wide
  <2>1. CASE last = <<>>
    <3>1. flat \o last = flat
      BY <1>8, <2>1
    <3>2. FlattenSeq(grown) \in Seq(R)
      BY <1>9, FlattenSeqPlaces
    <3>3. FlattenSeq(grown) \o <<>> = FlattenSeq(grown)
      BY <3>2
    <3>4. wide = <<>>
      BY <2>1
    <3>. QED  BY <1>11, <3>1, <3>3, <3>4 DEF Expanded
  <2>2. CASE last # <<>>
    <3>1. last = <<last[1]>> /\ last[1] \in S
      BY <1>6, <2>2, ShortSequences
    <3>2. flat \o last = Append(flat, last[1])
      BY <1>8, <3>1, ShortSequences
    <3>3. [k \in DOMAIN Append(flat, last[1]) |-> E[Append(flat, last[1])[k]]] = Append(grown, E[last[1]])
      BY <1>8, <3>1
    <3>4. E[last[1]] \in Seq(R) /\ wide = E[last[1]]
      BY <2>2, <3>1
    <3>5. Expanded(FlattenSeq(p), E) = FlattenSeq(Append(grown, E[last[1]]))
      BY <1>11, <3>2, <3>3 DEF Expanded
    <3>6. FlattenSeq(Append(grown, E[last[1]])) = FlattenSeq(grown) \o E[last[1]]
      BY <1>9, <3>4, FlattenSeqAppend
    <3>. QED  BY <3>4, <3>5, <3>6
  <2>. QED  BY <2>1, <2>2
<1>. QED  BY <1>2, <1>12, <1>14, <1>15
=============================================================================
