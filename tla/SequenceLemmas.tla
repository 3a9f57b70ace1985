---------------------------- MODULE SequenceLemmas ----------------------------
(***************************************************************************)
(* Facts about sequences that the proofs of several components use; in     *)
(* particular about sequences of consecutive numbers, by which messages    *)
(* and replies are told apart.                                             *)
(***************************************************************************)
EXTENDS SequenceTheorems, WellFoundedInduction, TLAPS

\* q holds the numbers that follow n.
Follow(q, n) == \A i \in 1..Len(q) : q[i] = n + i

\* A set of numbers up to n that is not empty has a greatest element.
LEMMA Greatest ==
  ASSUME NEW n \in Nat, NEW S \in SUBSET (1..n), S # {}
  PROVE  \E m \in S : \A j \in S : j <= m
<1> DEFINE R == OpToRel(<, Nat)
           T == {n - i : i \in S}
<1>1. \A i \in S : i \in 1..n /\ n - i \in Nat
  OBVIOUS
<1>2. T \subseteq Nat /\ T # {}
  BY <1>1, Zenon
<1>3. IsWellFoundedOn(R, Nat)
  BY NatLessThanWellFounded
<1>4. \A x, y \in Nat : x < y => <<x, y>> \in R
  BY DEF OpToRel
<1> HIDE DEF R, T
<1>5. \E x \in T : \A y \in T : ~(<<y, x>> \in R)
  BY <1>2, <1>3, WFMin, Zenon
<1>6. PICK x \in T : \A y \in T : ~(<<y, x>> \in R)
  BY <1>5
<1>7. \A y \in T : x <= y
  <2> TAKE y \in T
  <2>1. x \in Nat /\ y \in Nat
    BY <1>2
  <2>2. ~(y < x)
    BY <1>4, <1>6, <2>1, Zenon
  <2> QED
    BY <2>1, <2>2
<1> USE DEF T
<1>8. PICK m \in S : x = n - m
  BY <1>6
<1>9. \A j \in S : n - m <= n - j
  BY <1>7, <1>8
<1> QED
  BY <1>8, <1>9

\* Taking one element out of a sequence.
Without(s, i) == SubSeq(s, 1, i - 1) \o SubSeq(s, i + 1, Len(s))
LEMMA Removed ==
  ASSUME NEW S, NEW s \in Seq(S), NEW i \in DOMAIN s
  PROVE  /\ Without(s, i) \in Seq(S) /\ Len(Without(s, i)) = Len(s) - 1
         /\ i = 1 => \A j \in 1..Len(Without(s, i)) : Without(s, i)[j] = s[j + 1]
<1> DEFINE r == Without(s, i)
<1> USE DEF Without
<1>1. i \in 1..Len(s) /\ Len(s) \in Nat
  OBVIOUS
<1>2. /\ SubSeq(s, 1, i - 1) \in Seq(S)
      /\ Len(SubSeq(s, 1, i - 1)) = i - 1
  <2>1. \A j \in 1..(i - 1) : s[j] \in S
    BY <1>1
  <2> QED
    BY <1>1, <2>1, SubSeqProperties
<1>3. /\ SubSeq(s, i + 1, Len(s)) \in Seq(S)
      /\ Len(SubSeq(s, i + 1, Len(s))) = Len(s) - i
      /\ \A j \in 1..(Len(s) - i) : SubSeq(s, i + 1, Len(s))[j] = s[i + j]
  <2>1. \A j \in (i + 1)..Len(s) : s[j] \in S
    BY <1>1
  <2>2. /\ SubSeq(s, i + 1, Len(s)) \in Seq(S)
        /\ Len(SubSeq(s, i + 1, Len(s))) = IF i + 1 <= Len(s) THEN Len(s) - (i + 1) + 1 ELSE 0
        /\ \A j \in 1..(Len(s) - (i + 1) + 1) : SubSeq(s, i + 1, Len(s))[j] = s[(i + 1) + j - 1]
    BY <1>1, <2>1, SubSeqProperties
  <2> QED
    BY <1>1, <2>2
<1>4. r \in Seq(S) /\ Len(r) = Len(s) - 1
  <2>1. r \in Seq(S) /\ Len(r) = Len(SubSeq(s, 1, i - 1)) + Len(SubSeq(s, i + 1, Len(s)))
    BY <1>2, <1>3, ConcatProperties
  <2>2. Len(r) = (i - 1) + (Len(s) - i)
    BY <1>2, <1>3, <2>1, Zenon
  <2>3. (i - 1) + (Len(s) - i) = Len(s) - 1
    BY <1>1
  <2> QED
    BY <2>1, <2>2, <2>3, Zenon
<1>5. ASSUME i = 1, NEW j \in 1..Len(r) PROVE r[j] = s[j + 1]
  BY <1>1, <1>2, <1>3, <1>4, <1>5, ConcatProperties
<1> QED
  BY <1>4, <1>5

\* The elements of a sequence, of its tail and of a sequence of one.
LEMMA ElementsOf ==
  ASSUME NEW S, NEW q \in Seq(S)
  PROVE  /\ \A i \in DOMAIN q : q[i] \in S
         /\ q # <<>> => /\ Head(q) = q[1] /\ q[1] \in S
                        /\ \A i \in DOMAIN Tail(q) : Tail(q)[i] \in S
  OBVIOUS
LEMMA Singleton == ASSUME NEW S, NEW e \in S PROVE <<e>> \in Seq(S)
  OBVIOUS

\* The elements of a sequence one was appended to.
LEMMA AppendElements ==
  ASSUME NEW S, NEW q \in Seq(S), NEW e \in S
  PROVE  \A i \in DOMAIN Append(q, e) :
           (i \in DOMAIN q /\ Append(q, e)[i] = q[i]) \/ (i = Len(q) + 1 /\ Append(q, e)[i] = e)
<1>1. DOMAIN Append(q, e) = 1..(Len(q) + 1) /\ DOMAIN q = 1..Len(q) /\ Len(q) \in Nat
  BY AppendProperties
<1>2. \A i \in 1..(Len(q) + 1) : i \in 1..Len(q) \/ i = Len(q) + 1
  BY <1>1
<1>3. /\ \A i \in 1..Len(q) : Append(q, e)[i] = q[i]
      /\ Append(q, e)[Len(q) + 1] = e
  BY AppendProperties
<1> QED
  BY <1>1, <1>2, <1>3

\* Numbers that follow one another, when the next one is appended and when the
\* first is taken away.
LEMMA FollowAppend ==
  ASSUME NEW S, NEW q \in Seq(S), NEW n \in Nat, NEW e \in S, Follow(q, n), e = n + Len(q) + 1
  PROVE  Follow(Append(q, e), n)
<1>1. /\ Len(Append(q, e)) = Len(q) + 1 /\ Len(q) \in Nat
      /\ \A i \in 1..Len(q) : Append(q, e)[i] = q[i]
      /\ Append(q, e)[Len(q) + 1] = e
  BY AppendProperties
<1>2. \A i \in 1..(Len(q) + 1) : i \in 1..Len(q) \/ i = Len(q) + 1
  BY <1>1
<1>3. n + Len(q) + 1 = n + (Len(q) + 1)
  BY <1>1
<1> QED
  BY <1>1, <1>2, <1>3, Zenon DEF Follow

LEMMA Difference ==
  ASSUME NEW a \in Nat, NEW b \in Nat, NEW c \in Nat
  PROVE  (a + 1) - (b + 1) - c = a - b - c /\ a - (b - 1) - (c + 1) = a - b - c
  OBVIOUS

LEMMA FollowRest ==
  ASSUME NEW q, Len(q) \in Nat \ {0}, NEW n \in Nat, Follow(q, n),
         NEW r, Len(r) = Len(q) - 1, \A j \in 1..Len(r) : r[j] = q[j + 1]
  PROVE  Follow(r, n + 1) /\ q[1] = n + 1
<1>1. \A j \in 1..Len(r) : j + 1 \in 1..Len(q) /\ n + (j + 1) = (n + 1) + j
  OBVIOUS
<1>2. Follow(r, n + 1)
  BY <1>1 DEF Follow
<1>3. q[1] = n + 1
  BY DEF Follow
<1> QED
  BY <1>2, <1>3

\* Two sequences of which the second goes on where the first ends.
LEMMA FollowConcat ==
  ASSUME NEW S, NEW b \in Seq(S), NEW w \in Seq(S), NEW n \in Nat,
         Follow(b, n), Follow(w, n + Len(b))
  PROVE  \A i \in DOMAIN (b \o w) : (b \o w)[i] = n + i
<1>1. /\ b \o w \in Seq(S) /\ Len(b \o w) = Len(b) + Len(w) /\ Len(b) \in Nat /\ Len(w) \in Nat
      /\ \A i \in 1..(Len(b) + Len(w)) : (b \o w)[i] = IF i <= Len(b) THEN b[i] ELSE w[i - Len(b)]
  BY ConcatProperties
<1>2. DOMAIN (b \o w) = 1..(Len(b) + Len(w))
  BY <1>1
<1>3. ASSUME NEW i \in 1..(Len(b) + Len(w)) PROVE (b \o w)[i] = n + i
  <2>1. CASE i <= Len(b)
    BY <1>1, <2>1 DEF Follow
  <2>2. CASE ~(i <= Len(b))
    <3>1. i - Len(b) \in 1..Len(w) /\ (n + Len(b)) + (i - Len(b)) = n + i
      BY <1>1, <2>2
    <3> QED
      BY <1>1, <2>2, <3>1 DEF Follow
  <2> QED
    BY <2>1, <2>2
<1> QED
  BY <1>2, <1>3
=============================================================================
