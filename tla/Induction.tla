----------------------------- MODULE Induction ------------------------------
(***************************************************************************)
(* Induction over the natural numbers and recursive functions, stated with *)
(* sets and functions in place of operators, so that the provers can use   *)
(* them, and the few facts about sequences that the proofs need.           *)
(***************************************************************************)
EXTENDS Integers, Sequences, WellFoundedInduction, TLAPS

\* A sequence is a function on the positions up to its length,
LEMMA SeqLen ==
    ASSUME NEW D, NEW s \in Seq(D)
    PROVE  Len(s) \in Nat /\ DOMAIN s = 1..Len(s) /\ s \in [1..Len(s) -> D]
OBVIOUS

\* ... with elements at all of them.
LEMMA SeqElement ==
    ASSUME NEW D, NEW s \in Seq(D), NEW i \in 1..Len(s)
    PROVE  s[i] \in D
OBVIOUS

\* Only the empty sequence has none.
LEMMA SeqEmpty ==
    ASSUME NEW D
    PROVE  /\ <<>> \in Seq(D) /\ Len(<<>>) = 0
           /\ \A s \in Seq(D) : s # <<>> => Len(s) \in Nat \ {0}
OBVIOUS

\* Elements of a set are elements of a larger one.
LEMMA SeqWider ==
    ASSUME NEW D, NEW E, D \subseteq E, NEW s \in Seq(D)
    PROVE  s \in Seq(E)
OBVIOUS

\* Append puts an element behind the others.
LEMMA SeqAppend ==
    ASSUME NEW D, NEW s \in Seq(D), NEW e \in D
    PROVE  /\ Append(s, e) \in Seq(D) /\ Append(s, e) # <<>>
           /\ Len(Append(s, e)) = Len(s) + 1 /\ Append(s, e)[Len(s) + 1] = e
           /\ \A i \in 1..Len(s) : Append(s, e)[i] = s[i]
OBVIOUS

\* Tail moves all but the first element down by one.
LEMMA SeqTail ==
    ASSUME NEW D, NEW s \in Seq(D), s # <<>>
    PROVE  /\ Head(s) \in D /\ Tail(s) \in Seq(D) /\ Len(Tail(s)) = Len(s) - 1
           /\ \A i \in 1..Len(Tail(s)) : Tail(s)[i] = s[i + 1]
OBVIOUS

\* SubSeq takes the elements from m to n.
LEMMA SeqPart ==
    ASSUME NEW D, NEW s, NEW m \in Int, NEW n \in Int, \A i \in m..n : s[i] \in D
    PROVE  /\ SubSeq(s, m, n) \in Seq(D)
           /\ Len(SubSeq(s, m, n)) = IF m <= n THEN n - m + 1 ELSE 0
           /\ \A i \in 1..(n - m + 1) : SubSeq(s, m, n)[i] = s[m + i - 1]
OBVIOUS

\* A concatenation has the elements of both, one after the other.
LEMMA SeqConcat ==
    ASSUME NEW D, NEW s \in Seq(D), NEW t \in Seq(D)
    PROVE  /\ s \o t \in Seq(D) /\ Len(s \o t) = Len(s) + Len(t)
           /\ \A i \in 1..(Len(s) + Len(t)) :
                (s \o t)[i] = IF i <= Len(s) THEN s[i] ELSE t[i - Len(s)]
OBVIOUS

\* ... and with nothing it changes nothing.
LEMMA SeqConcatEmpty ==
    ASSUME NEW D, NEW s \in Seq(D)
    PROVE  s \o <<>> = s /\ <<>> \o s = s
OBVIOUS

\* A set of numbers has a least one.
LEMMA LeastNumber ==
    ASSUME NEW T \in SUBSET Nat, T # {}
    PROVE  \E x \in T : \A y \in T : x <= y
<1> DEFINE R == {p \in Nat \X Nat : p[1] < p[2]}
<1>1. IsWellFoundedOn(R, Nat)
  BY NatLessThanWellFounded DEF OpToRel
<1>2. \A a, b \in Nat : a < b => <<a, b>> \in R
  BY Zenon
<1> HIDE DEF R
<1>3. PICK x \in T : \A y \in T : ~(<<y, x>> \in R)
  BY <1>1, WFMin, Zenon
<1>4. \A y \in T : ~(y < x)
  BY <1>2, <1>3, Zenon
<1>5. QED
  BY <1>4

\* A set of numbers that has 0, and with a number below L the next one, has all
\* the numbers up to L.
LEMMA UpTo ==
    ASSUME NEW L \in Nat, NEW S, 0 \in S,
           \A n \in 1..L : n - 1 \in S => n \in S
    PROVE  \A n \in 0..L : n \in S
<1> DEFINE T == (0..L) \ S
<1> SUFFICES ASSUME T # {} PROVE FALSE
  OBVIOUS
<1>1. T \in SUBSET Nat
  OBVIOUS
<1>2. PICK x \in T : \A y \in T : x <= y
  BY <1>1, LeastNumber, Zenon
<1>3. x \in 0..L /\ x \notin S /\ x # 0
  OBVIOUS
<1>4. x - 1 \in 0..L /\ x \in 1..L /\ ~(x <= x - 1)
  BY <1>3
<1>5. x - 1 \in S
  BY <1>2, <1>4
<1>6. QED
  BY <1>3, <1>4, <1>5

\* f starts with a and follows g along the sequence s.
Follows(f, X, a, g, s) ==
    /\ f \in [0..Len(s) -> X]
    /\ \A n \in 0..Len(s) : f[n] = IF n = 0 THEN a ELSE g[<<f[n - 1], s[n]>>]

\* There is such a function: a definition by recursion along s has a solution.
LEMMA AlongSequence ==
    ASSUME NEW X, NEW a \in X, NEW D, NEW g \in [X \X D -> X], NEW s \in Seq(D)
    PROVE  \E f : Follows(f, X, a, g, s)
<1> DEFINE L == Len(s)
           Good(m, f) == /\ f \in [0..m -> X]
                         /\ \A n \in 0..m : f[n] = IF n = 0 THEN a
                                                   ELSE g[<<f[n - 1], s[n]>>]
           S == {m \in 0..L : \E f : Good(m, f)}
<1>1. L \in Nat /\ \A n \in 1..L : s[n] \in D
  BY SeqLen, SeqElement
<1> HIDE DEF L
<1>2. 0 \in S
  <2>1. Good(0, [n \in 0..0 |-> a])
    OBVIOUS
  <2> HIDE DEF Good
  <2>2. QED
    BY <1>1, <2>1
<1>3. ASSUME NEW m \in 1..L, m - 1 \in S PROVE m \in S
  <2>1. PICK f : Good(m - 1, f)
    BY <1>3
  <2> DEFINE h == [n \in 0..m |-> IF n = m THEN g[<<f[m - 1], s[m]>>] ELSE f[n]]
  <2>2. /\ m - 1 \in 0..(m - 1) /\ m # 0 /\ m \in 0..m /\ m - 1 # m
        /\ \A n \in 0..m : n # m => n \in 0..(m - 1)
        /\ \A n \in 0..m : n # 0 /\ n # m => n - 1 \in 0..m /\ n - 1 # m
    OBVIOUS
  <2>3. f[m - 1] \in X /\ s[m] \in D
    BY <1>1, <2>1, <2>2
  <2>4. g[<<f[m - 1], s[m]>>] \in X
    BY <2>3
  <2>5. h \in [0..m -> X]
    BY <2>1, <2>2, <2>4
  <2>6. ASSUME NEW n \in 0..m
        PROVE  h[n] = IF n = 0 THEN a ELSE g[<<h[n - 1], s[n]>>]
    <3>1. CASE n = m
      <4>1. h[n] = g[<<f[m - 1], s[m]>>] /\ h[n - 1] = f[m - 1]
        BY <2>2, <3>1
      <4>2. QED
        BY <2>2, <3>1, <4>1, Zenon
    <3>2. CASE n # m
      <4>1. h[n] = f[n] /\ n \in 0..(m - 1)
        BY <2>2, <3>2
      <4>2. n # 0 => h[n - 1] = f[n - 1]
        BY <2>2, <3>2
      <4>3. QED
        BY <2>1, <4>1, <4>2, Zenon
    <3>3. QED
      BY <3>1, <3>2
  <2>7. Good(m, h)
    BY <2>5, <2>6, Zenon
  <2> HIDE DEF Good, h
  <2>8. QED
    BY <1>1, <2>7
<1> HIDE DEF S
<1>4. \A n \in 0..L : n \in S
  <2>1. \A n \in 1..L : n - 1 \in S => n \in S
    BY <1>3
  <2>2. QED
    BY <1>1, <1>2, <2>1, UpTo, Zenon
<1>5. QED
  BY <1>1, <1>4 DEF S, L, Follows

=============================================================================
